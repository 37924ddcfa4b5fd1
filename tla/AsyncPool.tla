------------------------------ MODULE AsyncPool ------------------------------
(***************************************************************************)
(* The pool of outgoing connections (cnt_pool.c, pool_api.c) and the       *)
(* asynchronous client on each of them (async_api.c, async_libev.c).       *)
(*                                                                         *)
(* A thread takes a connection from the pool, or opens one when the pool   *)
(* is empty, queues commands on it and starts it.  Its event loop then     *)
(* sends one command at a time, reads the reply and calls the command's    *)
(* callback; after the last it gives the connection back.  A connection    *)
(* that breaks is taken out of the count and freed.                        *)
(*                                                                         *)
(* The pool is a free_queue_list, whose operations are atomic (TaskRing)   *)
(* and which has room for more connections than the model opens.  A failed *)
(* allocation and too much data end a connection like an error of the      *)
(* socket does, and are not told apart from it.                            *)
(***************************************************************************)
EXTENDS Integers, Sequences, FiniteSets, SequencesExt

CONSTANTS Threads,     \* threads with an event loop that use the pool
          MaxAsks,     \* bound on the takings of a connection
          MaxPairs,    \* bound on the takings that queue two commands, not one
          MaxFails     \* bound on failing connects and broken connections

ASSUME PoolAssumption == /\ {MaxAsks, MaxPairs, MaxFails} \subseteq Nat
                         /\ IsFiniteSet(Threads)

Conns == 1 .. MaxAsks                  \* a taking opens at most one
Cmds == 1 .. MaxAsks + MaxPairs
Null == 0                              \* the reply argument NULL

VARIABLES qlist, use,  \* struct cnt_pool
          mem,         \* struct async_ctx: "none", "live", "freed"
          work,        \* commands queued on a connection and not called back
          owner,       \* the thread whose loop it is bound to, while it matters
          rev, wev,    \* whether its watchers are started
          step, dosize,\* of http_status, while a reply is partly parsed
          asked,       \* the peer: requests it has to answer
          reply,       \* replies on their way, each with its parts to come
          shut,        \* the peer has closed the connection
          pc, idx, cur,\* each thread: where it is, its idx and connection
          npull,       \* takings so far
          asks,        \* the commands of each start, in order
          got,         \* the arguments a command's callback has had
          fails        \* failing connects and broken connections so far

pool == <<qlist, use>>
events == <<owner, rev, wev>>
parse == <<step, dosize>>
peer == <<asked, reply, shut>>
loops == <<pc, idx, cur>>
hist == <<npull, asks, got, fails>>
vars == <<pool, mem, work, events, parse, peer, loops, hist>>

Init == /\ qlist = <<>> /\ use = 0
        /\ mem = [c \in Conns |-> "none"]
        /\ work = [c \in Conns |-> <<>>]
        /\ owner = [c \in Conns |-> Null]
        /\ rev = [c \in Conns |-> FALSE] /\ wev = [c \in Conns |-> FALSE]
        /\ step = [c \in Conns |-> 0] /\ dosize = [c \in Conns |-> 0]
        /\ asked = [c \in Conns |-> <<>>] /\ reply = [c \in Conns |-> <<>>]
        /\ shut = [c \in Conns |-> FALSE]
        /\ pc = [t \in Threads |-> "idle"]
        /\ idx = [t \in Threads |-> 0] /\ cur = [t \in Threads |-> 0]
        /\ npull = 0 /\ asks = <<>> /\ fails = 0
        /\ got = [k \in Cmds |-> <<>>]

Go(t, l) == pc' = [pc EXCEPT ![t] = l]

-----------------------------------------------------------------------------
(* Taking a connection: pool_api_gain, cnt_pull. *)

\* async_bind, async_command for each of one or two commands, async_startup:
\* only this thread uses the connection now.
Start(t, c) ==
    \E n \in {1, 2} :
        LET k == Cardinality(UNION Range(asks))
            new == [i \in 1 .. n |-> k + i]
        IN  /\ n = 2 => k - Len(asks) < MaxPairs
            /\ work' = [work EXCEPT ![c] = @ \o new]
            /\ rev' = [rev EXCEPT ![c] = FALSE]
            /\ wev' = [wev EXCEPT ![c] = TRUE]
            /\ owner' = [owner EXCEPT ![c] = t]
            /\ asks' = Append(asks, Range(new))

\* A thread in no handler takes the oldest connection of the pool, or has to
\* open one.
PullOk(t) ==
    /\ pc[t] = "idle" /\ npull < MaxAsks /\ qlist # <<>>
    /\ npull' = npull + 1
    /\ qlist' = Tail(qlist)
    /\ Start(t, Head(qlist))
    /\ UNCHANGED <<use, mem, parse, peer, loops, got, fails>>

PullEmpty(t) ==
    /\ pc[t] = "idle" /\ npull < MaxAsks /\ qlist = <<>>
    /\ npull' = npull + 1
    /\ Go(t, "count")
    /\ UNCHANGED <<pool, mem, work, events, parse, peer, idx, cur, asks, got, fails>>

\* use is read, then counted up by a compare-and-swap that may have to be
\* tried again.
CountRead(t) ==
    /\ pc[t] = "count"
    /\ idx' = [idx EXCEPT ![t] = use]
    /\ Go(t, "swap")
    /\ UNCHANGED <<pool, mem, work, events, parse, peer, cur, hist>>

CountSwap_Store(t) ==
    /\ pc[t] = "swap"
    /\ use' = idx[t] + 1
    /\ Go(t, "open")
    /\ idx' = [idx EXCEPT ![t] = 0]
    /\ UNCHANGED <<qlist, mem, work, events, parse, peer, cur, hist>>

CountSwap(t) ==
    /\ pc[t] = "swap"
    /\ IF use = idx[t] THEN use' = use + 1 /\ Go(t, "open")
                       ELSE use' = use /\ Go(t, "count")
    /\ idx' = [idx EXCEPT ![t] = 0]
    /\ UNCHANGED <<qlist, mem, work, events, parse, peer, cur, hist>>

\* new_connect.  When the peer cannot be reached the caller gets NULL, and use
\* keeps its value.
OpenOk(t) ==
    /\ pc[t] = "open"
    /\ \E c \in Conns :
          /\ mem[c] = "none" /\ \A d \in 1 .. c - 1 : mem[d] # "none"
          /\ mem' = [mem EXCEPT ![c] = "live"]
          /\ Start(t, c)
    /\ Go(t, "idle")
    /\ UNCHANGED <<pool, parse, peer, idx, cur, npull, got, fails>>

OpenFails(t) ==
    /\ pc[t] = "open" /\ fails < MaxFails
    /\ fails' = fails + 1
    /\ Go(t, "idle")
    /\ UNCHANGED <<pool, mem, work, events, parse, peer, idx, cur, npull, asks, got>>

-----------------------------------------------------------------------------
(* The event loop: _async_handle_send, async_proto_http, async_proto_redis. *)

\* A watcher of c fires in the loop c is bound to.
Fires(t, c, watcher) == pc[t] = "idle" /\ owner[c] = t /\ watcher[c]

\* The rest of the command at work is sent.  To a connection the peer has
\* closed, send may still succeed.
Send(t, c) ==
    /\ Fires(t, c, wev)
    /\ asked' = IF shut[c] THEN asked
                ELSE [asked EXCEPT ![c] = Append(@, Head(work[c]))]
    /\ wev' = [wev EXCEPT ![c] = FALSE]
    /\ rev' = [rev EXCEPT ![c] = TRUE]
    /\ UNCHANGED <<pool, mem, work, owner, parse, reply, shut, loops, hist>>

\* net_recv has some of the reply.  http_client_handle begins anew when
\* nothing is parsed yet or step has been reset; in the middle of a reply it
\* then finds an error.  Redis replies are looked at as a whole instead.
Part(t, c) ==
    /\ Fires(t, c, rev) /\ reply[c] # <<>> /\ Head(reply[c]).parts = 2
    /\ reply' = [reply EXCEPT ![c][1].parts = 1]
    /\ dosize' = [dosize EXCEPT ![c] = 1]
    /\ step' = [step EXCEPT ![c] = 1]
    /\ UNCHANGED <<pool, mem, work, events, asked, shut, loops, hist>>

Garbled(c) == dosize[c] > 0 /\ step[c] = 0

\* Only when the rest of the reply is blank (CR, LF) there is no error: the new
\* parser skips it and goes on waiting for a reply.
Blank(t, c) ==
    /\ Fires(t, c, rev) /\ reply[c] # <<>> /\ Garbled(c)
    /\ reply' = [reply EXCEPT ![c] = Tail(@)]
    /\ step' = [step EXCEPT ![c] = 1]
    /\ UNCHANGED <<pool, mem, work, events, dosize, asked, shut, loops, hist>>

\* The reply is complete: its command's callback runs, and the next command is
\* sent, or the list is freed and the connection goes back to the pool.
Reply_Partial(t, c) ==
    /\ Fires(t, c, rev) /\ reply[c] # <<>> /\ ~Garbled(c)
    /\ got' = [got EXCEPT ![Head(work[c])] = Append(@, Head(reply[c]).cmd)]
    /\ reply' = [reply EXCEPT ![c] = IF @[1].parts = 1 THEN Tail(@)
                                     ELSE <<[@[1] EXCEPT !.parts = 1]>> \o Tail(@)]
    /\ work' = [work EXCEPT ![c] = Tail(@)]
    /\ dosize' = [dosize EXCEPT ![c] = 0]
    /\ rev' = [rev EXCEPT ![c] = FALSE]
    /\ IF Tail(work[c]) # <<>>
       THEN wev' = [wev EXCEPT ![c] = TRUE] /\ UNCHANGED <<pc, cur>>
       ELSE cur' = [cur EXCEPT ![t] = c] /\ Go(t, "finish") /\ UNCHANGED wev
    /\ UNCHANGED <<step, pool, mem, owner, asked, shut, idx, npull, asks, fails>>

Reply_NoWrite(t, c) ==
    /\ Fires(t, c, rev) /\ reply[c] # <<>> /\ Head(reply[c]).parts = 1
    /\ ~Garbled(c)
    /\ got' = [got EXCEPT ![Head(work[c])] = Append(@, Head(reply[c]).cmd)]
    /\ reply' = [reply EXCEPT ![c] = Tail(@)]
    /\ work' = [work EXCEPT ![c] = Tail(@)]
    /\ dosize' = [dosize EXCEPT ![c] = 0]
    /\ rev' = [rev EXCEPT ![c] = FALSE]
    /\ IF Tail(work[c]) # <<>>
       THEN UNCHANGED <<pc, cur, step>>
       ELSE cur' = [cur EXCEPT ![t] = c] /\ Go(t, "finish") /\ UNCHANGED step
    /\ UNCHANGED <<wev, pool, mem, owner, asked, shut, idx, npull, asks, fails>>

Reply(t, c) ==
    /\ Fires(t, c, rev) /\ reply[c] # <<>> /\ Head(reply[c]).parts = 1
    /\ ~Garbled(c)
    /\ got' = [got EXCEPT ![Head(work[c])] = Append(@, Head(reply[c]).cmd)]
    /\ reply' = [reply EXCEPT ![c] = Tail(@)]
    /\ work' = [work EXCEPT ![c] = Tail(@)]
    /\ dosize' = [dosize EXCEPT ![c] = 0]
    /\ rev' = [rev EXCEPT ![c] = FALSE]
    /\ IF Tail(work[c]) # <<>>
       THEN /\ wev' = [wev EXCEPT ![c] = TRUE]
            /\ step' = [step EXCEPT ![c] = 0]
            /\ UNCHANGED <<pc, cur>>
       ELSE /\ cur' = [cur EXCEPT ![t] = c]
            /\ Go(t, "finish")
            /\ UNCHANGED <<wev, step>>
    /\ UNCHANGED <<pool, mem, owner, asked, shut, idx, npull, asks, fails>>

\* finishwork: _recy_pool_cb, cnt_push.
Finish_Twice(t) ==
    /\ pc[t] = "finish"
    /\ qlist' = qlist \o <<cur[t], cur[t]>>
    /\ owner' = [owner EXCEPT ![cur[t]] = Null]
    /\ Go(t, "trail")
    /\ UNCHANGED <<use, mem, work, rev, wev, parse, peer, idx, cur, hist>>

Finish(t) ==
    /\ pc[t] = "finish"
    /\ qlist' = Append(qlist, cur[t])
    /\ owner' = [owner EXCEPT ![cur[t]] = Null]
    /\ Go(t, "trail")
    /\ UNCHANGED <<use, mem, work, rev, wev, parse, peer, idx, cur, hist>>

\* The handler still resets step, when the connection may be another thread's
\* or freed.
Trail(t) ==
    /\ pc[t] = "trail"
    /\ step' = [step EXCEPT ![cur[t]] = 0]
    /\ cur' = [cur EXCEPT ![t] = 0]
    /\ Go(t, "idle")
    /\ UNCHANGED <<pool, mem, work, events, dosize, peer, idx, hist>>

\* S_BROKEN, R_BROKEN: the connection is counted off (cnt_free), the command
\* at work is told, the ones behind it are not, and everything is freed.
Broken(t, c) ==
    /\ \/ Fires(t, c, wev) /\ shut[c]
       \/ Fires(t, c, rev) /\ shut[c] /\ reply[c] = <<>>
       \/ Fires(t, c, rev) /\ reply[c] # <<>> /\ Garbled(c)
    /\ use' = use - 1
    /\ got' = [got EXCEPT ![Head(work[c])] = Append(@, Null)]
    /\ work' = [work EXCEPT ![c] = <<>>]
    /\ rev' = [rev EXCEPT ![c] = FALSE] /\ wev' = [wev EXCEPT ![c] = FALSE]
    /\ mem' = [mem EXCEPT ![c] = "freed"]
    /\ owner' = [owner EXCEPT ![c] = Null]
    /\ UNCHANGED <<qlist, parse, peer, loops, npull, asks, fails>>

-----------------------------------------------------------------------------
(* The peer. *)

\* It answers requests in order; a reply may arrive in two parts.
Answer(c) ==
    /\ asked[c] # <<>> /\ ~shut[c]
    /\ \E n \in {1, 2} :
          reply' = [reply EXCEPT ![c] = Append(@, [cmd |-> Head(asked[c]), parts |-> n])]
    /\ asked' = [asked EXCEPT ![c] = Tail(@)]
    /\ UNCHANGED <<pool, mem, work, events, parse, shut, loops, hist>>

\* It closes the connection, also one that is idle in the pool; what it has
\* sent may still be read or not.
Shut(c) ==
    /\ mem[c] = "live" /\ ~shut[c] /\ fails < MaxFails
    /\ fails' = fails + 1
    /\ shut' = [shut EXCEPT ![c] = TRUE]
    /\ asked' = [asked EXCEPT ![c] = <<>>]
    /\ \E r \in {reply[c], <<>>} : reply' = [reply EXCEPT ![c] = r]
    /\ UNCHANGED <<pool, mem, work, events, parse, loops, npull, asks, got>>

-----------------------------------------------------------------------------
\* A thread goes on: with what it has begun, or with an event of its loop.
Step(t) == \/ CountRead(t) \/ CountSwap(t) \/ OpenOk(t) \/ OpenFails(t)
           \/ Finish(t) \/ Trail(t)
           \/ \E c \in Conns :
                 Send(t, c) \/ Part(t, c) \/ Blank(t, c) \/ Reply(t, c) \/ Broken(t, c)

\* The blank rest of a reply was skipped, and the peer owes no other.
Skipped(c) == rev[c] /\ dosize[c] > 0 /\ asked[c] = <<>> /\ reply[c] = <<>> /\ ~shut[c]

\* All has been asked and answered, or waits for nothing.
Done == /\ npull = MaxAsks
        /\ \A t \in Threads : pc[t] = "idle"
        /\ \A c \in Conns : ~wev[c] /\ (rev[c] => Skipped(c))
        /\ UNCHANGED vars

Next == \/ \E t \in Threads : PullOk(t) \/ PullEmpty(t) \/ Step(t)
        \/ \E c \in Conns : Answer(c) \/ Shut(c)
        \/ Done

\* Threads run, their loops find the watchers that are ready, and a peer that
\* does not close a connection answers in the end; the client has no time
\* limit of its own.
Spec == Init /\ [][Next]_vars /\ \A t \in Threads : WF_vars(Step(t))
             /\ \A c \in Conns : WF_vars(Answer(c))

-----------------------------------------------------------------------------
TypeOK == /\ qlist \in Seq(Conns) /\ use \in Nat
          /\ mem \in [Conns -> {"none", "live", "freed"}]
          /\ work \in [Conns -> Seq(Cmds)]
          /\ owner \in [Conns -> Threads \cup {Null}]
          /\ rev \in [Conns -> BOOLEAN] /\ wev \in [Conns -> BOOLEAN]
          /\ step \in [Conns -> {0, 1}] /\ dosize \in [Conns -> {0, 1}]
          /\ asked \in [Conns -> Seq(Cmds)]
          /\ reply \in [Conns -> Seq([cmd : Cmds, parts : {1, 2}])]
          /\ shut \in [Conns -> BOOLEAN]
          /\ pc \in [Threads -> {"idle", "count", "swap", "open",
                                 "finish", "trail"}]
          /\ idx \in [Threads -> Nat] /\ cur \in [Threads -> Conns \cup {0}]
          /\ npull \in Nat /\ asks \in Seq(SUBSET Cmds) /\ fails \in Nat
          /\ got \in [Cmds -> Seq(Cmds \cup {Null})]

Live == {c \in Conns : mem[c] = "live"}

\* A connection is in exactly one place while it exists: once in the pool, in
\* a handler that is about to give it back, or started in one loop.  None is lost, none is
\* given to two threads, and none is in the pool after it was freed.
OnePlace ==
    \A c \in Conns :
        Cardinality({i \in DOMAIN qlist : qlist[i] = c})
        + Cardinality({t \in Threads : cur[t] = c /\ pc[t] = "finish"})
        + (IF rev[c] \/ wev[c] THEN 1 ELSE 0) = IF c \in Live THEN 1 ELSE 0

\* A callback gets the reply to its own command, or NULL when the connection
\* broke, and runs once, in the order of the commands, whoever used the
\* connection before.
RightReply ==
    /\ \A k \in Cmds : got[k] \in {<<>>, <<k>>, <<Null>>}
    /\ \A n \in DOMAIN asks : \A j, k \in asks[n] :
           j < k /\ got[k] # <<>> => got[j] = <<j>>

\* use counts at least the connections that exist or are being opened, so that
\* the assertion of cnt_free holds.  A connect that fails is never counted
\* off.
UseCovers == use >= Cardinality(Live) + Cardinality({t \in Threads : pc[t] = "open"})

\* Every command of a started connection is called back in the end, or the
\* connection broke and one before it was told.  The exception is a reply
\* whose parsing was begun anew at a blank rest, because the thread that had
\* the connection before reset step: nobody answers that command any more.
EachAskEnds ==
    \A n \in 1 .. MaxAsks :
        n \in DOMAIN asks ~>
            /\ n \in DOMAIN asks
            /\ \A k \in asks[n] :
                   \/ got[k] # <<>>
                   \/ \E j \in asks[n] : got[j] = <<Null>>
                   \/ \E c \in Conns : Skipped(c) /\ Range(work[c]) \cap asks[n] # {}

=============================================================================
