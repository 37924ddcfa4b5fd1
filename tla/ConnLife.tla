------------------------------ MODULE ConnLife ------------------------------
(***************************************************************************)
(* The life of a connection in the swift engine (swift_evcb.c): accepted   *)
(* by the leader, handed to a porter through a pipe, served in the         *)
(* porter's event loop request by request and closed there, after which    *)
(* the kernel may give its descriptor to the next connection at once.      *)
(*                                                                         *)
(* What belongs to a descriptor (work_status, the data_node and the queue  *)
(* item of major_def.c) outlives the connection.  A porter that is handed  *)
(* a descriptor whose last connection is still being taken down by another *)
(* porter keeps it in a queue of its own and tries again.                  *)
(*                                                                         *)
(* A request is run by the porter that receives it or, when the program    *)
(* configures it so (crystal's spray_main.c does), by every porter from a  *)
(* list of its own, and answered by the last one, in its loop: the watcher *)
(* changes its loop, while its data go on naming the first porter.  The    *)
(* next request is then run with the task and the loop of that porter by   *)
(* another thread.  What follows is a race of which the model has one      *)
(* outcome (nothing else uses them at that moment), and crossed records    *)
(* that it may have happened: nothing is claimed from there on.            *)
(***************************************************************************)
EXTENDS Naturals, Sequences, Functions

CONSTANTS P,           \* G_PORTER_COUNTS
          Fds,         \* the descriptors connections can have
          Big,         \* the ones from MAX_LIMIT_FD on, which are refused
          Heap,        \* the ones from MAX_CONNECT on, with a node on the heap
          Room,        \* descriptors a pipe takes
          MaxConns,    \* bound on the connections accepted
          MaxSends     \* bound on what the peers send

ASSUME ConnAssumption == /\ {P, Room} \subseteq Nat \ {0}
                         /\ {MaxConns, MaxSends} \subseteq Nat
                         /\ Fds \subseteq Nat \ {0} /\ Big \cup Heap \subseteq Fds

Porters == 1 .. P
Conns == 1 .. MaxConns
None == 0

\* What a peer can send: a request for one porter or for all, one that has no
\* type or no function, part of a request, or what cannot be parsed.
Kind == {"alone", "whole", "none"}
Input == Kind \cup {"part", "bad"}

VARIABLES sock,        \* per descriptor, the open connection or None
          inbox,       \* per connection, what its peer has sent and not read
          sends,       \* how often peers have sent
          hand, robin, \* the leader: descriptor to dispatch, next porter
          pipe, qlist, \* each porter's pipe and queue of descriptors
          work_status, \* addr_node: "no" or "is"
          node,        \* the node of a descriptor: "null", "live"
          recv, send,  \* its buffers: the connections whose bytes are in them
          dosize,      \* those whose bytes the parser has gone past
          control,     \* "ok", or "error" when the answer is an error
          data,        \* the porter that the data of its watcher name
          watch,       \* its watcher: porter and "recv" or "send", or stopped
          tlist,       \* each porter's list of requests for all porters
          left,        \* per descriptor, the porters that have its request to run
          pc, fd, idx, \* each porter: place in a handler, its descriptor, next list
          naccept,     \* connections accepted
          served,      \* the open connections a porter has taken over
          stranded,    \* those with a request that nobody will answer
          crossed      \* a request was run with another porter's task

kernel == <<sock, inbox, sends>>
leader == <<hand, robin, naccept>>
queues == <<pipe, qlist>>
buffer == <<recv, send, dosize, control>>
slot == <<work_status, node, buffer, data, watch>>
tasks == <<tlist, left>>
loops == <<pc, fd, idx>>
ends == <<stranded, crossed>>
vars == <<kernel, leader, queues, slot, tasks, loops, served, ends>>

Stopped == [porter |-> None, cb |-> "none"]

Init == /\ sock = [f \in Fds |-> None]
        /\ inbox = [n \in Conns |-> "empty"]
        /\ sends = 0
        /\ hand = None /\ robin = 1 /\ naccept = 0
        /\ pipe = [p \in Porters |-> <<>>] /\ qlist = [p \in Porters |-> <<>>]
        /\ work_status = [f \in Fds |-> "no"]
        /\ node = [f \in Fds |-> IF f \in Heap THEN "null" ELSE "live"]
        /\ recv = [f \in Fds |-> {}] /\ send = [f \in Fds |-> {}]
        /\ dosize = [f \in Fds |-> {}]
        /\ control = [f \in Fds |-> "ok"]
        /\ data = [f \in Fds |-> None]
        /\ watch = [f \in Fds |-> Stopped]
        /\ tlist = [p \in Porters |-> <<>>] /\ left = [f \in Fds |-> {}]
        /\ pc = [p \in Porters |-> "loop"]
        /\ fd = [p \in Porters |-> None] /\ idx = [p \in Porters |-> 1]
        /\ served = {} /\ stranded = {} /\ crossed = FALSE

Go(p, l) == pc' = [pc EXCEPT ![p] = l]

-----------------------------------------------------------------------------
(* Peers. *)

\* A peer sends part of a request, all or the rest of it, or something that
\* cannot be parsed, or closes its end or breaks the connection.
PeerSends(n) ==
    /\ n \in Range(sock) /\ sends < MaxSends
    /\ inbox[n] \in {"empty", "part"}
    /\ \E what \in (Input \cup {"eof"}) \ {inbox[n]} :
           inbox' = [inbox EXCEPT ![n] = what]
    /\ sends' = sends + 1
    /\ UNCHANGED <<sock, leader, queues, slot, tasks, loops, served, ends>>

-----------------------------------------------------------------------------
(* The leader: swift_accept_cb, swift_dispatch_task. *)

\* The kernel gives a new connection any free descriptor; one that is too
\* large is closed again.
Accept ==
    /\ hand = None /\ naccept < MaxConns
    /\ naccept' = naccept + 1
    /\ \E f \in Fds :
          /\ sock[f] = None
          /\ IF f \in Big
             THEN UNCHANGED <<sock, hand>>
             ELSE /\ sock' = [sock EXCEPT ![f] = naccept + 1]
                  /\ hand' = f
    /\ UNCHANGED <<inbox, sends, robin, queues, slot, tasks, loops, served, ends>>

\* The next porter in turn gets the descriptor, if its pipe has room.
Dispatch_NoTurn ==
    /\ hand # None
    /\ robin' = robin + 1
    /\ IF Len(pipe[robin]) < Room
       THEN /\ pipe' = [pipe EXCEPT ![robin] = Append(@, hand)]
            /\ hand' = None
       ELSE UNCHANGED <<pipe, hand>>
    /\ UNCHANGED <<kernel, naccept, qlist, slot, tasks, loops, served, ends>>

Dispatch ==
    /\ hand # None
    /\ robin' = (robin % P) + 1
    /\ IF Len(pipe[robin]) < Room
       THEN /\ pipe' = [pipe EXCEPT ![robin] = Append(@, hand)]
            /\ hand' = None
       ELSE UNCHANGED <<pipe, hand>>
    /\ UNCHANGED <<kernel, naccept, qlist, slot, tasks, loops, served, ends>>

-----------------------------------------------------------------------------
(* A porter takes a descriptor over. *)

\* Its status is swapped, its node fetched (get_pool_addr: a new one when the
\* heap's was freed), its watcher started.
TakeOver(p, f) ==
    /\ work_status' = [work_status EXCEPT ![f] = "is"]
    /\ node' = [node EXCEPT ![f] = "live"]
    /\ data' = [data EXCEPT ![f] = p]
    /\ watch' = [watch EXCEPT ![f] = [porter |-> p, cb |-> "recv"]]
    /\ served' = served \cup {sock[f]}
    /\ IF node[f] = "live"
       THEN UNCHANGED buffer
       ELSE /\ recv' = [recv EXCEPT ![f] = {}] /\ send' = [send EXCEPT ![f] = {}]
            /\ dosize' = [dosize EXCEPT ![f] = {}]
            /\ control' = [control EXCEPT ![f] = "ok"]

\* fetch_pipe_work_task
FetchPipe_Drop(p) ==
    /\ pc[p] = "loop" /\ pipe[p] # <<>>
    /\ pipe' = [pipe EXCEPT ![p] = Tail(@)]
    /\ LET f == Head(pipe[p])
       IN  IF work_status[f] = "no" THEN TakeOver(p, f)
                                    ELSE UNCHANGED <<slot, served>>
    /\ UNCHANGED <<qlist, kernel, leader, tasks, loops, ends>>

FetchPipe_NoSwap(p) ==
    /\ pc[p] = "loop" /\ pipe[p] # <<>>
    /\ pipe' = [pipe EXCEPT ![p] = Tail(@)]
    /\ TakeOver(p, Head(pipe[p]))
    /\ UNCHANGED <<qlist, kernel, leader, tasks, loops, ends>>

FetchPipe(p) ==
    /\ pc[p] = "loop" /\ pipe[p] # <<>>
    /\ pipe' = [pipe EXCEPT ![p] = Tail(@)]
    /\ LET f == Head(pipe[p])
       IN  IF work_status[f] = "no"
           THEN TakeOver(p, f) /\ UNCHANGED qlist
           ELSE /\ qlist' = [qlist EXCEPT ![p] = Append(@, f)]
                /\ UNCHANGED <<slot, served>>
    /\ UNCHANGED <<kernel, leader, tasks, loops, ends>>

\* fetch_link_work_task
FetchLink(p) ==
    /\ pc[p] = "loop" /\ qlist[p] # <<>>
    /\ LET f == Head(qlist[p])
       IN  IF work_status[f] = "no"
           THEN /\ TakeOver(p, f)
                /\ qlist' = [qlist EXCEPT ![p] = Tail(@)]
           ELSE /\ qlist' = [qlist EXCEPT ![p] = Append(Tail(@), f)]
                /\ UNCHANGED <<slot, served>>
    /\ UNCHANGED <<kernel, leader, pipe, tasks, loops, ends>>

-----------------------------------------------------------------------------
(* A porter serves a connection: _swift_recv_cb, _swift_send_cb. *)

Fires(p, f, cb) == pc[p] = "loop" /\ watch[f] = [porter |-> p, cb |-> cb]
Watch(p, f, cb) == watch' = [watch EXCEPT ![f] = [porter |-> p, cb |-> cb]]

Emptied(n) == inbox' = [inbox EXCEPT ![n] = "empty"]

\* What the parser makes of the bytes received.  It goes on where it stopped
\* (hs.dosize), and when that counts bytes of an earlier connection, which are
\* no longer in the buffer, it starts at the wrong place.
Reads(f) ==
    LET what == inbox[sock[f]]
    IN  IF what \notin Input THEN {}
        ELSE IF dosize[f] \subseteq {sock[f]} THEN {what} ELSE Input

\* Part of a request is kept until the rest is there.
RecvPart(p, f) ==
    /\ Fires(p, f, "recv") /\ "part" \in Reads(f)
    /\ Emptied(sock[f])
    /\ recv' = [recv EXCEPT ![f] = @ \cup {sock[f]}]
    /\ dosize' = [dosize EXCEPT ![f] = @ \cup {sock[f]}]
    /\ UNCHANGED <<sock, sends, leader, queues, work_status, node, send, control, data,
                   watch, tasks, loops, served, ends>>

\* The task that a request is made into is that of the porter named by the
\* data of the watcher, whichever porter makes it.
Crosses(p, f) == crossed' = (crossed \/ data[f] # p)

\* The answer to a request is started in the loop of a porter: the function
\* may have failed, and may have written nothing.
Answer(p, f, bytes) ==
    /\ recv' = [recv EXCEPT ![f] = {}]
    /\ \E written \in {bytes, {}} : send' = [send EXCEPT ![f] = written]
    /\ \E err \in {"ok", "error"} : control' = [control EXCEPT ![f] = err]
    /\ Watch(p, f, "send")

\* A request for one porter is run at once (swift_one_task_run), with the task
\* and the loop of the porter that the data name.
RecvRequest_Keeps(p, f) ==
    /\ Fires(p, f, "recv") /\ "alone" \in Reads(f)
    /\ Emptied(sock[f])
    /\ \E written \in {recv[f] \cup {sock[f]}, {}} : send' = [send EXCEPT ![f] = written]
    /\ \E err \in {"ok", "error"} : control' = [control EXCEPT ![f] = err]
    /\ Watch(data[f], f, "send")
    /\ dosize' = [dosize EXCEPT ![f] = {}]
    /\ Crosses(p, f)
    /\ UNCHANGED <<recv, sock, sends, leader, queues, work_status, node, data, tasks, loops,
                   served, stranded>>

RecvRequest(p, f) ==
    /\ Fires(p, f, "recv") /\ "alone" \in Reads(f)
    /\ Emptied(sock[f])
    /\ Answer(data[f], f, recv[f] \cup {sock[f]})
    /\ dosize' = [dosize EXCEPT ![f] = {}]
    /\ Crosses(p, f)
    /\ UNCHANGED <<sock, sends, leader, queues, work_status, node, data, tasks, loops,
                   served, stranded>>

\* A request for all porters is registered in the task table and given to each
\* (swift_all_task_hit).
RecvWhole(p, f) ==
    /\ Fires(p, f, "recv") /\ "whole" \in Reads(f)
    /\ Emptied(sock[f])
    /\ recv' = [recv EXCEPT ![f] = @ \cup {sock[f]}]
    /\ dosize' = [dosize EXCEPT ![f] = {}]
    /\ watch' = [watch EXCEPT ![f] = Stopped]
    /\ left' = [left EXCEPT ![f] = Porters]
    /\ Crosses(p, f)
    /\ fd' = [fd EXCEPT ![p] = f]
    /\ Go(p, "hit")
    /\ UNCHANGED <<sock, sends, leader, queues, work_status, node, send, control, data,
                   tlist, idx, served, stranded>>

\* A request without a type, or with no function, only stops the watcher.
RecvNone(p, f) ==
    /\ Fires(p, f, "recv") /\ "none" \in Reads(f)
    /\ Emptied(sock[f])
    /\ recv' = [recv EXCEPT ![f] = @ \cup {sock[f]}]
    /\ dosize' = [dosize EXCEPT ![f] = {}]
    /\ watch' = [watch EXCEPT ![f] = Stopped]
    /\ stranded' = stranded \cup {sock[f]}
    /\ Crosses(p, f)
    /\ UNCHANGED <<sock, sends, leader, queues, work_status, node, send, control, data,
                   tasks, loops, served>>

\* What cannot be parsed, is too large or names no api is answered with an
\* error.  The parser starts again, but not when the bytes were not given to it.
RecvBad_Stops(p, f) ==
    /\ Fires(p, f, "recv") /\ "bad" \in Reads(f)
    /\ Emptied(sock[f])
    /\ recv' = [recv EXCEPT ![f] = {}]
    /\ send' = [send EXCEPT ![f] = recv[f] \cup {sock[f]}]
    /\ control' = [control EXCEPT ![f] = "error"]
    /\ \E gone \in {{}, dosize[f]} : dosize' = [dosize EXCEPT ![f] = gone]
    /\ watch' = [watch EXCEPT ![f] = Stopped]
    /\ UNCHANGED <<sock, sends, leader, queues, work_status, node, data, tasks, loops,
                   served, ends>>

RecvBad(p, f) ==
    /\ Fires(p, f, "recv") /\ "bad" \in Reads(f)
    /\ Emptied(sock[f])
    /\ recv' = [recv EXCEPT ![f] = {}]
    /\ send' = [send EXCEPT ![f] = recv[f] \cup {sock[f]}]
    /\ control' = [control EXCEPT ![f] = "error"]
    /\ \E gone \in {{}, dosize[f]} : dosize' = [dosize EXCEPT ![f] = gone]
    /\ Watch(p, f, "send")
    /\ UNCHANGED <<sock, sends, leader, queues, work_status, node, data, tasks, loops,
                   served, ends>>

\* The peer has closed, or the socket has failed: R_BROKEN.  The place of the
\* parser stays in the node.
RecvEnd(p, f) ==
    /\ Fires(p, f, "recv") /\ inbox[sock[f]] = "eof"
    /\ recv' = [recv EXCEPT ![f] = {}]
    /\ control' = [control EXCEPT ![f] = "ok"]
    /\ fd' = [fd EXCEPT ![p] = f]
    /\ Go(p, "close")
    /\ UNCHANGED <<kernel, leader, queues, work_status, node, send, dosize, data, watch,
                   tasks, idx, served, ends>>

\* The answer is sent, or there was none, and the connection is kept for the
\* next request.
SendKeep(p, f) ==
    /\ Fires(p, f, "send") /\ (control[f] = "ok" \/ send[f] = {})
    /\ send' = [send EXCEPT ![f] = {}]
    /\ control' = [control EXCEPT ![f] = "ok"]
    /\ Watch(p, f, "recv")
    /\ UNCHANGED <<kernel, leader, queues, work_status, node, recv, dosize, data, tasks,
                   loops, served, ends>>

\* The answer was an error, or the peer wants no other, or it cannot be sent:
\* S_BROKEN.
SendLast(p, f) ==
    /\ Fires(p, f, "send") /\ send[f] # {}
    /\ send' = [send EXCEPT ![f] = {}]
    /\ control' = [control EXCEPT ![f] = "ok"]
    /\ fd' = [fd EXCEPT ![p] = f]
    /\ Go(p, "close")
    /\ UNCHANGED <<kernel, leader, queues, work_status, node, recv, dosize, data, watch,
                   tasks, idx, served, ends>>

-----------------------------------------------------------------------------
(* A request for all porters. *)

\* The next list is tried, and the handler is left after the last.
Hits(p) ==
    /\ pc[p] = "hit"
    /\ IF idx[p] < P
       THEN idx' = [idx EXCEPT ![p] = @ + 1] /\ UNCHANGED <<pc, fd>>
       ELSE /\ Go(p, "loop") /\ fd' = [fd EXCEPT ![p] = None]
            /\ idx' = [idx EXCEPT ![p] = 1]

Hit(p) ==
    /\ Hits(p)
    /\ tlist' = [tlist EXCEPT ![idx[p]] = Append(@, fd[p])]
    /\ UNCHANGED <<kernel, leader, queues, slot, left, served, ends>>

\* A list that is full, of tasks from elsewhere too, is passed over: that
\* porter will not run the request, and the others wait for it.
HitFails(p) ==
    /\ Hits(p)
    /\ stranded' = stranded \cup {sock[fd[p]]}
    /\ UNCHANGED <<kernel, leader, queues, slot, tasks, served, crossed>>

\* swift_prepare_cb, task_handle: the porter that is over last answers.
RunWhole(p) ==
    /\ pc[p] = "loop" /\ tlist[p] # <<>>
    /\ tlist' = [tlist EXCEPT ![p] = Tail(@)]
    /\ LET f == Head(tlist[p])
       IN  /\ left' = [left EXCEPT ![f] = @ \ {p}]
           /\ IF left[f] = {p} THEN Answer(p, f, recv[f])
                               ELSE UNCHANGED <<recv, send, control, watch>>
    /\ UNCHANGED <<kernel, leader, queues, work_status, node, dosize, data, loops, served,
                   ends>>

-----------------------------------------------------------------------------
(* The end of a connection, in the order of the code. *)

Close(p) ==
    /\ pc[p] = "close"
    /\ sock' = [sock EXCEPT ![fd[p]] = None]
    /\ Emptied(sock[fd[p]])
    /\ served' = served \ {sock[fd[p]]}
    /\ Go(p, "stop")
    /\ UNCHANGED <<sends, leader, queues, slot, tasks, fd, idx, ends>>

Stop_Frees(p) ==
    /\ pc[p] = "stop"
    /\ watch' = [watch EXCEPT ![fd[p]] = Stopped]
    /\ work_status' = [work_status EXCEPT ![fd[p]] = "no"]
    /\ Go(p, "del")
    /\ UNCHANGED <<kernel, leader, queues, node, buffer, data, tasks, fd, idx, served, ends>>

Stop(p) ==
    /\ pc[p] = "stop"
    /\ watch' = [watch EXCEPT ![fd[p]] = Stopped]
    /\ Go(p, "del")
    /\ UNCHANGED <<kernel, leader, queues, work_status, node, buffer, data, tasks, fd, idx,
                   served, ends>>

\* del_pool_addr
Del(p) ==
    /\ pc[p] = "del"
    /\ node' = [node EXCEPT ![fd[p]] = IF fd[p] \in Heap THEN "null" ELSE @]
    /\ Go(p, "free")
    /\ UNCHANGED <<kernel, leader, queues, work_status, buffer, data, watch, tasks, fd, idx,
                   served, ends>>

Free(p) ==
    /\ pc[p] = "free"
    /\ IF work_status[fd[p]] = "is"
       THEN /\ work_status' = [work_status EXCEPT ![fd[p]] = "no"]
            /\ Go(p, "loop")
       ELSE /\ Go(p, "abort")
            /\ UNCHANGED work_status
    /\ fd' = [fd EXCEPT ![p] = None]
    /\ UNCHANGED <<kernel, leader, queues, node, buffer, data, watch, tasks, idx, served, ends>>

-----------------------------------------------------------------------------
\* One turn of a porter's event of each kind.
Ends(p) == Close(p) \/ Stop(p) \/ Del(p) \/ Free(p)
Serves(p, f) == \/ RecvPart(p, f) \/ RecvRequest(p, f) \/ RecvWhole(p, f)
                \/ RecvNone(p, f) \/ RecvBad(p, f) \/ RecvEnd(p, f)
                \/ SendKeep(p, f) \/ SendLast(p, f)
Works(p) == Hit(p) \/ HitFails(p) \/ RunWhole(p)

\* Nothing is left to do: connections that wait for their peer stay open.
Done == /\ naccept = MaxConns /\ hand = None
        /\ \A p \in Porters : /\ pc[p] = "loop" /\ pipe[p] = <<>>
                               /\ qlist[p] = <<>> /\ tlist[p] = <<>>
        /\ UNCHANGED vars

Next == \/ \E n \in Conns : PeerSends(n)
        \/ Accept \/ Dispatch
        \/ \E p \in Porters : FetchPipe(p) \/ FetchLink(p) \/ Works(p) \/ Ends(p)
        \/ \E p \in Porters, f \in Fds : Serves(p, f)
        \/ Done

\* The leader and the porters run; each turn of a porter's loop comes to its
\* pipe, to its queue (swift_check_cb, and the idle watcher keeps the loop
\* turning), to its list (swift_prepare_cb) and to every watcher that is ready.
Spec == /\ Init /\ [][Next]_vars
        /\ WF_vars(Dispatch)
        /\ \A p \in Porters : /\ WF_vars(FetchPipe(p)) /\ WF_vars(FetchLink(p))
                              /\ WF_vars(Works(p)) /\ WF_vars(Ends(p))
                              /\ \A f \in Fds \ Big : WF_vars(Serves(p, f))

-----------------------------------------------------------------------------
TypeOK == /\ sock \in [Fds -> Conns \cup {None}]
          /\ inbox \in [Conns -> Input \cup {"empty", "eof"}]
          /\ sends \in 0 .. MaxSends
          /\ hand \in Fds \cup {None} /\ robin \in Porters /\ naccept \in 0 .. MaxConns
          /\ pipe \in [Porters -> Seq(Fds)] /\ qlist \in [Porters -> Seq(Fds)]
          /\ work_status \in [Fds -> {"no", "is"}]
          /\ node \in [Fds -> {"null", "live"}]
          /\ recv \in [Fds -> SUBSET Conns] /\ send \in [Fds -> SUBSET Conns]
          /\ dosize \in [Fds -> SUBSET Conns]
          /\ control \in [Fds -> {"ok", "error"}]
          /\ data \in [Fds -> Porters \cup {None}]
          /\ watch \in [Fds -> [porter : Porters, cb : {"recv", "send"}]
                               \cup {Stopped}]
          /\ tlist \in [Porters -> Seq(Fds)] /\ left \in [Fds -> SUBSET Porters]
          /\ pc \in [Porters -> {"loop", "hit", "close", "stop", "del", "free", "abort"}]
          /\ fd \in [Porters -> Fds \cup {None}] /\ idx \in [Porters -> Porters]
          /\ served \in SUBSET Conns /\ stranded \in SUBSET Conns /\ crossed \in BOOLEAN

\* The porters that have a descriptor in a watcher or are taking it down.
Owners(f) == {p \in Porters : \/ watch[f].porter = p
                              \/ fd[p] = f /\ pc[p] # "hit"}

\* One porter at most works on a descriptor, however early the kernel gives it
\* to the next connection: while its status says so, a porter has it in its
\* loop, or its request is with all the porters, and then in no loop, or
\* nobody will answer it; otherwise none has it.  No assertion on the status
\* fails.  A watcher may change its loop when all porters run a request; this
\* holds until the next one crosses.
OneOwner ==
    \/ crossed
    \/ /\ \A f \in Fds :
             /\ \A p, q \in Owners(f) : p = q
             /\ Owners(f) = {} \/ left[f] = {}
             /\ IF work_status[f] = "is"
                THEN Owners(f) # {} \/ left[f] # {} \/ sock[f] \in stranded
                ELSE Owners(f) = {} /\ left[f] = {}
       /\ \A p \in Porters : pc[p] # "abort"

\* The pipes and queues.
Lines == {"pipe", "qlist"} \X Porters
Line(l) == IF l[1] = "pipe" THEN pipe[l[2]] ELSE qlist[l[2]]

\* An open connection that no porter has taken over is on its way, in the
\* leader's hand or in a pipe or queue, and nothing else is; no descriptor is
\* there twice (the items of a queue are linked through the descriptor's own
\* node and may be in one list only).
OneWay ==
    /\ \A f \in Fds : sock[f] # None /\ sock[f] \notin served
            <=> f = hand \/ \E l \in Lines : \E i \in 1 .. Len(Line(l)) : Line(l)[i] = f
    /\ \A l \in Lines : \A i \in 1 .. Len(Line(l)) :
            /\ Line(l)[i] # hand
            /\ \A m \in Lines : \A j \in 1 .. Len(Line(m)) :
                   Line(l)[i] = Line(m)[j] => l = m /\ i = j

\* The node of a descriptor in use, by a loop or by the porters that run its
\* request, is never freed by the porter that ends the connection before.
NodeLive == crossed \/ \A f \in Fds : watch[f] # Stopped \/ left[f] # {} => node[f] = "live"

\* The buffers of a descriptor hold bytes of its open connection only, so that
\* what a peer is sent answers its own requests: nothing of an earlier
\* connection on the descriptor is left in them.  The place of the parser
\* belongs to the connection too where the node is new for each; in a node of
\* the pool it outlives a peer that closes in the middle of a request, and the
\* next one is then not understood.
OwnAnswer ==
    \/ crossed
    \/ \A f \in Fds :
          /\ sock[f] # None => recv[f] \cup send[f] \subseteq {sock[f]}
          /\ f \in Heap /\ sock[f] \in served => dosize[f] \subseteq {sock[f]}

\* Every connection that is not refused is taken over in the end, and one
\* whose peer has closed gives its descriptor back, unless it has sent a
\* request that nobody will answer.
EachServed == \A n \in Conns : n \in Range(sock) ~> n \in served \/ crossed
EachCloses == \A n \in Conns :
                  inbox[n] = "eof" ~> n \notin Range(sock) \/ n \in stranded \/ crossed

=============================================================================
