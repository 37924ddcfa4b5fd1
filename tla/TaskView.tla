------------------------------ MODULE TaskView ------------------------------
(***************************************************************************)
(* How a task reaches the worker threads of the supex engine and how the   *)
(* last of them ends it: the table g_share_task_view (smart_task.c,        *)
(* swift_task.c), the callers that register a task there and push it to    *)
(* one worker or to all (smart_one_task_hit, smart_all_task_hit), and the  *)
(* workers that run it and call smart_task_over.  The swift engine has the *)
(* same functions under its own prefix.  Each worker takes its tasks from  *)
(* its own list, a FIFO queue (TaskRing).                                  *)
(*                                                                         *)
(* The smart engine has threads that receive requests beside its workers;  *)
(* in the swift engine the workers (porters) receive requests themselves.  *)
(***************************************************************************)
EXTENDS Naturals, Sequences, FiniteSets

CONSTANTS W,           \* G_WORKER_COUNTS, G_PORTER_COUNTS
          Times,       \* G_TASKER_COUNTS_TIMES, coroutines per worker
          M,           \* ids for manage tasks (5 + 1 in the code)
          C,           \* connections; a request's id is its descriptor
          Room,        \* tasks a worker's list can hold
          Leaders,     \* threads that hit manage tasks
          Recvers,     \* threads that receive requests (smart)
          Engines,     \* of "smart" and "swift"
          Funcs,       \* {TRUE}, or {TRUE, FALSE} with tasks without function
          MaxTasks     \* bound on the tasks hit

ASSUME ViewAssumption == /\ {W, Times, M, Room, MaxTasks} \subseteq Nat \ {0}
                         /\ C \in Nat /\ Engines \subseteq {"smart", "swift"}
                         /\ Funcs \subseteq BOOLEAN

Workers == 1 .. W
Manage == 1 .. M                       \* ids MAX_SMART_HTTP_NUMBER and up
Conns == M + 1 .. M + C
Ids == Manage \cup Conns
Threads == Workers \cup Leaders \cup Recvers
Tickets == 1 .. MaxTasks
NoTask == [ticket |-> 0, origin |-> "none"]

VARIABLES engine,      \* the engine that runs
          view,        \* g_share_task_view
          list,        \* each worker's tlist
          pc, job,     \* where each thread is, and its struct smart_task_node
          pos,         \* its loop index
          max,         \* max of smart_task_over
          deal,        \* the flag on the stack of a hit, "none" without hit
          conn,        \* "idle", or "busy" from a request to its answer
          hits,        \* every task hit so far, with the id it was given
          data,        \* the message of each MSMQ task on the heap
          tally        \* per task: runs begun, ended, told last, and overs

vars == <<engine, view, list, pc, job, pos, max, deal, conn, hits, data, tally>>

\* A swift porter runs a task for all threads once and has no receiving
\* threads beside it.
Swift == engine = "swift"
Turns == IF Swift THEN 1 ELSE Times

tickets == Len(hits)

Unused == [cntl |-> "unuse", worker_finish |-> 0, worker_affect |-> 0,
           tasker_finish |-> 0, tasker_affect |-> 0]

Init == /\ engine \in Engines
        /\ view = [i \in Ids |-> Unused]
        /\ list = [w \in Workers |-> <<>>]
        /\ pc = [t \in Threads |-> "idle"]
        /\ job = [t \in Threads |-> NoTask]
        /\ pos = [t \in Threads |-> 0]
        /\ max = [t \in Threads |-> 0]
        /\ deal = [t \in Threads |-> "none"]
        /\ conn = [i \in Conns |-> "idle"]
        /\ hits = <<>>
        /\ data = [k \in Tickets |-> "none"]
        /\ tally = [k \in Tickets |->
                        [begun |-> 0, ended |-> 0, last |-> 0, over |-> 0]]

Go(t, l) == pc' = [pc EXCEPT ![t] = l]
Count(k, f) == tally' = [tally EXCEPT ![k][f] = @ + 1]

-----------------------------------------------------------------------------
(* A caller. *)

\* The first task of all is the leader's INIT task, which it waits for before
\* it opens the listening socket and starts its timers.
Started == tickets > 0 /\ \A t \in Leaders : job[t].origin # "INIT"

\* A task is made and a hit begins.
Hit(t, task, synch) ==
    /\ pc[t] = "idle"
    /\ tickets < MaxTasks
    /\ hits' = Append(hits, task)
    /\ job' = [job EXCEPT ![t] = task]
    /\ deal' = [deal EXCEPT ![t] = IF synch THEN "begin" ELSE "unused"]
    /\ pos' = [pos EXCEPT ![t] = 1]
    /\ Go(t, "scan")

\* Manage tasks are the leader's, for all workers: INIT, control messages
\* (shell_cntl, with a message on the heap), the timers (smart_update_cb,
\* smart_monitor_cb).  Any of their functions may be missing.
HitManage(t) ==
    /\ t \in Leaders
    /\ \E origin \in IF tickets = 0 THEN {"INIT"} ELSE {"MSMQ", "TIME"},
          func \in Funcs :
          /\ Hit(t, [ticket |-> tickets + 1, id |-> 0, type |-> "WHOLE",
                     origin |-> origin, func |-> func,
                     deal |-> IF origin = "INIT" THEN {t} ELSE {}],
                 origin = "INIT")
          /\ data' = IF origin = "MSMQ"
                     THEN [data EXCEPT ![tickets + 1] = "live"] ELSE data
    /\ UNCHANGED <<view, list, max, conn, tally>>

\* Requests come from a connection with no request in progress.
HitRequest(t) ==
    /\ t \in (IF Swift THEN Workers ELSE Recvers) /\ Started
    /\ \E i \in Conns, type \in {"ALONE", "WHOLE"} :
          /\ conn[i] = "idle"
          /\ conn' = [conn EXCEPT ![i] = "busy"]
          /\ Hit(t, [ticket |-> tickets + 1, id |-> i, type |-> type,
                     origin |-> "HTTP", func |-> TRUE, deal |-> {}], FALSE)
    /\ UNCHANGED <<view, list, max, data, tally>>

\* smart_task_rgst, the compare-and-swaps: a request takes the id of its
\* descriptor, and asserts that it is free; a manage task takes the first
\* free id, looking at one after the other, and starts over when there is
\* none.
RgstRequest(t) ==
    /\ pc[t] = "scan" /\ job[t].origin = "HTTP"
    /\ IF view[job[t].id].cntl = "unuse"
       THEN /\ view' = [view EXCEPT ![job[t].id].cntl = "inuse"]
            /\ Go(t, "fill")
       ELSE /\ Go(t, "abort")
            /\ UNCHANGED view
    /\ UNCHANGED <<list, job, pos, max, deal, conn, hits, data, tally>>

RgstManage(t) ==
    /\ pc[t] = "scan" /\ job[t].origin # "HTTP"
    /\ IF view[pos[t]].cntl = "unuse"
       THEN /\ view' = [view EXCEPT ![pos[t]].cntl = "inuse"]
            /\ job' = [job EXCEPT ![t].id = pos[t]]
            /\ hits' = [hits EXCEPT ![job[t].ticket].id = pos[t]]
            /\ Go(t, "fill")
            /\ UNCHANGED pos
       ELSE /\ pos' = [pos EXCEPT ![t] = IF @ < M THEN @ + 1 ELSE 1]
            /\ UNCHANGED <<view, job, hits, pc>>
    /\ UNCHANGED <<list, max, deal, conn, data, tally>>

\* smart_task_rgst, the assignments.  A swift porter runs a request of its own
\* that is for one thread at once (swift_one_task_run).
Fill(t) ==
    /\ pc[t] = "fill"
    /\ LET whole == job[t].type = "WHOLE"
       IN  view' = [view EXCEPT ![job[t].id] =
                      [cntl |-> @.cntl, worker_finish |-> 0, tasker_finish |-> 0,
                       worker_affect |-> IF whole THEN W ELSE 1,
                       tasker_affect |-> IF whole THEN W * Turns ELSE 1]]
    /\ IF job[t].origin = "HTTP" /\ job[t].type = "ALONE" /\ Swift
       THEN /\ Go(t, "begin")
            /\ deal' = [deal EXCEPT ![t] = "none"]
            /\ pos' = [pos EXCEPT ![t] = 1]
       ELSE /\ Go(t, "push")
            /\ \E w \in IF job[t].type = "WHOLE" THEN {1} ELSE Workers :
                   pos' = [pos EXCEPT ![t] = w]
            /\ UNCHANGED deal
    /\ UNCHANGED <<list, job, max, conn, hits, data, tally>>

\* The task goes to the list of worker pos, and then of the next, or the hit
\* returns or waits.  With a full list it tries again; a swift porter gives
\* that worker up.
GivesUp(t) == Swift /\ job[t].origin = "HTTP"

Pushed(t) ==
    LET w == pos[t]
        stop == job[t].type = "ALONE" \/ w = W
        wait == job[t].deal # {} /\ job[t].func
    IN  /\ pos' = [pos EXCEPT ![t] = IF stop THEN 0 ELSE w + 1]
        /\ Go(t, CASE ~stop -> "push" [] stop /\ wait -> "wait" [] OTHER -> "idle")
        /\ job' = IF stop /\ ~wait THEN [job EXCEPT ![t] = NoTask] ELSE job
        /\ deal' = IF stop /\ ~wait THEN [deal EXCEPT ![t] = "none"] ELSE deal

Push_Drop(t) ==
    /\ pc[t] = "push"
    /\ list' = IF Len(list[pos[t]]) + 1 < Room
               THEN [list EXCEPT ![pos[t]] = Append(@, job[t])] ELSE list
    /\ Pushed(t)
    /\ UNCHANGED <<view, max, conn, hits, data, tally>>

Push(t) ==
    /\ pc[t] = "push"
    /\ Len(list[pos[t]]) < Room \/ GivesUp(t)
    /\ list' = IF Len(list[pos[t]]) < Room
               THEN [list EXCEPT ![pos[t]] = Append(@, job[t])] ELSE list
    /\ Pushed(t)
    /\ UNCHANGED <<view, max, conn, hits, data, tally>>

\* A synchronous hit returns when the flag is set.
Return(t) ==
    /\ pc[t] = "wait"
    /\ deal[t] = "finish"
    /\ deal' = [deal EXCEPT ![t] = "none"]
    /\ job' = [job EXCEPT ![t] = NoTask]
    /\ Go(t, "idle")
    /\ UNCHANGED <<view, list, pos, max, conn, hits, data, tally>>

-----------------------------------------------------------------------------
(* A worker. *)

\* The next task is taken; one without a function is dropped.
Take(t) ==
    /\ pc[t] = "idle" /\ t \in Workers
    /\ list[t] # <<>>
    /\ list' = [list EXCEPT ![t] = Tail(@)]
    /\ IF Head(list[t]).func
       THEN /\ job' = [job EXCEPT ![t] = Head(list[t])]
            /\ pos' = [pos EXCEPT ![t] = IF Head(list[t]).type = "WHOLE"
                                         THEN Turns ELSE 1]
            /\ Go(t, "begin")
       ELSE UNCHANGED <<job, pos, pc>>
    /\ UNCHANGED <<view, max, deal, conn, hits, data, tally>>

\* smart_for_alone_vm, smart_for_batch_vm: smart_task_come counts the run, smart_task_last
\* tells it whether it is the last.  tasker_affect stays what it is until
\* this worker too has called smart_task_over.
Come(t) ==
    /\ pc[t] = "begin"
    /\ LET i == job[t].id
           k == job[t].ticket
           index == view[i].tasker_finish + 1
           last == IF index = view[i].tasker_affect THEN 1 ELSE 0
       IN  /\ view' = [view EXCEPT ![i].tasker_finish = index]
           /\ tally' = [tally EXCEPT ![k].begun = @ + 1, ![k].last = @ + last]
    /\ Go(t, "run")
    /\ UNCHANGED <<list, job, pos, max, deal, conn, hits, data>>

\* vms_fcb has run, in one virtual machine of the worker.
Run(t) ==
    /\ pc[t] = "run"
    /\ Count(job[t].ticket, "ended")
    /\ pos' = [pos EXCEPT ![t] = @ - 1]
    /\ Go(t, IF pos[t] > 1 THEN "begin" ELSE "over")
    /\ UNCHANGED <<view, list, job, max, deal, conn, hits, data>>

\* smart_task_over: the assertion and max are read before worker_finish is
\* counted, because a worker that is not the last may find the table reset
\* afterwards.
OverMax(t) ==
    /\ pc[t] = "over"
    /\ IF view[job[t].id].cntl = "inuse"
       THEN /\ max' = [max EXCEPT ![t] = view[job[t].id].worker_affect]
            /\ Go(t, "add")
       ELSE /\ Go(t, "abort")
            /\ UNCHANGED max
    /\ UNCHANGED <<view, list, job, pos, deal, conn, hits, data, tally>>

OverAdd_First(t) ==
    /\ pc[t] = "add"
    /\ view' = [view EXCEPT ![job[t].id].worker_finish = @ + 1]
    /\ LET idx == view[job[t].id].worker_finish
       IN  IF max[t] > 0 /\ idx + 2 >= max[t]
           THEN Go(t, "reset") /\ UNCHANGED job
           ELSE Go(t, "idle") /\ job' = [job EXCEPT ![t] = NoTask]
    /\ UNCHANGED <<list, pos, max, deal, conn, hits, data, tally>>

OverAdd_Late(t) ==
    /\ pc[t] = "add"
    /\ view' = [view EXCEPT ![job[t].id].worker_finish = @ + 1]
    /\ LET idx == view[job[t].id].worker_finish
       IN  IF max[t] > 0 /\ idx = max[t]
           THEN Go(t, "reset") /\ UNCHANGED job
           ELSE Go(t, "idle") /\ job' = [job EXCEPT ![t] = NoTask]
    /\ UNCHANGED <<list, pos, max, deal, conn, hits, data, tally>>

OverAdd(t) ==
    /\ pc[t] = "add"
    /\ view' = [view EXCEPT ![job[t].id].worker_finish = @ + 1]
    /\ LET idx == view[job[t].id].worker_finish
       IN  IF max[t] > 0 /\ idx = max[t] - 1
           THEN Go(t, "reset") /\ UNCHANGED job
           ELSE Go(t, "idle") /\ job' = [job EXCEPT ![t] = NoTask]
    /\ UNCHANGED <<list, pos, max, deal, conn, hits, data, tally>>

OverReset(t) ==
    /\ pc[t] = "reset"
    /\ view' = [view EXCEPT ![job[t].id] =
                    [Unused EXCEPT !.cntl = view[job[t].id].cntl]]
    /\ Go(t, "release")
    /\ UNCHANGED <<list, job, pos, max, deal, conn, hits, data, tally>>

OverRelease(t) ==
    /\ pc[t] = "release"
    /\ IF view[job[t].id].cntl = "inuse"
       THEN /\ view' = [view EXCEPT ![job[t].id].cntl = "unuse"]
            /\ Count(job[t].ticket, "over")
            /\ Go(t, "finish")
       ELSE /\ Go(t, "abort")
            /\ UNCHANGED <<view, tally>>
    /\ UNCHANGED <<list, job, pos, max, deal, conn, hits, data>>

\* smart_task_handle after the last over: set the caller's flag, free the
\* message, answer the request.
Finish_NoFlag(t) ==
    /\ pc[t] = "finish"
    /\ data' = IF job[t].origin = "MSMQ"
               THEN [data EXCEPT ![job[t].ticket] = "freed"] ELSE data
    /\ conn' = IF job[t].origin = "HTTP"
               THEN [conn EXCEPT ![job[t].id] = "idle"] ELSE conn
    /\ job' = [job EXCEPT ![t] = NoTask]
    /\ Go(t, "idle")
    /\ UNCHANGED <<deal, view, list, pos, max, hits, tally>>

Finish(t) ==
    /\ pc[t] = "finish"
    /\ deal' = [c \in Threads |->
                    IF c \in job[t].deal THEN "finish" ELSE deal[c]]
    /\ data' = IF job[t].origin = "MSMQ"
               THEN [data EXCEPT ![job[t].ticket] = "freed"] ELSE data
    /\ conn' = IF job[t].origin = "HTTP"
               THEN [conn EXCEPT ![job[t].id] = "idle"] ELSE conn
    /\ job' = [job EXCEPT ![t] = NoTask]
    /\ Go(t, "idle")
    /\ UNCHANGED <<view, list, pos, max, hits, tally>>

-----------------------------------------------------------------------------
\* A thread goes on with what it has begun.
Step(t) == /\ \/ RgstRequest(t) \/ RgstManage(t) \/ Fill(t) \/ Push(t) \/ Return(t)
              \/ Take(t) \/ Come(t) \/ Run(t) \/ OverMax(t)
              \/ OverAdd(t) \/ OverReset(t) \/ OverRelease(t) \/ Finish(t)
           /\ UNCHANGED engine

\* Nothing more will be hit.
Done == /\ tickets = MaxTasks
        /\ \A t \in Threads : pc[t] = "idle"
        /\ \A w \in Workers : list[w] = <<>>
        /\ UNCHANGED vars

Hits(t) == (HitManage(t) \/ HitRequest(t)) /\ UNCHANGED engine

Next == \/ \E t \in Threads : Step(t) \/ Hits(t)
        \/ Done

\* The threads run, and a worker's loop takes what its list holds; nothing
\* obliges a caller to hit.
Spec == Init /\ [][Next]_vars /\ \A t \in Threads : WF_vars(Step(t))

-----------------------------------------------------------------------------
Task == [ticket : Tickets, id : Ids \cup {0}, type : {"ALONE", "WHOLE"},
         origin : {"INIT", "MSMQ", "TIME", "HTTP"}, func : BOOLEAN,
         deal : SUBSET Threads]

TypeOK == /\ engine \in Engines
          /\ view \in [Ids -> [cntl : {"unuse", "inuse"},
                               worker_finish : 0 .. W, worker_affect : 0 .. W,
                               tasker_finish : 0 .. W * Times,
                               tasker_affect : 0 .. W * Times]]
          /\ list \in [Workers -> Seq(Task)]
          /\ pc \in [Threads -> {"idle", "scan", "fill", "push", "wait", "begin",
                                 "run", "over", "add", "reset", "release",
                                 "finish", "abort"}]
          /\ job \in [Threads -> Task \cup {NoTask}]
          /\ pos \in [Threads -> 0 .. W + M + Times]
          /\ max \in [Threads -> 0 .. W]
          /\ deal \in [Threads -> {"none", "unused", "begin", "finish"}]
          /\ conn \in [Conns -> {"idle", "busy"}]
          /\ hits \in Seq(Task)
          /\ data \in [Tickets -> {"none", "live", "freed"}]
          /\ tally \in [Tickets -> [begun : Nat, ended : Nat, last : Nat, over : Nat]]

\* No assertion of smart_task_rgst and smart_task_over fails: a descriptor's id is
\* free again before its next request, and an id is given back once.
AssertsHold == \A t \in Threads : pc[t] # "abort"

\* The tasks in flight: registered, in a list, or in a worker's hands.
InFlight == {job[t] : t \in {x \in Threads : pc[x] \notin {"idle", "scan", "wait"}}}
            \cup UNION {{list[w][n] : n \in 1 .. Len(list[w])} : w \in Workers}

\* An id in use belongs to exactly one task on its way, whatever the order
\* in which workers finish and callers take ids again; none stays in use
\* without one, save the ids of tasks that had no function, which no worker
\* gives back (smart_task_handle returns before smart_task_over).
IdsOwned == \A i \in Ids :
                LET owners == {k \in 1 .. tickets :
                                 /\ tally[k].over = 0
                                 /\ \E j \in InFlight : j.ticket = k /\ j.id = i}
                IN  /\ Cardinality(owners) <= 1
                    /\ view[i].cntl = "inuse" /\ owners = {} =>
                           \E k \in 1 .. tickets : hits[k].id = i /\ ~hits[k].func

\* The runs a task is due, one per virtual machine of each worker it is for.
Due(j) == IF j.type = "ALONE" THEN 1 ELSE W * Turns

\* A task is over once, after every run it is due, on every worker, has
\* ended; and exactly one of its runs was told that it is the last.
OverOnceAfterAll ==
    \A t \in Threads : pc[t] = "finish" =>
        LET k == tally[job[t].ticket]
        IN  k.over = 1 /\ k.last = 1 /\ k.begun = Due(job[t]) /\ k.ended = k.begun

\* The message of a control task is on the heap as long as a worker may read
\* it, and is freed once.
MessageLive ==
    \A t \in Threads :
        /\ pc[t] \in {"begin", "run", "finish"} /\ job[t].origin = "MSMQ"
               => data[job[t].ticket] = "live"

\* The flag is written while the hit that owns it still waits for it: no
\* worker writes through a pointer into a stack frame that is gone.
FlagAlive == \A t \in Threads : pc[t] = "finish" =>
                 \A c \in job[t].deal :
                     deal[c] = "begin" /\ job[c].ticket = job[t].ticket

\* Every task that is hit is over in the end, on every worker: callers and
\* workers never wait for each other in a circle, although porters are both,
\* and with a list as long as there are ids no porter gives a worker up, which
\* would leave the request unanswered and its id in use.  A task without a function is never
\* over, and once such tasks hold every id of the manage tasks, the next one
\* looks for an id for ever.
NoFunc == {k \in 1 .. tickets : ~hits[k].func}
Starved == Cardinality(NoFunc) >= M
EachTaskEnds == \A k \in Tickets :
    tickets >= k ~> tally[k].over = 1 \/ k \in NoFunc \/ Starved

\* A hit returns, the synchronous one included, with the same exception.
HitsReturn == \A t \in Threads : deal[t] # "none" ~> deal[t] = "none" \/ Starved

=============================================================================
