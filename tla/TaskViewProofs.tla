--------------------------- MODULE TaskViewProofs ---------------------------
(***************************************************************************)
(* Proofs about the task table and the threads that hit, run and end       *)
(* tasks: no assertion fails, a task is over once and after all its runs,  *)
(* its flag and its message live as long as they are used, and an id in    *)
(* use has one task.                                                       *)
(***************************************************************************)
EXTENDS TaskView, FiniteSetTheorems, TLAPS

-----------------------------------------------------------------------------
\* The invariant.

Calls(t) == pc[t] \in {"scan", "fill", "push", "wait"}
Holds(t) == pc[t] \in {"begin", "run", "over", "add"}
Ends(t) == pc[t] \in {"reset", "release", "finish"}

\* A caller may still put its task into w's list.
Sends(t, w) == \/ pc[t] \in {"scan", "fill"}
               \/ pc[t] = "push" /\ IF job[t].type = "WHOLE" THEN w >= pos[t] ELSE w = pos[t]

\* The runs of a task in one worker, and the workers it is for.
Runs(j) == IF j.type = "WHOLE" THEN Turns ELSE 1
Affects(j) == IF j.type = "WHOLE" THEN W ELSE 1

Typed == /\ engine \in Engines
         /\ view \in [Ids -> [cntl : {"unuse", "inuse"},
                              worker_finish : Nat, worker_affect : Nat,
                              tasker_finish : Nat, tasker_affect : Nat]]
         /\ list \in [Workers -> Seq(Task)]
         /\ pc \in [Threads -> {"idle", "scan", "fill", "push", "wait", "begin",
                                "run", "over", "add", "reset", "release",
                                "finish", "abort"}]
         /\ job \in [Threads -> Task \cup {NoTask}]
         /\ pos \in [Threads -> Nat] /\ max \in [Threads -> Nat]
         /\ deal \in [Threads -> {"none", "unused", "begin", "finish"}]
         /\ conn \in [Conns -> {"idle", "busy"}]
         /\ hits \in Seq(Task)
         /\ data \in [Tickets -> {"none", "live", "freed"}]
         /\ tally \in [Tickets -> [begun : Nat, ended : Nat, last : Nat, over : Nat]]

\* Every copy of a task is what was hit; who has one, and where in its loop.
TaskInv ==
    /\ \A k \in DOMAIN hits :
           /\ hits[k].ticket = k
           /\ hits[k].origin = "HTTP" => hits[k].func /\ hits[k].id \in Conns
           /\ hits[k].origin # "HTTP" => /\ hits[k].type = "WHOLE"
                                         /\ hits[k].id \in Manage \cup {0}
           /\ hits[k].deal # {} => hits[k].origin # "HTTP"
    /\ \A w \in Workers : \A n \in DOMAIN list[w] :
           list[w][n].ticket \in DOMAIN hits /\ list[w][n] = hits[list[w][n].ticket]
    /\ \A t \in Threads :
           /\ pc[t] # "idle" => /\ job[t].ticket \in DOMAIN hits
                                /\ job[t] = hits[job[t].ticket]
           /\ pc[t] = "idle" => job[t] = NoTask

\* Where a thread with a task is.
PlaceOf(t) ==
    /\ pc[t] # "abort"
    /\ Holds(t) \/ Ends(t) => t \in Workers /\ job[t].func
    /\ pc[t] \in {"scan", "fill"} /\ job[t].origin = "HTTP" /\ Swift => t \in Workers
    /\ pc[t] = "scan" /\ job[t].origin # "HTTP" => pos[t] \in Manage /\ job[t].id = 0
    /\ pc[t] = "push" => pos[t] \in Workers
    /\ pc[t] \in {"begin", "run"} => pos[t] \in 1 .. Runs(job[t])
    /\ pc[t] \in {"over", "add"} => pos[t] = 0
    /\ pc[t] = "add" => max[t] = Affects(job[t])
PlaceInv == \A t \in Threads : PlaceOf(t)

\* A task is in a worker's hands, in its list, or still to be sent to it, and
\* nowhere any more when it ends.
ListApart == \A w \in Workers : \A m, n \in DOMAIN list[w] :
                 list[w][m].ticket = list[w][n].ticket => m = n
HoldApart == \A w \in Workers : \A n \in DOMAIN list[w] :
                 Holds(w) => job[w].ticket # list[w][n].ticket
SendApart == \A t \in Threads, w \in Workers : Sends(t, w) =>
                 /\ \A n \in DOMAIN list[w] : list[w][n].ticket # job[t].ticket
                 /\ Holds(w) => job[w].ticket # job[t].ticket
CallApart == \A t, u \in Threads :
                 Calls(t) /\ Calls(u) /\ job[t].ticket = job[u].ticket => t = u
EndApart == \A t \in Threads : Ends(t) =>
                /\ \A w \in Workers : \A n \in DOMAIN list[w] : list[w][n].ticket # job[t].ticket
                /\ \A u \in Threads : Holds(u) \/ pc[u] \in {"scan", "fill", "push"}
                                          => job[u].ticket # job[t].ticket
                /\ \A u \in Threads : Ends(u) /\ job[u].ticket = job[t].ticket => u = t
ApartInv == ListApart /\ HoldApart /\ SendApart /\ CallApart /\ EndApart

\* A task is not over as long as someone has it.
Over(k) == tally[k].over = 1
OverInv ==
    /\ \A k \in Tickets : tally[k].over \in {0, 1}
    /\ \A k \in Tickets \ DOMAIN hits :
           tally[k] = [begun |-> 0, ended |-> 0, last |-> 0, over |-> 0]
    /\ \A w \in Workers : \A n \in DOMAIN list[w] : ~ Over(list[w][n].ticket)
    /\ \A t \in Threads :
           /\ pc[t] \notin {"idle", "wait", "finish"} => ~ Over(job[t].ticket)
           /\ pc[t] = "finish" => Over(job[t].ticket)

\* An id in use is that of one task that has it and is not over.
Scanned(k) == \E t \in Threads : pc[t] = "scan" /\ job[t].ticket = k
Active(k) == k \in DOMAIN hits /\ ~ Over(k) /\ ~ Scanned(k)
IdInv ==
    /\ \A k \in DOMAIN hits : Active(k) =>
           hits[k].id \in Ids /\ view[hits[k].id].cntl = "inuse"
    /\ \A j, k \in DOMAIN hits : Active(j) /\ Active(k) /\ hits[j].id = hits[k].id => j = k
    /\ \A i \in Ids : view[i].cntl = "inuse" => \E k \in DOMAIN hits : Active(k) /\ hits[k].id = i

\* Until its last worker has finished: the connection is busy with this
\* request, the caller waits for its flag, the message is on the heap.
Open(k) == ~ Over(k) \/ \E t \in Threads : pc[t] = "finish" /\ job[t].ticket = k
OpenInv ==
    /\ \A k \in DOMAIN hits : Open(k) =>
           /\ hits[k].origin = "HTTP" => conn[hits[k].id] = "busy"
           /\ hits[k].origin = "MSMQ" => data[k] = "live"
           /\ \A c \in hits[k].deal : hits[k].func =>
                  Calls(c) /\ job[c].ticket = k /\ deal[c] = "begin"
    /\ \A j, k \in DOMAIN hits :
           Open(j) /\ Open(k) /\ hits[j].origin = "HTTP" /\ hits[j].id = hits[k].id => j = k

\* The workers that have a task or will get it, and the runs that have begun
\* and ended in them and in the workers D that have finished.
Queued(k, w) == \E n \in DOMAIN list[w] : list[w][n].ticket = k
Busy(k) == {w \in Workers : \/ Queued(k, w)
                            \/ Holds(w) /\ job[w].ticket = k
                            \/ \E t \in Threads : pc[t] = "push" /\ job[t].ticket = k /\ Sends(t, w)}
BegunAt(k, w, r) == /\ Holds(w) /\ job[w].ticket = k
                    /\ r > pos[w] \/ (pc[w] = "run" /\ r = pos[w])
EndedAt(k, w, r) == Holds(w) /\ job[w].ticket = k /\ r > pos[w]
Begun(k, D) == {p \in Workers \X (1 .. Runs(hits[k])) : p[1] \in D \/ BegunAt(k, p[1], p[2])}
Ended(k, D) == {p \in Workers \X (1 .. Runs(hits[k])) : p[1] \in D \/ EndedAt(k, p[1], p[2])}

\* A list takes a task of every id: MAX_SMART_QUEUE_NUMBER is the length of the
\* table and of the ring, which holds one task less, and the first three
\* descriptors are never those of requests.
Roomy == Room >= M + C

\* The counters of an entry between its assignments and its reset: D are the
\* workers counted in worker_finish, of those the task is for, T.
Counts(k, T, D) ==
    LET e == view[hits[k].id]
    IN  /\ Cardinality(T) = Affects(hits[k])
        /\ Cardinality(D) = e.worker_finish
        /\ Busy(k) \subseteq T \ D
        /\ tally[k].begun = Cardinality(Begun(k, D))
        /\ tally[k].ended = Cardinality(Ended(k, D))
        /\ Roomy /\ hits[k].func => T \subseteq D \cup Busy(k)
Counting(k) == /\ Active(k)
               /\ \A t \in Threads : pc[t] \in {"fill", "release"} => job[t].ticket # k
Reset(k) == \E t \in Threads : pc[t] = "reset" /\ job[t].ticket = k
Counted(k) ==
    LET e == view[hits[k].id]
    IN  /\ e.worker_affect = Affects(hits[k]) /\ e.tasker_affect = Due(hits[k])
        /\ e.tasker_finish = tally[k].begun
        /\ tally[k].last = IF tally[k].begun = Due(hits[k]) THEN 1 ELSE 0
        /\ \E T \in SUBSET Workers : \E D \in SUBSET T : Counts(k, T, D)
        /\ e.worker_finish = Affects(hits[k]) => Reset(k)
CountInv ==
    /\ \A k \in DOMAIN hits : Counting(k) => Counted(k)
    /\ \A t \in Threads :
           /\ pc[t] = "reset" => view[job[t].id].worker_finish = Affects(job[t])
           /\ pc[t] \in {"scan", "fill"} =>
                  /\ tally[job[t].ticket].begun = 0 /\ tally[job[t].ticket].ended = 0
                  /\ tally[job[t].ticket].last = 0
           /\ pc[t] \in {"release", "finish"} =>
                  /\ tally[job[t].ticket].last = 1
                  /\ tally[job[t].ticket].begun = Due(job[t])
                  /\ tally[job[t].ticket].ended = Due(job[t])

Inv == Typed /\ TaskInv /\ PlaceInv /\ ApartInv /\ OverInv /\ IdInv /\ OpenInv /\ CountInv

-----------------------------------------------------------------------------
\* Facts about sequences and sets.

\* The rest of a sequence.
LEMMA TailOf ==
    ASSUME NEW S, NEW q \in Seq(S), q # <<>>
    PROVE  /\ Tail(q) \in Seq(S) /\ Len(Tail(q)) = Len(q) - 1
           /\ \A i \in 1 .. Len(Tail(q)) : Tail(q)[i] = q[i + 1] /\ i + 1 \in 1 .. Len(q)
           /\ 1 \in 1 .. Len(q) /\ Head(q) = q[1] /\ Head(q) \in S /\ Len(q) \in Nat
OBVIOUS

\* A sequence with one more element.
LEMMA AppendOf ==
    ASSUME NEW S, NEW q \in Seq(S), NEW x \in S
    PROVE  /\ Append(q, x) \in Seq(S) /\ Len(Append(q, x)) = Len(q) + 1
           /\ \A i \in 1 .. Len(q) : Append(q, x)[i] = q[i]
           /\ Append(q, x)[Len(q) + 1] = x /\ Len(q) \in Nat
OBVIOUS

\* An element of a sequence, and its indexes.
LEMMA ElementOf ==
    ASSUME NEW S, NEW q \in Seq(S)
    PROVE  /\ DOMAIN q = 1 .. Len(q) /\ Len(q) \in Nat
           /\ \A i \in DOMAIN q : q[i] \in S /\ i \in Nat
OBVIOUS

\* The constants.
LEMMA Constants ==
    /\ W \in Nat /\ W > 0 /\ Times \in Nat /\ Times > 0 /\ M \in Nat /\ M > 0
    /\ C \in Nat /\ Room \in Nat /\ MaxTasks \in Nat
    /\ 1 \in Workers /\ 1 \in Manage
    /\ Workers \subseteq Threads /\ Leaders \subseteq Threads /\ Recvers \subseteq Threads
    /\ \A w \in Workers : w \in Nat
    /\ \A i \in Ids : i \in Nat /\ i > 0
    /\ \A i \in Conns : i \in Ids /\ i \notin Manage
    /\ \A i \in Manage : i \in Ids
    /\ \A k \in Tickets : k \in Nat /\ k > 0
BY ViewAssumption DEF Workers, Manage, Conns, Ids, Threads, Tickets

-----------------------------------------------------------------------------
\* Types.

\* The record of a task that is hit.
LEMMA HitTyped ==
    ASSUME Typed, NEW t \in Threads, NEW task \in Task, NEW synch \in BOOLEAN,
           Hit(t, task, synch)
    PROVE  /\ hits' \in Seq(Task)
           /\ job' \in [Threads -> Task \cup {NoTask}]
           /\ deal' \in [Threads -> {"none", "unused", "begin", "finish"}]
           /\ pos' \in [Threads -> Nat]
           /\ pc' \in [Threads -> {"idle", "scan", "fill", "push", "wait", "begin",
                                   "run", "over", "add", "reset", "release",
                                   "finish", "abort"}]
<1>1. hits' \in Seq(Task)
  BY AppendOf DEF Typed, Hit
<1> QED BY <1>1 DEF Typed, Hit, Go

\* The record of the next task to be hit is one.
LEMMA NextTask ==
    ASSUME Typed, tickets < MaxTasks, NEW i \in Ids \cup {0},
           NEW type \in {"ALONE", "WHOLE"}, NEW origin \in {"INIT", "MSMQ", "TIME", "HTTP"},
           NEW func \in BOOLEAN, NEW to \in SUBSET Threads
    PROVE  /\ [ticket |-> tickets + 1, id |-> i, type |-> type, origin |-> origin,
               func |-> func, deal |-> to] \in Task
           /\ tickets + 1 \in Tickets /\ tickets \in Nat
<1>1. tickets \in Nat
  BY DEF Typed, tickets
<1>2. tickets + 1 \in Tickets
  BY <1>1, Constants DEF Tickets
<1> QED BY <1>1, <1>2 DEF Task

\* A manage task as a hit of a task.
LEMMA HitManageTask ==
    ASSUME Typed, NEW t \in Threads, HitManage(t)
    PROVE  \E task \in Task, synch \in BOOLEAN :
               /\ Hit(t, task, synch)
               /\ task.ticket = tickets + 1 /\ task.id = 0 /\ task.type = "WHOLE"
               /\ task.origin \in {"INIT", "MSMQ", "TIME"} /\ task.func \in BOOLEAN
               /\ synch <=> task.origin = "INIT"
               /\ task.deal = IF task.origin = "INIT" THEN {t} ELSE {}
               /\ data' = IF task.origin = "MSMQ"
                          THEN [data EXCEPT ![tickets + 1] = "live"] ELSE data
               /\ UNCHANGED conn
<1>1. PICK origin \in {"INIT", "MSMQ", "TIME"}, func \in Funcs :
          /\ Hit(t, [ticket |-> tickets + 1, id |-> 0, type |-> "WHOLE",
                     origin |-> origin, func |-> func,
                     deal |-> IF origin = "INIT" THEN {t} ELSE {}],
                 origin = "INIT")
          /\ data' = IF origin = "MSMQ"
                     THEN [data EXCEPT ![tickets + 1] = "live"] ELSE data
  BY DEF HitManage
<1>2. func \in BOOLEAN
  BY ViewAssumption
<1>3. (IF origin = "INIT" THEN {t} ELSE {}) \in SUBSET Threads
  OBVIOUS
<1>4. tickets < MaxTasks
  BY <1>1 DEF Hit
<1>5. [ticket |-> tickets + 1, id |-> 0, type |-> "WHOLE", origin |-> origin,
       func |-> func, deal |-> IF origin = "INIT" THEN {t} ELSE {}] \in Task
  BY <1>2, <1>3, <1>4, NextTask
<1>6. (origin = "INIT") \in BOOLEAN
  OBVIOUS
<1>7. UNCHANGED conn
  BY DEF HitManage
<1> QED BY <1>1, <1>2, <1>5, <1>6, <1>7

\* A request as a hit of a task.
LEMMA HitRequestTask ==
    ASSUME Typed, NEW t \in Threads, HitRequest(t)
    PROVE  \E task \in Task :
               /\ Hit(t, task, FALSE)
               /\ task.ticket = tickets + 1 /\ task.id \in Conns /\ task.origin = "HTTP"
               /\ task.func = TRUE /\ task.deal = {} /\ (Swift => t \in Workers)
               /\ conn[task.id] = "idle" /\ conn' = [conn EXCEPT ![task.id] = "busy"]
               /\ UNCHANGED data
<1>1. PICK i \in Conns, type \in {"ALONE", "WHOLE"} :
          /\ conn[i] = "idle"
          /\ conn' = [conn EXCEPT ![i] = "busy"]
          /\ Hit(t, [ticket |-> tickets + 1, id |-> i, type |-> type,
                     origin |-> "HTTP", func |-> TRUE, deal |-> {}], FALSE)
  BY DEF HitRequest
<1>2. tickets < MaxTasks
  BY <1>1 DEF Hit
<1>3. i \in Ids \cup {0}
  BY Constants
<1>4. [ticket |-> tickets + 1, id |-> i, type |-> type,
       origin |-> "HTTP", func |-> TRUE, deal |-> {}] \in Task
  BY <1>2, <1>3, NextTask
<1>5. UNCHANGED data /\ (Swift => t \in Workers)
  BY DEF HitRequest
<1> QED BY <1>1, <1>4, <1>5

-----------------------------------------------------------------------------
\* What the invariant says of the tasks in use.

\* A task that was hit has the number it was hit as.
LEMMA HitOf ==
    ASSUME Typed, TaskInv, NEW k \in DOMAIN hits
    PROVE  hits[k] \in Task /\ hits[k].ticket = k /\ k \in Tickets
<1>1. hits[k] \in Task /\ hits[k].ticket = k
  BY ElementOf DEF Typed, TaskInv
<1> QED BY <1>1 DEF Task

\* A thread that is not idle has a task that was hit.
LEMMA JobOf ==
    ASSUME Typed, TaskInv, NEW t \in Threads, pc[t] # "idle"
    PROVE  /\ job[t] \in Task /\ job[t].ticket \in Tickets
           /\ job[t].ticket \in DOMAIN hits /\ job[t] = hits[job[t].ticket]
BY HitOf DEF TaskInv

\* So has a list.
LEMMA QueuedOf ==
    ASSUME Typed, TaskInv, NEW w \in Workers, NEW n \in DOMAIN list[w]
    PROVE  /\ list[w][n] \in Task /\ list[w][n].ticket \in Tickets
           /\ list[w][n].ticket \in DOMAIN hits /\ list[w][n] = hits[list[w][n].ticket]
BY HitOf DEF TaskInv

\* Where a thread may be.
LEMMA Places ==
    ASSUME Typed, PlaceInv, NEW t \in Threads
    PROVE  pc[t] = "idle" \/ Calls(t) \/ Holds(t) \/ Ends(t)
BY DEF Typed, PlaceInv, PlaceOf, Calls, Holds, Ends

\* Nobody else has a task that is not yet registered.
LEMMA Alone ==
    ASSUME Inv, NEW t \in Threads, pc[t] \in {"scan", "fill"}
    PROVE  /\ \A u \in Threads : u # t /\ pc[u] # "idle" => job[u].ticket # job[t].ticket
           /\ \A w \in Workers : \A n \in DOMAIN list[w] : list[w][n].ticket # job[t].ticket
<1>1. ASSUME NEW u \in Threads, u # t, pc[u] # "idle" PROVE job[u].ticket # job[t].ticket
  <2>1. CASE Calls(u)
    BY <1>1, <2>1 DEF Inv, ApartInv, CallApart, Calls
  <2>2. CASE Holds(u)
    <3>1. u \in Workers /\ Sends(t, u)
      BY <2>2 DEF Inv, PlaceInv, PlaceOf, Sends
    <3> QED BY <2>2, <3>1 DEF Inv, ApartInv, SendApart
  <2>3. CASE Ends(u)
    BY <2>3 DEF Inv, ApartInv, EndApart
  <2> QED BY <1>1, <2>1, <2>2, <2>3, Places DEF Inv
<1>2. \A w \in Workers : Sends(t, w)
  BY DEF Sends
<1> QED BY <1>1, <1>2 DEF Inv, ApartInv, SendApart

\* A thread between registration and the end of a task has an id in use.
LEMMA ActiveJob ==
    ASSUME Inv, NEW t \in Threads, pc[t] \notin {"idle", "scan", "wait", "finish"}
    PROVE  Active(job[t].ticket) /\ job[t].id \in Ids /\ view[job[t].id].cntl = "inuse"
<1>1. job[t].ticket \in DOMAIN hits /\ ~ Over(job[t].ticket) /\ job[t] = hits[job[t].ticket]
  BY JobOf DEF Inv, OverInv
<1>2. ~ Scanned(job[t].ticket)
  BY Alone DEF Scanned
<1> QED BY <1>1, <1>2 DEF Inv, IdInv, Active

\* A task in a list has one too.
LEMMA ActiveQueued ==
    ASSUME Inv, NEW w \in Workers, NEW n \in DOMAIN list[w]
    PROVE  /\ Active(list[w][n].ticket) /\ list[w][n].id \in Ids
           /\ list[w][n].ticket \in DOMAIN hits /\ list[w][n] = hits[list[w][n].ticket]
<1>1. /\ list[w][n].ticket \in DOMAIN hits /\ ~ Over(list[w][n].ticket)
      /\ list[w][n] = hits[list[w][n].ticket]
  BY QueuedOf DEF Inv, OverInv
<1>2. ~ Scanned(list[w][n].ticket)
  BY Alone DEF Scanned
<1> QED BY <1>1, <1>2 DEF Inv, IdInv, Active

\* The counters of its entry are those of its runs until the reset.
LEMMA HoldCounts ==
    ASSUME Inv, NEW t \in Threads, Holds(t) \/ pc[t] \in {"push", "reset"}
    PROVE  Counting(job[t].ticket) /\ Counted(job[t].ticket)
<1>1. pc[t] \notin {"idle", "scan", "wait", "finish", "fill", "release"}
  BY DEF Holds
<1>2. Active(job[t].ticket) /\ job[t].ticket \in DOMAIN hits
  BY <1>1, ActiveJob, JobOf DEF Inv
<1>3. ASSUME NEW u \in Threads, pc[u] = "fill" PROVE job[u].ticket # job[t].ticket
  BY <1>1, <1>3, Alone
<1>4. ASSUME NEW u \in Threads, pc[u] = "release" PROVE job[u].ticket # job[t].ticket
  BY <1>1, <1>4 DEF Inv, ApartInv, EndApart, Ends
<1>5. Counting(job[t].ticket)
  BY <1>2, <1>3, <1>4 DEF Counting
<1> QED BY <1>2, <1>5 DEF Inv, CountInv

-----------------------------------------------------------------------------
\* What the steps do.

\* A hit adds a task.
LEMMA HitTask ==
    ASSUME Typed, NEW t \in Threads, Hits(t)
    PROVE  \E task \in Task :
             /\ pc[t] = "idle" /\ task.ticket = Len(hits) + 1 /\ task.ticket \in Tickets
             /\ hits' = Append(hits, task) /\ job' = [job EXCEPT ![t] = task]
             /\ pos' = [pos EXCEPT ![t] = 1] /\ pc' = [pc EXCEPT ![t] = "scan"]
             /\ deal' = [deal EXCEPT ![t] = IF task.origin = "INIT" THEN "begin" ELSE "unused"]
             /\ task.origin = "HTTP" =>
                    /\ task.func /\ task.id \in Conns /\ task.deal = {}
                    /\ (Swift => t \in Workers) /\ conn[task.id] = "idle"
                    /\ conn' = [conn EXCEPT ![task.id] = "busy"] /\ data' = data
             /\ task.origin # "HTTP" =>
                    /\ task.type = "WHOLE" /\ task.id = 0
                    /\ task.deal = IF task.origin = "INIT" THEN {t} ELSE {}
                    /\ conn' = conn
                    /\ data' = IF task.origin = "MSMQ"
                               THEN [data EXCEPT ![Len(hits) + 1] = "live"] ELSE data
             /\ UNCHANGED <<engine, view, list, max, tally>>
<1>1. CASE HitManage(t)
  <2>1. PICK task \in Task, synch \in BOOLEAN :
               /\ Hit(t, task, synch)
               /\ task.ticket = tickets + 1 /\ task.id = 0 /\ task.type = "WHOLE"
               /\ task.origin \in {"INIT", "MSMQ", "TIME"} /\ task.func \in BOOLEAN
               /\ synch <=> task.origin = "INIT"
               /\ task.deal = IF task.origin = "INIT" THEN {t} ELSE {}
               /\ data' = IF task.origin = "MSMQ"
                          THEN [data EXCEPT ![tickets + 1] = "live"] ELSE data
               /\ UNCHANGED conn
    BY <1>1, HitManageTask
  <2>2. UNCHANGED <<engine, view, list, max, tally>>
    BY <1>1 DEF HitManage, Hits
  <2>3. task.ticket \in Tickets
    BY DEF Task
  <2> QED BY <2>1, <2>2, <2>3 DEF Hit, Go, tickets
<1>2. CASE HitRequest(t)
  <2>1. PICK task \in Task :
               /\ Hit(t, task, FALSE)
               /\ task.ticket = tickets + 1 /\ task.id \in Conns /\ task.origin = "HTTP"
               /\ task.func = TRUE /\ task.deal = {} /\ (Swift => t \in Workers)
               /\ conn[task.id] = "idle" /\ conn' = [conn EXCEPT ![task.id] = "busy"]
               /\ UNCHANGED data
    BY <1>2, HitRequestTask
  <2>2. UNCHANGED <<engine, view, list, max, tally>>
    BY <1>2 DEF HitRequest, Hits
  <2>3. task.ticket \in Tickets
    BY DEF Task
  <2> QED BY <2>1, <2>2, <2>3 DEF Hit, Go, tickets
<1> QED BY <1>1, <1>2 DEF Hits

\* A step changes the place and the task of one thread.
LEMMA OneThread ==
    ASSUME Typed, NEW t \in Threads, Step(t) \/ Hits(t)
    PROVE  /\ \A u \in Threads : u # t => /\ pc'[u] = pc[u] /\ job'[u] = job[u]
                                          /\ pos'[u] = pos[u] /\ max'[u] = max[u]
           /\ engine' = engine /\ Turns' = Turns
<1>0. /\ DOMAIN pc = Threads /\ DOMAIN job = Threads /\ DOMAIN pos = Threads
      /\ DOMAIN max = Threads
  BY DEF Typed
<1>1. engine' = engine
  BY DEF Step, Hits
<1>2. CASE Hits(t)
  <2>1. PICK task \in Task :
             /\ job' = [job EXCEPT ![t] = task] /\ pc' = [pc EXCEPT ![t] = "scan"]
             /\ pos' = [pos EXCEPT ![t] = 1] /\ max' = max
    BY <1>2, HitTask
  <2> QED BY <1>0, <1>1, <2>1 DEF Turns, Swift
<1>3. CASE RgstRequest(t) \/ RgstManage(t) \/ Fill(t)
  BY <1>0, <1>1, <1>3 DEF RgstRequest, RgstManage, Fill, Go, Turns, Swift
<1>4. CASE Push(t) \/ Return(t) \/ Take(t)
  BY <1>0, <1>1, <1>4 DEF Push, Pushed, Return, Take, Go, Turns, Swift
<1>5. CASE Come(t) \/ Run(t) \/ OverMax(t) \/ OverAdd(t)
  BY <1>0, <1>1, <1>5 DEF Come, Run, OverMax, OverAdd, Go, Turns, Swift
<1>6. CASE OverReset(t) \/ OverRelease(t) \/ Finish(t)
  BY <1>0, <1>1, <1>6 DEF OverReset, OverRelease, Finish, Go, Turns, Swift
<1> QED BY <1>2, <1>3, <1>4, <1>5, <1>6 DEF Step

\* Every step keeps the types.
LEMMA TypedStep ==
    ASSUME Inv, Next
    PROVE  Typed'
<1> DEFINE Pcs == {"idle", "scan", "fill", "push", "wait", "begin", "run", "over", "add",
                   "reset", "release", "finish", "abort"}
           Entry == [cntl : {"unuse", "inuse"}, worker_finish : Nat, worker_affect : Nat,
                     tasker_finish : Nat, tasker_affect : Nat]
           Tally == [begun : Nat, ended : Nat, last : Nat, over : Nat]
<1>0. Typed /\ TaskInv /\ PlaceInv /\ OverInv /\ IdInv
  BY DEF Inv
<1>1. /\ view \in [Ids -> Entry] /\ pc \in [Threads -> Pcs]
      /\ job \in [Threads -> Task \cup {NoTask}] /\ list \in [Workers -> Seq(Task)]
      /\ hits \in Seq(Task) /\ pos \in [Threads -> Nat] /\ max \in [Threads -> Nat]
      /\ deal \in [Threads -> {"none", "unused", "begin", "finish"}]
      /\ tally \in [Tickets -> Tally]
      /\ conn \in [Conns -> {"idle", "busy"}] /\ engine \in Engines
      /\ data \in [Tickets -> {"none", "live", "freed"}]
  BY <1>0 DEF Typed
<1>2. ASSUME NEW k \in DOMAIN hits PROVE hits[k] \in Task /\ k \in Tickets
  BY <1>0, HitOf
<1>3. ASSUME NEW t \in Threads, pc[t] # "idle"
      PROVE  /\ job[t] \in Task /\ job[t].ticket \in Tickets
             /\ job[t].ticket \in DOMAIN hits /\ job[t] = hits[job[t].ticket]
  BY <1>0, <1>3, JobOf
<1>4. ASSUME NEW t \in Threads, pc[t] \notin {"idle", "scan", "wait", "finish"}
      PROVE  job[t].id \in Ids
  BY <1>4, ActiveJob
<1>5. ASSUME NEW i \in Ids, NEW e \in Entry, view' = [view EXCEPT ![i] = e]
      PROVE  view' \in [Ids -> Entry]
  <2> HIDE DEF Entry
  <2> QED BY <1>1, <1>5
<1>6. ASSUME NEW t \in Threads, NEW l \in Pcs, pc' = [pc EXCEPT ![t] = l]
      PROVE  pc' \in [Threads -> Pcs]
  <2> HIDE DEF Pcs
  <2> QED BY <1>1, <1>6
<1>61. ASSUME NEW i \in Ids, NEW e \in Entry
       PROVE  /\ [e EXCEPT !.cntl = "inuse"] \in Entry
              /\ [e EXCEPT !.cntl = "unuse"] \in Entry
              /\ [e EXCEPT !.tasker_finish = e.tasker_finish + 1] \in Entry
              /\ [e EXCEPT !.worker_finish = e.worker_finish + 1] \in Entry
              /\ [Unused EXCEPT !.cntl = e.cntl] \in Entry
  BY DEF Unused
<1>62. ASSUME NEW k \in Tickets, NEW e \in Tally, tally' = [tally EXCEPT ![k] = e]
       PROVE  tally' \in [Tickets -> Tally]
  <2> HIDE DEF Tally
  <2> QED BY <1>1, <1>62
<1>63. ASSUME NEW e \in Tally, NEW n \in Nat
       PROVE  /\ [e EXCEPT !.begun = e.begun + 1, !.last = e.last + n] \in Tally
              /\ [e EXCEPT !.ended = e.ended + 1] \in Tally
              /\ [e EXCEPT !.over = e.over + 1] \in Tally
  <2>1. e.begun + 1 \in Nat /\ e.ended + 1 \in Nat /\ e.over + 1 \in Nat /\ e.last + n \in Nat
    OBVIOUS
  <2>2. \A a, b \in Nat : [e EXCEPT !.begun = a, !.last = b] \in Tally
    OBVIOUS
  <2>3. \A a \in Nat : [e EXCEPT !.ended = a] \in Tally /\ [e EXCEPT !.over = a] \in Tally
    OBVIOUS
  <2> QED BY <2>1, <2>2, <2>3
<1>64. \A i \in Ids : view[i] \in Entry
  <2> HIDE DEF Entry
  <2> QED BY <1>1
<1>65. \A k \in Tickets : tally[k] \in Tally
  <2> HIDE DEF Tally
  <2> QED BY <1>1
<1>7. SUFFICES
        /\ view' \in [Ids -> Entry] /\ pc' \in [Threads -> Pcs]
        /\ job' \in [Threads -> Task \cup {NoTask}] /\ list' \in [Workers -> Seq(Task)]
        /\ hits' \in Seq(Task) /\ pos' \in [Threads -> Nat] /\ max' \in [Threads -> Nat]
        /\ deal' \in [Threads -> {"none", "unused", "begin", "finish"}]
        /\ tally' \in [Tickets -> Tally]
        /\ conn' \in [Conns -> {"idle", "busy"}] /\ engine' \in Engines
        /\ data' \in [Tickets -> {"none", "live", "freed"}]
  BY DEF Typed
<1> DEFINE Goal ==
        /\ view' \in [Ids -> Entry] /\ pc' \in [Threads -> Pcs]
        /\ job' \in [Threads -> Task \cup {NoTask}] /\ list' \in [Workers -> Seq(Task)]
        /\ hits' \in Seq(Task) /\ pos' \in [Threads -> Nat] /\ max' \in [Threads -> Nat]
        /\ deal' \in [Threads -> {"none", "unused", "begin", "finish"}]
        /\ tally' \in [Tickets -> Tally]
        /\ conn' \in [Conns -> {"idle", "busy"}] /\ engine' \in Engines
        /\ data' \in [Tickets -> {"none", "live", "freed"}]
<1>8. ASSUME NEW t \in Threads, HitManage(t), UNCHANGED engine PROVE Goal
  <2>1. PICK task \in Task, synch \in BOOLEAN :
               /\ Hit(t, task, synch)
               /\ data' = IF task.origin = "MSMQ"
                          THEN [data EXCEPT ![tickets + 1] = "live"] ELSE data
               /\ UNCHANGED conn
    BY <1>0, <1>8, HitManageTask
  <2>2. data' \in [Tickets -> {"none", "live", "freed"}]
    BY <1>1, <2>1
  <2> QED BY <1>0, <1>1, <1>8, <2>1, <2>2, HitTyped DEF HitManage
<1>9. ASSUME NEW t \in Threads, HitRequest(t), UNCHANGED engine PROVE Goal
  <2>1. PICK task \in Task :
               /\ Hit(t, task, FALSE)
               /\ conn' = [conn EXCEPT ![task.id] = "busy"]
               /\ UNCHANGED data
    BY <1>0, <1>9, HitRequestTask
  <2>2. conn' \in [Conns -> {"idle", "busy"}]
    BY <1>1, <2>1
  <2> QED BY <1>0, <1>1, <1>9, <2>1, <2>2, HitTyped DEF HitRequest
<1>10. ASSUME NEW t \in Threads, RgstRequest(t), UNCHANGED engine PROVE Goal
  <2>1. view' \in [Ids -> Entry] /\ pc' \in [Threads -> Pcs]
    <3>1. job[t].id \in Ids
      BY <1>0, <1>3, <1>10, Constants DEF RgstRequest, TaskInv
    <3>2. CASE view[job[t].id].cntl = "unuse"
      <4>1. /\ view' = [view EXCEPT ![job[t].id] = [view[job[t].id] EXCEPT !.cntl = "inuse"]]
            /\ pc' = [pc EXCEPT ![t] = "fill"]
        BY <1>10, <3>2 DEF RgstRequest, Go
      <4>2. "fill" \in Pcs
        OBVIOUS
      <4> HIDE DEF Pcs, Entry
      <4> QED BY <1>5, <1>6, <1>61, <1>64, <3>1, <4>1, <4>2
    <3>3. CASE view[job[t].id].cntl # "unuse"
      <4>1. view' = view /\ pc' = [pc EXCEPT ![t] = "abort"]
        BY <1>10, <3>3 DEF RgstRequest, Go
      <4>2. "abort" \in Pcs
        OBVIOUS
      <4> HIDE DEF Pcs, Entry
      <4> QED BY <1>1, <1>6, <4>1, <4>2
    <3> QED BY <3>2, <3>3
  <2> HIDE DEF Pcs, Entry, Tally
  <2> QED BY <1>1, <1>10, <2>1 DEF RgstRequest
<1>11. ASSUME NEW t \in Threads, RgstManage(t), UNCHANGED engine PROVE Goal
  <2>1. pos[t] \in Manage /\ pos[t] \in Ids /\ pos[t] \in Nat
    BY <1>0, <1>1, <1>11, Constants DEF RgstManage, PlaceInv, PlaceOf
  <2>2. CASE view[pos[t]].cntl = "unuse"
    <3>1. /\ view' = [view EXCEPT ![pos[t]].cntl = "inuse"]
          /\ job' = [job EXCEPT ![t].id = pos[t]]
          /\ hits' = [hits EXCEPT ![job[t].ticket].id = pos[t]]
          /\ pc' = [pc EXCEPT ![t] = "fill"] /\ UNCHANGED pos
      BY <1>11, <2>2 DEF RgstManage, Go
    <3>2. view' \in [Ids -> Entry] /\ pc' \in [Threads -> Pcs]
      <4>1. view' = [view EXCEPT ![pos[t]] = [view[pos[t]] EXCEPT !.cntl = "inuse"]]
        BY <3>1
      <4>2. "fill" \in Pcs
        OBVIOUS
      <4> HIDE DEF Pcs, Entry
      <4> QED BY <1>5, <1>6, <1>61, <1>64, <2>1, <3>1, <4>1, <4>2
    <3>3. job[t] \in Task /\ job[t].ticket \in DOMAIN hits /\ hits[job[t].ticket] \in Task
      BY <1>2, <1>3, <1>11 DEF RgstManage
    <3>4. \A j \in Task : [j EXCEPT !.id = pos[t]] \in Task
      BY <2>1 DEF Task
    <3>5. job' \in [Threads -> Task \cup {NoTask}]
      BY <1>1, <3>1, <3>3, <3>4
    <3>6. hits' = [hits EXCEPT ![job[t].ticket] = [hits[job[t].ticket] EXCEPT !.id = pos[t]]]
      BY <3>1
    <3>7. ASSUME NEW j \in Task, NEW k \in DOMAIN hits PROVE [hits EXCEPT ![k] = j] \in Seq(Task)
      BY ONLY <1>1, <3>7
    <3>8. hits' \in Seq(Task)
      BY <3>3, <3>4, <3>6, <3>7
    <3> QED BY <1>1, <1>11, <3>1, <3>2, <3>5, <3>8 DEF RgstManage
  <2>3. CASE view[pos[t]].cntl # "unuse"
    <3>1. /\ pos' = [pos EXCEPT ![t] = IF @ < M THEN @ + 1 ELSE 1]
          /\ UNCHANGED <<view, job, hits, pc>>
      BY <1>11, <2>3 DEF RgstManage
    <3>2. pos' \in [Threads -> Nat]
      BY <1>1, <2>1, <3>1
    <3> QED BY <1>1, <1>11, <3>1, <3>2 DEF RgstManage
  <2> QED BY <2>2, <2>3
<1>12. ASSUME NEW t \in Threads, Fill(t), UNCHANGED engine PROVE Goal
  <2>1. job[t].id \in Ids
    BY <1>4, <1>12 DEF Fill
  <2>2. W * Turns \in Nat
    <3>1. Turns \in Nat /\ W \in Nat
      BY Constants DEF Turns
    <3> QED BY <3>1
  <2> DEFINE e == [cntl |-> view[job[t].id].cntl, worker_finish |-> 0, tasker_finish |-> 0,
                   worker_affect |-> IF job[t].type = "WHOLE" THEN W ELSE 1,
                   tasker_affect |-> IF job[t].type = "WHOLE" THEN W * Turns ELSE 1]
  <2>3. e \in Entry
    BY <1>1, <2>1, <2>2, Constants
  <2>4. view' = [view EXCEPT ![job[t].id] = e]
    BY <1>12 DEF Fill
  <2>5. view' \in [Ids -> Entry]
    <3> HIDE DEF e
    <3> QED BY <1>5, <2>1, <2>3, <2>4
  <2>6. CASE job[t].origin = "HTTP" /\ job[t].type = "ALONE" /\ Swift
    <3>1. /\ pc' = [pc EXCEPT ![t] = "begin"] /\ deal' = [deal EXCEPT ![t] = "none"]
          /\ pos' = [pos EXCEPT ![t] = 1]
      BY <1>12, <2>6 DEF Fill, Go
    <3>2. /\ pc' \in [Threads -> Pcs] /\ pos' \in [Threads -> Nat]
          /\ deal' \in [Threads -> {"none", "unused", "begin", "finish"}]
      BY <1>1, <3>1
    <3> HIDE DEF Pcs, Entry, Tally
    <3> QED BY <1>1, <1>12, <2>5, <3>2 DEF Fill
  <2>7. CASE ~ (job[t].origin = "HTTP" /\ job[t].type = "ALONE" /\ Swift)
    <3>1. PICK w \in Workers : /\ pc' = [pc EXCEPT ![t] = "push"] /\ UNCHANGED deal
                               /\ pos' = [pos EXCEPT ![t] = w]
      BY <1>12, <2>7, Constants DEF Fill, Go
    <3>2. pc' \in [Threads -> Pcs] /\ pos' \in [Threads -> Nat]
      BY <1>1, <3>1, Constants
    <3> HIDE DEF Pcs, Entry, Tally
    <3> QED BY <1>1, <1>12, <2>5, <3>1, <3>2 DEF Fill
  <2> QED BY <2>6, <2>7
<1>13. ASSUME NEW t \in Threads, Push(t), UNCHANGED engine PROVE Goal
  <2>1. pos[t] \in Workers /\ job[t] \in Task
    BY <1>0, <1>3, <1>13 DEF Push, PlaceInv, PlaceOf
  <2>2. list' \in [Workers -> Seq(Task)]
    <3>1. Append(list[pos[t]], job[t]) \in Seq(Task)
      BY <1>1, <2>1, AppendOf
    <3> QED BY <1>1, <1>13, <3>1 DEF Push
  <2>3. pos' \in [Threads -> Nat]
    BY <1>1, <1>13 DEF Push, Pushed
  <2>4. pc' \in [Threads -> Pcs]
    BY <1>1, <1>13 DEF Push, Pushed, Go
  <2>5. job' \in [Threads -> Task \cup {NoTask}]
    BY <1>1, <1>13 DEF Push, Pushed
  <2>6. deal' \in [Threads -> {"none", "unused", "begin", "finish"}]
    BY <1>1, <1>13 DEF Push, Pushed
  <2> HIDE DEF Pcs, Entry, Tally
  <2> QED BY <1>1, <1>13, <2>2, <2>3, <2>4, <2>5, <2>6 DEF Push
<1>14. ASSUME NEW t \in Threads, Return(t), UNCHANGED engine PROVE Goal
  BY <1>1, <1>14 DEF Return, Go
<1>15. ASSUME NEW t \in Threads, Take(t), UNCHANGED engine PROVE Goal
  <2>1. t \in Workers /\ list[t] # <<>> /\ list[t] \in Seq(Task)
    BY <1>1, <1>15 DEF Take
  <2>2. Head(list[t]) \in Task /\ Tail(list[t]) \in Seq(Task)
    BY <2>1, TailOf
  <2>3. list' \in [Workers -> Seq(Task)]
    BY <1>1, <1>15, <2>2 DEF Take
  <2>4. /\ pc' \in [Threads -> Pcs] /\ pos' \in [Threads -> Nat]
        /\ job' \in [Threads -> Task \cup {NoTask}]
    <3>1. Turns \in Nat
      BY Constants DEF Turns
    <3>2. CASE Head(list[t]).func
      <4> DEFINE n == IF Head(list[t]).type = "WHOLE" THEN Turns ELSE 1
      <4>1. /\ job' = [job EXCEPT ![t] = Head(list[t])] /\ pos' = [pos EXCEPT ![t] = n]
            /\ pc' = [pc EXCEPT ![t] = "begin"]
        BY <1>15, <3>2 DEF Take, Go
      <4>2. "begin" \in Pcs /\ n \in Nat
        BY <3>1
      <4> HIDE DEF Pcs, n
      <4> QED BY <1>1, <1>6, <2>2, <4>1, <4>2
    <3>3. CASE ~ Head(list[t]).func
      <4>1. UNCHANGED <<job, pos, pc>>
        BY <1>15, <3>3 DEF Take
      <4> HIDE DEF Pcs
      <4> QED BY <1>1, <4>1
    <3> QED BY <3>2, <3>3
  <2> HIDE DEF Pcs, Entry, Tally
  <2> QED BY <1>1, <1>15, <2>3, <2>4 DEF Take
<1>16. ASSUME NEW t \in Threads, Come(t), UNCHANGED engine PROVE Goal
  <2>1. job[t].id \in Ids /\ job[t].ticket \in Tickets
    BY <1>3, <1>4, <1>16 DEF Come
  <2>2. PICK last \in Nat :
          /\ view' = [view EXCEPT ![job[t].id].tasker_finish = view[job[t].id].tasker_finish + 1]
          /\ tally' = [tally EXCEPT ![job[t].ticket].begun = @ + 1, ![job[t].ticket].last = @ + last]
    BY <1>16 DEF Come
  <2>3. view' \in [Ids -> Entry]
    <3>1. view' = [view EXCEPT ![job[t].id] = [view[job[t].id] EXCEPT !.tasker_finish =
                                                   view[job[t].id].tasker_finish + 1]]
      BY <2>2
    <3> HIDE DEF Entry
    <3> QED BY <1>5, <1>61, <1>64, <2>1, <3>1
  <2>4. tally' \in [Tickets -> Tally]
    <3> DEFINE e == tally[job[t].ticket]
    <3>1. tally' = [tally EXCEPT ![job[t].ticket] =
                        [e EXCEPT !.begun = e.begun + 1, !.last = e.last + last]]
      BY <2>2
    <3>2. e \in Tally
      BY <1>65, <2>1
    <3> HIDE DEF Tally, e
    <3> QED BY <1>62, <1>63, <2>1, <3>1, <3>2
  <2>5. pc' \in [Threads -> Pcs]
    BY <1>1, <1>16 DEF Come, Go
  <2> HIDE DEF Pcs, Entry, Tally
  <2> QED BY <1>1, <1>16, <2>3, <2>4, <2>5 DEF Come
<1>17. ASSUME NEW t \in Threads, Run(t), UNCHANGED engine PROVE Goal
  <2>1. job[t].ticket \in Tickets
    BY <1>3, <1>17 DEF Run
  <2>2. tally' \in [Tickets -> Tally]
    <3> DEFINE e == tally[job[t].ticket]
    <3>1. tally' = [tally EXCEPT ![job[t].ticket] = [e EXCEPT !.ended = e.ended + 1]]
      BY <1>17 DEF Run, Count
    <3>2. e \in Tally
      BY <1>65, <2>1
    <3> HIDE DEF Tally, e
    <3> QED BY <1>62, <1>63, <2>1, <3>1, <3>2
  <2>3. pos' \in [Threads -> Nat]
    <3>1. pos[t] \in Nat /\ pos[t] >= 1
      <4>1. pos[t] \in 1 .. Runs(job[t]) /\ pos[t] \in Nat
        BY <1>0, <1>1, <1>17 DEF PlaceInv, PlaceOf, Run
      <4> QED BY <4>1, Constants DEF Runs, Turns
    <3>2. pos[t] - 1 \in Nat
      BY <3>1
    <3> QED BY <1>1, <1>17, <3>2 DEF Run
  <2>4. pc' \in [Threads -> Pcs]
    BY <1>1, <1>17 DEF Run, Go
  <2> HIDE DEF Pcs, Entry, Tally
  <2> QED BY <1>1, <1>17, <2>2, <2>3, <2>4 DEF Run
<1>18. ASSUME NEW t \in Threads, OverMax(t), UNCHANGED engine PROVE Goal
  <2>1. job[t].id \in Ids
    BY <1>4, <1>18 DEF OverMax
  <2>2. max' \in [Threads -> Nat]
    BY <1>1, <1>18, <2>1, ZenonT(30) DEF OverMax
  <2>3. pc' \in [Threads -> Pcs]
    <3>1. PICK l \in {"add", "abort"} : pc' = [pc EXCEPT ![t] = l]
      BY <1>18 DEF OverMax, Go
    <3> QED BY <1>6, <3>1
  <2> HIDE DEF Pcs, Entry, Tally
  <2> QED BY <1>1, <1>18, <2>2, <2>3 DEF OverMax
<1>19. ASSUME NEW t \in Threads, OverAdd(t), UNCHANGED engine PROVE Goal
  <2>1. job[t].id \in Ids
    BY <1>4, <1>19 DEF OverAdd
  <2>2. view' \in [Ids -> Entry]
    <3>1. view' = [view EXCEPT ![job[t].id] = [view[job[t].id] EXCEPT !.worker_finish =
                                                   view[job[t].id].worker_finish + 1]]
      BY <1>19 DEF OverAdd
    <3> HIDE DEF Entry
    <3> QED BY <1>5, <1>61, <1>64, <2>1, <3>1
  <2>3. pc' \in [Threads -> Pcs] /\ job' \in [Threads -> Task \cup {NoTask}]
    BY <1>1, <1>19 DEF OverAdd, Go
  <2> HIDE DEF Pcs, Entry, Tally
  <2> QED BY <1>1, <1>19, <2>2, <2>3 DEF OverAdd
<1>20. ASSUME NEW t \in Threads, OverReset(t), UNCHANGED engine PROVE Goal
  <2>1. job[t].id \in Ids
    BY <1>4, <1>20 DEF OverReset
  <2>2. view' \in [Ids -> Entry]
    <3>1. view' = [view EXCEPT ![job[t].id] = [Unused EXCEPT !.cntl = view[job[t].id].cntl]]
      BY <1>20 DEF OverReset
    <3> HIDE DEF Entry
    <3> QED BY <1>5, <1>61, <1>64, <2>1, <3>1
  <2>3. pc' \in [Threads -> Pcs]
    BY <1>1, <1>20 DEF OverReset, Go
  <2> HIDE DEF Pcs, Entry, Tally
  <2> QED BY <1>1, <1>20, <2>2, <2>3 DEF OverReset
<1>21. ASSUME NEW t \in Threads, OverRelease(t), UNCHANGED engine PROVE Goal
  <2>1. job[t].id \in Ids /\ job[t].ticket \in Tickets
    BY <1>3, <1>4, <1>21 DEF OverRelease
  <2>2. view' \in [Ids -> Entry]
    <3>1. \/ view' = [view EXCEPT ![job[t].id] = [view[job[t].id] EXCEPT !.cntl = "unuse"]]
          \/ view' = view
      BY <1>21 DEF OverRelease
    <3> HIDE DEF Entry
    <3> QED BY <1>1, <1>5, <1>61, <1>64, <2>1, <3>1
  <2>3. tally' \in [Tickets -> Tally]
    <3> DEFINE e == tally[job[t].ticket]
    <3>1. \/ tally' = [tally EXCEPT ![job[t].ticket] = [e EXCEPT !.over = e.over + 1]]
          \/ tally' = tally
      BY <1>21 DEF OverRelease, Count
    <3>2. e \in Tally
      BY <1>65, <2>1
    <3> HIDE DEF Tally, e
    <3> QED BY <1>1, <1>62, <1>63, <2>1, <3>1, <3>2
  <2>4. pc' \in [Threads -> Pcs]
    <3>1. PICK l \in {"finish", "abort"} : pc' = [pc EXCEPT ![t] = l]
      BY <1>21 DEF OverRelease, Go
    <3> QED BY <1>6, <3>1
  <2> HIDE DEF Pcs, Entry, Tally
  <2> QED BY <1>1, <1>21, <2>2, <2>3, <2>4 DEF OverRelease
<1>22. ASSUME NEW t \in Threads, Finish(t), UNCHANGED engine PROVE Goal
  <2>1. pc' \in [Threads -> Pcs] /\ job' \in [Threads -> Task \cup {NoTask}]
    BY <1>1, <1>22 DEF Finish, Go
  <2>2. deal' \in [Threads -> {"none", "unused", "begin", "finish"}]
    BY <1>1, <1>22 DEF Finish
  <2>3. /\ data' \in [Tickets -> {"none", "live", "freed"}]
        /\ conn' \in [Conns -> {"idle", "busy"}]
    BY <1>1, <1>22 DEF Finish
  <2> HIDE DEF Pcs, Entry, Tally
  <2> QED BY <1>1, <1>22, <2>1, <2>2, <2>3 DEF Finish
<1>23. CASE Done
  BY <1>1, <1>23 DEF Done, vars
<1> HIDE DEF Pcs, Entry, Tally
<1> QED BY <1>8, <1>9, <1>10, <1>11, <1>12, <1>13, <1>14, <1>15, <1>16, <1>17, <1>18,
           <1>19, <1>20, <1>21, <1>22, <1>23 DEF Next, Step, Hits

\* What a hit does to the tasks hit so far.
LEMMA HitsGrow ==
    ASSUME Typed, NEW task \in Task, hits' = Append(hits, task)
    PROVE  /\ DOMAIN hits' = DOMAIN hits \cup {Len(hits) + 1}
           /\ Len(hits) + 1 \notin DOMAIN hits /\ hits'[Len(hits) + 1] = task
           /\ \A k \in DOMAIN hits : hits'[k] = hits[k]
<1>1. hits \in Seq(Task) /\ hits' \in Seq(Task)
  BY AppendOf DEF Typed
<1>2. DOMAIN hits = 1 .. Len(hits) /\ DOMAIN hits' = 1 .. Len(hits) + 1 /\ Len(hits) \in Nat
  BY <1>1, AppendOf, ElementOf
<1> QED BY <1>1, <1>2, AppendOf

\* The free id that a manage task finds becomes that of the task.
LEMMA FoundDoes ==
    ASSUME Inv, NEW t \in Threads, RgstManage(t), view[pos[t]].cntl = "unuse"
    PROVE  /\ pc[t] = "scan" /\ pos[t] \in Manage /\ pos[t] \in Ids
           /\ job[t].origin # "HTTP" /\ job[t].ticket \in DOMAIN hits
           /\ DOMAIN hits' = DOMAIN hits
           /\ \A k \in DOMAIN hits : k # job[t].ticket => hits'[k] = hits[k]
           /\ hits'[job[t].ticket] = [job[t] EXCEPT !.id = pos[t]]
           /\ job'[t] = [job[t] EXCEPT !.id = pos[t]]
           /\ job[t] \in Task /\ pc'[t] = "fill" /\ pos'[t] = pos[t]
           /\ job'[t].ticket = job[t].ticket /\ job'[t].id = pos[t]
           /\ job'[t].origin = job[t].origin
           /\ \A i \in Ids : i # pos[t] => view'[i] = view[i]
           /\ view'[pos[t]] = [view[pos[t]] EXCEPT !.cntl = "inuse"]
           /\ UNCHANGED <<list, max, deal, conn, data, tally>>
<1>1. pc[t] = "scan" /\ job[t].origin # "HTTP"
  BY DEF RgstManage
<1>2. /\ job[t] \in Task /\ job[t].ticket \in DOMAIN hits /\ job[t] = hits[job[t].ticket]
  BY <1>1, JobOf DEF Inv
<1>3. pos[t] \in Manage /\ pos[t] \in Ids
  BY <1>1, Constants DEF Inv, PlaceInv, PlaceOf
<1>4. /\ view' = [view EXCEPT ![pos[t]].cntl = "inuse"]
      /\ job' = [job EXCEPT ![t].id = pos[t]]
      /\ hits' = [hits EXCEPT ![job[t].ticket].id = pos[t]]
      /\ pc' = [pc EXCEPT ![t] = "fill"] /\ UNCHANGED pos
      /\ UNCHANGED <<list, max, deal, conn, data, tally>>
  BY DEF RgstManage, Go
<1>5. DOMAIN view = Ids /\ DOMAIN job = Threads /\ DOMAIN pc = Threads
  BY DEF Inv, Typed
<1>6. job'[t] = [job[t] EXCEPT !.id = pos[t]]
  BY <1>4, <1>5
<1>7. /\ job'[t].ticket = job[t].ticket /\ job'[t].id = pos[t]
      /\ job'[t].origin = job[t].origin
  BY <1>2, <1>6 DEF Task
<1> QED BY <1>1, <1>2, <1>3, <1>4, <1>5, <1>6, <1>7

\* Otherwise it looks at the next id.
LEMMA NotFoundDoes ==
    ASSUME Inv, NEW t \in Threads, RgstManage(t), view[pos[t]].cntl # "unuse"
    PROVE  /\ pc[t] = "scan" /\ pos'[t] \in Manage
           /\ UNCHANGED <<view, list, pc, job, max, deal, conn, hits, data, tally>>
<1>1. pc[t] = "scan" /\ job[t].origin # "HTTP"
  BY DEF RgstManage
<1>2. pos[t] \in Manage /\ DOMAIN pos = Threads
  BY <1>1 DEF Inv, PlaceInv, PlaceOf, Typed
<1>3. pos' = [pos EXCEPT ![t] = IF @ < M THEN @ + 1 ELSE 1]
  BY DEF RgstManage
<1>4. pos'[t] \in Manage
  BY <1>2, <1>3, Constants DEF Manage
<1> QED BY <1>1, <1>4 DEF RgstManage

\* A request finds the id of its descriptor free: the assertion of
\* smart_task_rgst holds.
LEMMA RequestDoes ==
    ASSUME Inv, NEW t \in Threads, RgstRequest(t)
    PROVE  /\ pc[t] = "scan" /\ job[t].origin = "HTTP" /\ job[t].id \in Conns
           /\ job[t].id \in Ids /\ view[job[t].id].cntl = "unuse" /\ pc'[t] = "fill"
           /\ \A i \in Ids : i # job[t].id => view'[i] = view[i]
           /\ view'[job[t].id] = [view[job[t].id] EXCEPT !.cntl = "inuse"]
           /\ UNCHANGED <<list, job, pos, max, deal, conn, hits, data, tally>>
<1>1. pc[t] = "scan" /\ job[t].origin = "HTTP"
  BY DEF RgstRequest
<1>2. /\ job[t].ticket \in DOMAIN hits /\ job[t] = hits[job[t].ticket]
      /\ job[t].id \in Conns /\ job[t].id \in Ids
  BY <1>1, JobOf, Constants DEF Inv, TaskInv
<1>3. view[job[t].id].cntl = "unuse"
  <2> SUFFICES ASSUME view[job[t].id].cntl # "unuse" PROVE FALSE
    OBVIOUS
  <2>1. view[job[t].id].cntl = "inuse"
    BY <1>2 DEF Inv, Typed
  <2>2. PICK k \in DOMAIN hits : Active(k) /\ hits[k].id = job[t].id
    BY <1>2, <2>1 DEF Inv, IdInv
  <2>3. Open(k) /\ Open(job[t].ticket)
    BY <1>1, <2>2 DEF Inv, OverInv, Open, Active
  <2>4. k = job[t].ticket
    BY <1>1, <1>2, <2>2, <2>3 DEF Inv, OpenInv
  <2> QED BY <1>1, <2>2, <2>4 DEF Active, Scanned
<1>4. DOMAIN view = Ids /\ DOMAIN pc = Threads
  BY DEF Inv, Typed
<1> QED BY <1>1, <1>2, <1>3, <1>4 DEF RgstRequest, Go

\* What becomes of the lists.
LEMMA ListStep ==
    ASSUME Inv, NEW t \in Threads, Step(t) \/ Hits(t),
           NEW w \in Workers, NEW n \in DOMAIN list'[w]
    PROVE  \/ \E m \in DOMAIN list[w] : list'[w][n] = list[w][m]
           \/ pc[t] = "push" /\ w = pos[t] /\ list'[w][n] = job[t]
<1>0. list \in [Workers -> Seq(Task)]
  BY DEF Inv, Typed
<1>1. CASE list' = list
  BY <1>1
<1>2. CASE Push(t)
  <2>1. pc[t] = "push" /\ job[t] \in Task /\ pos[t] \in Workers
    BY <1>2, JobOf DEF Push, Inv, PlaceInv, PlaceOf
  <2>2. CASE list' = [list EXCEPT ![pos[t]] = Append(@, job[t])] /\ w = pos[t]
    <3>1. list'[w] = Append(list[w], job[t]) /\ list[w] \in Seq(Task)
      BY <1>0, <2>2
    <3>2. n \in 1 .. Len(list[w]) + 1 /\ DOMAIN list[w] = 1 .. Len(list[w])
      BY <2>1, <3>1, AppendOf, ElementOf
    <3> QED BY <2>1, <2>2, <3>1, <3>2, AppendOf
  <2>3. CASE list' = [list EXCEPT ![pos[t]] = Append(@, job[t])] /\ w # pos[t]
    BY <1>0, <2>3
  <2> QED BY <1>1, <1>2, <2>2, <2>3 DEF Push
<1>3. CASE Take(t)
  <2>1. t \in Workers /\ list[t] # <<>> /\ list' = [list EXCEPT ![t] = Tail(@)]
    BY <1>3 DEF Take
  <2>2. CASE w = t
    <3>1. list'[w] = Tail(list[w]) /\ list[w] \in Seq(Task) /\ list[w] # <<>>
      BY <1>0, <2>1, <2>2
    <3>2. /\ Tail(list[w]) \in Seq(Task)
          /\ \A i \in 1 .. Len(Tail(list[w])) : Tail(list[w])[i] = list[w][i + 1]
                                                /\ i + 1 \in 1 .. Len(list[w])
      BY <3>1, TailOf
    <3>3. n \in 1 .. Len(Tail(list[w])) /\ DOMAIN list[w] = 1 .. Len(list[w])
      BY <3>1, <3>2, ElementOf
    <3> QED BY <3>1, <3>2, <3>3
  <2> QED BY <1>0, <2>1, <2>2
<1>4. CASE Hits(t)
  BY <1>1, <1>4, HitTask DEF Inv
<1> QED BY <1>1, <1>2, <1>3, <1>4 DEF Step, RgstRequest, RgstManage, Fill, Return, Come, Run,
        OverMax, OverAdd, OverReset, OverRelease, Finish

\* What becomes of a thread's task.
LEMMA JobStep ==
    ASSUME Inv, NEW t \in Threads, Step(t),
           ~ (RgstManage(t) /\ view[pos[t]].cntl = "unuse")
    PROVE  /\ hits' = hits
           /\ \/ pc'[t] = "idle" /\ job'[t] = NoTask
              \/ pc[t] # "idle" /\ pc'[t] # "idle" /\ job'[t] = job[t]
              \/ /\ Take(t) /\ t \in Workers /\ 1 \in DOMAIN list[t]
                 /\ job'[t] = list[t][1] /\ list[t][1] = Head(list[t]) /\ list[t][1].func
                 /\ pc'[t] = "begin"
<1>0. DOMAIN pc = Threads /\ DOMAIN job = Threads /\ (pc[t] = "idle" => job[t] = NoTask)
  BY DEF Inv, Typed, TaskInv
<1>1. CASE RgstManage(t)
  BY <1>1, NotFoundDoes
<1>2. CASE Take(t)
  <2>1. t \in Workers /\ list[t] # <<>> /\ list[t] \in Seq(Task) /\ pc[t] = "idle"
    BY <1>2 DEF Take, Inv, Typed
  <2>2. 1 \in DOMAIN list[t] /\ list[t][1] = Head(list[t])
    BY <2>1, TailOf, ElementOf
  <2>3. CASE Head(list[t]).func
    BY <1>0, <1>2, <2>1, <2>2, <2>3 DEF Take, Go
  <2>4. CASE ~ Head(list[t]).func
    BY <1>0, <1>2, <2>1, <2>4 DEF Take
  <2> QED BY <2>3, <2>4
<1>3. CASE Push(t)
  <2>1. pc[t] = "push" /\ hits' = hits
    BY <1>3 DEF Push
  <2>2. \/ pc'[t] = "idle" /\ job'[t] = NoTask
        \/ pc'[t] # "idle" /\ job'[t] = job[t]
    BY <1>0, <1>3 DEF Push, Pushed, Go
  <2> QED BY <2>1, <2>2
<1>4. CASE RgstRequest(t)
  BY <1>0, <1>4, RequestDoes
<1>5. CASE Fill(t) \/ Return(t)
  BY <1>0, <1>5 DEF Fill, Return, Go
<1>6. CASE Come(t) \/ Run(t) \/ OverMax(t)
  BY <1>0, <1>6 DEF Come, Run, OverMax, Go
<1>7. CASE OverAdd(t) \/ OverReset(t) \/ OverRelease(t) \/ Finish(t)
  BY <1>0, <1>7 DEF OverAdd, OverReset, OverRelease, Finish, Go
<1> QED BY <1>1, <1>2, <1>3, <1>4, <1>5, <1>6, <1>7 DEF Step

\* Copies of tasks stay equal to what was hit.
LEMMA TaskStep ==
    ASSUME Inv, NEW t \in Threads, Step(t) \/ Hits(t)
    PROVE  TaskInv'
<1>0. Typed /\ TaskInv
  BY DEF Inv
<1>1. CASE Hits(t)
  <2>1. PICK task \in Task :
             /\ pc[t] = "idle" /\ task.ticket = Len(hits) + 1
             /\ hits' = Append(hits, task) /\ job' = [job EXCEPT ![t] = task]
             /\ pc' = [pc EXCEPT ![t] = "scan"]
             /\ task.origin = "HTTP" => task.func /\ task.id \in Conns /\ task.deal = {}
             /\ task.origin # "HTTP" => task.type = "WHOLE" /\ task.id = 0
             /\ UNCHANGED list
    BY <1>0, <1>1, HitTask
  <2>2. /\ DOMAIN hits' = DOMAIN hits \cup {Len(hits) + 1}
        /\ Len(hits) + 1 \notin DOMAIN hits /\ hits'[Len(hits) + 1] = task
        /\ \A k \in DOMAIN hits : hits'[k] = hits[k]
    BY <1>0, <2>1, HitsGrow
  <2>3. DOMAIN pc = Threads /\ DOMAIN job = Threads
    BY <1>0 DEF Typed
  <2>4. ASSUME NEW u \in Threads
        PROVE  /\ pc'[u] # "idle" => /\ job'[u].ticket \in DOMAIN hits'
                                     /\ job'[u] = hits'[job'[u].ticket]
               /\ pc'[u] = "idle" => job'[u] = NoTask
    BY <1>0, <2>1, <2>2, <2>3 DEF TaskInv
  <2>5. ASSUME NEW w \in Workers, NEW n \in DOMAIN list'[w]
        PROVE  /\ list'[w][n].ticket \in DOMAIN hits'
               /\ list'[w][n] = hits'[list'[w][n].ticket]
    BY <1>0, <2>1, <2>2 DEF TaskInv
  <2>6. ASSUME NEW k \in DOMAIN hits'
        PROVE  /\ hits'[k].ticket = k
               /\ hits'[k].origin = "HTTP" => hits'[k].func /\ hits'[k].id \in Conns
               /\ hits'[k].origin # "HTTP" => /\ hits'[k].type = "WHOLE"
                                              /\ hits'[k].id \in Manage \cup {0}
               /\ hits'[k].deal # {} => hits'[k].origin # "HTTP"
    BY <1>0, <2>1, <2>2 DEF TaskInv
  <2> QED BY <2>4, <2>5, <2>6 DEF TaskInv
<1>2. CASE RgstManage(t) /\ view[pos[t]].cntl = "unuse"
  <2> DEFINE k == job[t].ticket
             j == [job[t] EXCEPT !.id = pos[t]]
  <2>1. /\ pc[t] = "scan" /\ pos[t] \in Manage /\ job[t].origin # "HTTP"
        /\ k \in DOMAIN hits /\ DOMAIN hits' = DOMAIN hits
        /\ \A i \in DOMAIN hits : i # k => hits'[i] = hits[i]
        /\ hits'[k] = j /\ job'[t] = j /\ job[t] \in Task /\ pc'[t] = "fill"
        /\ list' = list
    BY <1>2, FoundDoes
  <2>2. /\ j.ticket = k /\ j.origin = job[t].origin /\ j.type = job[t].type
        /\ j.id = pos[t] /\ j.deal = job[t].deal
    BY <2>1 DEF Task
  <2>3. /\ \A u \in Threads : u # t /\ pc[u] # "idle" => job[u].ticket # k
        /\ \A w \in Workers : \A n \in DOMAIN list[w] : list[w][n].ticket # k
    BY <2>1, Alone
  <2>4. \A u \in Threads : u # t => pc'[u] = pc[u] /\ job'[u] = job[u]
    BY <1>0, OneThread
  <2>5. job[t] = hits[k]
    BY <1>0, <2>1 DEF TaskInv
  <2> HIDE DEF j, k
  <2>6. ASSUME NEW u \in Threads
        PROVE  /\ pc'[u] # "idle" => /\ job'[u].ticket \in DOMAIN hits'
                                     /\ job'[u] = hits'[job'[u].ticket]
               /\ pc'[u] = "idle" => job'[u] = NoTask
    <3>1. CASE u = t
      BY <2>1, <2>2, <3>1
    <3>2. CASE u # t
      BY <1>0, <2>1, <2>3, <2>4, <3>2 DEF TaskInv
    <3> QED BY <3>1, <3>2
  <2>7. ASSUME NEW w \in Workers, NEW n \in DOMAIN list'[w]
        PROVE  /\ list'[w][n].ticket \in DOMAIN hits'
               /\ list'[w][n] = hits'[list'[w][n].ticket]
    BY <1>0, <2>1, <2>3 DEF TaskInv
  <2>8. ASSUME NEW i \in DOMAIN hits'
        PROVE  /\ hits'[i].ticket = i
               /\ hits'[i].origin = "HTTP" => hits'[i].func /\ hits'[i].id \in Conns
               /\ hits'[i].origin # "HTTP" => /\ hits'[i].type = "WHOLE"
                                              /\ hits'[i].id \in Manage \cup {0}
               /\ hits'[i].deal # {} => hits'[i].origin # "HTTP"
    BY <1>0, <2>1, <2>2, <2>5 DEF TaskInv
  <2> QED BY <2>6, <2>7, <2>8 DEF TaskInv
<1>3. CASE Step(t) /\ ~ (RgstManage(t) /\ view[pos[t]].cntl = "unuse")
  <2>1. hits' = hits
    BY <1>3, JobStep
  <2>2. ASSUME NEW u \in Threads
        PROVE  /\ pc'[u] # "idle" => /\ job'[u].ticket \in DOMAIN hits
                                     /\ job'[u] = hits[job'[u].ticket]
               /\ pc'[u] = "idle" => job'[u] = NoTask
    <3>1. CASE u # t
      BY <1>0, <1>3, <3>1, OneThread DEF TaskInv
    <3>2. CASE u = t
      BY <1>0, <1>3, <3>2, JobStep DEF TaskInv
    <3> QED BY <3>1, <3>2
  <2>3. ASSUME NEW w \in Workers, NEW n \in DOMAIN list'[w]
        PROVE  list'[w][n].ticket \in DOMAIN hits /\ list'[w][n] = hits[list'[w][n].ticket]
    BY <1>0, <1>3, ListStep, JobOf DEF TaskInv
  <2> QED BY <1>0, <2>1, <2>2, <2>3 DEF TaskInv
<1> QED BY <1>1, <1>2, <1>3

\* The last worker of a task, and what it has left: smart_task_over returns the
\* full count to the worker that finds no other one counted after it.
LEMMA LastOver ==
    ASSUME Inv, NEW t \in Threads, pc[t] = "add",
           view[job[t].id].worker_finish = max[t] - 1
    PROVE  /\ \A w \in Workers : \A n \in DOMAIN list[w] : list[w][n].ticket # job[t].ticket
           /\ \A u \in Threads : u # t /\ Holds(u) => job[u].ticket # job[t].ticket
           /\ \A u \in Threads : pc[u] \in {"scan", "fill", "push"} =>
                  job[u].ticket # job[t].ticket
<1>1. PICK k \in DOMAIN hits : k = job[t].ticket /\ job[t] = hits[k]
  BY JobOf DEF Inv
<1>2. Holds(t) /\ t \in Workers /\ max[t] = Affects(job[t])
  BY DEF Holds, Inv, PlaceInv, PlaceOf
<1>3. Counted(k)
  BY <1>1, <1>2, HoldCounts
<1>4. PICK T \in SUBSET Workers : \E D \in SUBSET T : Counts(k, T, D)
  BY <1>3 DEF Counted
<1>5. PICK D \in SUBSET T : Counts(k, T, D)
  BY <1>4
<1>6. /\ Cardinality(T) = Affects(job[t]) /\ Cardinality(D) = Affects(job[t]) - 1
      /\ Busy(k) \subseteq T \ D
  BY <1>1, <1>2, <1>5 DEF Counts
<1>7. t \in Busy(k)
  BY <1>1, <1>2 DEF Busy
<1>8. T = D \cup {t}
  <2>1. IsFiniteSet(T) /\ IsFiniteSet(D) /\ Cardinality(D) \in Nat
    <3>1. IsFiniteSet(Workers)
      BY FS_Interval, Constants DEF Workers
    <3>2. D \in SUBSET Workers
      OBVIOUS
    <3>3. IsFiniteSet(T) /\ IsFiniteSet(D)
      BY <3>1, <3>2, FS_Subset
    <3> QED BY <3>3, FS_CardinalityType
  <2>2. Cardinality(D \cup {t}) = Cardinality(D) + 1 /\ IsFiniteSet(D \cup {t})
    BY <1>6, <1>7, <2>1, FS_AddElement
  <2>3. Cardinality(D \cup {t}) = Cardinality(T) /\ D \cup {t} \in SUBSET T
    <3>1. Affects(job[t]) \in Nat
      BY Constants DEF Affects
    <3> QED BY <1>6, <1>7, <2>1, <2>2, <3>1
  <2> QED BY <2>1, <2>3, FS_Subset
<1>9. Busy(k) \subseteq {t}
  BY <1>6, <1>8
<1>10. ASSUME NEW w \in Workers, NEW n \in DOMAIN list[w] PROVE list[w][n].ticket # k
  <2> SUFFICES ASSUME list[w][n].ticket = k PROVE FALSE
    OBVIOUS
  <2>1. w \in Busy(k)
    BY DEF Busy, Queued
  <2>2. w = t
    BY <1>9, <2>1
  <2> QED BY <1>1, <1>2, <2>2 DEF Inv, ApartInv, HoldApart
<1>11. ASSUME NEW u \in Threads, u # t, Holds(u) PROVE job[u].ticket # k
  BY <1>9, <1>11 DEF Busy, Inv, PlaceInv, PlaceOf
<1>12. ASSUME NEW u \in Threads, pc[u] \in {"scan", "fill", "push"} PROVE job[u].ticket # k
  <2>1. CASE pc[u] \in {"scan", "fill"}
    BY <1>1, <1>2, <2>1, Alone DEF Holds
  <2>2. CASE pc[u] = "push"
    <3> SUFFICES ASSUME job[u].ticket = k PROVE FALSE
      OBVIOUS
    <3>1. pos[u] \in Workers /\ Sends(u, pos[u])
      BY <2>2, Constants DEF Inv, PlaceInv, PlaceOf, Sends
    <3>2. pos[u] \in Busy(k)
      BY <2>2, <3>1 DEF Busy
    <3>3. Sends(u, t)
      BY <1>9, <3>1, <3>2
    <3> QED BY <1>1, <1>2, <3>3 DEF Inv, ApartInv, SendApart
  <2> QED BY <1>12, <2>1, <2>2
<1> QED BY <1>1, <1>10, <1>11, <1>12

\* A thread that has not moved is where it was.
LEMMA PlaceFrame ==
    ASSUME PlaceInv, NEW u \in Threads, pc'[u] = pc[u], job'[u] = job[u], pos'[u] = pos[u],
           max'[u] = max[u], engine' = engine
    PROVE  PlaceOf(u)'
BY DEF PlaceInv, PlaceOf, Holds, Ends, Swift, Runs, Affects, Turns

\* The places of the threads; in particular no assertion fails.
LEMMA PlaceStep ==
    ASSUME Inv, Typed', NEW t \in Threads, Step(t) \/ Hits(t)
    PROVE  PlaceInv'
<1>0. Typed /\ PlaceOf(t) /\ Swift' = Swift /\ Turns' = Turns /\ Turns \in Nat /\ Turns > 0
  BY OneThread, Constants DEF Inv, PlaceInv, Swift, Turns
<1>1. DOMAIN pc = Threads /\ DOMAIN job = Threads /\ DOMAIN pos = Threads /\ DOMAIN max = Threads
  BY <1>0 DEF Typed
<1>2. ASSUME NEW u \in Threads, u # t PROVE PlaceOf(u)'
  BY <1>0, <1>2, OneThread, PlaceFrame DEF Inv
<1>3. PlaceOf(t)'
  <2> USE DEF PlaceOf, Holds, Ends
  <2>1. CASE Hits(t)
    <3>1. PICK task \in Task :
             /\ job' = [job EXCEPT ![t] = task] /\ pos' = [pos EXCEPT ![t] = 1]
             /\ pc' = [pc EXCEPT ![t] = "scan"]
             /\ task.origin = "HTTP" => (Swift => t \in Workers)
             /\ task.origin # "HTTP" => task.id = 0
      BY <1>0, <2>1, HitTask, ZenonT(30)
    <3>2. pc'[t] = "scan" /\ job'[t] = task /\ pos'[t] = 1
      BY <1>1, <3>1
    <3> QED BY <1>0, <3>1, <3>2, Constants
  <2>2. CASE RgstRequest(t)
    BY <1>0, <1>1, <2>2, RequestDoes
  <2>3. CASE RgstManage(t) /\ view[pos[t]].cntl = "unuse"
    <3>1. job'[t].origin # "HTTP" /\ pc'[t] = "fill"
      BY <2>3, FoundDoes
    <3> QED BY <3>1
  <2>4. CASE RgstManage(t) /\ view[pos[t]].cntl # "unuse"
    BY <1>0, <2>4, NotFoundDoes DEF RgstManage
  <2>5. CASE Fill(t)
    <3>1. pc[t] = "fill" /\ job'[t] = job[t]
      BY <2>5 DEF Fill
    <3>2. CASE job[t].origin = "HTTP" /\ job[t].type = "ALONE" /\ Swift
      <4>1. pc'[t] = "begin" /\ pos'[t] = 1
        BY <1>1, <2>5, <3>2 DEF Fill, Go
      <4>2. job[t].func
        BY <3>1, <3>2 DEF Inv, TaskInv
      <4>3. Runs(job[t])' = 1
        BY <3>1, <3>2 DEF Runs
      <4> QED BY <1>0, <3>1, <3>2, <4>1, <4>2, <4>3
    <3>3. CASE ~ (job[t].origin = "HTTP" /\ job[t].type = "ALONE" /\ Swift)
      <4>1. pc'[t] = "push" /\ pos'[t] \in Workers
        BY <1>1, <2>5, <3>3, Constants DEF Fill, Go
      <4> QED BY <4>1
    <3> QED BY <3>2, <3>3
  <2>6. CASE Push(t)
    <3>1. pc[t] = "push" /\ pos[t] \in Workers
      BY <1>0, <2>6 DEF Push
    <3>2. \/ pc'[t] \in {"wait", "idle"}
          \/ pc'[t] = "push" /\ pos'[t] = pos[t] + 1 /\ pos[t] # W
      BY <1>1, <2>6 DEF Push, Pushed, Go
    <3>3. pos[t] # W => pos[t] + 1 \in Workers
      BY <3>1, Constants DEF Workers
    <3> QED BY <3>2, <3>3
  <2>7. CASE Return(t)
    BY <1>1, <2>7 DEF Return, Go
  <2>8. CASE Take(t)
    <3>1. CASE Head(list[t]).func
      <4>1. /\ t \in Workers /\ pc'[t] = "begin" /\ job'[t] = Head(list[t])
            /\ pos'[t] = IF Head(list[t]).type = "WHOLE" THEN Turns ELSE 1
        BY <1>1, <2>8, <3>1 DEF Take, Go
      <4>2. pos'[t] \in 1 .. Runs(job[t])'
        BY <1>0, <4>1 DEF Runs
      <4> QED BY <3>1, <4>1, <4>2
    <3>2. CASE ~ Head(list[t]).func
      BY <1>1, <2>8, <3>2 DEF Take
    <3> QED BY <3>1, <3>2
  <2>9. CASE Come(t)
    <3>1. pc[t] = "begin" /\ pc'[t] = "run" /\ job'[t] = job[t] /\ pos'[t] = pos[t]
      BY <1>1, <2>9 DEF Come, Go
    <3>2. Runs(job[t])' = Runs(job[t])
      BY <1>0, <3>1 DEF Runs
    <3> QED BY <1>0, <3>1, <3>2
  <2>10. CASE Run(t)
    <3>1. /\ pc[t] = "run" /\ job'[t] = job[t] /\ pos'[t] = pos[t] - 1
          /\ pc'[t] = IF pos[t] > 1 THEN "begin" ELSE "over"
      BY <1>1, <2>10 DEF Run, Go
    <3>2. Runs(job[t])' = Runs(job[t]) /\ Runs(job[t]) \in Nat
      BY <1>0, <3>1 DEF Runs
    <3>3. pos[t] \in 1 .. Runs(job[t])
      BY <1>0, <3>1
    <3>4. pos[t] > 1 => pos[t] - 1 \in 1 .. Runs(job[t])
      BY <3>2, <3>3
    <3>5. ~ (pos[t] > 1) => pos[t] - 1 = 0
      BY <3>2, <3>3
    <3> QED BY <1>0, <3>1, <3>2, <3>4, <3>5
  <2>11. CASE OverMax(t)
    <3>1. pc[t] = "over" /\ view[job[t].id].cntl = "inuse" /\ job[t] = hits[job[t].ticket]
      BY <2>11, ActiveJob, JobOf DEF OverMax, Inv
    <3>2. view[job[t].id].worker_affect = Affects(job[t])
      BY <3>1, HoldCounts DEF Counted
    <3>3. /\ pc'[t] = "add" /\ max'[t] = Affects(job[t]) /\ job'[t] = job[t]
          /\ pos'[t] = pos[t]
      BY <1>1, <2>11, <3>1, <3>2 DEF OverMax, Go
    <3>4. Affects(job[t])' = Affects(job[t])
      BY <3>3 DEF Affects
    <3> QED BY <1>0, <3>1, <3>3, <3>4
  <2>12. CASE OverAdd(t)
    <3>1. /\ pc[t] = "add"
          /\ \/ pc'[t] = "idle"
             \/ pc'[t] = "reset" /\ job'[t] = job[t]
      BY <1>1, <2>12 DEF OverAdd, Go
    <3> QED BY <1>0, <3>1
  <2>13. CASE OverReset(t)
    <3>1. pc[t] = "reset" /\ pc'[t] = "release" /\ job'[t] = job[t]
      BY <1>1, <2>13 DEF OverReset, Go
    <3> QED BY <1>0, <3>1
  <2>14. CASE OverRelease(t)
    <3>1. pc[t] = "release" /\ view[job[t].id].cntl = "inuse"
      BY <2>14, ActiveJob DEF OverRelease
    <3>2. pc'[t] = "finish" /\ job'[t] = job[t]
      BY <1>1, <2>14, <3>1 DEF OverRelease, Go
    <3> QED BY <1>0, <3>1, <3>2
  <2>15. CASE Finish(t)
    BY <1>1, <2>15 DEF Finish, Go
  <2> QED BY <2>1, <2>2, <2>3, <2>4, <2>5, <2>6, <2>7, <2>8, <2>9, <2>10, <2>11, <2>12,
             <2>13, <2>14, <2>15 DEF Step
<1> QED BY <1>2, <1>3 DEF PlaceInv

\* A thread that only goes on, with the lists as they are, keeps tasks apart.
LEMMA ApartFrame ==
    ASSUME ApartInv, NEW t \in Threads, list' = list,
           \A u \in Threads : u # t => pc'[u] = pc[u] /\ job'[u] = job[u] /\ pos'[u] = pos[u],
           Calls(t)' \/ Holds(t)' \/ Ends(t)' => job'[t].ticket = job[t].ticket,
           Calls(t)' => Calls(t), Holds(t)' => Holds(t), Ends(t)' => Ends(t),
           pc'[t] \in {"scan", "fill", "push"} => pc[t] \in {"scan", "fill", "push"},
           \A w \in Workers : Sends(t, w)' => Sends(t, w)
    PROVE  ApartInv'
<1>1. ASSUME NEW u \in Threads
      PROVE  /\ Calls(u)' => Calls(u) /\ job'[u].ticket = job[u].ticket
             /\ Holds(u)' => Holds(u) /\ job'[u].ticket = job[u].ticket
             /\ Ends(u)' => Ends(u) /\ job'[u].ticket = job[u].ticket
             /\ pc'[u] \in {"scan", "fill", "push"} =>
                    pc[u] \in {"scan", "fill", "push"} /\ job'[u].ticket = job[u].ticket
             /\ \A w \in Workers : Sends(u, w)' =>
                    Sends(u, w) /\ job'[u].ticket = job[u].ticket
  <2>1. CASE u # t
    BY <2>1 DEF Calls, Holds, Ends, Sends
  <2>2. CASE u = t
    <3>1. pc'[t] \in {"scan", "fill", "push"} => Calls(t)'
      BY DEF Calls
    <3>2. \A w \in Workers : Sends(t, w)' => Calls(t)'
      BY DEF Calls, Sends
    <3> QED BY <2>2, <3>1, <3>2
  <2> QED BY <2>1, <2>2
<1>2. Workers \subseteq Threads
  BY Constants
<1>3. ListApart'
  BY DEF ApartInv, ListApart
<1>4. HoldApart'
  BY <1>1, <1>2 DEF ApartInv, HoldApart
<1>5. SendApart'
  BY <1>1, <1>2 DEF ApartInv, SendApart
<1>6. CallApart'
  BY <1>1 DEF ApartInv, CallApart
<1>7. EndApart'
  BY <1>1 DEF ApartInv, EndApart
<1> QED BY <1>3, <1>4, <1>5, <1>6, <1>7 DEF ApartInv

\* The new list of a worker that is pushed a task.
LEMMA PushDoes ==
    ASSUME Inv, NEW t \in Threads, Push(t)
    PROVE  /\ pc[t] = "push" /\ pos[t] \in Workers /\ job[t] \in Task
           /\ \/ pc'[t] = "push" /\ pos'[t] = pos[t] + 1 /\ job[t].type = "WHOLE"
                 /\ pos[t] # W /\ job'[t] = job[t] /\ deal'[t] = deal[t]
              \/ /\ pc'[t] = "wait" /\ job'[t] = job[t] /\ deal'[t] = deal[t]
                 /\ job[t].deal # {} /\ job[t].func /\ (job[t].type = "ALONE" \/ pos[t] = W)
              \/ /\ pc'[t] = "idle" /\ job'[t] = NoTask
                 /\ ~ (job[t].deal # {} /\ job[t].func) /\ (job[t].type = "ALONE" \/ pos[t] = W)
           /\ \A w \in Workers : w # pos[t] => list'[w] = list[w]
           /\ \/ list'[pos[t]] = Append(list[pos[t]], job[t])
              \/ Len(list[pos[t]]) >= Room /\ list' = list /\ GivesUp(t)
           /\ \A u \in Threads : u # t => deal'[u] = deal[u]
           /\ UNCHANGED <<view, max, conn, hits, data, tally>>
<1>1. pc[t] = "push" /\ pos[t] \in Workers /\ job[t] \in Task
  BY JobOf DEF Push, Inv, PlaceInv, PlaceOf
<1>2. job[t].type \in {"ALONE", "WHOLE"}
  BY <1>1 DEF Task
<1>3. /\ DOMAIN pc = Threads /\ DOMAIN job = Threads /\ DOMAIN pos = Threads
      /\ DOMAIN deal = Threads /\ list \in [Workers -> Seq(Task)] /\ pos[t] \in Nat
  BY <1>1, Constants DEF Inv, Typed
<1>4. UNCHANGED <<view, max, conn, hits, data, tally>>
  BY DEF Push
<1>5. /\ \A w \in Workers : w # pos[t] => list'[w] = list[w]
      /\ \/ list'[pos[t]] = Append(list[pos[t]], job[t])
         \/ Len(list[pos[t]]) >= Room /\ list' = list /\ GivesUp(t)
  <2>1. Len(list[pos[t]]) \in Nat /\ Room \in Nat
    BY <1>1, <1>3, Constants, ElementOf
  <2> QED BY <1>1, <1>3, <2>1 DEF Push
<1> DEFINE stop == job[t].type = "ALONE" \/ pos[t] = W
           wait == job[t].deal # {} /\ job[t].func
<1>6. /\ pos' = [pos EXCEPT ![t] = IF stop THEN 0 ELSE pos[t] + 1]
      /\ pc' = [pc EXCEPT ![t] = CASE ~stop -> "push" [] stop /\ wait -> "wait" [] OTHER -> "idle"]
      /\ job' = IF stop /\ ~wait THEN [job EXCEPT ![t] = NoTask] ELSE job
      /\ deal' = IF stop /\ ~wait THEN [deal EXCEPT ![t] = "none"] ELSE deal
  BY DEF Push, Pushed, Go
<1>7. \A u \in Threads : u # t => deal'[u] = deal[u]
  BY <1>3, <1>6
<1>8. CASE ~ stop
  BY <1>1, <1>2, <1>3, <1>4, <1>5, <1>6, <1>7, <1>8
<1>9. CASE stop /\ wait
  BY <1>1, <1>3, <1>4, <1>5, <1>6, <1>7, <1>9
<1>10. CASE stop /\ ~ wait
  BY <1>1, <1>3, <1>4, <1>5, <1>6, <1>7, <1>10
<1> QED BY <1>8, <1>9, <1>10

\* The task a worker takes is the first of its list.
LEMMA TakeDoes ==
    ASSUME Inv, NEW t \in Threads, Take(t)
    PROVE  /\ t \in Workers /\ pc[t] = "idle" /\ 1 \in DOMAIN list[t]
           /\ \A w \in Workers : w # t => list'[w] = list[w]
           /\ DOMAIN list'[t] = 1 .. Len(list[t]) - 1 /\ DOMAIN list[t] = 1 .. Len(list[t])
           /\ Len(list[t]) \in Nat
           /\ \A n \in DOMAIN list'[t] : n + 1 \in DOMAIN list[t] /\ n + 1 # 1
                                         /\ list'[t][n] = list[t][n + 1]
           /\ \/ /\ list[t][1].func /\ pc'[t] = "begin" /\ job'[t] = list[t][1]
                 /\ pos'[t] = IF list[t][1].type = "WHOLE" THEN Turns ELSE 1
              \/ ~ list[t][1].func /\ pc'[t] = "idle" /\ job'[t] = job[t] /\ pos'[t] = pos[t]
           /\ UNCHANGED <<view, max, deal, conn, hits, data, tally>>
<1>1. t \in Workers /\ pc[t] = "idle" /\ list[t] # <<>> /\ list' = [list EXCEPT ![t] = Tail(@)]
  BY DEF Take
<1>2. /\ list[t] \in Seq(Task) /\ DOMAIN pc = Threads /\ DOMAIN job = Threads
      /\ DOMAIN pos = Threads /\ DOMAIN list = Workers
  BY <1>1 DEF Inv, Typed
<1>3. /\ Tail(list[t]) \in Seq(Task) /\ Len(Tail(list[t])) = Len(list[t]) - 1
      /\ \A i \in 1 .. Len(Tail(list[t])) : Tail(list[t])[i] = list[t][i + 1]
                                            /\ i + 1 \in 1 .. Len(list[t])
      /\ 1 \in 1 .. Len(list[t]) /\ Head(list[t]) = list[t][1] /\ Len(list[t]) \in Nat
  BY <1>1, <1>2, TailOf
<1>4. DOMAIN list[t] = 1 .. Len(list[t]) /\ DOMAIN Tail(list[t]) = 1 .. Len(list[t]) - 1
  BY <1>2, <1>3, ElementOf
<1>5. list'[t] = Tail(list[t])
  BY <1>1, <1>2
<1>6. \A n \in DOMAIN list'[t] : n + 1 \in DOMAIN list[t] /\ n + 1 # 1
                                 /\ list'[t][n] = list[t][n + 1]
  BY <1>3, <1>4, <1>5
<1>7. \/ /\ list[t][1].func /\ pc'[t] = "begin" /\ job'[t] = list[t][1]
         /\ pos'[t] = IF list[t][1].type = "WHOLE" THEN Turns ELSE 1
      \/ ~ list[t][1].func /\ pc'[t] = "idle" /\ job'[t] = job[t] /\ pos'[t] = pos[t]
  <2>1. CASE list[t][1].func
    BY <1>2, <1>3, <2>1 DEF Take, Go
  <2>2. CASE ~ list[t][1].func
    BY <1>1, <1>2, <1>3, <2>2 DEF Take
  <2> QED BY <2>1, <2>2
<1>8. UNCHANGED <<view, max, deal, conn, hits, data, tally>>
  BY DEF Take
<1> QED BY <1>1, <1>2, <1>3, <1>4, <1>5, <1>6, <1>7, <1>8

\* A porter runs a request of its own at once; all else is pushed.
LEMMA FillDoes ==
    ASSUME Inv, NEW t \in Threads, Fill(t)
    PROVE  /\ pc[t] = "fill" /\ job'[t] = job[t] /\ job[t].id \in Ids
           /\ \A i \in Ids : i # job[t].id => view'[i] = view[i]
           /\ LET e == view'[job[t].id]
              IN  /\ e.cntl = view[job[t].id].cntl /\ e.worker_finish = 0 /\ e.tasker_finish = 0
                  /\ e.worker_affect = Affects(job[t])
                  /\ e.tasker_affect = IF job[t].type = "WHOLE" THEN W * Turns ELSE 1
           /\ \/ /\ pc'[t] = "begin" /\ pos'[t] = 1 /\ job[t].type = "ALONE"
                 /\ job[t].origin = "HTTP" /\ t \in Workers /\ deal'[t] = "none"
              \/ /\ pc'[t] = "push" /\ pos'[t] \in Workers
                 /\ job[t].type = "WHOLE" => pos'[t] = 1
                 /\ deal'[t] = deal[t]
           /\ \A u \in Threads : u # t => deal'[u] = deal[u]
           /\ UNCHANGED <<list, job, max, conn, hits, data, tally>>
<1>1. pc[t] = "fill" /\ UNCHANGED <<list, job, max, conn, hits, data, tally>>
  BY DEF Fill
<1>2. job[t].id \in Ids
  BY <1>1, ActiveJob
<1>3. /\ DOMAIN view = Ids /\ DOMAIN pc = Threads /\ DOMAIN pos = Threads
      /\ DOMAIN deal = Threads
  BY DEF Inv, Typed
<1>4. /\ \A i \in Ids : i # job[t].id => view'[i] = view[i]
      /\ LET e == view'[job[t].id]
         IN  /\ e.cntl = view[job[t].id].cntl /\ e.worker_finish = 0 /\ e.tasker_finish = 0
             /\ e.worker_affect = Affects(job[t])
             /\ e.tasker_affect = IF job[t].type = "WHOLE" THEN W * Turns ELSE 1
  BY <1>2, <1>3 DEF Fill, Affects
<1>5. CASE job[t].origin = "HTTP" /\ job[t].type = "ALONE" /\ Swift
  <2>1. /\ pc' = [pc EXCEPT ![t] = "begin"] /\ deal' = [deal EXCEPT ![t] = "none"]
        /\ pos' = [pos EXCEPT ![t] = 1]
    BY <1>5 DEF Fill, Go
  <2>2. t \in Workers
    BY <1>1, <1>5 DEF Inv, PlaceInv, PlaceOf
  <2> QED BY <1>1, <1>2, <1>3, <1>4, <1>5, <2>1, <2>2
<1>6. CASE ~ (job[t].origin = "HTTP" /\ job[t].type = "ALONE" /\ Swift)
  <2>1. PICK w \in IF job[t].type = "WHOLE" THEN {1} ELSE Workers :
            /\ pc' = [pc EXCEPT ![t] = "push"] /\ pos' = [pos EXCEPT ![t] = w] /\ deal' = deal
    BY <1>6 DEF Fill, Go
  <2> QED BY <1>1, <1>2, <1>3, <1>4, <2>1, Constants
<1> QED BY <1>5, <1>6

\* Tasks stay apart.
LEMMA ApartStep ==
    ASSUME Inv, NEW t \in Threads, Step(t) \/ Hits(t)
    PROVE  ApartInv'
<1>0. Typed /\ TaskInv /\ PlaceInv /\ ApartInv
  BY DEF Inv
<1>1. \A u \in Threads : u # t => pc'[u] = pc[u] /\ job'[u] = job[u] /\ pos'[u] = pos[u]
  BY <1>0, OneThread
<1>2. DOMAIN pc = Threads /\ DOMAIN job = Threads /\ DOMAIN pos = Threads
  BY <1>0 DEF Typed
<1>3. Workers \subseteq Threads
  BY Constants
<1>4. ASSUME NEW u \in Threads, u # t
      PROVE  /\ Calls(u)' = Calls(u) /\ Holds(u)' = Holds(u) /\ Ends(u)' = Ends(u)
             /\ \A w \in Workers : Sends(u, w)' = Sends(u, w)
             /\ job'[u] = job[u] /\ pc'[u] = pc[u]
  BY <1>1, <1>4 DEF Calls, Holds, Ends, Sends
<1>5. CASE Hits(t)
  <2>1. PICK task \in Task :
             /\ pc[t] = "idle" /\ task.ticket = Len(hits) + 1
             /\ job' = [job EXCEPT ![t] = task] /\ pc' = [pc EXCEPT ![t] = "scan"]
             /\ list' = list
    BY <1>0, <1>5, HitTask
  <2>2. Len(hits) + 1 \notin DOMAIN hits
    BY <1>0, ElementOf DEF Typed
  <2>3. /\ \A u \in Threads : pc[u] # "idle" => job[u].ticket # task.ticket
        /\ \A w \in Workers : \A n \in DOMAIN list[w] : list[w][n].ticket # task.ticket
    BY <1>0, <2>1, <2>2 DEF TaskInv
  <2>4. ~ Holds(t)' /\ ~ Ends(t)' /\ job'[t] = task /\ pc'[t] = "scan"
    BY <1>2, <2>1 DEF Holds, Ends
  <2>5. ListApart'
    BY <1>0, <2>1 DEF ApartInv, ListApart
  <2>6. HoldApart'
    BY <1>0, <1>3, <1>4, <2>1, <2>4 DEF ApartInv, HoldApart
  <2>7. SendApart'
    <3> SUFFICES ASSUME NEW u \in Threads, NEW w \in Workers, Sends(u, w)'
                 PROVE  /\ \A n \in DOMAIN list[w] : list[w][n].ticket # job'[u].ticket
                        /\ Holds(w)' => job'[w].ticket # job'[u].ticket
      BY <2>1 DEF SendApart
    <3>1. Holds(w)' => w # t /\ Holds(w) /\ pc[w] # "idle" /\ job'[w] = job[w]
      BY <1>3, <1>4, <2>4 DEF Holds
    <3>2. CASE u = t
      BY <1>3, <2>3, <2>4, <3>1, <3>2
    <3>3. CASE u # t
      BY <1>0, <1>4, <3>1, <3>3 DEF ApartInv, SendApart
    <3> QED BY <3>2, <3>3
  <2>8. CallApart'
    <3>1. ASSUME NEW u \in Threads, u # t, Calls(u)' PROVE job'[u].ticket # task.ticket
      BY <1>4, <2>3, <3>1 DEF Calls
    <3> QED BY <1>0, <1>4, <2>4, <3>1 DEF ApartInv, CallApart
  <2>9. EndApart'
    <3> SUFFICES ASSUME NEW v \in Threads, Ends(v)'
                 PROVE  /\ \A w \in Workers : \A n \in DOMAIN list[w] :
                               list[w][n].ticket # job'[v].ticket
                        /\ \A u \in Threads : Holds(u)' \/ pc'[u] \in {"scan", "fill", "push"}
                               => job'[u].ticket # job'[v].ticket
                        /\ \A u \in Threads : Ends(u)' /\ job'[u].ticket = job'[v].ticket => u = v
      BY <2>1 DEF EndApart
    <3>1. v # t /\ Ends(v) /\ pc[v] # "idle" /\ job'[v] = job[v]
      BY <1>4, <2>4 DEF Ends
    <3> QED BY <1>0, <1>4, <2>3, <2>4, <3>1 DEF ApartInv, EndApart
  <2> QED BY <2>5, <2>6, <2>7, <2>8, <2>9 DEF ApartInv
<1>6. CASE Fill(t) /\ pc'[t] = "begin"
  <2>1. pc[t] = "fill" /\ job'[t] = job[t] /\ list' = list /\ t \in Workers
    BY <1>6, FillDoes
  <2>2. /\ \A u \in Threads : u # t /\ pc[u] # "idle" => job[u].ticket # job[t].ticket
        /\ \A w \in Workers : \A n \in DOMAIN list[w] : list[w][n].ticket # job[t].ticket
    BY <2>1, Alone
  <2>3. Holds(t)' /\ ~ Calls(t)' /\ ~ Ends(t)' /\ \A w \in Workers : ~ Sends(t, w)'
    BY <1>6 DEF Holds, Calls, Ends, Sends
  <2>4. ListApart'
    BY <1>0, <2>1 DEF ApartInv, ListApart
  <2>5. HoldApart'
    BY <1>0, <1>3, <1>4, <2>1, <2>2 DEF ApartInv, HoldApart
  <2>6. SendApart'
    <3> SUFFICES ASSUME NEW u \in Threads, NEW w \in Workers, Sends(u, w)'
                 PROVE  /\ \A n \in DOMAIN list[w] : list[w][n].ticket # job'[u].ticket
                        /\ Holds(w)' => job'[w].ticket # job'[u].ticket
      BY <2>1 DEF SendApart
    <3>1. u # t /\ Sends(u, w) /\ pc[u] # "idle" /\ job'[u] = job[u]
      BY <1>4, <2>3 DEF Sends
    <3>2. CASE w = t
      BY <1>0, <2>1, <2>2, <3>1, <3>2 DEF ApartInv, SendApart
    <3>3. CASE w # t
      BY <1>0, <1>3, <1>4, <3>1, <3>3 DEF ApartInv, SendApart
    <3> QED BY <3>2, <3>3
  <2>7. CallApart'
    BY <1>0, <1>4, <2>3 DEF ApartInv, CallApart
  <2>8. EndApart'
    <3> SUFFICES ASSUME NEW v \in Threads, Ends(v)'
                 PROVE  /\ \A w \in Workers : \A n \in DOMAIN list[w] :
                               list[w][n].ticket # job'[v].ticket
                        /\ \A u \in Threads : Holds(u)' \/ pc'[u] \in {"scan", "fill", "push"}
                               => job'[u].ticket # job'[v].ticket
                        /\ \A u \in Threads : Ends(u)' /\ job'[u].ticket = job'[v].ticket => u = v
      BY <2>1 DEF EndApart
    <3>1. v # t /\ Ends(v) /\ pc[v] # "idle" /\ job'[v] = job[v]
      BY <1>4, <2>3 DEF Ends
    <3> QED BY <1>0, <1>4, <2>1, <2>2, <2>3, <3>1 DEF ApartInv, EndApart
  <2> QED BY <2>4, <2>5, <2>6, <2>7, <2>8 DEF ApartInv
<1>7. CASE Push(t) /\ list' # list
  <2> DEFINE p == pos[t]
             k == job[t].ticket
  <2>1. /\ pc[t] = "push" /\ p \in Workers /\ job[t] \in Task
        /\ \A w \in Workers : w # p => list'[w] = list[w]
        /\ list'[p] = Append(list[p], job[t])
    BY <1>7, PushDoes
  <2>2. list[p] \in Seq(Task)
    BY <1>0, <2>1 DEF Typed
  <2>3. /\ DOMAIN list'[p] = 1 .. Len(list[p]) + 1 /\ DOMAIN list[p] = 1 .. Len(list[p])
        /\ Len(list[p]) \in Nat /\ list'[p][Len(list[p]) + 1] = job[t]
        /\ \A n \in 1 .. Len(list[p]) : list'[p][n] = list[p][n]
    BY <2>1, <2>2, AppendOf, ElementOf
  <2>4. ASSUME NEW w \in Workers, NEW n \in DOMAIN list'[w]
        PROVE  \/ n \in DOMAIN list[w] /\ list'[w][n] = list[w][n]
               \/ w = p /\ n = Len(list[p]) + 1 /\ list'[w][n] = job[t]
    BY <2>1, <2>3, SMTT(20)
  <2>5. ~ Holds(t) /\ ~ Holds(t)' /\ ~ Ends(t)' /\ Sends(t, p) /\ Calls(t)
    <3>1. p \in Nat
      BY <2>1, Constants
    <3>2. pc'[t] \in {"push", "wait", "idle"}
      BY <1>7, PushDoes
    <3> QED BY <2>1, <3>1, <3>2 DEF Holds, Ends, Sends, Calls
  <2>6. ASSUME NEW w \in Workers, Sends(t, w)'
        PROVE  Sends(t, w) /\ w # p /\ job'[t] = job[t]
    <3>1. pc'[t] = "push" /\ pos'[t] = p + 1 /\ job[t].type = "WHOLE" /\ job'[t] = job[t]
      BY <1>7, <2>6, PushDoes DEF Sends
    <3>2. p \in Nat /\ w \in Nat
      BY <2>1, Constants
    <3> QED BY <2>1, <2>6, <3>1, <3>2 DEF Sends
  <2>7. /\ Calls(t)' => job'[t] = job[t]
        /\ pc'[t] \in {"scan", "fill", "push"} => job'[t] = job[t]
    BY <1>7, PushDoes DEF Calls
  <2>8. /\ \A n \in DOMAIN list[p] : list[p][n].ticket # k
        /\ Holds(p) => job[p].ticket # k
    BY <1>0, <2>1, <2>5 DEF ApartInv, SendApart
  <2> HIDE DEF p, k
  <2>9. ASSUME NEW w \in Workers PROVE Holds(w)' = Holds(w) /\ (Holds(w) => job'[w] = job[w])
    <3>1. CASE w = t
      BY <2>5, <3>1 DEF Holds
    <3>2. CASE w # t
      BY <1>3, <1>4, <3>2
    <3> QED BY <3>1, <3>2
  <2>10. ListApart'
    <3> SUFFICES ASSUME NEW w \in Workers, NEW m \in DOMAIN list'[w], NEW n \in DOMAIN list'[w],
                        list'[w][m].ticket = list'[w][n].ticket
                 PROVE  m = n
      BY DEF ListApart
    <3> QED BY <1>0, <2>4, <2>8 DEF ApartInv, ListApart, k
  <2>11. HoldApart'
    <3> SUFFICES ASSUME NEW w \in Workers, NEW n \in DOMAIN list'[w], Holds(w)'
                 PROVE  job'[w].ticket # list'[w][n].ticket
      BY DEF HoldApart
    <3> QED BY <1>0, <2>4, <2>8, <2>9 DEF ApartInv, HoldApart, k
  <2>12. SendApart'
    <3> SUFFICES ASSUME NEW u \in Threads, NEW w \in Workers, Sends(u, w)'
                 PROVE  /\ \A n \in DOMAIN list'[w] : list'[w][n].ticket # job'[u].ticket
                        /\ Holds(w)' => job'[w].ticket # job'[u].ticket
      BY DEF SendApart
    <3>1. CASE u = t
      BY <1>0, <2>4, <2>6, <2>9, <3>1 DEF ApartInv, SendApart
    <3>2. CASE u # t
      <4>1. Sends(u, w) /\ job'[u] = job[u] /\ Calls(u)
        BY <1>4, <3>2 DEF Sends, Calls
      <4>2. job[u].ticket # k
        BY <1>0, <2>5, <3>2, <4>1 DEF ApartInv, CallApart, k
      <4> QED BY <1>0, <2>4, <2>9, <4>1, <4>2 DEF ApartInv, SendApart, k
    <3> QED BY <3>1, <3>2
  <2>13. CallApart'
    <3>1. Calls(t)' => Calls(t) /\ job'[t] = job[t]
      BY <2>5, <2>7
    <3> QED BY <1>0, <1>4, <3>1 DEF ApartInv, CallApart
  <2>14. EndApart'
    <3> SUFFICES ASSUME NEW v \in Threads, Ends(v)'
                 PROVE  /\ \A w \in Workers : \A n \in DOMAIN list'[w] :
                               list'[w][n].ticket # job'[v].ticket
                        /\ \A u \in Threads : Holds(u)' \/ pc'[u] \in {"scan", "fill", "push"}
                               => job'[u].ticket # job'[v].ticket
                        /\ \A u \in Threads : Ends(u)' /\ job'[u].ticket = job'[v].ticket => u = v
      BY DEF EndApart
    <3>1. v # t /\ Ends(v) /\ job'[v] = job[v]
      BY <1>4, <2>5
    <3>2. job[v].ticket # k
      BY <1>0, <2>1, <3>1 DEF ApartInv, EndApart, k
    <3>3. ASSUME NEW u \in Threads, Holds(u)' \/ pc'[u] \in {"scan", "fill", "push"}
          PROVE  job'[u].ticket # job[v].ticket
      <4>1. CASE u = t
        BY <2>5, <2>7, <3>2, <3>3, <4>1 DEF k
      <4>2. CASE u # t
        BY <1>0, <1>4, <3>1, <3>3, <4>2 DEF ApartInv, EndApart
      <4> QED BY <4>1, <4>2
    <3>4. ASSUME NEW u \in Threads, Ends(u)', job'[u].ticket = job[v].ticket PROVE u = v
      BY <1>0, <1>4, <2>5, <3>1, <3>4 DEF ApartInv, EndApart
    <3>5. ASSUME NEW w \in Workers, NEW n \in DOMAIN list'[w]
          PROVE  list'[w][n].ticket # job[v].ticket
      BY <1>0, <2>4, <3>1, <3>2 DEF ApartInv, EndApart, k
    <3> QED BY <3>1, <3>3, <3>4, <3>5
  <2> QED BY <2>10, <2>11, <2>12, <2>13, <2>14 DEF ApartInv
<1>8. CASE Take(t)
  <2>1. /\ t \in Workers /\ pc[t] = "idle" /\ 1 \in DOMAIN list[t]
        /\ \A w \in Workers : w # t => list'[w] = list[w]
        /\ \A n \in DOMAIN list'[t] : n + 1 \in DOMAIN list[t] /\ n + 1 # 1
                                      /\ list'[t][n] = list[t][n + 1]
        /\ DOMAIN list'[t] = 1 .. Len(list[t]) - 1 /\ Len(list[t]) \in Nat
        /\ pc'[t] \in {"begin", "idle"}
        /\ pc'[t] = "begin" => job'[t] = list[t][1]
    BY <1>8, TakeDoes
  <2>2. ASSUME NEW w \in Workers, NEW n \in DOMAIN list'[w]
        PROVE  \E m \in DOMAIN list[w] : /\ list'[w][n] = list[w][m]
                                         /\ m = IF w = t THEN n + 1 ELSE n
                                         /\ w = t => m # 1
    BY <2>1
  <2>3. /\ ~ Calls(t)' /\ ~ Ends(t)' /\ \A w \in Workers : ~ Sends(t, w)'
        /\ pc'[t] \notin {"scan", "fill", "push"}
        /\ Holds(t)' => job'[t] = list[t][1]
    BY <2>1 DEF Calls, Ends, Sends, Holds
  <2>4. ListApart'
    <3> SUFFICES ASSUME NEW w \in Workers, NEW m \in DOMAIN list'[w], NEW n \in DOMAIN list'[w],
                        list'[w][m].ticket = list'[w][n].ticket
                 PROVE  m = n
      BY DEF ListApart
    <3>1. CASE w = t
      <4>1. m + 1 = n + 1
        <5>1. /\ m + 1 \in DOMAIN list[t] /\ n + 1 \in DOMAIN list[t]
              /\ list[t][m + 1].ticket = list[t][n + 1].ticket
          BY <2>1, <3>1
        <5> QED BY <1>0, <2>1, <5>1 DEF ApartInv, ListApart
      <4>2. m \in Nat /\ n \in Nat
        BY <2>1, <3>1
      <4> QED BY <4>1, <4>2
    <3>2. CASE w # t
      BY <1>0, <2>1, <3>2 DEF ApartInv, ListApart
    <3> QED BY <3>1, <3>2
  <2>5. HoldApart'
    <3> SUFFICES ASSUME NEW w \in Workers, NEW n \in DOMAIN list'[w], Holds(w)'
                 PROVE  job'[w].ticket # list'[w][n].ticket
      BY DEF HoldApart
    <3>1. CASE w = t
      BY <1>0, <2>1, <2>3, <3>1 DEF ApartInv, ListApart
    <3>2. CASE w # t
      BY <1>0, <1>3, <1>4, <2>1, <3>2 DEF ApartInv, HoldApart
    <3> QED BY <3>1, <3>2
  <2>6. SendApart'
    <3> SUFFICES ASSUME NEW u \in Threads, NEW w \in Workers, Sends(u, w)'
                 PROVE  /\ \A n \in DOMAIN list'[w] : list'[w][n].ticket # job'[u].ticket
                        /\ Holds(w)' => job'[w].ticket # job'[u].ticket
      BY DEF SendApart
    <3>1. u # t /\ Sends(u, w) /\ job'[u] = job[u]
      BY <1>4, <2>3
    <3>2. \A n \in DOMAIN list[w] : list[w][n].ticket # job[u].ticket
      BY <1>0, <3>1 DEF ApartInv, SendApart
    <3>3. Holds(w)' => job'[w].ticket # job'[u].ticket
      <4>1. CASE w = t
        BY <2>1, <2>3, <3>1, <3>2, <4>1
      <4>2. CASE w # t
        BY <1>0, <1>3, <1>4, <3>1, <4>2 DEF ApartInv, SendApart
      <4> QED BY <4>1, <4>2
    <3> QED BY <2>2, <3>1, <3>2, <3>3
  <2>7. CallApart'
    BY <1>0, <1>4, <2>3 DEF ApartInv, CallApart
  <2>8. EndApart'
    <3> SUFFICES ASSUME NEW v \in Threads, Ends(v)'
                 PROVE  /\ \A w \in Workers : \A n \in DOMAIN list'[w] :
                               list'[w][n].ticket # job'[v].ticket
                        /\ \A u \in Threads : Holds(u)' \/ pc'[u] \in {"scan", "fill", "push"}
                               => job'[u].ticket # job'[v].ticket
                        /\ \A u \in Threads : Ends(u)' /\ job'[u].ticket = job'[v].ticket => u = v
      BY DEF EndApart
    <3>1. v # t /\ Ends(v) /\ job'[v] = job[v]
      BY <1>4, <2>3
    <3>2. \A w \in Workers : \A n \in DOMAIN list[w] : list[w][n].ticket # job[v].ticket
      BY <1>0, <3>1 DEF ApartInv, EndApart
    <3>3. ASSUME NEW u \in Threads, Holds(u)' \/ pc'[u] \in {"scan", "fill", "push"}
          PROVE  job'[u].ticket # job[v].ticket
      <4>1. CASE u = t
        BY <2>1, <2>3, <3>2, <3>3, <4>1
      <4>2. CASE u # t
        BY <1>0, <1>4, <3>1, <3>3, <4>2 DEF ApartInv, EndApart
      <4> QED BY <4>1, <4>2
    <3>4. ASSUME NEW u \in Threads, Ends(u)', job'[u].ticket = job[v].ticket PROVE u = v
      BY <1>0, <1>4, <2>3, <3>1, <3>4 DEF ApartInv, EndApart
    <3> QED BY <2>2, <3>1, <3>2, <3>3, <3>4
  <2> QED BY <2>4, <2>5, <2>6, <2>7, <2>8 DEF ApartInv
<1>9. CASE OverAdd(t) /\ pc'[t] = "reset"
  <2>1. /\ pc[t] = "add" /\ list' = list /\ job'[t] = job[t]
        /\ view[job[t].id].worker_finish = max[t] - 1
    BY <1>2, <1>9 DEF OverAdd, Go
  <2>2. Holds(t) /\ ~ Holds(t)' /\ Ends(t)' /\ ~ Calls(t)' /\ \A w \in Workers : ~ Sends(t, w)'
    BY <1>9, <2>1 DEF Holds, Ends, Calls, Sends
  <2>3. /\ \A w \in Workers : \A n \in DOMAIN list[w] : list[w][n].ticket # job[t].ticket
        /\ \A u \in Threads : u # t /\ Holds(u) => job[u].ticket # job[t].ticket
        /\ \A u \in Threads : pc[u] \in {"scan", "fill", "push"} => job[u].ticket # job[t].ticket
    BY <2>1, LastOver
  <2>4. \A u \in Threads : Ends(u) => job[u].ticket # job[t].ticket
    BY <1>0, <2>2 DEF ApartInv, EndApart
  <2>5. ListApart'
    BY <1>0, <2>1 DEF ApartInv, ListApart
  <2>6. HoldApart'
    BY <1>0, <1>3, <1>4, <2>1, <2>2 DEF ApartInv, HoldApart
  <2>7. SendApart'
    BY <1>0, <1>3, <1>4, <2>1, <2>2 DEF ApartInv, SendApart
  <2>8. CallApart'
    BY <1>0, <1>4, <2>2 DEF ApartInv, CallApart
  <2>9. EndApart'
    <3> SUFFICES ASSUME NEW v \in Threads, Ends(v)'
                 PROVE  /\ \A w \in Workers : \A n \in DOMAIN list[w] :
                               list[w][n].ticket # job'[v].ticket
                        /\ \A u \in Threads : Holds(u)' \/ pc'[u] \in {"scan", "fill", "push"}
                               => job'[u].ticket # job'[v].ticket
                        /\ \A u \in Threads : Ends(u)' /\ job'[u].ticket = job'[v].ticket => u = v
      BY <2>1 DEF EndApart
    <3>1. CASE v = t
      BY <1>4, <1>9, <2>1, <2>2, <2>3, <2>4, <3>1
    <3>2. CASE v # t
      <4>1. Ends(v) /\ job'[v] = job[v] /\ job[v].ticket # job[t].ticket
        BY <1>4, <2>4, <3>2
      <4> QED BY <1>0, <1>4, <1>9, <2>1, <2>2, <4>1 DEF ApartInv, EndApart
    <3> QED BY <3>1, <3>2
  <2> QED BY <2>5, <2>6, <2>7, <2>8, <2>9 DEF ApartInv
<1>10. CASE /\ Step(t) /\ ~ Take(t) /\ ~ (Push(t) /\ list' # list)
            /\ ~ (Fill(t) /\ pc'[t] = "begin") /\ ~ (OverAdd(t) /\ pc'[t] = "reset")
  <2>1. CASE RgstRequest(t)
    <3>1. pc[t] = "scan" /\ pc'[t] = "fill" /\ job' = job /\ list' = list
      BY <2>1, RequestDoes
    <3> QED BY <1>0, <1>1, <3>1, ApartFrame DEF Calls, Holds, Ends, Sends
  <2>2. CASE RgstManage(t) /\ view[pos[t]].cntl = "unuse"
    <3>1. pc[t] = "scan" /\ pc'[t] = "fill" /\ list' = list /\ job'[t].ticket = job[t].ticket
      BY <2>2, FoundDoes
    <3> QED BY <1>0, <1>1, <3>1, ApartFrame DEF Calls, Holds, Ends, Sends
  <2>3. CASE RgstManage(t) /\ view[pos[t]].cntl # "unuse"
    <3>1. pc[t] = "scan" /\ pc' = pc /\ job' = job /\ list' = list
      BY <2>3, NotFoundDoes
    <3> QED BY <1>0, <1>1, <3>1, ApartFrame DEF Calls, Holds, Ends, Sends
  <2>4. CASE Fill(t)
    <3>1. pc[t] = "fill" /\ pc'[t] = "push" /\ job' = job /\ list' = list
      BY <1>10, <2>4, FillDoes
    <3> QED BY <1>0, <1>1, <3>1, ApartFrame DEF Calls, Holds, Ends, Sends
  <2>5. CASE Push(t)
    <3>1. /\ pc[t] = "push" /\ list' = list /\ pos[t] \in Workers
          /\ pc'[t] = "push" => /\ pos'[t] = pos[t] + 1 /\ job[t].type = "WHOLE"
          /\ pc'[t] \in {"push", "wait"} => job'[t] = job[t]
          /\ pc'[t] \in {"push", "wait", "idle"}
      BY <1>10, <2>5, PushDoes
    <3>2. \A w \in Workers : Sends(t, w)' => Sends(t, w)
      <4>1. pos[t] \in Nat /\ \A w \in Workers : w \in Nat
        BY <3>1, Constants
      <4> QED BY <3>1, <4>1 DEF Sends
    <3>3. /\ ~ Holds(t)' /\ ~ Ends(t)' /\ Calls(t) /\ (Calls(t)' => job'[t] = job[t])
          /\ pc[t] \in {"scan", "fill", "push"}
      BY <3>1 DEF Holds, Ends, Calls
    <3> QED BY ONLY <1>0, <1>1, <3>1, <3>2, <3>3, ApartFrame
  <2>6. CASE Return(t)
    <3>1. pc[t] = "wait" /\ pc'[t] = "idle" /\ list' = list
      BY <1>2, <2>6 DEF Return, Go
    <3> QED BY <1>0, <1>1, <3>1, ApartFrame DEF Calls, Holds, Ends, Sends
  <2>7. CASE Come(t) \/ Run(t) \/ OverMax(t)
    <3>1. /\ Holds(t) /\ list' = list /\ job' = job /\ ~ Calls(t)' /\ ~ Ends(t)'
          /\ pc'[t] \notin {"scan", "fill", "push"}
      BY <1>2, <2>7 DEF Come, Run, OverMax, Go, Holds, Calls, Ends
    <3>2. \A w \in Workers : ~ Sends(t, w)'
      BY <3>1 DEF Sends
    <3> QED BY ONLY <1>0, <1>1, <3>1, <3>2, ApartFrame
  <2>8. CASE OverAdd(t) \/ Finish(t)
    <3>1. /\ list' = list /\ pc'[t] = "idle"
      BY <1>2, <1>10, <2>8 DEF OverAdd, Finish, Go
    <3> QED BY <1>0, <1>1, <3>1, ApartFrame DEF Calls, Holds, Ends, Sends
  <2>9. CASE OverReset(t) \/ OverRelease(t)
    <3>1. /\ Ends(t) /\ list' = list /\ job' = job /\ ~ Calls(t)' /\ ~ Holds(t)'
          /\ pc'[t] \notin {"scan", "fill", "push"}
      BY <1>2, <2>9 DEF OverReset, OverRelease, Go, Holds, Calls, Ends
    <3>2. \A w \in Workers : ~ Sends(t, w)'
      BY <3>1 DEF Sends
    <3> QED BY ONLY <1>0, <1>1, <3>1, <3>2, ApartFrame
  <2> QED BY <1>10, <2>1, <2>2, <2>3, <2>4, <2>5, <2>6, <2>7, <2>8, <2>9 DEF Step
<1> QED BY <1>5, <1>6, <1>7, <1>8, <1>9, <1>10

\* The tallies of other tasks, and the number of overs.
LEMMA TallyStep ==
    ASSUME Inv, NEW t \in Threads, Step(t) \/ Hits(t)
    PROVE  /\ \A k \in Tickets : pc[t] = "idle" \/ k # job[t].ticket => tally'[k] = tally[k]
           /\ \A k \in Tickets : ~ OverRelease(t) => tally'[k].over = tally[k].over
           /\ pc[t] \notin {"begin", "run", "release"} => tally' = tally
<1>0. DOMAIN tally = Tickets
      /\ \A k \in Tickets : tally[k] \in [begun : Nat, ended : Nat, last : Nat, over : Nat]
  BY DEF Inv, Typed
<1>1. CASE tally' = tally
  BY <1>1
<1>2. CASE Come(t) \/ Run(t) \/ OverRelease(t)
  <2>1. pc[t] \in {"begin", "run", "release"} /\ job[t].ticket \in Tickets
    BY <1>2, JobOf DEF Come, Run, OverRelease, Inv
  <2>2. CASE Come(t)
    <3>1. PICK n : tally' = [tally EXCEPT ![job[t].ticket].begun = @ + 1,
                                          ![job[t].ticket].last = @ + n]
      BY <2>2 DEF Come
    <3>2. tally'[job[t].ticket].over = tally[job[t].ticket].over
      BY <1>0, <2>1, <3>1
    <3> QED BY <1>0, <2>1, <3>1, <3>2
  <2>3. CASE Run(t)
    <3>1. tally' = [tally EXCEPT ![job[t].ticket].ended = @ + 1]
      BY <2>3 DEF Run, Count
    <3>2. tally'[job[t].ticket].over = tally[job[t].ticket].over
      BY <1>0, <2>1, <3>1
    <3> QED BY <1>0, <2>1, <3>1, <3>2
  <2>4. CASE OverRelease(t)
    <3>1. \A k \in Tickets : k # job[t].ticket => tally'[k] = tally[k]
      BY <1>0, <2>4 DEF OverRelease, Count
    <3> QED BY <2>1, <2>4, <3>1
  <2> QED BY <1>2, <2>2, <2>3, <2>4
<1>3. CASE Hits(t)
  BY <1>1, <1>3, HitTask DEF Inv
<1> QED BY <1>1, <1>2, <1>3 DEF Step, RgstRequest, RgstManage, Fill, Push, Return, Take,
        OverMax, OverAdd, OverReset, Finish

\* The last worker gives the id back, once: the assertion of smart_task_over holds.
LEMMA ReleaseDoes ==
    ASSUME Inv, NEW t \in Threads, OverRelease(t)
    PROVE  /\ pc[t] = "release" /\ pc'[t] = "finish" /\ job' = job
           /\ job[t].ticket \in DOMAIN hits /\ job[t].ticket \in Tickets
           /\ job[t] = hits[job[t].ticket] /\ job[t].id \in Ids
           /\ \A k \in Tickets : k # job[t].ticket => tally'[k] = tally[k]
           /\ tally'[job[t].ticket] = [tally[job[t].ticket] EXCEPT !.over = 1]
           /\ \A i \in Ids : i # job[t].id => view'[i] = view[i]
           /\ view'[job[t].id].cntl = "unuse"
           /\ UNCHANGED <<list, pos, max, deal, conn, hits, data>>
<1>1. pc[t] = "release"
  BY DEF OverRelease
<1>2. /\ job[t].ticket \in DOMAIN hits /\ job[t].ticket \in Tickets
      /\ job[t] = hits[job[t].ticket] /\ job[t].id \in Ids /\ view[job[t].id].cntl = "inuse"
      /\ tally[job[t].ticket].over = 0
  BY <1>1, JobOf, ActiveJob DEF Inv, OverInv, Over
<1>3. /\ DOMAIN tally = Tickets /\ DOMAIN pc = Threads
      /\ view \in [Ids -> [cntl : {"unuse", "inuse"},
                              worker_finish : Nat, worker_affect : Nat,
                              tasker_finish : Nat, tasker_affect : Nat]]
      /\ tally[job[t].ticket] \in [begun : Nat, ended : Nat, last : Nat, over : Nat]
  BY <1>2 DEF Inv, Typed
<1>4. /\ view' = [view EXCEPT ![job[t].id].cntl = "unuse"]
      /\ tally' = [tally EXCEPT ![job[t].ticket].over = @ + 1]
      /\ pc' = [pc EXCEPT ![t] = "finish"]
  BY <1>2 DEF OverRelease, Count, Go
<1>5. tally'[job[t].ticket] = [tally[job[t].ticket] EXCEPT !.over = 1]
  BY <1>2, <1>3, <1>4
<1>6. view'[job[t].id].cntl = "unuse" /\ \A i \in Ids : i # job[t].id => view'[i] = view[i]
  BY <1>2, <1>3, <1>4
<1> QED BY <1>1, <1>2, <1>3, <1>4, <1>5, <1>6 DEF OverRelease

\* A task that is over is in nobody's hands but those of the thread that ends it.
LEMMA OverStep ==
    ASSUME Inv, TaskInv', Typed', NEW t \in Threads, Step(t) \/ Hits(t)
    PROVE  OverInv'
<1>0. Typed /\ TaskInv /\ OverInv /\ ApartInv
  BY DEF Inv
<1>1. \A u \in Threads : u # t => pc'[u] = pc[u] /\ job'[u] = job[u]
  BY <1>0, OneThread
<1>2. DOMAIN hits \subseteq DOMAIN hits'
  <2>1. CASE Hits(t)
    BY <1>0, <2>1, HitTask, HitsGrow
  <2>2. CASE RgstManage(t) /\ view[pos[t]].cntl = "unuse"
    BY <2>2, FoundDoes
  <2>3. CASE Step(t) /\ ~ (RgstManage(t) /\ view[pos[t]].cntl = "unuse")
    BY <2>3, JobStep
  <2> QED BY <2>1, <2>2, <2>3
<1>3. ASSUME NEW k \in Tickets \ DOMAIN hits'
      PROVE  tally'[k] = [begun |-> 0, ended |-> 0, last |-> 0, over |-> 0]
  <2>1. pc[t] = "idle" \/ k # job[t].ticket
    BY <1>0, <1>2, <1>3, JobOf
  <2>2. tally'[k] = tally[k]
    BY <2>1, TallyStep
  <2> QED BY <1>0, <1>2, <2>2 DEF OverInv
<1>4. CASE OverRelease(t)
  <2> DEFINE k == job[t].ticket
  <2>1. /\ pc[t] = "release" /\ pc'[t] = "finish" /\ job' = job /\ k \in Tickets
        /\ \A i \in Tickets : i # k => tally'[i] = tally[i]
        /\ tally'[k] = [tally[k] EXCEPT !.over = 1] /\ list' = list
        /\ tally[k] \in [begun : Nat, ended : Nat, last : Nat, over : Nat]
    BY <1>0, <1>4, ReleaseDoes DEF Typed
  <2>2. tally'[k].over = 1
    BY <2>1
  <2>3. Ends(t)
    BY <2>1 DEF Ends
  <2> HIDE DEF k
  <2>4. \A i \in Tickets : tally'[i].over \in {0, 1}
    BY <1>0, <2>1, <2>2 DEF OverInv
  <2>5. ASSUME NEW w \in Workers, NEW n \in DOMAIN list'[w] PROVE ~ Over(list[w][n].ticket)'
    <3>1. list[w][n].ticket # k /\ list[w][n].ticket \in Tickets /\ ~ Over(list[w][n].ticket)
      BY <1>0, <2>1, <2>3, QueuedOf DEF ApartInv, EndApart, OverInv, k
    <3> QED BY <2>1, <3>1 DEF Over
  <2>6. ASSUME NEW u \in Threads
        PROVE  /\ pc'[u] \notin {"idle", "wait", "finish"} => ~ Over(job[u].ticket)'
               /\ pc'[u] = "finish" => Over(job[u].ticket)'
    <3>1. CASE u = t
      BY <2>1, <2>2, <3>1 DEF Over, k
    <3>2. CASE u # t
      <4>1. CASE pc[u] = "idle" \/ pc[u] = "wait"
        BY <1>1, <3>2, <4>1
      <4>2. CASE pc[u] # "idle" /\ pc[u] # "wait"
        <5>1. job[u].ticket # k
          BY <1>0, <2>3, <3>2, <4>2, Places DEF ApartInv, EndApart, k, Calls, Inv
        <5>2. job[u].ticket \in Tickets
          BY <1>0, <4>2, JobOf
        <5> QED BY <1>0, <1>1, <2>1, <3>2, <5>1, <5>2 DEF OverInv, Over
      <4> QED BY <4>1, <4>2
    <3> QED BY <3>1, <3>2
  <2> QED BY <1>3, <2>1, <2>4, <2>5, <2>6 DEF OverInv
<1>5. CASE ~ OverRelease(t)
  <2>1. \A k \in Tickets : tally'[k].over = tally[k].over
    BY <1>5, TallyStep
  <2>2. \A k \in Tickets : tally'[k].over \in {0, 1}
    BY <1>0, <2>1 DEF OverInv
  <2>3. ASSUME NEW w \in Workers, NEW n \in DOMAIN list'[w] PROVE ~ Over(list[w][n].ticket)'
    <3>1. list'[w][n].ticket \in Tickets
      BY QueuedOf, ListStep, JobOf, <1>0
    <3>2. ~ Over(list'[w][n].ticket)
      BY <1>0, ListStep DEF OverInv
    <3> QED BY <2>1, <3>1, <3>2 DEF Over
  <2>4. ASSUME NEW u \in Threads
        PROVE  /\ pc'[u] \notin {"idle", "wait", "finish"} => ~ Over(job'[u].ticket)
               /\ pc'[u] = "finish" => Over(job'[u].ticket)
    <3>1. CASE u # t
      BY <1>0, <1>1, <3>1 DEF OverInv
    <3>2. CASE u = t /\ Hits(t)
      <4>1. PICK task \in Task :
                /\ task.ticket = Len(hits) + 1 /\ task.ticket \in Tickets
                /\ job' = [job EXCEPT ![t] = task] /\ pc' = [pc EXCEPT ![t] = "scan"]
        BY <1>0, <3>2, HitTask
      <4>2. Len(hits) + 1 \notin DOMAIN hits
        BY <1>0, ElementOf DEF Typed
      <4>3. job'[t] = task /\ pc'[t] = "scan"
        BY <1>0, <4>1 DEF Typed
      <4> QED BY <1>0, <3>2, <4>1, <4>2, <4>3 DEF OverInv, Over
    <3>3. CASE u = t /\ RgstManage(t) /\ view[pos[t]].cntl = "unuse"
      <4>1. pc[t] = "scan" /\ pc'[t] = "fill" /\ job'[t].ticket = job[t].ticket
        BY <3>3, FoundDoes
      <4> QED BY <1>0, <3>3, <4>1 DEF OverInv
    <3>4. CASE u = t /\ Step(t) /\ ~ (RgstManage(t) /\ view[pos[t]].cntl = "unuse")
      <4>1. CASE pc'[t] = "idle"
        BY <3>4, <4>1
      <4>2. CASE Take(t) /\ t \in Workers /\ 1 \in DOMAIN list[t] /\ job'[t] = list[t][1]
                 /\ pc'[t] = "begin"
        BY <1>0, <3>4, <4>2 DEF OverInv
      <4>3. CASE pc[t] # "idle" /\ pc'[t] # "idle" /\ job'[t] = job[t]
        <5>1. /\ pc'[t] # "finish"
              /\ pc'[t] \notin {"idle", "wait"} => pc[t] \notin {"idle", "wait", "finish"}
          <6>1. DOMAIN pc = Threads
            BY <1>0 DEF Typed
          <6>2. CASE RgstRequest(t) \/ RgstManage(t) \/ Fill(t) \/ Return(t) \/ Take(t)
            BY <3>4, <4>3, <6>1, <6>2, NotFoundDoes DEF RgstRequest, Fill, Return, Take, Go
          <6>3. CASE Push(t)
            BY <6>3, PushDoes
          <6>4. CASE Come(t) \/ Run(t) \/ OverMax(t) \/ OverAdd(t) \/ OverReset(t) \/ Finish(t)
            BY <4>3, <6>1, <6>4 DEF Come, Run, OverMax, OverAdd, OverReset, Finish, Go
          <6> QED BY <1>5, <3>4, <6>2, <6>3, <6>4 DEF Step
        <5> QED BY <1>0, <3>4, <4>3, <5>1 DEF OverInv
      <4> QED BY <3>4, <4>1, <4>2, <4>3, JobStep
    <3> QED BY <3>1, <3>2, <3>3, <3>4
  <2>5. ASSUME NEW u \in Threads
        PROVE  /\ pc'[u] \notin {"idle", "wait", "finish"} => ~ Over(job[u].ticket)'
               /\ pc'[u] = "finish" => Over(job[u].ticket)'
    <3>1. pc'[u] # "idle" => job'[u].ticket \in Tickets
      <4>1. ASSUME NEW k \in DOMAIN hits' PROVE hits'[k] \in Task /\ hits'[k].ticket = k
        BY ElementOf DEF Typed, TaskInv
      <4> QED BY <4>1 DEF TaskInv, Task
    <3> QED BY <2>1, <2>4, <3>1 DEF Over
  <2> QED BY <1>3, <2>2, <2>3, <2>5 DEF OverInv
<1> QED BY <1>4, <1>5

\* Which ids are in use is left alone by all steps but those of registration
\* and release.
LEMMA IdFrame ==
    ASSUME IdInv, hits' = hits, \A k \in DOMAIN hits : Over(k)' = Over(k),
           \A k \in DOMAIN hits : Scanned(k)' = Scanned(k),
           \A i \in Ids : view'[i].cntl = view[i].cntl,
           \A k \in DOMAIN hits : hits[k].id \in Ids \cup {0}
    PROVE  IdInv' /\ \A k \in DOMAIN hits : Active(k)' = Active(k)
<1>1. \A k \in DOMAIN hits : Active(k)' = Active(k)
  BY DEF Active
<1> QED BY <1>1 DEF IdInv

\* An id in use has one task.
LEMMA IdStep ==
    ASSUME Inv, NEW t \in Threads, Step(t) \/ Hits(t)
    PROVE  IdInv'
<1>0. Typed /\ TaskInv /\ IdInv /\ OverInv
  BY DEF Inv
<1>1. \A u \in Threads : u # t => pc'[u] = pc[u] /\ job'[u] = job[u]
  BY <1>0, OneThread
<1>2. ASSUME NEW k \in DOMAIN hits PROVE k \in Tickets /\ hits[k].id \in Ids \cup {0}
  <2>1. k \in Tickets /\ hits[k] \in Task
    BY <1>0, HitOf
  <2> QED BY <2>1 DEF Task
<1>3. DOMAIN pc = Threads /\ DOMAIN job = Threads /\ DOMAIN view = Ids
  BY <1>0 DEF Typed
<1>4. CASE Hits(t)
  <2>1. PICK task \in Task :
             /\ pc[t] = "idle" /\ task.ticket = Len(hits) + 1 /\ hits' = Append(hits, task)
             /\ job' = [job EXCEPT ![t] = task] /\ pc' = [pc EXCEPT ![t] = "scan"]
             /\ UNCHANGED <<view, tally>>
    BY <1>0, <1>4, HitTask
  <2>11. PICK N : N = Len(hits) + 1
    OBVIOUS
  <2>2. /\ DOMAIN hits' = DOMAIN hits \cup {N} /\ N \notin DOMAIN hits
        /\ \A k \in DOMAIN hits : hits'[k] = hits[k]
    BY <1>0, <2>1, <2>11, HitsGrow
  <2>3. pc'[t] = "scan" /\ job'[t].ticket = N
    BY <1>3, <2>1, <2>11
  <2>4. ~ Active(N)'
    BY <2>3 DEF Active, Scanned
  <2>5. ASSUME NEW k \in DOMAIN hits PROVE Active(k)' = Active(k)
    <3>1. Scanned(k)' = Scanned(k)
      BY <1>1, <2>1, <2>2, <2>3 DEF Scanned
    <3> QED BY <2>1, <2>2, <3>1 DEF Active, Over
  <2> QED BY <1>0, <2>1, <2>2, <2>4, <2>5 DEF IdInv
<1>5. CASE RgstRequest(t)
  <2>10. PICK k, i : k = job[t].ticket /\ i = job[t].id
    OBVIOUS
  <2>1. /\ pc[t] = "scan" /\ pc'[t] = "fill" /\ i \in Ids /\ view[i].cntl = "unuse"
        /\ \A j \in Ids : j # i => view'[j] = view[j]
        /\ view'[i] = [view[i] EXCEPT !.cntl = "inuse"]
        /\ UNCHANGED <<list, job, hits, tally>>
    BY <1>5, <2>10, RequestDoes
  <2>2. view'[i].cntl = "inuse"
    <3>1. view[i] \in [cntl : {"unuse", "inuse"}, worker_finish : Nat, worker_affect : Nat,
                       tasker_finish : Nat, tasker_affect : Nat]
      BY <1>0, <2>1 DEF Typed
    <3> QED BY <2>1, <3>1
  <2>3. k \in DOMAIN hits /\ hits[k].id = i /\ ~ Over(k)
    BY <1>0, <2>1, <2>10, JobOf DEF OverInv
  <2>4. \A u \in Threads : u # t /\ pc[u] # "idle" => job[u].ticket # k
    BY <2>1, <2>10, Alone
  <2>5. Active(k)' /\ ~ Active(k)
    <3>1. ~ Scanned(k)'
      BY <1>1, <2>1, <2>4 DEF Scanned
    <3>2. Scanned(k)
      BY <2>1, <2>10 DEF Scanned
    <3> QED BY <2>1, <2>3, <3>1, <3>2 DEF Active, Over
  <2>6. ASSUME NEW n \in DOMAIN hits, n # k PROVE Active(n)' = Active(n)
    <3>1. Scanned(n)' = Scanned(n)
      BY <1>1, <2>1, <2>6, <2>10 DEF Scanned
    <3> QED BY <2>1, <3>1 DEF Active, Over
  <2>7. \A n \in DOMAIN hits : Active(n) => hits[n].id # i
    BY <1>0, <2>1 DEF IdInv
  <2>8. /\ DOMAIN hits' = DOMAIN hits /\ hits'[k].id = i
        /\ \A n \in DOMAIN hits : n # k => hits'[n].id = hits[n].id
    BY <2>1, <2>3
  <2>9. \A n \in DOMAIN hits : Active(n)' => n = k \/ Active(n)
    BY <2>6
  <2>11. ASSUME NEW n \in DOMAIN hits, Active(n)'
        PROVE  hits'[n].id \in Ids /\ view'[hits'[n].id].cntl = "inuse"
    <3>1. CASE n = k
      BY <2>1, <2>2, <2>8, <3>1
    <3>2. CASE n # k
      BY <1>0, <2>1, <2>7, <2>8, <2>9, <2>11, <3>2 DEF IdInv
    <3> QED BY <3>1, <3>2
  <2>12. ASSUME NEW j \in DOMAIN hits, NEW n \in DOMAIN hits, Active(j)', Active(n)',
                hits'[j].id = hits'[n].id
         PROVE  j = n
    BY <1>0, <2>7, <2>8, <2>9, <2>12 DEF IdInv
  <2>13. ASSUME NEW j \in Ids, view'[j].cntl = "inuse"
         PROVE  \E n \in DOMAIN hits : Active(n)' /\ hits'[n].id = j
    <3>1. CASE j = i
      BY <2>1, <2>3, <2>5, <2>8, <3>1
    <3>2. CASE j # i
      <4>1. PICK n \in DOMAIN hits : Active(n) /\ hits[n].id = j
        BY <1>0, <2>1, <2>13, <3>2 DEF IdInv
      <4> QED BY <2>5, <2>6, <2>8, <4>1
    <3> QED BY <3>1, <3>2
  <2> QED BY <2>8, <2>11, <2>12, <2>13 DEF IdInv
<1>6. CASE RgstManage(t) /\ view[pos[t]].cntl = "unuse"
  <2>10. PICK k, i : k = job[t].ticket /\ i = pos[t]
    OBVIOUS
  <2>1. /\ pc[t] = "scan" /\ pc'[t] = "fill" /\ i \in Ids /\ view[i].cntl = "unuse"
        /\ \A j \in Ids : j # i => view'[j] = view[j]
        /\ view'[i] = [view[i] EXCEPT !.cntl = "inuse"]
        /\ DOMAIN hits' = DOMAIN hits /\ \A n \in DOMAIN hits : n # k => hits'[n] = hits[n]
        /\ hits'[k] = [job[t] EXCEPT !.id = i] /\ job[t] \in Task
        /\ k \in DOMAIN hits /\ job'[t] = [job[t] EXCEPT !.id = i]
        /\ UNCHANGED <<list, tally>>
    BY <1>6, <2>10, FoundDoes
  <2>2. view'[i].cntl = "inuse"
    <3>1. view[i] \in [cntl : {"unuse", "inuse"}, worker_finish : Nat, worker_affect : Nat,
                       tasker_finish : Nat, tasker_affect : Nat]
      BY <1>0, <2>1 DEF Typed
    <3> QED BY <2>1, <3>1
  <2>3. ~ Over(k) /\ hits'[k].id = i /\ job'[t].ticket = k
    BY <1>0, <2>1, <2>10 DEF OverInv, Task
  <2>4. \A u \in Threads : u # t /\ pc[u] # "idle" => job[u].ticket # k
    BY <2>1, <2>10, Alone
  <2>5. Active(k)' /\ ~ Active(k)
    <3>1. ~ Scanned(k)'
      BY <1>1, <2>1, <2>4 DEF Scanned
    <3>2. Scanned(k)
      BY <2>1, <2>10 DEF Scanned
    <3> QED BY <2>1, <2>3, <3>1, <3>2 DEF Active, Over
  <2>6. ASSUME NEW n \in DOMAIN hits, n # k PROVE Active(n)' = Active(n)
    <3>1. Scanned(n)' = Scanned(n)
      BY <1>1, <2>1, <2>3, <2>6, <2>10 DEF Scanned
    <3> QED BY <2>1, <3>1 DEF Active, Over
  <2>7. \A n \in DOMAIN hits : Active(n) => hits[n].id # i
    BY <1>0, <2>1 DEF IdInv
  <2>8. /\ DOMAIN hits' = DOMAIN hits /\ hits'[k].id = i
        /\ \A n \in DOMAIN hits : n # k => hits'[n].id = hits[n].id
    BY <2>1, <2>3
  <2>9. \A n \in DOMAIN hits : Active(n)' => n = k \/ Active(n)
    BY <2>6
  <2>11. ASSUME NEW n \in DOMAIN hits, Active(n)'
        PROVE  hits'[n].id \in Ids /\ view'[hits'[n].id].cntl = "inuse"
    <3>1. CASE n = k
      BY <2>1, <2>2, <2>8, <3>1
    <3>2. CASE n # k
      BY <1>0, <2>1, <2>7, <2>8, <2>9, <2>11, <3>2 DEF IdInv
    <3> QED BY <3>1, <3>2
  <2>12. ASSUME NEW j \in DOMAIN hits, NEW n \in DOMAIN hits, Active(j)', Active(n)',
                hits'[j].id = hits'[n].id
         PROVE  j = n
    BY <1>0, <2>7, <2>8, <2>9, <2>12 DEF IdInv
  <2>13. ASSUME NEW j \in Ids, view'[j].cntl = "inuse"
         PROVE  \E n \in DOMAIN hits : Active(n)' /\ hits'[n].id = j
    <3>1. CASE j = i
      BY <2>1, <2>3, <2>5, <2>8, <3>1
    <3>2. CASE j # i
      <4>1. PICK n \in DOMAIN hits : Active(n) /\ hits[n].id = j
        BY <1>0, <2>1, <2>13, <3>2 DEF IdInv
      <4> QED BY <2>5, <2>6, <2>8, <4>1
    <3> QED BY <3>1, <3>2
  <2> QED BY <2>8, <2>11, <2>12, <2>13 DEF IdInv
<1>7. CASE OverRelease(t)
  <2>10. PICK k, i : k = job[t].ticket /\ i = job[t].id
    OBVIOUS
  <2>1. /\ pc[t] = "release" /\ pc'[t] = "finish" /\ job' = job /\ i \in Ids
        /\ k \in DOMAIN hits /\ k \in Tickets /\ hits[k].id = i
        /\ \A n \in Tickets : n # k => tally'[n] = tally[n]
        /\ tally'[k] = [tally[k] EXCEPT !.over = 1]
        /\ tally[k] \in [begun : Nat, ended : Nat, last : Nat, over : Nat]
        /\ \A j \in Ids : j # i => view'[j] = view[j]
        /\ view'[i].cntl = "unuse" /\ hits' = hits
    BY <1>0, <1>7, <2>10, ReleaseDoes DEF Typed
  <2>2. ~ Active(k)'
    BY <2>1 DEF Active, Over
  <2>3. Active(k)
    BY <2>1, <2>10, ActiveJob
  <2>4. ASSUME NEW n \in DOMAIN hits, n # k PROVE Active(n)' = Active(n)
    <3>1. Scanned(n)' = Scanned(n)
      BY <1>1, <2>1 DEF Scanned
    <3> QED BY <1>2, <2>1, <2>4, <3>1 DEF Active, Over
  <2>5. \A n \in DOMAIN hits : n # k /\ Active(n) => hits[n].id # i
    BY <1>0, <2>1, <2>3 DEF IdInv
  <2>6. ASSUME NEW n \in DOMAIN hits, Active(n)' PROVE Active(n) /\ n # k
    BY <2>2, <2>4, <2>6
  <2>7. ASSUME NEW n \in DOMAIN hits, Active(n)'
        PROVE  hits[n].id \in Ids /\ view'[hits[n].id].cntl = "inuse"
    BY <1>0, <2>1, <2>5, <2>6, <2>7 DEF IdInv
  <2>8. ASSUME NEW j \in Ids, view'[j].cntl = "inuse"
        PROVE  \E n \in DOMAIN hits : Active(n)' /\ hits[n].id = j
    <3>1. j # i
      BY <2>1, <2>8
    <3>2. PICK n \in DOMAIN hits : Active(n) /\ hits[n].id = j
      BY <1>0, <2>1, <2>8, <3>1 DEF IdInv
    <3> QED BY <2>1, <2>4, <3>1, <3>2
  <2> QED BY <1>0, <2>1, <2>6, <2>7, <2>8 DEF IdInv
<1>8. CASE /\ Step(t) /\ ~ RgstRequest(t) /\ ~ OverRelease(t)
           /\ ~ (RgstManage(t) /\ view[pos[t]].cntl = "unuse")
  <2>1. hits' = hits
    BY <1>8, JobStep
  <2>2. \A k \in DOMAIN hits : Over(k)' = Over(k)
    BY <1>2, <1>8, TallyStep DEF Over
  <2>3. (pc[t] # "scan" /\ pc'[t] # "scan") \/ (pc' = pc /\ job' = job)
    <3>1. CASE RgstManage(t)
      BY <1>8, <3>1, NotFoundDoes
    <3>2. CASE Push(t)
      BY <3>2, PushDoes
    <3>3. CASE Take(t)
      BY <3>3, TakeDoes
    <3>4. CASE Fill(t) \/ Return(t) \/ Finish(t)
      BY <1>3, <3>4 DEF Fill, Return, Finish, Go
    <3>5. CASE Come(t) \/ Run(t) \/ OverMax(t) \/ OverAdd(t) \/ OverReset(t)
      BY <1>3, <3>5 DEF Come, Run, OverMax, OverAdd, OverReset, Go
    <3> QED BY <1>8, <3>1, <3>2, <3>3, <3>4, <3>5 DEF Step
  <2>4. \A k \in DOMAIN hits : Scanned(k)' = Scanned(k)
    BY <1>1, <2>3 DEF Scanned
  <2>5. \A i \in Ids : view'[i].cntl = view[i].cntl
    <3>0. view \in [Ids -> [cntl : {"unuse", "inuse"},
                              worker_finish : Nat, worker_affect : Nat,
                              tasker_finish : Nat, tasker_affect : Nat]]
      BY <1>0 DEF Typed
    <3>1. CASE Fill(t)
      BY <3>1, FillDoes
    <3>2. CASE Come(t)
      BY <3>0, <3>2 DEF Come
    <3>3. CASE OverAdd(t)
      BY <3>0, <3>3 DEF OverAdd
    <3>4. CASE OverReset(t)
      BY <3>0, <3>4 DEF OverReset, Unused
    <3>5. CASE RgstManage(t)
      BY <1>8, <3>5, NotFoundDoes
    <3> QED BY <1>8, <3>1, <3>2, <3>3, <3>4, <3>5 DEF Step, Push, Return, Take, Run, OverMax,
                Finish
  <2> QED BY <1>0, <1>2, <2>1, <2>2, <2>4, <2>5, IdFrame
<1> QED BY <1>4, <1>5, <1>6, <1>7, <1>8 DEF Step

\* What is told when a task ends: flag, message and connection.
LEMMA FinishDoes ==
    ASSUME Inv, NEW t \in Threads, Finish(t)
    PROVE  /\ pc[t] = "finish" /\ pc'[t] = "idle" /\ job'[t] = NoTask
           /\ job[t].ticket \in DOMAIN hits /\ job[t].ticket \in Tickets
           /\ job[t] = hits[job[t].ticket] /\ job[t].func
           /\ \A c \in Threads : deal'[c] = IF c \in job[t].deal THEN "finish" ELSE deal[c]
           /\ \A k \in Tickets : k # job[t].ticket => data'[k] = data[k]
           /\ \A i \in Conns : i # job[t].id => conn'[i] = conn[i]
           /\ job[t].origin # "HTTP" => conn' = conn
           /\ UNCHANGED <<view, list, pos, max, hits, tally>>
<1>1. pc[t] = "finish"
  BY DEF Finish
<1>2. /\ job[t].ticket \in DOMAIN hits /\ job[t].ticket \in Tickets
      /\ job[t] = hits[job[t].ticket] /\ job[t].func
  BY <1>1, JobOf DEF Inv, PlaceInv, PlaceOf, Ends
<1>3. DOMAIN pc = Threads /\ DOMAIN job = Threads /\ DOMAIN data = Tickets /\ DOMAIN conn = Conns
  BY DEF Inv, Typed
<1> QED BY <1>1, <1>2, <1>3 DEF Finish, Go

\* The caller of a synchronous hit goes on to wait for its flag.
LEMMA CallerStep ==
    ASSUME Inv, NEW t \in Threads, Step(t), Calls(t), job[t].deal # {}, job[t].func,
           deal[t] = "begin"
    PROVE  Calls(t)' /\ job'[t].ticket = job[t].ticket /\ deal'[t] = "begin"
<1>1. CASE RgstRequest(t)
  BY <1>1, RequestDoes DEF Calls
<1>2. CASE RgstManage(t) /\ view[pos[t]].cntl = "unuse"
  <2>1. pc'[t] = "fill" /\ job'[t].ticket = job[t].ticket /\ deal' = deal
    BY <1>2, FoundDoes
  <2> QED BY <2>1 DEF Calls
<1>3. CASE RgstManage(t) /\ view[pos[t]].cntl # "unuse"
  BY <1>3, NotFoundDoes DEF Calls
<1>4. CASE Fill(t)
  <2>1. job[t].origin # "HTTP"
    <3>1. pc[t] # "idle"
      BY DEF Calls
    <3> QED BY <3>1 DEF Inv, TaskInv
  <2>2. pc'[t] = "push" /\ job'[t] = job[t] /\ deal'[t] = deal[t]
    BY <1>4, <2>1, FillDoes
  <2> QED BY <2>2 DEF Calls
<1>5. CASE Push(t)
  BY <1>5, PushDoes DEF Calls
<1>6. CASE Return(t)
  BY <1>6 DEF Return
<1> QED BY <1>1, <1>2, <1>3, <1>4, <1>5, <1>6 DEF Step, Calls, Take, Come, Run, OverMax, OverAdd,
           OverReset, OverRelease, Finish

\* What a task that is not finished has.
LEMMA OpenStep ==
    ASSUME Inv, TaskInv', NEW t \in Threads, Step(t) \/ Hits(t)
    PROVE  OpenInv'
<1>0. Typed /\ TaskInv /\ OpenInv /\ OverInv /\ ApartInv
  BY DEF Inv
<1>1. \A u \in Threads : u # t => pc'[u] = pc[u] /\ job'[u] = job[u]
  BY <1>0, OneThread
<1>2. /\ DOMAIN pc = Threads /\ DOMAIN job = Threads /\ DOMAIN deal = Threads
      /\ DOMAIN data = Tickets /\ DOMAIN conn = Conns
  BY <1>0 DEF Typed
<1>3. ASSUME NEW k \in DOMAIN hits
      PROVE  /\ k \in Tickets /\ hits[k] \in Task /\ hits[k].deal \subseteq Threads
             /\ hits[k].origin # "HTTP" => hits[k].id \notin Conns
             /\ hits[k].origin = "HTTP" => hits[k].id \in Conns
  <2>1. k \in Tickets /\ hits[k] \in Task
    BY <1>0, HitOf
  <2>2. hits[k].origin # "HTTP" => hits[k].id \notin Conns
    BY <1>0, Constants DEF TaskInv
  <2> QED BY <1>0, <2>1, <2>2 DEF Task, TaskInv
<1>4. CASE Hits(t)
  <2>1. PICK task \in Task :
             /\ pc[t] = "idle" /\ task.ticket = Len(hits) + 1 /\ task.ticket \in Tickets
             /\ hits' = Append(hits, task) /\ job' = [job EXCEPT ![t] = task]
             /\ pc' = [pc EXCEPT ![t] = "scan"]
             /\ deal' = [deal EXCEPT ![t] = IF task.origin = "INIT" THEN "begin" ELSE "unused"]
             /\ task.origin = "HTTP" =>
                    /\ task.func /\ task.id \in Conns /\ task.deal = {}
                    /\ conn[task.id] = "idle"
                    /\ conn' = [conn EXCEPT ![task.id] = "busy"] /\ data' = data
             /\ task.origin # "HTTP" =>
                    /\ task.type = "WHOLE" /\ task.id = 0
                    /\ task.deal = IF task.origin = "INIT" THEN {t} ELSE {}
                    /\ conn' = conn
                    /\ data' = IF task.origin = "MSMQ"
                               THEN [data EXCEPT ![Len(hits) + 1] = "live"] ELSE data
             /\ tally' = tally
    BY <1>0, <1>4, HitTask
  <2>20. PICK N : N = Len(hits) + 1
    OBVIOUS
  <2>2. /\ DOMAIN hits' = DOMAIN hits \cup {N} /\ N \notin DOMAIN hits /\ hits'[N] = task
        /\ \A k \in DOMAIN hits : hits'[k] = hits[k]
    BY <1>0, <2>1, <2>20, HitsGrow
  <2>3. pc'[t] = "scan" /\ job'[t] = task /\ N \in Tickets /\ task.ticket = N
    BY <1>2, <2>1, <2>20
  <2>4. \A k \in Tickets : k # N => data'[k] = data[k]
    BY <1>2, <2>1, <2>20
  <2>5. task.origin = "MSMQ" => data'[N] = "live"
    BY <1>2, <2>1, <2>3, <2>20
  <2>6. ASSUME NEW k \in DOMAIN hits PROVE Open(k)' = Open(k)
    BY <1>1, <2>1, <2>3 DEF Open, Over
  <2>7. ASSUME NEW k \in DOMAIN hits, Open(k)
        PROVE  /\ hits[k].origin = "HTTP" => conn'[hits[k].id] = "busy"
               /\ hits[k].origin = "MSMQ" => data'[k] = "live"
               /\ \A c \in hits[k].deal : hits[k].func =>
                      Calls(c)' /\ job'[c].ticket = k /\ deal'[c] = "begin"
    <3>1. hits[k].origin = "HTTP" => conn'[hits[k].id] = "busy"
      BY <1>0, <1>2, <1>3, <2>1, <2>7 DEF OpenInv
    <3>2. hits[k].origin = "MSMQ" => data'[k] = "live"
      BY <1>0, <1>3, <2>2, <2>4, <2>7 DEF OpenInv
    <3>3. ASSUME NEW c \in hits[k].deal, hits[k].func
          PROVE  Calls(c)' /\ job'[c].ticket = k /\ deal'[c] = "begin"
      <4>1. c \in Threads /\ Calls(c) /\ job[c].ticket = k /\ deal[c] = "begin"
        BY <1>0, <1>3, <2>7, <3>3 DEF OpenInv
      <4>2. c # t
        BY <2>1, <4>1 DEF Calls
      <4> QED BY <1>1, <1>2, <2>1, <4>1, <4>2 DEF Calls
    <3> QED BY <3>1, <3>2, <3>3
  <2>8. /\ task.origin = "HTTP" => conn'[task.id] = "busy"
        /\ task.origin = "MSMQ" => data'[N] = "live"
        /\ \A c \in task.deal : Calls(c)' /\ job'[c].ticket = N /\ deal'[c] = "begin"
    BY <1>2, <2>1, <2>3, <2>5 DEF Calls
  <2>9. ASSUME NEW k \in DOMAIN hits', Open(k)'
        PROVE  /\ hits'[k].origin = "HTTP" => conn'[hits'[k].id] = "busy"
               /\ hits'[k].origin = "MSMQ" => data'[k] = "live"
               /\ \A c \in hits'[k].deal : hits'[k].func =>
                      Calls(c)' /\ job'[c].ticket = k /\ deal'[c] = "begin"
    BY <2>2, <2>6, <2>7, <2>8, <2>9
  <2>10. ASSUME NEW k \in DOMAIN hits, Open(k), hits[k].id = task.id
         PROVE  task.origin # "HTTP" /\ hits[k].origin # "HTTP"
    <3>1. 0 \notin Conns
      BY Constants
    <3> QED BY <1>0, <1>3, <2>1, <2>10, <3>1 DEF OpenInv
  <2>11. ASSUME NEW j \in DOMAIN hits', NEW k \in DOMAIN hits', Open(j)', Open(k)',
                hits'[j].origin = "HTTP", hits'[j].id = hits'[k].id
         PROVE  j = k
    BY <1>0, <2>2, <2>6, <2>10, <2>11 DEF OpenInv
  <2> QED BY <2>9, <2>11 DEF OpenInv
<1>5. CASE RgstManage(t) /\ view[pos[t]].cntl = "unuse"
  <2>20. PICK n, i : n = job[t].ticket /\ i = pos[t]
    OBVIOUS
  <2>1. /\ pc[t] = "scan" /\ pc'[t] = "fill" /\ i \in Manage /\ n \in DOMAIN hits
        /\ DOMAIN hits' = DOMAIN hits /\ \A k \in DOMAIN hits : k # n => hits'[k] = hits[k]
        /\ hits'[n] = [job[t] EXCEPT !.id = i] /\ job[t] \in Task /\ job[t].origin # "HTTP"
        /\ job'[t] = [job[t] EXCEPT !.id = i] /\ job[t] = hits[n]
        /\ UNCHANGED <<deal, conn, data, tally>>
    BY <1>0, <1>5, <2>20, FoundDoes, JobOf
  <2>2. /\ hits'[n].id = i /\ hits'[n].origin = hits[n].origin /\ hits'[n].func = hits[n].func
        /\ hits'[n].deal = hits[n].deal /\ job'[t].ticket = n /\ hits[n].origin # "HTTP"
    BY <2>1, <2>20 DEF Task
  <2>3. ASSUME NEW k \in DOMAIN hits PROVE Open(k)' = Open(k)
    BY <1>1, <2>1 DEF Open, Over
  <2>4. ASSUME NEW k \in DOMAIN hits
        PROVE  /\ hits'[k].origin = hits[k].origin /\ hits'[k].func = hits[k].func
               /\ hits'[k].deal = hits[k].deal
               /\ hits[k].origin = "HTTP" => hits'[k].id = hits[k].id
    BY <2>1, <2>2
  <2>5. ASSUME NEW c \in Threads, Calls(c)
        PROVE  Calls(c)' /\ job'[c].ticket = job[c].ticket
    BY <1>1, <2>1, <2>2, <2>5, <2>20 DEF Calls
  <2>6. ASSUME NEW k \in DOMAIN hits, Open(k)'
        PROVE  /\ hits'[k].origin = "HTTP" => conn'[hits'[k].id] = "busy"
               /\ hits'[k].origin = "MSMQ" => data'[k] = "live"
               /\ \A c \in hits'[k].deal : hits'[k].func =>
                      Calls(c)' /\ job'[c].ticket = k /\ deal'[c] = "begin"
    <3>1. Open(k) /\ hits[k].deal \subseteq Threads
      BY <1>3, <2>3, <2>6
    <3> QED BY <1>0, <2>1, <2>4, <2>5, <3>1 DEF OpenInv
  <2>7. ASSUME NEW j \in DOMAIN hits, NEW k \in DOMAIN hits, Open(j)', Open(k)',
               hits'[j].origin = "HTTP", hits'[j].id = hits'[k].id
        PROVE  j = k
    <3>1. i \notin Conns /\ hits[j].id \in Conns /\ hits'[j].id = hits[j].id
      BY <1>3, <2>1, <2>4, <2>7, Constants
    <3>2. k # n
      BY <2>2, <2>7, <3>1
    <3>3. hits'[k] = hits[k] /\ Open(j) /\ Open(k)
      BY <2>1, <2>3, <2>7, <3>2
    <3>4. hits[j].origin = "HTTP"
      BY <2>4, <2>7
    <3> QED BY <1>0, <2>7, <3>1, <3>3, <3>4 DEF OpenInv
  <2> QED BY <2>1, <2>6, <2>7 DEF OpenInv
<1>6. CASE Finish(t)
  <2>20. PICK n : n = job[t].ticket
    OBVIOUS
  <2>1. /\ pc[t] = "finish" /\ pc'[t] = "idle" /\ n \in DOMAIN hits /\ job[t] = hits[n]
        /\ job[t].func
        /\ \A c \in Threads : deal'[c] = IF c \in hits[n].deal THEN "finish" ELSE deal[c]
        /\ \A k \in Tickets : k # n => data'[k] = data[k]
        /\ \A i \in Conns : i # hits[n].id => conn'[i] = conn[i]
        /\ hits[n].origin # "HTTP" => conn' = conn
        /\ hits' = hits /\ tally' = tally
    BY <1>6, <2>20, FinishDoes
  <2>2. Ends(t) /\ Over(n) /\ Open(n)
    BY <1>0, <2>1, <2>20 DEF Ends, OverInv, Open
  <2>3. \A u \in Threads : u # t /\ pc[u] = "finish" => job[u].ticket # n
    BY <1>0, <2>2, <2>20 DEF ApartInv, EndApart, Ends
  <2>4. ~ Open(n)'
    BY <1>1, <2>1, <2>2, <2>3 DEF Open, Over
  <2>5. ASSUME NEW k \in DOMAIN hits, Open(k)' PROVE Open(k) /\ k # n
    BY <1>1, <2>1, <2>4, <2>5 DEF Open, Over
  <2>6. ASSUME NEW k \in DOMAIN hits, Open(k)'
        PROVE  /\ hits[k].origin = "HTTP" => conn'[hits[k].id] = "busy"
               /\ hits[k].origin = "MSMQ" => data'[k] = "live"
               /\ \A c \in hits[k].deal : hits[k].func =>
                      Calls(c)' /\ job'[c].ticket = k /\ deal'[c] = "begin"
    <3>1. Open(k) /\ k # n
      BY <2>5, <2>6
    <3>2. hits[k].origin = "HTTP" => conn'[hits[k].id] = "busy"
      <4> SUFFICES ASSUME hits[k].origin = "HTTP" PROVE conn'[hits[k].id] = "busy"
        OBVIOUS
      <4>1. conn[hits[k].id] = "busy" /\ hits[k].id \in Conns
        BY <1>0, <1>3, <3>1 DEF OpenInv
      <4>2. hits[k].id # hits[n].id
        BY <1>0, <2>1, <2>2, <3>1 DEF OpenInv
      <4> QED BY <2>1, <4>1, <4>2
    <3>3. hits[k].origin = "MSMQ" => data'[k] = "live"
      BY <1>0, <1>3, <2>1, <3>1 DEF OpenInv
    <3>4. ASSUME NEW c \in hits[k].deal, hits[k].func
          PROVE  Calls(c)' /\ job'[c].ticket = k /\ deal'[c] = "begin"
      <4>1. c \in Threads /\ Calls(c) /\ job[c].ticket = k /\ deal[c] = "begin"
        BY <1>0, <1>3, <3>1, <3>4 DEF OpenInv
      <4>2. c # t
        BY <2>1, <4>1 DEF Calls
      <4>3. c \notin hits[n].deal
        BY <1>0, <2>1, <2>2, <3>1, <4>1 DEF OpenInv
      <4> QED BY <1>1, <2>1, <4>1, <4>2, <4>3 DEF Calls
    <3> QED BY <3>2, <3>3, <3>4
  <2> QED BY <1>0, <2>1, <2>5, <2>6 DEF OpenInv
<1>7. CASE Step(t) /\ ~ Finish(t) /\ ~ (RgstManage(t) /\ view[pos[t]].cntl = "unuse")
  <2>1. hits' = hits
    BY <1>7, JobStep
  <2>2. conn' = conn /\ data' = data
    BY <1>7 DEF Step, RgstRequest, RgstManage, Fill, Push, Return, Take, Come, Run, OverMax,
       OverAdd, OverReset, OverRelease
  <2>3. \A u \in Threads : u # t => deal'[u] = deal[u]
    <3>1. CASE Push(t)
      BY <3>1, PushDoes
    <3>2. CASE Fill(t)
      BY <3>2, FillDoes
    <3> QED BY <1>2, <1>7, <3>1, <3>2 DEF Step, RgstRequest, RgstManage, Return, Take, Come,
               Run, OverMax, OverAdd, OverReset, OverRelease
  <2>4. ASSUME NEW k \in DOMAIN hits, Open(k)' PROVE Open(k)
    <3>1. CASE OverRelease(t)
      <4>1. /\ pc[t] = "release" /\ pc'[t] = "finish" /\ job' = job
            /\ \A n \in Tickets : n # job[t].ticket => tally'[n] = tally[n]
        BY <3>1, ReleaseDoes
      <4>2. CASE k = job[t].ticket
        BY <1>0, <4>1, <4>2 DEF OverInv, Open
      <4>3. CASE k # job[t].ticket
        BY <1>1, <1>3, <2>4, <4>1, <4>3 DEF Open, Over
      <4> QED BY <4>2, <4>3
    <3>2. CASE ~ OverRelease(t)
      <4>1. tally'[k].over = tally[k].over
        BY <1>3, <1>7, <3>2, TallyStep
      <4>2. pc'[t] # "finish"
        <5>1. CASE RgstRequest(t)
          BY <5>1, RequestDoes
        <5>2. CASE RgstManage(t)
          BY <1>7, <5>2, NotFoundDoes
        <5>3. CASE Fill(t)
          BY <5>3, FillDoes
        <5>4. CASE Push(t)
          BY <5>4, PushDoes
        <5>5. CASE Take(t)
          BY <5>5, TakeDoes
        <5>6. CASE Return(t) \/ Come(t) \/ Run(t) \/ OverMax(t) \/ OverAdd(t) \/ OverReset(t)
          BY <1>2, <5>6 DEF Return, Come, Run, OverMax, OverAdd, OverReset, Go
        <5> QED BY <1>7, <3>2, <5>1, <5>2, <5>3, <5>4, <5>5, <5>6 DEF Step
      <4> QED BY <1>1, <2>4, <4>1, <4>2 DEF Open, Over
    <3> QED BY <3>1, <3>2
  <2>5. ASSUME NEW k \in DOMAIN hits, Open(k), NEW c \in hits[k].deal, hits[k].func
        PROVE  Calls(c)' /\ job'[c].ticket = k /\ deal'[c] = "begin"
    <3>1. c \in Threads /\ Calls(c) /\ job[c].ticket = k /\ deal[c] = "begin"
      BY <1>0, <1>3, <2>5 DEF OpenInv
    <3>2. CASE c # t
      BY <1>1, <2>3, <3>1, <3>2 DEF Calls
    <3>3. CASE c = t
      <4>1. job[t] = hits[k]
        BY <1>0, <3>1, <3>3, JobOf DEF Calls
      <4> QED BY <1>7, <2>5, <3>1, <3>3, <4>1, CallerStep
    <3> QED BY <3>2, <3>3
  <2>6. ASSUME NEW k \in DOMAIN hits, Open(k)'
        PROVE  /\ hits[k].origin = "HTTP" => conn[hits[k].id] = "busy"
               /\ hits[k].origin = "MSMQ" => data[k] = "live"
               /\ \A c \in hits[k].deal : hits[k].func =>
                      Calls(c)' /\ job'[c].ticket = k /\ deal'[c] = "begin"
    BY <1>0, <2>4, <2>5, <2>6 DEF OpenInv
  <2>7. ASSUME NEW j \in DOMAIN hits, NEW k \in DOMAIN hits, Open(j)', Open(k)',
               hits[j].origin = "HTTP", hits[j].id = hits[k].id
        PROVE  j = k
    BY <1>0, <2>4, <2>7 DEF OpenInv
  <2> QED BY <2>1, <2>2, <2>6, <2>7 DEF OpenInv
<1> QED BY <1>4, <1>5, <1>6, <1>7


-----------------------------------------------------------------------------
\* The counters of the table.

\* Sets of workers, and of runs in them.
LEMMA WorkerSets ==
    ASSUME NEW T \in SUBSET Workers, NEW r \in Nat
    PROVE  /\ IsFiniteSet(T) /\ Cardinality(T) \in Nat
           /\ IsFiniteSet(T \X (1 .. r)) /\ Cardinality(T \X (1 .. r)) = Cardinality(T) * r
<1>1. IsFiniteSet(Workers)
  BY FS_Interval, Constants DEF Workers
<1>2. IsFiniteSet(T) /\ Cardinality(T) \in Nat
  BY <1>1, FS_Subset, FS_CardinalityType
<1>3. IsFiniteSet(1 .. r) /\ Cardinality(1 .. r) = r
  BY FS_Interval
<1> QED BY <1>2, <1>3, FS_Product

\* The runs of a task: in each worker at least one, and together its due.
LEMMA DueRuns ==
    ASSUME NEW j \in Task
    PROVE  /\ Runs(j) \in Nat /\ Runs(j) > 0 /\ Affects(j) \in Nat /\ Affects(j) > 0
           /\ Due(j) = Affects(j) * Runs(j) /\ Due(j) \in Nat /\ Due(j) > 0
<1>1. Turns \in Nat /\ Turns > 0
  BY Constants DEF Turns
<1>2. j.type \in {"ALONE", "WHOLE"}
  BY DEF Task
<1>3. CASE j.type = "ALONE"
  BY <1>3 DEF Runs, Affects, Due
<1>4. CASE j.type = "WHOLE"
  <2>1. Runs(j) = Turns /\ Affects(j) = W /\ Due(j) = W * Turns
    BY <1>4 DEF Runs, Affects, Due
  <2> QED BY <1>1, <2>1, Constants
<1> QED BY <1>2, <1>3, <1>4

\* The runs that have begun are runs in workers the task is for, and the
\* runs that have ended have begun.
LEMMA RunSets ==
    ASSUME NEW k, NEW T \in SUBSET Workers, NEW D \in SUBSET T,
           Busy(k) \subseteq T \ D, hits[k] \in Task
    PROVE  /\ Begun(k, D) \subseteq T \X (1 .. Runs(hits[k]))
           /\ Ended(k, D) \subseteq Begun(k, D)
           /\ IsFiniteSet(Begun(k, D)) /\ IsFiniteSet(Ended(k, D))
           /\ Cardinality(Begun(k, D)) \in Nat /\ Cardinality(Ended(k, D)) \in Nat
<1>1. Begun(k, D) \subseteq T \X (1 .. Runs(hits[k]))
  <2> SUFFICES ASSUME NEW p \in Begun(k, D) PROVE p \in T \X (1 .. Runs(hits[k]))
    OBVIOUS
  <2>1. p \in Workers \X (1 .. Runs(hits[k]))
    BY DEF Begun
  <2>2. p[1] \in T
    <3>1. CASE p[1] \in D
      BY <3>1
    <3>2. CASE p[1] \notin D
      <4>1. p[1] \in Workers /\ Holds(p[1]) /\ job[p[1]].ticket = k
        BY <2>1, <3>2 DEF Begun, BegunAt
      <4>2. p[1] \in Busy(k)
        BY <4>1 DEF Busy
      <4> QED BY <4>2
    <3> QED BY <3>1, <3>2
  <2> QED BY <2>1, <2>2
<1>2. Ended(k, D) \subseteq Begun(k, D)
  BY DEF Ended, Begun, BegunAt, EndedAt
<1>3. IsFiniteSet(T \X (1 .. Runs(hits[k])))
  BY WorkerSets, DueRuns
<1>4. IsFiniteSet(Begun(k, D)) /\ IsFiniteSet(Ended(k, D))
  <2>1. IsFiniteSet(Begun(k, D))
    BY <1>1, <1>3, FS_Subset
  <2> QED BY <1>2, <2>1, FS_Subset
<1> QED BY <1>1, <1>2, <1>4, FS_CardinalityType

\* With a list as long as there are ids a caller always finds room: the ids
\* of the tasks in the list are distinct, and its own is not among them.
LEMMA RoomEnough ==
    ASSUME Inv, Roomy, NEW t \in Threads, pc[t] = "push"
    PROVE  Len(list[pos[t]]) < Room
<1>1. PICK w \in Workers : w = pos[t]
  BY DEF Inv, PlaceInv, PlaceOf
<1>2. PICK n \in Nat : n = Len(list[w]) /\ DOMAIN list[w] = 1 .. n
  BY ElementOf DEF Inv, Typed
<1>3. Sends(t, w)
  BY <1>1, Constants DEF Sends
<1>4. PICK i \in Ids : i = job[t].id /\ Active(job[t].ticket)
  BY ActiveJob
<1>5. job[t].ticket \in DOMAIN hits /\ job[t] = hits[job[t].ticket]
  BY JobOf DEF Inv
<1>6. ASSUME NEW a \in 1 .. n, NEW b \in 1 .. n, list[w][a].id = list[w][b].id PROVE a = b
  <2>1. list[w][a].ticket = list[w][b].ticket
    BY <1>2, <1>6, ActiveQueued DEF Inv, IdInv
  <2> QED BY <1>2, <2>1 DEF Inv, ApartInv, ListApart
<1>7. ASSUME NEW a \in 1 .. n PROVE list[w][a].id \in Ids \ {i}
  <2>1. list[w][a].ticket # job[t].ticket
    BY <1>2, <1>3 DEF Inv, ApartInv, SendApart
  <2>2. /\ Active(list[w][a].ticket) /\ list[w][a].id \in Ids
        /\ list[w][a].ticket \in DOMAIN hits /\ list[w][a] = hits[list[w][a].ticket]
    BY <1>2, ActiveQueued
  <2> QED BY <1>4, <1>5, <2>1, <2>2 DEF Inv, IdInv
<1>8. IsFiniteSet(Ids) /\ Cardinality(Ids) = M + C
  <2>1. Ids = 1 .. (M + C)
    BY Constants DEF Ids, Manage, Conns
  <2> QED BY <2>1, FS_Interval, Constants
<1>15. PICK V : V = Ids \ {i}
  OBVIOUS
<1>9. IsFiniteSet(V) /\ Cardinality(V) = M + C - 1
  <2>1. /\ IsFiniteSet(V)
        /\ Cardinality(V) = IF i \in Ids THEN Cardinality(Ids) - 1 ELSE Cardinality(Ids)
    BY <1>8, <1>15, FS_RemoveElement, Zenon
  <2> QED BY <1>8, <2>1, Constants
<1>10. IsFiniteSet(1 .. n) /\ Cardinality(1 .. n) = n
  BY FS_Interval
<1>11. PICK f : f = [a \in 1 .. n |-> list[w][a].id]
  OBVIOUS
<1>12. f \in [1 .. n -> V]
  BY <1>7, <1>11, <1>15
<1>13. \A a, b \in 1 .. n : f[a] = f[b] => a = b
  BY <1>6, <1>11
<1>14. ~ (M + C - 1 < n)
  BY <1>9, <1>10, <1>12, <1>13, FS_PigeonHole
<1> QED BY <1>1, <1>2, <1>14, Constants DEF Roomy

\* The entries of other tasks are left alone: their ids are others.
LEMMA ViewStep ==
    ASSUME Inv, NEW t \in Threads, Step(t) \/ Hits(t), NEW k \in DOMAIN hits, Active(k),
           pc[t] \in {"idle", "wait", "finish"} \/ job[t].ticket # k
    PROVE  view'[hits[k].id] = view[hits[k].id]
<1>0. hits[k].id \in Ids /\ view[hits[k].id].cntl = "inuse" /\ DOMAIN view = Ids
  BY DEF Inv, IdInv, Typed
<1>1. CASE view' = view
  BY <1>1
<1>2. CASE RgstRequest(t)
  BY <1>0, <1>2, RequestDoes
<1>3. CASE RgstManage(t)
  BY <1>0, <1>1, <1>3, FoundDoes, NotFoundDoes, ZenonT(30)
<1>4. CASE Fill(t) \/ Come(t) \/ OverAdd(t) \/ OverReset(t) \/ OverRelease(t)
  <2>1. pc[t] \notin {"idle", "scan", "wait", "finish"}
    BY <1>4 DEF Fill, Come, OverAdd, OverReset, OverRelease
  <2>2. /\ Active(job[t].ticket) /\ job[t].ticket \in DOMAIN hits
        /\ job[t] = hits[job[t].ticket]
    BY <2>1, ActiveJob, JobOf DEF Inv
  <2>3. hits[k].id # job[t].id
    BY <2>1, <2>2 DEF Inv, IdInv
  <2> QED BY <1>0, <1>4, <2>3 DEF Fill, Come, OverAdd, OverReset, OverRelease
<1>5. CASE Hits(t)
  BY <1>1, <1>5, HitTask DEF Inv
<1> QED BY <1>1, <1>2, <1>3, <1>4, <1>5 DEF Step, Push, Return, Take, Run, OverMax, Finish

\* Where a task is queued changes only for the task pushed or taken.
LEMMA QueuedStep ==
    ASSUME Inv, NEW t \in Threads, Step(t) \/ Hits(t), NEW k, NEW w \in Workers,
           ~ (Push(t) /\ job[t].ticket = k /\ pos[t] = w),
           ~ (Take(t) /\ list[t][1].ticket = k /\ t = w)
    PROVE  Queued(k, w)' = Queued(k, w)
<1>1. ASSUME Queued(k, w)' PROVE Queued(k, w)
  <2>1. PICK n \in DOMAIN list'[w] : list'[w][n].ticket = k
    BY <1>1 DEF Queued
  <2>2. ~ (pc[t] = "push" /\ w = pos[t] /\ list'[w][n] = job[t]) \/ Queued(k, w)
    <3>1. CASE Push(t)
      BY <2>1, <3>1
    <3>2. CASE ~ Push(t) /\ pc[t] = "push"
      <4>1. ~ Hits(t)
        BY <3>2, HitTask DEF Inv
      <4> QED BY <3>2, <4>1 DEF Step, RgstRequest, RgstManage, Fill, Return, Take, Come, Run,
                OverMax, OverAdd, OverReset, OverRelease, Finish
    <3> QED BY <3>1, <3>2
  <2> QED BY <2>1, <2>2, ListStep DEF Queued
<1>2. ASSUME Queued(k, w) PROVE Queued(k, w)'
  <2>0. PICK n \in DOMAIN list[w] : list[w][n].ticket = k
    BY <1>2 DEF Queued
  <2>1. CASE list'[w] = list[w]
    BY <2>0, <2>1 DEF Queued
  <2>2. CASE Push(t)
    <3>1. w # pos[t] => list'[w] = list[w]
      BY <2>2, PushDoes
    <3>2. CASE list'[w] = Append(list[w], job[t])
      <4>1. list[w] \in Seq(Task) /\ job[t] \in Task
        BY <2>2, PushDoes DEF Inv, Typed
      <4>2. n \in DOMAIN list'[w] /\ list'[w][n] = list[w][n]
        BY <3>2, <4>1, AppendOf, ElementOf
      <4> QED BY <2>0, <4>2 DEF Queued
    <3> QED BY <2>1, <2>2, <3>1, <3>2, PushDoes
  <2>3. CASE Take(t)
    <3>1. CASE w = t
      <4>1. /\ DOMAIN list'[t] = 1 .. Len(list[t]) - 1 /\ DOMAIN list[t] = 1 .. Len(list[t])
            /\ Len(list[t]) \in Nat
            /\ \A m \in DOMAIN list'[t] : list'[t][m] = list[t][m + 1]
        BY <2>3, TakeDoes
      <4>2. n # 1
        BY <2>0, <2>3, <3>1
      <4>3. n - 1 \in DOMAIN list'[t] /\ n - 1 + 1 = n
        BY <3>1, <4>1, <4>2
      <4>4. list'[t][n - 1] = list[t][n]
        BY <4>1, <4>3
      <4> QED BY <2>0, <3>1, <4>3, <4>4 DEF Queued
    <3> QED BY <2>1, <2>3, <3>1, TakeDoes
  <2>4. CASE Hits(t)
    BY <2>1, <2>4, HitTask DEF Inv
  <2> QED BY <2>1, <2>2, <2>3, <2>4 DEF Step, RgstRequest, RgstManage, Fill, Return, Come, Run,
          OverMax, OverAdd, OverReset, OverRelease, Finish
<1> QED BY <1>1, <1>2 DEF Queued

\* The sets of runs are those of the runs at each worker.
LEMMA RunsSame ==
    ASSUME NEW k, hits'[k] = hits[k], Turns' = Turns,
           \A w \in Workers : \A r \in 1 .. Runs(hits[k]) :
               (BegunAt(k, w, r)' <=> BegunAt(k, w, r)) /\ (EndedAt(k, w, r)' <=> EndedAt(k, w, r))
    PROVE  \A D : Begun(k, D)' = Begun(k, D) /\ Ended(k, D)' = Ended(k, D)
<1> SUFFICES ASSUME NEW D PROVE Begun(k, D)' = Begun(k, D) /\ Ended(k, D)' = Ended(k, D)
  OBVIOUS
<1>1. Runs(hits[k])' = Runs(hits[k])
  BY DEF Runs
<1>2. ASSUME NEW p \in Workers \X (1 .. Runs(hits[k]))
      PROVE  /\ (p \in Begun(k, D)') <=> (p \in Begun(k, D))
             /\ (p \in Ended(k, D)') <=> (p \in Ended(k, D))
  <2>1. p[1] \in Workers /\ p[2] \in 1 .. Runs(hits[k])
    OBVIOUS
  <2> QED BY <1>1, <2>1 DEF Begun, Ended
<1>3. /\ Begun(k, D) \subseteq Workers \X (1 .. Runs(hits[k]))
      /\ Ended(k, D) \subseteq Workers \X (1 .. Runs(hits[k]))
      /\ Begun(k, D)' \subseteq Workers \X (1 .. Runs(hits[k]))
      /\ Ended(k, D)' \subseteq Workers \X (1 .. Runs(hits[k]))
  BY <1>1 DEF Begun, Ended
<1> QED BY <1>2, <1>3

\* A step that moves a task on, or drops it from a list, and counts nothing.
LEMMA CountMove ==
    ASSUME NEW k, Counted(k), hits'[k] = hits[k], tally'[k] = tally[k],
           view'[hits[k].id] = view[hits[k].id], Turns' = Turns, Reset(k) => Reset(k)',
           Busy(k)' \subseteq Busy(k), Roomy /\ hits[k].func => Busy(k) \subseteq Busy(k)',
           \A w \in Workers : \A r \in 1 .. Runs(hits[k]) :
               (BegunAt(k, w, r)' <=> BegunAt(k, w, r)) /\ (EndedAt(k, w, r)' <=> EndedAt(k, w, r))
    PROVE  Counted(k)'
<1>1. Affects(hits[k])' = Affects(hits[k]) /\ Due(hits[k])' = Due(hits[k])
  BY DEF Affects, Due
<1>2. PICK T \in SUBSET Workers : \E D \in SUBSET T : Counts(k, T, D)
  BY DEF Counted
<1>3. PICK D \in SUBSET T : Counts(k, T, D)
  BY <1>2
<1>4. Begun(k, D)' = Begun(k, D) /\ Ended(k, D)' = Ended(k, D)
  BY RunsSame
<1>5. Counts(k, T, D)'
  BY <1>1, <1>3, <1>4 DEF Counts, Roomy
<1> QED BY <1>1, <1>5 DEF Counted

\* A step that neither has a task before nor after it leaves its counters alone.
LEMMA CountFrame ==
    ASSUME Inv, NEW t \in Threads, Step(t) \/ Hits(t), NEW k \in DOMAIN hits,
           k \in DOMAIN hits', hits'[k] = hits[k], tally'[k] = tally[k],
           \A w \in Workers : Queued(k, w)' = Queued(k, w),
           pc[t] \in {"idle", "wait", "finish"} \/ job[t].ticket # k,
           pc'[t] \in {"idle", "wait", "finish"} \/ job'[t].ticket # k
    PROVE  Counting(k)' => Counted(k)'
<1>1. /\ \A u \in Threads : u # t => /\ pc'[u] = pc[u] /\ job'[u] = job[u] /\ pos'[u] = pos[u]
      /\ engine' = engine /\ Turns' = Turns
  BY OneThread DEF Inv
<1>2. ASSUME NEW u \in Threads
      PROVE  LET S == {"scan", "fill", "push", "begin", "run", "over", "add", "reset", "release"}
             IN  /\ (pc'[u] \in S /\ job'[u].ticket = k) <=> (pc[u] \in S /\ job[u].ticket = k)
                 /\ pc[u] \in S /\ job[u].ticket = k =>
                        pc'[u] = pc[u] /\ job'[u] = job[u] /\ pos'[u] = pos[u]
  <2>1. CASE u # t
    BY <1>1, <2>1
  <2>2. CASE u = t
    BY <2>2
  <2> QED BY <2>1, <2>2
<1>3. Scanned(k)' = Scanned(k) /\ Reset(k)' = Reset(k)
  BY <1>2 DEF Scanned, Reset
<1>4. Counting(k)' => Counting(k)
  <2>1. Over(k)' = Over(k)
    BY DEF Over
  <2>2. ASSUME Counting(k)', NEW u \in Threads, pc[u] \in {"fill", "release"}
        PROVE  job[u].ticket # k
    BY <1>2, <2>2 DEF Counting
  <2> QED BY <1>3, <2>1, <2>2 DEF Counting, Active
<1> SUFFICES ASSUME Counting(k) PROVE Counted(k)'
  BY <1>4
<1>5. Counted(k) /\ Active(k)
  BY DEF Inv, CountInv, Counting
<1>6. view'[hits[k].id] = view[hits[k].id]
  BY <1>5, ViewStep
<1>7. ASSUME NEW w \in Workers
      PROVE  /\ (Holds(w) /\ job[w].ticket = k)' = (Holds(w) /\ job[w].ticket = k)
             /\ Holds(w) /\ job[w].ticket = k => pc'[w] = pc[w] /\ pos'[w] = pos[w]
  <2>1. w \in Threads
    BY Constants
  <2> QED BY <1>2, <2>1 DEF Holds
<1>8. Busy(k)' = Busy(k)
  <2>1. ASSUME NEW u \in Threads, NEW w \in Workers
        PROVE  (pc[u] = "push" /\ job[u].ticket = k /\ Sends(u, w))' =
               (pc[u] = "push" /\ job[u].ticket = k /\ Sends(u, w))
    BY <1>2 DEF Sends
  <2>2. ASSUME NEW w \in Workers
        PROVE  (\E u \in Threads : pc[u] = "push" /\ job[u].ticket = k /\ Sends(u, w))' =
               (\E u \in Threads : pc[u] = "push" /\ job[u].ticket = k /\ Sends(u, w))
    BY <2>1
  <2> QED BY <1>7, <2>2 DEF Busy
<1>9. ASSUME NEW w \in Workers, NEW r \in 1 .. Runs(hits[k])
      PROVE  /\ BegunAt(k, w, r)' <=> BegunAt(k, w, r)
             /\ EndedAt(k, w, r)' <=> EndedAt(k, w, r)
  BY <1>7 DEF BegunAt, EndedAt
<1> QED BY <1>1, <1>3, <1>5, <1>6, <1>8, <1>9, CountMove

\* Registration sets the counters for the workers the task is for.
LEMMA CountFill ==
    ASSUME Inv, NEW t \in Threads, Step(t), Fill(t), NEW k \in DOMAIN hits, k = job[t].ticket
    PROVE  Counted(k)'
<1>1. /\ pc[t] = "fill" /\ job' = job /\ list' = list /\ hits' = hits /\ tally' = tally
      /\ view'[job[t].id].worker_finish = 0 /\ view'[job[t].id].tasker_finish = 0
      /\ view'[job[t].id].worker_affect = Affects(job[t])
      /\ view'[job[t].id].tasker_affect = IF job[t].type = "WHOLE" THEN W * Turns ELSE 1
      /\ \/ pc'[t] = "begin" /\ pos'[t] = 1 /\ job[t].type = "ALONE" /\ t \in Workers
         \/ pc'[t] = "push" /\ pos'[t] \in Workers /\ (job[t].type = "WHOLE" => pos'[t] = 1)
  BY FillDoes
<1>2. job[t] = hits[k] /\ hits[k] \in Task /\ hits[k].type \in {"ALONE", "WHOLE"}
  <2>1. job[t] = hits[k] /\ hits[k] \in Task
    BY <1>1, JobOf DEF Inv
  <2> QED BY <2>1 DEF Task
<1>3. /\ \A u \in Threads : u # t /\ pc[u] # "idle" => job[u].ticket # k
      /\ \A w \in Workers : \A n \in DOMAIN list[w] : list[w][n].ticket # k
  BY <1>1, Alone
<1>4. \A u \in Threads : u # t => pc'[u] = pc[u] /\ job'[u] = job[u] /\ pos'[u] = pos[u]
  BY OneThread DEF Inv
<1>5. Turns' = Turns
  BY OneThread DEF Inv
<1>6. tally[k].begun = 0 /\ tally[k].ended = 0 /\ tally[k].last = 0
  BY <1>1 DEF Inv, CountInv
<1>7. /\ Runs(hits[k])' = Runs(hits[k]) /\ Affects(hits[k])' = Affects(hits[k])
      /\ Due(hits[k])' = Due(hits[k])
  BY <1>1, <1>5 DEF Runs, Affects, Due
<1>8. /\ Runs(hits[k]) \in Nat /\ Affects(hits[k]) > 0 /\ Due(hits[k]) > 0
      /\ Affects(hits[k]) \in Nat /\ Due(hits[k]) \in Nat
  BY <1>2, DueRuns
<1>9. ASSUME NEW w \in Workers PROVE ~ Queued(k, w)'
  BY <1>1, <1>3 DEF Queued
<1>10. ASSUME NEW w \in Workers, NEW r \in 1 .. Runs(hits[k])
       PROVE  ~ BegunAt(k, w, r)' /\ ~ EndedAt(k, w, r)'
  <2>0. w \in Threads
    BY Constants
  <2>1. CASE w # t
    BY <1>3, <1>4, <2>0, <2>1 DEF BegunAt, EndedAt, Holds
  <2>2. CASE w = t /\ pc'[t] = "push"
    BY <2>2 DEF BegunAt, EndedAt, Holds
  <2>3. CASE w = t /\ pc'[t] = "begin"
    <3>1. pos'[t] = 1 /\ r = 1
      BY <1>1, <1>2, <2>3 DEF Runs
    <3> QED BY <2>3, <3>1 DEF BegunAt, EndedAt
  <2> QED BY <1>1, <2>1, <2>2, <2>3
<1>11. Begun(k, {})' = {} /\ Ended(k, {})' = {}
  <2>1. ASSUME NEW p \in Workers \X (1 .. Runs(hits[k]))
        PROVE  ~ BegunAt(k, p[1], p[2])' /\ ~ EndedAt(k, p[1], p[2])'
    BY <1>10
  <2> QED BY <1>7, <2>1 DEF Begun, Ended
<1>12. \E T \in SUBSET Workers : Cardinality(T) = Affects(hits[k]) /\ Busy(k)' = T
  <2>1. CASE pc'[t] = "begin"
    <3>1. t \in Workers /\ Affects(hits[k]) = 1
      BY <1>1, <1>2, <2>1 DEF Affects
    <3>2. Busy(k)' = {t}
      BY <1>1, <1>3, <1>4, <1>9, <2>1, <3>1, Constants DEF Busy, Holds
    <3> QED BY <3>1, <3>2, FS_Singleton
  <2>2. CASE pc'[t] = "push"
    <3>1. ASSUME NEW w \in Workers
          PROVE  w \in Busy(k)' <=> IF hits[k].type = "WHOLE" THEN w >= pos'[t] ELSE w = pos'[t]
      <4>1. w \in Threads
        BY Constants
      <4>2. ~ (Holds(w)' /\ job'[w].ticket = k)
        BY <1>3, <1>4, <2>2, <4>1 DEF Holds
      <4>3. \A u \in Threads : pc'[u] = "push" /\ job'[u].ticket = k => u = t
        BY <1>3, <1>4
      <4>4. w \in Busy(k)' <=> Sends(t, w)'
        BY <1>1, <1>9, <2>2, <4>2, <4>3 DEF Busy
      <4> QED BY <1>1, <1>2, <2>2, <4>4 DEF Sends
    <3>2. Busy(k)' \subseteq Workers
      BY DEF Busy
    <3>3. CASE hits[k].type = "WHOLE"
      <4>1. pos'[t] = 1 /\ \A w \in Workers : w >= 1
        BY <1>1, <1>2, <2>2, <3>3 DEF Workers
      <4>2. Busy(k)' = Workers
        BY <3>1, <3>2, <3>3, <4>1
      <4>3. Cardinality(Workers) = W /\ Affects(hits[k]) = W
        BY <3>3, FS_Interval, Constants DEF Workers, Affects
      <4> QED BY <4>2, <4>3
    <3>4. CASE hits[k].type # "WHOLE"
      <4>1. pos'[t] \in Workers /\ Affects(hits[k]) = 1
        BY <1>1, <2>2, <3>4 DEF Affects
      <4>2. Busy(k)' = {pos'[t]}
        BY <3>1, <3>2, <3>4, <4>1
      <4> QED BY <4>1, <4>2, FS_Singleton
    <3> QED BY <3>3, <3>4
  <2> QED BY <1>1, <2>1, <2>2
<1>13. PICK T \in SUBSET Workers : Cardinality(T) = Affects(hits[k]) /\ Busy(k)' = T
  BY <1>12
<1>14. Counts(k, T, {})'
  BY <1>1, <1>2, <1>6, <1>7, <1>11, <1>13, FS_EmptySet DEF Counts
<1>15. view'[hits[k].id].tasker_affect = Due(hits[k])
  BY <1>1, <1>2 DEF Due
<1>16. {} \in SUBSET T
  OBVIOUS
<1>17. (\E U \in SUBSET Workers : \E D \in SUBSET U : Counts(k, U, D))'
  BY <1>14, <1>16
<1>18. /\ hits'[k] = hits[k] /\ tally'[k] = tally[k]
       /\ view'[hits[k].id].worker_affect = Affects(hits[k])
       /\ view'[hits[k].id].worker_finish = 0 /\ view'[hits[k].id].tasker_finish = 0
  BY <1>1, <1>2
<1>19. view'[hits[k].id].worker_finish # Affects(hits[k]) /\ tally[k].begun # Due(hits[k])
  BY ONLY <1>6, <1>8, <1>18
<1> QED BY <1>6, <1>7, <1>15, <1>17, <1>18, <1>19 DEF Counted

\* A push hands the task to the worker, and with room enough to every worker.
LEMMA CountPush ==
    ASSUME Inv, NEW t \in Threads, Step(t), Push(t), NEW k \in DOMAIN hits, k = job[t].ticket
    PROVE  Counted(k)'
<1>1. PICK p \in Workers : p = pos[t]
  BY PushDoes
<1>2. /\ pc[t] = "push" /\ job[t] \in Task
      /\ \/ pc'[t] = "push" /\ pos'[t] = p + 1 /\ job[t].type = "WHOLE" /\ job'[t] = job[t]
         \/ pc'[t] \in {"wait", "idle"} /\ (job[t].type = "ALONE" \/ p = W)
      /\ \/ list'[p] = Append(list[p], job[t])
         \/ Len(list[p]) >= Room /\ list' = list
      /\ UNCHANGED <<view, hits, tally>>
  BY <1>1, PushDoes
<1>3. \A u \in Threads : u # t => pc'[u] = pc[u] /\ job'[u] = job[u] /\ pos'[u] = pos[u]
  BY OneThread DEF Inv
<1>4. Turns' = Turns
  BY OneThread DEF Inv
<1>5. Counted(k)
  BY <1>2, HoldCounts
<1>6. ASSUME NEW w \in Workers
      PROVE  /\ Holds(w)' <=> Holds(w)
             /\ Holds(w) => pc'[w] = pc[w] /\ job'[w] = job[w] /\ pos'[w] = pos[w]
  BY <1>2, <1>3, Constants DEF Holds
<1>7. ASSUME NEW w \in Workers, NEW r
      PROVE  (BegunAt(k, w, r)' <=> BegunAt(k, w, r)) /\ (EndedAt(k, w, r)' <=> EndedAt(k, w, r))
  BY <1>6 DEF BegunAt, EndedAt
<1>8. Reset(k) => Reset(k)'
  BY <1>2, <1>3 DEF Reset
<1>9. ASSUME NEW w \in Workers
      PROVE  /\ Sends(t, w) <=> w = p \/ Sends(t, w)'
             /\ ~ (w = p /\ Sends(t, w)')
  <2>1. w \in Nat /\ p \in Nat /\ w <= W /\ job[t].type \in {"ALONE", "WHOLE"}
    BY <1>2, Constants DEF Workers, Task
  <2>2. CASE pc'[t] = "push"
    BY <1>1, <1>2, <2>1, <2>2 DEF Sends
  <2>3. CASE pc'[t] \in {"wait", "idle"}
    BY <1>1, <1>2, <2>1, <2>3, Constants DEF Sends
  <2> QED BY <1>2, <2>2, <2>3
<1>10. ASSUME NEW w \in Workers, w # p PROVE w \in Busy(k)' <=> w \in Busy(k)
  <2>1. Queued(k, w)' = Queued(k, w)
    BY <1>1, <1>2, <1>10, QueuedStep DEF Take
  <2>2. ASSUME NEW u \in Threads
        PROVE  (pc'[u] = "push" /\ job'[u].ticket = k /\ Sends(u, w)') <=>
               (pc[u] = "push" /\ job[u].ticket = k /\ Sends(u, w))
    <3>1. CASE u # t
      BY <1>3, <3>1 DEF Sends
    <3>2. CASE u = t
      <4>1. Sends(t, w)' => pc'[t] = "push"
        BY <1>2 DEF Sends
      <4> QED BY <1>2, <1>9, <1>10, <3>2, <4>1
    <3> QED BY <3>1, <3>2
  <2> QED BY <1>6, <2>1, <2>2 DEF Busy
<1>11. p \in Busy(k)
  BY <1>2, <1>9 DEF Busy
<1>12. Roomy => p \in Busy(k)'
  <2> SUFFICES ASSUME Roomy PROVE p \in Busy(k)'
    OBVIOUS
  <2>1. Len(list[p]) < Room
    BY <1>1, <1>2, RoomEnough
  <2>2. list[p] \in Seq(Task) /\ Len(list[p]) \in Nat
    BY ElementOf DEF Inv, Typed
  <2>3. list'[p] = Append(list[p], job[t])
    BY <1>2, <2>1, <2>2, Constants
  <2>4. list'[p] \in Seq(Task) /\ Len(list'[p]) = Len(list[p]) + 1
        /\ list'[p][Len(list[p]) + 1] = job[t]
    BY <1>2, <2>2, <2>3, AppendOf
  <2>5. Len(list[p]) + 1 \in DOMAIN list'[p]
    BY <2>2, <2>4, ElementOf
  <2>6. Queued(k, p)'
    BY <2>4, <2>5 DEF Queued
  <2> QED BY <2>6 DEF Busy
<1>13. Busy(k) \subseteq Workers /\ Busy(k)' \subseteq Workers
  BY DEF Busy
<1>14. Busy(k)' \subseteq Busy(k) /\ (Roomy => Busy(k) \subseteq Busy(k)')
  BY <1>10, <1>11, <1>12, <1>13
<1> QED BY <1>2, <1>4, <1>5, <1>7, <1>8, <1>14, CountMove

\* A worker takes the task from its list into its hands, or drops it.
LEMMA CountTake ==
    ASSUME Inv, NEW t \in Threads, Step(t), Take(t), NEW k \in DOMAIN hits,
           k = list[t][1].ticket, Counting(k)'
    PROVE  Counted(k)'
<1>1. /\ t \in Workers /\ pc[t] = "idle" /\ 1 \in DOMAIN list[t]
      /\ \A w \in Workers : w # t => list'[w] = list[w]
      /\ \A n \in DOMAIN list'[t] : n + 1 \in DOMAIN list[t] /\ list'[t][n] = list[t][n + 1]
      /\ \/ /\ list[t][1].func /\ pc'[t] = "begin" /\ job'[t] = list[t][1]
            /\ pos'[t] = IF list[t][1].type = "WHOLE" THEN Turns ELSE 1
         \/ ~ list[t][1].func /\ pc'[t] = "idle"
      /\ UNCHANGED <<view, hits, tally>>
  BY TakeDoes
<1>2. hits[k] = list[t][1] /\ Active(k)
  BY <1>1, ActiveQueued
<1>3. \A u \in Threads : u # t => pc'[u] = pc[u] /\ job'[u] = job[u] /\ pos'[u] = pos[u]
  BY OneThread DEF Inv
<1>4. Turns' = Turns
  BY OneThread DEF Inv
<1>5. Counted(k)
  <2>1. \A u \in Threads : pc[u] \in {"fill", "release"} => job[u].ticket # k
    BY <1>1, <1>3 DEF Counting
  <2> QED BY <1>2, <2>1 DEF Counting, Inv, CountInv
<1>6. ASSUME NEW w \in Workers, w # t
      PROVE  /\ Holds(w)' <=> Holds(w)
             /\ pc'[w] = pc[w] /\ job'[w] = job[w] /\ pos'[w] = pos[w]
  BY <1>3, <1>6, Constants DEF Holds
<1>7. ASSUME NEW w \in Workers, NEW r \in 1 .. Runs(hits[k])
      PROVE  (BegunAt(k, w, r)' <=> BegunAt(k, w, r)) /\ (EndedAt(k, w, r)' <=> EndedAt(k, w, r))
  <2>1. CASE w # t
    BY <1>6, <2>1 DEF BegunAt, EndedAt
  <2>2. CASE w = t
    <3>1. ~ BegunAt(k, t, r) /\ ~ EndedAt(k, t, r)
      BY <1>1 DEF BegunAt, EndedAt, Holds
    <3>2. CASE pc'[t] = "idle"
      BY <2>2, <3>1, <3>2 DEF BegunAt, EndedAt, Holds
    <3>3. CASE pc'[t] = "begin"
      <4>1. pos'[t] = Runs(hits[k])
        BY <1>1, <1>2, <3>3 DEF Runs
      <4>2. Turns \in Nat
        BY Constants DEF Turns
      <4>3. ~ (r > pos'[t])
        BY <4>1, <4>2 DEF Runs
      <4> QED BY <2>2, <3>1, <3>3, <4>3 DEF BegunAt, EndedAt
    <3> QED BY <1>1, <3>2, <3>3
  <2> QED BY <2>1, <2>2
<1>8. Reset(k) => Reset(k)'
  BY <1>1, <1>3 DEF Reset
<1>9. ASSUME NEW w \in Workers, NEW u \in Threads
      PROVE  (pc'[u] = "push" /\ job'[u].ticket = k /\ Sends(u, w)') <=>
             (pc[u] = "push" /\ job[u].ticket = k /\ Sends(u, w))
  <2>1. CASE u # t
    BY <1>3, <2>1 DEF Sends
  <2>2. CASE u = t
    BY <1>1, <2>2
  <2> QED BY <2>1, <2>2
<1>10. ASSUME NEW w \in Workers, w # t PROVE w \in Busy(k)' <=> w \in Busy(k)
  <2>1. Queued(k, w)' = Queued(k, w)
    BY <1>1, <1>10 DEF Queued
  <2> QED BY <1>6, <1>9, <1>10, <2>1 DEF Busy
<1>11. t \in Busy(k)
  <2>1. Queued(k, t)
    BY <1>1 DEF Queued
  <2> QED BY <1>1, <2>1 DEF Busy
<1>12. hits[k].func => t \in Busy(k)'
  BY <1>1, <1>2 DEF Busy, Holds
<1>13. Busy(k) \subseteq Workers /\ Busy(k)' \subseteq Workers
  BY DEF Busy
<1>14. Busy(k)' \subseteq Busy(k) /\ (Roomy /\ hits[k].func => Busy(k) \subseteq Busy(k)')
  BY <1>10, <1>11, <1>12, <1>13
<1> QED BY <1>1, <1>4, <1>5, <1>7, <1>8, <1>14, CountMove

\* The worker that has a task goes on with it, or is the next to have finished.
LEMMA HoldMoves ==
    ASSUME Inv, NEW t \in Threads, Step(t), Come(t) \/ Run(t) \/ OverMax(t) \/ OverAdd(t),
           NEW k \in DOMAIN hits, k = job[t].ticket
    PROVE  /\ t \in Workers /\ Holds(t) /\ job[t] = hits[k] /\ hits[k] \in Task /\ hits' = hits
           /\ k \in Tickets /\ hits[k].id \in Ids /\ Counted(k) /\ t \in Busy(k)
           /\ ~ OverAdd(t) => Holds(t)' /\ job' = job /\ Busy(k)' = Busy(k)
           /\ OverAdd(t) => ~ Holds(t)' /\ Busy(k)' = Busy(k) \ {t}
           /\ \A w \in Workers : w # t => \A r :
                  (BegunAt(k, w, r)' <=> BegunAt(k, w, r)) /\ (EndedAt(k, w, r)' <=> EndedAt(k, w, r))
           /\ Reset(k) => Reset(k)'
<1>0. DOMAIN pc = Threads /\ DOMAIN job = Threads
  BY DEF Inv, Typed
<1>1. /\ pc[t] \in {"begin", "run", "over", "add"} /\ list' = list /\ hits' = hits
      /\ pc'[t] # "push"
  BY <1>0 DEF Come, Run, OverMax, OverAdd, Go
<1>2. Holds(t) /\ pc[t] # "push"
  BY <1>1 DEF Holds
<1>3. /\ t \in Workers /\ job[t] = hits[k] /\ hits[k] \in Task /\ k \in Tickets
      /\ hits[k].id \in Ids /\ view[job[t].id].cntl = "inuse"
  BY <1>1, <1>2, JobOf, ActiveJob DEF Inv, PlaceInv, PlaceOf
<1>4. Counted(k)
  BY <1>2, HoldCounts
<1>5. \A u \in Threads : u # t => pc'[u] = pc[u] /\ job'[u] = job[u] /\ pos'[u] = pos[u]
  BY OneThread DEF Inv
<1>6. ASSUME NEW w \in Workers, w # t
      PROVE  /\ Holds(w)' <=> Holds(w)
             /\ pc'[w] = pc[w] /\ job'[w] = job[w] /\ pos'[w] = pos[w]
  BY <1>5, <1>6, Constants DEF Holds
<1>7. ASSUME NEW w \in Workers, w # t, NEW r
      PROVE  (BegunAt(k, w, r)' <=> BegunAt(k, w, r)) /\ (EndedAt(k, w, r)' <=> EndedAt(k, w, r))
  BY <1>6, <1>7 DEF BegunAt, EndedAt
<1>8. t \in Busy(k)
  BY <1>2, <1>3 DEF Busy
<1>9. ASSUME NEW w \in Workers, NEW u \in Threads
      PROVE  (pc'[u] = "push" /\ job'[u].ticket = k /\ Sends(u, w)') <=>
             (pc[u] = "push" /\ job[u].ticket = k /\ Sends(u, w))
  <2>1. CASE u # t
    BY <1>5, <2>1 DEF Sends
  <2>2. CASE u = t
    BY <1>1, <1>2, <2>2
  <2> QED BY <2>1, <2>2
<1>10. ASSUME NEW w \in Workers, w # t PROVE w \in Busy(k)' <=> w \in Busy(k)
  BY <1>1, <1>6, <1>9, <1>10 DEF Busy, Queued
<1>11. Busy(k) \subseteq Workers /\ Busy(k)' \subseteq Workers
  BY DEF Busy
<1>12. ASSUME ~ OverAdd(t) PROVE Holds(t)' /\ job' = job /\ Busy(k)' = Busy(k)
  <2>1. Holds(t)' /\ job' = job
    BY <1>0, <1>3, <1>12 DEF Come, Run, OverMax, Go, Holds
  <2>2. t \in Busy(k)'
    BY <1>3, <2>1 DEF Busy
  <2> QED BY <1>8, <1>10, <1>11, <2>1, <2>2
<1>13. ASSUME OverAdd(t) PROVE ~ Holds(t)' /\ Busy(k)' = Busy(k) \ {t}
  <2>1. ~ Holds(t)'
    BY <1>0, <1>13 DEF OverAdd, Go, Holds
  <2>2. ~ Queued(k, t)'
    BY <1>1, <1>2, <1>3 DEF Queued, Inv, ApartInv, HoldApart
  <2>3. \A u \in Threads : ~ (pc[u] = "push" /\ job[u].ticket = k /\ Sends(u, t))
    BY <1>2, <1>3 DEF Inv, ApartInv, SendApart
  <2>4. t \notin Busy(k)'
    BY <1>3, <1>9, <2>1, <2>2, <2>3 DEF Busy
  <2> QED BY <1>8, <1>10, <1>11, <2>1, <2>4
<1>14. Reset(k) => Reset(k)'
  BY <1>1, <1>5 DEF Reset
<1> QED BY <1>1, <1>2, <1>3, <1>4, <1>7, <1>8, <1>12, <1>13, <1>14

\* A run begins: smart_task_come counts it, and the last of them is told so.
LEMMA CountCome ==
    ASSUME Inv, NEW t \in Threads, Step(t), Come(t), NEW k \in DOMAIN hits, k = job[t].ticket
    PROVE  Counted(k)'
<1>1. /\ t \in Workers /\ Holds(t) /\ job[t] = hits[k] /\ hits[k] \in Task /\ hits' = hits
      /\ k \in Tickets /\ hits[k].id \in Ids /\ Counted(k) /\ t \in Busy(k)
      /\ Holds(t)' /\ job' = job /\ Busy(k)' = Busy(k)
      /\ \A w \in Workers : w # t => \A r :
             (BegunAt(k, w, r)' <=> BegunAt(k, w, r)) /\ (EndedAt(k, w, r)' <=> EndedAt(k, w, r))
      /\ Reset(k) => Reset(k)'
  <2>1. ~ OverAdd(t)
    BY DEF Come, OverAdd
  <2> QED BY <2>1, HoldMoves
<1>2. PICK i \in Ids : i = hits[k].id
  BY <1>1
<1>3. PICK e : e = view[i]
  OBVIOUS
<1>4. PICK y : y = tally[k]
  OBVIOUS
<1>5. /\ e \in [cntl : {"unuse", "inuse"}, worker_finish : Nat, worker_affect : Nat,
                tasker_finish : Nat, tasker_affect : Nat]
      /\ y \in [begun : Nat, ended : Nat, last : Nat, over : Nat]
      /\ DOMAIN view = Ids /\ DOMAIN tally = Tickets /\ DOMAIN pc = Threads
  BY <1>1, <1>3, <1>4 DEF Inv, Typed
<1>6. PICK last : last = IF e.tasker_finish + 1 = e.tasker_affect THEN 1 ELSE 0
  OBVIOUS
<1>7. /\ pc[t] = "begin" /\ pos' = pos
      /\ view' = [view EXCEPT ![i].tasker_finish = e.tasker_finish + 1]
      /\ tally' = [tally EXCEPT ![k].begun = @ + 1, ![k].last = @ + last]
      /\ pc'[t] = "run"
  BY <1>1, <1>2, <1>3, <1>5, <1>6 DEF Come, Go
<1>8. /\ view'[i].worker_affect = e.worker_affect /\ view'[i].worker_finish = e.worker_finish
      /\ view'[i].tasker_affect = e.tasker_affect
      /\ view'[i].tasker_finish = e.tasker_finish + 1
  BY <1>3, <1>5, <1>7
<1>9. /\ tally'[k].begun = y.begun + 1 /\ tally'[k].last = y.last + last
      /\ tally'[k].ended = y.ended
  BY <1>1, <1>4, <1>5, <1>7
<1>10. Turns' = Turns
  BY OneThread DEF Inv
<1>11. /\ Runs(hits[k])' = Runs(hits[k]) /\ Affects(hits[k])' = Affects(hits[k])
       /\ Due(hits[k])' = Due(hits[k])
  BY <1>1, <1>10 DEF Runs, Affects, Due
<1>12. PICK r \in 1 .. Runs(hits[k]) : r = pos[t]
  BY <1>1, <1>7 DEF Inv, PlaceInv, PlaceOf
<1>13. PICK T \in SUBSET Workers : \E D \in SUBSET T : Counts(k, T, D)
  BY <1>1 DEF Counted
<1>14. PICK D \in SUBSET T : Counts(k, T, D)
  BY <1>13
<1>15. /\ Cardinality(T) = Affects(hits[k]) /\ Busy(k) \subseteq T \ D
       /\ y.begun = Cardinality(Begun(k, D)) /\ y.ended = Cardinality(Ended(k, D))
       /\ t \in T /\ t \notin D
  BY <1>1, <1>4, <1>14 DEF Counts
<1>16. /\ Begun(k, D) \subseteq T \X (1 .. Runs(hits[k])) /\ IsFiniteSet(Begun(k, D))
       /\ Runs(hits[k]) \in Nat /\ Due(hits[k]) = Affects(hits[k]) * Runs(hits[k])
       /\ Due(hits[k]) \in Nat
  BY <1>1, <1>15, RunSets, DueRuns
<1>17. <<t, r>> \notin Begun(k, D)
  <2>1. ~ BegunAt(k, t, r)
    BY <1>7, <1>12 DEF BegunAt
  <2> QED BY <1>15, <2>1 DEF Begun
<1>18. Begun(k, D)' = Begun(k, D) \cup {<<t, r>>} /\ Ended(k, D)' = Ended(k, D)
  <2>1. ASSUME NEW w \in Workers, NEW s \in 1 .. Runs(hits[k])
        PROVE  /\ BegunAt(k, w, s)' <=> BegunAt(k, w, s) \/ (w = t /\ s = r)
               /\ EndedAt(k, w, s)' <=> EndedAt(k, w, s)
    <3>1. CASE w # t
      BY <1>1, <3>1
    <3>2. CASE w = t
      BY <1>1, <1>7, <1>12, <3>2 DEF BegunAt, EndedAt
    <3> QED BY <3>1, <3>2
  <2>2. ASSUME NEW p \in Workers \X (1 .. Runs(hits[k]))
        PROVE  /\ p \in Begun(k, D)' <=> p \in Begun(k, D) \/ p = <<t, r>>
               /\ p \in Ended(k, D)' <=> p \in Ended(k, D)
    <3>1. /\ p[1] \in Workers /\ p[2] \in 1 .. Runs(hits[k])
          /\ p = <<t, r>> <=> p[1] = t /\ p[2] = r
      OBVIOUS
    <3> QED BY <1>11, <2>1, <3>1 DEF Begun, Ended
  <2>3. /\ Begun(k, D) \subseteq Workers \X (1 .. Runs(hits[k]))
        /\ Ended(k, D) \subseteq Workers \X (1 .. Runs(hits[k]))
        /\ Begun(k, D)' \subseteq Workers \X (1 .. Runs(hits[k]))
        /\ Ended(k, D)' \subseteq Workers \X (1 .. Runs(hits[k]))
        /\ <<t, r>> \in Workers \X (1 .. Runs(hits[k]))
    BY <1>1, <1>11 DEF Begun, Ended
  <2> QED BY <2>2, <2>3
<1>19. Cardinality(Begun(k, D) \cup {<<t, r>>}) = y.begun + 1
  <2>1. PICK B : B = Begun(k, D)
    OBVIOUS
  <2>2. Cardinality(B \cup {<<t, r>>}) = Cardinality(B) + 1
    BY <1>16, <1>17, <2>1, FS_AddElement
  <2> QED BY <1>15, <2>1, <2>2
<1>20. y.begun + 1 <= Due(hits[k])
  <2>1. /\ IsFiniteSet(T \X (1 .. Runs(hits[k])))
        /\ Cardinality(T \X (1 .. Runs(hits[k]))) = Cardinality(T) * Runs(hits[k])
    BY <1>16, WorkerSets
  <2>2. Begun(k, D) \cup {<<t, r>>} \in SUBSET (T \X (1 .. Runs(hits[k])))
    BY <1>15, <1>16
  <2>3. Cardinality(Begun(k, D) \cup {<<t, r>>}) <= Cardinality(T \X (1 .. Runs(hits[k])))
    BY <2>1, <2>2, FS_Subset
  <2> QED BY <1>15, <1>16, <1>19, <2>1, <2>3
<1>21. Counts(k, T, D)'
  BY <1>1, <1>2, <1>3, <1>4, <1>8, <1>9, <1>11, <1>14, <1>15, <1>18, <1>19 DEF Counts, Roomy
<1>22. /\ e.worker_affect = Affects(hits[k]) /\ e.tasker_affect = Due(hits[k])
       /\ e.tasker_finish = y.begun
       /\ y.last = IF y.begun = Due(hits[k]) THEN 1 ELSE 0
       /\ e.worker_finish = Affects(hits[k]) => Reset(k)
  BY <1>1, <1>2, <1>3, <1>4 DEF Counted
<1>23. y.last + last = IF y.begun + 1 = Due(hits[k]) THEN 1 ELSE 0
  BY <1>5, <1>6, <1>16, <1>20, <1>22
<1> QED BY <1>1, <1>2, <1>8, <1>9, <1>11, <1>21, <1>22, <1>23 DEF Counted

\* A run ends.
LEMMA CountRun ==
    ASSUME Inv, NEW t \in Threads, Step(t), Run(t), NEW k \in DOMAIN hits, k = job[t].ticket
    PROVE  Counted(k)'
<1>1. /\ t \in Workers /\ Holds(t) /\ job[t] = hits[k] /\ hits[k] \in Task /\ hits' = hits
      /\ k \in Tickets /\ hits[k].id \in Ids /\ Counted(k) /\ t \in Busy(k)
      /\ Holds(t)' /\ job' = job /\ Busy(k)' = Busy(k)
      /\ \A w \in Workers : w # t => \A r :
             (BegunAt(k, w, r)' <=> BegunAt(k, w, r)) /\ (EndedAt(k, w, r)' <=> EndedAt(k, w, r))
      /\ Reset(k) => Reset(k)'
  <2>1. ~ OverAdd(t)
    BY DEF Run, OverAdd
  <2> QED BY <2>1, HoldMoves
<1>2. PICK y : y = tally[k]
  OBVIOUS
<1>3. /\ y \in [begun : Nat, ended : Nat, last : Nat, over : Nat]
      /\ DOMAIN tally = Tickets /\ DOMAIN pc = Threads /\ DOMAIN pos = Threads
  BY <1>1, <1>2 DEF Inv, Typed
<1>4. /\ pc[t] = "run" /\ pos'[t] = pos[t] - 1 /\ view' = view /\ pc'[t] # "run"
      /\ tally' = [tally EXCEPT ![k].ended = @ + 1]
  BY <1>3 DEF Run, Go, Count
<1>5. /\ tally'[k].begun = y.begun /\ tally'[k].last = y.last /\ tally'[k].ended = y.ended + 1
  BY <1>1, <1>2, <1>3, <1>4
<1>6. Turns' = Turns
  BY OneThread DEF Inv
<1>7. /\ Runs(hits[k])' = Runs(hits[k]) /\ Affects(hits[k])' = Affects(hits[k])
      /\ Due(hits[k])' = Due(hits[k])
  BY <1>1, <1>6 DEF Runs, Affects, Due
<1>8. PICK r \in 1 .. Runs(hits[k]) : r = pos[t]
  BY <1>1, <1>4 DEF Inv, PlaceInv, PlaceOf
<1>9. PICK T \in SUBSET Workers : \E D \in SUBSET T : Counts(k, T, D)
  BY <1>1 DEF Counted
<1>10. PICK D \in SUBSET T : Counts(k, T, D)
  BY <1>9
<1>11. /\ Busy(k) \subseteq T \ D /\ y.ended = Cardinality(Ended(k, D)) /\ t \notin D
  BY <1>1, <1>2, <1>10 DEF Counts
<1>12. IsFiniteSet(Ended(k, D)) /\ Runs(hits[k]) \in Nat
  BY <1>1, <1>11, RunSets, DueRuns
<1>13. <<t, r>> \notin Ended(k, D)
  <2>1. ~ EndedAt(k, t, r)
    BY <1>8 DEF EndedAt
  <2> QED BY <1>11, <2>1 DEF Ended
<1>14. Ended(k, D)' = Ended(k, D) \cup {<<t, r>>} /\ Begun(k, D)' = Begun(k, D)
  <2>1. ASSUME NEW w \in Workers, NEW s \in 1 .. Runs(hits[k])
        PROVE  /\ EndedAt(k, w, s)' <=> EndedAt(k, w, s) \/ (w = t /\ s = r)
               /\ BegunAt(k, w, s)' <=> BegunAt(k, w, s)
    <3>1. CASE w # t
      BY <1>1, <3>1
    <3>2. CASE w = t
      <4>1. s \in Nat /\ r \in Nat /\ pos'[t] = r - 1 /\ pos[t] = r
        BY <1>4, <1>8, <1>12
      <4>2. s > pos'[t] <=> s > r \/ s = r
        BY <4>1
      <4>3. /\ EndedAt(k, t, s) <=> s > r
            /\ BegunAt(k, t, s) <=> s > r \/ s = r
        BY <1>1, <1>4, <4>1 DEF BegunAt, EndedAt
      <4>4. /\ EndedAt(k, t, s)' <=> s > r \/ s = r
            /\ BegunAt(k, t, s)' <=> s > r \/ s = r
        BY <1>1, <1>4, <4>2 DEF BegunAt, EndedAt
      <4> QED BY <3>2, <4>1, <4>3, <4>4
    <3> QED BY <3>1, <3>2
  <2>2. ASSUME NEW p \in Workers \X (1 .. Runs(hits[k]))
        PROVE  /\ p \in Ended(k, D)' <=> p \in Ended(k, D) \/ p = <<t, r>>
               /\ p \in Begun(k, D)' <=> p \in Begun(k, D)
    <3>1. /\ p[1] \in Workers /\ p[2] \in 1 .. Runs(hits[k])
          /\ p = <<t, r>> <=> p[1] = t /\ p[2] = r
      OBVIOUS
    <3> QED BY <1>7, <2>1, <3>1 DEF Begun, Ended
  <2>3. /\ Begun(k, D) \subseteq Workers \X (1 .. Runs(hits[k]))
        /\ Ended(k, D) \subseteq Workers \X (1 .. Runs(hits[k]))
        /\ Begun(k, D)' \subseteq Workers \X (1 .. Runs(hits[k]))
        /\ Ended(k, D)' \subseteq Workers \X (1 .. Runs(hits[k]))
        /\ <<t, r>> \in Workers \X (1 .. Runs(hits[k]))
    BY <1>1, <1>7 DEF Begun, Ended
  <2> QED BY <2>2, <2>3
<1>15. Cardinality(Ended(k, D) \cup {<<t, r>>}) = y.ended + 1
  <2>1. PICK B : B = Ended(k, D)
    OBVIOUS
  <2>2. Cardinality(B \cup {<<t, r>>}) = Cardinality(B) + 1
    BY <1>12, <1>13, <2>1, FS_AddElement
  <2> QED BY <1>11, <2>1, <2>2
<1>16. Counts(k, T, D)'
  BY <1>1, <1>2, <1>4, <1>5, <1>7, <1>10, <1>14, <1>15 DEF Counts, Roomy
<1> QED BY <1>1, <1>2, <1>4, <1>5, <1>7, <1>16 DEF Counted

\* The reading of max counts nothing.
LEMMA CountMax ==
    ASSUME Inv, NEW t \in Threads, Step(t), OverMax(t), NEW k \in DOMAIN hits, k = job[t].ticket
    PROVE  Counted(k)'
<1>1. /\ t \in Workers /\ Holds(t) /\ hits' = hits
      /\ Counted(k) /\ Holds(t)' /\ job' = job /\ Busy(k)' = Busy(k)
      /\ \A w \in Workers : w # t => \A r :
             (BegunAt(k, w, r)' <=> BegunAt(k, w, r)) /\ (EndedAt(k, w, r)' <=> EndedAt(k, w, r))
      /\ Reset(k) => Reset(k)'
  <2>1. ~ OverAdd(t)
    BY DEF OverMax, OverAdd
  <2> QED BY <2>1, HoldMoves
<1>2. /\ pc[t] = "over" /\ pc'[t] # "run" /\ pos' = pos /\ view' = view /\ tally' = tally
  <2>1. DOMAIN pc = Threads
    BY DEF Inv, Typed
  <2> QED BY <2>1 DEF OverMax, Go
<1>3. Turns' = Turns
  BY OneThread DEF Inv
<1>4. ASSUME NEW w \in Workers, NEW r
      PROVE  (BegunAt(k, w, r)' <=> BegunAt(k, w, r)) /\ (EndedAt(k, w, r)' <=> EndedAt(k, w, r))
  <2>1. CASE w # t
    BY <1>1, <2>1
  <2>2. CASE w = t
    BY <1>1, <1>2, <2>2 DEF BegunAt, EndedAt
  <2> QED BY <2>1, <2>2
<1> QED BY <1>1, <1>2, <1>3, <1>4, CountMove

\* A worker has finished, and the one that completes the count will reset the entry.
LEMMA CountAdd ==
    ASSUME Inv, NEW t \in Threads, Step(t), OverAdd(t), NEW k \in DOMAIN hits, k = job[t].ticket
    PROVE  /\ Counted(k)'
           /\ pc'[t] = "reset" => view'[job[t].id].worker_finish = Affects(job[t]) /\ job'[t] = job[t]
<1>1. /\ t \in Workers /\ Holds(t) /\ job[t] = hits[k] /\ hits[k] \in Task /\ hits' = hits
      /\ k \in Tickets /\ hits[k].id \in Ids /\ Counted(k) /\ t \in Busy(k)
      /\ ~ Holds(t)' /\ Busy(k)' = Busy(k) \ {t}
      /\ \A w \in Workers : w # t => \A r :
             (BegunAt(k, w, r)' <=> BegunAt(k, w, r)) /\ (EndedAt(k, w, r)' <=> EndedAt(k, w, r))
      /\ Reset(k) => Reset(k)'
  BY HoldMoves
<1>2. PICK i \in Ids : i = hits[k].id
  BY <1>1
<1>3. PICK e : e = view[i]
  OBVIOUS
<1>4. /\ e \in [cntl : {"unuse", "inuse"}, worker_finish : Nat, worker_affect : Nat,
                tasker_finish : Nat, tasker_affect : Nat]
      /\ DOMAIN view = Ids /\ DOMAIN pc = Threads /\ DOMAIN job = Threads
  BY <1>1, <1>3 DEF Inv, Typed
<1>5. /\ pc[t] = "add" /\ tally' = tally
      /\ view' = [view EXCEPT ![i].worker_finish = e.worker_finish + 1]
      /\ \/ pc'[t] = "reset" /\ job' = job /\ e.worker_finish = max[t] - 1
         \/ pc'[t] = "idle" /\ ~ (max[t] > 0 /\ e.worker_finish = max[t] - 1)
  BY <1>1, <1>2, <1>3, <1>4 DEF OverAdd, Go
<1>6. /\ view'[i].worker_affect = e.worker_affect /\ view'[i].tasker_finish = e.tasker_finish
      /\ view'[i].tasker_affect = e.tasker_affect
      /\ view'[i].worker_finish = e.worker_finish + 1
  BY <1>3, <1>4, <1>5
<1>7. Turns' = Turns
  BY OneThread DEF Inv
<1>8. /\ Runs(hits[k])' = Runs(hits[k]) /\ Affects(hits[k])' = Affects(hits[k])
      /\ Due(hits[k])' = Due(hits[k]) /\ Affects(hits[k]) \in Nat /\ Affects(hits[k]) > 0
      /\ Runs(hits[k]) \in Nat
  BY <1>1, <1>7, DueRuns DEF Runs, Affects, Due
<1>9. max[t] = Affects(hits[k]) /\ pos[t] = 0
  BY <1>1, <1>5 DEF Inv, PlaceInv, PlaceOf
<1>10. PICK T \in SUBSET Workers : \E D \in SUBSET T : Counts(k, T, D)
  BY <1>1 DEF Counted
<1>11. PICK D \in SUBSET T : Counts(k, T, D)
  BY <1>10
<1>12. PICK E : E = D \cup {t}
  OBVIOUS
<1>13. /\ Busy(k) \subseteq T \ D /\ e.worker_finish = Cardinality(D) /\ t \in T /\ t \notin D
  BY <1>1, <1>2, <1>3, <1>11 DEF Counts
<1>14. E \in SUBSET T /\ Cardinality(E) = e.worker_finish + 1
  <2>1. D \in SUBSET Workers
    OBVIOUS
  <2>2. IsFiniteSet(D)
    BY <1>8, <2>1, WorkerSets
  <2>3. Cardinality(D \cup {t}) = Cardinality(D) + 1
    BY <1>13, <2>2, FS_AddElement
  <2> QED BY <1>12, <1>13, <2>3
<1>15. Begun(k, E)' = Begun(k, D) /\ Ended(k, E)' = Ended(k, D)
  <2>1. ASSUME NEW p \in Workers \X (1 .. Runs(hits[k]))
        PROVE  /\ p \in Begun(k, E)' <=> p \in Begun(k, D)
               /\ p \in Ended(k, E)' <=> p \in Ended(k, D)
    <3>1. p[1] \in Workers /\ p[2] \in 1 .. Runs(hits[k])
      OBVIOUS
    <3>2. CASE p[1] # t
      BY <1>1, <1>8, <1>12, <3>1, <3>2 DEF Begun, Ended
    <3>3. CASE p[1] = t
      <4>1. p[2] > pos[t]
        BY <1>8, <1>9, <3>1
      <4>2. BegunAt(k, t, p[2]) /\ EndedAt(k, t, p[2])
        BY <1>1, <4>1 DEF BegunAt, EndedAt
      <4> QED BY <1>8, <1>12, <3>1, <3>3, <4>2 DEF Begun, Ended
    <3> QED BY <3>2, <3>3
  <2>2. /\ Begun(k, D) \subseteq Workers \X (1 .. Runs(hits[k]))
        /\ Ended(k, D) \subseteq Workers \X (1 .. Runs(hits[k]))
        /\ Begun(k, E)' \subseteq Workers \X (1 .. Runs(hits[k]))
        /\ Ended(k, E)' \subseteq Workers \X (1 .. Runs(hits[k]))
    BY <1>8 DEF Begun, Ended
  <2> QED BY <2>1, <2>2
<1>16. Counts(k, T, E)'
  <2>1. Busy(k)' \subseteq T \ E
    BY <1>1, <1>12, <1>13
  <2>2. Roomy /\ hits[k].func => T \subseteq E \cup Busy(k)'
    BY <1>1, <1>11, <1>12 DEF Counts
  <2> QED BY <1>1, <1>2, <1>5, <1>6, <1>8, <1>11, <1>14, <1>15, <2>1, <2>2 DEF Counts, Roomy
<1>17. view'[i].worker_finish = Affects(hits[k]) => pc'[t] = "reset" /\ job' = job
  BY <1>4, <1>5, <1>6, <1>8, <1>9
<1>18. view'[i].worker_finish = Affects(hits[k]) => Reset(k)'
  BY <1>17 DEF Reset
<1>19. Counted(k)'
  BY <1>1, <1>2, <1>3, <1>5, <1>6, <1>8, <1>14, <1>16, <1>18 DEF Counted
<1>20. pc'[t] = "reset" => view'[i].worker_finish = Affects(hits[k]) /\ job'[t] = job[t]
  BY <1>4, <1>5, <1>6, <1>8, <1>9
<1> QED BY <1>1, <1>2, <1>19, <1>20

\* When the last worker resets the entry every run has begun and ended.
LEMMA CountReset ==
    ASSUME Inv, NEW t \in Threads, pc[t] = "reset"
    PROVE  LET y == tally[job[t].ticket]
           IN  y.last = 1 /\ y.begun = Due(job[t]) /\ y.ended = Due(job[t])
<1>1. PICK k \in DOMAIN hits : k = job[t].ticket /\ job[t] = hits[k] /\ hits[k] \in Task
  BY JobOf DEF Inv
<1>2. Counted(k) /\ view[hits[k].id].worker_finish = Affects(hits[k])
  BY <1>1, HoldCounts DEF Inv, CountInv
<1>3. PICK T \in SUBSET Workers : \E D \in SUBSET T : Counts(k, T, D)
  BY <1>2 DEF Counted
<1>4. PICK D \in SUBSET T : Counts(k, T, D)
  BY <1>3
<1>5. /\ Cardinality(T) = Cardinality(D) /\ Cardinality(T) = Affects(hits[k])
      /\ Busy(k) \subseteq T \ D
      /\ tally[k].begun = Cardinality(Begun(k, D)) /\ tally[k].ended = Cardinality(Ended(k, D))
  BY <1>2, <1>4 DEF Counts
<1>6. /\ Runs(hits[k]) \in Nat /\ Due(hits[k]) = Affects(hits[k]) * Runs(hits[k])
  BY <1>1, DueRuns
<1>7. D = T
  <2>1. IsFiniteSet(T)
    BY <1>6, WorkerSets
  <2> QED BY <1>5, <2>1, FS_Subset
<1>8. Begun(k, D) \subseteq T \X (1 .. Runs(hits[k])) /\ Ended(k, D) \subseteq Begun(k, D)
  BY <1>1, <1>5, RunSets
<1>9. T \X (1 .. Runs(hits[k])) \subseteq Ended(k, D)
  BY <1>7 DEF Ended
<1>10. Begun(k, D) = T \X (1 .. Runs(hits[k])) /\ Ended(k, D) = T \X (1 .. Runs(hits[k]))
  BY <1>8, <1>9
<1>11. Cardinality(T \X (1 .. Runs(hits[k]))) = Cardinality(T) * Runs(hits[k])
  BY <1>6, WorkerSets
<1>12. tally[k].begun = Due(hits[k]) /\ tally[k].ended = Due(hits[k])
  BY <1>5, <1>6, <1>10, <1>11
<1>13. tally[k].last = 1
  BY <1>2, <1>12 DEF Counted
<1> QED BY <1>1, <1>12, <1>13

\* Tasks the step is not about.
LEMMA OtherCounts ==
    ASSUME Inv, NEW t \in Threads, Step(t) \/ Hits(t), NEW k \in DOMAIN hits,
           pc[t] = "idle" \/ job[t].ticket # k, ~ (Take(t) /\ list[t][1].ticket = k),
           Counting(k)'
    PROVE  Counted(k)'
<1>1. /\ k \in DOMAIN hits' /\ hits'[k] = hits[k]
      /\ pc'[t] = "idle" \/ job'[t].ticket # k
  <2>1. CASE Hits(t)
    <3>1. PICK task \in Task :
             /\ task.ticket = Len(hits) + 1 /\ hits' = Append(hits, task)
             /\ job' = [job EXCEPT ![t] = task]
      BY <2>1, HitTask DEF Inv
    <3>2. job'[t] = task
      BY <3>1 DEF Inv, Typed
    <3> QED BY <3>1, <3>2, HitsGrow DEF Inv
  <2>2. CASE RgstManage(t) /\ view[pos[t]].cntl = "unuse"
    <3>1. job'[t].ticket # k
      BY <2>2, FoundDoes
    <3> QED BY <2>2, <3>1, FoundDoes
  <2>3. CASE Step(t) /\ ~ (RgstManage(t) /\ view[pos[t]].cntl = "unuse")
    BY <2>3, JobStep
  <2> QED BY <2>1, <2>2, <2>3
<1>2. k \in Tickets
  BY HitOf DEF Inv
<1>3. tally'[k] = tally[k]
  BY <1>2, TallyStep
<1>4. \A w \in Workers : Queued(k, w)' = Queued(k, w)
  BY QueuedStep DEF Push
<1> QED BY <1>1, <1>3, <1>4, CountFrame

\* The task the step is about.
LEMMA OwnCounts ==
    ASSUME Inv, NEW t \in Threads, Step(t), pc[t] # "idle",
           NEW k \in DOMAIN hits, k = job[t].ticket, Counting(k)'
    PROVE  Counted(k)'
<1>0. DOMAIN pc = Threads /\ DOMAIN job = Threads
  BY DEF Inv, Typed
<1>1. CASE RgstRequest(t) \/ (RgstManage(t) /\ view[pos[t]].cntl = "unuse")
  <2>1. pc'[t] = "fill" /\ job'[t].ticket = k
    BY <1>1, RequestDoes, FoundDoes
  <2> QED BY <2>1 DEF Counting
<1>2. CASE RgstManage(t) /\ view[pos[t]].cntl # "unuse"
  <2>1. pc'[t] = "scan" /\ job'[t].ticket = k
    BY <1>2, NotFoundDoes
  <2> QED BY <2>1 DEF Counting, Active, Scanned
<1>3. CASE Fill(t)
  BY <1>3, CountFill
<1>4. CASE Push(t)
  BY <1>4, CountPush
<1>5. CASE Return(t)
  <2>1. /\ pc[t] = "wait" /\ pc'[t] = "idle" /\ hits' = hits /\ tally' = tally
    BY <1>0, <1>5 DEF Return, Go
  <2>2. \A w \in Workers : Queued(k, w)' = Queued(k, w)
    BY <1>5 DEF Return, Queued
  <2> QED BY <2>1, <2>2, CountFrame
<1>6. CASE Take(t)
  BY <1>6 DEF Take
<1>7. CASE Come(t)
  BY <1>7, CountCome
<1>8. CASE Run(t)
  BY <1>8, CountRun
<1>9. CASE OverMax(t)
  BY <1>9, CountMax
<1>10. CASE OverAdd(t)
  BY <1>10, CountAdd
<1>11. CASE OverReset(t)
  <2>1. pc'[t] = "release" /\ job'[t].ticket = k
    BY <1>0, <1>11 DEF OverReset, Go
  <2> QED BY <2>1 DEF Counting
<1>12. CASE OverRelease(t)
  <2>1. tally'[k] = [tally[k] EXCEPT !.over = 1]
        /\ tally[k] \in [begun : Nat, ended : Nat, last : Nat, over : Nat]
    BY <1>12, ReleaseDoes, JobOf DEF Inv, Typed
  <2>2. tally'[k].over = 1
    BY <2>1
  <2> QED BY <2>2 DEF Counting, Active, Over
<1>13. CASE Finish(t)
  <2>1. Over(k) /\ tally' = tally
    BY <1>13, FinishDoes DEF Inv, OverInv
  <2> QED BY <2>1 DEF Counting, Active, Over
<1> QED BY <1>1, <1>2, <1>3, <1>4, <1>5, <1>6, <1>7, <1>8, <1>9, <1>10, <1>11, <1>12, <1>13 DEF Step

\* The counters of a thread that did not move.
LEMMA StillCounts ==
    ASSUME Inv, NEW t \in Threads, Step(t) \/ Hits(t), NEW u \in Threads, u # t
    PROVE  /\ pc'[u] = "reset" => view'[job'[u].id].worker_finish = Affects(job'[u])
           /\ pc'[u] \in {"scan", "fill", "release", "finish"} =>
                  tally'[job'[u].ticket] = tally[job[u].ticket] /\ Due(job[u])' = Due(job[u])
<1>1. pc'[u] = pc[u] /\ job'[u] = job[u] /\ Turns' = Turns
  BY OneThread DEF Inv
<1>2. Due(job[u])' = Due(job[u])
  BY <1>1 DEF Due
<1>3. ASSUME pc[u] \in {"scan", "fill", "release", "finish", "reset"}
      PROVE  pc[t] \in {"idle", "wait"} \/ job[t].ticket # job[u].ticket
  <2>1. CASE pc[u] \in {"scan", "fill"}
    BY <2>1, Alone
  <2>2. CASE Ends(u)
    <3>1. CASE Holds(t) \/ Ends(t) \/ pc[t] \in {"scan", "fill", "push"}
      BY <2>2, <3>1 DEF Inv, ApartInv, EndApart
    <3> QED BY <3>1, Places DEF Inv, Calls
  <2> QED BY <1>3, <2>1, <2>2 DEF Ends
<1>4. ASSUME pc[u] \in {"scan", "fill", "release", "finish"}
      PROVE  tally'[job[u].ticket] = tally[job[u].ticket]
  <2>1. job[u].ticket \in Tickets
    BY <1>4, JobOf DEF Inv
  <2> QED BY <1>3, <1>4, <2>1, TallyStep
<1>5. ASSUME pc[u] = "reset" PROVE view'[job[u].id].worker_finish = Affects(job[u])
  <2>1. PICK k \in DOMAIN hits : k = job[u].ticket /\ job[u] = hits[k] /\ Active(k)
    BY <1>5, JobOf, ActiveJob DEF Inv
  <2>2. pc[t] \in {"idle", "wait", "finish"} \/ job[t].ticket # k
    BY <1>3, <1>5, <2>1
  <2>3. view'[hits[k].id] = view[hits[k].id]
    BY <2>1, <2>2, ViewStep
  <2> QED BY <1>5, <2>1, <2>3 DEF Inv, CountInv
<1>6. Affects(job'[u]) = Affects(job[u])
  BY <1>1
<1> QED BY <1>1, <1>2, <1>4, <1>5, <1>6

\* The counters of the thread that moved.
LEMMA MovedCounts ==
    ASSUME Inv, NEW t \in Threads, Step(t) \/ Hits(t)
    PROVE  /\ pc'[t] = "reset" => view'[job'[t].id].worker_finish = Affects(job'[t])
           /\ pc'[t] \in {"scan", "fill"} =>
                  /\ tally'[job'[t].ticket].begun = 0 /\ tally'[job'[t].ticket].ended = 0
                  /\ tally'[job'[t].ticket].last = 0
           /\ pc'[t] \in {"release", "finish"} =>
                  /\ tally'[job'[t].ticket].last = 1
                  /\ tally'[job'[t].ticket].begun = Due(job[t])'
                  /\ tally'[job'[t].ticket].ended = Due(job[t])'
<1>0. DOMAIN pc = Threads /\ DOMAIN job = Threads /\ Turns' = Turns
  BY OneThread DEF Inv, Typed
<1>1. CASE Hits(t)
  <2>1. PICK task \in Task :
             /\ task.ticket = Len(hits) + 1 /\ task.ticket \in Tickets /\ tally' = tally
             /\ job' = [job EXCEPT ![t] = task] /\ pc' = [pc EXCEPT ![t] = "scan"]
    BY <1>1, HitTask DEF Inv
  <2>2. job'[t] = task /\ pc'[t] = "scan"
    BY <1>0, <2>1
  <2>3. Len(hits) + 1 \notin DOMAIN hits
    BY ElementOf DEF Inv, Typed
  <2>4. tally[task.ticket] = [begun |-> 0, ended |-> 0, last |-> 0, over |-> 0]
    BY <2>1, <2>3 DEF Inv, OverInv
  <2> QED BY <2>1, <2>2, <2>4
<1>2. CASE RgstRequest(t)
  <2>1. pc[t] = "scan" /\ pc'[t] = "fill" /\ job' = job /\ tally' = tally
    BY <1>2, RequestDoes
  <2> QED BY <2>1 DEF Inv, CountInv
<1>3. CASE RgstManage(t) /\ view[pos[t]].cntl = "unuse"
  <2>1. pc[t] = "scan" /\ pc'[t] = "fill" /\ job'[t].ticket = job[t].ticket /\ tally' = tally
    BY <1>3, FoundDoes
  <2> QED BY <2>1 DEF Inv, CountInv
<1>4. CASE RgstManage(t) /\ view[pos[t]].cntl # "unuse"
  <2>1. pc[t] = "scan" /\ pc'[t] = "scan" /\ job' = job /\ tally' = tally
    BY <1>4, NotFoundDoes
  <2> QED BY <2>1 DEF Inv, CountInv
<1>5. CASE Fill(t) \/ Push(t) \/ Take(t)
  <2>1. pc'[t] \in {"begin", "push", "wait", "idle"}
    BY <1>5, FillDoes, PushDoes, TakeDoes
  <2> QED BY <2>1
<1>6. CASE Return(t) \/ Come(t) \/ Run(t) \/ OverMax(t) \/ Finish(t)
  <2>1. pc'[t] \in {"idle", "run", "begin", "over", "add", "abort"}
    BY <1>0, <1>6 DEF Return, Come, Run, OverMax, Finish, Go
  <2> QED BY <2>1
<1>7. CASE OverAdd(t)
  <2>1. pc[t] = "add" /\ pc'[t] \in {"reset", "idle"}
    BY <1>0, <1>7 DEF OverAdd, Go
  <2>2. PICK k \in DOMAIN hits : k = job[t].ticket
    BY <2>1, JobOf DEF Inv
  <2>3. pc'[t] = "reset" => view'[job[t].id].worker_finish = Affects(job[t]) /\ job'[t] = job[t]
    <3>1. Step(t)
      BY <1>7, OneThread DEF Step, Inv
    <3> QED BY <1>7, <2>2, <3>1, CountAdd
  <2> QED BY <2>1, <2>3
<1>8. CASE OverReset(t)
  <2>1. pc[t] = "reset" /\ pc'[t] = "release" /\ job' = job /\ tally' = tally
    BY <1>0, <1>8 DEF OverReset, Go
  <2>2. Due(job[t])' = Due(job[t])
    BY <1>0, <2>1 DEF Due
  <2> QED BY <2>1, <2>2, CountReset
<1>9. CASE OverRelease(t)
  <2>1. /\ pc[t] = "release" /\ pc'[t] = "finish" /\ job' = job /\ job[t].ticket \in Tickets
        /\ tally'[job[t].ticket] = [tally[job[t].ticket] EXCEPT !.over = 1]
    BY <1>9, ReleaseDoes
  <2>2. Due(job[t])' = Due(job[t])
    BY <1>0, <2>1 DEF Due
  <2>3. PICK y \in [begun : Nat, ended : Nat, last : Nat, over : Nat] : y = tally[job[t].ticket]
    BY <2>1 DEF Inv, Typed
  <2>4. /\ tally'[job[t].ticket].last = y.last /\ tally'[job[t].ticket].begun = y.begun
        /\ tally'[job[t].ticket].ended = y.ended
    BY <2>1, <2>3
  <2>5. y.last = 1 /\ y.begun = Due(job[t]) /\ y.ended = Due(job[t])
    BY <2>1, <2>3 DEF Inv, CountInv
  <2> QED BY <2>1, <2>2, <2>4, <2>5
<1> QED BY <1>1, <1>2, <1>3, <1>4, <1>5, <1>6, <1>7, <1>8, <1>9 DEF Step

\* The counters of the table are those of the runs.
LEMMA CountStep ==
    ASSUME Inv, NEW t \in Threads, Step(t) \/ Hits(t)
    PROVE  CountInv'
<1>1. ASSUME NEW k \in DOMAIN hits', Counting(k)' PROVE Counted(k)'
  <2>1. k \in DOMAIN hits
    <3>1. CASE Hits(t)
      <4>1. PICK task \in Task :
               /\ task.ticket = Len(hits) + 1 /\ hits' = Append(hits, task)
               /\ job' = [job EXCEPT ![t] = task] /\ pc' = [pc EXCEPT ![t] = "scan"]
        BY <3>1, HitTask DEF Inv
      <4>2. job'[t].ticket = Len(hits) + 1 /\ pc'[t] = "scan"
        BY <4>1 DEF Inv, Typed
      <4>3. k # Len(hits) + 1
        BY <1>1, <4>2 DEF Counting, Active, Scanned
      <4> QED BY <4>1, <4>3, HitsGrow DEF Inv
    <3>2. CASE RgstManage(t) /\ view[pos[t]].cntl = "unuse"
      BY <3>2, FoundDoes
    <3>3. CASE Step(t) /\ ~ (RgstManage(t) /\ view[pos[t]].cntl = "unuse")
      BY <3>3, JobStep
    <3> QED BY <3>1, <3>2, <3>3
  <2>2. CASE Take(t) /\ list[t][1].ticket = k
    <3>1. Step(t)
      BY <2>2, OneThread DEF Step, Inv
    <3> QED BY <1>1, <2>1, <2>2, <3>1, CountTake
  <2>3. CASE pc[t] # "idle" /\ job[t].ticket = k
    <3>1. Step(t)
      BY <2>3, HitTask DEF Inv
    <3> QED BY <1>1, <2>1, <2>3, <3>1, OwnCounts
  <2>4. CASE ~ (Take(t) /\ list[t][1].ticket = k) /\ ~ (pc[t] # "idle" /\ job[t].ticket = k)
    BY <1>1, <2>1, <2>4, OtherCounts
  <2> QED BY <2>2, <2>3, <2>4
<1>2. ASSUME NEW u \in Threads
      PROVE  /\ pc'[u] = "reset" => view'[job'[u].id].worker_finish = Affects(job'[u])
             /\ pc'[u] \in {"scan", "fill"} =>
                  /\ tally'[job'[u].ticket].begun = 0 /\ tally'[job'[u].ticket].ended = 0
                  /\ tally'[job'[u].ticket].last = 0
             /\ pc'[u] \in {"release", "finish"} =>
                  /\ tally'[job'[u].ticket].last = 1
                  /\ tally'[job'[u].ticket].begun = Due(job[u])'
                  /\ tally'[job'[u].ticket].ended = Due(job[u])'
  <2>1. CASE u = t
    BY <2>1, MovedCounts
  <2>2. CASE u # t
    <3>1. pc'[u] = pc[u]
      BY <2>2, OneThread DEF Inv
    <3> QED BY <2>2, <3>1, StillCounts DEF Inv, CountInv
  <2> QED BY <2>1, <2>2
<1> QED BY <1>1, <1>2 DEF CountInv

-----------------------------------------------------------------------------
\* The invariant holds.

\* At the start nothing has been hit.
LEMMA InvInit ==
    Init => Inv
<1> SUFFICES ASSUME Init PROVE Inv
  OBVIOUS
<1>1. /\ hits = <<>> /\ DOMAIN hits = {}
      /\ \A w \in Workers : list[w] = <<>> /\ DOMAIN list[w] = {}
      /\ \A t \in Threads : pc[t] = "idle" /\ job[t] = NoTask /\ pos[t] = 0 /\ max[t] = 0
      /\ \A i \in Ids : view[i] = Unused
      /\ \A k \in Tickets : tally[k] = [begun |-> 0, ended |-> 0, last |-> 0, over |-> 0]
  BY DEF Init
<1>2. Typed
  <2>1. <<>> \in Seq(Task)
    OBVIOUS
  <2>2. Unused \in [cntl : {"unuse", "inuse"}, worker_finish : Nat, worker_affect : Nat,
                    tasker_finish : Nat, tasker_affect : Nat]
    BY DEF Unused
  <2>3. view \in [Ids -> [cntl : {"unuse", "inuse"}, worker_finish : Nat, worker_affect : Nat,
                          tasker_finish : Nat, tasker_affect : Nat]]
    BY <2>2 DEF Init
  <2>4. /\ list \in [Workers -> Seq(Task)] /\ hits \in Seq(Task)
    BY <2>1 DEF Init
  <2>5. tally \in [Tickets -> [begun : Nat, ended : Nat, last : Nat, over : Nat]]
    BY DEF Init
  <2>6. job \in [Threads -> Task \cup {NoTask}]
    BY DEF Init
  <2> QED BY <2>3, <2>4, <2>5, <2>6 DEF Init, Typed
<1>3. TaskInv
  BY <1>1 DEF TaskInv
<1>4. PlaceInv
  BY <1>1 DEF PlaceInv, PlaceOf, Holds, Ends
<1>5. ApartInv
  BY <1>1 DEF ApartInv, ListApart, HoldApart, SendApart, CallApart, EndApart, Holds, Calls, Ends, Sends
<1>6. OverInv
  BY <1>1 DEF OverInv
<1>7. IdInv
  BY <1>1 DEF IdInv, Unused
<1>8. OpenInv
  BY <1>1 DEF OpenInv
<1>9. CountInv
  BY <1>1 DEF CountInv
<1> QED BY <1>2, <1>3, <1>4, <1>5, <1>6, <1>7, <1>8, <1>9 DEF Inv

\* A step that changes nothing.
LEMMA InvStutter ==
    ASSUME Inv, UNCHANGED vars
    PROVE  Inv'
<1> USE DEF vars, Swift, Turns, Calls, Holds, Ends, Sends, Over, Scanned, Active
<1>1. Typed'
  BY DEF Inv, Typed
<1>2. TaskInv'
  BY DEF Inv, TaskInv
<1>3. PlaceInv'
  BY DEF Inv, PlaceInv, PlaceOf, Runs, Affects
<1>4. ApartInv'
  BY DEF Inv, ApartInv, ListApart, HoldApart, SendApart, CallApart, EndApart
<1>5. OverInv'
  BY DEF Inv, OverInv
<1>6. IdInv'
  BY DEF Inv, IdInv
<1>7. OpenInv'
  BY DEF Inv, OpenInv, Open
<1>8. CountInv'
  <2>1. ASSUME NEW k \in DOMAIN hits', Counting(k)' PROVE Counted(k)'
    <3>1. k \in DOMAIN hits /\ Counting(k)
      BY <2>1 DEF Counting
    <3>2. Counted(k)
      BY <3>1 DEF Inv, CountInv
    <3>3. (Reset(k) => Reset(k)') /\ Busy(k)' = Busy(k) /\ Turns' = Turns
      BY DEF Reset, Busy, Queued
    <3>4. \A w \in Workers : \A r \in 1 .. Runs(hits[k]) :
              (BegunAt(k, w, r)' <=> BegunAt(k, w, r)) /\ (EndedAt(k, w, r)' <=> EndedAt(k, w, r))
      BY DEF BegunAt, EndedAt
    <3> QED BY <3>2, <3>3, <3>4, CountMove
  <2> QED BY <2>1 DEF Inv, CountInv, Due, Affects
<1> QED BY <1>1, <1>2, <1>3, <1>4, <1>5, <1>6, <1>7, <1>8 DEF Inv

\* Every step preserves the invariant.
LEMMA InvStep ==
    ASSUME Inv, [Next]_vars
    PROVE  Inv'
<1>1. CASE UNCHANGED vars
  BY <1>1, InvStutter
<1>2. ASSUME NEW t \in Threads, Step(t) \/ Hits(t) PROVE Inv'
  <2>1. Typed'
    BY <1>2, TypedStep DEF Next
  <2>2. TaskInv'
    BY <1>2, TaskStep
  <2>3. PlaceInv' /\ ApartInv'
    BY <1>2, <2>1, PlaceStep, ApartStep
  <2>4. OverInv' /\ IdInv'
    BY <1>2, <2>1, <2>2, OverStep, IdStep
  <2>5. OpenInv' /\ CountInv'
    BY <1>2, <2>2, OpenStep, CountStep
  <2> QED BY <2>1, <2>2, <2>3, <2>4, <2>5 DEF Inv
<1> QED BY <1>1, <1>2 DEF Next, Done

\* The inductive invariant of the task table holds in every state: who has
\* which task and where, which ids are in use and for whom, what a task not
\* yet over owns, and what the counters of its entry count.
THEOREM ViewInvariance == Spec => []Inv
<1>1. Init => Inv
  BY InvInit
<1>2. Inv /\ [Next]_vars => Inv'
  BY InvStep
<1> QED BY <1>1, <1>2, PTL DEF Spec

\* No assertion of smart_task_rgst and smart_task_over fails: a descriptor's
\* id is free again before its next request, and an id is given back once.
THEOREM AssertsNeverFail == Spec => []AssertsHold
<1>1. Inv => AssertsHold
  BY DEF Inv, PlaceInv, PlaceOf, AssertsHold
<1> QED BY <1>1, ViewInvariance, PTL

\* The last worker writes the flag of a hit that still waits for it: the
\* pointer into the caller's stack frame is good.
THEOREM FlagsAlive == Spec => []FlagAlive
<1>1. Inv => FlagAlive
  <2> SUFFICES ASSUME Inv, NEW t \in Threads, pc[t] = "finish", NEW c \in job[t].deal
               PROVE  deal[c] = "begin" /\ job[c].ticket = job[t].ticket
    BY DEF FlagAlive
  <2>1. job[t].ticket \in DOMAIN hits /\ job[t] = hits[job[t].ticket] /\ job[t].func
    BY JobOf DEF Inv, PlaceInv, PlaceOf, Ends
  <2>2. Open(job[t].ticket)
    BY DEF Open
  <2> QED BY <2>1, <2>2 DEF Inv, OpenInv
<1> QED BY <1>1, ViewInvariance, PTL

\* A task is over once, after every run it is due has ended on every worker,
\* and exactly one run was told that it is the last.
THEOREM OverOnce == Spec => []OverOnceAfterAll
<1>1. Inv => OverOnceAfterAll
  <2> SUFFICES ASSUME Inv, NEW t \in Threads, pc[t] = "finish"
               PROVE  LET y == tally[job[t].ticket]
                      IN  y.over = 1 /\ y.last = 1 /\ y.begun = Due(job[t]) /\ y.ended = y.begun
    BY DEF OverOnceAfterAll
  <2> QED BY DEF Inv, OverInv, Over, CountInv
<1> QED BY <1>1, ViewInvariance, PTL

\* A control message is on the heap as long as a worker may read it, and is
\* freed once.
THEOREM MessagesLive == Spec => []MessageLive
<1>1. Inv => MessageLive
  <2> SUFFICES ASSUME Inv, NEW t \in Threads, pc[t] \in {"begin", "run", "finish"},
                      job[t].origin = "MSMQ"
               PROVE  data[job[t].ticket] = "live"
    BY DEF MessageLive
  <2>1. job[t].ticket \in DOMAIN hits /\ job[t] = hits[job[t].ticket]
    BY JobOf DEF Inv
  <2>2. Open(job[t].ticket)
    BY DEF Open, Inv, OverInv
  <2> QED BY <2>1, <2>2 DEF Inv, OpenInv
<1> QED BY <1>1, ViewInvariance, PTL

\* A task in flight that is not over is active, with its own id.
LEMMA FlightActive ==
    ASSUME Inv, NEW j \in InFlight, tally[j.ticket].over = 0
    PROVE  j.ticket \in DOMAIN hits /\ j = hits[j.ticket] /\ Active(j.ticket)
<1>1. CASE \E t \in Threads : pc[t] \notin {"idle", "scan", "wait"} /\ j = job[t]
  <2>1. PICK t \in Threads : pc[t] \notin {"idle", "scan", "wait"} /\ j = job[t]
    BY <1>1
  <2>2. pc[t] # "finish"
    BY <2>1 DEF Inv, OverInv, Over
  <2> QED BY <2>1, <2>2, JobOf, ActiveJob DEF Inv
<1>2. CASE \E w \in Workers : \E n \in 1 .. Len(list[w]) : j = list[w][n]
  <2>0. PICK w \in Workers : \E n \in 1 .. Len(list[w]) : j = list[w][n]
    BY <1>2
  <2>1. PICK n \in 1 .. Len(list[w]) : j = list[w][n]
    BY <2>0
  <2>2. n \in DOMAIN list[w]
    BY <2>1, ElementOf DEF Inv, Typed
  <2> QED BY <2>1, <2>2, ActiveQueued
<1> QED BY <1>1, <1>2 DEF InFlight

\* A task with a function that has an id is in flight, when no list is too short.
LEMMA ActiveFlight ==
    ASSUME Inv, Roomy, NEW k \in DOMAIN hits, Active(k), hits[k].func
    PROVE  hits[k] \in InFlight
<1>1. ASSUME NEW t \in Threads, pc[t] \notin {"idle", "scan", "wait"}, job[t].ticket = k
      PROVE  hits[k] \in InFlight
  <2>1. job[t] = hits[k]
    BY <1>1, JobOf DEF Inv
  <2> QED BY <1>1, <2>1 DEF InFlight
<1>2. CASE ~ Counting(k)
  BY <1>1, <1>2 DEF Counting
<1>3. CASE Counting(k)
  <2>1. Counted(k) /\ hits[k] \in Task
    BY <1>3, HitOf DEF Inv, CountInv
  <2>2. PICK T \in SUBSET Workers : \E D \in SUBSET T : Counts(k, T, D)
    BY <2>1 DEF Counted
  <2>3. PICK D \in SUBSET T : Counts(k, T, D)
    BY <2>2
  <2>4. CASE Busy(k) = {}
    <3>1. T = D
      BY <2>3, <2>4 DEF Counts
    <3>2. view[hits[k].id].worker_finish = Affects(hits[k])
      BY <2>3, <3>1 DEF Counts
    <3>3. Reset(k)
      BY <2>1, <3>2 DEF Counted
    <3> QED BY <1>1, <3>3 DEF Reset
  <2>5. CASE Busy(k) # {}
    <3>1. PICK w \in Workers : w \in Busy(k)
      BY <2>5 DEF Busy
    <3>2. CASE Queued(k, w)
      <4>1. PICK n \in DOMAIN list[w] : list[w][n].ticket = k
        BY <3>2 DEF Queued
      <4>2. list[w][n] = hits[k] /\ n \in 1 .. Len(list[w])
        BY <4>1, QueuedOf, ElementOf DEF Inv, Typed
      <4> QED BY <4>2 DEF InFlight
    <3>3. CASE Holds(w) /\ job[w].ticket = k
      BY <1>1, <3>3, Constants DEF Holds
    <3>4. CASE \E t \in Threads : pc[t] = "push" /\ job[t].ticket = k
      BY <1>1, <3>4
    <3> QED BY <3>1, <3>2, <3>3, <3>4 DEF Busy
  <2> QED BY <2>4, <2>5
<1> QED BY <1>2, <1>3

\* With lists as long as there are ids, an id in use belongs to exactly one
\* task on its way, whatever the order in which workers finish and callers
\* take ids again; only a task without a function leaves its id in use
\* without one.
THEOREM IdsHaveOwners ==
    ASSUME Roomy
    PROVE  Spec => []IdsOwned
<1>1. ASSUME Inv PROVE IdsOwned
  <2> DEFINE Owners(i) == {k \in 1 .. tickets :
                             /\ tally[k].over = 0
                             /\ \E j \in InFlight : j.ticket = k /\ j.id = i}
  <2>0. DOMAIN hits = 1 .. tickets
    BY <1>1, ElementOf DEF Inv, Typed, tickets
  <2> SUFFICES ASSUME NEW i \in Ids
               PROVE  /\ Cardinality(Owners(i)) <= 1
                      /\ view[i].cntl = "inuse" /\ Owners(i) = {} =>
                             \E k \in 1 .. tickets : hits[k].id = i /\ ~ hits[k].func
    BY DEF IdsOwned
  <2>1. ASSUME NEW k \in Owners(i) PROVE k \in DOMAIN hits /\ Active(k) /\ hits[k].id = i
    BY <1>1, <2>1, FlightActive
  <2>2. \A j, k \in Owners(i) : j = k
    BY <1>1, <2>1 DEF Inv, IdInv
  <2>3. Cardinality(Owners(i)) <= 1
    <3> HIDE DEF Owners
    <3>1. CASE Owners(i) = {}
      BY <3>1, FS_EmptySet
    <3>2. CASE Owners(i) # {}
      <4>1. PICK k : k \in Owners(i)
        BY <3>2
      <4>2. Owners(i) = {k}
        BY <2>2, <4>1
      <4>3. Cardinality({k}) = 1
        BY FS_Singleton
      <4> QED BY <4>2, <4>3
    <3> QED BY <3>1, <3>2
  <2>4. ASSUME view[i].cntl = "inuse", \A k \in 1 .. tickets : hits[k].id = i => hits[k].func
        PROVE  Owners(i) # {}
    <3>1. PICK k \in DOMAIN hits : Active(k) /\ hits[k].id = i
      BY <1>1, <2>4 DEF Inv, IdInv
    <3>2. hits[k] \in InFlight
      BY <1>1, <2>0, <2>4, <3>1, ActiveFlight
    <3>3. hits[k].ticket = k /\ tally[k].over = 0
      BY <1>1, <3>1, HitOf DEF Inv, OverInv, Active, Over
    <3> QED BY <2>0, <3>1, <3>2, <3>3
  <2> QED BY <2>3, <2>4
<1> QED BY <1>1, ViewInvariance, PTL

\* There is room in the list a task is pushed to.
NeverFull == \A t \in Threads : pc[t] = "push" => Len(list[pos[t]]) < Room

\* With lists as long as there are ids no list is full when a task is pushed:
\* swift_all_task_hit never passes a porter over, which would leave a request
\* unanswered, and no caller has to wait for a worker to empty its list.
THEOREM ListsSuffice ==
    ASSUME Roomy
    PROVE  Spec => []NeverFull
<1>1. ASSUME Inv PROVE NeverFull
  BY <1>1, RoomEnough DEF NeverFull
<1> QED BY <1>1, ViewInvariance, PTL
=============================================================================
