----------------------------- MODULE CoroWorker -----------------------------
(***************************************************************************)
(* A worker thread of the supex engine built with OPEN_CORO: a scheduler   *)
(* of coroutines (libcoro, coro.c) that takes tasks from the worker's list *)
(* (supply_coro_queue in supex.c), gives each to an idle coroutine and     *)
(* runs the coroutines in turn.  A WHOLE task waits until it is the only   *)
(* one left (smart_for_batch_vm) and keeps the tasks behind it out         *)
(* (smart_safe_filter).                                                    *)
(*                                                                         *)
(* The doubly linked list of coroutines around S->main is the sequence     *)
(* ring: main comes before its first and after its last element.  Stacks   *)
(* and contexts are left out: a switch resumes what _resume names.         *)
(***************************************************************************)
EXTENDS Naturals, Sequences, FiniteSets

CONSTANTS Num,         \* coro->num coroutines
          AddStep,     \* CORO_QUEUE_ADD_STEP
          LowSlot,     \* CORO_QUEUE_LOW_SLOT
          MaxTasks     \* bound on the tasks other threads push

\* cfg_check refuses fewer coroutines than CORO_QUEUE_MIN_SLOT.
ASSUME CoroAssumption == /\ {Num, AddStep, LowSlot, MaxTasks} \subseteq Nat \ {0}
                         /\ Num >= LowSlot + AddStep

Coros == 1 .. Num
Main == 0
NoTask == 0
Tasks == 1 .. MaxTasks

VARIABLES list,        \* the worker's tlist
          kind,        \* each task pushed so far: "ALONE" or "WHOLE"
          temp, have,  \* coro->temp, coro->have
          airing,      \* p_worker->airing
          nxt,         \* coro->nxt, counted from 1
          chain,       \* the coroutines supplied and not yet pushed (H)
          status,      \* C->status
          task,        \* coro->task, one slot per coroutine
          at,          \* where each coroutine is in its task
          ring, exec,  \* the ring, S->exec
          cur,         \* who runs: a coroutine or Main
          mode,        \* where coroutine_loop is
          step,        \* i of supply_coro_queue
          begun, done  \* tasks whose function has been entered, has returned

sched == <<status, ring, exec, cur, mode>>
supply == <<temp, have, nxt, chain, step>>
vars == <<list, kind, temp, have, airing, nxt, chain, status, task, at, ring,
          exec, cur, mode, step, begun, done>>

Init == /\ list = <<>> /\ kind = <<>>
        /\ temp = NoTask /\ have = FALSE
        /\ airing = 0
        /\ nxt = 1 /\ chain = <<>>
        /\ status = [c \in Coros |-> "initial"]
        /\ task = [c \in Coros |-> NoTask]
        /\ at = [c \in Coros |-> "out"]
        /\ ring = <<>> /\ exec = Main /\ cur = Main
        /\ mode = "turn" /\ step = 0
        /\ begun = {} /\ done = {}

\* The neighbours in the ring of coroutines and main.
Position(c) == CHOOSE i \in 1 .. Len(ring) : ring[i] = c
NextOf(c) == LET i == IF c = Main THEN 0 ELSE Position(c)
             IN  IF i = Len(ring) THEN Main ELSE ring[i + 1]
PrevOf(c) == IF Position(c) = 1 THEN Main ELSE ring[Position(c) - 1]

\* _pop: the neighbours of c are linked to each other.
Without(c) == [i \in 1 .. Len(ring) - 1 |->
                 IF i < Position(c) THEN ring[i] ELSE ring[i + 1]]

\* supply_idle_fetch: the first coroutine from nxt on that is not in use,
\* none when all are.
Useable(c) == status[c] \in {"initial", "release"}
Offset(i) == ((nxt - 1 + i) % Num) + 1
Idle == LET free == {i \in 0 .. Num - 1 : Useable(Offset(i))}
        IN  IF free = {} THEN {}
            ELSE {Offset(CHOOSE i \in free : \A j \in free : i <= j)}

-----------------------------------------------------------------------------
\* Another thread pushes a task for this worker.
Submit(k) == /\ Len(kind) < MaxTasks
             /\ kind' = Append(kind, k)
             /\ list' = Append(list, Len(kind) + 1)
             /\ UNCHANGED <<airing, supply, sched, task, at, begun, done>>

\* coroutine_loop: the coroutine after exec runs, or, after the last one,
\* main looks for new tasks first if few coroutines are in use.
Resume(c) == /\ status' = [status EXCEPT ![c] = "running"]
             /\ exec' = c /\ cur' = c

Turn_LowSlot == /\ cur = Main /\ mode = "turn"
                /\ IF NextOf(exec) # Main
                   THEN Resume(NextOf(exec)) /\ UNCHANGED <<mode, step>>
                   ELSE /\ mode' = IF Len(ring) <= LowSlot + 1
                                   THEN "supply" ELSE "first"
                        /\ step' = 0
                        /\ UNCHANGED <<status, exec, cur>>
                /\ UNCHANGED <<list, kind, temp, have, airing, nxt, chain, task, at,
                               ring, begun, done>>

Turn == /\ cur = Main /\ mode = "turn"
        /\ IF NextOf(exec) # Main
           THEN Resume(NextOf(exec)) /\ UNCHANGED <<mode, step>>
           ELSE /\ mode' = IF Len(ring) <= LowSlot THEN "supply" ELSE "first"
                /\ step' = 0
                /\ UNCHANGED <<status, exec, cur>>
        /\ UNCHANGED <<list, kind, temp, have, airing, nxt, chain, task, at, ring,
                       begun, done>>

\* supply_coro_queue, one turn of its loop: the task held back, or the next
\* of the list, is kept in temp while a WHOLE task is airing, and otherwise
\* given to an idle coroutine, without which an assertion fails.
Held == IF have THEN temp ELSE Head(list)

Supply_DropsHeld ==
    /\ cur = Main /\ mode = "supply"
    /\ step < AddStep /\ list # <<>>
    /\ list' = Tail(list)
    /\ temp' = Head(list)
    /\ IF airing > 0
       THEN /\ have' = TRUE /\ mode' = "push"
            /\ UNCHANGED <<airing, nxt, chain, status, task, at, step>>
       ELSE /\ have' = FALSE /\ step' = step + 1
            /\ airing' = IF kind[Head(list)] = "WHOLE" THEN airing + 1 ELSE airing
            /\ \E c \in Idle : /\ nxt' = (c % Num) + 1
                               /\ chain' = Append(chain, c)
                               /\ status' = [status EXCEPT ![c] = "initial"]
                               /\ task' = [task EXCEPT ![c] = Head(list)]
                               /\ at' = [at EXCEPT ![c] = "start"]
            /\ UNCHANGED mode
    /\ UNCHANGED <<kind, ring, exec, cur, begun, done>>

Supply == /\ cur = Main /\ mode = "supply"
          /\ step < AddStep /\ (have \/ list # <<>>)
          /\ list' = IF have THEN list ELSE Tail(list)
          /\ temp' = Held
          /\ IF airing > 0
             THEN /\ have' = TRUE /\ mode' = "push"
                  /\ UNCHANGED <<airing, nxt, chain, status, task, at, step>>
             ELSE /\ have' = FALSE /\ step' = step + 1
                  /\ airing' = IF kind[Held] = "WHOLE" THEN airing + 1 ELSE airing
                  /\ IF Idle = {}
                     THEN mode' = "abort" /\ UNCHANGED <<nxt, chain, status, task, at>>
                     ELSE \E c \in Idle :
                              /\ nxt' = (c % Num) + 1
                              /\ chain' = Append(chain, c)
                              /\ status' = [status EXCEPT ![c] = "initial"]
                              /\ task' = [task EXCEPT ![c] = Held]
                              /\ at' = [at EXCEPT ![c] = "start"]
                              /\ UNCHANGED mode
          /\ UNCHANGED <<kind, ring, exec, cur, begun, done>>

SupplyEnds == /\ cur = Main /\ mode = "supply"
              /\ step = AddStep \/ (~have /\ list = <<>>)
              /\ mode' = "push"
              /\ UNCHANGED <<list, kind, airing, supply, status, task, at, ring, exec,
                             cur, begun, done>>

\* _push, for each coroutine of the chain; it asserts that it is INITIAL.
Push == /\ cur = Main /\ mode = "push" /\ chain # <<>>
        /\ LET c == Head(chain)
           IN  IF status[c] = "initial"
               THEN /\ ring' = Append(ring, c)
                    /\ status' = [status EXCEPT ![c] = "enabled"]
                    /\ chain' = Tail(chain)
                    /\ UNCHANGED mode
               ELSE mode' = "abort" /\ UNCHANGED <<ring, status, chain>>
        /\ UNCHANGED <<list, kind, temp, have, airing, nxt, task, at, exec, cur, step,
                       begun, done>>

\* With no coroutine main sleeps and looks again; else the first one runs.
First == /\ cur = Main
         /\ mode = "first" \/ (mode = "push" /\ chain = <<>>)
         /\ IF ring = <<>>
            THEN mode' = "supply" /\ step' = 0 /\ UNCHANGED <<status, exec, cur>>
            ELSE Resume(ring[1]) /\ mode' = "turn" /\ UNCHANGED step
         /\ UNCHANGED <<list, kind, temp, have, airing, nxt, chain, task, at, ring,
                        begun, done>>

-----------------------------------------------------------------------------
\* coroutine_switch: the next coroutine runs, or main after the last.
Switch(c) == /\ IF NextOf(c) = Main
                THEN /\ status' = [status EXCEPT ![c] = "suspend"]
                     /\ cur' = Main
                     /\ UNCHANGED exec
                ELSE /\ status' = [status EXCEPT ![c] = "suspend",
                                                 ![NextOf(c)] = "running"]
                     /\ exec' = NextOf(c) /\ cur' = NextOf(c)
             /\ UNCHANGED <<ring, mode>>

\* smart_task_handle enters the function of the task.  The function of a
\* WHOLE task waits in smart_for_batch_vm, switching, until the coroutines
\* that are left are those airing.
Wait_None(c) == /\ cur = c /\ at[c] = "start" /\ kind[task[c]] = "WHOLE"
                /\ at' = [at EXCEPT ![c] = "run"]
                /\ begun' = begun \cup {task[c]}
                /\ UNCHANGED <<sched, list, kind, airing, supply, task, done>>

Wait(c) == /\ cur = c /\ at[c] = "start" /\ kind[task[c]] = "WHOLE"
           /\ IF Len(ring) = airing
              THEN /\ at' = [at EXCEPT ![c] = "run"]
                   /\ begun' = begun \cup {task[c]}
                   /\ UNCHANGED sched
              ELSE /\ Switch(c)
                   /\ UNCHANGED <<at, begun>>
           /\ UNCHANGED <<list, kind, airing, supply, task, done>>

Enter(c) == /\ cur = c /\ at[c] = "start" /\ kind[task[c]] = "ALONE"
            /\ at' = [at EXCEPT ![c] = "run"]
            /\ begun' = begun \cup {task[c]}
            /\ UNCHANGED <<list, kind, airing, supply, sched, task, done>>

\* The function waits for an answer and lets the others run.
Yield(c) == /\ cur = c /\ at[c] = "run"
            /\ Switch(c)
            /\ UNCHANGED <<list, kind, airing, supply, task, at, begun, done>>

\* The function returns: a WHOLE task is no longer airing; _task takes the
\* coroutine out of the ring and main goes on after its predecessor.
Return_Airing(c) ==
             /\ cur = c /\ at[c] = "run"
             /\ done' = done \cup {task[c]}
             /\ at' = [at EXCEPT ![c] = "out"]
             /\ exec' = PrevOf(c)
             /\ ring' = Without(c)
             /\ status' = [status EXCEPT ![c] = "release"]
             /\ cur' = Main
             /\ UNCHANGED <<list, kind, supply, task, mode, begun, airing>>

Return(c) == /\ cur = c /\ at[c] = "run"
             /\ airing' = IF kind[task[c]] = "WHOLE" THEN airing - 1 ELSE airing
             /\ done' = done \cup {task[c]}
             /\ at' = [at EXCEPT ![c] = "out"]
             /\ exec' = PrevOf(c)
             /\ ring' = Without(c)
             /\ status' = [status EXCEPT ![c] = "release"]
             /\ cur' = Main
             /\ UNCHANGED <<list, kind, supply, task, mode, begun>>

LoopStep == Turn \/ Supply \/ SupplyEnds \/ Push \/ First
CoroStep(c) == Wait(c) \/ Enter(c) \/ Yield(c) \/ Return(c)

Next == \/ LoopStep
        \/ \E c \in Coros : CoroStep(c)
        \/ \E k \in {"ALONE", "WHOLE"} : Submit(k)

\* The thread runs, and a function that lets the others run gets its answer
\* and returns in the end.
Spec == /\ Init /\ [][Next]_vars
        /\ WF_vars(LoopStep \/ \E c \in Coros : CoroStep(c))
        /\ \A c \in Coros : SF_vars(Return(c))

-----------------------------------------------------------------------------
Members(s) == {s[i] : i \in 1 .. Len(s)}

TypeOK == /\ list \in Seq(Tasks) /\ kind \in Seq({"ALONE", "WHOLE"})
          /\ temp \in Tasks \cup {NoTask} /\ have \in BOOLEAN
          /\ airing \in 0 .. 1
          /\ nxt \in Coros /\ chain \in Seq(Coros)
          /\ status \in [Coros -> {"initial", "enabled", "running", "suspend",
                                   "release"}]
          /\ task \in [Coros -> Tasks \cup {NoTask}]
          /\ at \in [Coros -> {"out", "start", "run"}]
          /\ ring \in Seq(Coros)
          /\ exec \in Coros \cup {Main} /\ cur \in Coros \cup {Main}
          /\ mode \in {"turn", "supply", "push", "first", "abort"}
          /\ step \in 0 .. AddStep
          /\ begun \subseteq Tasks /\ done \subseteq Tasks

\* The ring is sound and the assertions of coro.c and supex.c hold: no
\* coroutine is in it twice or handed out while in use, exec is in it or is
\* main, and just the coroutine that runs is RUNNING.  A freshly supplied
\* coroutine still looks idle until it is pushed, so this rests on the sizes
\* of the slots.
RingSound == /\ mode # "abort"
             /\ Cardinality(Members(ring)) = Len(ring)
             /\ Cardinality(Members(chain)) = Len(chain)
             /\ Members(ring) \cap Members(chain) = {}
             /\ exec \in Members(ring) \cup {Main}
             /\ Members(ring) = {c \in Coros : status[c] \notin {"initial", "release"}}
             /\ {c \in Coros : status[c] = "running"} = {cur} \ {Main}

\* Every task is in exactly one place: in the list, held back, with one
\* coroutine, or done.
EachTaskOnce ==
    \A k \in 1 .. Len(kind) :
        LET places == {i \in 1 .. Len(list) : list[i] = k}
                      \cup {MaxTasks + 2 + c : c \in {d \in Coros : at[d] # "out" /\ task[d] = k}}
                      \cup (IF have /\ temp = k THEN {MaxTasks + 1} ELSE {})
                      \cup (IF k \in done THEN {MaxTasks + 2} ELSE {})
        IN  Cardinality(places) = 1

\* A WHOLE task, which may change every virtual machine of the worker, is a
\* barrier: all tasks pushed before it have returned when it begins, and none
\* pushed after it has begun before it returns.
WholeIsBarrier ==
    \A k \in 1 .. Len(kind) : kind[k] = "WHOLE" =>
        /\ k \in begun => 1 .. k - 1 \subseteq done
        /\ k \notin done => begun \cap (k + 1 .. MaxTasks) = {}

\* Every task pushed returns in the end: a WHOLE task gets its turn, the task
\* held back is not forgotten, and main does not sleep on work.
EachTaskDone == \A k \in Tasks : Len(kind) >= k ~> k \in done

=============================================================================
