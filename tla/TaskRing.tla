------------------------------ MODULE TaskRing ------------------------------
(***************************************************************************)
(* The ring every thread of the supex engine takes its work from:          *)
(* struct supex_task_list (supex.c) and its twin struct free_queue_list    *)
(* (utils.c).  Pushing threads exclude each other with w_lock, pulling     *)
(* threads with r_lock; nothing excludes a push from a pull, which share   *)
(* head, tail and the slots.  A task is copied by memcpy, word by word in  *)
(* any order.  The counters isz and osz are never read and are left out.   *)
(***************************************************************************)
EXTENDS Naturals, Sequences, FiniteSets

CONSTANTS Max,         \* list->max, the number of slots
          Pushers,     \* threads that call supex_task_push
          Pullers,     \* threads that call supex_task_pull
          Words,       \* the words of a task, tsz bytes in all
          Values,      \* what a word can hold
          Zero,        \* the word calloc leaves
          MaxPushes    \* bound on the pushes that succeed

ASSUME RingAssumption == /\ Max \in Nat \ {0, 1}
                         /\ Zero \in Values
                         /\ Pushers \cap Pullers = {}
                         /\ MaxPushes \in Nat

VARIABLES head, tail,  \* list->head, list->tail
          slots,       \* list->slots
          w_lock,      \* list->w_lock
          r_lock,      \* list->r_lock
          pc,          \* where each thread is
          task,        \* the task each thread pushes, or pulls into
          copied,      \* the words its memcpy has copied so far
          ok,          \* what its last call returned
          sent,        \* every task whose push has moved the tail
          got          \* every task whose pull has moved the head

shared == <<head, tail, slots>>
locks == <<w_lock, r_lock>>
history == <<sent, got>>
vars == <<head, tail, slots, w_lock, r_lock, pc, task, copied, ok, sent, got>>

Threads == Pushers \cup Pullers
Tasks == [Words -> Values]
Index == 0 .. Max - 1
Blank == [w \in Words |-> Zero]

\* The slot after slot i.
NextIndex(i) == (i + 1) % Max

\* The number of tasks between head and tail.
Held == IF tail >= head THEN tail - head ELSE tail + Max - head

-----------------------------------------------------------------------------
Init == /\ head = 0 /\ tail = 0
        /\ slots = [i \in Index |-> Blank]
        /\ w_lock = FALSE /\ r_lock = FALSE
        /\ pc = [t \in Threads |-> "out"]
        /\ task = [t \in Threads |-> Blank]
        /\ copied = [t \in Threads |-> {}]
        /\ ok = [t \in Threads |-> TRUE]
        /\ sent = <<>> /\ got = <<>>

\* supex_task_push: called with a task, it spins until the compare-and-swap
\* takes w_lock.  A failed compare-and-swap changes nothing.
PushLock_NoLock(p, m) == /\ pc[p] = "out"
                         /\ Len(sent) < MaxPushes
                         /\ w_lock' = TRUE
                         /\ task' = [task EXCEPT ![p] = m]
                         /\ pc' = [pc EXCEPT ![p] = "check"]
                         /\ UNCHANGED <<shared, r_lock, copied, ok, history>>

PushLock(p, m) == /\ pc[p] = "out"
                  /\ Len(sent) < MaxPushes
                  /\ ~w_lock
                  /\ w_lock' = TRUE
                  /\ task' = [task EXCEPT ![p] = m]
                  /\ pc' = [pc EXCEPT ![p] = "check"]
                  /\ UNCHANGED <<shared, r_lock, copied, ok, history>>

\* Reads head, which only pulling threads move: is there a free slot?
PushCheck_LastSlot(p) == /\ pc[p] = "check"
                         /\ IF head # NextIndex(NextIndex(tail))
                            THEN /\ pc' = [pc EXCEPT ![p] = "copy"]
                                 /\ UNCHANGED ok
                            ELSE /\ pc' = [pc EXCEPT ![p] = "unlock"]
                                 /\ ok' = [ok EXCEPT ![p] = FALSE]
                         /\ UNCHANGED <<shared, locks, task, copied, history>>

PushCheck(p) == /\ pc[p] = "check"
                /\ IF head # NextIndex(tail)
                   THEN /\ pc' = [pc EXCEPT ![p] = "copy"]
                        /\ UNCHANGED ok
                   ELSE /\ pc' = [pc EXCEPT ![p] = "unlock"]
                        /\ ok' = [ok EXCEPT ![p] = FALSE]
                /\ UNCHANGED <<shared, locks, task, copied, history>>

\* memcpy into the slot at tail.
PushCopy(p, w) == /\ pc[p] = "copy"
                  /\ w \notin copied[p]
                  /\ slots' = [slots EXCEPT ![tail][w] = task[p][w]]
                  /\ copied' = [copied EXCEPT ![p] = @ \cup {w}]
                  /\ UNCHANGED <<head, tail, locks, pc, task, ok, history>>

\* list->tail = next: the task can now be pulled.
PushAdvance_Early(p) == /\ pc[p] = "copy"
                        /\ tail' = NextIndex(tail)
                        /\ sent' = Append(sent, task[p])
                        /\ copied' = [copied EXCEPT ![p] = {}]
                        /\ ok' = [ok EXCEPT ![p] = TRUE]
                        /\ pc' = [pc EXCEPT ![p] = "unlock"]
                        /\ UNCHANGED <<head, slots, locks, task, got>>

PushAdvance(p) == /\ pc[p] = "copy"
                  /\ copied[p] = Words
                  /\ tail' = NextIndex(tail)
                  /\ sent' = Append(sent, task[p])
                  /\ copied' = [copied EXCEPT ![p] = {}]
                  /\ ok' = [ok EXCEPT ![p] = TRUE]
                  /\ pc' = [pc EXCEPT ![p] = "unlock"]
                  /\ UNCHANGED <<head, slots, locks, task, got>>

\* Returns; the caller's task is its own again.
PushUnlock(p) == /\ pc[p] = "unlock"
                 /\ w_lock' = FALSE
                 /\ pc' = [pc EXCEPT ![p] = "out"]
                 /\ task' = [task EXCEPT ![p] = Blank]
                 /\ UNCHANGED <<shared, r_lock, copied, ok, history>>

\* supex_task_pull: the same with r_lock.
PullLock(c) == /\ pc[c] = "out"
               /\ ~r_lock
               /\ r_lock' = TRUE
               /\ pc' = [pc EXCEPT ![c] = "check"]
               /\ UNCHANGED <<shared, w_lock, task, copied, ok, history>>

\* Reads tail, which only pushing threads move: is there a task?
PullCheck(c) == /\ pc[c] = "check"
                /\ IF head # tail
                   THEN /\ pc' = [pc EXCEPT ![c] = "copy"]
                        /\ UNCHANGED ok
                   ELSE /\ pc' = [pc EXCEPT ![c] = "unlock"]
                        /\ ok' = [ok EXCEPT ![c] = FALSE]
                /\ UNCHANGED <<shared, locks, task, copied, history>>

\* memcpy from the slot at head.
PullCopy(c, w) == /\ pc[c] = "copy"
                  /\ w \notin copied[c]
                  /\ task' = [task EXCEPT ![c][w] = slots[head][w]]
                  /\ copied' = [copied EXCEPT ![c] = @ \cup {w}]
                  /\ UNCHANGED <<shared, locks, pc, ok, history>>

\* list->head = (list->head + 1) % list->max: the slot can be written again.
PullAdvance(c) == /\ pc[c] = "copy"
                  /\ copied[c] = Words
                  /\ head' = NextIndex(head)
                  /\ got' = Append(got, task[c])
                  /\ copied' = [copied EXCEPT ![c] = {}]
                  /\ ok' = [ok EXCEPT ![c] = TRUE]
                  /\ pc' = [pc EXCEPT ![c] = "unlock"]
                  /\ UNCHANGED <<tail, slots, locks, task, sent>>

PullUnlock(c) == /\ pc[c] = "unlock"
                 /\ r_lock' = FALSE
                 /\ pc' = [pc EXCEPT ![c] = "out"]
                 /\ task' = [task EXCEPT ![c] = Blank]
                 /\ UNCHANGED <<shared, w_lock, copied, ok, history>>

\* The steps of a thread inside a call.
PushStep(p) == \/ PushCheck(p)
               \/ \E w \in Words : PushCopy(p, w)
               \/ PushAdvance(p)
               \/ PushUnlock(p)

PullStep(c) == \/ PullCheck(c)
               \/ \E w \in Words : PullCopy(c, w)
               \/ PullAdvance(c)
               \/ PullUnlock(c)

Next == \/ \E p \in Pushers : PushStep(p) \/ \E m \in Tasks : PushLock(p, m)
        \/ \E c \in Pullers : PullStep(c) \/ PullLock(c)

\* A thread inside a call keeps running, and the pulling threads call again.
\* Nothing is assumed of which of several spinning threads gets a lock.
Fairness == /\ \A p \in Pushers : WF_vars(PushStep(p))
            /\ \A c \in Pullers : WF_vars(PullStep(c))
            /\ WF_vars(\E c \in Pullers : PullLock(c))

Spec == Init /\ [][Next]_vars /\ Fairness

-----------------------------------------------------------------------------
TypeOK == /\ head \in Index /\ tail \in Index
          /\ slots \in [Index -> Tasks]
          /\ w_lock \in BOOLEAN /\ r_lock \in BOOLEAN
          /\ pc \in [Threads -> {"out", "check", "copy", "unlock"}]
          /\ task \in [Threads -> Tasks]
          /\ copied \in [Threads -> SUBSET Words]
          /\ ok \in [Threads -> BOOLEAN]
          /\ sent \in Seq(Tasks) /\ got \in Seq(Tasks)

Waiting == Len(sent) - Len(got)

\* At most one thread is inside each half of the ring, and it holds the lock
\* of that half.
Exclusive == /\ \A p \in Pushers : pc[p] # "out" => w_lock
             /\ \A c \in Pullers : pc[c] # "out" => r_lock
             /\ \A p, r \in Pushers :
                    pc[p] # "out" /\ pc[r] # "out" => p = r
             /\ \A c, d \in Pullers :
                    pc[c] # "out" /\ pc[d] # "out" => c = d

\* The k-th slot from head on.
Slot(k) == IF head + k < Max THEN head + k ELSE head + k - Max

\* The slots from head on hold the tasks sent and not yet pulled, oldest
\* first, and head and tail are as far apart as there are such tasks.
Contents == /\ Len(sent) = Len(got) + Held
            /\ \A k \in Index :
                   k < Held => slots[Slot(k)] = sent[Len(got) + 1 + k]

\* What a copy in progress relies on: a free slot at tail or a task at head,
\* and the words copied so far equal to their source.
Copying == /\ \A p \in Pushers : pc[p] = "copy" =>
                  /\ Held < Max - 1
                  /\ \A w \in copied[p] : slots[tail][w] = task[p][w]
           /\ \A c \in Pullers : pc[c] = "copy" =>
                  /\ Held > 0
                  /\ \A w \in copied[c] : task[c][w] = slots[head][w]
           /\ \A t \in Threads : pc[t] # "copy" => copied[t] = {}

\* A push in progress never writes a slot that holds a task or that a pull is
\* reading, and the words between head and tail are those of whole tasks in
\* the order they were pushed: what lets pushes and pulls overlap unlocked.
RingInv == Exclusive /\ Contents /\ Copying

Fifo == INSTANCE FifoQueue WITH Msgs <- Tasks, Capacity <- Max - 1

\* The ring is a FIFO queue of max - 1 tasks: no task is lost, repeated,
\* overtaken or torn, however pushes and pulls overlap.
FifoSafe == Fifo!Init /\ [][Fifo!Next]_<<sent, got>>

\* And a task pushed is pulled as long as some thread keeps pulling.
ImplementsFifo == Fifo!Spec

\* A push is refused only at a moment when max - 1 tasks wait, and a pull
\* only at a moment when none does, whatever the other side is doing.
RefusedRightly == [][/\ \A p \in Pushers :
                           pc[p] = "check" /\ pc'[p] = "unlock"
                               => Waiting = Max - 1
                     /\ \A c \in Pullers :
                           pc[c] = "check" /\ pc'[c] = "unlock"
                               => Waiting = 0]_vars

=============================================================================
