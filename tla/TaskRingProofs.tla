--------------------------- MODULE TaskRingProofs ---------------------------
(***************************************************************************)
(* The ring of TaskRing is a FIFO queue of Max - 1 tasks, for every number *)
(* of slots, of pushing and pulling threads and of words in a task.        *)
(***************************************************************************)
EXTENDS TaskRing, TLAPS

Inv == TypeOK /\ RingInv

-----------------------------------------------------------------------------
\* The remainder by max only matters at the last slot.
LEMMA NextIndexIs ==
    ASSUME NEW i \in Index
    PROVE  NextIndex(i) = IF i = Max - 1 THEN 0 ELSE i + 1
<1>1. Max \in Nat /\ Max > 1
    BY RingAssumption
<1>2. CASE i = Max - 1
    BY <1>1, <1>2 DEF NextIndex, Index
<1>3. CASE i # Max - 1
    BY <1>1, <1>3 DEF NextIndex, Index
<1> QED BY <1>2, <1>3

\* Held in both cases, and the slot at its end: tail is the slot after the
\* last task that waits, and no waiting task is in it.
LEMMA HeldIs ==
    ASSUME head \in Index, tail \in Index
    PROVE  /\ Held \in Index
           /\ Slot(Held) = tail
           /\ Slot(0) = head
           /\ \A k \in Index : Slot(k) \in Index
           /\ \A k \in Index : k < Held => Slot(k) # tail
<1>1. Max \in Nat /\ Max > 1
    BY RingAssumption
<1> QED BY <1>1 DEF Held, Slot, Index

LEMMA BlankIsTask == Blank \in Tasks
BY RingAssumption DEF Blank, Tasks

\* A step of a thread moves no other thread and keeps the program counters,
\* the copies and the results what they should be.
LEMMA TypeInv == TypeOK /\ [Next]_vars => TypeOK'
<1> SUFFICES ASSUME TypeOK, [Next]_vars PROVE TypeOK'
    OBVIOUS
<1> USE RingAssumption DEF TypeOK
<1>0. ASSUME NEW i \in Index PROVE NextIndex(i) \in Index
    BY NextIndexIs DEF Index
<1>1. CASE UNCHANGED vars
    BY <1>1 DEF vars
<1>2. ASSUME NEW p \in Pushers, NEW m \in Tasks, PushLock(p, m) PROVE TypeOK'
    BY <1>2 DEF PushLock, Threads, shared, history
<1>3. ASSUME NEW p \in Pushers, PushCheck(p) PROVE TypeOK'
    BY <1>3 DEF PushCheck, Threads, shared, history, locks
<1>4. ASSUME NEW p \in Pushers, NEW w \in Words, PushCopy(p, w) PROVE TypeOK'
  <2>1. slots' \in [Index -> Tasks]
    BY <1>4 DEF PushCopy, Threads, Tasks
  <2> QED BY <1>4, <2>1 DEF PushCopy, Threads, history, locks
<1>5. ASSUME NEW p \in Pushers, PushAdvance(p) PROVE TypeOK'
  <2>1. sent' \in Seq(Tasks)
    BY <1>5 DEF PushAdvance, Threads
  <2> QED BY <1>0, <1>5, <2>1 DEF PushAdvance, Threads, locks
<1>6. ASSUME NEW p \in Pushers, PushUnlock(p) PROVE TypeOK'
    BY <1>6, BlankIsTask DEF PushUnlock, Threads, shared, history
<1>7. ASSUME NEW c \in Pullers, PullLock(c) PROVE TypeOK'
    BY <1>7 DEF PullLock, Threads, shared, history
<1>8. ASSUME NEW c \in Pullers, PullCheck(c) PROVE TypeOK'
    BY <1>8 DEF PullCheck, Threads, shared, history, locks
<1>9. ASSUME NEW c \in Pullers, NEW w \in Words, PullCopy(c, w) PROVE TypeOK'
  <2>1. slots[head][w] \in Values
    BY DEF Tasks
  <2>2. task' \in [Threads -> Tasks]
    BY <1>9, <2>1 DEF PullCopy, Threads, Tasks
  <2> QED BY <1>9, <2>2 DEF PullCopy, Threads, shared, history, locks
<1>10. ASSUME NEW c \in Pullers, PullAdvance(c) PROVE TypeOK'
  <2>1. got' \in Seq(Tasks)
    BY <1>10 DEF PullAdvance, Threads
  <2> QED BY <1>0, <1>10, <2>1 DEF PullAdvance, Threads, locks
<1>11. ASSUME NEW c \in Pullers, PullUnlock(c) PROVE TypeOK'
    BY <1>11, BlankIsTask DEF PullUnlock, Threads, shared, history
<1> QED
    BY <1>1, <1>2, <1>3, <1>4, <1>5, <1>6, <1>7, <1>8, <1>9, <1>10, <1>11
    DEF Next, PushStep, PullStep

\* The two locks exclude the threads of a side from each other.
LEMMA ExclusiveInv == TypeOK /\ Exclusive /\ [Next]_vars => Exclusive'
<1> SUFFICES ASSUME TypeOK, Exclusive, [Next]_vars PROVE Exclusive'
    OBVIOUS
<1> USE RingAssumption DEF TypeOK, Exclusive, Threads
<1>1. CASE UNCHANGED vars
    BY <1>1 DEF vars
<1>2. ASSUME NEW p \in Pushers, NEW m \in Tasks, PushLock(p, m)
      PROVE Exclusive'
    BY <1>2 DEF PushLock
<1>3. ASSUME NEW p \in Pushers, PushCheck(p) PROVE Exclusive'
    BY <1>3 DEF PushCheck, locks
<1>4. ASSUME NEW p \in Pushers, NEW w \in Words, PushCopy(p, w)
      PROVE Exclusive'
    BY <1>4 DEF PushCopy, locks
<1>5. ASSUME NEW p \in Pushers, PushAdvance(p) PROVE Exclusive'
    BY <1>5 DEF PushAdvance, locks
<1>6. ASSUME NEW p \in Pushers, PushUnlock(p) PROVE Exclusive'
    BY <1>6 DEF PushUnlock
<1>7. ASSUME NEW c \in Pullers, PullLock(c) PROVE Exclusive'
    BY <1>7 DEF PullLock
<1>8. ASSUME NEW c \in Pullers, PullCheck(c) PROVE Exclusive'
    BY <1>8 DEF PullCheck, locks
<1>9. ASSUME NEW c \in Pullers, NEW w \in Words, PullCopy(c, w)
      PROVE Exclusive'
    BY <1>9 DEF PullCopy, locks
<1>10. ASSUME NEW c \in Pullers, PullAdvance(c) PROVE Exclusive'
    BY <1>10 DEF PullAdvance, locks
<1>11. ASSUME NEW c \in Pullers, PullUnlock(c) PROVE Exclusive'
    BY <1>11 DEF PullUnlock
<1> QED
    BY <1>1, <1>2, <1>3, <1>4, <1>5, <1>6, <1>7, <1>8, <1>9, <1>10, <1>11
    DEF Next, PushStep, PullStep

\* The task whose memcpy has ended is in its slot, whole.
LEMMA CopiedWhole ==
    ASSUME TypeOK, RingInv
    PROVE  /\ \A p \in Pushers : pc[p] = "copy" /\ copied[p] = Words
                  => slots[tail] = task[p]
           /\ \A c \in Pullers : pc[c] = "copy" /\ copied[c] = Words
                  => task[c] = slots[head]
<1>1. \A t \in Threads : task[t] \in Tasks
    BY DEF TypeOK
<1>2. slots[tail] \in Tasks /\ slots[head] \in Tasks
    BY DEF TypeOK
<1>3. ASSUME NEW a \in Tasks, NEW b \in Tasks, \A w \in Words : a[w] = b[w]
      PROVE  a = b
    BY <1>3 DEF Tasks
<1> QED BY <1>1, <1>2, <1>3 DEF RingInv, Copying, Threads

\* Moving tail adds the new task behind those that wait; moving head takes
\* the oldest; copying writes none of their slots.
LEMMA ContentsInv == TypeOK /\ RingInv /\ [Next]_vars => Contents'
<1> SUFFICES ASSUME TypeOK, RingInv, [Next]_vars PROVE Contents'
    OBVIOUS
<1>0. /\ Max \in Nat /\ Max > 1
      /\ head \in Index /\ tail \in Index
      /\ sent \in Seq(Tasks) /\ got \in Seq(Tasks)
      /\ slots \in [Index -> Tasks]
    BY RingAssumption DEF TypeOK
<1>C. Contents
    BY DEF RingInv
<1>H. /\ Held \in Index
      /\ Slot(Held) = tail
      /\ Slot(0) = head
      /\ \A k \in Index : Slot(k) \in Index
      /\ \A k \in Index : k < Held => Slot(k) # tail
    BY <1>0, HeldIs
<1>S. ASSUME UNCHANGED <<head, tail, slots, sent, got>>
      PROVE  Contents'
    BY <1>C, <1>S DEF Contents, Held, Slot
<1>1. CASE UNCHANGED vars
    BY <1>1, <1>S DEF vars
<1>2. ASSUME NEW p \in Pushers, NEW m \in Tasks, PushLock(p, m)
      PROVE Contents'
    BY <1>2, <1>S DEF PushLock, shared, history
<1>3. ASSUME NEW p \in Pushers, PushCheck(p) PROVE Contents'
    BY <1>3, <1>S DEF PushCheck, shared, history
<1>4. ASSUME NEW p \in Pushers, NEW w \in Words, PushCopy(p, w)
      PROVE Contents'
  <2>1. UNCHANGED <<head, tail, sent, got>>
    BY <1>4 DEF PushCopy, history
  <2>2. \A i \in Index : i # tail => slots'[i] = slots[i]
    BY <1>0, <1>4 DEF PushCopy
  <2>3. Held' = Held /\ \A k : Slot(k)' = Slot(k)
    BY <2>1 DEF Held, Slot
  <2> QED BY <2>1, <2>2, <2>3, <1>C, <1>H DEF Contents
<1>5. ASSUME NEW p \in Pushers, PushAdvance(p) PROVE Contents'
  <2>1. /\ head' = head /\ got' = got /\ slots' = slots
        /\ tail' = NextIndex(tail)
        /\ sent' = Append(sent, task[p])
    BY <1>5 DEF PushAdvance
  <2>2. slots[tail] = task[p] /\ Held < Max - 1 /\ task[p] \in Tasks
    BY <1>5, CopiedWhole DEF PushAdvance, RingInv, Copying, TypeOK, Threads
  <2>3. tail' = IF tail = Max - 1 THEN 0 ELSE tail + 1
    BY <2>1, <1>0, NextIndexIs
  <2>4. Held' = Held + 1
    BY <1>0, <2>1, <2>2, <2>3 DEF Held, Index
  <2>5. \A k : Slot(k)' = Slot(k)
    BY <2>1 DEF Slot
  <2>6. Len(sent) = Len(got) + Held /\ Held \in Nat /\ Len(got) \in Nat
    BY <1>C, <1>H, <1>0 DEF Contents, Index
  <2>7. /\ Len(sent') = Len(sent) + 1
        /\ sent'[Len(sent) + 1] = task[p]
        /\ \A j \in 1 .. Len(sent) : sent'[j] = sent[j]
    BY <1>0, <2>1, <2>2
  <2>8. ASSUME NEW k \in Index, k < Held'
        PROVE  slots[Slot(k)] = sent'[Len(got) + 1 + k]
    <3>1. CASE k = Held
        BY <3>1, <2>2, <2>6, <2>7, <1>H
    <3>2. CASE k < Held
      <4>1. Len(got) + 1 + k \in 1 .. Len(sent)
        BY <3>2, <2>6 DEF Index
      <4> QED BY <3>2, <4>1, <2>7, <1>C DEF Contents
    <3> QED BY <2>8, <2>4, <2>6, <3>1, <3>2 DEF Index
  <2>9. Len(sent') = Len(got') + Held'
    BY <2>1, <2>4, <2>6, <2>7
  <2>10. \A k \in Index : k < Held' => slots'[Slot(k)'] = sent'[Len(got') + 1 + k]
    BY <2>1, <2>5, <2>8
  <2> QED BY <2>9, <2>10 DEF Contents
<1>6. ASSUME NEW p \in Pushers, PushUnlock(p) PROVE Contents'
    BY <1>6, <1>S DEF PushUnlock, shared, history
<1>7. ASSUME NEW c \in Pullers, PullLock(c) PROVE Contents'
    BY <1>7, <1>S DEF PullLock, shared, history
<1>8. ASSUME NEW c \in Pullers, PullCheck(c) PROVE Contents'
    BY <1>8, <1>S DEF PullCheck, shared, history
<1>9. ASSUME NEW c \in Pullers, NEW w \in Words, PullCopy(c, w)
      PROVE Contents'
    BY <1>9, <1>S DEF PullCopy, shared, history
<1>10. ASSUME NEW c \in Pullers, PullAdvance(c) PROVE Contents'
  <2>1. /\ tail' = tail /\ sent' = sent /\ slots' = slots
        /\ head' = NextIndex(head)
        /\ got' = Append(got, task[c])
    BY <1>10 DEF PullAdvance
  <2>2. Held > 0 /\ task[c] \in Tasks
    BY <1>10 DEF PullAdvance, RingInv, Copying, TypeOK, Threads
  <2>3. head' = IF head = Max - 1 THEN 0 ELSE head + 1
    BY <2>1, <1>0, NextIndexIs
  <2>4. Held' = Held - 1
    BY <1>0, <2>1, <2>2, <2>3 DEF Held, Index
  <2>5. \A k \in Index : k < Held - 1 => Slot(k)' = Slot(k + 1)
    BY <1>0, <1>H, <2>1, <2>3 DEF Slot, Index
  <2>6. Len(sent) = Len(got) + Held /\ Len(got) \in Nat
    BY <1>C, <1>0 DEF Contents
  <2>7. Len(got') = Len(got) + 1
    BY <1>0, <2>1, <2>2
  <2>8. ASSUME NEW k \in Index, k < Held'
        PROVE  slots[Slot(k)'] = sent[Len(got') + 1 + k]
    <3>1. k + 1 \in Index /\ k + 1 < Held
        BY <2>8, <2>4, <1>H, <1>0 DEF Index
    <3>2. slots[Slot(k + 1)] = sent[Len(got) + 1 + (k + 1)]
        BY <3>1, <1>C DEF Contents
    <3>3. Len(got) + 1 + (k + 1) = Len(got') + 1 + k
        BY <2>6, <2>7 DEF Index
    <3> QED BY <3>1, <3>2, <3>3, <2>5, <2>8, <2>4, <1>0, <1>H DEF Index
  <2>9. Len(sent') = Len(got') + Held'
    BY <2>1, <2>4, <2>6, <2>7, <1>H DEF Index
  <2> QED BY <2>1, <2>8, <2>9 DEF Contents
<1>11. ASSUME NEW c \in Pullers, PullUnlock(c) PROVE Contents'
    BY <1>11, <1>S DEF PullUnlock, shared, history
<1> QED
    BY <1>1, <1>2, <1>3, <1>4, <1>5, <1>6, <1>7, <1>8, <1>9, <1>10, <1>11
    DEF Next, PushStep, PullStep

\* A copy in progress keeps its room: the other side can only make more of
\* it, and writes none of the words the copy has already seen.
LEMMA CopyingInv == TypeOK /\ RingInv /\ [Next]_vars => Copying'
<1> SUFFICES ASSUME TypeOK, RingInv, [Next]_vars PROVE Copying'
    OBVIOUS
<1>0. /\ Max \in Nat /\ Max > 1
      /\ head \in Index /\ tail \in Index
      /\ slots \in [Index -> Tasks]
      /\ pc \in [Threads -> {"out", "check", "copy", "unlock"}]
      /\ task \in [Threads -> Tasks]
      /\ copied \in [Threads -> SUBSET Words]
      /\ Pushers \cap Pullers = {}
    BY RingAssumption DEF TypeOK
<1>E. Exclusive /\ Copying
    BY DEF RingInv
<1>H. Held \in Index /\ (Held = 0 <=> head = tail)
    BY <1>0 DEF Held, Index
<1>1. CASE UNCHANGED vars
    BY <1>1, <1>E DEF vars, Copying, Held
<1>2. ASSUME NEW p \in Pushers, NEW m \in Tasks, PushLock(p, m)
      PROVE Copying'
    BY <1>0, <1>2, <1>E DEF PushLock, shared, history, Copying, Threads, Held
<1>3. ASSUME NEW p \in Pushers, PushCheck(p) PROVE Copying'
  <2>1. UNCHANGED <<head, tail, slots, task, copied>>
    BY <1>3 DEF PushCheck, shared
  <2>2. Held' = Held
    BY <2>1 DEF Held
  <2>3. head # NextIndex(tail) => Held < Max - 1
    BY <1>0, NextIndexIs DEF Held, Index
  <2>4. copied[p] = {}
    BY <1>3, <1>E DEF PushCheck, Copying, Threads
  <2> QED
    BY <1>0, <1>3, <1>E, <2>1, <2>2, <2>3, <2>4 DEF PushCheck, Copying, Threads
<1>4. ASSUME NEW p \in Pushers, NEW w \in Words, PushCopy(p, w)
      PROVE Copying'
  <2>1. UNCHANGED <<head, tail, task, pc>> /\ Held' = Held
    BY <1>4 DEF PushCopy, Held
  <2>2. /\ slots'[tail] = [slots[tail] EXCEPT ![w] = task[p][w]]
        /\ \A i \in Index : i # tail => slots'[i] = slots[i]
    BY <1>0, <1>4 DEF PushCopy
  <2>3. /\ copied'[p] = copied[p] \cup {w}
        /\ \A t \in Threads : t # p => copied'[t] = copied[t]
        /\ pc[p] = "copy"
    BY <1>0, <1>4 DEF PushCopy, Threads
  <2>4. \A r \in Pushers : pc[r] = "copy" => r = p
    BY <2>3, <1>E DEF Exclusive
  <2>5. \A v \in copied[p] \cup {w} : slots'[tail][v] = task[p][v]
    BY <1>0, <1>E, <2>2, <2>3 DEF Copying, Tasks, Threads
  <2>6. \A c \in Pullers : pc[c] = "copy" => head # tail /\ c # p
    BY <1>0, <1>E, <1>H DEF Copying, Index
  <2>7. \A r \in Pushers : pc'[r] = "copy" =>
            /\ Held' < Max - 1
            /\ \A v \in copied'[r] : slots'[tail'][v] = task'[r][v]
    BY <1>E, <2>1, <2>3, <2>4, <2>5 DEF Copying
  <2>8. \A c \in Pullers : pc'[c] = "copy" =>
            /\ Held' > 0
            /\ \A v \in copied'[c] : task'[c][v] = slots'[head'][v]
    BY <1>0, <1>E, <2>1, <2>2, <2>3, <2>6 DEF Copying, Threads
  <2>9. \A t \in Threads : pc'[t] # "copy" => copied'[t] = {}
    BY <1>E, <2>1, <2>3 DEF Copying
  <2> QED BY <2>7, <2>8, <2>9 DEF Copying
<1>5. ASSUME NEW p \in Pushers, PushAdvance(p) PROVE Copying'
  <2>1. /\ UNCHANGED <<head, slots, task>>
        /\ pc' = [pc EXCEPT ![p] = "unlock"]
        /\ copied' = [copied EXCEPT ![p] = {}]
    BY <1>5 DEF PushAdvance
  <2>2. tail' = IF tail = Max - 1 THEN 0 ELSE tail + 1
    BY <1>0, <1>5, NextIndexIs DEF PushAdvance
  <2>3. Held < Max - 1
    BY <1>5, <1>E DEF PushAdvance, Copying
  <2>4. Held' = Held + 1
    BY <1>0, <2>1, <2>2, <2>3 DEF Held, Index
  <2>5. \A r \in Pushers : pc'[r] # "copy"
    BY <1>0, <1>5, <1>E, <2>1 DEF PushAdvance, Exclusive, Threads
  <2>6. \A c \in Pullers : pc'[c] = "copy" =>
            /\ Held' > 0
            /\ \A v \in copied'[c] : task'[c][v] = slots'[head'][v]
    BY <1>0, <1>E, <1>H, <2>1, <2>4 DEF Copying, Threads, Index
  <2>7. \A t \in Threads : pc'[t] # "copy" => copied'[t] = {}
    BY <1>0, <1>E, <2>1 DEF Copying
  <2> QED BY <2>5, <2>6, <2>7 DEF Copying
<1>6. ASSUME NEW p \in Pushers, PushUnlock(p) PROVE Copying'
    BY <1>0, <1>6, <1>E DEF PushUnlock, shared, history, Copying, Threads, Held
<1>7. ASSUME NEW c \in Pullers, PullLock(c) PROVE Copying'
    BY <1>0, <1>7, <1>E DEF PullLock, shared, history, Copying, Threads, Held
<1>8. ASSUME NEW c \in Pullers, PullCheck(c) PROVE Copying'
  <2>1. UNCHANGED <<head, tail, slots, task, copied>>
    BY <1>8 DEF PullCheck, shared
  <2>2. Held' = Held /\ (head # tail => Held > 0)
    BY <2>1, <1>H DEF Held, Index
  <2>3. copied[c] = {}
    BY <1>8, <1>E DEF PullCheck, Copying, Threads
  <2> QED
    BY <1>0, <1>8, <1>E, <2>1, <2>2, <2>3 DEF PullCheck, Copying, Threads
<1>9. ASSUME NEW c \in Pullers, NEW w \in Words, PullCopy(c, w)
      PROVE Copying'
  <2>1. UNCHANGED <<head, tail, slots, pc>> /\ Held' = Held
    BY <1>9 DEF PullCopy, shared, Held
  <2>2. /\ task'[c] = [task[c] EXCEPT ![w] = slots[head][w]]
        /\ \A t \in Threads : t # c => task'[t] = task[t]
    BY <1>0, <1>9 DEF PullCopy, Threads
  <2>3. /\ copied'[c] = copied[c] \cup {w}
        /\ \A t \in Threads : t # c => copied'[t] = copied[t]
        /\ pc[c] = "copy"
    BY <1>0, <1>9 DEF PullCopy, Threads
  <2>4. \A v \in copied[c] \cup {w} : task'[c][v] = slots[head][v]
    BY <1>0, <1>E, <2>2, <2>3 DEF Copying, Tasks, Threads
  <2>5. \A p \in Pushers : pc'[p] = "copy" =>
            /\ Held' < Max - 1
            /\ \A v \in copied'[p] : slots'[tail'][v] = task'[p][v]
    BY <1>0, <1>E, <2>1, <2>2, <2>3 DEF Copying, Threads
  <2>6. \A d \in Pullers : pc'[d] = "copy" =>
            /\ Held' > 0
            /\ \A v \in copied'[d] : task'[d][v] = slots'[head'][v]
    BY <1>E, <2>1, <2>3, <2>4 DEF Copying, Exclusive
  <2>7. \A t \in Threads : pc'[t] # "copy" => copied'[t] = {}
    BY <1>E, <2>1, <2>3 DEF Copying
  <2> QED BY <2>5, <2>6, <2>7 DEF Copying
<1>10. ASSUME NEW c \in Pullers, PullAdvance(c) PROVE Copying'
  <2>1. /\ UNCHANGED <<tail, slots, task>>
        /\ pc' = [pc EXCEPT ![c] = "unlock"]
        /\ copied' = [copied EXCEPT ![c] = {}]
    BY <1>10 DEF PullAdvance
  <2>2. head' = IF head = Max - 1 THEN 0 ELSE head + 1
    BY <1>0, <1>10, NextIndexIs DEF PullAdvance
  <2>3. Held > 0
    BY <1>10, <1>E DEF PullAdvance, Copying
  <2>4. Held' = Held - 1
    BY <1>0, <2>1, <2>2, <2>3 DEF Held, Index
  <2>5. \A d \in Pullers : pc'[d] # "copy"
    BY <1>0, <1>10, <1>E, <2>1 DEF PullAdvance, Exclusive, Threads
  <2>6. \A p \in Pushers : pc'[p] = "copy" =>
            /\ Held' < Max - 1
            /\ \A v \in copied'[p] : slots'[tail'][v] = task'[p][v]
    BY <1>0, <1>E, <1>H, <2>1, <2>4 DEF Copying, Threads, Index
  <2>7. \A t \in Threads : pc'[t] # "copy" => copied'[t] = {}
    BY <1>0, <1>E, <2>1 DEF Copying
  <2> QED BY <2>5, <2>6, <2>7 DEF Copying
<1>11. ASSUME NEW c \in Pullers, PullUnlock(c) PROVE Copying'
    BY <1>0, <1>11, <1>E DEF PullUnlock, shared, history, Copying, Threads, Held
<1> QED
    BY <1>1, <1>2, <1>3, <1>4, <1>5, <1>6, <1>7, <1>8, <1>9, <1>10, <1>11
    DEF Next, PushStep, PullStep

LEMMA InitInv == Init => Inv
<1> SUFFICES ASSUME Init PROVE Inv
    OBVIOUS
<1> USE RingAssumption, BlankIsTask DEF Init
<1>1. TypeOK
  <2>1. head \in Index /\ tail \in Index
    BY DEF Index
  <2>2. sent \in Seq(Tasks) /\ got \in Seq(Tasks)
    OBVIOUS
  <2>3. slots \in [Index -> Tasks] /\ task \in [Threads -> Tasks]
    OBVIOUS
  <2>4. /\ w_lock \in BOOLEAN /\ r_lock \in BOOLEAN
        /\ pc \in [Threads -> {"out", "check", "copy", "unlock"}]
        /\ copied \in [Threads -> SUBSET Words]
        /\ ok \in [Threads -> BOOLEAN]
    OBVIOUS
  <2> QED BY <2>1, <2>2, <2>3, <2>4 DEF TypeOK
<1>2. Exclusive
    BY DEF Exclusive, Threads
<1>3. Contents
    BY DEF Contents, Held, Index
<1>4. Copying
    BY DEF Copying, Threads
<1> QED BY <1>1, <1>2, <1>3, <1>4 DEF Inv, RingInv

\* The ring's invariant, for every number of slots and threads: whole tasks
\* between head and tail, a free slot under every push in progress, a task
\* under every pull in progress, one thread on each side.
THEOREM RingSafety == Spec => [](TypeOK /\ RingInv)
<1>1. Inv /\ [Next]_vars => Inv'
    BY TypeInv, ExclusiveInv, ContentsInv, CopyingInv DEF Inv, RingInv
<1> QED BY <1>1, InitInv, PTL DEF Spec, Inv

\* Every step of the ring is a put, a get or nothing to the abstract queue.
LEMMA StepIsFifo == Inv /\ [Next]_vars => [Fifo!Next]_<<sent, got>>
<1> SUFFICES ASSUME Inv, [Next]_vars PROVE [Fifo!Next]_<<sent, got>>
    OBVIOUS
<1>0. /\ Max \in Nat /\ Max > 1
      /\ head \in Index /\ tail \in Index
      /\ sent \in Seq(Tasks) /\ got \in Seq(Tasks)
      /\ task \in [Threads -> Tasks]
    BY RingAssumption DEF Inv, TypeOK
<1>I. TypeOK /\ RingInv /\ Contents /\ Copying
    BY DEF Inv, RingInv
<1>H. Held \in Index /\ Slot(0) = head
    BY <1>0, HeldIs
<1>L. Len(sent) = Len(got) + Held
    BY <1>I DEF Contents
<1>5. ASSUME NEW p \in Pushers, PushAdvance(p) PROVE Fifo!Next
  <2>1. Held < Max - 1 /\ task[p] \in Tasks
    BY <1>0, <1>5, <1>I DEF PushAdvance, Copying, Threads
  <2>2. Len(sent) - Len(got) < Max - 1
    BY <1>0, <1>H, <1>L, <2>1 DEF Index
  <2>3. Fifo!Put(task[p])
    BY <1>5, <2>2 DEF PushAdvance, Fifo!Put, Fifo!Waiting
  <2> QED BY <2>1, <2>3 DEF Fifo!Next
<1>10. ASSUME NEW c \in Pullers, PullAdvance(c) PROVE Fifo!Next
  <2>1. Held > 0 /\ task[c] = slots[head]
    BY <1>10, <1>I, CopiedWhole DEF PullAdvance, Copying
  <2>2. slots[Slot(0)] = sent[Len(got) + 1 + 0]
    BY <1>0, <1>H, <1>I, <2>1 DEF Contents, Index
  <2>3. task[c] = sent[Len(got) + 1]
    BY <1>0, <1>H, <2>1, <2>2
  <2>4. Len(sent) - Len(got) > 0
    BY <1>0, <1>H, <1>L, <2>1 DEF Index
  <2>5. Fifo!Get
    BY <1>10, <2>3, <2>4 DEF PullAdvance, Fifo!Get, Fifo!Waiting
  <2> QED BY <2>5 DEF Fifo!Next
<1>20. ASSUME UNCHANGED history PROVE [Fifo!Next]_<<sent, got>>
    BY <1>20 DEF history
<1>1. CASE UNCHANGED vars
    BY <1>1, <1>20 DEF vars, history
<1>2. ASSUME NEW p \in Pushers, NEW m \in Tasks, PushLock(p, m)
      PROVE [Fifo!Next]_<<sent, got>>
    BY <1>2, <1>20 DEF PushLock
<1>3. ASSUME NEW p \in Pushers, PushStep(p), ~PushAdvance(p)
      PROVE [Fifo!Next]_<<sent, got>>
    BY <1>3, <1>20 DEF PushStep, PushCheck, PushCopy, PushUnlock
<1>4. ASSUME NEW c \in Pullers, PullLock(c)
      PROVE [Fifo!Next]_<<sent, got>>
    BY <1>4, <1>20 DEF PullLock
<1>6. ASSUME NEW c \in Pullers, PullStep(c), ~PullAdvance(c)
      PROVE [Fifo!Next]_<<sent, got>>
    BY <1>6, <1>20 DEF PullStep, PullCheck, PullCopy, PullUnlock
<1> QED BY <1>1, <1>2, <1>3, <1>4, <1>5, <1>6, <1>10 DEF Next

\* The ring implements the safety part of FifoQueue with room for max - 1
\* tasks, for any number of slots, threads and words: tasks leave whole, once
\* and in the order in which they were pushed.
THEOREM RingImplementsFifo == Spec => FifoSafe
<1>1. Init => Fifo!Init
    BY DEF Init, Fifo!Init
<1>2. Spec => []Inv
    BY RingSafety DEF Inv
<1> QED BY <1>1, <1>2, StepIsFifo, PTL DEF Spec, FifoSafe

\* A push that returns false met a full ring, a pull that returns false an
\* empty one, although neither side reads the other's index under a lock.
THEOREM RingRefusesRightly == Spec => RefusedRightly
<1> DEFINE A == /\ \A p \in Pushers :
                      pc[p] = "check" /\ pc'[p] = "unlock" => Waiting = Max - 1
                /\ \A c \in Pullers :
                      pc[c] = "check" /\ pc'[c] = "unlock" => Waiting = 0
<1>1. Inv /\ [Next]_vars => [A]_vars
  <2> SUFFICES ASSUME Inv, Next PROVE A
    OBVIOUS
  <2>0. /\ Max \in Nat /\ Max > 1
        /\ head \in Index /\ tail \in Index
        /\ sent \in Seq(Tasks) /\ got \in Seq(Tasks)
        /\ pc \in [Threads -> {"out", "check", "copy", "unlock"}]
        /\ Pushers \cap Pullers = {}
    BY RingAssumption DEF Inv, TypeOK
  <2>1. Held \in Index /\ Waiting = Held
    BY <2>0, HeldIs DEF Inv, RingInv, Contents, Waiting, Index
  <2>2. /\ head = NextIndex(tail) => Held = Max - 1
        /\ head = tail => Held = 0
    BY <2>0, NextIndexIs DEF Held, Index
  <2>3. ASSUME NEW p \in Pushers, pc[p] = "check", pc'[p] = "unlock"
        PROVE  PushCheck(p) /\ head = NextIndex(tail)
    <3>1. PushCheck(p)
      BY <2>0, <2>3 DEF Next, PushStep, PullStep, PushLock, PushCheck, PushCopy,
         PushAdvance, PushUnlock, PullLock, PullCheck, PullCopy, PullAdvance,
         PullUnlock, Threads
    <3> QED BY <2>0, <2>3, <3>1 DEF PushCheck, Threads
  <2>4. ASSUME NEW c \in Pullers, pc[c] = "check", pc'[c] = "unlock"
        PROVE  PullCheck(c) /\ head = tail
    <3>1. PullCheck(c)
      BY <2>0, <2>4 DEF Next, PushStep, PullStep, PushLock, PushCheck, PushCopy,
         PushAdvance, PushUnlock, PullLock, PullCheck, PullCopy, PullAdvance,
         PullUnlock, Threads
    <3> QED BY <2>0, <2>4, <3>1 DEF PullCheck, Threads
  <2> QED BY <2>1, <2>2, <2>3, <2>4
<1>2. Spec => []Inv
    BY RingSafety DEF Inv
<1> QED BY <1>1, <1>2, PTL DEF Spec, RefusedRightly

=============================================================================
