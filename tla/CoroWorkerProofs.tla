-------------------------- MODULE CoroWorkerProofs --------------------------
(***************************************************************************)
(* Proofs about CoroWorker, for any number of coroutines and tasks and any *)
(* sizes of the slots: the ring stays sound while coroutines are supplied, *)
(* pushed, resumed and popped, no task is lost or run twice, and a WHOLE   *)
(* task is a barrier.                                                      *)
(***************************************************************************)
EXTENDS CoroWorker, FiniteSetTheorems, TLAPS

-----------------------------------------------------------------------------
\* The inductive invariant.

\* No element of a sequence occurs twice.
NoTwice(s) == \A i, j \in 1 .. Len(s) : s[i] = s[j] => i = j

\* Where the loop is decides what the rest looks like: coroutines run, and
\* main leaves the loop or goes to the first one, with nothing left to push;
\* and tasks are supplied to few coroutines, one for each turn of that loop.
LoopInv == /\ mode # "abort"
           /\ mode \in {"turn", "first"} => chain = <<>>
           /\ mode = "supply" => Len(ring) <= LowSlot /\ Len(chain) = step
           /\ cur # Main => mode = "turn" /\ exec = cur

\* The ring and the chain: who is in one of them, and its status.
RingInv == /\ NoTwice(ring) /\ NoTwice(chain)
           /\ Members(ring) \cap Members(chain) = {}
           /\ exec \in Members(ring) \cup {Main}
           /\ \A c \in Coros : c \in Members(ring) <=> ~Useable(c)
           /\ \A c \in Members(chain) : status[c] = "initial" /\ at[c] = "start"
           /\ \A c \in Coros : at[c] # "out" <=> c \in Members(ring) \cup Members(chain)
           /\ \A c \in Coros : status[c] = "running" <=> c = cur

\* While tasks are supplied, the coroutines of the chain lie behind nxt, and
\* between the first of them and nxt every coroutine is in use: the search
\* from nxt on comes to a coroutine of the chain only after all others.
NxtInv == mode = "supply" =>
            \E t \in 0 .. Num :
               \A i \in 0 .. Num - 1 :
                  /\ i < t => Offset(i) \notin Members(chain)
                  /\ i >= t => Offset(i) \in Members(chain) \cup Members(ring)

\* The number of tasks given to a coroutine so far: tasks are given in the
\* order in which they were pushed.
Given == IF have THEN Len(kind) - Len(list) - 1 ELSE Len(kind) - Len(list)

ListInv == /\ Len(kind) <= MaxTasks
           /\ Given >= 0
           /\ \A i \in 1 .. Len(list) : list[i] = Len(kind) - Len(list) + i
           /\ have => temp = Given + 1

\* The tasks given out: each is done or with one coroutine, and its function
\* has been entered unless the coroutine is at the start.
TaskInv == /\ done \subseteq begun /\ begun \subseteq 1 .. Given
           /\ \A c \in Coros : at[c] # "out" =>
                 task[c] \in 1 .. Given /\ task[c] \notin done
           /\ \A c \in Coros : at[c] = "start" => task[c] \notin begun
           /\ \A c \in Coros : at[c] = "run" => task[c] \in begun
           /\ \A c, d \in Coros :
                 at[c] # "out" /\ at[d] # "out" /\ task[c] = task[d] => c = d
           /\ \A k \in 1 .. Given :
                 k \in done \/ \E c \in Coros : at[c] # "out" /\ task[c] = k

\* Only the task given out last may be a WHOLE task that has not returned,
\* and airing counts it.
Airing == Given > 0 /\ kind[Given] = "WHOLE" /\ Given \notin done

BarrierInv == /\ airing = IF Airing THEN 1 ELSE 0
              /\ \A k \in 1 .. Given : kind[k] = "WHOLE" => k = Given \/ k \in done
              /\ \A k \in begun : kind[k] = "WHOLE" => 1 .. k - 1 \subseteq done

CoroInv == /\ TypeOK /\ LoopInv /\ RingInv /\ NxtInv
           /\ ListInv /\ TaskInv /\ BarrierInv

-----------------------------------------------------------------------------
\* Numbers and sequences.

\* A set of numbers that is not empty has a least one (the search of
\* supply_idle_fetch ends at the first idle coroutine).
LEMMA LeastNumber ==
    ASSUME NEW S \in SUBSET Nat, S # {}
    PROVE  \E i \in S : \A j \in S : i <= j
  <1>1. IsWellFoundedOn(OpToRel(<, Nat), Nat)
    BY NatLessThanWellFounded
  <1>2. PICK R : R = OpToRel(<, Nat)
    OBVIOUS
  <1>3. PICK i \in S : \A j \in S : ~(<<j, i>> \in R)
    BY <1>1, <1>2, WFMin
  <1>4. \A j \in S : j < i => <<j, i>> \in R
    BY <1>2, Zenon DEF OpToRel
  <1>5. \A j \in S : j \in Nat /\ i \in Nat /\ ~(j < i)
    BY <1>3, <1>4
  <1> QED
    BY <1>5

\* The constants are positive numbers, and there are enough coroutines.
LEMMA Sizes == /\ Num \in Nat \ {0} /\ AddStep \in Nat \ {0}
               /\ LowSlot \in Nat \ {0} /\ MaxTasks \in Nat \ {0}
               /\ Num >= LowSlot + AddStep
  BY CoroAssumption

\* The remainders that the round through the coroutines takes.
LEMMA Remainder ==
    ASSUME NEW n \in Nat \ {0}
    PROVE  /\ \A x \in 0 .. n - 1 : x % n = x
           /\ \A x \in n .. 2 * n - 1 : x % n = x - n
  OBVIOUS

\* A coroutine put at the end is a new member.
LEMMA MembersAppend ==
    ASSUME NEW s \in Seq(Coros), NEW e \in Coros
    PROVE  /\ Members(Append(s, e)) = Members(s) \cup {e}
           /\ NoTwice(s) /\ e \notin Members(s) => NoTwice(Append(s, e))
  <1>1. /\ Len(Append(s, e)) = Len(s) + 1
        /\ \A i \in 1 .. Len(s) : Append(s, e)[i] = s[i]
        /\ Append(s, e)[Len(s) + 1] = e
    OBVIOUS
  <1>2. 1 .. Len(s) + 1 = (1 .. Len(s)) \cup {Len(s) + 1}
    OBVIOUS
  <1>3. Members(Append(s, e)) = Members(s) \cup {e}
    BY <1>1, <1>2 DEF Members
  <1>4. ASSUME NoTwice(s), e \notin Members(s)
        PROVE  NoTwice(Append(s, e))
    BY <1>1, <1>2, <1>4 DEF Members, NoTwice
  <1> QED
    BY <1>3, <1>4

\* What is left without the first member.
LEMMA MembersTail ==
    ASSUME NEW s \in Seq(Coros), s # <<>>, NoTwice(s)
    PROVE  /\ Head(s) \in Members(s)
           /\ Members(Tail(s)) = Members(s) \ {Head(s)}
           /\ NoTwice(Tail(s))
           /\ Tail(s) \in Seq(Coros)
  <1>1. /\ Len(s) \in Nat \ {0} /\ Len(Tail(s)) = Len(s) - 1
        /\ Head(s) = s[1] /\ Tail(s) \in Seq(Coros)
        /\ \A i \in 1 .. Len(s) - 1 : Tail(s)[i] = s[i + 1]
    OBVIOUS
  <1>2. NoTwice(Tail(s))
    <2> SUFFICES ASSUME NEW i \in 1 .. Len(s) - 1, NEW j \in 1 .. Len(s) - 1,
                        Tail(s)[i] = Tail(s)[j]
                 PROVE  i = j
      BY <1>1 DEF NoTwice
    <2>1. s[i + 1] = s[j + 1] /\ i + 1 \in 1 .. Len(s) /\ j + 1 \in 1 .. Len(s)
      BY <1>1
    <2> QED
      BY <2>1 DEF NoTwice
  <1>3. ASSUME NEW c \in Members(Tail(s))
        PROVE  c \in Members(s) \ {Head(s)}
    <2>1. PICK i \in 1 .. Len(s) - 1 : c = s[i + 1]
      BY <1>1, <1>3 DEF Members
    <2>2. i + 1 \in 1 .. Len(s) /\ 1 \in 1 .. Len(s) /\ i + 1 # 1
      BY <1>1
    <2> QED
      BY <1>1, <2>1, <2>2 DEF Members, NoTwice
  <1>4. ASSUME NEW c \in Members(s) \ {Head(s)}
        PROVE  c \in Members(Tail(s))
    <2>1. PICK i \in 1 .. Len(s) : c = s[i]
      BY <1>4 DEF Members
    <2>2. i - 1 \in 1 .. Len(s) - 1 /\ (i - 1) + 1 = i
      BY <1>1, <1>4, <2>1
    <2>3. c = Tail(s)[i - 1]
      BY <1>1, <2>1, <2>2
    <2> QED
      BY <1>1, <2>2, <2>3 DEF Members
  <1>5. Head(s) \in Members(s)
    BY <1>1 DEF Members
  <1> QED
    BY <1>1, <1>2, <1>3, <1>4, <1>5

\* The members of a sequence without repetition are as many as it is long.
LEMMA MembersCount ==
    ASSUME NEW s \in Seq(Coros), NoTwice(s)
    PROVE  /\ Members(s) \subseteq Coros
           /\ IsFiniteSet(Members(s))
           /\ Cardinality(Members(s)) = Len(s)
  <1>1. Len(s) \in Nat /\ DOMAIN s = 1 .. Len(s) /\ s \in [1 .. Len(s) -> Coros]
    OBVIOUS
  <1>2. s \in [1 .. Len(s) -> Members(s)]
    BY <1>1 DEF Members
  <1>3. s \in Surjection(1 .. Len(s), Members(s))
    BY <1>2 DEF Surjection, Members
  <1>4. s \in Injection(1 .. Len(s), Members(s))
    BY <1>1, <1>2 DEF Injection, IsInjective, NoTwice
  <1>5. IsFiniteSet(1 .. Len(s)) /\ Cardinality(1 .. Len(s)) = Len(s)
    BY <1>1, FS_Interval
  <1>6. Members(s) \subseteq Coros
    BY <1>1 DEF Members
  <1> QED
    BY <1>3, <1>4, <1>5, <1>6, FS_Surjection

-----------------------------------------------------------------------------
\* The ring.

\* A coroutine of the ring has a place in it.
LEMMA PlaceInRing ==
    ASSUME NEW c \in Members(ring)
    PROVE  Position(c) \in 1 .. Len(ring) /\ ring[Position(c)] = c
  <1>1. \E i \in 1 .. Len(ring) : ring[i] = c
    BY DEF Members
  <1> QED
    BY <1>1 DEF Position

\* The neighbours of a coroutine are main or another coroutine of the ring.
LEMMA Neighbours ==
    ASSUME TypeOK, NoTwice(ring), NEW c \in Members(ring) \cup {Main}
    PROVE  /\ NextOf(c) # Main => NextOf(c) \in Members(ring) /\ NextOf(c) # c
           /\ c # Main => PrevOf(c) \in (Members(ring) \ {c}) \cup {Main}
  <1>1. /\ Len(ring) \in Nat
        /\ \A i \in 1 .. Len(ring) : ring[i] \in Members(ring) /\ ring[i] # Main
    BY Sizes DEF TypeOK, Members, Main, Coros
  <1>2. CASE c = Main
    BY <1>1, <1>2 DEF NextOf
  <1>3. CASE c # Main
    <2>1. PICK p : p = Position(c)
      OBVIOUS
    <2>2. p \in 1 .. Len(ring) /\ ring[p] = c
      BY <1>3, <2>1, PlaceInRing
    <2>3. NextOf(c) = IF p = Len(ring) THEN Main ELSE ring[p + 1]
      BY <1>3, <2>1 DEF NextOf
    <2>4. PrevOf(c) = IF p = 1 THEN Main ELSE ring[p - 1]
      BY <2>1 DEF PrevOf
    <2>5. ASSUME p # Len(ring)
          PROVE  ring[p + 1] \in Members(ring) /\ ring[p + 1] # c
      BY <1>1, <2>2, <2>5 DEF NoTwice
    <2>6. ASSUME p # 1
          PROVE  ring[p - 1] \in Members(ring) /\ ring[p - 1] # c
      BY <1>1, <2>2, <2>6 DEF NoTwice
    <2> QED
      BY <2>3, <2>4, <2>5, <2>6
  <1> QED
    BY <1>2, <1>3

\* _pop takes one coroutine out and leaves the others as they are.
LEMMA Popped ==
    ASSUME TypeOK, NoTwice(ring), NEW c \in Members(ring)
    PROVE  /\ Without(c) \in Seq(Coros)
           /\ Len(Without(c)) = Len(ring) - 1
           /\ NoTwice(Without(c))
           /\ Members(Without(c)) = Members(ring) \ {c}
  <1>1. PICK p : p = Position(c)
    OBVIOUS
  <1>2. p \in 1 .. Len(ring) /\ ring[p] = c /\ Len(ring) \in Nat
    BY <1>1, PlaceInRing DEF TypeOK
  <1>3. PICK w : w = Without(c)
    OBVIOUS
  <1>4. w = [i \in 1 .. Len(ring) - 1 |-> IF i < p THEN ring[i] ELSE ring[i + 1]]
    BY <1>1, <1>3 DEF Without
  <1>5. \A i \in 1 .. Len(ring) : ring[i] \in Coros
    BY DEF TypeOK
  <1>6. Len(ring) - 1 \in Nat
    BY <1>2
  <1>7. w \in [1 .. Len(ring) - 1 -> Coros]
    BY <1>2, <1>4, <1>5
  <1>8. w \in Seq(Coros) /\ Len(w) = Len(ring) - 1
    BY <1>6, <1>7
  <1>9. \A i \in 1 .. Len(ring) - 1 : w[i] = IF i < p THEN ring[i] ELSE ring[i + 1]
    BY <1>4
  <1>10. NoTwice(w)
    <2> SUFFICES ASSUME NEW i \in 1 .. Len(ring) - 1, NEW j \in 1 .. Len(ring) - 1,
                        w[i] = w[j]
                 PROVE  i = j
      BY <1>8 DEF NoTwice
    <2>1. PICK a \in 1 .. Len(ring) : w[i] = ring[a] /\ a = IF i < p THEN i ELSE i + 1
      BY <1>2, <1>9
    <2>2. PICK b \in 1 .. Len(ring) : w[j] = ring[b] /\ b = IF j < p THEN j ELSE j + 1
      BY <1>2, <1>9
    <2>3. a = b
      BY <2>1, <2>2 DEF NoTwice
    <2> QED
      BY <1>2, <2>1, <2>2, <2>3
  <1>11. ASSUME NEW d \in Members(w)
         PROVE  d \in Members(ring) \ {c}
    <2>1. PICK i \in 1 .. Len(ring) - 1 : d = w[i]
      BY <1>8, <1>11 DEF Members
    <2>2. PICK a \in 1 .. Len(ring) : d = ring[a] /\ a # p
      BY <1>2, <1>9, <2>1
    <2> QED
      BY <1>2, <2>2 DEF Members, NoTwice
  <1>12. ASSUME NEW d \in Members(ring) \ {c}
         PROVE  d \in Members(w)
    <2>1. PICK a \in 1 .. Len(ring) : d = ring[a]
      BY <1>12 DEF Members
    <2>2. a # p
      BY <1>2, <1>12, <2>1
    <2>3. \E i \in 1 .. Len(ring) - 1 : w[i] = d
      <3>1. CASE a < p
        BY <1>2, <1>9, <2>1, <3>1
      <3>2. CASE a > p
        <4>1. a - 1 \in 1 .. Len(ring) - 1 /\ ~(a - 1 < p) /\ (a - 1) + 1 = a
          BY <1>2, <3>2
        <4> QED
          BY <1>9, <2>1, <4>1
      <3> QED
        BY <1>2, <2>2, <3>1, <3>2
    <2> QED
      BY <1>8, <2>3 DEF Members
  <1> QED
    BY <1>3, <1>8, <1>10, <1>11, <1>12

-----------------------------------------------------------------------------
\* The search for an idle coroutine.

\* The round from a coroutine on, without the remainder.
LEMMA Round ==
    ASSUME NEW n \in Coros, NEW i \in 0 .. Num - 1
    PROVE  /\ n + i <= Num => ((n - 1 + i) % Num) + 1 = n + i
           /\ n + i > Num => ((n - 1 + i) % Num) + 1 = n + i - Num
  <1>1. n \in Nat \ {0} /\ n <= Num /\ i \in Nat /\ i < Num /\ Num \in Nat \ {0}
    BY Sizes DEF Coros
  <1>2. PICK x \in Nat : x = n - 1 + i
    BY <1>1
  <1>3. ASSUME n + i <= Num
        PROVE  (x % Num) + 1 = n + i
    <2>1. x \in 0 .. Num - 1
      BY <1>1, <1>2, <1>3
    <2>2. x % Num = x
      BY <1>1, <2>1, Remainder
    <2> QED
      BY <1>1, <1>2, <2>2
  <1>4. ASSUME n + i > Num
        PROVE  (x % Num) + 1 = n + i - Num
    <2>1. x \in Num .. 2 * Num - 1
      BY <1>1, <1>2, <1>4
    <2>2. x % Num = x - Num
      BY <1>1, <2>1, Remainder
    <2> QED
      BY <1>1, <1>2, <2>2
  <1> QED
    BY <1>2, <1>3, <1>4

\* supply_idle_fetch goes through the coroutines from nxt on.
LEMMA RoundFromNxt ==
    ASSUME nxt \in Coros, NEW i \in 0 .. Num - 1
    PROVE  /\ nxt + i <= Num => Offset(i) = nxt + i
           /\ nxt + i > Num => Offset(i) = nxt + i - Num
           /\ Offset(i) \in Coros
  <1>1. nxt \in Nat \ {0} /\ nxt <= Num /\ i \in Nat /\ i < Num /\ Num \in Nat \ {0}
    BY Sizes DEF Coros
  <1>2. /\ nxt + i <= Num => Offset(i) = nxt + i
        /\ nxt + i > Num => Offset(i) = nxt + i - Num
    BY Round DEF Offset
  <1>3. Offset(i) \in Coros
    <2>1. CASE nxt + i <= Num
      BY <1>1, <1>2, <2>1 DEF Coros
    <2>2. CASE nxt + i > Num
      BY <1>1, <1>2, <2>2 DEF Coros
    <2> QED
      BY <1>1, <2>1, <2>2
  <1> QED
    BY <1>2, <1>3

\* The round comes to every coroutine, once.
LEMMA WholeRound ==
    ASSUME nxt \in Coros
    PROVE  /\ \A c \in Coros : \E i \in 0 .. Num - 1 : Offset(i) = c
           /\ \A i, j \in 0 .. Num - 1 : Offset(i) = Offset(j) => i = j
  <1>0. nxt \in Nat \ {0} /\ nxt <= Num /\ Num \in Nat \ {0}
    BY Sizes DEF Coros
  <1>1. ASSUME NEW c \in Coros
        PROVE  \E i \in 0 .. Num - 1 : Offset(i) = c
    <2>0. c \in Nat \ {0} /\ c <= Num
      BY Sizes DEF Coros
    <2>1. CASE c >= nxt
      <3>1. PICK i \in 0 .. Num - 1 : i = c - nxt
        BY <1>0, <2>0, <2>1
      <3>2. nxt + i = c
        BY <1>0, <2>0, <3>1
      <3>3. Offset(i) = nxt + i
        BY <2>0, <3>2, RoundFromNxt
      <3> QED
        BY <3>2, <3>3
    <2>2. CASE c < nxt
      <3>1. PICK i \in 0 .. Num - 1 : i = c + Num - nxt
        BY <1>0, <2>0, <2>2
      <3>2. nxt + i = c + Num /\ nxt + i > Num
        BY <1>0, <2>0, <3>1
      <3>3. Offset(i) = nxt + i - Num
        BY <3>2, RoundFromNxt
      <3>4. Offset(i) = c
        BY <1>0, <2>0, <3>2, <3>3
      <3> QED
        BY <3>4
    <2> QED
      BY <1>0, <2>0, <2>1, <2>2
  <1>2. ASSUME NEW i \in 0 .. Num - 1, NEW j \in 0 .. Num - 1, Offset(i) = Offset(j)
        PROVE  i = j
    <2>1. /\ nxt + i <= Num => Offset(i) = nxt + i
          /\ nxt + i > Num => Offset(i) = nxt + i - Num
          /\ nxt + j <= Num => Offset(j) = nxt + j
          /\ nxt + j > Num => Offset(j) = nxt + j - Num
      BY RoundFromNxt
    <2>2. PICK x : x = Offset(i)
      OBVIOUS
    <2> QED
      BY <1>0, <1>2, <2>1, <2>2
  <1> QED
    BY <1>1, <1>2

\* What NxtInv says of t.
Behind(t) == \A i \in 0 .. Num - 1 :
                /\ i < t => Offset(i) \notin Members(chain)
                /\ i >= t => Offset(i) \in Members(chain) \cup Members(ring)

\* While there is a task to supply there is an idle coroutine that is not in
\* the chain, and supply_idle_fetch finds it: the slots are large enough, so
\* its assertion never fails, and it hands no coroutine out twice.
LEMMA IdleIsFresh ==
    ASSUME TypeOK, LoopInv, RingInv, NxtInv, mode = "supply", step < AddStep
    PROVE  \E t \in 0 .. Num : \E i \in 0 .. Num - 1 :
              /\ i < t /\ Behind(t)
              /\ Idle = {Offset(i)}
              /\ Offset(i) \in Coros
              /\ Offset(i) \notin Members(ring) \cup Members(chain)
              /\ \A j \in 0 .. Num - 1 : j < i => Offset(j) \in Members(ring)
  <1>1. PICK t \in 0 .. Num : Behind(t)
    BY DEF NxtInv, Behind
  <1>2. nxt \in Coros /\ ring \in Seq(Coros) /\ chain \in Seq(Coros) /\ step \in Nat
    BY Sizes DEF TypeOK
  <1>3. \A j \in 0 .. Num - 1 : Offset(j) \in Coros
    BY <1>2, RoundFromNxt
  <1>4. \A c \in Coros : c \in Members(ring) <=> ~Useable(c)
    BY DEF RingInv
  <1>5. PICK R, H : R = Members(ring) /\ H = Members(chain)
    OBVIOUS
  <1>6. /\ IsFiniteSet(R) /\ Cardinality(R) = Len(ring)
        /\ IsFiniteSet(H) /\ Cardinality(H) = Len(chain)
        /\ R \cap H = {}
    BY <1>2, <1>5, MembersCount DEF RingInv
  <1>7. IsFiniteSet(R \cup H) /\ Cardinality(R \cup H) = Len(ring) + Len(chain)
    <2>1. /\ IsFiniteSet(R \cup H)
          /\ Cardinality(R \cup H) = Cardinality(R) + Cardinality(H) - Cardinality(R \cap H)
      BY <1>6, FS_Union
    <2>2. Cardinality(R \cap H) = 0
      BY <1>6, FS_EmptySet
    <2>3. Len(ring) \in Nat /\ Len(chain) \in Nat
      BY <1>2
    <2> QED
      BY <1>6, <2>1, <2>2, <2>3
  <1>8. ~(Coros \subseteq R \cup H)
    <2> SUFFICES ASSUME Coros \subseteq R \cup H
                 PROVE  FALSE
      OBVIOUS
    <2>1. Cardinality(Coros) <= Cardinality(R \cup H)
      BY <1>7, FS_Subset
    <2>2. Cardinality(Coros) = Num
      BY Sizes, FS_Interval DEF Coros
    <2>3. Len(ring) <= LowSlot /\ Len(chain) = step /\ Len(ring) \in Nat
      BY <1>2 DEF LoopInv
    <2> QED
      BY <1>2, <1>7, <2>1, <2>2, <2>3, Sizes
  <1>9. PICK u \in 0 .. Num - 1 : u < t /\ Useable(Offset(u))
    <2> SUFFICES ASSUME \A u \in 0 .. Num - 1 : u < t => ~Useable(Offset(u))
                 PROVE  FALSE
      OBVIOUS
    <2>1. ASSUME NEW c \in Coros
          PROVE  c \in R \cup H
      <3>1. PICK j \in 0 .. Num - 1 : Offset(j) = c
        BY <1>2, WholeRound
      <3>2. CASE j < t
        BY <1>4, <1>5, <3>1, <3>2
      <3>3. CASE j >= t
        BY <1>1, <1>5, <3>1, <3>3 DEF Behind
      <3>4. j \in Int /\ t \in Int
        BY Sizes
      <3> QED
        BY <3>2, <3>3, <3>4
    <2> QED
      BY <1>8, <2>1
  <1> DEFINE free == {j \in 0 .. Num - 1 : Useable(Offset(j))}
             least == CHOOSE j \in free : \A k \in free : j <= k
  <1>10. free \in SUBSET Nat /\ free # {} /\ u \in free
    BY <1>9, Sizes
  <1>11. least \in free /\ \A k \in free : least <= k
    <2>1. \E j \in free : \A k \in free : j <= k
      <3> HIDE DEF free
      <3> QED
        BY <1>10, LeastNumber
    <2> HIDE DEF free
    <2> QED
      BY <2>1
  <1>12. Idle = {Offset(least)}
    BY <1>10 DEF Idle
  <1> HIDE DEF least
  <1>13. PICK i \in 0 .. Num - 1 : i = least
    BY <1>11
  <1>14. i < t
    <2>1. i <= u /\ i \in Int /\ u \in Int /\ t \in Int /\ u < t
      BY <1>9, <1>10, <1>11, <1>13, Sizes
    <2> QED
      BY <2>1
  <1>15. Offset(i) \in Coros /\ Useable(Offset(i))
    BY <1>3, <1>11, <1>13
  <1>16. Offset(i) \notin Members(ring) \cup Members(chain)
    BY <1>1, <1>4, <1>14, <1>15 DEF Behind
  <1>17. ASSUME NEW j \in 0 .. Num - 1, j < i
         PROVE  Offset(j) \in Members(ring)
    <2>1. j \notin free
      <3>1. j \in Int /\ i \in Int
        BY Sizes
      <3> QED
        BY <1>11, <1>13, <1>17, <3>1
    <2> QED
      BY <1>3, <1>4, <2>1
  <1> QED
    BY <1>1, <1>12, <1>13, <1>14, <1>15, <1>16, <1>17

\* After a coroutine has been handed out, the round starts behind it.
LEMMA RoundMoves ==
    ASSUME nxt \in Coros, NEW i \in 0 .. Num - 1, NEW c, c = Offset(i),
           nxt' = (c % Num) + 1, NEW j \in 0 .. Num - 1
    PROVE  /\ nxt' \in Coros
           /\ i + 1 + j < Num => Offset(j)' = Offset(i + 1 + j)
           /\ i + 1 + j >= Num => Offset(j)' = Offset(i + 1 + j - Num)
  <1>1. nxt \in Nat \ {0} /\ nxt <= Num /\ Num \in Nat \ {0}
    BY Sizes DEF Coros
  <1>2. i \in Nat /\ i < Num /\ j \in Nat /\ j < Num
    BY <1>1
  <1>3. c \in Coros /\ c \in Nat \ {0} /\ c <= Num
    BY <1>1, RoundFromNxt DEF Coros
  <1>4. /\ nxt + i <= Num => c = nxt + i
        /\ nxt + i > Num => c = nxt + i - Num
    BY RoundFromNxt
  <1>5. /\ c < Num => nxt' = c + 1
        /\ c = Num => nxt' = 1
    <2>1. ASSUME c < Num
          PROVE  c % Num = c
      BY <1>1, <1>3, <2>1, Remainder
    <2>2. Num % Num = 0
      BY <1>1, Remainder
    <2> QED
      BY <1>1, <1>3, <2>1, <2>2
  <1>6. nxt' \in Coros /\ nxt' \in Nat
    BY <1>1, <1>3, <1>5 DEF Coros
  <1>7. /\ nxt' + j <= Num => Offset(j)' = nxt' + j
        /\ nxt' + j > Num => Offset(j)' = nxt' + j - Num
    BY <1>6, Round DEF Offset
  <1>8. PICK m \in 0 .. Num - 1 : m = IF i + 1 + j < Num THEN i + 1 + j ELSE i + 1 + j - Num
    <2>1. CASE i + 1 + j < Num
      BY <1>1, <1>2, <2>1
    <2>2. CASE ~(i + 1 + j < Num)
      BY <1>1, <1>2, <2>2
    <2> QED
      BY <2>1, <2>2
  <1>9. /\ nxt + m <= Num => Offset(m) = nxt + m
        /\ nxt + m > Num => Offset(m) = nxt + m - Num
    BY RoundFromNxt
  <1>10. Offset(j)' = Offset(m)
    <2> DEFINE x == Offset(j)'
               y == Offset(m)
               n == nxt'
    <2>1. /\ n + j <= Num => x = n + j
          /\ n + j > Num => x = n + j - Num
      BY <1>7
    <2>2. /\ nxt + m <= Num => y = nxt + m
          /\ nxt + m > Num => y = nxt + m - Num
      BY <1>9
    <2>3. n \in Nat /\ (c < Num => n = c + 1) /\ (c = Num => n = 1)
      BY <1>5, <1>6
    <2> SUFFICES x = y
      OBVIOUS
    <2> HIDE DEF x, y, n
    <2>4. CASE i + 1 + j < Num
      <3>1. m = i + 1 + j
        BY <1>8, <2>4
      <3>2. CASE nxt + i <= Num
        BY <1>1, <1>2, <1>3, <1>4, <2>1, <2>2, <2>3, <3>1, <3>2
      <3>3. CASE nxt + i > Num
        BY <1>1, <1>2, <1>3, <1>4, <2>1, <2>2, <2>3, <2>4, <3>1, <3>3
      <3>4. QED
        BY <1>1, <1>2, <3>2, <3>3
    <2>5. CASE i + 1 + j >= Num
      <3>1. m = i + 1 + j - Num
        BY <1>1, <1>2, <1>8, <2>5
      <3>2. CASE nxt + i <= Num
        BY <1>1, <1>2, <1>3, <1>4, <2>1, <2>2, <2>3, <2>5, <3>1, <3>2
      <3>3. CASE nxt + i > Num
        BY <1>1, <1>2, <1>3, <1>4, <2>1, <2>2, <2>3, <2>5, <3>1, <3>3
      <3>4. QED
        BY <1>1, <1>2, <3>2, <3>3
    <2> QED
      BY <1>1, <1>2, <2>4, <2>5
  <1>11. ~(i + 1 + j < Num /\ i + 1 + j >= Num)
    BY <1>1, <1>2
  <1> QED
    BY <1>1, <1>2, <1>6, <1>8, <1>10, <1>11

\* A fresh coroutine put at the end of the chain leaves the chain behind nxt.
LEMMA BehindMoves ==
    ASSUME nxt \in Coros, chain \in Seq(Coros),
           NEW t \in 0 .. Num, NEW i \in 0 .. Num - 1, i < t, Behind(t),
           NEW c \in Coros, c = Offset(i),
           \A j \in 0 .. Num - 1 : j < i => Offset(j) \in Members(ring),
           nxt' = (c % Num) + 1, chain' = Append(chain, c), ring' = ring
    PROVE  \E s \in 0 .. Num : Behind(s)'
  <1>1. Num \in Nat \ {0} /\ i \in Nat /\ i < Num /\ t \in Nat /\ t <= Num
    BY Sizes
  <1>2. PICK s \in 0 .. Num : s = t - i - 1
    BY <1>1
  <1>3. Members(chain') = Members(chain) \cup {c}
    BY MembersAppend
  <1>4. ASSUME NEW j \in 0 .. Num - 1, j < s
        PROVE  Offset(j)' \notin Members(chain')
    <2>1. /\ j \in Nat /\ i + 1 + j \in 0 .. Num - 1 /\ i + 1 + j < Num
          /\ i + 1 + j < t /\ i + 1 + j # i
      BY <1>1, <1>2, <1>4
    <2>2. Offset(j)' = Offset(i + 1 + j)
      BY <2>1, RoundMoves
    <2>3. Offset(i + 1 + j) # c
      BY <2>1, WholeRound
    <2> QED
      BY <1>3, <2>1, <2>2, <2>3 DEF Behind
  <1>5. ASSUME NEW j \in 0 .. Num - 1, j >= s
        PROVE  Offset(j)' \in Members(chain') \cup Members(ring')
    <2>0. j \in Nat /\ j < Num /\ i + 1 + j >= t
      BY <1>1, <1>2, <1>5
    <2>1. CASE i + 1 + j < Num
      <3>1. i + 1 + j \in 0 .. Num - 1
        BY <1>1, <2>0, <2>1
      <3>2. Offset(j)' = Offset(i + 1 + j)
        BY <2>1, RoundMoves
      <3> QED
        BY <1>3, <2>0, <3>1, <3>2 DEF Behind
    <2>2. CASE i + 1 + j >= Num
      <3>1. PICK m \in 0 .. Num - 1 : m = i + 1 + j - Num
        BY <1>1, <2>0, <2>2
      <3>2. Offset(j)' = Offset(m)
        BY <2>2, <3>1, RoundMoves
      <3>3. m < i \/ m = i
        BY <1>1, <2>0, <3>1
      <3> QED
        BY <1>3, <3>2, <3>3
    <2> QED
      BY <1>1, <2>0, <2>1, <2>2
  <1>6. Behind(s)'
    BY <1>4, <1>5 DEF Behind
  <1> QED
    BY <1>2, <1>6

-----------------------------------------------------------------------------
\* The steps.

\* The invariant holds at the start.
LEMMA CoroInvInit == Init => CoroInv
  <1> SUFFICES ASSUME Init
               PROVE  CoroInv
    OBVIOUS
  <1>1. TypeOK
    <2>1. 1 \in Coros /\ 0 \in 0 .. AddStep /\ 0 \in 0 .. 1
      BY Sizes DEF Coros
    <2>2. list \in Seq(Tasks) /\ kind \in Seq({"ALONE", "WHOLE"})
      BY DEF Init
    <2>3. chain \in Seq(Coros) /\ ring \in Seq(Coros)
      BY DEF Init
    <2>4. have \in BOOLEAN
      BY DEF Init
    <2> QED
      BY <2>1, <2>2, <2>3, <2>4 DEF Init, TypeOK
  <1>2. Members(<<>>) = {} /\ NoTwice(<<>>)
    BY DEF Members, NoTwice
  <1>3. LoopInv
    BY DEF Init, LoopInv
  <1>4. Main \notin Coros
    BY Sizes DEF Main, Coros
  <1>5. RingInv
    BY <1>2, <1>4 DEF Init, RingInv, Useable
  <1>6. Given = 0
    <2>1. Len(kind) = 0 /\ Len(list) = 0
      BY DEF Init
    <2>2. ~have
      BY DEF Init
    <2> QED
      BY <2>1, <2>2 DEF Given
  <1>7. ListInv
    BY <1>6, Sizes DEF Init, ListInv
  <1>8. TaskInv
    BY <1>6 DEF Init, TaskInv
  <1>9. BarrierInv
    BY <1>6 DEF Init, BarrierInv, Airing
  <1> QED
    BY <1>1, <1>3, <1>5, <1>7, <1>8, <1>9 DEF CoroInv, NxtInv, Init

\* Steps of the scheduler leave the tasks alone.
LEMMA TasksAlone ==
    ASSUME ListInv, TaskInv, BarrierInv,
           UNCHANGED <<list, kind, temp, have, airing, task, at, begun, done>>
    PROVE  ListInv' /\ TaskInv' /\ BarrierInv'
  <1>1. Given' = Given /\ (Airing' <=> Airing)
    BY DEF Given, Airing
  <1>2. ListInv'
    BY <1>1 DEF ListInv
  <1>3. TaskInv'
    BY <1>1 DEF TaskInv
  <1>4. BarrierInv'
    BY <1>1 DEF BarrierInv
  <1> QED
    BY <1>2, <1>3, <1>4

\* The number of tasks given out is a number, and each of them has a kind.
LEMMA GivenType ==
    ASSUME TypeOK, ListInv
    PROVE  /\ Given \in Nat /\ Given <= Len(kind)
           /\ Len(kind) \in Nat /\ Len(list) \in Nat /\ Len(kind) <= MaxTasks
           /\ have => Given = Len(kind) - Len(list) - 1
           /\ ~have => Given = Len(kind) - Len(list)
           /\ \A k \in 1 .. Given : k \in 1 .. Len(kind) /\ kind[k] \in {"ALONE", "WHOLE"}
  <1>1. Len(kind) \in Nat /\ Len(list) \in Nat /\ have \in BOOLEAN
    BY DEF TypeOK
  <1>2. /\ have => Given = Len(kind) - Len(list) - 1
        /\ ~have => Given = Len(kind) - Len(list)
        /\ Given >= 0
    BY DEF Given, ListInv
  <1>3. Given \in Nat /\ Given <= Len(kind)
    BY <1>1, <1>2
  <1> QED
    BY <1>1, <1>2, <1>3, Sizes DEF TypeOK, ListInv

\* A task pushed by another thread, or entered, leaves the ring alone.
LEMMA RingAlone ==
    ASSUME LoopInv, RingInv, NxtInv,
           UNCHANGED <<nxt, chain, status, ring, exec, cur, mode, step>>,
           \A c \in Coros : at'[c] = "out" <=> at[c] = "out",
           \A c \in Members(chain) : at'[c] = at[c]
    PROVE  LoopInv' /\ RingInv' /\ NxtInv'
  <1>1. LoopInv'
    BY DEF LoopInv
  <1>2. \A c : Useable(c)' <=> Useable(c)
    BY DEF Useable
  <1>3. \A i : Offset(i)' = Offset(i)
    BY DEF Offset
  <1>4. RingInv'
    BY <1>2 DEF RingInv
  <1>5. NxtInv'
    BY <1>3 DEF NxtInv
  <1> QED
    BY <1>1, <1>4, <1>5

\* Another thread pushes a task.
LEMMA SubmitKeeps ==
    ASSUME CoroInv, NEW k \in {"ALONE", "WHOLE"}, Submit(k)
    PROVE  CoroInv'
  <1> USE DEF CoroInv
  <1>1. /\ Len(kind) < MaxTasks /\ kind' = Append(kind, k)
        /\ list' = Append(list, Len(kind) + 1)
        /\ UNCHANGED <<temp, have, airing, nxt, chain, status, task, at, ring, exec,
                       cur, mode, step, begun, done>>
    BY DEF Submit, supply, sched
  <1>2. kind \in Seq({"ALONE", "WHOLE"}) /\ list \in Seq(Tasks) /\ Len(kind) + 1 \in Tasks
    BY <1>1, Sizes DEF TypeOK, Tasks
  <1>3. /\ kind' \in Seq({"ALONE", "WHOLE"}) /\ Len(kind') = Len(kind) + 1
        /\ \A j \in 1 .. Len(kind) : kind'[j] = kind[j]
    BY <1>1, <1>2
  <1>4. /\ list' \in Seq(Tasks) /\ Len(list') = Len(list) + 1
        /\ \A j \in 1 .. Len(list) : list'[j] = list[j]
        /\ list'[Len(list) + 1] = Len(kind) + 1
    BY <1>1, <1>2
  <1>5. TypeOK'
    BY <1>1, <1>3, <1>4 DEF TypeOK
  <1>6. LoopInv' /\ RingInv' /\ NxtInv'
    BY <1>1, RingAlone
  <1>7. /\ Len(kind) \in Nat /\ Len(list) \in Nat /\ Given \in Nat /\ Given <= Len(kind)
        /\ Len(kind) <= MaxTasks
    BY GivenType
  <1>8. Given' = Given
    BY <1>1, <1>3, <1>4, <1>7 DEF Given
  <1>9. ListInv'
    <2>1. ASSUME NEW i \in 1 .. Len(list')
          PROVE  list'[i] = Len(kind') - Len(list') + i
      <3>1. CASE i \in 1 .. Len(list)
        <4>1. list'[i] = Len(kind) - Len(list) + i
          BY <1>4, <3>1 DEF ListInv
        <4> QED
          BY <1>3, <1>4, <1>7, <4>1
      <3>2. CASE i = Len(list) + 1
        BY <1>3, <1>4, <1>7, <3>2
      <3> QED
        BY <1>4, <1>7, <3>1, <3>2
    <2>2. Len(kind') <= MaxTasks
      BY <1>1, <1>3, <1>7, Sizes
    <2> QED
      BY <1>1, <1>8, <2>1, <2>2 DEF ListInv
  <1>10. TaskInv'
    BY <1>1, <1>8 DEF TaskInv
  <1>11. \A j \in 1 .. Given : kind'[j] = kind[j]
    BY <1>3, <1>7
  <1>12. Airing' <=> Airing
    BY <1>1, <1>7, <1>8, <1>11 DEF Airing
  <1>13. BarrierInv'
    <2>1. \A j \in begun : kind'[j] = kind[j]
      BY <1>11 DEF TaskInv
    <2> QED
      BY <1>1, <1>8, <1>11, <1>12, <2>1 DEF BarrierInv
  <1> QED
    BY <1>5, <1>6, <1>9, <1>10, <1>13

\* A coroutine of the ring is resumed by main.
LEMMA ResumeKeeps ==
    ASSUME TypeOK, LoopInv, RingInv, cur = Main,
           NEW c \in Members(ring), Resume(c), UNCHANGED <<chain, at, ring>>
    PROVE  RingInv'
  <1>1. /\ status' = [status EXCEPT ![c] = "running"] /\ exec' = c /\ cur' = c
        /\ chain' = chain /\ at' = at /\ ring' = ring
    BY DEF Resume
  <1>2. c \in Coros /\ ~Useable(c) /\ c \notin Members(chain)
    <2>1. ring \in Seq(Coros)
      BY DEF TypeOK
    <2>2. c \in Coros
      BY <2>1 DEF Members
    <2> QED
      BY <2>2 DEF RingInv
  <1>3. \A d \in Coros : Useable(d)' <=> Useable(d)
    BY <1>1, <1>2 DEF TypeOK, Useable
  <1>4. \A d \in Coros : status[d] # "running"
    BY Sizes DEF RingInv, Main, Coros
  <1>5. \A d \in Coros : status'[d] = "running" <=> d = cur'
    BY <1>1, <1>2, <1>4 DEF TypeOK
  <1>6. \A d \in Members(chain) : d \in Coros /\ status'[d] = status[d]
    <2>1. chain \in Seq(Coros)
      BY DEF TypeOK
    <2>2. \A d \in Members(chain) : d \in Coros
      BY <2>1 DEF Members
    <2> QED
      BY <1>1, <1>2, <2>2 DEF TypeOK
  <1> QED
    BY <1>1, <1>3, <1>5, <1>6 DEF RingInv

\* A round of coroutine_loop is over, or goes on.
LEMMA TurnKeeps ==
    ASSUME CoroInv, Turn
    PROVE  CoroInv'
  <1> USE DEF CoroInv
  <1>1. /\ cur = Main /\ mode = "turn"
        /\ UNCHANGED <<list, kind, temp, have, airing, nxt, chain, task, at, ring,
                       begun, done>>
    BY DEF Turn
  <1>2. ListInv' /\ TaskInv' /\ BarrierInv'
    BY <1>1, TasksAlone
  <1>3. chain = <<>>
    BY <1>1 DEF LoopInv
  <1>4. CASE NextOf(exec) # Main
    <2>1. PICK c : c = NextOf(exec)
      OBVIOUS
    <2>2. c \in Members(ring)
      BY <1>4, <2>1, Neighbours DEF RingInv
    <2>3. Resume(c) /\ UNCHANGED <<mode, step>>
      BY <1>4, <2>1 DEF Turn
    <2>4. RingInv'
      BY <1>1, <2>2, <2>3, ResumeKeeps
    <2>5. c \in Coros
      BY <2>2 DEF TypeOK, Members
    <2>6. TypeOK'
      BY <1>1, <2>3, <2>5 DEF TypeOK, Resume
    <2>7. LoopInv'
      BY <1>1, <1>3, <2>3 DEF LoopInv, Resume
    <2>8. NxtInv'
      BY <1>1, <2>3 DEF NxtInv
    <2> QED
      BY <1>2, <2>4, <2>6, <2>7, <2>8
  <1>5. CASE NextOf(exec) = Main
    <2>1. /\ mode' = IF Len(ring) <= LowSlot THEN "supply" ELSE "first"
          /\ step' = 0 /\ UNCHANGED <<status, exec, cur>>
      BY <1>5 DEF Turn
    <2>2. TypeOK'
      BY <1>1, <2>1, Sizes DEF TypeOK
    <2>3. LoopInv'
      BY <1>1, <1>3, <2>1 DEF LoopInv
    <2>4. \A c : Useable(c)' <=> Useable(c)
      BY <2>1 DEF Useable
    <2>5. RingInv'
      BY <1>1, <2>1, <2>4 DEF RingInv
    <2>6. Members(chain') = {}
      BY <1>1, <1>3 DEF Members
    <2>7. NxtInv'
      <3>1. Num \in 0 .. Num /\ \A i \in 0 .. Num - 1 : ~(i >= Num)
        BY Sizes
      <3> QED
        BY <2>6, <3>1 DEF NxtInv
    <2> QED
      BY <1>2, <2>2, <2>3, <2>5, <2>7
  <1> QED
    BY <1>4, <1>5

\* supply_coro_queue returns.
LEMMA SupplyEndsKeeps ==
    ASSUME CoroInv, SupplyEnds
    PROVE  CoroInv'
  <1> USE DEF CoroInv
  <1>1. /\ cur = Main /\ mode' = "push"
        /\ UNCHANGED <<list, kind, temp, have, airing, nxt, chain, status, task, at, ring,
                       exec, cur, step, begun, done>>
    BY DEF SupplyEnds, supply
  <1>2. ListInv' /\ TaskInv' /\ BarrierInv'
    BY <1>1, TasksAlone
  <1>3. TypeOK'
    BY <1>1 DEF TypeOK
  <1>4. LoopInv'
    BY <1>1 DEF LoopInv
  <1>5. \A c : Useable(c)' <=> Useable(c)
    BY <1>1 DEF Useable
  <1>6. RingInv'
    BY <1>1, <1>5 DEF RingInv
  <1>7. NxtInv'
    BY <1>1 DEF NxtInv
  <1> QED
    BY <1>2, <1>3, <1>4, <1>6, <1>7

\* A coroutine supplied is put at the end of the ring.
LEMMA PushKeeps ==
    ASSUME CoroInv, Push
    PROVE  CoroInv'
  <1> USE DEF CoroInv
  <1>1. /\ cur = Main /\ mode = "push" /\ chain # <<>>
        /\ UNCHANGED <<list, kind, temp, have, airing, nxt, task, at, exec, cur, step,
                       begun, done>>
    BY DEF Push
  <1>2. PICK c : c = Head(chain)
    OBVIOUS
  <1>3. chain \in Seq(Coros) /\ ring \in Seq(Coros) /\ NoTwice(chain) /\ NoTwice(ring)
    BY DEF TypeOK, RingInv
  <1>4. /\ c \in Members(chain) /\ Members(Tail(chain)) = Members(chain) \ {c}
        /\ NoTwice(Tail(chain)) /\ Tail(chain) \in Seq(Coros)
    BY <1>1, <1>2, <1>3, MembersTail
  <1>5. Members(chain) \subseteq Coros
    BY <1>3, MembersCount
  <1>6. c \in Coros /\ c \notin Members(ring) /\ status[c] = "initial"
    BY <1>4, <1>5 DEF RingInv
  <1>7. /\ ring' = Append(ring, c) /\ status' = [status EXCEPT ![c] = "enabled"]
        /\ chain' = Tail(chain) /\ mode' = mode
    BY <1>2, <1>6 DEF Push
  <1>8. Members(ring') = Members(ring) \cup {c} /\ NoTwice(ring') /\ ring' \in Seq(Coros)
    BY <1>3, <1>6, <1>7, MembersAppend
  <1>9. ListInv' /\ TaskInv' /\ BarrierInv'
    BY <1>1, TasksAlone
  <1>10. TypeOK'
    BY <1>1, <1>4, <1>6, <1>7, <1>8 DEF TypeOK
  <1>11. LoopInv'
    BY <1>1, <1>7 DEF LoopInv
  <1>12. NxtInv'
    BY <1>1, <1>7 DEF NxtInv
  <1>13. RingInv'
    <2>1. ~Useable(c)' /\ \A d \in Coros : d # c => (Useable(d)' <=> Useable(d))
      BY <1>6, <1>7 DEF TypeOK, Useable
    <2>2. \A d \in Coros : d \in Members(ring') <=> ~Useable(d)'
      BY <1>8, <2>1 DEF RingInv
    <2>3. Members(ring') \cap Members(chain') = {}
      BY <1>4, <1>7, <1>8 DEF RingInv
    <2>4. \A d \in Members(chain') : status'[d] = "initial" /\ at'[d] = "start"
      BY <1>1, <1>4, <1>5, <1>7 DEF RingInv, TypeOK
    <2>5. \A d \in Coros : at'[d] # "out" <=> d \in Members(ring') \cup Members(chain')
      BY <1>1, <1>4, <1>7, <1>8 DEF RingInv
    <2>6. \A d \in Coros : status'[d] = "running" <=> d = cur'
      BY <1>1, <1>6, <1>7 DEF RingInv, TypeOK
    <2>7. exec' \in Members(ring') \cup {Main}
      BY <1>1, <1>8 DEF RingInv
    <2> QED
      BY <1>4, <1>7, <1>8, <2>2, <2>3, <2>4, <2>5, <2>6, <2>7 DEF RingInv
  <1> QED
    BY <1>9, <1>10, <1>11, <1>12, <1>13

\* A round starts with the first coroutine, or main looks for tasks again.
LEMMA FirstKeeps ==
    ASSUME CoroInv, First
    PROVE  CoroInv'
  <1> USE DEF CoroInv
  <1>1. /\ cur = Main
        /\ UNCHANGED <<list, kind, temp, have, airing, nxt, chain, task, at, ring,
                       begun, done>>
    BY DEF First
  <1>2. ListInv' /\ TaskInv' /\ BarrierInv'
    BY <1>1, TasksAlone
  <1>3. chain = <<>>
    BY DEF First, LoopInv
  <1>4. ring \in Seq(Coros)
    BY DEF TypeOK
  <1>5. CASE ring = <<>>
    <2>1. mode' = "supply" /\ step' = 0 /\ UNCHANGED <<status, exec, cur>>
      BY <1>5 DEF First
    <2>2. TypeOK'
      BY <1>1, <2>1, Sizes DEF TypeOK
    <2>3. LoopInv'
      <3>1. Len(ring') = 0 /\ Len(chain') = 0 /\ 0 <= LowSlot
        BY <1>1, <1>3, <1>5, Sizes
      <3> QED
        BY <1>1, <2>1, <3>1 DEF LoopInv
    <2>4. \A c : Useable(c)' <=> Useable(c)
      BY <2>1 DEF Useable
    <2>5. RingInv'
      BY <1>1, <2>1, <2>4 DEF RingInv
    <2>6. Members(chain') = {}
      BY <1>1, <1>3 DEF Members
    <2>7. NxtInv'
      <3>1. Num \in 0 .. Num /\ \A i \in 0 .. Num - 1 : ~(i >= Num)
        BY Sizes
      <3> QED
        BY <2>6, <3>1 DEF NxtInv
    <2> QED
      BY <1>2, <2>2, <2>3, <2>5, <2>7
  <1>6. CASE ring # <<>>
    <2>1. PICK c : c = ring[1]
      OBVIOUS
    <2>2. c \in Members(ring) /\ c \in Coros
      <3>1. 1 \in 1 .. Len(ring)
        BY <1>4, <1>6
      <3> QED
        BY <1>4, <2>1, <3>1 DEF Members
    <2>3. Resume(c) /\ mode' = "turn" /\ step' = step
      BY <1>6, <2>1 DEF First
    <2>4. RingInv'
      BY <1>1, <2>2, <2>3, ResumeKeeps
    <2>5. TypeOK'
      BY <1>1, <2>2, <2>3 DEF TypeOK, Resume
    <2>6. LoopInv'
      BY <1>1, <1>3, <2>3 DEF LoopInv, Resume
    <2>7. NxtInv'
      BY <2>3 DEF NxtInv
    <2> QED
      BY <1>2, <2>4, <2>5, <2>6, <2>7
  <1> QED
    BY <1>5, <1>6

\* The task taken in hand is the first of those not given out.
LEMMA TakeTask ==
    ASSUME TypeOK, ListInv, have \/ list # <<>>,
           list' = IF have THEN list ELSE Tail(list)
    PROVE  /\ Held = Given + 1 /\ Held \in 1 .. Len(kind) /\ Held \in Tasks
           /\ list' \in Seq(Tasks) /\ Len(list') \in Nat
           /\ Len(kind) - Len(list') = Given + 1
           /\ \A i \in 1 .. Len(list') : list'[i] = Len(kind) - Len(list') + i
  <1>1. /\ Given \in Nat /\ Len(kind) \in Nat /\ Len(list) \in Nat
        /\ Given <= Len(kind) /\ Len(kind) <= MaxTasks /\ MaxTasks \in Nat
        /\ have => Given = Len(kind) - Len(list) - 1
        /\ ~have => Given = Len(kind) - Len(list)
    BY GivenType, Sizes
  <1>2. list \in Seq(Tasks)
    BY DEF TypeOK
  <1>3. CASE have
    <2>1. list' = list /\ Held = Given + 1
      BY <1>3 DEF ListInv, Held
    <2>2. Len(kind) - Len(list) = Given + 1
      BY <1>1, <1>3
    <2>3. Held \in 1 .. Len(kind) /\ Held \in Tasks
      BY <1>1, <2>1, <2>2 DEF Tasks
    <2> QED
      BY <1>1, <1>2, <2>1, <2>2, <2>3 DEF ListInv
  <1>4. CASE ~have
    <2>1. list' = Tail(list) /\ Held = Head(list) /\ list # <<>>
      BY <1>4 DEF Held
    <2>2. /\ Len(list) \in Nat \ {0} /\ Head(list) = list[1]
          /\ list' \in Seq(Tasks) /\ Len(list') = Len(list) - 1
          /\ \A i \in 1 .. Len(list) - 1 : list'[i] = list[i + 1]
      BY <1>2, <2>1
    <2>3. Held = Len(kind) - Len(list) + 1
      BY <2>1, <2>2 DEF ListInv
    <2>4. Held = Given + 1 /\ Len(kind) - Len(list') = Given + 1
      BY <1>1, <1>4, <2>2, <2>3
    <2>5. Held \in 1 .. Len(kind) /\ Held \in Tasks
      BY <1>1, <1>4, <2>2, <2>3 DEF Tasks
    <2>6. ASSUME NEW i \in 1 .. Len(list')
          PROVE  list'[i] = Len(kind) - Len(list') + i
      <3>1. i \in 1 .. Len(list) - 1 /\ i + 1 \in 1 .. Len(list)
        BY <2>2
      <3>2. list'[i] = Len(kind) - Len(list) + (i + 1)
        BY <2>2, <3>1 DEF ListInv
      <3>3. Len(kind) - Len(list) + (i + 1) = Len(kind) - (Len(list) - 1) + i
        BY <1>1, <3>1
      <3> QED
        BY <2>2, <3>2, <3>3
    <2>7. Len(list') \in Nat
      BY <2>2
    <2> QED
      BY <2>2, <2>4, <2>5, <2>6, <2>7
  <1> QED
    BY <1>3, <1>4

\* While a WHOLE task is airing, the task taken in hand is held back.
LEMMA HoldKeeps ==
    ASSUME CoroInv, Supply, airing > 0
    PROVE  CoroInv'
  <1> USE DEF CoroInv
  <1>1. /\ cur = Main /\ mode = "supply" /\ (have \/ list # <<>>)
        /\ list' = (IF have THEN list ELSE Tail(list))
        /\ temp' = Held /\ have' = TRUE /\ mode' = "push"
        /\ UNCHANGED <<airing, nxt, chain, status, task, at, step, kind, ring, exec, cur,
                       begun, done>>
    BY DEF Supply
  <1>2. /\ Held = Given + 1 /\ Held \in 1 .. Len(kind) /\ Held \in Tasks
        /\ list' \in Seq(Tasks) /\ Len(list') \in Nat
        /\ Len(kind) - Len(list') = Given + 1
        /\ \A i \in 1 .. Len(list') : list'[i] = Len(kind) - Len(list') + i
    BY <1>1, TakeTask
  <1>3. Given \in Nat /\ Len(kind) \in Nat
    BY GivenType
  <1>4. Given' = Given
    <2>1. Given' = Len(kind) - Len(list') - 1
      BY <1>1 DEF Given
    <2> QED
      BY <1>2, <1>3, <2>1
  <1>5. TypeOK'
    <2>1. have' \in BOOLEAN
      BY <1>1
    <2> QED
      BY <1>1, <1>2, <2>1 DEF TypeOK
  <1>6. LoopInv'
    BY <1>1 DEF LoopInv
  <1>7. \A c : Useable(c)' <=> Useable(c)
    BY <1>1 DEF Useable
  <1>8. RingInv'
    BY <1>1, <1>7 DEF RingInv
  <1>9. NxtInv'
    BY <1>1 DEF NxtInv
  <1>10. ListInv'
    BY <1>1, <1>2, <1>4 DEF ListInv
  <1>11. TaskInv'
    BY <1>1, <1>4 DEF TaskInv
  <1>12. Airing' <=> Airing
    BY <1>1, <1>4 DEF Airing
  <1>13. BarrierInv'
    BY <1>1, <1>4, <1>12 DEF BarrierInv
  <1> QED
    BY <1>5, <1>6, <1>8, <1>9, <1>10, <1>11, <1>13

\* Otherwise it is given to a fresh coroutine.
LEMMA GiveKeeps ==
    ASSUME CoroInv, Supply, ~(airing > 0)
    PROVE  CoroInv'
  <1> USE DEF CoroInv
  <1>1. /\ cur = Main /\ mode = "supply" /\ step < AddStep /\ (have \/ list # <<>>)
        /\ list' = (IF have THEN list ELSE Tail(list))
        /\ temp' = Held /\ have' = FALSE /\ step' = step + 1
        /\ airing' = (IF kind[Held] = "WHOLE" THEN airing + 1 ELSE airing)
        /\ UNCHANGED <<kind, ring, exec, cur, begun, done>>
    BY DEF Supply
  <1>2. PICK t \in 0 .. Num, i \in 0 .. Num - 1 :
              /\ i < t /\ Behind(t)
              /\ Idle = {Offset(i)}
              /\ Offset(i) \in Coros
              /\ Offset(i) \notin Members(ring) \cup Members(chain)
              /\ \A j \in 0 .. Num - 1 : j < i => Offset(j) \in Members(ring)
    BY <1>1, IdleIsFresh
  <1>3. PICK c : c = Offset(i)
    OBVIOUS
  <1>4. /\ nxt' = (c % Num) + 1 /\ chain' = Append(chain, c)
        /\ status' = [status EXCEPT ![c] = "initial"]
        /\ task' = [task EXCEPT ![c] = Held]
        /\ at' = [at EXCEPT ![c] = "start"]
        /\ mode' = mode
    <2>1. Idle = {c} /\ Idle # {}
      BY <1>2, <1>3
    <2> QED
      BY <2>1 DEF Supply
  <1>5. c \in Coros /\ c \notin Members(ring) /\ c \notin Members(chain)
    BY <1>2, <1>3
  <1>6. /\ nxt \in Coros /\ chain \in Seq(Coros) /\ ring \in Seq(Coros) /\ step \in Nat
        /\ Len(chain) \in Nat /\ Len(chain) = step /\ Len(ring) <= LowSlot
    BY <1>1, Sizes DEF TypeOK, LoopInv
  <1>7. /\ Members(chain') = Members(chain) \cup {c} /\ NoTwice(chain')
        /\ chain' \in Seq(Coros) /\ Len(chain') = Len(chain) + 1
    BY <1>4, <1>5, <1>6, MembersAppend DEF RingInv
  <1>8. nxt' \in Coros
    BY <1>3, <1>4, <1>6, RoundMoves
  <1>9. /\ Held = Given + 1 /\ Held \in 1 .. Len(kind) /\ Held \in Tasks
        /\ list' \in Seq(Tasks) /\ Len(list') \in Nat
        /\ Len(kind) - Len(list') = Given + 1
        /\ \A j \in 1 .. Len(list') : list'[j] = Len(kind) - Len(list') + j
    BY <1>1, TakeTask
  <1>10. Given \in Nat /\ Len(kind) \in Nat /\ airing = 0
    <2>1. airing \in 0 .. 1
      BY DEF TypeOK
    <2> QED
      BY <2>1, GivenType
  <1>11. Given' = Given + 1
    <2>1. Given' = Len(kind) - Len(list')
      BY <1>1 DEF Given
    <2> QED
      BY <1>9, <2>1
  <1>12. TypeOK'
    <2>1. have' \in BOOLEAN
      BY <1>1
    <2>2. airing' \in 0 .. 1
      BY <1>1, <1>10
    <2>3. step' \in 0 .. AddStep
      BY <1>1, <1>6, Sizes
    <2>4. /\ status' \in [Coros -> {"initial", "enabled", "running", "suspend", "release"}]
          /\ task' \in [Coros -> Tasks \cup {NoTask}]
          /\ at' \in [Coros -> {"out", "start", "run"}]
      BY <1>4, <1>5, <1>9 DEF TypeOK
    <2> QED
      BY <1>1, <1>4, <1>7, <1>8, <1>9, <2>1, <2>2, <2>3, <2>4 DEF TypeOK
  <1>13. LoopInv'
    BY <1>1, <1>4, <1>6, <1>7 DEF LoopInv
  <1>14. RingInv'
    <2>0. Useable(c)
      BY <1>5 DEF RingInv
    <2>1. Useable(c)' /\ \A d \in Coros : d # c => (Useable(d)' <=> Useable(d))
      BY <1>4, <1>5 DEF TypeOK, Useable
    <2>2. \A d \in Coros : d \in Members(ring') <=> ~Useable(d)'
      BY <1>1, <1>5, <2>1 DEF RingInv
    <2>3. Members(ring') \cap Members(chain') = {}
      BY <1>1, <1>5, <1>7 DEF RingInv
    <2>4. Members(chain) \subseteq Coros
      BY <1>6, MembersCount DEF RingInv
    <2>5. \A d \in Members(chain') : status'[d] = "initial" /\ at'[d] = "start"
      BY <1>4, <1>5, <1>7, <2>4 DEF RingInv, TypeOK
    <2>6. \A d \in Coros : at'[d] # "out" <=> d \in Members(ring') \cup Members(chain')
      BY <1>1, <1>4, <1>5, <1>7 DEF RingInv, TypeOK
    <2>7. \A d \in Coros : status'[d] = "running" <=> d = cur'
      <3>1. c # cur
        BY <1>1, Sizes, <1>5 DEF Main, Coros
      <3> QED
        BY <1>1, <1>4, <1>5, <3>1 DEF RingInv, TypeOK
    <2>8. exec' \in Members(ring') \cup {Main} /\ NoTwice(ring')
      BY <1>1 DEF RingInv
    <2> QED
      BY <1>7, <2>2, <2>3, <2>5, <2>6, <2>7, <2>8 DEF RingInv
  <1>15. NxtInv'
    <2>1. \E s \in 0 .. Num : Behind(s)'
      BY <1>1, <1>2, <1>3, <1>4, <1>5, <1>6, BehindMoves
    <2> QED
      BY <2>1 DEF NxtInv, Behind
  <1>16. ListInv'
    <2>1. ~have' /\ Given' >= 0 /\ Len(kind') <= MaxTasks
      BY <1>1, <1>10, <1>11 DEF ListInv
    <2> QED
      BY <1>1, <1>9, <2>1 DEF ListInv
  <1>17. 1 .. Given' = (1 .. Given) \cup {Held} /\ Held \notin 1 .. Given
    BY <1>9, <1>10, <1>11
  <1>18. TaskInv'
    <2>1. done' \subseteq begun' /\ begun' \subseteq 1 .. Given' /\ Held \notin begun'
      BY <1>1, <1>17 DEF TaskInv
    <2>2. /\ task'[c] = Held /\ at'[c] = "start"
          /\ \A d \in Coros : d # c => task'[d] = task[d] /\ at'[d] = at[d]
      BY <1>4, <1>5 DEF TypeOK
    <2>3. at[c] = "out"
      BY <1>5 DEF RingInv
    <2>4. \A d \in Coros : at'[d] # "out" => task'[d] \in 1 .. Given' /\ task'[d] \notin done'
      BY <1>1, <1>17, <2>1, <2>2 DEF TaskInv
    <2>5. \A d \in Coros : /\ at'[d] = "start" => task'[d] \notin begun'
                           /\ at'[d] = "run" => task'[d] \in begun'
      BY <1>1, <2>1, <2>2 DEF TaskInv
    <2>6. \A d, e \in Coros :
             at'[d] # "out" /\ at'[e] # "out" /\ task'[d] = task'[e] => d = e
      BY <1>17, <2>2 DEF TaskInv
    <2>7. ASSUME NEW k \in 1 .. Given'
          PROVE  k \in done' \/ \E d \in Coros : at'[d] # "out" /\ task'[d] = k
      <3>1. CASE k = Held
        BY <1>5, <2>2, <3>1
      <3>2. CASE k \in 1 .. Given
        <4>1. CASE k \in done
          BY <1>1, <4>1
        <4>2. CASE \E d \in Coros : at[d] # "out" /\ task[d] = k
          BY <2>2, <2>3, <4>2
        <4> QED
          BY <3>2, <4>1, <4>2 DEF TaskInv
      <3> QED
        BY <1>17, <3>1, <3>2
    <2> QED
      BY <2>1, <2>4, <2>5, <2>6, <2>7 DEF TaskInv
  <1>19. BarrierInv'
    <2>1. ~Airing
      BY <1>10 DEF BarrierInv
    <2>2. \A k \in 1 .. Given : kind[k] = "WHOLE" => k \in done
      BY <1>10, <2>1 DEF BarrierInv, Airing
    <2>3. Airing' <=> kind[Held] = "WHOLE"
      <3>1. Held \notin done /\ Given + 1 > 0
        BY <1>10, <1>17 DEF TaskInv
      <3> QED
        BY <1>1, <1>9, <1>11, <3>1 DEF Airing
    <2>4. airing' = IF Airing' THEN 1 ELSE 0
      BY <1>1, <1>10, <2>3
    <2>5. \A k \in 1 .. Given' : kind'[k] = "WHOLE" => k = Given' \/ k \in done'
      BY <1>1, <1>9, <1>11, <1>17, <2>2
    <2> QED
      BY <1>1, <2>4, <2>5 DEF BarrierInv
  <1> QED
    BY <1>12, <1>13, <1>14, <1>15, <1>16, <1>18, <1>19

\* A coroutine switches to the next one of the ring, or to main.
LEMMA SwitchKeeps ==
    ASSUME CoroInv, NEW c \in Coros, cur = c, Switch(c),
           UNCHANGED <<list, kind, temp, have, airing, nxt, chain, task, at, step,
                       begun, done>>
    PROVE  CoroInv'
  <1> USE DEF CoroInv
  <1>1. ListInv' /\ TaskInv' /\ BarrierInv'
    BY TasksAlone
  <1>2. c # Main /\ mode = "turn" /\ exec = c /\ chain = <<>> /\ Members(chain) = {}
    BY Sizes DEF LoopInv, Main, Coros, Members
  <1>3. status[c] = "running" /\ c \in Members(ring)
    BY DEF RingInv, Useable
  <1>4. PICK n : n = NextOf(c)
    OBVIOUS
  <1>5. n # Main => n \in Members(ring) /\ n # c /\ n \in Coros
    <2>1. Members(ring) \subseteq Coros
      BY MembersCount DEF TypeOK, RingInv
    <2> QED
      BY <1>3, <1>4, <2>1, Neighbours DEF RingInv
  <1>6. ring' = ring /\ mode' = mode
    BY DEF Switch
  <1>7. CASE n = Main
    <2>1. /\ status' = [status EXCEPT ![c] = "suspend"] /\ cur' = Main /\ exec' = exec
      BY <1>4, <1>7 DEF Switch
    <2>2. TypeOK'
      BY <1>6, <2>1 DEF TypeOK
    <2>3. \A d \in Coros : Useable(d)' <=> Useable(d)
      BY <1>3, <2>1 DEF TypeOK, Useable
    <2>4. \A d \in Coros : status'[d] = "running" <=> d = cur'
      <3>1. \A d \in Coros : d # Main
        BY Sizes DEF Main, Coros
      <3> QED
        BY <2>1, <3>1 DEF TypeOK, RingInv
    <2>5. RingInv'
      BY <1>2, <1>6, <2>1, <2>3, <2>4 DEF RingInv
    <2>6. LoopInv'
      BY <1>2, <1>6, <2>1 DEF LoopInv
    <2>7. NxtInv'
      BY <1>2, <1>6 DEF NxtInv
    <2> QED
      BY <1>1, <2>2, <2>5, <2>6, <2>7
  <1>8. CASE n # Main
    <2>1. /\ status' = [status EXCEPT ![c] = "suspend", ![n] = "running"]
          /\ exec' = n /\ cur' = n
      BY <1>4, <1>8 DEF Switch
    <2>2. /\ status' \in [Coros -> {"initial", "enabled", "running", "suspend", "release"}]
          /\ status'[c] = "suspend" /\ status'[n] = "running"
          /\ \A d \in Coros : d # c /\ d # n => status'[d] = status[d]
      BY <1>5, <1>8, <2>1 DEF TypeOK
    <2>3. TypeOK'
      BY <1>5, <1>6, <1>8, <2>1, <2>2 DEF TypeOK
    <2>4. ~Useable(c) /\ ~Useable(n)
      BY <1>3, <1>5, <1>8 DEF RingInv
    <2>5. \A d \in Coros : Useable(d)' <=> Useable(d)
      BY <2>2, <2>4 DEF Useable
    <2>6. \A d \in Coros : status'[d] = "running" <=> d = cur'
      BY <1>5, <1>8, <2>1, <2>2 DEF RingInv
    <2>7. RingInv'
      BY <1>2, <1>5, <1>6, <1>8, <2>1, <2>5, <2>6 DEF RingInv
    <2>8. LoopInv'
      BY <1>2, <1>6, <2>1 DEF LoopInv
    <2>9. NxtInv'
      BY <1>2, <1>6 DEF NxtInv
    <2> QED
      BY <1>1, <2>3, <2>7, <2>8, <2>9
  <1> QED
    BY <1>7, <1>8

\* A function is entered, alone if the task is a WHOLE one.
LEMMA BeginKeeps ==
    ASSUME CoroInv, NEW c \in Coros, cur = c, at[c] = "start",
           kind[task[c]] = "WHOLE" => Len(ring) = airing,
           at' = [at EXCEPT ![c] = "run"], begun' = begun \cup {task[c]},
           UNCHANGED <<list, kind, temp, have, airing, nxt, chain, status, task, ring,
                       exec, cur, mode, step, done>>
    PROVE  CoroInv'
  <1> USE DEF CoroInv
  <1>1. c # Main /\ chain = <<>> /\ Members(chain) = {}
    BY Sizes DEF LoopInv, Main, Coros, Members
  <1>2. c \in Members(ring)
    BY DEF RingInv, Useable
  <1>3. /\ at' \in [Coros -> {"out", "start", "run"}] /\ at'[c] = "run"
        /\ \A d \in Coros : d # c => at'[d] = at[d]
    BY DEF TypeOK
  <1>4. task[c] \in 1 .. Given /\ task[c] \notin done /\ task[c] \notin begun
    BY DEF TaskInv
  <1>5. Given' = Given /\ (Airing' <=> Airing)
    BY DEF Given, Airing
  <1>6. TypeOK'
    <2>1. task[c] \in Tasks
      BY <1>4, GivenType, Sizes DEF Tasks
    <2> QED
      BY <1>3, <2>1 DEF TypeOK
  <1>7. LoopInv' /\ RingInv' /\ NxtInv'
    BY <1>1, <1>3, RingAlone
  <1>8. ListInv'
    BY <1>5 DEF ListInv
  <1>9. TaskInv'
    <2>1. done' \subseteq begun' /\ begun' \subseteq 1 .. Given'
      BY <1>4, <1>5 DEF TaskInv
    <2>2. \A d \in Coros : at'[d] # "out" <=> at[d] # "out"
      BY <1>3
    <2>3. \A d \in Coros : at'[d] = "start" => task[d] \notin begun'
      <3> SUFFICES ASSUME NEW d \in Coros, at'[d] = "start"
                   PROVE  task[d] \notin begun'
        OBVIOUS
      <3>1. d # c /\ at[d] = "start"
        BY <1>3
      <3> QED
        BY <3>1 DEF TaskInv
    <2>4. \A d \in Coros : at'[d] = "run" => task[d] \in begun'
      BY <1>3 DEF TaskInv
    <2> QED
      BY <1>5, <2>1, <2>2, <2>3, <2>4 DEF TaskInv
  <1>10. BarrierInv'
    <2>1. ASSUME kind[task[c]] = "WHOLE"
          PROVE  1 .. task[c] - 1 \subseteq done
      <3>1. task[c] = Given
        BY <1>4, <2>1 DEF BarrierInv
      <3>2. Len(ring) = 1
        <4>1. Given > 0
          BY <1>4, GivenType
        <4>2. Airing
          BY <1>4, <2>1, <3>1, <4>1 DEF Airing
        <4> QED
          BY <2>1, <4>2 DEF BarrierInv
      <3>3. \A d \in Members(ring) : d = c
        BY <1>2, <3>2 DEF Members
      <3>4. ASSUME NEW k \in 1 .. task[c] - 1
            PROVE  k \in done
        <4>1. k \in 1 .. Given /\ k # task[c]
          BY <3>1, GivenType
        <4>2. \A d \in Coros : at[d] # "out" => d = c
          BY <1>1, <3>3 DEF RingInv
        <4> QED
          BY <4>1, <4>2 DEF TaskInv
      <3> QED
        BY <3>4
    <2> QED
      BY <1>5, <2>1 DEF BarrierInv
  <1> QED
    BY <1>6, <1>7, <1>8, <1>9, <1>10

\* The steps of a coroutine before its function returns.
LEMMA WaitKeeps ==
    ASSUME CoroInv, NEW c \in Coros, Wait(c)
    PROVE  CoroInv'
  <1>1. CASE Len(ring) = airing
    <2>1. /\ cur = c /\ at[c] = "start" /\ at' = [at EXCEPT ![c] = "run"]
          /\ begun' = begun \cup {task[c]}
          /\ UNCHANGED <<list, kind, temp, have, airing, nxt, chain, status, task, ring,
                         exec, cur, mode, step, done>>
      BY <1>1 DEF Wait, sched, supply
    <2> QED
      BY <1>1, <2>1, BeginKeeps
  <1>2. CASE Len(ring) # airing
    <2>1. /\ cur = c /\ Switch(c)
          /\ UNCHANGED <<list, kind, temp, have, airing, nxt, chain, task, at, step,
                         begun, done>>
      BY <1>2 DEF Wait, supply
    <2> QED
      BY <2>1, SwitchKeeps
  <1> QED
    BY <1>1, <1>2

\* An ALONE task begins at once.
LEMMA EnterKeeps ==
    ASSUME CoroInv, NEW c \in Coros, Enter(c)
    PROVE  CoroInv'
  <1>1. /\ cur = c /\ at[c] = "start" /\ kind[task[c]] # "WHOLE"
        /\ at' = [at EXCEPT ![c] = "run"] /\ begun' = begun \cup {task[c]}
        /\ UNCHANGED <<list, kind, temp, have, airing, nxt, chain, status, task, ring,
                       exec, cur, mode, step, done>>
    BY DEF Enter, sched, supply
  <1> QED
    BY <1>1, BeginKeeps

\* A function lets the others run.
LEMMA YieldKeeps ==
    ASSUME CoroInv, NEW c \in Coros, Yield(c)
    PROVE  CoroInv'
  <1>1. /\ cur = c /\ Switch(c)
        /\ UNCHANGED <<list, kind, temp, have, airing, nxt, chain, task, at, step,
                       begun, done>>
    BY DEF Yield, supply
  <1> QED
    BY <1>1, SwitchKeeps

\* A function returns and its coroutine leaves the ring.
LEMMA ReturnKeeps ==
    ASSUME CoroInv, NEW c \in Coros, Return(c)
    PROVE  CoroInv'
  <1> USE DEF CoroInv
  <1>1. /\ cur = c /\ at[c] = "run"
        /\ airing' = (IF kind[task[c]] = "WHOLE" THEN airing - 1 ELSE airing)
        /\ done' = done \cup {task[c]}
        /\ at' = [at EXCEPT ![c] = "out"]
        /\ exec' = PrevOf(c) /\ ring' = Without(c)
        /\ status' = [status EXCEPT ![c] = "release"] /\ cur' = Main
        /\ UNCHANGED <<list, kind, temp, have, nxt, chain, step, task, mode, begun>>
    BY DEF Return, supply
  <1>2. c # Main /\ mode = "turn" /\ chain = <<>> /\ Members(chain) = {}
    BY <1>1, Sizes DEF LoopInv, Main, Coros, Members
  <1>3. c \in Members(ring) /\ NoTwice(ring) /\ Members(ring) \subseteq Coros
    BY <1>1, MembersCount DEF RingInv, Useable, TypeOK
  <1>4. /\ ring' \in Seq(Coros) /\ NoTwice(ring') /\ Members(ring') = Members(ring) \ {c}
    BY <1>1, <1>3, Popped
  <1>5. exec' \in Members(ring') \cup {Main}
    BY <1>1, <1>2, <1>3, <1>4, Neighbours
  <1>6. /\ at' \in [Coros -> {"out", "start", "run"}] /\ at'[c] = "out"
        /\ \A d \in Coros : d # c => at'[d] = at[d]
    BY <1>1 DEF TypeOK
  <1>7. /\ status' \in [Coros -> {"initial", "enabled", "running", "suspend", "release"}]
        /\ status'[c] = "release"
        /\ \A d \in Coros : d # c => status'[d] = status[d]
    BY <1>1 DEF TypeOK
  <1>8. task[c] \in 1 .. Given /\ task[c] \notin done /\ task[c] \in begun
    BY <1>1 DEF TaskInv
  <1>9. Given \in Nat /\ Given' = Given
    BY <1>1, GivenType DEF Given
  <1>10. Given > 0
    BY <1>8, <1>9
  <1>11. kind[task[c]] = "WHOLE" => task[c] = Given /\ airing = 1
    BY <1>8, <1>10 DEF BarrierInv, Airing
  <1>12. airing' = IF Airing' THEN 1 ELSE 0
    <2>1. CASE kind[task[c]] = "WHOLE"
      <3>1. ~Airing'
        BY <1>1, <1>9, <1>11, <2>1 DEF Airing
      <3>2. airing' = 0
        BY <1>1, <1>11, <2>1
      <3> QED
        BY <3>1, <3>2
    <2>2. CASE kind[task[c]] # "WHOLE"
      <3>1. Airing' <=> Airing
        BY <1>1, <1>9, <2>2 DEF Airing
      <3> QED
        BY <1>1, <2>2, <3>1 DEF BarrierInv
    <2> QED
      BY <2>1, <2>2
  <1>13. TypeOK'
    <2>1. task[c] \in Tasks
      BY <1>8, GivenType, Sizes DEF Tasks
    <2>2. airing' \in 0 .. 1
      BY <1>12
    <2>3. exec' \in Coros \cup {Main}
      BY <1>3, <1>4, <1>5
    <2> QED
      BY <1>1, <1>4, <1>6, <1>7, <2>1, <2>2, <2>3 DEF TypeOK
  <1>14. LoopInv'
    BY <1>1, <1>2 DEF LoopInv
  <1>15. NxtInv'
    BY <1>1, <1>2 DEF NxtInv
  <1>16. RingInv'
    <2>1. Useable(c)' /\ \A d \in Coros : d # c => (Useable(d)' <=> Useable(d))
      BY <1>7 DEF Useable
    <2>2. \A d \in Coros : d \in Members(ring') <=> ~Useable(d)'
      BY <1>4, <2>1 DEF RingInv
    <2>3. \A d \in Coros : at'[d] # "out" <=> d \in Members(ring') \cup Members(chain')
      BY <1>1, <1>2, <1>4, <1>6 DEF RingInv
    <2>4. \A d \in Coros : d # Main
      BY Sizes DEF Main, Coros
    <2>5. \A d \in Coros : status'[d] = "running" <=> d = cur'
      BY <1>1, <1>7, <2>4 DEF RingInv
    <2> QED
      BY <1>1, <1>2, <1>4, <1>5, <2>2, <2>3, <2>5 DEF RingInv
  <1>17. ListInv'
    BY <1>1, <1>9 DEF ListInv
  <1>18. TaskInv'
    <2>1. done' \subseteq begun' /\ begun' \subseteq 1 .. Given'
      BY <1>1, <1>8, <1>9 DEF TaskInv
    <2>2. ASSUME NEW d \in Coros, at'[d] # "out"
          PROVE  task[d] \in 1 .. Given /\ task[d] \notin done'
      <3>1. d # c /\ at[d] # "out"
        BY <1>6, <2>2
      <3>2. task[d] # task[c]
        BY <1>1, <3>1 DEF TaskInv
      <3> QED
        BY <1>1, <3>1, <3>2 DEF TaskInv
    <2>3. \A d \in Coros : /\ at'[d] = "start" => task[d] \notin begun
                           /\ at'[d] = "run" => task[d] \in begun
      BY <1>6 DEF TaskInv
    <2>4. \A d, e \in Coros :
             at'[d] # "out" /\ at'[e] # "out" /\ task[d] = task[e] => d = e
      BY <1>6 DEF TaskInv
    <2>5. ASSUME NEW k \in 1 .. Given
          PROVE  k \in done' \/ \E d \in Coros : at'[d] # "out" /\ task[d] = k
      <3>1. CASE k \in done
        BY <1>1, <3>1
      <3>2. CASE \E d \in Coros : at[d] # "out" /\ task[d] = k
        BY <1>1, <1>6, <3>2
      <3> QED
        BY <3>1, <3>2 DEF TaskInv
    <2> QED
      BY <1>1, <1>9, <2>1, <2>2, <2>3, <2>4, <2>5 DEF TaskInv
  <1>19. BarrierInv'
    BY <1>1, <1>9, <1>12 DEF BarrierInv
  <1> QED
    BY <1>13, <1>14, <1>15, <1>16, <1>17, <1>18, <1>19

\* Every step of main, of a coroutine or of another thread keeps it.
LEMMA CoroInvStep == CoroInv /\ [Next]_vars => CoroInv'
  <1> SUFFICES ASSUME CoroInv, [Next]_vars
               PROVE  CoroInv'
    OBVIOUS
  <1>1. CASE LoopStep
    <2>1. CASE Supply
      BY <2>1, HoldKeeps, GiveKeeps
    <2> QED
      BY <1>1, <2>1, TurnKeeps, SupplyEndsKeeps, PushKeeps, FirstKeeps DEF LoopStep
  <1>2. CASE \E c \in Coros : CoroStep(c)
    BY <1>2, WaitKeeps, EnterKeeps, YieldKeeps, ReturnKeeps DEF CoroStep
  <1>3. CASE \E k \in {"ALONE", "WHOLE"} : Submit(k)
    BY <1>3, SubmitKeeps
  <1>4. CASE UNCHANGED vars
    <2>1. UNCHANGED <<list, kind, temp, have, airing, nxt, chain, status, task, at, ring,
                      exec, cur, mode, step, begun, done>>
      BY <1>4 DEF vars
    <2>2. TypeOK'
      BY <2>1 DEF CoroInv, TypeOK
    <2>3. LoopInv' /\ RingInv' /\ NxtInv'
      BY <2>1, RingAlone DEF CoroInv
    <2>4. ListInv' /\ TaskInv' /\ BarrierInv'
      BY <2>1, TasksAlone DEF CoroInv
    <2> QED
      BY <2>2, <2>3, <2>4 DEF CoroInv
  <1> QED
    BY <1>1, <1>2, <1>3, <1>4 DEF Next

-----------------------------------------------------------------------------
\* What follows from the invariant.

\* Every reachable state of a worker that runs coroutines satisfies the
\* invariant, type correctness included: coroutine_loop, supply_coro_queue,
\* coroutine_switch and _task keep it.
THEOREM CoroInvariance == Spec => []CoroInv
  BY CoroInvInit, CoroInvStep, PTL DEF Spec

\* The invariant gives the soundness of the ring.
LEMMA InvRingSound == CoroInv => RingSound
  <1> SUFFICES ASSUME CoroInv
               PROVE  RingSound
    OBVIOUS
  <1> USE DEF CoroInv
  <1>1. /\ Members(ring) \subseteq Coros /\ Cardinality(Members(ring)) = Len(ring)
        /\ Cardinality(Members(chain)) = Len(chain)
    BY MembersCount DEF TypeOK, RingInv
  <1>2. Members(ring) = {c \in Coros : status[c] \notin {"initial", "release"}}
    BY <1>1 DEF RingInv, Useable
  <1>3. {c \in Coros : status[c] = "running"} = {cur} \ {Main}
    <2>1. cur \in Coros \cup {Main} /\ Main \notin Coros
      BY Sizes DEF TypeOK, Main, Coros
    <2> QED
      BY <2>1 DEF RingInv
  <1> QED
    BY <1>1, <1>2, <1>3 DEF RingSound, LoopInv, RingInv

\* For all sizes that cfg_check accepts, no assertion of coro.c or of
\* supply_coro_queue fails, no coroutine is handed out while it is in use or
\* waits to be pushed, and the ring and S->exec stay sound.
THEOREM RingIsSound == Spec => []RingSound
  BY CoroInvariance, InvRingSound, PTL

\* The invariant puts each task in one place.
LEMMA InvEachTaskOnce == CoroInv => EachTaskOnce
  <1> SUFFICES ASSUME CoroInv, NEW k \in 1 .. Len(kind)
               PROVE  LET places == {i \in 1 .. Len(list) : list[i] = k}
                            \cup {MaxTasks + 2 + c : c \in {d \in Coros : at[d] # "out" /\ task[d] = k}}
                            \cup (IF have /\ temp = k THEN {MaxTasks + 1} ELSE {})
                            \cup (IF k \in done THEN {MaxTasks + 2} ELSE {})
                      IN  Cardinality(places) = 1
    BY DEF EachTaskOnce
  <1> USE DEF CoroInv
  <1> DEFINE inList == {i \in 1 .. Len(list) : list[i] = k}
             holders == {d \in Coros : at[d] # "out" /\ task[d] = k}
             with == {MaxTasks + 2 + c : c \in holders}
             back == IF have /\ temp = k THEN {MaxTasks + 1} ELSE {}
             over == IF k \in done THEN {MaxTasks + 2} ELSE {}
  <1>0. /\ Given \in Nat /\ Len(kind) \in Nat /\ Len(list) \in Nat /\ Given <= Len(kind)
        /\ have => Given = Len(kind) - Len(list) - 1
        /\ ~have => Given = Len(kind) - Len(list)
        /\ k \in Nat /\ k <= Len(kind)
    BY GivenType
  <1>1. \E x : inList \cup with \cup back \cup over = {x}
    <2>1. ASSUME k > Given
          PROVE  with = {} /\ over = {}
      <3>1. k \notin 1 .. Given
        BY <1>0, <2>1
      <3>2. holders = {} /\ k \notin done
        BY <3>1 DEF TaskInv
      <3> QED
        BY <3>2
    <2>2. ASSUME k <= Len(kind) - Len(list)
          PROVE  inList = {}
      <3>1. \A i \in 1 .. Len(list) : list[i] = Len(kind) - Len(list) + i
        BY DEF ListInv
      <3> QED
        BY <1>0, <2>2, <3>1
    <2>3. CASE k > Len(kind) - Len(list)
      <3>0. k - (Len(kind) - Len(list)) \in 1 .. Len(list)
        BY <1>0, <2>3
      <3>1. PICK i \in 1 .. Len(list) : i = k - (Len(kind) - Len(list))
        BY <3>0
      <3>2. \A j \in 1 .. Len(list) : list[j] = Len(kind) - Len(list) + j
        BY DEF ListInv
      <3>3. inList = {i}
        BY <1>0, <3>1, <3>2
      <3>4. k > Given
        BY <1>0, <2>3
      <3>5. back = {}
        <4>1. have => temp # k
          BY <1>0, <2>3 DEF ListInv
        <4> QED
          BY <4>1
      <3> HIDE DEF inList, with, back, over
      <3> QED
        BY <2>1, <3>3, <3>4, <3>5
    <2>4. CASE have /\ k = Given + 1
      <3>1. back = {MaxTasks + 1}
        BY <2>4 DEF ListInv
      <3>2. k > Given /\ k <= Len(kind) - Len(list)
        BY <1>0, <2>4
      <3> HIDE DEF inList, with, back, over
      <3> QED
        BY <2>1, <2>2, <3>1, <3>2
    <2>5. CASE k <= Given
      <3>1. k \in 1 .. Given /\ k <= Len(kind) - Len(list)
        BY <1>0, <2>5
      <3>2. back = {}
        <4>1. have => temp # k
          BY <1>0, <2>5 DEF ListInv
        <4> QED
          BY <4>1
      <3>3. CASE k \in done
        <4>1. holders = {}
          BY <3>3 DEF TaskInv
        <4>2. with = {} /\ over = {MaxTasks + 2}
          BY <3>3, <4>1
        <4> HIDE DEF inList, with, back, over
        <4> QED
          BY <2>2, <3>1, <3>2, <4>2
      <3>4. CASE k \notin done
        <4>1. PICK c \in Coros : at[c] # "out" /\ task[c] = k
          BY <3>1, <3>4 DEF TaskInv
        <4>2. holders = {c}
          BY <4>1 DEF TaskInv
        <4>3. with = {MaxTasks + 2 + c} /\ over = {}
          BY <3>4, <4>2
        <4> HIDE DEF inList, with, back, over
        <4> QED
          BY <2>2, <3>1, <3>2, <4>3
      <3> QED
        BY <3>3, <3>4
    <2>6. k > Len(kind) - Len(list) \/ (have /\ k = Given + 1) \/ k <= Given
      BY <1>0
    <2> QED
      BY <2>3, <2>4, <2>5, <2>6
  <1>2. Cardinality(inList \cup with \cup back \cup over) = 1
    <2> HIDE DEF inList, with, back, over
    <2> QED
      BY <1>1, FS_Singleton
  <1> QED
    BY <1>2

\* However pushes, held back tasks, switches and returns interleave, every
\* task is in the list, in temp, with one coroutine or done: none is lost and
\* none is given out twice.
THEOREM TasksOnce == Spec => []EachTaskOnce
  BY CoroInvariance, InvEachTaskOnce, PTL

\* The invariant makes a WHOLE task a barrier.
LEMMA InvWholeIsBarrier == CoroInv => WholeIsBarrier
  <1> SUFFICES ASSUME CoroInv, NEW k \in 1 .. Len(kind), kind[k] = "WHOLE"
               PROVE  /\ k \in begun => 1 .. k - 1 \subseteq done
                      /\ k \notin done => begun \cap (k + 1 .. MaxTasks) = {}
    BY DEF WholeIsBarrier
  <1> USE DEF CoroInv
  <1>1. k \in begun => 1 .. k - 1 \subseteq done
    BY DEF BarrierInv
  <1>2. ASSUME k \notin done
        PROVE  begun \cap (k + 1 .. MaxTasks) = {}
    <2>1. Given \in Nat /\ k \in Nat \ {0}
      BY GivenType
    <2>2. k >= Given
      <3>1. k \in 1 .. Given => k = Given
        BY <1>2 DEF BarrierInv
      <3> QED
        BY <2>1, <3>1
    <2>3. begun \subseteq 1 .. Given
      BY DEF TaskInv
    <2> QED
      BY <2>1, <2>2, <2>3, Sizes
  <1> QED
    BY <1>1, <1>2

\* smart_safe_filter and smart_for_batch_vm make a barrier of a WHOLE task for
\* any number of tasks and coroutines: it begins when all tasks before it have
\* returned, and no task behind it begins before it returns.
THEOREM WholeBarrier == Spec => []WholeIsBarrier
  BY CoroInvariance, InvWholeIsBarrier, PTL

\* What _resume asserts of the coroutine it resumes: it has been pushed, or
\* has switched away, and does not run.
ResumeAssert == [][\A c \in Coros : cur' = c /\ cur # c =>
                      status[c] \in {"enabled", "suspend"}]_vars

\* A step that resumes a coroutine leaves the ring as it is.
LEMMA ResumeLeavesRing ==
    ASSUME Next, NEW c \in Coros, cur' = c, cur # c
    PROVE  ring' = ring
  <1>0. c # Main
    BY Sizes DEF Main, Coros
  <1>1. CASE LoopStep
    BY <1>1 DEF LoopStep, Turn, Supply, SupplyEnds, Push, First
  <1>2. ASSUME NEW d \in Coros, CoroStep(d)
        PROVE  ring' = ring
    <2>1. CASE Wait(d)
      BY <2>1 DEF Wait, Switch, sched
    <2>2. CASE Enter(d)
      BY <2>2 DEF Enter, sched
    <2>3. CASE Yield(d)
      BY <2>3 DEF Yield, Switch
    <2>4. CASE Return(d)
      BY <1>0, <2>4 DEF Return
    <2> QED
      BY <1>2, <2>1, <2>2, <2>3, <2>4 DEF CoroStep
  <1>3. CASE \E k \in {"ALONE", "WHOLE"} : Submit(k)
    BY <1>3 DEF Submit, sched
  <1> QED
    BY <1>1, <1>2, <1>3 DEF Next

\* The assertion of _resume never fails, in coroutine_loop or in
\* coroutine_switch: who is resumed is in the ring and does not run.
THEOREM ResumeIsSound == Spec => ResumeAssert
  <1>1. ASSUME CoroInv, CoroInv', [Next]_vars
        PROVE  [\A c \in Coros : cur' = c /\ cur # c =>
                   status[c] \in {"enabled", "suspend"}]_vars
    <2> SUFFICES ASSUME Next, NEW c \in Coros, cur' = c, cur # c
                 PROVE  status[c] \in {"enabled", "suspend"}
      BY <1>1
    <2>1. ring' = ring
      BY ResumeLeavesRing
    <2>2. status'[c] = "running"
      BY <1>1 DEF CoroInv, RingInv
    <2>3. c \in Members(ring')
      BY <1>1, <2>2 DEF CoroInv, RingInv, Useable
    <2>4. c \in Members(ring)
      BY <2>1, <2>3
    <2>5. ~Useable(c) /\ status[c] # "running"
      BY <1>1, <2>4 DEF CoroInv, RingInv
    <2> QED
      BY <1>1, <2>5 DEF CoroInv, TypeOK, Useable
  <1> QED
    BY <1>1, CoroInvariance, PTL DEF Spec, ResumeAssert

=============================================================================
