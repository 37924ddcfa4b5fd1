--------------------------- MODULE AsyncPoolProofs ---------------------------
(***************************************************************************)
(* Proofs about the pool of outgoing connections: a connection is in one   *)
(* place, a callback gets the reply to its own command, and the count of   *)
(* the pool covers the connections there are.                              *)
(***************************************************************************)
EXTENDS AsyncPool, FiniteSetTheorems, TLAPS

USE DEF pool, events, parse, peer, loops, hist, Go

-----------------------------------------------------------------------------
\* The invariant.

Started(c) == rev[c] \/ wev[c]
Pooled(c) == \E i \in DOMAIN qlist : qlist[i] = c
Returned(c) == \E t \in Threads : pc[t] = "finish" /\ cur[t] = c

\* Where a connection is: OnePlace without the counting.  A started one, and
\* no other, has commands to send.
PlaceInv ==
    /\ \A c \in Conns :
           /\ mem[c] = "live" <=> Started(c) \/ Pooled(c) \/ Returned(c)
           /\ ~ (rev[c] /\ wev[c])
           /\ Started(c) <=> work[c] # <<>>
           /\ Started(c) => ~ Pooled(c) /\ ~ Returned(c)
           /\ Pooled(c) => ~ Returned(c)
    /\ \A i, j \in DOMAIN qlist : qlist[i] = qlist[j] => i = j
    /\ \A t, u \in Threads :
           pc[t] = "finish" /\ pc[u] = "finish" /\ cur[t] = cur[u] => t = u
    /\ \A t \in Threads : pc[t] \in {"finish", "trail"} => cur[t] # 0

\* At most one request is under way, that of the first command.
PeerInv ==
    \A c \in Conns : mem[c] # "freed" =>
        /\ ~ rev[c] => asked[c] = <<>> /\ reply[c] = <<>>
        /\ rev[c] => \/ asked[c] \in {<<>>, <<Head(work[c])>>} /\ reply[c] = <<>>
                     \/ /\ asked[c] = <<>>
                        /\ \E n \in {1, 2} :
                               reply[c] = <<[cmd |-> Head(work[c]), parts |-> n]>>

\* Commands are numbered in the order in which they are asked for, and there
\* is a number left for every taking that is under way.
Total == Cardinality(UNION Range(asks))
Takers == {t \in Threads : pc[t] \in {"count", "swap", "open"}}
AskInv ==
    /\ Total \in Nat /\ UNION Range(asks) = 1 .. Total
    /\ Total <= Len(asks) + MaxPairs
    /\ Len(asks) + Cardinality(Takers) <= npull /\ npull <= MaxAsks

\* Commands wait in order, on one connection each.
WorkInv ==
    /\ \A c \in Conns : \A i, j \in DOMAIN work[c] : i < j => work[c][i] < work[c][j]
    /\ \A c \in Conns : \A i \in DOMAIN work[c] :
           work[c][i] <= Total /\ got[work[c][i]] = <<>>
    /\ \A c, d \in Conns : \A i \in DOMAIN work[c], j \in DOMAIN work[d] :
           work[c][i] = work[d][j] => c = d

\* A command has its answer before the next one of its start; one without an
\* answer waits on the same connection, or a command before it has been told
\* that the connection broke.
TurnInv ==
    \A n \in DOMAIN asks : \A j, k \in asks[n] : j < k =>
        /\ got[k] # <<>> => got[j] = <<j>>
        /\ \A c \in Conns : \A i \in DOMAIN work[c] :
               work[c][i] = k => \/ got[j] = <<j>>
                                 \/ \E h \in DOMAIN work[c] : work[c][h] = j

GotInv == \A k \in Cmds : /\ got[k] \in {<<>>, <<k>>, <<Null>>}
                          /\ k > Total => got[k] = <<>>

Inv == TypeOK /\ PlaceInv /\ PeerInv /\ UseCovers /\ AskInv /\ WorkInv
       /\ TurnInv /\ GotInv

-----------------------------------------------------------------------------
\* Facts about sequences and finite sets.

\* The rest of a sequence.
LEMMA TailOf ==
    ASSUME NEW S, NEW q \in Seq(S), q # <<>>
    PROVE  /\ Tail(q) \in Seq(S) /\ Len(Tail(q)) = Len(q) - 1
           /\ \A i \in 1 .. Len(Tail(q)) : Tail(q)[i] = q[i + 1] /\ i + 1 \in 1 .. Len(q)
           /\ 1 \in 1 .. Len(q) /\ Head(q) = q[1] /\ Head(q) \in S /\ Len(q) \in Nat
OBVIOUS

\* A sequence with one more element.
LEMMA AppendOf ==
    ASSUME NEW S, NEW q \in Seq(S), NEW x \in S
    PROVE  /\ Append(q, x) \in Seq(S) /\ Len(Append(q, x)) = Len(q) + 1
           /\ \A i \in 1 .. Len(q) : Append(q, x)[i] = q[i]
           /\ Append(q, x)[Len(q) + 1] = x /\ Len(q) \in Nat
OBVIOUS

\* A set of threads is finite.
LEMMA SubsetFinite ==
    ASSUME NEW S \in SUBSET Threads
    PROVE  IsFiniteSet(S) /\ Cardinality(S) \in Nat
BY FS_Subset, FS_CardinalityType, PoolAssumption

\* A set of connections is finite.
LEMMA ConnsFinite ==
    ASSUME NEW S \in SUBSET Conns
    PROVE  IsFiniteSet(S) /\ Cardinality(S) \in Nat
<1>1. IsFiniteSet(Conns)
  BY FS_Interval, PoolAssumption DEF Conns
<1> QED BY <1>1, FS_Subset, FS_CardinalityType

\* One element more counts one more.
LEMMA CardPlus ==
    ASSUME NEW S, NEW T, NEW x, IsFiniteSet(S), x \notin S, T = S \cup {x}
    PROVE  Cardinality(T) = Cardinality(S) + 1
BY FS_AddElement

\* One element less counts one less.
LEMMA CardMinus ==
    ASSUME NEW S, NEW T, NEW x, IsFiniteSet(S), x \in S, T = S \ {x}
    PROVE  Cardinality(T) = Cardinality(S) - 1
BY FS_RemoveElement

-----------------------------------------------------------------------------
\* Queueing the commands of a start gives them the next numbers.
LEMMA StartFacts ==
    ASSUME TypeOK, AskInv, NEW t \in Threads, NEW c \in Conns, Start(t, c),
           Len(asks) < MaxAsks, work[c] = <<>>
    PROVE  \E n \in {1, 2} :
               /\ work' = [work EXCEPT ![c] = [i \in 1 .. n |-> Total + i]]
               /\ [i \in 1 .. n |-> Total + i] \in Seq(Cmds)
               /\ asks' = Append(asks, Total + 1 .. Total + n)
               /\ (Total + 1 .. Total + n) \in SUBSET Cmds
               /\ Total' = Total + n
               /\ UNION Range(asks') = 1 .. Total + n
               /\ Total + n <= Len(asks) + 1 + MaxPairs
<1>1. PICK n \in {1, 2} :
          LET k == Total
              new == [i \in 1 .. n |-> k + i]
          IN  /\ n = 2 => k - Len(asks) < MaxPairs
              /\ work' = [work EXCEPT ![c] = @ \o new]
              /\ asks' = Append(asks, Range(new))
  BY DEF Start, Total
<1> DEFINE new == [i \in 1 .. n |-> Total + i]
<1>2. Total \in Nat /\ UNION Range(asks) = 1 .. Total /\ Total <= Len(asks) + MaxPairs
  BY DEF AskInv
<1>3. /\ asks \in Seq(SUBSET Cmds) /\ Len(asks) \in Nat
      /\ MaxAsks \in Nat /\ MaxPairs \in Nat
  BY PoolAssumption DEF TypeOK
<1>4. /\ Total + n <= Len(asks) + 1 + MaxPairs
      /\ Total + n <= MaxAsks + MaxPairs
  <2>1. CASE n = 1
    BY ONLY <1>2, <1>3, <2>1, Len(asks) < MaxAsks
  <2>2. CASE n = 2
    BY ONLY <1>1, <1>2, <1>3, <2>2, Len(asks) < MaxAsks
  <2> QED BY <1>1, <2>1, <2>2
<1>5. n \in Nat /\ (n = 1 \/ n = 2)
  BY <1>1
<1>6. \A i \in 1 .. n : Total + i \in Cmds
  BY ONLY <1>2, <1>3, <1>4, <1>5 DEF Cmds
<1>7. new \in Seq(Cmds)
  BY ONLY <1>5, <1>6
<1>8. Range(new) = Total + 1 .. Total + n
  <2>1. \A x : x \in Range(new) <=> \E i \in 1 .. n : x = Total + i
    BY DEF Range
  <2>2. \A x : (\E i \in 1 .. n : x = Total + i) <=> x \in Total + 1 .. Total + n
    <3>1. ASSUME NEW x \in Total + 1 .. Total + n
          PROVE  \E i \in 1 .. n : x = Total + i
      <4>1. x - Total \in 1 .. n /\ x = Total + (x - Total)
        BY ONLY <1>2, <1>5, <3>1
      <4> QED BY <4>1
    <3>2. \A i \in 1 .. n : Total + i \in Total + 1 .. Total + n
      BY ONLY <1>2, <1>5
    <3> QED BY <3>1, <3>2
  <2> QED BY <2>1, <2>2
<1>9. work' = [work EXCEPT ![c] = new]
  <2>1. work' = [work EXCEPT ![c] = work[c] \o new]
    BY <1>1
  <2>2. <<>> \o new = new
    BY ONLY <1>7
  <2> QED BY <2>1, <2>2, work[c] = <<>>
<1>10. (Total + 1 .. Total + n) \in SUBSET Cmds
  BY ONLY <1>2, <1>3, <1>4, <1>5 DEF Cmds
<1>11. asks' = Append(asks, Total + 1 .. Total + n)
  BY <1>1, <1>8
<1>12. UNION Range(asks') = 1 .. Total + n
  <2> DEFINE B == Total + 1 .. Total + n
  <2>1. Range(asks') = Range(asks) \cup {B}
    <3>1. /\ Len(asks') = Len(asks) + 1 /\ asks' \in Seq(SUBSET Cmds)
          /\ \A i \in 1 .. Len(asks) : asks'[i] = asks[i]
          /\ asks'[Len(asks) + 1] = B
      BY <1>3, <1>10, <1>11, AppendOf
    <3>2. DOMAIN asks' = 1 .. Len(asks) + 1 /\ DOMAIN asks = 1 .. Len(asks)
      BY <1>3, <3>1
    <3>3. \A i : i \in 1 .. Len(asks) + 1 <=> i \in 1 .. Len(asks) \/ i = Len(asks) + 1
      BY ONLY <1>3
    <3>4. Len(asks) + 1 \in DOMAIN asks'
      BY ONLY <1>3, <3>2
    <3> HIDE DEF B
    <3> QED BY <3>1, <3>2, <3>3, <3>4 DEF Range
  <2>2. UNION Range(asks') = (UNION Range(asks)) \cup B
    BY ONLY <2>1
  <2>3. (1 .. Total) \cup (Total + 1 .. Total + n) = 1 .. Total + n
    BY ONLY <1>2, <1>5
  <2> QED BY <1>2, <2>2, <2>3
<1>13. Total' = Total + n
  <2>1. Total' = Cardinality(UNION Range(asks'))
    BY DEF Total
  <2>2. Cardinality(1 .. Total + n) = Total + n
    BY <1>2, <1>5, FS_Interval
  <2> QED BY <1>12, <2>1, <2>2
<1> QED BY <1>4, <1>7, <1>9, <1>10, <1>11, <1>12, <1>13

\* Who starts a connection has a taking left, and the connection is idle.
LEMMA StartsPooled ==
    ASSUME Inv, NEW t \in Threads, PullOk(t)
    PROVE  /\ Len(asks) < MaxAsks /\ Head(qlist) \in Conns
           /\ Pooled(Head(qlist)) /\ work[Head(qlist)] = <<>>
           /\ ~ Started(Head(qlist)) /\ mem[Head(qlist)] = "live"
<1>1. Cardinality(Takers) \in Nat /\ Len(asks) \in Nat /\ MaxAsks \in Nat /\ npull \in Nat
  BY SubsetFinite, PoolAssumption DEF Takers, Inv, TypeOK
<1>2. Len(asks) < MaxAsks
  BY <1>1 DEF PullOk, Inv, AskInv
<1>3. /\ Head(qlist) = qlist[1] /\ 1 \in DOMAIN qlist /\ Head(qlist) \in Conns
  BY TailOf DEF PullOk, Inv, TypeOK
<1>4. Pooled(Head(qlist))
  BY <1>3 DEF Pooled
<1> QED BY <1>2, <1>3, <1>4 DEF Inv, PlaceInv

\* The same for a connection that has just been opened.
LEMMA StartsOpened ==
    ASSUME Inv, NEW t \in Threads, pc[t] = "open", NEW c \in Conns, mem[c] = "none"
    PROVE  /\ Len(asks) < MaxAsks /\ work[c] = <<>>
           /\ ~ Pooled(c) /\ ~ Returned(c) /\ ~ Started(c)
<1>1. /\ Cardinality(Takers) \in Nat /\ IsFiniteSet(Takers)
      /\ Len(asks) \in Nat /\ MaxAsks \in Nat /\ npull \in Nat
  BY SubsetFinite, PoolAssumption DEF Takers, Inv, TypeOK
<1>2. t \in Takers
  BY DEF Takers
<1>3. Cardinality(Takers) # 0
  BY <1>1, <1>2, FS_EmptySet
<1>4. Len(asks) < MaxAsks
  BY <1>1, <1>3 DEF Inv, AskInv
<1> QED BY <1>4 DEF Inv, PlaceInv

\* A watcher fires on a connection that is started and has commands waiting.
LEMMA FiresOn ==
    ASSUME Inv, NEW t \in Threads, NEW c \in Conns, Started(c)
    PROVE  /\ work[c] # <<>> /\ mem[c] = "live"
           /\ Head(work[c]) = work[c][1] /\ 1 \in DOMAIN work[c]
           /\ Head(work[c]) \in Cmds /\ Tail(work[c]) \in Seq(Cmds)
           /\ got[Head(work[c])] = <<>>
<1>1. work[c] # <<>> /\ mem[c] = "live" /\ work[c] \in Seq(Cmds)
  BY DEF Inv, PlaceInv, TypeOK
<1>2. /\ Head(work[c]) = work[c][1] /\ 1 \in DOMAIN work[c]
      /\ Head(work[c]) \in Cmds /\ Tail(work[c]) \in Seq(Cmds)
  BY <1>1, TailOf
<1> QED BY <1>1, <1>2 DEF Inv, WorkInv

\* use is positive as long as a connection exists.
LEMMA UsePositive ==
    ASSUME Inv, NEW c \in Conns, mem[c] = "live"
    PROVE  use - 1 \in Nat
<1>1. /\ IsFiniteSet(Live) /\ Cardinality(Live) \in Nat
  BY ConnsFinite DEF Live
<1>2. Cardinality({t \in Threads : pc[t] = "open"}) \in Nat
  BY SubsetFinite
<1>3. c \in Live
  BY DEF Live
<1>4. Cardinality(Live) # 0
  BY <1>1, <1>3, FS_EmptySet
<1>5. use \in Nat
  BY DEF Inv, TypeOK
<1> QED BY <1>1, <1>2, <1>4, <1>5 DEF Inv, UseCovers

\* Every step keeps the types.
LEMMA TypeStep ==
    ASSUME Inv, Next
    PROVE  TypeOK'
<1> USE DEF Inv, TypeOK
<1>1. ASSUME NEW t \in Threads, PullOk(t) PROVE TypeOK'
  <2>1. PICK n \in {1, 2} :
            /\ work' = [work EXCEPT ![Head(qlist)] = [i \in 1 .. n |-> Total + i]]
            /\ [i \in 1 .. n |-> Total + i] \in Seq(Cmds)
            /\ asks' = Append(asks, Total + 1 .. Total + n)
            /\ (Total + 1 .. Total + n) \in SUBSET Cmds
    BY <1>1, StartsPooled, StartFacts DEF PullOk
  <2>2. work' \in [Conns -> Seq(Cmds)] /\ asks' \in Seq(SUBSET Cmds)
    BY <2>1, AppendOf, StartsPooled, <1>1
  <2>3. qlist' \in Seq(Conns) /\ Head(qlist) \in Conns
    BY <1>1, TailOf DEF PullOk
  <2>4. /\ rev' \in [Conns -> BOOLEAN] /\ wev' \in [Conns -> BOOLEAN]
        /\ owner' \in [Conns -> Threads \cup {Null}]
    BY <1>1, <2>3, SMTT(20) DEF PullOk, Start
  <2>5. npull' \in Nat
    BY <1>1 DEF PullOk
  <2> QED BY <1>1, <2>2, <2>3, <2>4, <2>5 DEF PullOk
<1>2. ASSUME NEW t \in Threads, PullEmpty(t) PROVE TypeOK'
  <2>1. npull' \in Nat
    BY <1>2 DEF PullEmpty
  <2>2. pc' = [pc EXCEPT ![t] = "count"]
    BY <1>2 DEF PullEmpty
  <2> QED BY <1>2, <2>1, <2>2 DEF PullEmpty
<1>3. ASSUME NEW t \in Threads, CountRead(t) PROVE TypeOK'
  BY <1>3 DEF CountRead
<1>4. ASSUME NEW t \in Threads, CountSwap(t) PROVE TypeOK'
  <2>1. use' \in Nat
    BY <1>4 DEF CountSwap
  <2>2. pc' \in {[pc EXCEPT ![t] = "open"], [pc EXCEPT ![t] = "count"]}
    BY <1>4 DEF CountSwap
  <2>3. idx' \in [Threads -> Nat]
    BY <1>4 DEF CountSwap
  <2> QED BY <1>4, <2>1, <2>2, <2>3 DEF CountSwap
<1>5. ASSUME NEW t \in Threads, OpenOk(t) PROVE TypeOK'
  <2>1. PICK c \in Conns : /\ mem[c] = "none" /\ Start(t, c)
                           /\ mem' = [mem EXCEPT ![c] = "live"]
    BY <1>5 DEF OpenOk
  <2>2. PICK n \in {1, 2} :
            /\ work' = [work EXCEPT ![c] = [i \in 1 .. n |-> Total + i]]
            /\ [i \in 1 .. n |-> Total + i] \in Seq(Cmds)
            /\ asks' = Append(asks, Total + 1 .. Total + n)
            /\ (Total + 1 .. Total + n) \in SUBSET Cmds
    BY <1>5, <2>1, StartsOpened, StartFacts DEF OpenOk
  <2>3. work' \in [Conns -> Seq(Cmds)] /\ asks' \in Seq(SUBSET Cmds)
    BY <2>2, AppendOf
  <2>4. /\ rev' \in [Conns -> BOOLEAN] /\ wev' \in [Conns -> BOOLEAN]
        /\ owner' \in [Conns -> Threads \cup {Null}]
    BY <2>1 DEF Start
  <2> QED BY <1>5, <2>1, <2>3, <2>4 DEF OpenOk
<1>6. ASSUME NEW t \in Threads, OpenFails(t) PROVE TypeOK'
  <2>1. fails' \in Nat
    BY <1>6 DEF OpenFails
  <2>2. pc' = [pc EXCEPT ![t] = "idle"]
    BY <1>6 DEF OpenFails
  <2> QED BY <1>6, <2>1, <2>2 DEF OpenFails
<1>7. ASSUME NEW t \in Threads, Finish(t) PROVE TypeOK'
  <2>1. cur[t] \in Conns
    BY <1>7 DEF Finish, PlaceInv
  <2> QED BY <1>7, <2>1, AppendOf DEF Finish
<1>8. ASSUME NEW t \in Threads, Trail(t) PROVE TypeOK'
  BY <1>8 DEF Trail
<1>9. ASSUME NEW t \in Threads, NEW c \in Conns, Send(t, c) PROVE TypeOK'
  <2>1. Head(work[c]) \in Cmds
    BY <1>9, FiresOn DEF Send, Fires, Started
  <2>2. Append(asked[c], Head(work[c])) \in Seq(Cmds)
    BY <2>1, AppendOf
  <2> QED BY <1>9, <2>2 DEF Send
<1>10. ASSUME NEW t \in Threads, NEW c \in Conns, Part(t, c) PROVE TypeOK'
  <2>1. [reply[c] EXCEPT ![1].parts = 1] \in Seq([cmd : Cmds, parts : {1, 2}])
    <3> DEFINE R == [cmd : Cmds, parts : {1, 2}]
    <3>1. reply[c] \in Seq(R) /\ reply[c] # <<>>
      BY <1>10 DEF Part
    <3>2. 1 \in DOMAIN reply[c] /\ reply[c][1] \in R /\ Len(reply[c]) \in Nat
      <4> HIDE DEF R
      <4> QED BY ONLY <3>1
    <3>3. [reply[c][1] EXCEPT !.parts = 1] \in R
      BY ONLY <3>2
    <3>4. [reply[c] EXCEPT ![1].parts = 1] =
             [reply[c] EXCEPT ![1] = [reply[c][1] EXCEPT !.parts = 1]]
      OBVIOUS
    <3>5. \A r \in R : [reply[c] EXCEPT ![1] = r] \in Seq(R)
      <4> HIDE DEF R
      <4> QED BY ONLY <3>1, <3>2
    <3> QED BY ONLY <3>3, <3>4, <3>5
  <2>2. reply' \in [Conns -> Seq([cmd : Cmds, parts : {1, 2}])]
    BY <1>10, <2>1 DEF Part
  <2> QED BY <1>10, <2>2 DEF Part
<1>11. ASSUME NEW t \in Threads, NEW c \in Conns, Reply(t, c) PROVE TypeOK'
  <2>1. Head(work[c]) \in Cmds /\ Tail(work[c]) \in Seq(Cmds)
    BY <1>11, FiresOn DEF Reply, Fires, Started
  <2>2. /\ Head(reply[c]) \in [cmd : Cmds, parts : {1, 2}]
        /\ Tail(reply[c]) \in Seq([cmd : Cmds, parts : {1, 2}])
    BY <1>11, TailOf DEF Reply
  <2>3. Append(got[Head(work[c])], Head(reply[c]).cmd) \in Seq(Cmds \cup {Null})
    BY <2>1, <2>2, AppendOf
  <2>4. /\ got' \in [Cmds -> Seq(Cmds \cup {Null})]
        /\ reply' \in [Conns -> Seq([cmd : Cmds, parts : {1, 2}])]
        /\ work' \in [Conns -> Seq(Cmds)]
    BY <1>11, <2>1, <2>2, <2>3 DEF Reply
  <2> QED BY <1>11, <2>4, ZenonT(30) DEF Reply
<1>12. ASSUME NEW t \in Threads, NEW c \in Conns, Broken(t, c) PROVE TypeOK'
  <2>1. Head(work[c]) \in Cmds /\ mem[c] = "live"
    BY <1>12, FiresOn DEF Broken, Fires, Started
  <2>2. Append(got[Head(work[c])], Null) \in Seq(Cmds \cup {Null})
    BY <2>1, AppendOf
  <2>3. use' \in Nat
    BY <1>12, <2>1, UsePositive DEF Broken
  <2>4. <<>> \in Seq(Cmds)
    OBVIOUS
  <2>5. got' \in [Cmds -> Seq(Cmds \cup {Null})] /\ work' \in [Conns -> Seq(Cmds)]
    BY <1>12, <2>2, <2>4 DEF Broken
  <2> QED BY <1>12, <2>3, <2>5 DEF Broken
<1>13. ASSUME NEW c \in Conns, Answer(c) PROVE TypeOK'
  <2>1. Head(asked[c]) \in Cmds /\ Tail(asked[c]) \in Seq(Cmds)
    BY <1>13, TailOf DEF Answer
  <2>2. \A n \in {1, 2} : Append(reply[c], [cmd |-> Head(asked[c]), parts |-> n])
                              \in Seq([cmd : Cmds, parts : {1, 2}])
    BY <2>1, AppendOf
  <2> QED BY <1>13, <2>1, <2>2, ZenonT(30) DEF Answer
<1>14. ASSUME NEW c \in Conns, Shut(c) PROVE TypeOK'
  <2>1. <<>> \in Seq(Cmds) /\ <<>> \in Seq([cmd : Cmds, parts : {1, 2}])
    OBVIOUS
  <2>2. fails' \in Nat
    BY <1>14 DEF Shut
  <2>3. asked' \in [Conns -> Seq(Cmds)] /\ shut' \in [Conns -> BOOLEAN]
    BY <1>14, <2>1 DEF Shut
  <2>4. PICK r \in {reply[c], <<>>} : reply' = [reply EXCEPT ![c] = r]
    BY <1>14 DEF Shut
  <2>5. r \in Seq([cmd : Cmds, parts : {1, 2}])
    <3>1. reply[c] \in Seq([cmd : Cmds, parts : {1, 2}])
      OBVIOUS
    <3> QED BY ONLY <2>1, <2>4, <3>1
  <2>6. reply' \in [Conns -> Seq([cmd : Cmds, parts : {1, 2}])]
    BY <2>4, <2>5
  <2> QED BY <1>14, <2>2, <2>3, <2>6 DEF Shut
<1>15. CASE Done
  BY <1>15 DEF Done, vars
<1>16. ASSUME NEW t \in Threads, NEW c \in Conns, Blank(t, c) PROVE TypeOK'
  <2>1. Tail(reply[c]) \in Seq([cmd : Cmds, parts : {1, 2}])
    BY <1>16, TailOf DEF Blank
  <2> QED BY <1>16, <2>1 DEF Blank
<1> QED BY <1>1, <1>2, <1>3, <1>4, <1>5, <1>6, <1>7, <1>8, <1>9, <1>10, <1>11,
           <1>12, <1>13, <1>14, <1>15, <1>16 DEF Next, Step

-----------------------------------------------------------------------------
\* A connection stays in one place, moves to the next, or is gone.

\* Steps that move none.
LEMMA PlaceSame ==
    ASSUME TypeOK, PlaceInv, UNCHANGED <<qlist, mem, rev, wev, work>>,
           \A t \in Threads :
               \/ pc'[t] = pc[t] /\ cur'[t] = cur[t]
               \/ pc[t] # "finish" /\ pc'[t] # "finish" /\ pc'[t] # "trail"
    PROVE  PlaceInv'
<1>1. \A c \in Conns : /\ Started(c)' <=> Started(c)
                       /\ Pooled(c)' <=> Pooled(c)
                       /\ Returned(c)' <=> Returned(c)
  BY DEF Started, Pooled, Returned
<1>2. \A t, u \in Threads :
          pc'[t] = "finish" /\ pc'[u] = "finish" /\ cur'[t] = cur'[u] => t = u
  BY DEF PlaceInv
<1>3. \A t \in Threads : pc'[t] \in {"finish", "trail"} => cur'[t] # 0
  BY DEF PlaceInv
<1> QED BY <1>1, <1>2, <1>3 DEF PlaceInv

\* Steps on one connection c: the others stay where they are, and c is in one
\* place or none afterwards.
LEMMA PlaceMoves ==
    ASSUME TypeOK, PlaceInv, TypeOK', NEW c \in Conns,
           \A d \in Conns \ {c} :
               /\ mem'[d] = mem[d] /\ rev'[d] = rev[d] /\ wev'[d] = wev[d]
               /\ work'[d] = work[d]
               /\ Pooled(d)' <=> Pooled(d)
               /\ Returned(d)' <=> Returned(d),
           mem'[c] = "live" <=> Started(c)' \/ Pooled(c)' \/ Returned(c)',
           ~ (rev'[c] /\ wev'[c]),
           Started(c)' <=> work'[c] # <<>>,
           Started(c)' => ~ Pooled(c)' /\ ~ Returned(c)',
           Pooled(c)' => ~ Returned(c)',
           \A i, j \in DOMAIN qlist' : qlist'[i] = qlist'[j] => i = j,
           \A t, u \in Threads :
               pc'[t] = "finish" /\ pc'[u] = "finish" /\ cur'[t] = cur'[u] => t = u,
           \A t \in Threads : pc'[t] \in {"finish", "trail"} => cur'[t] # 0
    PROVE  PlaceInv'
<1>1. \A d \in Conns \ {c} : Started(d)' <=> Started(d)
  BY DEF Started
<1>2. ASSUME NEW d \in Conns
      PROVE  /\ mem'[d] = "live" <=> Started(d)' \/ Pooled(d)' \/ Returned(d)'
             /\ ~ (rev'[d] /\ wev'[d])
             /\ Started(d)' <=> work'[d] # <<>>
             /\ Started(d)' => ~ Pooled(d)' /\ ~ Returned(d)'
             /\ Pooled(d)' => ~ Returned(d)'
  <2>1. CASE d = c
    BY <2>1
  <2>2. CASE d # c
    BY <1>1, <2>2 DEF PlaceInv
  <2> QED BY <2>1, <2>2
<1> QED BY <1>2 DEF PlaceInv

\* What a start does to the watchers and the commands.
LEMMA StartPlace ==
    ASSUME Inv, NEW t \in Threads, NEW c \in Conns, Start(t, c),
           Len(asks) < MaxAsks, work[c] = <<>>
    PROVE  /\ ~ rev'[c] /\ wev'[c] /\ work'[c] # <<>>
           /\ \A d \in Conns \ {c} : /\ rev'[d] = rev[d] /\ wev'[d] = wev[d]
                                     /\ work'[d] = work[d]
<1>1. PICK n \in {1, 2} :
            /\ work' = [work EXCEPT ![c] = [i \in 1 .. n |-> Total + i]]
            /\ [i \in 1 .. n |-> Total + i] \in Seq(Cmds)
  BY StartFacts DEF Inv
<1>2. [i \in 1 .. n |-> Total + i] # <<>>
  <2>1. 1 \in DOMAIN [i \in 1 .. n |-> Total + i]
    BY <1>1
  <2> QED BY <2>1
<1>3. work'[c] # <<>> /\ \A d \in Conns \ {c} : work'[d] = work[d]
  BY <1>1, <1>2 DEF Inv, TypeOK
<1>4. /\ ~ rev'[c] /\ wev'[c]
      /\ \A d \in Conns \ {c} : rev'[d] = rev[d] /\ wev'[d] = wev[d]
  BY DEF Start, Inv, TypeOK
<1> QED BY <1>3, <1>4

\* Every step keeps the places.
LEMMA PlaceStep ==
    ASSUME Inv, Next, TypeOK'
    PROVE  PlaceInv'
<1>0. TypeOK /\ PlaceInv
  BY DEF Inv
<1>1. ASSUME NEW t \in Threads, PullOk(t) PROVE PlaceInv'
  <2>0. PICK c \in Conns : c = Head(qlist)
    BY <1>1, StartsPooled
  <2>1. /\ c \in Conns /\ Pooled(c) /\ ~ Started(c) /\ work[c] = <<>>
        /\ Len(asks) < MaxAsks /\ mem[c] = "live"
    BY <1>1, <2>0, StartsPooled
  <2>2. /\ ~ rev'[c] /\ wev'[c] /\ work'[c] # <<>>
        /\ \A d \in Conns \ {c} : /\ rev'[d] = rev[d] /\ wev'[d] = wev[d]
                                  /\ work'[d] = work[d]
    BY <1>1, <2>0, <2>1, StartPlace DEF PullOk
  <2>3. UNCHANGED <<mem, pc, cur>> /\ qlist' = Tail(qlist) /\ qlist # <<>>
    BY <1>1 DEF PullOk
  <2>4. /\ qlist' \in Seq(Conns) /\ Len(qlist') = Len(qlist) - 1 /\ Len(qlist) \in Nat
        /\ \A i \in 1 .. Len(qlist') : qlist'[i] = qlist[i + 1] /\ i + 1 \in 1 .. Len(qlist)
        /\ 1 \in 1 .. Len(qlist) /\ c = qlist[1]
    BY <2>0, <2>3, TailOf DEF Inv, TypeOK
  <2>5. DOMAIN qlist = 1 .. Len(qlist) /\ DOMAIN qlist' = 1 .. Len(qlist')
    BY <2>4 DEF Inv, TypeOK
  <2>6. \A i, j \in DOMAIN qlist : qlist[i] = qlist[j] => i = j
    BY <1>0 DEF PlaceInv
  <2>7. ASSUME NEW i \in DOMAIN qlist', NEW j \in DOMAIN qlist', qlist'[i] = qlist'[j]
        PROVE  i = j
    <3>1. i \in Nat /\ j \in Nat
      BY ONLY <2>4, <2>5, <2>7
    <3>2. i + 1 = j + 1
      BY ONLY <2>4, <2>5, <2>6, <2>7
    <3> QED BY ONLY <3>1, <3>2
  <2>8. \A i \in DOMAIN qlist' : qlist'[i] # c
    BY ONLY <2>4, <2>5, <2>6
  <2>9. ASSUME NEW d \in Conns \ {c} PROVE Pooled(d)' <=> Pooled(d)
    <3>1. ASSUME Pooled(d) PROVE Pooled(d)'
      <4>1. PICK i \in DOMAIN qlist : qlist[i] = d
        BY <3>1 DEF Pooled
      <4>2. i # 1
        BY <2>4, <4>1
      <4>3. i - 1 \in DOMAIN qlist' /\ i = (i - 1) + 1
        BY ONLY <2>4, <2>5, <4>1, <4>2
      <4> QED BY <2>4, <2>5, <4>1, <4>3 DEF Pooled
    <3>2. Pooled(d)' => Pooled(d)
      BY <2>4, <2>5 DEF Pooled
    <3> QED BY <3>1, <3>2
  <2>10. Started(c)' /\ ~ Pooled(c)'
    BY <2>2, <2>8 DEF Started, Pooled
  <2>11. ~ Returned(c)
    BY <1>0, <2>1 DEF PlaceInv
  <2>12. \A d \in Conns : Returned(d)' <=> Returned(d)
    BY <2>3 DEF Returned
  <2>13. /\ \A x, u \in Threads :
               pc'[x] = "finish" /\ pc'[u] = "finish" /\ cur'[x] = cur'[u] => x = u
         /\ \A x \in Threads : pc'[x] \in {"finish", "trail"} => cur'[x] # 0
    BY <1>0, <2>3 DEF PlaceInv
  <2> QED BY <1>0, <2>1, <2>2, <2>3, <2>7, <2>9, <2>10, <2>11, <2>12, <2>13, PlaceMoves
<1>2. ASSUME NEW t \in Threads, PullEmpty(t) PROVE PlaceInv'
  BY <1>0, <1>2, PlaceSame DEF PullEmpty, TypeOK
<1>3. ASSUME NEW t \in Threads, CountRead(t) PROVE PlaceInv'
  BY <1>0, <1>3, PlaceSame DEF CountRead, TypeOK
<1>4. ASSUME NEW t \in Threads, CountSwap(t) PROVE PlaceInv'
  <2>1. pc' \in {[pc EXCEPT ![t] = "open"], [pc EXCEPT ![t] = "count"]}
    BY <1>4 DEF CountSwap
  <2>2. UNCHANGED <<qlist, mem, rev, wev, work, cur>> /\ pc[t] = "swap"
    BY <1>4 DEF CountSwap
  <2>3. \A u \in Threads :
            \/ pc'[u] = pc[u] /\ cur'[u] = cur[u]
            \/ pc[u] # "finish" /\ pc'[u] # "finish" /\ pc'[u] # "trail"
    BY <1>0, <2>1, <2>2 DEF TypeOK
  <2> QED BY <1>0, <2>2, <2>3, PlaceSame
<1>5. ASSUME NEW t \in Threads, OpenOk(t) PROVE PlaceInv'
  <2>1. PICK c \in Conns : /\ mem[c] = "none" /\ Start(t, c)
                           /\ mem' = [mem EXCEPT ![c] = "live"]
    BY <1>5 DEF OpenOk
  <2>2. pc[t] = "open" /\ pc' = [pc EXCEPT ![t] = "idle"] /\ UNCHANGED <<qlist, cur>>
    BY <1>5 DEF OpenOk
  <2>3. /\ Len(asks) < MaxAsks /\ work[c] = <<>>
        /\ ~ Pooled(c) /\ ~ Returned(c)
    BY <2>1, <2>2, StartsOpened
  <2>4. /\ ~ rev'[c] /\ wev'[c] /\ work'[c] # <<>>
        /\ \A d \in Conns \ {c} : /\ rev'[d] = rev[d] /\ wev'[d] = wev[d]
                                  /\ work'[d] = work[d]
    BY <2>1, <2>3, StartPlace
  <2>5. /\ mem'[c] = "live" /\ \A d \in Conns \ {c} : mem'[d] = mem[d]
        /\ \A u \in Threads : /\ pc'[u] \in {"finish", "trail"} <=> pc[u] \in {"finish", "trail"}
                              /\ pc'[u] = "finish" <=> pc[u] = "finish"
    BY <1>0, <2>1, <2>2 DEF TypeOK
  <2>6. \A d \in Conns : (Returned(d)' <=> Returned(d)) /\ (Pooled(d)' <=> Pooled(d))
    BY <2>2, <2>5 DEF Returned, Pooled
  <2>7. Started(c)'
    BY <2>4 DEF Started
  <2>8. /\ \A i, j \in DOMAIN qlist' : qlist'[i] = qlist'[j] => i = j
        /\ \A x, u \in Threads :
              pc'[x] = "finish" /\ pc'[u] = "finish" /\ cur'[x] = cur'[u] => x = u
        /\ \A x \in Threads : pc'[x] \in {"finish", "trail"} => cur'[x] # 0
    BY <1>0, <2>2, <2>5 DEF PlaceInv
  <2> QED BY <1>0, <2>3, <2>4, <2>5, <2>6, <2>7, <2>8, PlaceMoves
<1>6. ASSUME NEW t \in Threads, OpenFails(t) PROVE PlaceInv'
  BY <1>0, <1>6, PlaceSame DEF OpenFails, TypeOK
<1>7. ASSUME NEW t \in Threads, Finish(t) PROVE PlaceInv'
  <2>0. PICK c : c = cur[t]
    OBVIOUS
  <2>1. /\ pc[t] = "finish" /\ pc' = [pc EXCEPT ![t] = "trail"]
        /\ qlist' = Append(qlist, c) /\ UNCHANGED <<mem, rev, wev, work, cur>>
    BY <1>7, <2>0 DEF Finish
  <2>2. c \in Conns /\ c # 0
    BY <1>0, <2>0, <2>1 DEF TypeOK, PlaceInv
  <2>3. Returned(c)
    BY <2>0, <2>1 DEF Returned
  <2>4. ~ Started(c) /\ ~ Pooled(c) /\ mem[c] = "live" /\ work[c] = <<>>
    BY <1>0, <2>2, <2>3 DEF PlaceInv
  <2>5. /\ pc'[t] = "trail" /\ \A u \in Threads \ {t} : pc'[u] = pc[u]
    BY <1>0, <2>1 DEF TypeOK
  <2>6. /\ qlist' \in Seq(Conns) /\ Len(qlist') = Len(qlist) + 1 /\ Len(qlist) \in Nat
        /\ \A i \in 1 .. Len(qlist) : qlist'[i] = qlist[i]
        /\ qlist'[Len(qlist) + 1] = c
    BY <1>0, <2>1, <2>2, AppendOf DEF TypeOK
  <2>7. DOMAIN qlist = 1 .. Len(qlist) /\ DOMAIN qlist' = 1 .. Len(qlist) + 1
    BY <1>0, <2>6 DEF TypeOK
  <2>8. \A i \in DOMAIN qlist : qlist[i] # c
    BY <2>4 DEF Pooled
  <2>9. \A i \in DOMAIN qlist' : i \in DOMAIN qlist \/ i = Len(qlist) + 1
    BY ONLY <2>6, <2>7
  <2>10. \A i, j \in DOMAIN qlist' : qlist'[i] = qlist'[j] => i = j
    BY <1>0, <2>6, <2>7, <2>8, <2>9 DEF PlaceInv
  <2>11. Len(qlist) + 1 \in DOMAIN qlist' /\ \A i \in DOMAIN qlist : i \in DOMAIN qlist'
    BY ONLY <2>6, <2>7
  <2>12. Pooled(c)' /\ \A d \in Conns \ {c} : Pooled(d)' <=> Pooled(d)
    BY <2>6, <2>7, <2>9, <2>11 DEF Pooled
  <2>13. ~ Returned(c)'
    <3>1. \A u \in Threads : pc'[u] = "finish" => pc[u] = "finish" /\ u # t /\ cur'[u] = cur[u]
      BY <2>1, <2>5
    <3> QED BY <1>0, <2>0, <2>1, <3>1 DEF Returned, PlaceInv
  <2>14. \A d \in Conns \ {c} : Returned(d)' <=> Returned(d)
    BY <2>0, <2>1, <2>5 DEF Returned
  <2>15. /\ \A x, u \in Threads :
               pc'[x] = "finish" /\ pc'[u] = "finish" /\ cur'[x] = cur'[u] => x = u
         /\ \A x \in Threads : pc'[x] \in {"finish", "trail"} => cur'[x] # 0
    BY <1>0, <2>0, <2>1, <2>2, <2>5 DEF PlaceInv
  <2>16. ~ Started(c)' /\ ~ rev'[c] /\ ~ wev'[c]
    BY <2>1, <2>4 DEF Started
  <2> QED BY <1>0, <2>1, <2>2, <2>4, <2>10, <2>12, <2>13, <2>14, <2>15, <2>16, PlaceMoves
<1>8. ASSUME NEW t \in Threads, Trail(t) PROVE PlaceInv'
  <2>1. /\ UNCHANGED <<qlist, mem, rev, wev, work>> /\ pc[t] = "trail"
        /\ pc' = [pc EXCEPT ![t] = "idle"] /\ cur' = [cur EXCEPT ![t] = 0]
    BY <1>8 DEF Trail
  <2>2. \A u \in Threads :
            \/ pc'[u] = pc[u] /\ cur'[u] = cur[u]
            \/ pc[u] # "finish" /\ pc'[u] # "finish" /\ pc'[u] # "trail"
    BY <1>0, <2>1 DEF TypeOK
  <2> QED BY <1>0, <2>1, <2>2, PlaceSame
<1>9. ASSUME NEW t \in Threads, NEW c \in Conns, Send(t, c) PROVE PlaceInv'
  <2>1. UNCHANGED <<qlist, mem, work, pc, cur>> /\ wev[c]
    BY <1>9 DEF Send, Fires
  <2>2. /\ ~ wev'[c] /\ rev'[c]
        /\ \A d \in Conns \ {c} : rev'[d] = rev[d] /\ wev'[d] = wev[d]
    BY <1>0, <1>9 DEF Send, TypeOK
  <2>3. \A d \in Conns : /\ Started(d)' <=> Started(d)
                         /\ Pooled(d)' <=> Pooled(d)
                         /\ Returned(d)' <=> Returned(d)
    BY <2>1, <2>2 DEF Started, Pooled, Returned
  <2> QED BY <1>0, <2>1, <2>2, <2>3 DEF PlaceInv
<1>10. ASSUME NEW t \in Threads, NEW c \in Conns, Part(t, c) PROVE PlaceInv'
  BY <1>0, <1>10, PlaceSame DEF Part
<1>11. ASSUME NEW t \in Threads, NEW c \in Conns, Reply(t, c) PROVE PlaceInv'
  <2>1. rev[c] /\ pc[t] = "idle" /\ UNCHANGED <<qlist, mem>>
    BY <1>11 DEF Reply, Fires
  <2>2. /\ mem[c] = "live" /\ ~ wev[c] /\ ~ Pooled(c) /\ ~ Returned(c)
    BY <1>0, <2>1 DEF Started, PlaceInv
  <2>3. /\ work'[c] = Tail(work[c]) /\ ~ rev'[c]
        /\ \A d \in Conns \ {c} : work'[d] = work[d] /\ rev'[d] = rev[d]
    BY <1>0, <1>11 DEF Reply, TypeOK
  <2>4. \A d \in Conns : Pooled(d)' <=> Pooled(d)
    BY <2>1 DEF Pooled
  <2>5. CASE Tail(work[c]) # <<>>
    <3>1. UNCHANGED <<pc, cur>> /\ wev'[c] /\ \A d \in Conns \ {c} : wev'[d] = wev[d]
      BY <1>0, <1>11, <2>5 DEF Reply, TypeOK
    <3>2. \A d \in Conns : Returned(d)' <=> Returned(d)
      BY <3>1 DEF Returned
    <3>3. Started(c)'
      BY <3>1 DEF Started
    <3>4. /\ \A i, j \in DOMAIN qlist' : qlist'[i] = qlist'[j] => i = j
          /\ \A x, u \in Threads :
                pc'[x] = "finish" /\ pc'[u] = "finish" /\ cur'[x] = cur'[u] => x = u
          /\ \A x \in Threads : pc'[x] \in {"finish", "trail"} => cur'[x] # 0
      BY <1>0, <2>1, <3>1 DEF PlaceInv
    <3> QED BY <1>0, <2>1, <2>2, <2>3, <2>4, <2>5, <3>1, <3>2, <3>3, <3>4, PlaceMoves
  <2>6. CASE Tail(work[c]) = <<>>
    <3>1. /\ cur' = [cur EXCEPT ![t] = c] /\ pc' = [pc EXCEPT ![t] = "finish"]
          /\ UNCHANGED wev
      BY <1>11, <2>6 DEF Reply
    <3>2. /\ cur'[t] = c /\ pc'[t] = "finish"
          /\ \A u \in Threads \ {t} : cur'[u] = cur[u] /\ pc'[u] = pc[u]
      BY <1>0, <3>1 DEF TypeOK
    <3>3. Returned(c)' /\ ~ Started(c)' /\ ~ wev'[c]
      BY <2>2, <2>3, <3>1, <3>2 DEF Returned, Started
    <3>4. ASSUME NEW d \in Conns \ {c} PROVE Returned(d)' <=> Returned(d)
      BY <2>1, <3>2 DEF Returned
    <3>5. \A u \in Threads : pc[u] = "finish" => cur[u] # c
      BY <2>2 DEF Returned
    <3>6. /\ \A i, j \in DOMAIN qlist' : qlist'[i] = qlist'[j] => i = j
          /\ \A x, u \in Threads :
                pc'[x] = "finish" /\ pc'[u] = "finish" /\ cur'[x] = cur'[u] => x = u
      BY <1>0, <2>1, <3>2, <3>5 DEF PlaceInv
    <3>7. \A x \in Threads : pc'[x] \in {"finish", "trail"} => cur'[x] # 0
      BY <1>0, <3>2 DEF PlaceInv, Conns
    <3> QED BY <1>0, <2>1, <2>2, <2>3, <2>4, <2>6, <3>1, <3>3, <3>4, <3>6, <3>7, PlaceMoves
  <2> QED BY <2>5, <2>6
<1>12. ASSUME NEW t \in Threads, NEW c \in Conns, Broken(t, c) PROVE PlaceInv'
  <2>1. Started(c) /\ UNCHANGED <<qlist, pc, cur>>
    BY <1>12 DEF Broken, Fires, Started
  <2>2. /\ mem'[c] = "freed" /\ ~ rev'[c] /\ ~ wev'[c] /\ work'[c] = <<>>
        /\ \A d \in Conns \ {c} : /\ mem'[d] = mem[d] /\ work'[d] = work[d]
                                  /\ rev'[d] = rev[d] /\ wev'[d] = wev[d]
    BY <1>0, <1>12 DEF Broken, TypeOK
  <2>3. \A d \in Conns : (Pooled(d)' <=> Pooled(d)) /\ (Returned(d)' <=> Returned(d))
    BY <2>1 DEF Pooled, Returned
  <2>4. ~ Pooled(c) /\ ~ Returned(c) /\ ~ Started(c)'
    BY <1>0, <2>1, <2>2 DEF PlaceInv, Started
  <2>5. /\ \A i, j \in DOMAIN qlist' : qlist'[i] = qlist'[j] => i = j
        /\ \A x, u \in Threads :
              pc'[x] = "finish" /\ pc'[u] = "finish" /\ cur'[x] = cur'[u] => x = u
        /\ \A x \in Threads : pc'[x] \in {"finish", "trail"} => cur'[x] # 0
    BY <1>0, <2>1 DEF PlaceInv
  <2> QED BY <1>0, <2>2, <2>3, <2>4, <2>5, PlaceMoves
<1>13. ASSUME NEW c \in Conns, Answer(c) PROVE PlaceInv'
  BY <1>0, <1>13, PlaceSame DEF Answer
<1>14. ASSUME NEW c \in Conns, Shut(c) PROVE PlaceInv'
  BY <1>0, <1>14, PlaceSame DEF Shut
<1>15. CASE Done
  BY <1>0, <1>15, PlaceSame DEF Done, vars
<1>16. ASSUME NEW t \in Threads, NEW c \in Conns, Blank(t, c) PROVE PlaceInv'
  BY <1>0, <1>16, PlaceSame DEF Blank
<1> QED BY <1>1, <1>2, <1>3, <1>4, <1>5, <1>6, <1>7, <1>8, <1>9, <1>10, <1>11,
           <1>12, <1>13, <1>14, <1>15, <1>16 DEF Next, Step

-----------------------------------------------------------------------------
\* The reply that arrives is that to the first command.

\* A connection that is started again has no request under way.
LEMMA PeerStart ==
    ASSUME Inv, NEW t \in Threads, NEW c \in Conns, Start(t, c),
           Len(asks) < MaxAsks, work[c] = <<>>, ~ Started(c), mem[c] # "freed",
           \A d \in Conns : mem'[d] = "freed" <=> mem[d] = "freed",
           UNCHANGED <<asked, reply>>
    PROVE  PeerInv'
<1>1. /\ ~ rev'[c]
      /\ \A d \in Conns \ {c} : rev'[d] = rev[d] /\ work'[d] = work[d]
  BY StartPlace
<1>2. ~ rev[c]
  BY DEF Started
<1> QED BY <1>1, <1>2 DEF Inv, PeerInv

\* Every step keeps the requests under way.
LEMMA PeerStep ==
    ASSUME Inv, Next, TypeOK'
    PROVE  PeerInv'
<1>0. TypeOK /\ PlaceInv /\ PeerInv
  BY DEF Inv
<1>1. ASSUME NEW t \in Threads, PullOk(t) PROVE PeerInv'
  BY <1>1, StartsPooled, PeerStart DEF PullOk
<1>2. ASSUME UNCHANGED <<mem, rev, work, asked, reply>> PROVE PeerInv'
  BY <1>0, <1>2 DEF PeerInv
<1>3. ASSUME NEW t \in Threads, OpenOk(t) PROVE PeerInv'
  <2>1. PICK c \in Conns : /\ mem[c] = "none" /\ Start(t, c)
                           /\ mem' = [mem EXCEPT ![c] = "live"]
    BY <1>3 DEF OpenOk
  <2>2. pc[t] = "open" /\ UNCHANGED <<asked, reply>>
    BY <1>3 DEF OpenOk
  <2>3. \A d \in Conns : mem'[d] = "freed" <=> mem[d] = "freed"
    BY <1>0, <2>1 DEF TypeOK
  <2> QED BY <2>1, <2>2, <2>3, StartsOpened, PeerStart
<1>4. ASSUME NEW t \in Threads, NEW c \in Conns, Send(t, c) PROVE PeerInv'
  <2>1. wev[c] /\ UNCHANGED <<mem, work, reply>>
    BY <1>4 DEF Send, Fires
  <2>2. ~ rev[c] /\ mem[c] = "live"
    BY <1>0, <2>1 DEF PlaceInv, Started
  <2>3. asked[c] = <<>> /\ reply[c] = <<>>
    BY <1>0, <2>2 DEF PeerInv
  <2>4. /\ rev'[c] /\ \A d \in Conns \ {c} : rev'[d] = rev[d] /\ asked'[d] = asked[d]
    BY <1>0, <1>4 DEF Send, TypeOK
  <2>5. Append(<<>>, Head(work[c])) = <<Head(work[c])>>
    OBVIOUS
  <2>6. asked'[c] \in {<<>>, <<Head(work[c])>>}
    BY <1>0, <1>4, <2>3, <2>5 DEF Send, TypeOK
  <2> QED BY <1>0, <2>1, <2>3, <2>4, <2>6 DEF PeerInv
<1>5. ASSUME NEW t \in Threads, NEW c \in Conns, Part(t, c) PROVE PeerInv'
  <2>1. rev[c] /\ reply[c] # <<>> /\ UNCHANGED <<mem, rev, work, asked>>
    BY <1>5 DEF Part, Fires
  <2>2. mem[c] = "live"
    BY <1>0, <2>1 DEF PlaceInv, Started
  <2>3. asked[c] = <<>> /\ \E n \in {1, 2} :
             reply[c] = <<[cmd |-> Head(work[c]), parts |-> n]>>
    BY <1>0, <2>1, <2>2 DEF PeerInv
  <2>4. /\ reply'[c] = [reply[c] EXCEPT ![1].parts = 1]
        /\ \A d \in Conns \ {c} : reply'[d] = reply[d]
    BY <1>0, <1>5 DEF Part, TypeOK
  <2>5. reply'[c] = <<[cmd |-> Head(work[c]), parts |-> 1]>>
    <3>1. PICK n \in {1, 2} : reply[c] = <<[cmd |-> Head(work[c]), parts |-> n]>>
      BY <2>3
    <3> QED BY ONLY <2>4, <3>1
  <2> QED BY <1>0, <2>1, <2>3, <2>4, <2>5 DEF PeerInv
<1>6. ASSUME NEW t \in Threads, NEW c \in Conns, Reply(t, c) PROVE PeerInv'
  <2>1. rev[c] /\ reply[c] # <<>> /\ UNCHANGED <<mem, asked>>
    BY <1>6 DEF Reply, Fires
  <2>2. mem[c] = "live"
    BY <1>0, <2>1 DEF PlaceInv, Started
  <2>3. PICK n \in {1, 2} : reply[c] = <<[cmd |-> Head(work[c]), parts |-> n]>>
    BY <1>0, <2>1, <2>2 DEF PeerInv
  <2>4. asked[c] = <<>>
    BY <1>0, <2>1, <2>2 DEF PeerInv
  <2>5. /\ reply'[c] = Tail(reply[c]) /\ ~ rev'[c]
        /\ \A d \in Conns \ {c} : /\ reply'[d] = reply[d] /\ work'[d] = work[d]
                                  /\ rev'[d] = rev[d]
    BY <1>0, <1>6 DEF Reply, TypeOK
  <2>6. reply'[c] = <<>>
    BY ONLY <2>3, <2>5
  <2> QED BY <1>0, <2>1, <2>4, <2>5, <2>6 DEF PeerInv
<1>7. ASSUME NEW t \in Threads, NEW c \in Conns, Broken(t, c) PROVE PeerInv'
  <2>1. /\ mem'[c] = "freed" /\ UNCHANGED <<asked, reply>>
        /\ \A d \in Conns \ {c} : /\ mem'[d] = mem[d] /\ work'[d] = work[d]
                                  /\ rev'[d] = rev[d]
    BY <1>0, <1>7 DEF Broken, TypeOK
  <2> QED BY <1>0, <2>1 DEF PeerInv
<1>8. ASSUME NEW c \in Conns, Answer(c) PROVE PeerInv'
  <2>1. PICK n \in {1, 2} :
            reply' = [reply EXCEPT ![c] = Append(@, [cmd |-> Head(asked[c]), parts |-> n])]
    BY <1>8 DEF Answer
  <2>2. UNCHANGED <<mem, rev, work>> /\ asked[c] # <<>>
    BY <1>8 DEF Answer
  <2>3. /\ asked'[c] = Tail(asked[c])
        /\ reply'[c] = Append(reply[c], [cmd |-> Head(asked[c]), parts |-> n])
        /\ \A d \in Conns \ {c} : asked'[d] = asked[d] /\ reply'[d] = reply[d]
    BY <1>0, <1>8, <2>1 DEF Answer, TypeOK
  <2>4. CASE mem[c] = "freed"
    BY <1>0, <2>2, <2>3, <2>4 DEF PeerInv
  <2>5. CASE mem[c] # "freed"
    <3>1. rev[c] /\ asked[c] = <<Head(work[c])>> /\ reply[c] = <<>>
      BY <1>0, <2>2, <2>5 DEF PeerInv
    <3>2. /\ asked'[c] = <<>>
          /\ reply'[c] = <<[cmd |-> Head(work[c]), parts |-> n]>>
      BY ONLY <2>3, <3>1
    <3> QED BY <1>0, <2>2, <2>3, <3>1, <3>2 DEF PeerInv
  <2> QED BY <2>4, <2>5
<1>9. ASSUME NEW c \in Conns, Shut(c) PROVE PeerInv'
  <2>1. PICK r \in {reply[c], <<>>} : reply' = [reply EXCEPT ![c] = r]
    BY <1>9 DEF Shut
  <2>2. UNCHANGED <<mem, rev, work>>
    BY <1>9 DEF Shut
  <2>3. /\ asked'[c] = <<>> /\ reply'[c] \in {reply[c], <<>>}
        /\ \A d \in Conns \ {c} : asked'[d] = asked[d] /\ reply'[d] = reply[d]
    BY <1>0, <1>9, <2>1 DEF Shut, TypeOK
  <2> QED BY <1>0, <2>2, <2>3 DEF PeerInv
<1>10. ASSUME NEW t \in Threads,
              PullEmpty(t) \/ CountRead(t) \/ CountSwap(t) \/ OpenFails(t) \/ Finish(t) \/ Trail(t)
       PROVE  UNCHANGED <<mem, rev, work, asked, reply>>
  BY <1>10 DEF PullEmpty, CountRead, CountSwap, OpenFails, Finish, Trail
<1>11. CASE Done
  BY <1>2, <1>11 DEF Done, vars
<1>12. ASSUME NEW t \in Threads, NEW c \in Conns, Blank(t, c) PROVE PeerInv'
  <2>1. rev[c] /\ reply[c] # <<>> /\ UNCHANGED <<mem, rev, work, asked>>
    BY <1>12 DEF Blank, Fires
  <2>2. mem[c] = "live"
    BY <1>0, <2>1 DEF PlaceInv, Started
  <2>3. PICK n \in {1, 2} : reply[c] = <<[cmd |-> Head(work[c]), parts |-> n]>>
    BY <1>0, <2>1, <2>2 DEF PeerInv
  <2>4. asked[c] = <<>>
    BY <1>0, <2>1, <2>2 DEF PeerInv
  <2>5. reply'[c] = Tail(reply[c]) /\ \A d \in Conns \ {c} : reply'[d] = reply[d]
    BY <1>0, <1>12 DEF Blank, TypeOK
  <2>6. reply'[c] = <<>>
    BY ONLY <2>3, <2>5
  <2> QED BY <1>0, <2>1, <2>4, <2>5, <2>6 DEF PeerInv
<1> QED BY <1>1, <1>2, <1>3, <1>4, <1>5, <1>6, <1>7, <1>8, <1>9, <1>10, <1>11, <1>12
        DEF Next, Step

-----------------------------------------------------------------------------
\* The counts.

Opening == {t \in Threads : pc[t] = "open"}

\* use counts at least the connections there are and those being opened.
LEMMA UseStep ==
    ASSUME Inv, Next, TypeOK'
    PROVE  UseCovers'
<1>0. TypeOK /\ PlaceInv /\ use >= Cardinality(Live) + Cardinality(Opening)
  BY DEF Inv, UseCovers, Opening
<1>1. /\ IsFiniteSet(Live) /\ Cardinality(Live) \in Nat
      /\ IsFiniteSet(Opening) /\ Cardinality(Opening) \in Nat
      /\ use \in Nat
  BY ConnsFinite, SubsetFinite DEF Live, Opening, Inv, TypeOK
<1>2. SUFFICES use' >= Cardinality(Live') + Cardinality(Opening')
  BY DEF UseCovers, Opening
<1>3. ASSUME NEW t \in Threads, CountSwap(t), use = idx[t]
      PROVE  use' >= Cardinality(Live') + Cardinality(Opening')
  <2>1. /\ pc[t] = "swap" /\ use' = use + 1 /\ UNCHANGED mem
        /\ pc' = [pc EXCEPT ![t] = "open"]
    BY <1>3 DEF CountSwap
  <2>2. Live' = Live
    BY <2>1 DEF Live
  <2>3. t \notin Opening /\ Opening' = Opening \cup {t}
    BY <1>0, <2>1 DEF Opening, TypeOK
  <2>4. Cardinality(Opening') = Cardinality(Opening) + 1
    BY <1>1, <2>3, CardPlus
  <2> QED BY ONLY <1>0, <1>1, <2>1, <2>2, <2>4
<1>4. ASSUME NEW t \in Threads, CountSwap(t), use # idx[t]
      PROVE  UNCHANGED <<Live, Opening, use>>
  <2>1. /\ pc[t] = "swap" /\ UNCHANGED <<mem, use>>
        /\ pc' = [pc EXCEPT ![t] = "count"]
    BY <1>4 DEF CountSwap
  <2>2. Live' = Live
    BY <2>1 DEF Live
  <2>3. Opening' = Opening
    BY <1>0, <2>1 DEF Opening, TypeOK
  <2> QED BY <2>1, <2>2, <2>3
<1>5. ASSUME NEW t \in Threads, OpenOk(t)
      PROVE  use' >= Cardinality(Live') + Cardinality(Opening')
  <2>1. PICK c \in Conns : mem[c] = "none" /\ mem' = [mem EXCEPT ![c] = "live"]
    BY <1>5 DEF OpenOk
  <2>2. pc[t] = "open" /\ pc' = [pc EXCEPT ![t] = "idle"] /\ use' = use
    BY <1>5 DEF OpenOk
  <2>3. c \notin Live /\ Live' = Live \cup {c}
    BY <1>0, <2>1, SMTT(20) DEF Live, TypeOK
  <2>4. t \in Opening /\ Opening' = Opening \ {t}
    BY <1>0, <2>2 DEF Opening, TypeOK
  <2>5. /\ Cardinality(Live') = Cardinality(Live) + 1
        /\ Cardinality(Opening') = Cardinality(Opening) - 1
    BY <1>1, <2>3, <2>4, CardPlus, CardMinus
  <2> QED BY ONLY <1>0, <1>1, <2>2, <2>5
<1>6. ASSUME NEW t \in Threads, OpenFails(t)
      PROVE  use' >= Cardinality(Live') + Cardinality(Opening')
  <2>1. pc[t] = "open" /\ pc' = [pc EXCEPT ![t] = "idle"] /\ UNCHANGED <<use, mem>>
    BY <1>6 DEF OpenFails
  <2>2. Live' = Live
    BY <2>1 DEF Live
  <2>3. t \in Opening /\ Opening' = Opening \ {t}
    BY <1>0, <2>1 DEF Opening, TypeOK
  <2>4. Cardinality(Opening') = Cardinality(Opening) - 1
    BY <1>1, <2>3, CardMinus
  <2> QED BY ONLY <1>0, <1>1, <2>1, <2>2, <2>4
<1>7. ASSUME NEW t \in Threads, NEW c \in Conns, Broken(t, c)
      PROVE  use' >= Cardinality(Live') + Cardinality(Opening')
  <2>1. /\ Started(c) /\ use' = use - 1 /\ UNCHANGED pc
        /\ mem' = [mem EXCEPT ![c] = "freed"]
    BY <1>7 DEF Broken, Fires, Started
  <2>2. c \in Live
    BY <1>0, <2>1 DEF PlaceInv, Live
  <2>3. Live' = Live \ {c}
    BY <1>0, <2>1 DEF Live, TypeOK
  <2>4. Opening' = Opening
    BY <2>1 DEF Opening
  <2>5. Cardinality(Live') = Cardinality(Live) - 1
    BY <1>1, <2>2, <2>3, CardMinus
  <2> QED BY ONLY <1>0, <1>1, <2>1, <2>4, <2>5
<1>8. ASSUME UNCHANGED <<use, mem>>,
             \A t \in Threads : pc'[t] = pc[t] \/ (pc[t] # "open" /\ pc'[t] # "open")
      PROVE  use' >= Cardinality(Live') + Cardinality(Opening')
  <2>1. Live' = Live /\ Opening' = Opening
    BY <1>8 DEF Live, Opening
  <2> QED BY <1>0, <1>8, <2>1
<1>9. ASSUME NEW t \in Threads, PullEmpty(t) \/ CountRead(t) \/ Finish(t) \/ Trail(t)
      PROVE  use' >= Cardinality(Live') + Cardinality(Opening')
  BY <1>0, <1>8, <1>9, SMTT(20) DEF PullEmpty, CountRead, Finish, Trail, TypeOK
<1>10. ASSUME NEW t \in Threads, NEW c \in Conns, Reply(t, c)
       PROVE  use' >= Cardinality(Live') + Cardinality(Opening')
  <2>1. /\ pc[t] = "idle" /\ UNCHANGED <<use, mem>>
        /\ pc' = pc \/ pc' = [pc EXCEPT ![t] = "finish"]
    BY <1>10 DEF Reply, Fires
  <2> QED BY <1>0, <1>8, <2>1 DEF TypeOK
<1>11. ASSUME NEW t \in Threads, NEW c \in Conns, Send(t, c) \/ Part(t, c) \/ Blank(t, c)
       PROVE  use' >= Cardinality(Live') + Cardinality(Opening')
  BY <1>8, <1>11 DEF Send, Part, Blank
<1>12. ASSUME NEW c \in Conns, Answer(c) \/ Shut(c)
       PROVE  use' >= Cardinality(Live') + Cardinality(Opening')
  BY <1>8, <1>12 DEF Answer, Shut
<1>13. ASSUME NEW t \in Threads, PullOk(t)
       PROVE  use' >= Cardinality(Live') + Cardinality(Opening')
  BY <1>8, <1>13 DEF PullOk
<1>14. CASE Done
  BY <1>8, <1>14 DEF Done, vars
<1>15. ASSUME NEW t \in Threads, CountSwap(t)
       PROVE  use' >= Cardinality(Live') + Cardinality(Opening')
  BY <1>0, <1>3, <1>4, <1>15
<1> QED BY <1>5, <1>6, <1>7, <1>9, <1>10, <1>11, <1>12, <1>13, <1>14, <1>15 DEF Next, Step

\* There is a number for every command.
LEMMA AskStep ==
    ASSUME Inv, Next, TypeOK'
    PROVE  AskInv'
<1>0. TypeOK /\ AskInv
  BY DEF Inv
<1>1. /\ IsFiniteSet(Takers) /\ Cardinality(Takers) \in Nat
      /\ Len(asks) \in Nat /\ npull \in Nat /\ MaxAsks \in Nat /\ MaxPairs \in Nat
      /\ asks \in Seq(SUBSET Cmds)
  BY <1>0, SubsetFinite, PoolAssumption DEF Takers, TypeOK
<1>2. ASSUME NEW c \in Conns, NEW t \in Threads, Start(t, c), Len(asks) < MaxAsks, work[c] = <<>>
      PROVE  /\ Total' \in Nat /\ UNION Range(asks') = 1 .. Total'
             /\ Total' <= Len(asks') + MaxPairs
             /\ Len(asks') = Len(asks) + 1
  <2>1. PICK n \in {1, 2} :
               /\ asks' = Append(asks, Total + 1 .. Total + n)
               /\ (Total + 1 .. Total + n) \in SUBSET Cmds
               /\ Total' = Total + n
               /\ UNION Range(asks') = 1 .. Total + n
               /\ Total + n <= Len(asks) + 1 + MaxPairs
    BY <1>0, <1>2, StartFacts
  <2>2. Len(asks') = Len(asks) + 1
    BY <1>1, <2>1, AppendOf
  <2>3. Total \in Nat
    BY <1>0 DEF AskInv
  <2>4. Total' \in Nat
    BY ONLY <2>1, <2>3
  <2> QED BY <2>1, <2>2, <2>4
<1>3. ASSUME NEW t \in Threads, PullOk(t) PROVE AskInv'
  <2>1. /\ Total' \in Nat /\ UNION Range(asks') = 1 .. Total'
        /\ Total' <= Len(asks') + MaxPairs
        /\ Len(asks') = Len(asks) + 1
    BY <1>2, <1>3, StartsPooled DEF PullOk
  <2>2. npull' = npull + 1 /\ npull < MaxAsks /\ UNCHANGED pc
    BY <1>3 DEF PullOk
  <2>3. Takers' = Takers
    BY <2>2 DEF Takers
  <2>4. Len(asks') + Cardinality(Takers') <= npull' /\ npull' <= MaxAsks
    BY <1>0, <1>1, <2>1, <2>2, <2>3 DEF AskInv
  <2> QED BY <2>1, <2>4 DEF AskInv
<1>4. ASSUME NEW t \in Threads, OpenOk(t) PROVE AskInv'
  <2>1. PICK c \in Conns : mem[c] = "none" /\ Start(t, c)
    BY <1>4 DEF OpenOk
  <2>2. pc[t] = "open" /\ pc' = [pc EXCEPT ![t] = "idle"] /\ npull' = npull
    BY <1>4 DEF OpenOk
  <2>3. /\ Total' \in Nat /\ UNION Range(asks') = 1 .. Total'
        /\ Total' <= Len(asks') + MaxPairs
        /\ Len(asks') = Len(asks) + 1
    BY <1>2, <2>1, <2>2, StartsOpened
  <2>4. t \in Takers /\ Takers' = Takers \ {t}
    BY <1>0, <2>2 DEF Takers, TypeOK
  <2>5. Cardinality(Takers') = Cardinality(Takers) - 1
    BY <1>1, <2>4, CardMinus
  <2>6. Len(asks') + Cardinality(Takers') <= npull' /\ npull' <= MaxAsks
    BY <1>0, <1>1, <2>2, <2>3, <2>5 DEF AskInv
  <2> QED BY <2>3, <2>6 DEF AskInv
<1>5. ASSUME UNCHANGED asks, Len(asks) + Cardinality(Takers') <= npull', npull' <= MaxAsks
      PROVE  AskInv'
  <2>1. Total' = Total
    BY <1>5 DEF Total
  <2> QED BY <1>0, <1>5, <2>1 DEF AskInv
<1>6. ASSUME NEW t \in Threads, PullEmpty(t) PROVE AskInv'
  <2>1. /\ npull' = npull + 1 /\ npull < MaxAsks /\ UNCHANGED asks
        /\ pc[t] = "idle" /\ pc' = [pc EXCEPT ![t] = "count"]
    BY <1>6 DEF PullEmpty
  <2>2. t \notin Takers /\ Takers' = Takers \cup {t}
    BY <1>0, <2>1 DEF Takers, TypeOK
  <2>3. Cardinality(Takers') = Cardinality(Takers) + 1
    BY <1>1, <2>2, CardPlus
  <2>4. Len(asks) + Cardinality(Takers') <= npull' /\ npull' <= MaxAsks
    BY <1>0, <1>1, <2>1, <2>3 DEF AskInv
  <2> QED BY <1>5, <2>1, <2>4
<1>7. ASSUME NEW t \in Threads, OpenFails(t) PROVE AskInv'
  <2>1. UNCHANGED <<npull, asks>> /\ pc[t] = "open" /\ pc' = [pc EXCEPT ![t] = "idle"]
    BY <1>7 DEF OpenFails
  <2>2. t \in Takers /\ Takers' = Takers \ {t}
    BY <1>0, <2>1 DEF Takers, TypeOK
  <2>3. Cardinality(Takers') = Cardinality(Takers) - 1
    BY <1>1, <2>2, CardMinus
  <2>4. Len(asks) + Cardinality(Takers') <= npull' /\ npull' <= MaxAsks
    BY <1>0, <1>1, <2>1, <2>3 DEF AskInv
  <2> QED BY <1>5, <2>1, <2>4
<1>8. ASSUME UNCHANGED <<npull, asks>>,
             \A t \in Threads : \/ pc'[t] = pc[t]
                                \/ {pc[t], pc'[t]} \subseteq {"count", "swap", "open"}
                                \/ {pc[t], pc'[t]} \subseteq {"idle", "finish", "trail"}
      PROVE  AskInv'
  <2>1. \A t \in Threads : pc'[t] \in {"count", "swap", "open"}
                           <=> pc[t] \in {"count", "swap", "open"}
    BY <1>8
  <2>2. Takers' = Takers
    BY <2>1 DEF Takers
  <2> QED BY <1>0, <1>5, <1>8, <2>2 DEF AskInv
<1>9. ASSUME NEW t \in Threads, CountRead(t) \/ Finish(t) \/ Trail(t)
      PROVE  AskInv'
  BY <1>0, <1>8, <1>9 DEF CountRead, Finish, Trail, TypeOK
<1>10. ASSUME NEW t \in Threads, CountSwap(t) PROVE AskInv'
  <2>1. /\ pc[t] = "swap" /\ UNCHANGED <<npull, asks>>
        /\ pc' \in {[pc EXCEPT ![t] = "open"], [pc EXCEPT ![t] = "count"]}
    BY <1>10 DEF CountSwap
  <2> QED BY <1>0, <1>8, <2>1 DEF TypeOK
<1>11. ASSUME NEW t \in Threads, NEW c \in Conns, Reply(t, c) PROVE AskInv'
  <2>1. /\ pc[t] = "idle" /\ UNCHANGED <<npull, asks>>
        /\ pc' = pc \/ pc' = [pc EXCEPT ![t] = "finish"]
    BY <1>11 DEF Reply, Fires
  <2> QED BY <1>0, <1>8, <2>1 DEF TypeOK
<1>12. ASSUME NEW t \in Threads, NEW c \in Conns,
              Send(t, c) \/ Part(t, c) \/ Blank(t, c) \/ Broken(t, c)
       PROVE  AskInv'
  BY <1>8, <1>12 DEF Send, Part, Blank, Broken
<1>13. ASSUME NEW c \in Conns, Answer(c) \/ Shut(c)
       PROVE  AskInv'
  BY <1>8, <1>13 DEF Answer, Shut
<1>14. CASE Done
  BY <1>8, <1>14 DEF Done, vars
<1> QED BY <1>3, <1>4, <1>6, <1>7, <1>9, <1>10, <1>11, <1>12, <1>13, <1>14 DEF Next, Step

-----------------------------------------------------------------------------
\* The commands and their callbacks.

CmdInv == WorkInv /\ TurnInv /\ GotInv

\* The commands waiting are commands.
LEMMA WorkTyped ==
    ASSUME TypeOK
    PROVE  /\ \A d \in Conns : \A i \in DOMAIN work[d] : work[d][i] \in Cmds /\ i \in Nat
           /\ \A k \in Cmds : k \in Nat
<1>1. \A d \in Conns : work[d] \in Seq(Cmds)
  BY DEF TypeOK
<1>2. ASSUME NEW q \in Seq(Cmds), NEW i \in DOMAIN q PROVE q[i] \in Cmds /\ i \in Nat
  OBVIOUS
<1>3. \A k \in Cmds : k \in Nat
  BY PoolAssumption DEF Cmds
<1> QED BY <1>1, <1>2, <1>3

\* A start queues commands that nobody has.
LEMMA CmdStart ==
    ASSUME Inv, TypeOK', NEW t \in Threads, NEW c \in Conns, Start(t, c),
           Len(asks) < MaxAsks, work[c] = <<>>, UNCHANGED got
    PROVE  CmdInv'
<1>1. PICK n \in {1, 2} :
               /\ work' = [work EXCEPT ![c] = [i \in 1 .. n |-> Total + i]]
               /\ asks' = Append(asks, Total + 1 .. Total + n)
               /\ (Total + 1 .. Total + n) \in SUBSET Cmds
               /\ Total' = Total + n
  BY StartFacts DEF Inv
<1>2. /\ Total \in Nat /\ n \in Nat
      /\ \A k \in Cmds : k \in Nat
      /\ UNION Range(asks) = 1 .. Total
  BY <1>1, PoolAssumption DEF Inv, AskInv, Cmds
<1>3. /\ \A d \in Conns \ {c} : work'[d] = work[d]
      /\ DOMAIN work'[c] = 1 .. n
      /\ \A i \in 1 .. n : work'[c][i] = Total + i
  BY <1>1 DEF Inv, TypeOK
<1>4. \A d \in Conns : \A i \in DOMAIN work[d] :
          work[d][i] <= Total /\ work[d][i] \in Cmds /\ got[work[d][i]] = <<>>
  <2>1. \A d \in Conns : \A i \in DOMAIN work[d] : work[d][i] \in Cmds
    BY WorkTyped DEF Inv
  <2> QED BY <2>1 DEF Inv, WorkInv
<1>5. \A i \in 1 .. n : Total + i \in Cmds /\ Total + i > Total
  BY ONLY <1>1, <1>2
<1>6. \A k \in Cmds : k > Total => got[k] = <<>>
  BY DEF Inv, GotInv
<1>7. /\ asks \in Seq(SUBSET Cmds)
      /\ DOMAIN asks = 1 .. Len(asks) /\ Len(asks) \in Nat
      /\ DOMAIN asks' = 1 .. Len(asks) + 1
      /\ \A m \in 1 .. Len(asks) : asks'[m] = asks[m]
      /\ asks'[Len(asks) + 1] = Total + 1 .. Total + n
  <2>1. asks \in Seq(SUBSET Cmds)
    BY DEF Inv, TypeOK
  <2> QED BY <1>1, <2>1, AppendOf
<1>8. ASSUME NEW m \in DOMAIN asks PROVE asks[m] \in SUBSET Cmds /\ \A k \in asks[m] : k <= Total
  <2>1. asks[m] \in Range(asks)
    BY DEF Range
  <2>2. \A k \in asks[m] : k \in 1 .. Total
    BY <1>2, <2>1
  <2> QED BY <1>2, <1>7, <2>2
<1>9. WorkInv'
  <2>1. ASSUME NEW d \in Conns, NEW i \in DOMAIN work'[d], NEW j \in DOMAIN work'[d], i < j
        PROVE  work'[d][i] < work'[d][j]
    <3>1. CASE d = c
      BY ONLY <1>2, <1>3, <2>1, <3>1
    <3>2. CASE d # c
      BY <1>3, <2>1, <3>2 DEF Inv, WorkInv
    <3> QED BY <3>1, <3>2
  <2>2. ASSUME NEW d \in Conns, NEW i \in DOMAIN work'[d]
        PROVE  work'[d][i] <= Total' /\ got'[work'[d][i]] = <<>>
    <3>1. CASE d = c
      <4>1. i \in 1 .. n /\ work'[d][i] = Total + i
        BY <1>3, <2>2, <3>1
      <4>2. Total + i <= Total + n
        BY ONLY <1>2, <4>1
      <4> QED BY <1>1, <1>5, <1>6, <4>1, <4>2
    <3>2. CASE d # c
      <4>1. work'[d] = work[d] /\ i \in DOMAIN work[d]
        BY <1>3, <2>2, <3>2
      <4>2. work[d][i] <= Total /\ work[d][i] \in Nat
        BY <1>2, <1>4, <4>1
      <4>3. work[d][i] <= Total + n
        BY ONLY <1>2, <4>2
      <4> QED BY <1>1, <1>4, <4>1, <4>3
    <3> QED BY <3>1, <3>2
  <2>3. ASSUME NEW d \in Conns, NEW e \in Conns, NEW i \in DOMAIN work'[d],
               NEW j \in DOMAIN work'[e], work'[d][i] = work'[e][j]
        PROVE  d = e
    <3>1. CASE d # c /\ e # c
      BY <1>3, <2>3, <3>1 DEF Inv, WorkInv
    <3>2. \A x \in Conns \ {c} : \A y \in DOMAIN work'[x], z \in DOMAIN work'[c] :
              work'[x][y] # work'[c][z]
      <4>1. ASSUME NEW x \in Conns \ {c}, NEW y \in DOMAIN work'[x], NEW z \in DOMAIN work'[c]
            PROVE  work'[x][y] # work'[c][z]
        <5>1. work'[x][y] \in Nat /\ work'[x][y] <= Total
          BY <1>2, <1>3, <1>4
        <5>2. z \in 1 .. n /\ work'[c][z] = Total + z
          BY <1>3
        <5> QED BY ONLY <1>2, <5>1, <5>2
      <4> QED BY <4>1
    <3> QED BY <2>3, <3>1, <3>2
  <2> QED BY <2>1, <2>2, <2>3 DEF WorkInv
<1>10. TurnInv'
  <2> SUFFICES ASSUME NEW m \in DOMAIN asks', NEW j \in asks'[m], NEW k \in asks'[m], j < k
               PROVE  /\ got[k] # <<>> => got[j] = <<j>>
                      /\ \A d \in Conns : \A i \in DOMAIN work'[d] :
                             work'[d][i] = k => \/ got[j] = <<j>>
                                                \/ \E h \in DOMAIN work'[d] : work'[d][h] = j
    BY DEF TurnInv
  <2>1. CASE m = Len(asks) + 1
    <3>1. j \in Total + 1 .. Total + n /\ k \in Total + 1 .. Total + n
      BY <1>7, <2>1
    <3>2. k \in Cmds /\ k > Total
      BY ONLY <1>1, <1>2, <3>1
    <3>3. got[k] = <<>>
      BY <1>6, <3>2
    <3>4. ASSUME NEW d \in Conns, NEW i \in DOMAIN work'[d], work'[d][i] = k
          PROVE  \E h \in DOMAIN work'[d] : work'[d][h] = j
      <4>1. CASE d = c
        <5>1. j - Total \in 1 .. n /\ Total + (j - Total) = j
          BY ONLY <1>2, <3>1
        <5>2. work'[c][j - Total] = j
          BY <1>3, <5>1
        <5> QED BY <1>3, <4>1, <5>1, <5>2
      <4>2. CASE d # c
        <5>1. k \in Nat /\ k <= Total
          BY <1>2, <1>3, <1>4, <3>4, <4>2
        <5> QED BY ONLY <1>2, <3>2, <5>1
      <4> QED BY <4>1, <4>2
    <3> QED BY <3>3, <3>4
  <2>2. CASE m # Len(asks) + 1
    <3>1. m \in DOMAIN asks /\ asks'[m] = asks[m]
      BY ONLY <1>7, <2>2
    <3>2. k \in Cmds /\ k <= Total
      BY <1>8, <3>1
    <3>3. /\ got[k] # <<>> => got[j] = <<j>>
          /\ \A d \in Conns : \A i \in DOMAIN work[d] :
                 work[d][i] = k => \/ got[j] = <<j>>
                                   \/ \E h \in DOMAIN work[d] : work[d][h] = j
      BY <3>1 DEF Inv, TurnInv
    <3>4. \A i \in DOMAIN work'[c] : work'[c][i] # k
      BY <1>2, <1>3, <1>5, <3>2
    <3> QED BY <1>3, <3>3, <3>4
  <2> QED BY <2>1, <2>2
<1>11. GotInv'
  <2>1. ASSUME NEW k \in Cmds, k > Total + n PROVE k > Total
    BY ONLY <1>2, <2>1
  <2> QED BY <1>1, <2>1 DEF Inv, GotInv
<1> QED BY <1>9, <1>10, <1>11 DEF CmdInv

\* A callback is that of the first command waiting; the ones before it have
\* had theirs.
LEMMA CmdTake ==
    ASSUME Inv, NEW c \in Conns, Started(c), NEW x \in {Head(work[c]), Null},
           got' = [got EXCEPT ![Head(work[c])] = Append(@, x)],
           \/ x = Head(work[c]) /\ work' = [work EXCEPT ![c] = Tail(@)]
           \/ work' = [work EXCEPT ![c] = <<>>],
           UNCHANGED asks
    PROVE  CmdInv'
<1>0. PICK h : h = Head(work[c])
  OBVIOUS
<1>1. /\ work[c] # <<>> /\ work[c] \in Seq(Cmds) /\ h = work[c][1] /\ 1 \in DOMAIN work[c]
      /\ h \in Cmds /\ got[h] = <<>>
  <2>1. work[c] # <<>> /\ work[c] \in Seq(Cmds)
    BY DEF Inv, PlaceInv, TypeOK
  <2>2. h = work[c][1] /\ 1 \in DOMAIN work[c] /\ h \in Cmds
    BY <1>0, <2>1, TailOf
  <2> QED BY <2>1, <2>2 DEF Inv, WorkInv
<1>2. /\ got'[h] = <<x>> /\ \A k \in Cmds \ {h} : got'[k] = got[k]
  <2>1. Append(<<>>, x) = <<x>>
    OBVIOUS
  <2> QED BY <1>0, <1>1, <2>1 DEF Inv, TypeOK
<1>3. \A d \in Conns \ {c} : work'[d] = work[d]
  BY DEF Inv, TypeOK
<1>4. /\ \A i \in DOMAIN work'[c] :
             /\ x = h /\ i + 1 \in DOMAIN work[c] /\ work'[c][i] = work[c][i + 1]
             /\ i \in Nat /\ i >= 1
      /\ DOMAIN work'[c] # {} =>
             \A m \in DOMAIN work[c] : m # 1 => /\ m - 1 \in DOMAIN work'[c]
                                                /\ work'[c][m - 1] = work[c][m]
  <2>1. CASE x = h /\ work'[c] = Tail(work[c])
    <3>1. /\ Tail(work[c]) \in Seq(Cmds) /\ Len(Tail(work[c])) = Len(work[c]) - 1
          /\ \A i \in 1 .. Len(Tail(work[c])) :
                 Tail(work[c])[i] = work[c][i + 1] /\ i + 1 \in 1 .. Len(work[c])
          /\ Len(work[c]) \in Nat
      BY <1>1, TailOf
    <3>2. /\ DOMAIN work'[c] = 1 .. Len(work[c]) - 1 /\ DOMAIN work[c] = 1 .. Len(work[c])
      BY <1>1, <2>1, <3>1
    <3>3. \A i \in DOMAIN work'[c] : i \in Nat /\ i >= 1
      BY ONLY <3>1, <3>2
    <3>4. \A i \in DOMAIN work'[c] : i + 1 \in DOMAIN work[c] /\ work'[c][i] = work[c][i + 1]
      BY ONLY <2>1, <3>1, <3>2
    <3>5. ASSUME NEW m \in DOMAIN work[c], m # 1
          PROVE  m - 1 \in DOMAIN work'[c] /\ work'[c][m - 1] = work[c][m]
      <4>1. m - 1 \in DOMAIN work'[c] /\ (m - 1) + 1 = m
        BY ONLY <3>1, <3>2, <3>5
      <4> QED BY <3>4, <4>1
    <3> QED BY <2>1, <3>3, <3>4, <3>5
  <2>2. CASE work'[c] = <<>>
    BY <2>2
  <2> QED BY <1>0, <2>1, <2>2 DEF Inv, TypeOK
<1>5. /\ \A d \in Conns : \A i, j \in DOMAIN work[d] : i < j => work[d][i] < work[d][j]
      /\ \A d \in Conns : \A i \in DOMAIN work[d] :
             work[d][i] <= Total /\ got[work[d][i]] = <<>>
      /\ \A d, e \in Conns : \A i \in DOMAIN work[d], j \in DOMAIN work[e] :
             work[d][i] = work[e][j] => d = e
      /\ \A d \in Conns : \A i \in DOMAIN work[d] : work[d][i] \in Cmds /\ i \in Nat
      /\ \A k \in Cmds : k \in Nat
      /\ Total' = Total
  <2>1. Total' = Total
    BY DEF Total
  <2> QED BY <2>1, WorkTyped DEF Inv, WorkInv
<1>6. \A d \in Conns : \A i \in DOMAIN work'[d] :
          \E m \in DOMAIN work[d] : work'[d][i] = work[d][m] /\ work[d][m] # h
  <2>1. ASSUME NEW d \in Conns \ {c}, NEW i \in DOMAIN work'[d]
        PROVE  i \in DOMAIN work[d] /\ work'[d][i] = work[d][i] /\ work[d][i] # h
    BY <1>1, <1>3, <1>5, <2>1
  <2>2. ASSUME NEW i \in DOMAIN work'[c]
        PROVE  /\ i + 1 \in DOMAIN work[c] /\ work'[c][i] = work[c][i + 1]
               /\ work[c][i + 1] # h
    <3>1. i + 1 \in DOMAIN work[c] /\ work'[c][i] = work[c][i + 1] /\ 1 < i + 1
      BY <1>4, <2>2
    <3>2. work[c][1] < work[c][i + 1]
      BY <1>1, <1>5, <3>1
    <3>3. work[c][1] \in Nat /\ work[c][i + 1] \in Nat
      BY <1>1, <1>5, <3>1
    <3>4. work[c][i + 1] # work[c][1]
      BY ONLY <3>2, <3>3
    <3> QED BY <1>1, <3>1, <3>4
  <2> QED BY <2>1, <2>2
<1>7. WorkInv'
  <2>1. ASSUME NEW d \in Conns, NEW i \in DOMAIN work'[d], NEW j \in DOMAIN work'[d], i < j
        PROVE  work'[d][i] < work'[d][j]
    <3>1. CASE d = c
      <4>1. /\ i + 1 \in DOMAIN work[c] /\ work'[c][i] = work[c][i + 1]
            /\ j + 1 \in DOMAIN work[c] /\ work'[c][j] = work[c][j + 1]
            /\ i \in Nat /\ j \in Nat
        BY <1>4, <2>1, <3>1
      <4>2. i + 1 < j + 1
        BY ONLY <2>1, <4>1
      <4> QED BY <1>5, <3>1, <4>1, <4>2
    <3>2. CASE d # c
      BY <1>3, <1>5, <2>1, <3>2
    <3> QED BY <3>1, <3>2
  <2>2. ASSUME NEW d \in Conns, NEW i \in DOMAIN work'[d]
        PROVE  work'[d][i] <= Total' /\ got'[work'[d][i]] = <<>>
    <3>1. PICK m \in DOMAIN work[d] : work'[d][i] = work[d][m] /\ work[d][m] # h
      BY <1>6, <2>2
    <3> QED BY <1>2, <1>5, <3>1, ZenonT(30)
  <2>3. ASSUME NEW d \in Conns, NEW e \in Conns, NEW i \in DOMAIN work'[d],
               NEW j \in DOMAIN work'[e], work'[d][i] = work'[e][j]
        PROVE  d = e
    <3>1. /\ \E m \in DOMAIN work[d] : work'[d][i] = work[d][m]
          /\ \E m \in DOMAIN work[e] : work'[e][j] = work[e][m]
      BY <1>6, <2>3
    <3> QED BY <1>5, <2>3, <3>1
  <2> QED BY <2>1, <2>2, <2>3 DEF WorkInv
<1>8. TurnInv'
  <2> SUFFICES ASSUME NEW m \in DOMAIN asks, NEW j \in asks[m], NEW k \in asks[m], j < k
               PROVE  /\ got'[k] # <<>> => got'[j] = <<j>>
                      /\ \A d \in Conns : \A i \in DOMAIN work'[d] :
                             work'[d][i] = k => \/ got'[j] = <<j>>
                                                \/ \E g \in DOMAIN work'[d] : work'[d][g] = j
    BY DEF TurnInv
  <2>1. j \in Cmds /\ k \in Cmds
    BY DEF Inv, TypeOK
  <2>2. /\ got[k] # <<>> => got[j] = <<j>>
        /\ \A d \in Conns : \A i \in DOMAIN work[d] :
               work[d][i] = k => \/ got[j] = <<j>>
                                 \/ \E g \in DOMAIN work[d] : work[d][g] = j
    BY DEF Inv, TurnInv
  <2>3. got[j] = <<j>> => got'[j] = <<j>>
    <3>1. <<j>> # <<>>
      OBVIOUS
    <3> QED BY <1>1, <1>2, <2>1, <3>1
  <2>4. ASSUME k = h PROVE got[j] = <<j>>
    <3>1. ASSUME NEW g \in DOMAIN work[c], work[c][g] = j PROVE FALSE
      <4>1. g = 1 \/ 1 < g
        BY <1>1, <1>5, <3>1 DEF Inv, TypeOK
      <4>2. j \in Nat /\ k \in Nat
        BY <1>5, <2>1
      <4>3. CASE g = 1
        BY ONLY <1>1, <2>4, <3>1, <4>2, <4>3, j < k
      <4>4. CASE 1 < g
        <5>1. work[c][1] < work[c][g]
          BY <1>1, <1>5, <3>1, <4>4
        <5> QED BY ONLY <1>1, <2>4, <3>1, <4>2, <5>1, j < k
      <4> QED BY <4>1, <4>3, <4>4
    <3> QED BY <1>1, <2>2, <2>4, <3>1
  <2>5. got'[k] # <<>> => got'[j] = <<j>>
    BY <1>2, <2>1, <2>2, <2>3, <2>4
  <2>6. ASSUME NEW d \in Conns, NEW i \in DOMAIN work'[d], work'[d][i] = k
        PROVE  got'[j] = <<j>> \/ \E g \in DOMAIN work'[d] : work'[d][g] = j
    <3>1. CASE d # c
      BY <1>3, <2>2, <2>3, <2>6, <3>1
    <3>2. CASE d = c
      <4>1. /\ i + 1 \in DOMAIN work[c] /\ work[c][i + 1] = k /\ x = h
            /\ DOMAIN work'[c] # {}
        BY <1>4, <2>6, <3>2
      <4>2. CASE got[j] = <<j>>
        BY <2>3, <4>2
      <4>3. CASE \E g \in DOMAIN work[c] : work[c][g] = j
        <5>1. PICK g \in DOMAIN work[c] : work[c][g] = j
          BY <4>3
        <5>2. CASE g = 1
          BY <1>1, <1>2, <4>1, <5>1, <5>2
        <5>3. CASE g # 1
          BY <1>4, <3>2, <4>1, <5>1, <5>3
        <5> QED BY <5>2, <5>3
      <4> QED BY <2>2, <4>1, <4>2, <4>3
    <3> QED BY <3>1, <3>2
  <2> QED BY <2>5, <2>6
<1>9. GotInv'
  <2>1. got'[h] \in {<<h>>, <<Null>>}
    BY <1>0, <1>2
  <2>2. h <= Total /\ h \in Nat /\ Total \in Nat
    BY <1>1, <1>5 DEF Inv, AskInv
  <2>3. ~ (h > Total)
    BY ONLY <2>2
  <2> QED BY <1>2, <1>5, <2>1, <2>3 DEF Inv, GotInv
<1> QED BY <1>7, <1>8, <1>9 DEF CmdInv

\* Every step keeps the order of the commands.
LEMMA CmdStep ==
    ASSUME Inv, Next, TypeOK'
    PROVE  CmdInv'
<1>1. ASSUME NEW t \in Threads, PullOk(t) PROVE CmdInv'
  BY <1>1, StartsPooled, CmdStart DEF PullOk
<1>2. ASSUME NEW t \in Threads, OpenOk(t) PROVE CmdInv'
  <2>1. PICK c \in Conns : mem[c] = "none" /\ Start(t, c)
    BY <1>2 DEF OpenOk
  <2>2. pc[t] = "open" /\ UNCHANGED got
    BY <1>2 DEF OpenOk
  <2> QED BY <2>1, <2>2, StartsOpened, CmdStart
<1>3. ASSUME NEW t \in Threads, NEW c \in Conns, Reply(t, c) PROVE CmdInv'
  <2>1. rev[c] /\ reply[c] # <<>>
    BY <1>3 DEF Reply, Fires
  <2>2. Started(c) /\ mem[c] = "live"
    BY <2>1 DEF Inv, PlaceInv, Started
  <2>3. PICK n \in {1, 2} : reply[c] = <<[cmd |-> Head(work[c]), parts |-> n]>>
    BY <2>1, <2>2 DEF Inv, PeerInv
  <2>4. Head(reply[c]).cmd = Head(work[c])
    BY ONLY <2>3
  <2>5. /\ got' = [got EXCEPT ![Head(work[c])] = Append(@, Head(work[c]))]
        /\ work' = [work EXCEPT ![c] = Tail(@)] /\ UNCHANGED asks
    BY <1>3, <2>4 DEF Reply
  <2>6. Head(work[c]) \in {Head(work[c]), Null}
    OBVIOUS
  <2> QED BY <2>2, <2>5, <2>6, CmdTake
<1>4. ASSUME NEW t \in Threads, NEW c \in Conns, Broken(t, c) PROVE CmdInv'
  <2>1. Started(c)
    BY <1>4 DEF Broken, Fires, Started
  <2>2. /\ got' = [got EXCEPT ![Head(work[c])] = Append(@, Null)]
        /\ work' = [work EXCEPT ![c] = <<>>] /\ UNCHANGED asks
    BY <1>4 DEF Broken
  <2>3. Null \in {Head(work[c]), Null}
    OBVIOUS
  <2> QED BY <2>1, <2>2, <2>3, CmdTake
<1>5. ASSUME UNCHANGED <<work, asks, got>> PROVE CmdInv'
  <2>1. Total' = Total
    BY <1>5 DEF Total
  <2> QED BY <1>5, <2>1 DEF Inv, CmdInv, WorkInv, TurnInv, GotInv
<1>6. ASSUME NEW t \in Threads,
             PullEmpty(t) \/ CountRead(t) \/ CountSwap(t) \/ OpenFails(t) \/ Finish(t) \/ Trail(t)
      PROVE  UNCHANGED <<work, asks, got>>
  BY <1>6 DEF PullEmpty, CountRead, CountSwap, OpenFails, Finish, Trail
<1>7. ASSUME NEW t \in Threads, NEW c \in Conns, Send(t, c) \/ Part(t, c) \/ Blank(t, c)
      PROVE  UNCHANGED <<work, asks, got>>
  BY <1>7 DEF Send, Part, Blank
<1>8. ASSUME NEW c \in Conns, Answer(c) \/ Shut(c) PROVE UNCHANGED <<work, asks, got>>
  BY <1>8 DEF Answer, Shut
<1>9. CASE Done
  BY <1>5, <1>9 DEF Done, vars
<1> QED BY <1>1, <1>2, <1>3, <1>4, <1>5, <1>6, <1>7, <1>8, <1>9 DEF Next, Step

-----------------------------------------------------------------------------
\* The theorems.

\* The invariant holds at the start.
LEMMA InvInit == Init => Inv
<1> SUFFICES ASSUME Init PROVE Inv
  OBVIOUS
<1> USE DEF Init
<1>1. TypeOK
  <2>1. /\ <<>> \in Seq(Conns) /\ <<>> \in Seq(Cmds) /\ <<>> \in Seq(SUBSET Cmds)
        /\ <<>> \in Seq([cmd : Cmds, parts : {1, 2}]) /\ <<>> \in Seq(Cmds \cup {Null})
    OBVIOUS
  <2> QED BY <2>1 DEF TypeOK
<1>2. PlaceInv
  BY DEF PlaceInv, Started, Pooled, Returned
<1>3. PeerInv
  BY DEF PeerInv
<1>4. UseCovers
  <2>1. Live = {} /\ {t \in Threads : pc[t] = "open"} = {}
    BY DEF Live
  <2>2. Cardinality({}) = 0
    BY FS_EmptySet
  <2>3. use >= 0 + 0
    OBVIOUS
  <2> QED BY ONLY <2>1, <2>2, <2>3 DEF UseCovers
<1>5. AskInv /\ Total = 0
  <2>1. Takers = {} /\ UNION Range(asks) = {} /\ Len(asks) = 0
    BY DEF Takers, Range
  <2>2. Total = 0 /\ Cardinality(Takers) = 0
    BY <2>1, FS_EmptySet DEF Total
  <2>3. 1 .. 0 = {} /\ MaxPairs \in Nat /\ MaxAsks \in Nat
    BY PoolAssumption
  <2> QED BY <2>1, <2>2, <2>3 DEF AskInv
<1>6. WorkInv /\ TurnInv /\ GotInv
  BY DEF WorkInv, TurnInv, GotInv
<1> QED BY <1>1, <1>2, <1>3, <1>4, <1>5, <1>6 DEF Inv

\* Every step keeps the invariant.
LEMMA InvNext == Inv /\ [Next]_vars => Inv'
<1> SUFFICES ASSUME Inv, [Next]_vars PROVE Inv'
  OBVIOUS
<1>1. CASE Next
  <2>1. TypeOK'
    BY <1>1, TypeStep
  <2> QED BY <1>1, <2>1, PlaceStep, PeerStep, UseStep, AskStep, CmdStep DEF Inv, CmdInv
<1>2. CASE UNCHANGED vars
  <2>1. TypeOK'
    BY <1>2 DEF vars, Inv, TypeOK
  <2>2. PlaceInv'
    BY <1>2 DEF vars, Inv, PlaceInv, Started, Pooled, Returned
  <2>3. PeerInv' /\ UseCovers'
    BY <1>2 DEF vars, Inv, PeerInv, UseCovers, Live
  <2>4. AskInv'
    BY <1>2 DEF vars, Inv, AskInv, Total, Takers
  <2>5. WorkInv' /\ TurnInv' /\ GotInv'
    <3>1. UNCHANGED <<work, asks, got>> /\ WorkInv /\ TurnInv /\ GotInv
      BY <1>2 DEF vars, Inv
    <3>2. Total' = Total
      BY <3>1 DEF Total
    <3>3. WorkInv'
      BY ONLY <3>1, <3>2 DEF WorkInv
    <3>4. TurnInv'
      BY ONLY <3>1 DEF TurnInv
    <3>5. GotInv'
      BY ONLY <3>1, <3>2 DEF GotInv
    <3> QED BY <3>3, <3>4, <3>5
  <2> QED BY <2>1, <2>2, <2>3, <2>4, <2>5 DEF Inv
<1> QED BY <1>1, <1>2

\* The inductive invariant of the pool and its clients.
THEOREM PoolInvariance == Spec => []Inv
BY InvInit, InvNext, PTL DEF Spec

\* The invariant counts the places of a connection.
LEMMA PlacesCounted == Inv => OnePlace
<1> SUFFICES ASSUME Inv, NEW c \in Conns
             PROVE  Cardinality({i \in DOMAIN qlist : qlist[i] = c})
                    + Cardinality({t \in Threads : cur[t] = c /\ pc[t] = "finish"})
                    + (IF rev[c] \/ wev[c] THEN 1 ELSE 0) = IF c \in Live THEN 1 ELSE 0
  BY DEF OnePlace
<1> DEFINE Q == {i \in DOMAIN qlist : qlist[i] = c}
           F == {t \in Threads : cur[t] = c /\ pc[t] = "finish"}
<1>1. Cardinality(Q) = IF Pooled(c) THEN 1 ELSE 0
  <2>1. CASE Pooled(c)
    <3>1. \E i : Q = {i}
      BY <2>1 DEF Pooled, Inv, PlaceInv
    <3> QED BY <2>1, <3>1, FS_Singleton
  <2>2. CASE ~ Pooled(c)
    <3>1. Q = {}
      BY <2>2 DEF Pooled
    <3> QED BY <2>2, <3>1, FS_EmptySet
  <2> QED BY <2>1, <2>2
<1>2. Cardinality(F) = IF Returned(c) THEN 1 ELSE 0
  <2>1. CASE Returned(c)
    <3>1. \E t : F = {t}
      <4>1. PICK t \in Threads : pc[t] = "finish" /\ cur[t] = c
        BY <2>1 DEF Returned
      <4>2. F = {t}
        BY <4>1 DEF Inv, PlaceInv
      <4> QED BY <4>2
    <3> QED BY <2>1, <3>1, FS_Singleton
  <2>2. CASE ~ Returned(c)
    <3>1. F = {}
      BY <2>2 DEF Returned
    <3> QED BY <2>2, <3>1, FS_EmptySet
  <2> QED BY <2>1, <2>2
<1>3. /\ c \in Live <=> Started(c) \/ Pooled(c) \/ Returned(c)
      /\ Started(c) => ~ Pooled(c) /\ ~ Returned(c)
      /\ Pooled(c) => ~ Returned(c)
  BY DEF Inv, PlaceInv, Live
<1> HIDE DEF Q, F
<1>4. Cardinality(Q) + Cardinality(F) + (IF Started(c) THEN 1 ELSE 0) = IF c \in Live THEN 1 ELSE 0
  <2>1. CASE Started(c)
    BY <1>1, <1>2, <1>3, <2>1
  <2>2. CASE ~ Started(c) /\ Pooled(c)
    BY <1>1, <1>2, <1>3, <2>2
  <2>3. CASE ~ Started(c) /\ ~ Pooled(c)
    BY <1>1, <1>2, <1>3, <2>3
  <2> QED BY <2>1, <2>2, <2>3
<1> QED BY <1>4 DEF Q, F, Started

\* A connection that exists is once in the pool (cnt_push), in one handler
\* about to give it back, or started in one loop, for any number of threads,
\* takings and broken connections: cnt_pull never hands one to two threads.
THEOREM PlacesDistinct == Spec => []OnePlace
BY PoolInvariance, PlacesCounted, PTL

\* A callback of async_api.c gets the reply to its own command or NULL, once
\* and in the order of the commands, also on a connection that another thread
\* used before, and although the end of a handler resets the parse step of a
\* connection it no longer owns.
THEOREM RepliesRight == Spec => []RightReply
<1>1. Inv => RightReply
  BY DEF Inv, GotInv, TurnInv, RightReply
<1> QED BY <1>1, PoolInvariance, PTL

\* use covers the connections that exist or are being opened, so the assertion
\* of cnt_free holds, although it is counted up by a compare-and-swap apart
\* from the pull that found the pool empty.
THEOREM UseCounted == Spec => []UseCovers
<1>1. Inv => UseCovers
  BY DEF Inv
<1> QED BY <1>1, PoolInvariance, PTL

=============================================================================
