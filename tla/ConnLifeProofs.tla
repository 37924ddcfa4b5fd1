--------------------------- MODULE ConnLifeProofs ---------------------------
(***************************************************************************)
(* One porter owns a descriptor at a time, no connection is lost or queued *)
(* twice, no freed node is in use and no bytes pass from a connection to   *)
(* the next, for any number of porters, descriptors and connections, and   *)
(* with requests that are run by all porters.                              *)
(***************************************************************************)
EXTENDS ConnLife, TLAPS

Owns(p, f) == watch[f].porter = p \/ (fd[p] = f /\ pc[p] # "hit")

\* What a porter in a handler has.
PorterOK(p) ==
    /\ pc[p] # "abort"
    /\ pc[p] = "loop" <=> fd[p] = None
    /\ pc[p] \in {"close", "stop"} => watch[fd[p]].porter = p
    /\ pc[p] \in {"hit", "del", "free"} => watch[fd[p]] = Stopped

\* Who has a descriptor whose status says that it is in use.
FdOK(f) ==
    /\ work_status[f] = "no" => left[f] = {} /\ \A p \in Porters : ~Owns(p, f)
    /\ work_status[f] = "is" => \/ \E p \in Porters : Owns(p, f)
                                \/ left[f] # {} \/ sock[f] \in stranded
    /\ left[f] # {} => \A p \in Porters : ~Owns(p, f)
    /\ \A p, q \in Porters : Owns(p, f) /\ Owns(q, f) => p = q
    /\ work_status[f] = "is" => data[f] \in Porters

OwnInv == (\A p \in Porters : PorterOK(p)) /\ (\A f \in Fds : FdOK(f))

\* The list of a porter has requests that it has still to run, each once.
ListOK(p) ==
    \A i \in 1 .. Len(tlist[p]) :
        /\ p \in left[tlist[p][i]]
        /\ \A j \in 1 .. Len(tlist[p]) : tlist[p][i] = tlist[p][j] => i = j

\* A porter that gives a request to the lists is the only one that does, and
\* those to be given it next have it to run and not yet in their lists.
HitOK(p) ==
    /\ pc[p] = "hit" =>
          /\ \A q \in Porters : q >= idx[p] =>
                /\ q \in left[fd[p]]
                /\ \A i \in 1 .. Len(tlist[q]) : tlist[q][i] # fd[p]
          /\ \A q \in Porters : pc[q] = "hit" /\ fd[q] = fd[p] => q = p
    /\ pc[p] # "hit" => idx[p] = 1

TaskInv == \A p \in Porters : ListOK(p) /\ HitOK(p)

\* Every open connection has a descriptor of its own; one that is watched, or
\* whose request is with the porters, has been taken over and is open until
\* its porter closes it.
SockInv ==
    /\ \A f, g \in Fds : sock[f] = sock[g] /\ sock[f] # None => f = g
    /\ \A f \in Fds : sock[f] <= naccept
    /\ \A n \in served : n <= naccept
    /\ \A f \in Fds : left[f] # {} => sock[f] \in served
    /\ \A f \in Fds, p \in Porters :
          watch[f].porter = p /\ ~(fd[p] = f /\ pc[p] # "close") => sock[f] \in served

\* A node on the heap is freed before its descriptor.
NodeInv ==
    /\ \A f \in Fds : watch[f] # Stopped \/ left[f] # {} => node[f] = "live"
    /\ \A f \in Heap : work_status[f] = "no" => node[f] = "null"
    /\ \A p \in Porters : pc[p] = "free" /\ fd[p] \in Heap => node[fd[p]] = "null"

\* The buffers are empty from the last thing a porter does with a connection
\* to the first thing another does with the next.
BufOK(f) ==
    /\ recv[f] \cup send[f] \subseteq {sock[f]}
    /\ watch[f].cb = "send" => recv[f] = {}
    /\ watch[f].cb = "recv" \/ left[f] # {} => send[f] = {}
    /\ sock[f] \notin served => recv[f] = {} /\ send[f] = {}
    /\ \A p \in Porters : fd[p] = f /\ pc[p] # "hit" => recv[f] = {} /\ send[f] = {}
    /\ f \in Heap /\ sock[f] \in served => dosize[f] \subseteq {sock[f]}

BufInv == \A f \in Fds : BufOK(f)

Inv == TypeOK /\ OwnInv /\ TaskInv /\ SockInv /\ OneWay /\ NodeInv /\ BufInv

-----------------------------------------------------------------------------
LEMMA Constants ==
    /\ P \in Nat /\ P > 0 /\ MaxConns \in Nat /\ MaxSends \in Nat
    /\ None \notin Fds /\ None \notin Porters /\ None \notin Conns
    /\ Big \subseteq Fds /\ Heap \subseteq Fds
BY ConnAssumption DEF None, Porters, Conns

\* The variables are functions of the descriptors or of the porters.
LEMMA Domains ==
    ASSUME TypeOK
    PROVE  /\ DOMAIN sock = Fds /\ DOMAIN recv = Fds /\ DOMAIN send = Fds
           /\ DOMAIN dosize = Fds /\ DOMAIN watch = Fds /\ DOMAIN left = Fds
           /\ DOMAIN work_status = Fds /\ DOMAIN node = Fds /\ DOMAIN data = Fds
           /\ DOMAIN pc = Porters /\ DOMAIN fd = Porters /\ DOMAIN idx = Porters
           /\ DOMAIN tlist = Porters /\ DOMAIN pipe = Porters /\ DOMAIN qlist = Porters
BY DEF TypeOK

\* A connection on its way is open and not yet taken over.
LEMMA OnWay ==
    ASSUME TypeOK, OneWay, NEW p \in Porters
    PROVE  /\ pipe[p] # <<>> => /\ Head(pipe[p]) \in Fds
                                /\ sock[Head(pipe[p])] \in Conns \ served
           /\ qlist[p] # <<>> => /\ Head(qlist[p]) \in Fds
                                 /\ sock[Head(qlist[p])] \in Conns \ served
<1> DEFINE a == <<"pipe", p>>  b == <<"qlist", p>>
<1>1. a \in Lines /\ b \in Lines /\ Line(a) = pipe[p] /\ Line(b) = qlist[p]
    BY DEF Lines, Line
<1>2. pipe[p] \in Seq(Fds) /\ qlist[p] \in Seq(Fds)
    BY DEF TypeOK
<1>3. ASSUME NEW l \in Lines, Line(l) \in Seq(Fds), Line(l) # <<>>
      PROVE  Head(Line(l)) \in Fds /\ sock[Head(Line(l))] \in Conns \ served
  <2>1. Head(Line(l)) \in Fds /\ 1 \in 1 .. Len(Line(l)) /\ Line(l)[1] = Head(Line(l))
    BY <1>3
  <2>2. sock[Head(Line(l))] # None /\ sock[Head(Line(l))] \notin served
    BY <2>1 DEF OneWay
  <2> QED BY <2>1, <2>2 DEF TypeOK
<1> QED BY <1>1, <1>2, <1>3

\* A porter serves only connections that are open and taken over, of which no
\* request is with the porters.
LEMMA Firing ==
    ASSUME Inv, NEW p \in Porters, NEW f \in Fds, NEW cb \in {"recv", "send"},
           Fires(p, f, cb)
    PROVE  /\ pc[p] = "loop" /\ fd[p] = None /\ watch[f].porter = p
           /\ watch[f].cb = cb /\ watch[f] # Stopped
           /\ sock[f] \in Conns /\ sock[f] \in served
           /\ left[f] = {} /\ data[f] \in Porters
           /\ \A q \in Porters : fd[q] # f
<1> USE DEF Inv, TypeOK
<1>1. pc[p] = "loop" /\ watch[f].porter = p /\ watch[f].cb = cb
    BY DEF Fires
<1>2. p # None /\ None \notin Fds /\ None \notin Conns
    BY ConnAssumption DEF Porters, None, Conns
<1>3. fd[p] = None
    BY <1>1 DEF OwnInv, PorterOK, FdOK
<1>4. sock[f] \in served
    BY <1>1, <1>2, <1>3 DEF SockInv
<1>5. watch[f] # Stopped
    BY <1>1, <1>2 DEF Stopped
<1>6. left[f] = {} /\ data[f] \in Porters
    BY <1>1, <1>5 DEF OwnInv, PorterOK, FdOK, Owns
<1>7. ASSUME NEW q \in Porters, fd[q] = f PROVE FALSE
  <2>1. pc[q] # "hit"
    BY <1>5, <1>7 DEF OwnInv, PorterOK, FdOK
  <2>2. q = p
    BY <1>1, <1>7, <2>1 DEF OwnInv, PorterOK, FdOK, Owns
  <2> QED BY <1>2, <1>3, <1>7, <2>2
<1> QED BY <1>1, <1>2, <1>3, <1>4, <1>5, <1>6, <1>7

\* The same for each kind of step.
LEMMA Serving ==
    ASSUME Inv, NEW p \in Porters, NEW f \in Fds, Serves(p, f)
    PROVE  /\ pc[p] = "loop" /\ fd[p] = None /\ watch[f].porter = p
           /\ watch[f] # Stopped
           /\ sock[f] \in Conns /\ sock[f] \in served
           /\ left[f] = {} /\ data[f] \in Porters
           /\ \A q \in Porters : fd[q] # f
<1>1. Fires(p, f, "recv") \/ Fires(p, f, "send")
    BY DEF Serves, RecvPart, RecvRequest, RecvWhole, RecvNone, RecvBad, RecvEnd,
           SendKeep, SendLast
<1> QED BY <1>1, Firing

\* So does a porter that ends one.
LEMMA Ending ==
    ASSUME Inv, NEW p \in Porters, pc[p] # "loop"
    PROVE  /\ fd[p] \in Fds
           /\ pc[p] = "close" => sock[fd[p]] \in Conns /\ sock[fd[p]] \in served
           /\ pc[p] # "hit" => left[fd[p]] = {}
<1> USE DEF Inv, TypeOK
<1>1. fd[p] \in Fds
    BY DEF OwnInv, PorterOK, FdOK
<1>2. pc[p] = "close" => sock[fd[p]] \in served
    BY <1>1 DEF OwnInv, PorterOK, SockInv
<1>3. pc[p] # "hit" => left[fd[p]] = {}
    BY <1>1 DEF OwnInv, PorterOK, FdOK, Owns
<1> QED BY <1>1, <1>2, <1>3

\* A porter that gives a request to the lists has one that is taken over, and
\* the porter to be given it next is still to run it.
LEMMA Hitting ==
    ASSUME Inv, NEW p \in Porters, pc[p] = "hit"
    PROVE  /\ fd[p] \in Fds /\ idx[p] \in Porters /\ idx[p] \in left[fd[p]]
           /\ sock[fd[p]] \in served /\ sock[fd[p]] \in Conns
           /\ tlist[idx[p]] \in Seq(Fds)
<1> USE DEF Inv, TypeOK
<1>1. fd[p] \in Fds /\ idx[p] \in Porters /\ tlist[idx[p]] \in Seq(Fds)
    BY DEF OwnInv, PorterOK, FdOK
<1>2. idx[p] >= idx[p]
    BY <1>1 DEF Porters
<1>3. idx[p] \in left[fd[p]]
    BY <1>1, <1>2 DEF TaskInv, ListOK, HitOK
<1> QED BY <1>1, <1>3 DEF SockInv

\* A porter that runs one has it at the front of its list; when it is the last
\* one, no other has it and nobody gives it out any more.
LEMMA Running ==
    ASSUME Inv, NEW p \in Porters, tlist[p] # <<>>,
           NEW f, f = Head(tlist[p])
    PROVE  /\ f \in Fds /\ p \in left[f] /\ tlist[p] \in Seq(Fds)
           /\ watch[f] = Stopped /\ sock[f] \in served
           /\ \A q \in Porters : fd[q] = f => pc[q] = "hit" /\ ~(p >= idx[q])
           /\ left[f] = {p} => \A q \in Porters : fd[q] # f
<1> USE Constants DEF Inv, TypeOK
<1>1. tlist[p] \in Seq(Fds)
    OBVIOUS
<1>2. f \in Fds /\ 1 \in 1 .. Len(tlist[p]) /\ tlist[p][1] = f
    BY <1>1
<1>3. p \in left[f]
    BY <1>2 DEF TaskInv, ListOK, HitOK
<1>4. \A q \in Porters : ~ Owns(q, f)
    BY <1>2, <1>3 DEF OwnInv, PorterOK, FdOK
<1>5. watch[f] = Stopped
    BY <1>2, <1>4 DEF Owns
<1>6. ASSUME NEW q \in Porters, fd[q] = f
      PROVE  pc[q] = "hit" /\ ~(p >= idx[q])
  <2>1. pc[q] = "hit"
    BY <1>4, <1>6 DEF Owns
  <2> QED BY <1>2, <1>6, <2>1 DEF TaskInv, ListOK, HitOK
<1>7. ASSUME left[f] = {p}, NEW q \in Porters, fd[q] = f PROVE FALSE
  <2>1. pc[q] = "hit" /\ ~(p >= idx[q])
    BY <1>6, <1>7
  <2>2. idx[q] = p
    BY <1>7, <2>1, Hitting
  <2> QED BY <2>1, <2>2 DEF Porters
<1> QED BY <1>1, <1>2, <1>3, <1>5, <1>6, <1>7 DEF SockInv

-----------------------------------------------------------------------------
LEMMA InitInv == Init => Inv
<1> SUFFICES ASSUME Init PROVE Inv
    OBVIOUS
<1> USE ConnAssumption DEF Init
<1>0. 1 \in Porters /\ None \notin Porters /\ None \notin Fds
    BY DEF Porters, None
<1>1. TypeOK
  <2>1. /\ sends \in 0 .. MaxSends /\ naccept \in 0 .. MaxConns
        /\ robin \in Porters /\ idx \in [Porters -> Porters]
    BY <1>0
  <2>2. \A S : <<>> \in Seq(S)
    OBVIOUS
  <2> QED BY <1>0, <2>1, <2>2 DEF TypeOK, Input, Kind
<1>2. OwnInv /\ TaskInv
    BY <1>0 DEF OwnInv, PorterOK, FdOK, TaskInv, ListOK, HitOK, Owns, Stopped
<1>3. SockInv
    BY <1>0 DEF SockInv, Stopped, None
<1>4. OneWay
  <2>1. \A l \in Lines : Line(l) = <<>>
    BY DEF Lines, Line
  <2> QED BY <1>0, <2>1 DEF OneWay
<1>5. NodeInv /\ BufInv
    BY <1>0 DEF NodeInv, BufInv, BufOK, Stopped
<1> QED BY <1>1, <1>2, <1>3, <1>4, <1>5 DEF Inv

-----------------------------------------------------------------------------
LEMMA TypeStep == Inv /\ [Next]_vars => TypeOK'
<1> SUFFICES ASSUME Inv, [Next]_vars PROVE TypeOK'
    OBVIOUS
<1>t. TypeOK /\ OneWay
    BY DEF Inv
<1> USE DEF TypeOK, kernel, leader, queues, buffer, slot, tasks, loops, ends
<1>a. ASSUME NEW p \in Porters, NEW f \in Fds, NEW bytes \in SUBSET Conns,
             Answer(p, f, bytes)
      PROVE  /\ recv' \in [Fds -> SUBSET Conns] /\ send' \in [Fds -> SUBSET Conns]
             /\ control' \in [Fds -> {"ok", "error"}]
             /\ watch' \in [Fds -> [porter : Porters, cb : {"recv", "send"}]
                                  \cup {Stopped}]
    BY <1>a, <1>t DEF Answer, Watch
<1>1. ASSUME NEW n \in Conns, PeerSends(n) PROVE TypeOK'
  <2>1. PICK what \in Input \cup {"eof"} :
            inbox' = [inbox EXCEPT ![n] = what]
    BY <1>1 DEF PeerSends
  <2>2. sends' \in 0 .. MaxSends
    BY <1>1, <1>t, Constants DEF PeerSends
  <2> QED BY <1>1, <1>t, <2>1, <2>2 DEF PeerSends
<1>2. CASE Accept
  <2>1. PICK f \in Fds : /\ sock[f] = None
                         /\ IF f \in Big
                            THEN UNCHANGED <<sock, hand>>
                            ELSE /\ sock' = [sock EXCEPT ![f] = naccept + 1]
                                 /\ hand' = f
    BY <1>2 DEF Accept
  <2>2. naccept + 1 \in Conns /\ naccept' \in 0 .. MaxConns
    BY <1>2, <1>t, Constants DEF Accept, Conns
  <2>3. sock' \in [Fds -> Conns \cup {None}] /\ hand' \in Fds \cup {None}
    <3>1. CASE UNCHANGED <<sock, hand>>
        BY <1>t, <3>1
    <3>2. CASE sock' = [sock EXCEPT ![f] = naccept + 1] /\ hand' = f
      <4>1. sock \in [Fds -> Conns \cup {None}]
        BY <1>t
      <4> HIDE DEF TypeOK
      <4> QED BY <2>2, <3>2, <4>1
    <3> QED BY <2>1, <3>1, <3>2
  <2> QED BY <1>2, <1>t, <2>2, <2>3 DEF Accept
<1>3. CASE Dispatch
  <2>1. robin' \in Porters
    <3>1. robin \in 1 .. P /\ robin' = (robin % P) + 1
        BY <1>3, <1>t DEF Dispatch, Porters
    <3> HIDE DEF TypeOK
    <3> QED BY <3>1, Constants DEF Porters
  <2>2. pipe' \in [Porters -> Seq(Fds)]
    <3>1. hand \in Fds /\ pipe[robin] \in Seq(Fds) /\ robin \in Porters
        BY <1>3, <1>t DEF Dispatch
    <3>2. Append(pipe[robin], hand) \in Seq(Fds)
        BY <3>1
    <3> QED BY <1>3, <1>t, <3>2 DEF Dispatch
  <2> QED BY <1>3, <1>t, <2>1, <2>2 DEF Dispatch
<1>4. ASSUME NEW p \in Porters, NEW f \in Fds, sock[f] \in Conns, TakeOver(p, f)
      PROVE  /\ work_status' \in [Fds -> {"no", "is"}]
             /\ node' \in [Fds -> {"null", "live"}]
             /\ recv' \in [Fds -> SUBSET Conns] /\ send' \in [Fds -> SUBSET Conns]
             /\ dosize' \in [Fds -> SUBSET Conns] /\ data' \in [Fds -> Porters \cup {None}]
             /\ control' \in [Fds -> {"ok", "error"}]
             /\ watch' \in [Fds -> [porter : Porters, cb : {"recv", "send"}]
                                  \cup {Stopped}]
             /\ served' \in SUBSET Conns
  <2>1. /\ work_status' \in [Fds -> {"no", "is"}] /\ node' \in [Fds -> {"null", "live"}]
        /\ data' \in [Fds -> Porters \cup {None}] /\ served' \in SUBSET Conns
    BY <1>4, <1>t DEF TakeOver
  <2>2. watch' \in [Fds -> [porter : Porters, cb : {"recv", "send"}] \cup {Stopped}]
    BY <1>4, <1>t DEF TakeOver
  <2>3. /\ recv' \in [Fds -> SUBSET Conns] /\ send' \in [Fds -> SUBSET Conns]
        /\ dosize' \in [Fds -> SUBSET Conns] /\ control' \in [Fds -> {"ok", "error"}]
    <3>1. CASE node[f] = "live"
        BY <1>4, <1>t, <3>1 DEF TakeOver
    <3>2. CASE node[f] # "live"
      <4>1. /\ recv' = [recv EXCEPT ![f] = {}] /\ send' = [send EXCEPT ![f] = {}]
            /\ dosize' = [dosize EXCEPT ![f] = {}] /\ control' = [control EXCEPT ![f] = "ok"]
        BY <1>4, <3>2 DEF TakeOver
      <4>2. /\ recv \in [Fds -> SUBSET Conns] /\ send \in [Fds -> SUBSET Conns]
            /\ dosize \in [Fds -> SUBSET Conns] /\ control \in [Fds -> {"ok", "error"}]
        BY <1>t
      <4> HIDE DEF TypeOK
      <4> QED BY <4>1, <4>2
    <3> QED BY <3>1, <3>2
  <2> QED BY <2>1, <2>2, <2>3
<1>5. ASSUME NEW p \in Porters, FetchPipe(p) PROVE TypeOK'
  <2>1. Head(pipe[p]) \in Fds /\ sock[Head(pipe[p])] \in Conns
    BY <1>5, <1>t, OnWay DEF FetchPipe
  <2>2. pipe' \in [Porters -> Seq(Fds)] /\ qlist' \in [Porters -> Seq(Fds)]
    <3>1. pipe[p] \in Seq(Fds) /\ qlist[p] \in Seq(Fds) /\ pipe[p] # <<>>
        BY <1>5, <1>t DEF FetchPipe
    <3>2. Tail(pipe[p]) \in Seq(Fds) /\ Append(qlist[p], Head(pipe[p])) \in Seq(Fds)
        BY <2>1, <3>1
    <3> QED BY <1>5, <1>t, <3>2 DEF FetchPipe
  <2>3. CASE work_status[Head(pipe[p])] = "no"
    BY <1>4, <1>5, <1>t, <2>1, <2>2, <2>3 DEF FetchPipe
  <2>4. CASE work_status[Head(pipe[p])] # "no"
    BY <1>5, <1>t, <2>2, <2>4 DEF FetchPipe
  <2> QED BY <2>3, <2>4
<1>6. ASSUME NEW p \in Porters, FetchLink(p) PROVE TypeOK'
  <2>1. Head(qlist[p]) \in Fds /\ sock[Head(qlist[p])] \in Conns
    BY <1>6, <1>t, OnWay DEF FetchLink
  <2>2. qlist' \in [Porters -> Seq(Fds)]
    <3>1. qlist[p] \in Seq(Fds) /\ qlist[p] # <<>>
        BY <1>6, <1>t DEF FetchLink
    <3>2. Tail(qlist[p]) \in Seq(Fds)
        BY <3>1
    <3>3. Append(Tail(qlist[p]), Head(qlist[p])) \in Seq(Fds)
        BY <2>1, <3>2
    <3> QED BY <1>6, <1>t, <3>2, <3>3 DEF FetchLink
  <2> QED BY <1>4, <1>6, <1>t, <2>1, <2>2 DEF FetchLink
<1>7. ASSUME NEW p \in Porters, Ends(p) PROVE TypeOK'
  <2>1. fd[p] \in Fds
    BY <1>7, Ending DEF Ends, Close, Stop, Del, Free
  <2>2. CASE Close(p)
    BY <2>1, <2>2, <1>t DEF Close, Go, Emptied
  <2>3. CASE Stop(p)
    BY <2>1, <2>3, <1>t DEF Stop, Go
  <2>4. CASE Del(p)
    BY <2>1, <2>4, <1>t DEF Del, Go
  <2>5. CASE Free(p)
    <3>1. CASE work_status[fd[p]] = "is"
      <4>1. /\ work_status' = [work_status EXCEPT ![fd[p]] = "no"]
            /\ pc' = [pc EXCEPT ![p] = "loop"]
        BY <2>5, <3>1 DEF Free, Go
      <4> HIDE DEF TypeOK
      <4>a. /\ work_status \in [Fds -> {"no", "is"}]
            /\ pc \in [Porters -> {"loop", "hit", "close", "stop", "del", "free", "abort"}]
        BY <1>t DEF TypeOK
      <4>2. /\ work_status' \in [Fds -> {"no", "is"}]
            /\ pc' \in [Porters -> {"loop", "hit", "close", "stop", "del", "free", "abort"}]
        BY <4>1, <4>a
      <4> QED BY <2>5, <1>t, <4>2 DEF Free, TypeOK
    <3>2. CASE work_status[fd[p]] # "is"
        BY <2>1, <2>5, <1>t, <3>2 DEF Free, Go
    <3> QED BY <3>1, <3>2
  <2> QED BY <1>7, <2>2, <2>3, <2>4, <2>5 DEF Ends
<1>8. ASSUME NEW p \in Porters, NEW f \in Fds, Serves(p, f) PROVE TypeOK'
  <2>1. sock[f] \in Conns /\ data[f] \in Porters
    BY <1>8, Serving
  <2>2. CASE RecvPart(p, f)
    BY <2>1, <2>2, <1>t DEF RecvPart, Emptied
  <2>3. CASE RecvRequest(p, f)
    <3>1. Answer(data[f], f, recv[f] \cup {sock[f]}) /\ recv[f] \cup {sock[f]} \in SUBSET Conns
        BY <1>t, <2>1, <2>3 DEF RecvRequest
    <3>2. /\ inbox' = [inbox EXCEPT ![sock[f]] = "empty"]
          /\ dosize' = [dosize EXCEPT ![f] = {}] /\ crossed' = (crossed \/ data[f] # p)
        BY <2>3 DEF RecvRequest, Emptied, Crosses
    <3>3. /\ inbox' \in [Conns -> Input \cup {"empty", "eof"}]
          /\ dosize' \in [Fds -> SUBSET Conns] /\ crossed' \in BOOLEAN
        BY <1>t, <2>1, <3>2
    <3> QED BY <1>a, <1>t, <2>1, <2>3, <3>1, <3>3 DEF RecvRequest
  <2>4. CASE RecvWhole(p, f)
    BY <2>1, <2>4, <1>t DEF RecvWhole, Emptied, Crosses, Go
  <2>5. CASE RecvNone(p, f)
    BY <2>1, <2>5, <1>t DEF RecvNone, Emptied, Crosses
  <2>6. CASE RecvBad(p, f)
    BY <2>1, <2>6, <1>t DEF RecvBad, Emptied, Watch
  <2>7. CASE RecvEnd(p, f)
    BY <2>1, <2>7, <1>t DEF RecvEnd, Go
  <2>8. CASE SendKeep(p, f)
    BY <2>1, <2>8, <1>t DEF SendKeep, Watch
  <2>9. CASE SendLast(p, f)
    BY <2>1, <2>9, <1>t DEF SendLast, Go
  <2> QED BY <1>8, <2>2, <2>3, <2>4, <2>5, <2>6, <2>7, <2>8, <2>9 DEF Serves
<1>9. ASSUME NEW p \in Porters, Works(p) PROVE TypeOK'
  <2>1. ASSUME Hits(p)
        PROVE  /\ pc' \in [Porters -> {"loop", "hit", "close", "stop", "del", "free", "abort"}]
               /\ fd' \in [Porters -> Fds \cup {None}] /\ idx' \in [Porters -> Porters]
    <3>1. idx[p] < P => idx[p] + 1 \in Porters
      <4>1. idx[p] \in 1 .. P
        BY <1>t DEF Porters
      <4> HIDE DEF TypeOK
      <4> QED BY <4>1, Constants DEF Porters
    <3>2. 1 \in Porters
        BY Constants DEF Porters
    <3>3. /\ pc \in [Porters -> {"loop", "hit", "close", "stop", "del", "free", "abort"}]
          /\ fd \in [Porters -> Fds \cup {None}] /\ idx \in [Porters -> Porters]
        BY <1>t
    <3> HIDE DEF TypeOK
    <3> QED BY <2>1, <3>1, <3>2, <3>3 DEF Hits, Go
  <2>2. CASE Hit(p)
    <3>1. /\ fd[p] \in Fds /\ idx[p] \in Porters /\ tlist[idx[p]] \in Seq(Fds)
        BY <2>2, Hitting DEF Hit, Hits
    <3>2. Append(tlist[idx[p]], fd[p]) \in Seq(Fds)
        BY <3>1
    <3>3. tlist' \in [Porters -> Seq(Fds)]
        BY <1>t, <2>2, <3>2 DEF Hit
    <3> QED BY <1>t, <2>1, <2>2, <3>3 DEF Hit
  <2>3. CASE HitFails(p)
    <3>1. sock[fd[p]] \in Conns
        BY <2>3, Hitting DEF HitFails, Hits
    <3> QED BY <1>t, <2>1, <2>3, <3>1 DEF HitFails
  <2>4. CASE RunWhole(p)
    <3> DEFINE f == Head(tlist[p])
    <3>1. f \in Fds /\ tlist[p] \in Seq(Fds) /\ tlist[p] # <<>>
        BY <2>4, Running DEF RunWhole
    <3>2. Tail(tlist[p]) \in Seq(Fds)
        BY <3>1
    <3>3. tlist' \in [Porters -> Seq(Fds)] /\ left' \in [Fds -> SUBSET Porters]
        BY <1>t, <2>4, <3>1, <3>2 DEF RunWhole
    <3>4. recv[f] \in SUBSET Conns
        BY <1>t, <3>1
    <3>5. /\ recv' \in [Fds -> SUBSET Conns] /\ send' \in [Fds -> SUBSET Conns]
          /\ control' \in [Fds -> {"ok", "error"}]
          /\ watch' \in [Fds -> [porter : Porters, cb : {"recv", "send"}]
                               \cup {Stopped}]
      <4>1. Answer(p, f, recv[f]) \/ UNCHANGED <<recv, send, control, watch>>
        BY <2>4 DEF RunWhole
      <4> HIDE DEF f
      <4> QED BY <1>a, <1>t, <3>1, <3>4, <4>1
    <3> QED BY <1>t, <2>4, <3>3, <3>5 DEF RunWhole
  <2> QED BY <1>9, <2>2, <2>3, <2>4 DEF Works
<1>10. CASE UNCHANGED vars
    BY <1>10, <1>t DEF vars
<1> QED BY <1>1, <1>2, <1>3, <1>5, <1>6, <1>7, <1>8, <1>9, <1>10 DEF Next, Done

-----------------------------------------------------------------------------
\* A step of one porter on one descriptor leaves the others as they are.
LEMMA OwnLocal ==
    ASSUME Inv, TypeOK', NEW p \in Porters, NEW f \in Fds,
           \A g \in Fds \ {f} :
               /\ work_status'[g] = work_status[g] /\ watch'[g] = watch[g]
               /\ left'[g] = left[g] /\ data'[g] = data[g]
               /\ sock[g] \in stranded => sock'[g] \in stranded',
           \A q \in Porters \ {p} : pc'[q] = pc[q] /\ fd'[q] = fd[q],
           fd[p] \in {f, None}, fd'[p] \in {f, None},
           \A q \in Porters : q = p \/ fd[q] = f => PorterOK(q)',
           FdOK(f)'
    PROVE  OwnInv'
<1>t. TypeOK /\ OwnInv
    BY DEF Inv
<1>1. ASSUME NEW q \in Porters PROVE PorterOK(q)'
  <2>1. CASE q = p \/ fd[q] = f
    BY <2>1
  <2>2. CASE q # p /\ fd[q] # f
    <3>1. pc'[q] = pc[q] /\ fd'[q] = fd[q] /\ PorterOK(q)
        BY <1>t, <2>2 DEF OwnInv
    <3>2. fd[q] # None => watch'[fd[q]] = watch[fd[q]]
        BY <1>t, <2>2 DEF TypeOK
    <3>3. pc[q] \in {"close", "stop", "hit", "del", "free"} => fd[q] # None
        BY <3>1 DEF PorterOK
    <3> QED BY <3>1, <3>2, <3>3 DEF PorterOK
  <2> QED BY <2>1, <2>2
<1>2. ASSUME NEW g \in Fds \ {f} PROVE FdOK(g)'
  <2>1. FdOK(g)
    BY <1>t DEF OwnInv
  <2>2. \A q \in Porters : Owns(q, g)' <=> Owns(q, g)
    BY Constants, <1>2 DEF Owns
  <2> QED BY <2>1, <2>2, <1>2 DEF FdOK
<1> QED BY <1>1, <1>2 DEF OwnInv

\* Only a porter that owns nothing else takes over what nobody owns; it gives
\* up ownership with its last step, or to the lists of all porters, and the one
\* that runs a request last has it then.
LEMMA OwnStep == Inv /\ [Next]_vars => OwnInv'
<1> SUFFICES ASSUME Inv, [Next]_vars PROVE OwnInv'
    OBVIOUS
<1>t. TypeOK /\ OneWay /\ OwnInv /\ TypeOK'
    BY TypeStep DEF Inv
<1>f. ASSUME NEW f \in Fds PROVE FdOK(f) /\ work_status[f] \in {"no", "is"}
    BY <1>t DEF OwnInv, TypeOK
<1>p. ASSUME NEW p \in Porters PROVE PorterOK(p)
    BY <1>t DEF OwnInv
<1> USE Constants DEF tasks, loops, ends, slot
<1>0. ASSUME UNCHANGED <<work_status, data, watch, left, pc, fd>>,
             \A f \in Fds : sock[f] \in stranded => sock'[f] \in stranded'
      PROVE  OwnInv'
    BY <1>0, <1>t DEF OwnInv, PorterOK, FdOK, Owns
<1>1. ASSUME NEW n \in Conns, PeerSends(n) PROVE OwnInv'
    BY <1>0, <1>1 DEF PeerSends
<1>2. CASE Accept
  <2>1. \A f \in Fds : sock[f] \in stranded => sock'[f] = sock[f]
    BY <1>2, <1>t DEF Accept, TypeOK
  <2> QED BY <1>0, <1>2, <2>1 DEF Accept
<1>3. CASE Dispatch
    BY <1>0, <1>3 DEF Dispatch, kernel
<1>4. ASSUME NEW p \in Porters, NEW f \in Fds, pc[p] = "loop",
             work_status[f] = "no", TakeOver(p, f),
             UNCHANGED <<sock, left, loops, ends>>
      PROVE  OwnInv'
  <2>1. /\ work_status' = [work_status EXCEPT ![f] = "is"]
        /\ data' = [data EXCEPT ![f] = p]
        /\ watch' = [watch EXCEPT ![f] = [porter |-> p, cb |-> "recv"]]
    BY <1>4 DEF TakeOver
  <2>a. /\ work_status'[f] = "is" /\ data'[f] = p
        /\ watch'[f] = [porter |-> p, cb |-> "recv"]
    BY <2>1, <1>t, Domains
  <2>2. ASSUME NEW q \in Porters, fd[q] = f PROVE FALSE
    <3>1. pc[q] = "hit"
        BY <1>4, <1>f, <2>2 DEF FdOK, Owns
    <3>2. left[f] # {}
        BY <2>2, <3>1, Hitting
    <3> QED BY <1>4, <1>f, <3>2 DEF FdOK
  <2>3. left[f] = {} /\ fd[p] = None
    BY <1>4, <1>f, <1>p DEF FdOK, PorterOK
  <2>4. FdOK(f)'
    BY <1>4, <2>a, <2>2, <2>3 DEF FdOK, Owns
  <2>5. PorterOK(p)'
    BY <1>4, <2>3, <1>p DEF PorterOK
  <2>6. \A g \in Fds \ {f} : /\ work_status'[g] = work_status[g]
                             /\ watch'[g] = watch[g] /\ data'[g] = data[g]
    BY <1>t, <2>1, Domains
  <2> QED BY <1>4, <1>t, <2>2, <2>3, <2>4, <2>5, <2>6, OwnLocal
<1>5. ASSUME NEW p \in Porters, FetchPipe(p) PROVE OwnInv'
  <2>1. Head(pipe[p]) \in Fds
    BY <1>5, <1>t, OnWay DEF FetchPipe
  <2> QED BY <1>0, <1>4, <1>5, <2>1 DEF FetchPipe, kernel
<1>6. ASSUME NEW p \in Porters, FetchLink(p) PROVE OwnInv'
  <2>1. Head(qlist[p]) \in Fds
    BY <1>6, <1>t, OnWay DEF FetchLink
  <2> QED BY <1>0, <1>4, <1>6, <2>1 DEF FetchLink, kernel
<1>7. ASSUME NEW p \in Porters, Ends(p) PROVE OwnInv'
  <2>0. fd[p] \in Fds /\ left[fd[p]] = {}
    BY <1>7, Ending DEF Ends, Close, Stop, Del, Free
  <2>1. PICK f \in Fds : f = fd[p] /\ left[f] = {}
    BY <2>0
  <2>a. Owns(p, f)
    BY <1>7, <2>1 DEF Ends, Close, Stop, Del, Free, Owns
  <2>2. Owns(p, f) /\ work_status[f] = "is"
    BY <1>f, <2>a DEF FdOK
  <2>3. \A q \in Porters : fd[q] = f => q = p
    BY <1>f, <1>p, <2>1, <2>2, Hitting DEF FdOK, Owns
  <2>4. UNCHANGED <<data, left, stranded>>
    BY <1>7 DEF Ends, Close, Stop, Del, Free
  <2>5. CASE Close(p)
    <3>1. /\ pc[p] = "close" /\ pc'[p] = "stop" /\ UNCHANGED <<work_status, watch, fd>>
          /\ \A q \in Porters \ {p} : pc'[q] = pc[q]
          /\ \A g \in Fds \ {f} : sock'[g] = sock[g]
        BY <2>1, <2>5, <1>t, Domains DEF Close, Go
    <3>2. PorterOK(p)' /\ FdOK(f)'
        BY <1>f, <1>p, <2>1, <2>2, <2>3, <2>4, <3>1 DEF PorterOK, FdOK, Owns
    <3> QED BY <1>t, <2>1, <2>3, <2>4, <3>1, <3>2, OwnLocal
  <2>6. CASE Stop(p)
    <3>1. /\ pc[p] = "stop" /\ pc'[p] = "del" /\ UNCHANGED <<sock, work_status, fd>>
          /\ watch'[f] = Stopped
          /\ \A q \in Porters \ {p} : pc'[q] = pc[q]
          /\ \A g \in Fds \ {f} : watch'[g] = watch[g]
        BY <2>1, <2>6, <1>t DEF Stop, Go, TypeOK, kernel
    <3>2. PorterOK(p)' /\ FdOK(f)'
        BY <1>f, <1>p, <2>1, <2>2, <2>3, <2>4, <3>1 DEF PorterOK, FdOK, Owns, Stopped
    <3> QED BY <1>t, <2>1, <2>3, <2>4, <3>1, <3>2, OwnLocal
  <2>7. CASE Del(p)
    <3>1. /\ pc[p] = "del" /\ pc'[p] = "free" /\ UNCHANGED <<sock, work_status, watch, fd>>
          /\ \A q \in Porters \ {p} : pc'[q] = pc[q]
        BY <2>1, <2>7, <1>t DEF Del, Go, TypeOK, kernel
    <3>2. PorterOK(p)' /\ FdOK(f)'
        BY <1>f, <1>p, <2>1, <2>2, <2>3, <2>4, <3>1 DEF PorterOK, FdOK, Owns
    <3> QED BY <1>t, <2>1, <2>3, <2>4, <3>1, <3>2, OwnLocal
  <2>8. CASE Free(p)
    <3>1. /\ pc[p] = "free" /\ pc'[p] = "loop" /\ UNCHANGED <<sock, watch>>
          /\ work_status'[f] = "no" /\ fd'[p] = None
          /\ \A q \in Porters \ {p} : pc'[q] = pc[q] /\ fd'[q] = fd[q]
          /\ \A g \in Fds \ {f} : work_status'[g] = work_status[g]
      <4>1. /\ pc[p] = "free" /\ UNCHANGED <<sock, watch>>
            /\ pc' = [pc EXCEPT ![p] = "loop"] /\ fd' = [fd EXCEPT ![p] = None]
            /\ work_status' = [work_status EXCEPT ![f] = "no"]
        BY <2>1, <2>2, <2>8 DEF Free, Go, kernel
      <4> QED BY <1>t, <4>1 DEF TypeOK
    <3>2. watch[f] = Stopped
        BY <1>p, <2>1, <3>1 DEF PorterOK
    <3>3. \A q \in Porters : ~Owns(q, f)'
        BY <2>1, <2>3, <3>1, <3>2 DEF Owns, Stopped
    <3>4. PorterOK(p)' /\ FdOK(f)'
        BY <2>1, <2>4, <3>1, <3>2, <3>3 DEF PorterOK, FdOK
    <3> QED BY <1>t, <2>1, <2>3, <2>4, <3>1, <3>4, OwnLocal
  <2> QED BY <1>7, <2>5, <2>6, <2>7, <2>8 DEF Ends
<1>8. ASSUME NEW p \in Porters, NEW f \in Fds, Serves(p, f) PROVE OwnInv'
  <2>1. /\ pc[p] = "loop" /\ fd[p] = None /\ watch[f].porter = p
        /\ left[f] = {} /\ data[f] \in Porters
        /\ \A q \in Porters : fd[q] # f
    BY <1>8, Serving
  <2>a. Owns(p, f)
    BY <2>1 DEF Owns
  <2>s. work_status[f] = "is" /\ \A q \in Porters : Owns(q, f) <=> q = p
    BY <1>f, <2>a DEF FdOK
  <2>2. CASE RecvPart(p, f)
    BY <1>0, <2>2 DEF RecvPart
  <2>3. ASSUME NEW q \in Porters, NEW cb \in {"recv", "send"}, Watch(q, f, cb),
               UNCHANGED <<sock, work_status, data, left, pc, fd, stranded>>
        PROVE  OwnInv'
    <3>1. /\ watch'[f] = [porter |-> q, cb |-> cb]
          /\ \A g \in Fds \ {f} : watch'[g] = watch[g]
        BY <1>t, <2>3, Domains DEF Watch
    <3>2. PorterOK(p)' /\ FdOK(f)'
        BY <1>p, <2>1, <2>s, <2>3, <3>1 DEF PorterOK, FdOK, Owns
    <3> QED BY <1>t, <2>1, <2>3, <3>1, <3>2, OwnLocal
  <2>4. CASE RecvRequest(p, f) \/ RecvBad(p, f) \/ SendKeep(p, f)
    BY <2>1, <2>3, <2>4 DEF RecvRequest, RecvBad, SendKeep, Answer, kernel
  <2>5. ASSUME fd' = [fd EXCEPT ![p] = f], Go(p, "close"),
               UNCHANGED <<sock, work_status, data, watch, left, stranded>>
        PROVE  OwnInv'
    <3>1. /\ fd'[p] = f /\ pc'[p] = "close"
          /\ \A q \in Porters \ {p} : pc'[q] = pc[q] /\ fd'[q] = fd[q]
        BY <1>t, <2>5, Domains DEF Go
    <3>2. PorterOK(p)' /\ FdOK(f)'
        BY <1>p, <2>1, <2>s, <2>5, <3>1 DEF PorterOK, FdOK, Owns
    <3> QED BY <1>t, <2>1, <2>5, <3>1, <3>2, OwnLocal
  <2>6. CASE RecvEnd(p, f) \/ SendLast(p, f)
    BY <2>5, <2>6 DEF RecvEnd, SendLast, kernel
  <2>7. CASE RecvNone(p, f)
    <3>1. /\ watch'[f] = Stopped /\ \A g \in Fds \ {f} : watch'[g] = watch[g]
          /\ stranded' = stranded \cup {sock[f]}
          /\ UNCHANGED <<sock, work_status, data, left, pc, fd>>
        BY <1>t, <2>7, Domains DEF RecvNone
    <3>2. PorterOK(p)' /\ FdOK(f)'
        BY <1>p, <2>1, <2>s, <3>1 DEF PorterOK, FdOK, Owns, Stopped
    <3> QED BY <1>t, <2>1, <3>1, <3>2, OwnLocal
  <2>8. CASE RecvWhole(p, f)
    <3>1. /\ watch'[f] = Stopped /\ left'[f] = Porters /\ pc'[p] = "hit" /\ fd'[p] = f
          /\ \A g \in Fds \ {f} : watch'[g] = watch[g] /\ left'[g] = left[g]
          /\ \A q \in Porters \ {p} : pc'[q] = pc[q] /\ fd'[q] = fd[q]
          /\ UNCHANGED <<sock, work_status, data, stranded>>
        BY <1>t, <2>8, Domains DEF RecvWhole, Go
    <3>2. PorterOK(p)' /\ FdOK(f)'
        BY <1>p, <2>1, <2>s, <3>1 DEF PorterOK, FdOK, Owns, Stopped
    <3> QED BY <1>t, <2>1, <3>1, <3>2, OwnLocal
  <2> QED BY <1>8, <2>2, <2>4, <2>6, <2>7, <2>8 DEF Serves
<1>9. ASSUME NEW p \in Porters, Works(p) PROVE OwnInv'
  <2>1. ASSUME Hits(p), UNCHANGED <<sock, work_status, data, watch, left>>,
               stranded \subseteq stranded'
        PROVE  OwnInv'
    <3>1. \/ UNCHANGED <<pc, fd>>
          \/ pc' = [pc EXCEPT ![p] = "loop"] /\ fd' = [fd EXCEPT ![p] = None]
        BY <2>1 DEF Hits, Go
    <3>2. CASE UNCHANGED <<pc, fd>>
        BY <1>0, <2>1, <3>2
    <3>3. CASE pc' = [pc EXCEPT ![p] = "loop"] /\ fd' = [fd EXCEPT ![p] = None]
      <4>0. pc[p] = "hit" /\ fd[p] \in Fds
        BY <2>1, Hitting DEF Hits
      <4>1. PICK f \in Fds : f = fd[p] /\ pc[p] = "hit"
        BY <4>0
      <4>2. /\ pc'[p] = "loop" /\ fd'[p] = None
            /\ \A q \in Porters \ {p} : pc'[q] = pc[q] /\ fd'[q] = fd[q]
        BY <1>t, <3>3, Domains
      <4>3. ASSUME NEW q \in Porters \ {p}, fd[q] = f PROVE PorterOK(q)'
        BY <1>p, <2>1, <4>2, <4>3 DEF PorterOK
      <4>4. PorterOK(p)'
        BY <4>1, <4>2 DEF PorterOK
      <4>5. \A q \in Porters : Owns(q, f)' <=> Owns(q, f)
        BY <2>1, <4>1, <4>2 DEF Owns
      <4>6. FdOK(f)'
        BY <1>f, <2>1, <4>1, <4>5 DEF FdOK
      <4>7. \A q \in Porters : q = p \/ fd[q] = f => PorterOK(q)'
        BY <4>3, <4>4
      <4> QED BY <1>t, <2>1, <4>1, <4>2, <4>6, <4>7, OwnLocal
    <3> QED BY <3>1, <3>2, <3>3
  <2>2. CASE Hit(p) \/ HitFails(p)
    BY <2>1, <2>2 DEF Hit, HitFails, kernel
  <2>3. CASE RunWhole(p)
    <3>1. PICK f \in Fds :
              /\ f = Head(tlist[p])
              /\ p \in left[f] /\ watch[f] = Stopped /\ pc[p] = "loop"
              /\ left[f] = {p} => \A q \in Porters : fd[q] # f
        BY <2>3, Running DEF RunWhole
    <3>2. /\ left' = [left EXCEPT ![f] = @ \ {p}]
          /\ UNCHANGED <<sock, work_status, data, pc, fd, stranded>>
          /\ IF left[f] = {p}
             THEN watch' = [watch EXCEPT ![f] = [porter |-> p, cb |-> "send"]]
             ELSE watch' = watch
        BY <2>3, <3>1 DEF RunWhole, Answer, Watch, kernel
    <3>3. /\ left'[f] = left[f] \ {p} /\ fd[p] = None
          /\ \A g \in Fds \ {f} : left'[g] = left[g] /\ watch'[g] = watch[g]
      <4>1. fd[p] = None
        BY <1>p, <3>1 DEF PorterOK
      <4>2. left'[f] = left[f] \ {p} /\ \A g \in Fds \ {f} : left'[g] = left[g]
        BY <1>t, <3>2, Domains
      <4>3. CASE left[f] = {p}
        BY <1>t, <3>2, <4>1, <4>2, <4>3, Domains
      <4>4. CASE left[f] # {p}
        BY <3>2, <4>1, <4>2, <4>4
      <4> QED BY <4>3, <4>4
    <3>4. work_status[f] = "is" /\ data[f] \in Porters /\ \A q \in Porters : ~Owns(q, f)
        BY <1>f, <3>1 DEF FdOK
    <3>5. \A q \in Porters : fd[q] = f => pc[q] = "hit"
        BY <3>4 DEF Owns
    <3>6. CASE left[f] = {p}
      <4>1. watch'[f] = [porter |-> p, cb |-> "send"] /\ left'[f] = {}
        BY <1>t, <3>1, <3>2, <3>3, <3>6, Domains
      <4>2. FdOK(f)' /\ PorterOK(p)'
        BY <1>p, <3>1, <3>2, <3>3, <3>4, <3>6, <4>1 DEF FdOK, Owns, PorterOK
      <4> QED BY <1>t, <3>1, <3>2, <3>3, <3>6, <4>2, OwnLocal
    <3>7. CASE left[f] # {p}
      <4>1. watch' = watch /\ left'[f] # {}
        BY <3>1, <3>2, <3>3, <3>7
      <4>2. \A q \in Porters : Owns(q, f)' <=> Owns(q, f)
        BY <3>2, <4>1 DEF Owns
      <4>3. FdOK(f)'
        BY <3>2, <3>4, <4>1, <4>2 DEF FdOK
      <4>4. \A q \in Porters : PorterOK(q)'
        BY <1>p, <3>2, <4>1 DEF PorterOK
      <4> QED BY <1>t, <3>1, <3>2, <3>3, <4>3, <4>4, OwnLocal
    <3> QED BY <3>6, <3>7
  <2> QED BY <1>9, <2>2, <2>3 DEF Works
<1>10. CASE UNCHANGED vars
    BY <1>0, <1>10 DEF vars, kernel
<1> QED BY <1>1, <1>2, <1>3, <1>5, <1>6, <1>7, <1>8, <1>9, <1>10 DEF Next, Done

-----------------------------------------------------------------------------
\* What is left of a sequence of descriptors without its first.
LEMMA TailOf ==
    ASSUME NEW q \in Seq(Fds), q # <<>>
    PROVE  /\ Tail(q) \in Seq(Fds) /\ Len(Tail(q)) = Len(q) - 1
           /\ \A i \in 1 .. Len(Tail(q)) : Tail(q)[i] = q[i + 1] /\ i + 1 \in 1 .. Len(q)
           /\ 1 \in 1 .. Len(q) /\ Head(q) = q[1] /\ Len(q) \in Nat
OBVIOUS

\* What a sequence of descriptors is with one more.
LEMMA AppendOf ==
    ASSUME NEW q \in Seq(Fds), NEW f \in Fds
    PROVE  /\ Append(q, f) \in Seq(Fds) /\ Len(Append(q, f)) = Len(q) + 1
           /\ \A i \in 1 .. Len(q) : Append(q, f)[i] = q[i]
           /\ Append(q, f)[Len(q) + 1] = f /\ Len(q) \in Nat
OBVIOUS

\* The porters run a request for all of them once each.
LEMMA TaskStep == Inv /\ [Next]_vars => TaskInv'
<1> SUFFICES ASSUME Inv, [Next]_vars PROVE TaskInv'
    OBVIOUS
<1>t. TypeOK /\ OneWay /\ OwnInv /\ TaskInv /\ TypeOK'
    BY TypeStep DEF Inv
<1>l. ASSUME NEW p \in Porters PROVE ListOK(p) /\ HitOK(p)
    BY <1>t DEF TaskInv
<1> USE Constants DEF tasks, loops, ends
<1>0. ASSUME UNCHANGED <<tlist, left, pc, fd, idx>> PROVE TaskInv'
    BY <1>0, <1>t DEF TaskInv, ListOK, HitOK
<1>h. ASSUME NEW p \in Porters, UNCHANGED <<tlist, left, idx>>,
             \A q \in Porters \ {p} : pc'[q] = pc[q] /\ fd'[q] = fd[q],
             pc[p] # "hit" /\ pc'[p] # "hit"
      PROVE  TaskInv'
    BY <1>h, <1>t DEF TaskInv, ListOK, HitOK
<1>1. ASSUME NEW n \in Conns, PeerSends(n) PROVE TaskInv'
    BY <1>0, <1>1 DEF PeerSends
<1>2. CASE Accept \/ Dispatch
    BY <1>0, <1>2 DEF Accept, Dispatch
<1>3. ASSUME NEW p \in Porters, FetchPipe(p) \/ FetchLink(p) PROVE TaskInv'
    BY <1>0, <1>3 DEF FetchPipe, FetchLink
<1>4. ASSUME NEW p \in Porters, Ends(p) PROVE TaskInv'
  <2>1. /\ UNCHANGED <<tlist, left, idx>> /\ pc[p] \in {"close", "stop", "del", "free"}
        /\ fd' = fd \/ fd' = [fd EXCEPT ![p] = None]
        /\ \E to \in {"stop", "del", "free", "loop", "abort"} : pc' = [pc EXCEPT ![p] = to]
    BY <1>4 DEF Ends, Close, Stop, Del, Free, Go
  <2>a. \A q \in Porters \ {p} : pc'[q] = pc[q]
    BY <1>t, <2>1, Domains
  <2>b. \A q \in Porters \ {p} : fd'[q] = fd[q]
    <3>1. CASE fd' = fd
        BY <3>1
    <3>2. CASE fd' = [fd EXCEPT ![p] = None]
        BY <1>t, <3>2, Domains
    <3> QED BY <2>1, <3>1, <3>2
  <2>2. \A q \in Porters \ {p} : pc'[q] = pc[q] /\ fd'[q] = fd[q]
    BY <2>a, <2>b
  <2>3. pc[p] # "hit" /\ pc'[p] # "hit"
    BY <1>t, <2>1, Domains
  <2> QED BY <1>h, <2>1, <2>2, <2>3
<1>5. ASSUME NEW p \in Porters, NEW f \in Fds, Serves(p, f) PROVE TaskInv'
  <2>1. pc[p] = "loop" /\ left[f] = {} /\ \A q \in Porters : fd[q] # f
    BY <1>5, Serving
  <2>2. CASE RecvPart(p, f) \/ RecvRequest(p, f) \/ RecvNone(p, f) \/ RecvBad(p, f)
                \/ SendKeep(p, f)
    BY <1>0, <2>2 DEF RecvPart, RecvRequest, RecvNone, RecvBad, SendKeep
  <2>3. CASE RecvEnd(p, f) \/ SendLast(p, f)
    <3>1. /\ fd' = [fd EXCEPT ![p] = f] /\ pc' = [pc EXCEPT ![p] = "close"]
          /\ UNCHANGED <<tlist, left, idx>>
        BY <2>3 DEF RecvEnd, SendLast, Go
    <3>2. \A q \in Porters \ {p} : pc'[q] = pc[q] /\ fd'[q] = fd[q]
        BY <1>t, <3>1, Domains
    <3>3. pc[p] # "hit" /\ pc'[p] # "hit"
        BY <1>t, <2>1, <3>1, Domains
    <3> QED BY <1>h, <3>1, <3>2, <3>3
  <2>4. CASE RecvWhole(p, f)
    <3>1. /\ UNCHANGED <<tlist, idx>>
          /\ pc'[p] = "hit" /\ fd'[p] = f /\ left'[f] = Porters
          /\ \A q \in Porters \ {p} : pc'[q] = pc[q] /\ fd'[q] = fd[q]
          /\ \A g \in Fds \ {f} : left'[g] = left[g]
        BY <1>t, <2>4, Domains DEF RecvWhole, Go
    <3>2. ASSUME NEW q \in Porters, NEW i \in 1 .. Len(tlist[q])
          PROVE  tlist[q][i] \in Fds /\ tlist[q][i] # f
      <4>1. tlist[q] \in Seq(Fds)
        BY <1>t DEF TypeOK
      <4> QED BY <1>l, <2>1, <4>1 DEF ListOK
    <3>3. ASSUME NEW q \in Porters PROVE ListOK(q)'
        BY <1>l, <3>1, <3>2 DEF ListOK
    <3>4. HitOK(p)'
        BY <1>l, <2>1, <3>1, <3>2 DEF HitOK
    <3>5. ASSUME NEW q \in Porters \ {p} PROVE HitOK(q)'
      <4>1. fd[q] # f /\ pc'[q] = pc[q] /\ fd'[q] = fd[q] /\ HitOK(q)
        BY <1>l, <2>1, <3>1
      <4>2. pc[q] = "hit" => fd[q] \in Fds \ {f}
        BY <4>1, Hitting
      <4> QED BY <3>1, <4>1, <4>2 DEF HitOK
    <3> QED BY <3>3, <3>4, <3>5 DEF TaskInv
  <2> QED BY <1>5, <2>2, <2>3, <2>4 DEF Serves
<1>6. ASSUME NEW p \in Porters, Hits(p), UNCHANGED left,
             \/ UNCHANGED tlist
             \/ tlist' = [tlist EXCEPT ![idx[p]] = Append(@, fd[p])]
      PROVE  TaskInv'
  <2>0. pc[p] = "hit"
    BY <1>6 DEF Hits
  <2>1. PICK f \in Fds, k \in Porters :
            /\ f = fd[p] /\ k = idx[p] /\ k \in left[f] /\ tlist[k] \in Seq(Fds)
    BY <2>0, Hitting
  <2>2. /\ \A q \in Porters \ {p} : pc'[q] = pc[q] /\ fd'[q] = fd[q] /\ idx'[q] = idx[q]
        /\ \/ pc'[p] = "hit" /\ fd'[p] = f /\ idx'[p] = k + 1
           \/ pc'[p] = "loop" /\ idx'[p] = 1
    <3>1. CASE idx' = [idx EXCEPT ![p] = @ + 1] /\ UNCHANGED <<pc, fd>>
        BY <1>t, <2>0, <2>1, <3>1, Domains
    <3>2. CASE /\ pc' = [pc EXCEPT ![p] = "loop"] /\ fd' = [fd EXCEPT ![p] = None]
               /\ idx' = [idx EXCEPT ![p] = 1]
        BY <1>t, <3>2, Domains
    <3> QED BY <1>6, <3>1, <3>2 DEF Hits, Go
  <2>3. /\ \A i \in 1 .. Len(tlist[k]) : tlist[k][i] # f
        /\ \A q \in Porters : pc[q] = "hit" /\ fd[q] = f => q = p
    <3>1. k >= idx[p]
        BY <2>1 DEF Porters
    <3> QED BY <1>l, <2>0, <2>1, <3>1 DEF HitOK
  <2>4. ASSUME NEW q \in Porters
        PROVE  \/ tlist'[q] = tlist[q]
               \/ q = k /\ tlist'[q] = Append(tlist[q], f)
    <3>1. CASE UNCHANGED tlist
        BY <3>1
    <3>2. CASE tlist' = [tlist EXCEPT ![k] = Append(@, f)]
        BY <1>t, <3>2, Domains
    <3> QED BY <1>6, <2>1, <3>1, <3>2
  <2>5. ASSUME NEW q \in Porters PROVE ListOK(q)'
    <3>1. CASE tlist'[q] = tlist[q]
        BY <1>6, <1>l, <3>1 DEF ListOK
    <3>2. CASE q = k /\ tlist'[q] = Append(tlist[q], f)
      <4>1. /\ Len(tlist'[k]) = Len(tlist[k]) + 1 /\ Len(tlist[k]) \in Nat
            /\ \A i \in 1 .. Len(tlist[k]) : tlist'[k][i] = tlist[k][i]
            /\ tlist'[k][Len(tlist[k]) + 1] = f
        BY <2>1, <3>2, AppendOf
      <4>2. ASSUME NEW i \in 1 .. Len(tlist'[k]) PROVE k \in left'[tlist'[k][i]]
        <5>1. CASE i \in 1 .. Len(tlist[k])
            BY <1>6, <1>l, <4>1, <5>1 DEF ListOK
        <5>2. CASE i = Len(tlist[k]) + 1
            BY <1>6, <2>1, <4>1, <5>2
        <5> QED BY <4>1, <5>1, <5>2
      <4>3. ASSUME NEW i \in 1 .. Len(tlist'[k]), NEW j \in 1 .. Len(tlist'[k]),
                   tlist'[k][i] = tlist'[k][j]
            PROVE  i = j
        <5>1. CASE i \in 1 .. Len(tlist[k]) /\ j \in 1 .. Len(tlist[k])
            BY <1>l, <4>1, <4>3, <5>1 DEF ListOK
        <5>2. ASSUME NEW x \in 1 .. Len(tlist[k]), tlist'[k][x] = f PROVE FALSE
            BY <2>3, <4>1, <5>2
        <5>3. CASE i = Len(tlist[k]) + 1 \/ j = Len(tlist[k]) + 1
          <6>1. tlist'[k][i] = f /\ tlist'[k][j] = f
            BY <4>1, <4>3, <5>3
          <6> HIDE DEF ListOK
          <6> QED BY <4>1, <5>2, <6>1
        <5> QED BY <4>1, <5>1, <5>3
      <4> QED BY <3>2, <4>2, <4>3 DEF ListOK
    <3> QED BY <2>4, <3>1, <3>2
  <2>6. HitOK(p)'
    <3>1. CASE pc'[p] = "loop" /\ idx'[p] = 1
        BY <3>1 DEF HitOK
    <3>2. CASE pc'[p] = "hit" /\ fd'[p] = f /\ idx'[p] = k + 1
      <4>1. ASSUME NEW q \in Porters, q >= k + 1
            PROVE  q \in left'[f] /\ \A i \in 1 .. Len(tlist'[q]) : tlist'[q][i] # f
        <5>1. q >= k /\ q # k
            BY <2>1, <4>1 DEF Porters
        <5>2. tlist'[q] = tlist[q]
            BY <2>4, <5>1
        <5> QED BY <1>6, <1>l, <2>0, <2>1, <5>1, <5>2 DEF HitOK
      <4>2. ASSUME NEW q \in Porters, pc'[q] = "hit", fd'[q] = f PROVE q = p
        BY <2>2, <2>3, <4>2
      <4> QED BY <3>2, <4>1, <4>2 DEF HitOK
    <3> QED BY <2>2, <3>1, <3>2
  <2>7. ASSUME NEW q \in Porters \ {p} PROVE HitOK(q)'
    <3>1. CASE pc[q] # "hit"
        BY <1>l, <2>2, <3>1 DEF HitOK
    <3>2. CASE pc[q] = "hit"
      <4>1. fd[q] # f /\ fd[q] \in Fds
        BY <2>3, <3>2, Hitting
      <4>2. ASSUME NEW r \in Porters, r >= idx[q]
            PROVE  r \in left'[fd[q]] /\ \A i \in 1 .. Len(tlist'[r]) : tlist'[r][i] # fd[q]
        <5>1. r \in left[fd[q]] /\ \A i \in 1 .. Len(tlist[r]) : tlist[r][i] # fd[q]
            BY <1>l, <3>2, <4>2 DEF HitOK
        <5>2. CASE tlist'[r] = tlist[r]
            BY <1>6, <5>1, <5>2
        <5>3. CASE r = k /\ tlist'[r] = Append(tlist[r], f)
          <6>1. /\ Len(tlist'[k]) = Len(tlist[k]) + 1 /\ Len(tlist[k]) \in Nat
                /\ \A i \in 1 .. Len(tlist[k]) : tlist'[k][i] = tlist[k][i]
                /\ tlist'[k][Len(tlist[k]) + 1] = f
            BY <2>1, <5>3, AppendOf
          <6> QED BY <1>6, <4>1, <5>1, <5>3, <6>1
        <5> QED BY <2>4, <5>2, <5>3
      <4>3. ASSUME NEW r \in Porters, pc'[r] = "hit", fd'[r] = fd[q] PROVE r = q
        BY <1>l, <2>2, <3>2, <4>1, <4>3 DEF HitOK
      <4> QED BY <2>2, <3>2, <4>2, <4>3 DEF HitOK
    <3> QED BY <3>1, <3>2
  <2> QED BY <2>5, <2>6, <2>7 DEF TaskInv
<1>7. ASSUME NEW p \in Porters, RunWhole(p) PROVE TaskInv'
  <2>1. PICK f \in Fds :
            /\ f = Head(tlist[p]) /\ tlist[p] \in Seq(Fds) /\ tlist[p] # <<>>
            /\ \A q \in Porters : fd[q] = f => pc[q] = "hit" /\ ~(p >= idx[q])
    BY <1>7, Running DEF RunWhole
  <2>2. /\ tlist'[p] = Tail(tlist[p]) /\ left'[f] = left[f] \ {p}
        /\ \A q \in Porters \ {p} : tlist'[q] = tlist[q]
        /\ \A g \in Fds \ {f} : left'[g] = left[g]
        /\ UNCHANGED <<pc, fd, idx>>
    <3>1. /\ tlist' = [tlist EXCEPT ![p] = Tail(@)] /\ left' = [left EXCEPT ![f] = @ \ {p}]
          /\ UNCHANGED <<pc, fd, idx>>
        BY <1>7, <2>1 DEF RunWhole
    <3> QED BY <1>t, <3>1 DEF TypeOK
  <2>3. ASSUME NEW q \in Porters, NEW i \in 1 .. Len(tlist'[q])
        PROVE  \E j \in 1 .. Len(tlist[q]) :
                  /\ tlist'[q][i] = tlist[q][j] /\ (q = p => j = i + 1 /\ tlist[q][j] # f)
                  /\ (q # p => j = i) /\ tlist[q][j] \in Fds
    <3>1. CASE q = p
      <4>a. i \in 1 .. Len(Tail(tlist[p])) /\ tlist'[p][i] = Tail(tlist[p])[i]
        BY <2>2, <3>1
      <4>b. /\ i + 1 \in 1 .. Len(tlist[p]) /\ Tail(tlist[p])[i] = tlist[p][i + 1]
            /\ 1 \in 1 .. Len(tlist[p]) /\ tlist[p][1] = f
        BY <2>1, <4>a, TailOf
      <4>1. /\ i + 1 \in 1 .. Len(tlist[p]) /\ i + 1 # 1
            /\ tlist'[p][i] = tlist[p][i + 1]
            /\ 1 \in 1 .. Len(tlist[p]) /\ tlist[p][1] = f
        BY <4>a, <4>b
      <4>2. tlist[p][i + 1] # f /\ tlist[p][i + 1] \in Fds
        BY <1>l, <2>1, <4>1 DEF ListOK
      <4> QED BY <3>1, <4>1, <4>2
    <3>2. CASE q # p
      <4>1. tlist'[q] = tlist[q] /\ tlist[q] \in Seq(Fds)
        BY <1>t, <2>2, <3>2 DEF TypeOK
      <4>2. i \in 1 .. Len(tlist[q]) /\ tlist[q][i] \in Fds
        BY <4>1
      <4> QED BY <3>2, <4>1, <4>2
    <3> QED BY <3>1, <3>2
  <2>4. ASSUME NEW q \in Porters PROVE ListOK(q)'
    <3>1. ASSUME NEW i \in 1 .. Len(tlist'[q]) PROVE q \in left'[tlist'[q][i]]
      <4>1. PICK k \in 1 .. Len(tlist[q]) :
                /\ tlist'[q][i] = tlist[q][k] /\ tlist[q][k] \in Fds
                /\ q = p => tlist[q][k] # f
        BY <2>3
      <4>2. q \in left[tlist[q][k]]
        BY <1>l DEF ListOK
      <4> QED BY <2>2, <4>1, <4>2
    <3>2. ASSUME NEW i \in 1 .. Len(tlist'[q]), NEW j \in 1 .. Len(tlist'[q]),
                 tlist'[q][i] = tlist'[q][j]
          PROVE  i = j
      <4>1. PICK k \in 1 .. Len(tlist[q]) :
                /\ tlist'[q][i] = tlist[q][k] /\ (q = p => k = i + 1) /\ (q # p => k = i)
        BY <2>3
      <4>2. PICK m \in 1 .. Len(tlist[q]) :
                /\ tlist'[q][j] = tlist[q][m] /\ (q = p => m = j + 1) /\ (q # p => m = j)
        BY <2>3
      <4>3. k = m
        BY <1>l, <3>2, <4>1, <4>2 DEF ListOK
      <4> QED BY <4>1, <4>2, <4>3
    <3> QED BY <3>1, <3>2 DEF ListOK
  <2>5. ASSUME NEW q \in Porters PROVE HitOK(q)'
    <3>1. ASSUME pc[q] = "hit", NEW r \in Porters, r >= idx[q]
          PROVE  r \in left'[fd[q]] /\ \A i \in 1 .. Len(tlist'[r]) : tlist'[r][i] # fd[q]
      <4>1. r \in left[fd[q]] /\ \A i \in 1 .. Len(tlist[r]) : tlist[r][i] # fd[q]
        BY <1>l, <3>1 DEF HitOK
      <4>2. fd[q] \in Fds /\ (fd[q] = f => r # p)
        BY <2>1, <3>1, Hitting
      <4>3. r \in left'[fd[q]]
        BY <2>2, <4>1, <4>2
      <4> QED BY <2>3, <4>1, <4>3
    <3> QED BY <1>l, <2>2, <3>1 DEF HitOK
  <2> QED BY <2>4, <2>5 DEF TaskInv
<1>8. ASSUME NEW p \in Porters, Works(p) PROVE TaskInv'
    BY <1>6, <1>7, <1>8 DEF Works, Hit, HitFails
<1>9. CASE UNCHANGED vars
    BY <1>0, <1>9 DEF vars
<1> QED BY <1>1, <1>2, <1>3, <1>4, <1>5, <1>8, <1>9 DEF Next, Done

-----------------------------------------------------------------------------
LEMMA SockStep == Inv /\ [Next]_vars => SockInv'
<1> SUFFICES ASSUME Inv, [Next]_vars PROVE SockInv'
    OBVIOUS
<1>t. TypeOK /\ OneWay /\ OwnInv /\ SockInv
    BY DEF Inv
<1> USE Constants DEF TypeOK, SockInv, Stopped, tasks, ends
<1>0. ASSUME UNCHANGED <<sock, naccept, served, watch, left, loops>> PROVE SockInv'
    BY <1>0, <1>t DEF loops
<1>1. ASSUME NEW n \in Conns, PeerSends(n) PROVE SockInv'
    BY <1>0, <1>1 DEF PeerSends, slot, leader
<1>2. CASE Accept
  <2>1. PICK f \in Fds : /\ sock[f] = None
                         /\ \/ sock' = sock
                            \/ sock' = [sock EXCEPT ![f] = naccept + 1]
    BY <1>2 DEF Accept
  <2>2. /\ naccept \in Nat /\ naccept' = naccept + 1
        /\ UNCHANGED <<served, watch, left, pc, fd>>
    BY <1>2, <1>t DEF Accept, slot, loops
  <2>3. \A g \in Fds : sock[g] \in Nat
    BY <1>t DEF Conns, None
  <2>0. \A g \in Fds : sock'[g] = sock[g] \/ (g = f /\ sock'[g] = naccept + 1)
    <3>1. CASE sock' = sock
        BY <3>1
    <3>2. CASE sock' = [sock EXCEPT ![f] = naccept + 1]
        BY <1>t, <3>2
    <3> QED BY <2>1, <3>1, <3>2
  <2>4. ASSUME NEW g \in Fds PROVE sock[g] <= naccept /\ sock'[g] <= naccept'
    <3>1. sock[g] <= naccept /\ sock[g] \in Nat
        BY <1>t, <2>3
    <3>2. sock'[g] = sock[g] \/ sock'[g] = naccept + 1
        BY <2>0
    <3> HIDE DEF TypeOK, SockInv
    <3> QED BY <2>2, <3>1, <3>2
  <2>5. ASSUME NEW g \in Fds, NEW h \in Fds, sock'[g] = sock'[h], sock'[g] # None
        PROVE  g = h
    <3>1. sock[g] # naccept + 1 /\ sock[h] # naccept + 1
        BY <2>2, <2>3, <2>4
    <3>2. sock[g] = sock[h] /\ sock[g] # None => g = h
        BY <1>t
    <3> HIDE DEF TypeOK, SockInv
    <3> QED BY <2>0, <2>5, <3>1, <3>2
  <2>6. \A n \in served : n <= naccept'
    BY <1>t, <2>2 DEF Conns
  <2>7. \A g \in Fds : sock[g] \in served => sock'[g] = sock[g]
    BY <1>t, <2>1
  <2> QED BY <1>t, <2>2, <2>4, <2>5, <2>6, <2>7
<1>3. CASE Dispatch
    BY <1>0, <1>3 DEF Dispatch, slot, kernel
<1>4. ASSUME NEW p \in Porters, NEW f \in Fds, pc[p] = "loop",
             TakeOver(p, f), sock[f] \in Conns, UNCHANGED <<sock, naccept, left, loops>>
      PROVE  SockInv'
    BY <1>4, <1>t DEF TakeOver, loops, OwnInv, PorterOK
<1>5. ASSUME NEW p \in Porters, FetchPipe(p) PROVE SockInv'
  <2>1. Head(pipe[p]) \in Fds /\ sock[Head(pipe[p])] \in Conns
    BY <1>5, <1>t, OnWay DEF FetchPipe
  <2> QED BY <1>0, <1>4, <1>5, <2>1 DEF FetchPipe, slot, kernel, leader
<1>6. ASSUME NEW p \in Porters, FetchLink(p) PROVE SockInv'
  <2>1. Head(qlist[p]) \in Fds /\ sock[Head(qlist[p])] \in Conns
    BY <1>6, <1>t, OnWay DEF FetchLink
  <2> QED BY <1>0, <1>4, <1>6, <2>1 DEF FetchLink, slot, kernel, leader
<1>7. ASSUME NEW p \in Porters, Ends(p) PROVE SockInv'
  <2>1. fd[p] \in Fds
    BY <1>7, Ending DEF Ends, Close, Stop, Del, Free
  <2>2. CASE Close(p)
    <3>1. /\ sock' = [sock EXCEPT ![fd[p]] = None]
          /\ served' = served \ {sock[fd[p]]}
          /\ pc' = [pc EXCEPT ![p] = "stop"] /\ pc[p] = "close"
          /\ UNCHANGED <<naccept, watch, left, fd>>
        BY <2>2 DEF Close, Go, slot, leader
    <3>2. watch[fd[p]].porter = p /\ left[fd[p]] = {}
        BY <1>t, <3>1, Ending DEF OwnInv, PorterOK
    <3>3. sock[fd[p]] # None
        BY <3>1, Ending
    <3>4. 0 <= naccept
        BY <1>t
    <3> QED BY <1>t, <2>1, <3>1, <3>2, <3>3, <3>4 DEF None
  <2>3. CASE Stop(p)
    BY <2>1, <2>3, <1>t DEF Stop, Go, kernel, leader
  <2>4. CASE Del(p)
    BY <2>1, <2>4, <1>t DEF Del, Go, kernel, leader
  <2>5. CASE Free(p)
    <3>1. /\ UNCHANGED <<sock, naccept, served, watch, left>>
          /\ fd' = [fd EXCEPT ![p] = None] /\ watch[fd[p]] = Stopped
          /\ \A q \in Porters \ {p} : pc'[q] = pc[q]
        BY <2>5, <1>t DEF Free, Go, OwnInv, PorterOK, kernel, leader
    <3> QED BY <2>1, <3>1, <1>t
  <2> QED BY <1>7, <2>2, <2>3, <2>4, <2>5 DEF Ends
<1>8. ASSUME NEW p \in Porters, NEW f \in Fds, Serves(p, f) PROVE SockInv'
  <2>1. /\ pc[p] = "loop" /\ fd[p] = None /\ watch[f].porter = p /\ sock[f] \in served
        /\ left[f] = {} /\ data[f] \in Porters /\ \A q \in Porters : fd[q] # f
    BY <1>8, Serving
  <2>2. CASE RecvPart(p, f)
    BY <1>0, <2>2 DEF RecvPart, leader
  <2>3. ASSUME NEW q \in Porters, NEW cb \in {"recv", "send"}, Watch(q, f, cb),
               UNCHANGED <<sock, naccept, served, left, loops>>
        PROVE  SockInv'
    BY <1>t, <2>1, <2>3 DEF Watch, loops
  <2>4. CASE RecvRequest(p, f) \/ RecvBad(p, f) \/ SendKeep(p, f)
    BY <2>1, <2>3, <2>4 DEF RecvRequest, RecvBad, SendKeep, Answer, kernel, leader
  <2>5. ASSUME fd' = [fd EXCEPT ![p] = f], Go(p, "close"),
               UNCHANGED <<sock, naccept, served, watch, left>>
        PROVE  SockInv'
    BY <1>t, <2>1, <2>5 DEF Go
  <2>6. CASE RecvEnd(p, f) \/ SendLast(p, f)
    BY <2>5, <2>6 DEF RecvEnd, SendLast, kernel, leader
  <2>7. CASE RecvNone(p, f)
    <3>1. /\ watch' = [watch EXCEPT ![f] = Stopped]
          /\ UNCHANGED <<sock, naccept, served, left, pc, fd>>
        BY <2>7 DEF RecvNone, leader, loops
    <3> QED BY <1>t, <2>1, <3>1
  <2>8. CASE RecvWhole(p, f)
    <3>1. /\ watch' = [watch EXCEPT ![f] = Stopped] /\ left' = [left EXCEPT ![f] = Porters]
          /\ fd' = [fd EXCEPT ![p] = f] /\ pc' = [pc EXCEPT ![p] = "hit"]
          /\ UNCHANGED <<sock, naccept, served>>
        BY <2>8 DEF RecvWhole, Go, leader
    <3> QED BY <1>t, <2>1, <3>1
  <2> QED BY <1>8, <2>2, <2>4, <2>6, <2>7, <2>8 DEF Serves
<1>9. ASSUME NEW p \in Porters, Works(p) PROVE SockInv'
  <2>1. ASSUME Hits(p), UNCHANGED <<sock, naccept, served, watch, left>> PROVE SockInv'
    <3>1. \/ UNCHANGED <<pc, fd>>
          \/ pc' = [pc EXCEPT ![p] = "loop"] /\ fd' = [fd EXCEPT ![p] = None]
        BY <2>1 DEF Hits, Go
    <3>2. pc[p] = "hit" /\ watch[fd[p]] = Stopped
        BY <2>1, <1>t DEF Hits, OwnInv, PorterOK
    <3> QED BY <1>t, <2>1, <3>1, <3>2
  <2>2. CASE Hit(p) \/ HitFails(p)
    BY <2>1, <2>2 DEF Hit, HitFails, kernel, leader, slot
  <2>3. CASE RunWhole(p)
    <3>1. PICK f \in Fds : f = Head(tlist[p]) /\ p \in left[f] /\ sock[f] \in served
        BY <2>3, Running DEF RunWhole
    <3>2. /\ left' = [left EXCEPT ![f] = @ \ {p}]
          /\ UNCHANGED <<sock, naccept, served, pc, fd>>
          /\ \/ watch' = [watch EXCEPT ![f] = [porter |-> p, cb |-> "send"]]
             \/ watch' = watch
        BY <2>3, <3>1 DEF RunWhole, Answer, Watch, kernel, leader, loops
    <3> QED BY <1>t, <3>1, <3>2
  <2> QED BY <1>9, <2>2, <2>3 DEF Works
<1>10. CASE UNCHANGED vars
    BY <1>0, <1>10 DEF vars, slot, kernel, leader
<1> QED BY <1>1, <1>2, <1>3, <1>5, <1>6, <1>7, <1>8, <1>9, <1>10 DEF Next, Done

-----------------------------------------------------------------------------
(* The way of a connection, as a function of what is in the lines L, what   *)
(* is in the leader's hand h, and the set U of descriptors on their way.    *)

Way(L, h, U) ==
    /\ \A f \in Fds : f \in U
            <=> f = h \/ \E l \in Lines : \E i \in 1 .. Len(L[l]) : L[l][i] = f
    /\ \A l \in Lines : \A i \in 1 .. Len(L[l]) :
            /\ L[l][i] # h
            /\ \A m \in Lines : \A j \in 1 .. Len(L[m]) :
                   L[l][i] = L[m][j] => l = m /\ i = j

AllLines == [l \in Lines |-> Line(l)]
Waiting == {f \in Fds : sock[f] # None /\ sock[f] \notin served}

LEMMA OneWayIsWay ==
    /\ OneWay <=> Way(AllLines, hand, Waiting)
    /\ TypeOK => AllLines \in [Lines -> Seq(Fds)]
<1>1. \A l \in Lines : AllLines[l] = Line(l)
    BY DEF AllLines
<1>2. \A f \in Fds : f \in Waiting <=> sock[f] # None /\ sock[f] \notin served
    BY DEF Waiting
<1>3. OneWay <=> Way(AllLines, hand, Waiting)
    BY <1>1, <1>2, SMTT(20) DEF OneWay, Way
<1>4. TypeOK => AllLines \in [Lines -> Seq(Fds)]
    BY DEF TypeOK, AllLines, Lines, Line
<1> QED BY <1>3, <1>4

\* A change of a pipe or a queue as a change of one line.
LEMMA LinesChange ==
    ASSUME TypeOK, NEW p \in Porters, NEW x,
           NEW L, L = AllLines
    PROVE  /\ pipe' = [pipe EXCEPT ![p] = x] /\ qlist' = qlist
                => AllLines' = [L EXCEPT ![<<"pipe", p>>] = x]
           /\ qlist' = [qlist EXCEPT ![p] = x] /\ pipe' = pipe
                => AllLines' = [L EXCEPT ![<<"qlist", p>>] = x]
           /\ \A y : pipe' = [pipe EXCEPT ![p] = x] /\ qlist' = [qlist EXCEPT ![p] = y]
                => AllLines' = [[L EXCEPT ![<<"pipe", p>>] = x] EXCEPT ![<<"qlist", p>>] = y]
<1>1. \A l \in Lines : l = <<"pipe", l[2]>> \/ l = <<"qlist", l[2]>>
    BY DEF Lines
<1>2. \A l \in Lines : l[2] \in Porters
    BY DEF Lines
<1>3. AllLines' = [l \in Lines |-> IF l[1] = "pipe" THEN pipe'[l[2]] ELSE qlist'[l[2]]]
    BY DEF AllLines, Line
<1>4. L = [l \in Lines |-> IF l[1] = "pipe" THEN pipe[l[2]] ELSE qlist[l[2]]]
    BY DEF AllLines, Line
<1> DEFINE a == <<"pipe", p>>  b == <<"qlist", p>>
<1>a. /\ a \in Lines /\ b \in Lines /\ a # b /\ a[1] = "pipe" /\ b[1] = "qlist"
      /\ a[2] = p /\ b[2] = p
    BY DEF Lines
<1>b. ASSUME NEW l \in Lines
      PROVE  /\ l # a => l[1] # "pipe" \/ l[2] # p
             /\ l # b => l[1] = "pipe" \/ l[2] # p
    BY <1>1
<1> HIDE DEF a, b
<1>5. ASSUME pipe' = [pipe EXCEPT ![p] = x], qlist' = qlist
      PROVE  AllLines' = [L EXCEPT ![a] = x]
  <2>1. \A l \in Lines : AllLines'[l] = IF l = a THEN x ELSE L[l]
    BY <1>2, <1>3, <1>4, <1>5, <1>a, <1>b DEF TypeOK
  <2> QED BY <1>3, <1>4, <2>1
<1>6. ASSUME qlist' = [qlist EXCEPT ![p] = x], pipe' = pipe
      PROVE  AllLines' = [L EXCEPT ![b] = x]
  <2>1. \A l \in Lines : AllLines'[l] = IF l = b THEN x ELSE L[l]
    BY <1>2, <1>3, <1>4, <1>6, <1>a, <1>b DEF TypeOK
  <2> QED BY <1>3, <1>4, <2>1
<1>7. ASSUME NEW y, pipe' = [pipe EXCEPT ![p] = x], qlist' = [qlist EXCEPT ![p] = y]
      PROVE  AllLines' = [[L EXCEPT ![a] = x] EXCEPT ![b] = y]
  <2>1. \A l \in Lines : AllLines'[l] = IF l = b THEN y ELSE IF l = a THEN x ELSE L[l]
    BY <1>2, <1>3, <1>4, <1>7, <1>a, <1>b DEF TypeOK
  <2> QED BY <1>3, <1>4, <2>1
<1> QED BY <1>5, <1>6, <1>7 DEF a, b

\* A descriptor taken from the front of a line is on no way any more.
LEMMA WayTake ==
    ASSUME NEW L \in [Lines -> Seq(Fds)], NEW h, NEW U, Way(L, h, U),
           NEW k \in Lines, L[k] # <<>>
    PROVE  Way([L EXCEPT ![k] = Tail(@)], h, U \ {Head(L[k])})
<1> DEFINE M == [L EXCEPT ![k] = Tail(@)]  x == Head(L[k])
<1>1. /\ M[k] = Tail(L[k]) /\ \A l \in Lines \ {k} : M[l] = L[l]
      /\ M \in [Lines -> Seq(Fds)]
    BY TailOf
<1>2. /\ Len(M[k]) = Len(L[k]) - 1 /\ Len(L[k]) \in Nat
      /\ \A i \in 1 .. Len(M[k]) : M[k][i] = L[k][i + 1] /\ i + 1 \in 1 .. Len(L[k])
      /\ 1 \in 1 .. Len(L[k]) /\ x = L[k][1]
    BY <1>1, TailOf
<1> HIDE DEF M, x
<1>u. \A f \in Fds : f \in U
            <=> f = h \/ \E l \in Lines : \E i \in 1 .. Len(L[l]) : L[l][i] = f
    BY DEF Way
<1>h. \A l \in Lines : \A i \in 1 .. Len(L[l]) : L[l][i] # h
    BY DEF Way
<1>i. \A l, m \in Lines : \A i \in 1 .. Len(L[l]), j \in 1 .. Len(L[m]) :
            L[l][i] = L[m][j] => l = m /\ i = j
    BY DEF Way
<1>3. ASSUME NEW f \in Fds
      PROVE  f \in U \ {x}
             <=> f = h \/ \E l \in Lines : \E i \in 1 .. Len(M[l]) : M[l][i] = f
  <2>1. ASSUME f \in U, f # x, f # h
        PROVE  \E l \in Lines : \E i \in 1 .. Len(M[l]) : M[l][i] = f
    <3>0. PICK l \in Lines : \E i \in 1 .. Len(L[l]) : L[l][i] = f
        BY <2>1 DEF Way
    <3>1. PICK i \in 1 .. Len(L[l]) : L[l][i] = f
        BY <3>0
    <3>2. CASE l # k
        BY <1>1, <3>1, <3>2
    <3>3. CASE l = k
      <4>1. i - 1 \in 1 .. Len(M[k]) /\ M[k][i - 1] = f
        BY <1>2, <2>1, <3>1, <3>3
      <4> QED BY <4>1
    <3> QED BY <3>2, <3>3
  <2>2. ASSUME NEW l \in Lines, NEW i \in 1 .. Len(M[l]), M[l][i] = f
        PROVE  f \in U /\ f # x
    <3>1. CASE l # k
        BY <1>1, <1>2, <1>u, <1>i, <2>2, <3>1
    <3>2. CASE l = k
      <4>1. i + 1 \in 1 .. Len(L[k]) /\ L[k][i + 1] = f /\ i + 1 # 1
        BY <1>2, <2>2, <3>2
      <4>2. f \in U
        BY <1>u, <4>1
      <4>3. f # x
        BY <1>2, <1>i, <4>1
      <4> QED BY <4>2, <4>3
    <3> QED BY <3>1, <3>2
  <2>3. f = h => f \in U /\ f # x
    BY <1>2 DEF Way
  <2> QED BY <2>1, <2>2, <2>3
<1>4. ASSUME NEW l \in Lines, NEW i \in 1 .. Len(M[l])
      PROVE  /\ M[l][i] # h
             /\ \A m \in Lines : \A j \in 1 .. Len(M[m]) :
                    M[l][i] = M[m][j] => l = m /\ i = j
  <2> DEFINE Old(m, j) == IF m = k THEN j + 1 ELSE j
  <2>1. ASSUME NEW m \in Lines, NEW j \in 1 .. Len(M[m])
        PROVE  M[m][j] = L[m][Old(m, j)] /\ Old(m, j) \in 1 .. Len(L[m])
    BY <1>1, <1>2, <2>1
  <2> HIDE DEF Old
  <2>2. M[l][i] # h
    BY <1>h, <2>1
  <2>3. ASSUME NEW m \in Lines, NEW j \in 1 .. Len(M[m]), M[l][i] = M[m][j]
        PROVE  l = m /\ i = j
    <3>1. l = m /\ Old(l, i) = Old(m, j)
      <4>1. M[l][i] = L[l][Old(l, i)] /\ Old(l, i) \in 1 .. Len(L[l])
        BY <2>1
      <4>2. M[m][j] = L[m][Old(m, j)] /\ Old(m, j) \in 1 .. Len(L[m])
        BY <2>1
      <4>3. L[l][Old(l, i)] = L[m][Old(m, j)]
        BY <2>3, <4>1, <4>2
      <4> QED BY <1>i, <4>1, <4>2, <4>3
    <3> QED BY <3>1 DEF Old
  <2> QED BY <2>2, <2>3
<1>5. Way(M, h, U \ {x})
    BY <1>3, <1>4 DEF Way
<1> QED BY <1>5 DEF M, x

\* A descriptor that was on no way is put at the end of a line.
LEMMA WayPut ==
    ASSUME NEW L \in [Lines -> Seq(Fds)], NEW h, NEW U, Way(L, h, U),
           NEW k \in Lines, NEW f \in Fds, f \notin U
    PROVE  Way([L EXCEPT ![k] = Append(@, f)], h, U \cup {f})
<1> DEFINE M == [L EXCEPT ![k] = Append(@, f)]
<1>1. M[k] = Append(L[k], f) /\ \A l \in Lines \ {k} : M[l] = L[l]
    OBVIOUS
<1>2. /\ Len(M[k]) = Len(L[k]) + 1 /\ Len(L[k]) \in Nat
      /\ \A i \in 1 .. Len(L[k]) : M[k][i] = L[k][i]
      /\ M[k][Len(L[k]) + 1] = f
    BY <1>1, AppendOf
<1> HIDE DEF M
<1>u. \A g \in Fds : g \in U
            <=> g = h \/ \E l \in Lines : \E i \in 1 .. Len(L[l]) : L[l][i] = g
    BY DEF Way
<1>h. \A l \in Lines : \A i \in 1 .. Len(L[l]) : L[l][i] # h
    BY DEF Way
<1>i. \A l, m \in Lines : \A i \in 1 .. Len(L[l]), j \in 1 .. Len(L[m]) :
            L[l][i] = L[m][j] => l = m /\ i = j
    BY DEF Way
<1>3. ASSUME NEW l \in Lines, NEW i \in 1 .. Len(M[l])
      PROVE  \/ i \in 1 .. Len(L[l]) /\ M[l][i] = L[l][i]
             \/ l = k /\ i = Len(L[k]) + 1 /\ M[l][i] = f
    BY <1>1, <1>2
<1>4. ASSUME NEW l \in Lines, NEW i \in 1 .. Len(L[l])
      PROVE  i \in 1 .. Len(M[l]) /\ M[l][i] = L[l][i] /\ L[l][i] # f
  <2>1. L[l][i] # f
    BY <1>u
  <2>2. i \in 1 .. Len(M[l]) /\ M[l][i] = L[l][i]
    <3>1. CASE l = k
        BY <1>2, <3>1
    <3>2. CASE l # k
        BY <1>1, <3>2
    <3> QED BY <3>1, <3>2
  <2> QED BY <2>1, <2>2
<1>5. Len(L[k]) + 1 \in 1 .. Len(M[k])
    BY <1>2
<1>6. ASSUME NEW g \in Fds
      PROVE  g \in U \cup {f}
             <=> g = h \/ \E l \in Lines : \E i \in 1 .. Len(M[l]) : M[l][i] = g
  <2>1. CASE g = f
    BY <1>2, <1>5, <2>1
  <2>2. CASE g # f
    <3>1. ASSUME NEW l \in Lines, NEW i \in 1 .. Len(M[l]), M[l][i] = g PROVE g \in U
        BY <1>3, <1>u, <2>2, <3>1
    <3>2. ASSUME NEW l \in Lines, NEW i \in 1 .. Len(L[l]), L[l][i] = g
          PROVE  \E m \in Lines : \E j \in 1 .. Len(M[m]) : M[m][j] = g
        BY <1>4, <3>2
    <3> QED BY <1>u, <2>2, <3>1, <3>2
  <2> QED BY <2>1, <2>2
<1>7. ASSUME NEW l \in Lines, NEW i \in 1 .. Len(M[l])
      PROVE  /\ M[l][i] # h
             /\ \A m \in Lines : \A j \in 1 .. Len(M[m]) :
                    M[l][i] = M[m][j] => l = m /\ i = j
  <2>1. f # h
    BY <1>u
  <2>2. M[l][i] # h
    BY <1>3, <1>h, <2>1
  <2>3. ASSUME NEW m \in Lines, NEW j \in 1 .. Len(M[m]), M[l][i] = M[m][j]
        PROVE  l = m /\ i = j
    <3>1. \/ i \in 1 .. Len(L[l]) /\ M[l][i] = L[l][i] /\ L[l][i] # f
          \/ l = k /\ i = Len(L[k]) + 1 /\ M[l][i] = f
        BY <1>3, <1>4
    <3>2. \/ j \in 1 .. Len(L[m]) /\ M[m][j] = L[m][j] /\ L[m][j] # f
          \/ m = k /\ j = Len(L[k]) + 1 /\ M[m][j] = f
        BY <1>3, <1>4
    <3> QED BY <1>i, <2>3, <3>1, <3>2
  <2> QED BY <2>2, <2>3
<1>8. Way(M, h, U \cup {f})
    BY <1>6, <1>7 DEF Way
<1> QED BY <1>8 DEF M

\* The leader takes a descriptor in its hand, and gives it away.
LEMMA WayHand ==
    ASSUME NEW L \in [Lines -> Seq(Fds)], NEW U, NEW f \in Fds
    PROVE  /\ Way(L, None, U) /\ f \notin U => Way(L, f, U \cup {f})
           /\ Way(L, f, U) => Way(L, None, U \ {f})
<1>1. ASSUME NEW l \in Lines, NEW i \in 1 .. Len(L[l]) PROVE L[l][i] # None
    BY Constants
<1>2. ASSUME Way(L, None, U), f \notin U PROVE Way(L, f, U \cup {f})
    BY <1>2, Constants DEF Way
<1>3. ASSUME Way(L, f, U) PROVE Way(L, None, U \ {f})
    BY <1>1, <1>3, Constants DEF Way
<1> QED BY <1>2, <1>3

LEMMA WayStep == Inv /\ [Next]_vars => OneWay'
<1> SUFFICES ASSUME Inv, [Next]_vars PROVE OneWay'
    OBVIOUS
<1>t. TypeOK /\ OneWay /\ OwnInv /\ SockInv
    BY DEF Inv
<1>w. Way(AllLines, hand, Waiting) /\ AllLines \in [Lines -> Seq(Fds)]
    BY <1>t, OneWayIsWay
<1>p. ASSUME Way(AllLines', hand', Waiting') PROVE OneWay'
  <2>1. \A l \in Lines : AllLines'[l] = Line(l)'
    BY DEF AllLines
  <2>2. \A f \in Fds : f \in Waiting' <=> sock'[f] # None /\ sock'[f] \notin served'
    BY DEF Waiting
  <2> QED BY <1>p, <2>1, <2>2 DEF OneWay, Way
<1> USE DEF kernel, leader, queues, slot
<1>0. ASSUME UNCHANGED <<sock, hand, queues, served>> PROVE OneWay'
  <2>1. AllLines' = AllLines /\ Waiting' = Waiting
    BY <1>0 DEF AllLines, Line, Waiting
  <2> QED BY <1>0, <1>p, <1>w, <2>1
<1>1. ASSUME NEW n \in Conns, PeerSends(n) PROVE OneWay'
    BY <1>0, <1>1 DEF PeerSends
<1>2. CASE Accept
  <2>1. PICK f \in Fds : /\ sock[f] = None
                         /\ \/ UNCHANGED <<sock, hand>>
                            \/ /\ sock' = [sock EXCEPT ![f] = naccept + 1]
                               /\ hand' = f
    BY <1>2 DEF Accept
  <2>2. CASE UNCHANGED <<sock, hand>>
    BY <1>0, <1>2, <2>2 DEF Accept
  <2>3. CASE sock' = [sock EXCEPT ![f] = naccept + 1] /\ hand' = f
    <3>1. naccept + 1 \notin served /\ naccept + 1 # None
        BY <1>t, Constants DEF SockInv, TypeOK, None
    <3>2. Waiting' = Waiting \cup {f} /\ f \notin Waiting
        BY <1>2, <1>t, <2>1, <2>3, <3>1 DEF Waiting, Accept, TypeOK
    <3>3. AllLines' = AllLines /\ hand = None
        BY <1>2 DEF Accept, AllLines, Line
    <3>4. Way(AllLines, f, Waiting \cup {f})
        BY <1>w, <3>2, <3>3, WayHand
    <3> QED BY <1>p, <2>3, <3>2, <3>3, <3>4
  <2> QED BY <2>1, <2>2, <2>3
<1>3. CASE Dispatch
  <2>1. CASE UNCHANGED <<pipe, hand>>
    BY <1>0, <1>3, <2>1 DEF Dispatch
  <2>2. CASE pipe' = [pipe EXCEPT ![robin] = Append(@, hand)] /\ hand' = None
    <3> DEFINE k == <<"pipe", robin>>
    <3>1. hand \in Fds /\ k \in Lines /\ hand \in Waiting
        BY <1>3, <1>t, <1>w DEF Dispatch, TypeOK, Lines, Way
    <3>2. Waiting' = Waiting /\ Waiting = (Waiting \ {hand}) \cup {hand}
        BY <1>3, <3>1 DEF Dispatch, Waiting
    <3>a. robin \in Porters /\ AllLines[k] = pipe[robin]
        BY <1>t, <3>1 DEF TypeOK, AllLines, Line
    <3>3. AllLines' = [AllLines EXCEPT ![k] = Append(@, hand)]
        BY <1>3, <1>t, <2>2, <3>a, LinesChange DEF Dispatch
    <3>4. Way(AllLines, None, Waiting \ {hand})
        BY <1>w, <3>1, WayHand
    <3>5. Way([AllLines EXCEPT ![k] = Append(@, hand)], None, (Waiting \ {hand}) \cup {hand})
        BY <1>w, <3>1, <3>4, WayPut
    <3> QED BY <1>p, <2>2, <3>2, <3>3, <3>5
  <2> QED BY <1>3, <2>1, <2>2 DEF Dispatch
<1>4. ASSUME NEW k \in Lines, AllLines[k] # <<>>,
             AllLines' = [AllLines EXCEPT ![k] = Tail(@)],
             UNCHANGED <<sock, hand>>,
             served' = served \cup {sock[Head(AllLines[k])]}
      PROVE  OneWay'
  <2>1. Head(AllLines[k]) \in Fds /\ Head(AllLines[k]) \in Waiting
    <3>1. /\ Head(AllLines[k]) \in Fds /\ 1 \in 1 .. Len(AllLines[k])
          /\ AllLines[k][1] = Head(AllLines[k])
        BY <1>4, <1>w
    <3> QED BY <1>w, <3>1 DEF Way
  <2>2. Waiting' = Waiting \ {Head(AllLines[k])}
    BY <1>4, <1>t, <2>1 DEF Waiting, SockInv
  <2>3. Way([AllLines EXCEPT ![k] = Tail(@)], hand, Waiting \ {Head(AllLines[k])})
    BY <1>4, <1>w, WayTake
  <2> QED BY <1>4, <1>p, <2>2, <2>3
<1>5. ASSUME NEW k \in Lines, NEW m \in Lines, AllLines[k] # <<>>,
             AllLines' = [[AllLines EXCEPT ![k] = Tail(@)]
                             EXCEPT ![m] = Append(@, Head(AllLines[k]))],
             UNCHANGED <<sock, hand, served>>
      PROVE  OneWay'
  <2> DEFINE f == Head(AllLines[k])  M == [AllLines EXCEPT ![k] = Tail(@)]
  <2>1. f \in Fds /\ f \in Waiting
    <3>1. f \in Fds /\ 1 \in 1 .. Len(AllLines[k]) /\ AllLines[k][1] = f
        BY <1>5, <1>w
    <3> QED BY <1>w, <3>1 DEF Way
  <2>2. Way(M, hand, Waiting \ {f})
    BY <1>5, <1>w, WayTake
  <2>3. M \in [Lines -> Seq(Fds)]
    BY <1>5, <1>w, TailOf
  <2>4. Way([M EXCEPT ![m] = Append(@, f)], hand, (Waiting \ {f}) \cup {f})
    <3> HIDE DEF M, f
    <3> QED BY <2>1, <2>2, <2>3, WayPut
  <2>5. Waiting' = Waiting /\ Waiting = (Waiting \ {f}) \cup {f}
    BY <1>5, <2>1 DEF Waiting
  <2> QED BY <1>5, <1>p, <2>4, <2>5
<1>6. ASSUME NEW p \in Porters, FetchPipe(p) PROVE OneWay'
  <2> DEFINE k == <<"pipe", p>>  m == <<"qlist", p>>
  <2>1. /\ k \in Lines /\ m \in Lines /\ k # m
        /\ AllLines[k] = pipe[p] /\ AllLines[k] # <<>> /\ AllLines[m] = qlist[p]
    BY <1>6 DEF FetchPipe, Lines, Line, AllLines
  <2>2. CASE work_status[Head(pipe[p])] = "no"
    <3>1. AllLines' = [AllLines EXCEPT ![k] = Tail(@)]
        BY <1>6, <1>t, <2>1, <2>2, LinesChange, ZenonT(30) DEF FetchPipe
    <3> QED BY <1>4, <1>6, <2>1, <2>2, <3>1 DEF FetchPipe, TakeOver
  <2>3. CASE work_status[Head(pipe[p])] # "no"
    <3>1. AllLines' = [[AllLines EXCEPT ![k] = Tail(@)] EXCEPT ![m] = Append(@, Head(AllLines[k]))]
      <4>1. /\ pipe' = [pipe EXCEPT ![p] = Tail(AllLines[k])]
            /\ qlist' = [qlist EXCEPT ![p] = Append(AllLines[m], Head(AllLines[k]))]
        BY <1>6, <2>1, <2>3 DEF FetchPipe
      <4>2. AllLines' = [[AllLines EXCEPT ![k] = Tail(AllLines[k])]
                             EXCEPT ![m] = Append(AllLines[m], Head(AllLines[k]))]
        <5> DEFINE x == Tail(AllLines[k])  y == Append(AllLines[m], Head(AllLines[k]))
        <5>1. pipe' = [pipe EXCEPT ![p] = x] /\ qlist' = [qlist EXCEPT ![p] = y]
            BY <4>1
        <5> HIDE DEF x, y
        <5>2. AllLines' = [[AllLines EXCEPT ![k] = x] EXCEPT ![m] = y]
            BY <1>t, <5>1, LinesChange
        <5> QED BY <5>2 DEF x, y
      <4> QED BY <1>w, <2>1, <4>2
    <3> QED BY <1>5, <1>6, <2>1, <2>3, <3>1 DEF FetchPipe
  <2> QED BY <2>2, <2>3
<1>7. ASSUME NEW p \in Porters, FetchLink(p) PROVE OneWay'
  <2> DEFINE k == <<"qlist", p>>
  <2>1. k \in Lines /\ AllLines[k] = qlist[p] /\ AllLines[k] # <<>>
    BY <1>7 DEF FetchLink, Lines, Line, AllLines
  <2>2. CASE work_status[Head(qlist[p])] = "no"
    <3>1. AllLines' = [AllLines EXCEPT ![k] = Tail(@)]
      <4>1. qlist' = [qlist EXCEPT ![p] = Tail(AllLines[k])] /\ pipe' = pipe
        BY <1>7, <2>1, <2>2 DEF FetchLink
      <4> QED BY <1>t, <2>1, <4>1, LinesChange
    <3> QED BY <1>4, <1>7, <2>1, <2>2, <3>1 DEF FetchLink, TakeOver
  <2>3. CASE work_status[Head(qlist[p])] # "no"
    <3>1. AllLines' = [[AllLines EXCEPT ![k] = Tail(@)] EXCEPT ![k] = Append(@, Head(AllLines[k]))]
      <4>1. /\ qlist' = [qlist EXCEPT ![p] = Append(Tail(AllLines[k]), Head(AllLines[k]))]
            /\ pipe' = pipe
        BY <1>7, <2>1, <2>3 DEF FetchLink
      <4>2. AllLines' = [AllLines EXCEPT ![k] = Append(Tail(AllLines[k]), Head(AllLines[k]))]
        <5> DEFINE x == Append(Tail(AllLines[k]), Head(AllLines[k]))
        <5>1. qlist' = [qlist EXCEPT ![p] = x] /\ pipe' = pipe
            BY <4>1
        <5> HIDE DEF x
        <5>2. AllLines' = [AllLines EXCEPT ![k] = x]
            BY <1>t, <5>1, LinesChange
        <5> QED BY <5>2 DEF x
      <4> QED BY <1>w, <2>1, <4>2
    <3> QED BY <1>5, <1>7, <2>1, <2>3, <3>1 DEF FetchLink
  <2> QED BY <2>2, <2>3
<1>8. ASSUME NEW p \in Porters, Ends(p) PROVE OneWay'
  <2>1. CASE Close(p)
    <3>1. fd[p] \in Fds /\ sock[fd[p]] \in served /\ sock[fd[p]] # None
        BY <2>1, Ending, Constants DEF Close
    <3>2. Waiting' = Waiting
        BY <1>t, <2>1, <3>1 DEF Close, Waiting, SockInv, TypeOK
    <3>3. AllLines' = AllLines /\ hand' = hand
        BY <2>1 DEF Close, AllLines, Line
    <3> QED BY <1>p, <1>w, <3>2, <3>3
  <2>2. CASE Stop(p) \/ Del(p) \/ Free(p)
    BY <1>0, <2>2 DEF Stop, Del, Free
  <2> QED BY <1>8, <2>1, <2>2 DEF Ends
<1>9. ASSUME NEW p \in Porters, NEW f \in Fds, Serves(p, f) PROVE OneWay'
    BY <1>0, <1>9 DEF Serves, RecvPart, RecvRequest, RecvWhole, RecvNone, RecvBad, RecvEnd,
                      SendKeep, SendLast
<1>10. ASSUME NEW p \in Porters, Works(p) PROVE OneWay'
    BY <1>0, <1>10 DEF Works, Hit, HitFails, RunWhole
<1>11. CASE UNCHANGED vars
    BY <1>0, <1>11 DEF vars
<1> QED BY <1>1, <1>2, <1>3, <1>6, <1>7, <1>8, <1>9, <1>10, <1>11 DEF Next, Done

-----------------------------------------------------------------------------
\* A node is fetched before its descriptor is watched and freed after that.
LEMMA NodeStep == Inv /\ [Next]_vars => NodeInv'
<1> SUFFICES ASSUME Inv, [Next]_vars PROVE NodeInv'
    OBVIOUS
<1>t. TypeOK /\ OneWay /\ OwnInv /\ NodeInv /\ TypeOK'
    BY TypeStep DEF Inv
<1> USE Constants DEF slot, tasks, loops, ends
<1>0. ASSUME UNCHANGED <<node, work_status>>,
             \A f \in Fds : watch'[f] # Stopped \/ left'[f] # {}
                               => watch[f] # Stopped \/ left[f] # {},
             \A q \in Porters : pc'[q] = "free" => pc[q] = "free" /\ fd'[q] = fd[q]
      PROVE  NodeInv'
    BY <1>0, <1>t DEF NodeInv
<1>1. ASSUME NEW n \in Conns, PeerSends(n) PROVE NodeInv'
    BY <1>0, <1>1 DEF PeerSends
<1>2. CASE Accept \/ Dispatch
    BY <1>0, <1>2 DEF Accept, Dispatch
<1>3. ASSUME NEW p \in Porters, NEW f \in Fds, work_status[f] = "no",
             TakeOver(p, f), UNCHANGED <<left, pc, fd>>
      PROVE  NodeInv'
  <2>1. /\ node'[f] = "live" /\ work_status'[f] = "is"
        /\ \A g \in Fds \ {f} : /\ watch'[g] = watch[g] /\ node'[g] = node[g]
                                /\ work_status'[g] = work_status[g]
    BY <1>3, <1>t, Domains DEF TakeOver
  <2>2. \A q \in Porters : pc[q] = "free" => fd[q] # f
    BY <1>3, <1>t DEF OwnInv, FdOK, Owns
  <2>3. \A q \in Porters : pc[q] = "free" /\ fd[q] \in Heap => node'[fd[q]] = "null"
    BY <1>t, <2>1, <2>2 DEF NodeInv
  <2> QED BY <1>3, <1>t, <2>1, <2>3 DEF NodeInv
<1>4. ASSUME NEW p \in Porters, FetchPipe(p) \/ FetchLink(p) PROVE NodeInv'
  <2>1. CASE FetchPipe(p)
    <3>1. Head(pipe[p]) \in Fds
        BY <1>t, <2>1, OnWay DEF FetchPipe
    <3> QED BY <1>0, <1>3, <2>1, <3>1 DEF FetchPipe
  <2>2. CASE FetchLink(p)
    <3>1. Head(qlist[p]) \in Fds
        BY <1>t, <2>2, OnWay DEF FetchLink
    <3> QED BY <1>0, <1>3, <2>2, <3>1 DEF FetchLink
  <2> QED BY <1>4, <2>1, <2>2
<1>5. ASSUME NEW p \in Porters, Ends(p) PROVE NodeInv'
  <2>0. fd[p] \in Fds /\ left[fd[p]] = {}
    BY <1>5, Ending DEF Ends, Close, Stop, Del, Free
  <2>1. PICK f \in Fds : f = fd[p] /\ left[f] = {}
    BY <2>0
  <2>2. CASE Close(p) \/ Stop(p)
    <3>1. /\ UNCHANGED <<node, work_status, left, fd>>
          /\ \A q \in Porters : pc'[q] = "free" => pc[q] = "free"
        BY <1>t, Domains, <2>2 DEF Close, Stop, Go
    <3>2. \A g \in Fds : watch'[g] # Stopped => watch[g] # Stopped
        BY <1>t, Domains, <2>2, <2>1 DEF Close, Stop
    <3> QED BY <1>0, <3>1, <3>2
  <2>3. CASE Del(p)
    <3>1. /\ pc[p] = "del" /\ pc'[p] = "free" /\ UNCHANGED <<work_status, watch, left, fd>>
          /\ f \in Heap => node'[f] = "null"
          /\ \A g \in Fds \ {f} : node'[g] = node[g]
          /\ \A q \in Porters \ {p} : pc'[q] = pc[q]
        BY <1>t, <2>1, <2>3, Domains DEF Del, Go
    <3>2. watch[f] = Stopped
        BY <1>t, <2>1, <3>1 DEF OwnInv, PorterOK
    <3>3. \A q \in Porters : pc'[q] = "free" /\ fd[q] \in Heap => node'[fd[q]] = "null"
        BY <1>t, <2>1, <3>1 DEF NodeInv
    <3> QED BY <1>t, <2>1, <3>1, <3>2, <3>3 DEF NodeInv
  <2>4. CASE Free(p)
    <3>1. /\ pc[p] = "free" /\ UNCHANGED <<node, watch, left>>
          /\ \A g \in Fds \ {f} : work_status'[g] = work_status[g]
          /\ pc'[p] # "free"
          /\ \A q \in Porters \ {p} : pc'[q] = pc[q] /\ fd'[q] = fd[q]
      <4>1. /\ pc[p] = "free" /\ UNCHANGED <<node, watch, left>>
            /\ work_status' = work_status \/ work_status' = [work_status EXCEPT ![f] = "no"]
            /\ \E to \in {"loop", "abort"} : pc' = [pc EXCEPT ![p] = to]
            /\ fd' = [fd EXCEPT ![p] = None]
        BY <2>1, <2>4 DEF Free, Go
      <4>2. \A g \in Fds \ {f} : work_status'[g] = work_status[g]
        BY <1>t, <4>1, Domains
      <4>3. /\ pc'[p] # "free"
            /\ \A q \in Porters \ {p} : pc'[q] = pc[q] /\ fd'[q] = fd[q]
        BY <1>t, <4>1, Domains
      <4> QED BY <4>1, <4>2, <4>3
    <3>2. f \in Heap => node[f] = "null"
        BY <1>t, <2>1, <3>1 DEF NodeInv
    <3> QED BY <1>t, <3>1, <3>2 DEF NodeInv
  <2> QED BY <1>5, <2>2, <2>3, <2>4 DEF Ends
<1>6. ASSUME NEW p \in Porters, NEW f \in Fds, Serves(p, f) PROVE NodeInv'
  <2>1. watch[f] # Stopped
    BY <1>6, Serving
  <2>2. /\ UNCHANGED <<node, work_status>>
        /\ \/ watch' = watch
           \/ \E x \in {Stopped} \cup {[porter |-> q, cb |-> c] : q \in Porters \cup {data[f]},
                                                             c \in {"recv", "send"}} :
                 watch' = [watch EXCEPT ![f] = x]
        /\ left' = left \/ left' = [left EXCEPT ![f] = Porters]
        /\ \/ UNCHANGED <<pc, fd>>
           \/ /\ \E to \in {"close", "hit"} : pc' = [pc EXCEPT ![p] = to]
              /\ fd' = [fd EXCEPT ![p] = f]
    <3>1. CASE RecvPart(p, f) \/ RecvEnd(p, f) \/ SendLast(p, f)
        BY <3>1 DEF RecvPart, RecvEnd, SendLast, Go
    <3>2. CASE RecvRequest(p, f) \/ RecvBad(p, f) \/ SendKeep(p, f)
        BY <3>2 DEF RecvRequest, RecvBad, SendKeep, Answer, Watch
    <3>3. CASE RecvNone(p, f) \/ RecvWhole(p, f)
        BY <3>3 DEF RecvNone, RecvWhole, Go
    <3> QED BY <1>6, <3>1, <3>2, <3>3 DEF Serves
  <2>3. \A g \in Fds \ {f} : watch'[g] = watch[g] /\ left'[g] = left[g]
    BY <1>t, Domains, <2>2
  <2>4. \A q \in Porters : pc'[q] = "free" => pc[q] = "free" /\ fd'[q] = fd[q]
    BY <1>t, Domains, <2>2
  <2> QED BY <1>0, <2>1, <2>2, <2>3, <2>4
<1>7. ASSUME NEW p \in Porters, Works(p) PROVE NodeInv'
  <2>1. CASE Hit(p) \/ HitFails(p)
    <3>1. /\ UNCHANGED <<node, work_status, watch, left>> /\ pc[p] = "hit"
          /\ \/ UNCHANGED <<pc, fd>>
             \/ pc' = [pc EXCEPT ![p] = "loop"] /\ fd' = [fd EXCEPT ![p] = None]
        BY <2>1 DEF Hit, HitFails, Hits, Go
    <3>2. \A q \in Porters : pc'[q] = "free" => pc[q] = "free" /\ fd'[q] = fd[q]
        BY <1>t, Domains, <3>1
    <3> QED BY <1>0, <3>1, <3>2
  <2>2. CASE RunWhole(p)
    <3>1. PICK f \in Fds : f = Head(tlist[p]) /\ p \in left[f]
        BY <2>2, Running DEF RunWhole
    <3>2. /\ left' = [left EXCEPT ![f] = @ \ {p}] /\ UNCHANGED <<node, work_status, pc, fd>>
          /\ \/ watch' = [watch EXCEPT ![f] = [porter |-> p, cb |-> "send"]]
             \/ watch' = watch
        BY <2>2, <3>1 DEF RunWhole, Answer, Watch
    <3>3. \A g \in Fds \ {f} : watch'[g] = watch[g] /\ left'[g] = left[g]
        BY <1>t, Domains, <3>2
    <3> QED BY <1>0, <3>1, <3>2, <3>3
  <2> QED BY <1>7, <2>1, <2>2 DEF Works
<1>8. CASE UNCHANGED vars
    BY <1>0, <1>8 DEF vars
<1> QED BY <1>1, <1>2, <1>4, <1>5, <1>6, <1>7, <1>8 DEF Next, Done

-----------------------------------------------------------------------------
\* A step on one descriptor leaves the buffers of the others as they are.
LEMMA BufLocal ==
    ASSUME Inv, NEW f \in Fds,
           \A g \in Fds \ {f} :
               /\ sock'[g] = sock[g] /\ recv'[g] = recv[g] /\ send'[g] = send[g]
               /\ dosize'[g] = dosize[g] /\ watch'[g] = watch[g] /\ left'[g] = left[g]
               /\ sock[g] \in served' <=> sock[g] \in served
               /\ \A q \in Porters : fd'[q] = g /\ pc'[q] # "hit"
                                        => fd[q] = g /\ pc[q] # "hit",
           BufOK(f)'
    PROVE  BufInv'
<1>1. ASSUME NEW g \in Fds \ {f} PROVE BufOK(g)'
  <2>1. BufOK(g)
    BY DEF Inv, BufInv
  <2> QED BY <1>1, <2>1 DEF BufOK
<1> QED BY <1>1 DEF BufInv

\* No step puts bytes of a connection where those of another are.
LEMMA BufStep == Inv /\ [Next]_vars => BufInv'
<1> SUFFICES ASSUME Inv, [Next]_vars PROVE BufInv'
    OBVIOUS
<1>t. TypeOK /\ OneWay /\ OwnInv /\ SockInv /\ NodeInv /\ BufInv /\ TypeOK'
    BY TypeStep DEF Inv
<1>b. ASSUME NEW f \in Fds PROVE BufOK(f)
    BY <1>t DEF BufInv
<1> USE Constants DEF slot, buffer, tasks, loops, ends
<1>0. ASSUME UNCHANGED <<sock, recv, send, dosize, watch, left, served, pc, fd>>
      PROVE  BufInv'
    BY <1>0, <1>t DEF BufInv, BufOK
<1>1. ASSUME NEW n \in Conns, PeerSends(n) PROVE BufInv'
    BY <1>0, <1>1 DEF PeerSends
<1>2. CASE Accept
  <2>1. PICK f \in Fds : /\ sock[f] = None
                         /\ \/ sock' = sock
                            \/ sock' = [sock EXCEPT ![f] = naccept + 1]
    BY <1>2 DEF Accept
  <2>2. UNCHANGED <<recv, send, dosize, watch, left, served, pc, fd>>
    BY <1>2 DEF Accept
  <2>3. CASE sock' = sock
    BY <1>0, <2>2, <2>3
  <2>4. CASE sock' = [sock EXCEPT ![f] = naccept + 1]
    <3>1. sock'[f] = naccept + 1 /\ \A g \in Fds \ {f} : sock'[g] = sock[g]
        BY <1>t, <2>4, Domains
    <3>a. naccept + 1 \notin served
        BY <1>t DEF SockInv, TypeOK
    <3>b. sock[f] \notin served
        BY <1>t, <2>1 DEF TypeOK
    <3>2. naccept + 1 \notin served /\ sock[f] \notin served
        BY <3>a, <3>b
    <3>3. recv[f] = {} /\ send[f] = {}
        BY <1>b, <3>2 DEF BufOK
    <3>4. BufOK(f)'
        BY <2>2, <3>1, <3>2, <3>3 DEF BufOK
    <3> QED BY <2>2, <3>1, <3>4, BufLocal
  <2> QED BY <2>1, <2>3, <2>4
<1>3. CASE Dispatch
    BY <1>0, <1>3 DEF Dispatch, kernel
<1>4. ASSUME NEW p \in Porters, NEW f \in Fds, work_status[f] = "no", pc[p] = "loop",
             TakeOver(p, f), sock[f] \in Conns \ served, UNCHANGED <<sock, left, pc, fd>>
      PROVE  BufInv'
  <2>1. recv[f] = {} /\ send[f] = {} /\ (f \in Heap => node[f] = "null")
    BY <1>4, <1>b, <1>t DEF BufOK, NodeInv
  <2>2. /\ recv' = recv /\ send' = send
        /\ dosize' = dosize \/ dosize' = [dosize EXCEPT ![f] = {}]
        /\ f \in Heap => dosize' = [dosize EXCEPT ![f] = {}]
    <3>0. recv \in [Fds -> SUBSET Conns] /\ send \in [Fds -> SUBSET Conns]
        BY <1>t DEF TypeOK
    <3>1. [recv EXCEPT ![f] = {}] = recv /\ [send EXCEPT ![f] = {}] = send
        BY <2>1, <3>0
    <3> QED BY <1>4, <2>1, <3>1 DEF TakeOver
  <2>3. /\ \A g \in Fds \ {f} : dosize'[g] = dosize[g] /\ watch'[g] = watch[g]
        /\ f \in Heap => dosize'[f] = {}
        /\ watch'[f].cb = "recv"
    BY <1>4, <1>t, <2>2, Domains DEF TakeOver
  <2>4. served' = served \cup {sock[f]}
    BY <1>4 DEF TakeOver
  <2>5. \A g \in Fds \ {f} : sock[g] \in served' <=> sock[g] \in served
    BY <1>4, <1>t, <2>4 DEF SockInv
  <2>6. BufOK(f)'
    BY <1>4, <1>t, <2>1, <2>2, <2>3 DEF BufOK, OwnInv, FdOK
  <2> QED BY <1>4, <2>2, <2>3, <2>5, <2>6, BufLocal
<1>5. ASSUME NEW p \in Porters, FetchPipe(p) \/ FetchLink(p) PROVE BufInv'
  <2>1. CASE FetchPipe(p)
    <3>1. Head(pipe[p]) \in Fds /\ sock[Head(pipe[p])] \in Conns \ served
        BY <1>t, <2>1, OnWay DEF FetchPipe
    <3> QED BY <1>0, <1>4, <2>1, <3>1 DEF FetchPipe, kernel
  <2>2. CASE FetchLink(p)
    <3>1. Head(qlist[p]) \in Fds /\ sock[Head(qlist[p])] \in Conns \ served
        BY <1>t, <2>2, OnWay DEF FetchLink
    <3> QED BY <1>0, <1>4, <2>2, <3>1 DEF FetchLink, kernel
  <2> QED BY <1>5, <2>1, <2>2
<1>6. ASSUME NEW p \in Porters, Ends(p) PROVE BufInv'
  <2>0. fd[p] \in Fds /\ left[fd[p]] = {}
    BY <1>6, Ending DEF Ends, Close, Stop, Del, Free
  <2>1. PICK f \in Fds : f = fd[p] /\ left[f] = {}
    BY <2>0
  <2>2. recv[f] = {} /\ send[f] = {}
    BY <1>6, <1>b, <2>1 DEF BufOK, Ends, Close, Stop, Del, Free
  <2>3. UNCHANGED <<recv, send, dosize, left>>
    BY <1>6 DEF Ends, Close, Stop, Del, Free
  <2>4. CASE Close(p)
    <3>1. /\ sock'[f] = None /\ \A g \in Fds \ {f} : sock'[g] = sock[g]
          /\ served' = served \ {sock[f]} /\ sock[f] \in Conns
          /\ UNCHANGED <<watch, fd>> /\ pc[p] # "hit"
          /\ \A q \in Porters \ {p} : pc'[q] = pc[q]
        BY <1>t, <2>1, <2>4, Ending, Domains DEF Close, Go
    <3>2. \A g \in Fds \ {f} : sock[g] \in served' <=> sock[g] \in served
        BY <1>t, <3>1 DEF SockInv
    <3>3. None \notin served'
        BY <1>t DEF TypeOK
    <3>4. BufOK(f)'
        BY <2>2, <2>3, <3>1, <3>3 DEF BufOK
    <3> QED BY <2>3, <3>1, <3>2, <3>4, BufLocal
  <2>5. CASE Stop(p)
    <3>1. /\ UNCHANGED <<sock, served, fd>> /\ pc[p] # "hit"
          /\ \A q \in Porters \ {p} : pc'[q] = pc[q]
          /\ \A g \in Fds \ {f} : watch'[g] = watch[g]
        BY <1>t, <2>1, <2>5 DEF Stop, Go, TypeOK, kernel
    <3>2. BufOK(f)'
        BY <1>b, <2>2, <2>3, <3>1 DEF BufOK
    <3> QED BY <2>3, <3>1, <3>2, BufLocal
  <2>6. CASE Del(p)
    <3>1. /\ UNCHANGED <<sock, served, watch, fd>> /\ pc[p] # "hit"
          /\ \A q \in Porters \ {p} : pc'[q] = pc[q]
        BY <1>t, <2>1, <2>6 DEF Del, Go, TypeOK, kernel
    <3>2. BufOK(f)'
        BY <1>b, <2>2, <2>3, <3>1 DEF BufOK
    <3> QED BY <2>3, <3>1, <3>2, BufLocal
  <2>7. CASE Free(p)
    <3>1. /\ UNCHANGED <<sock, served, watch>> /\ pc[p] # "hit" /\ fd'[p] = None
          /\ \A q \in Porters \ {p} : pc'[q] = pc[q] /\ fd'[q] = fd[q]
      <4>1. /\ UNCHANGED <<sock, served, watch>> /\ pc[p] # "hit"
            /\ \E to \in {"loop", "abort"} : pc' = [pc EXCEPT ![p] = to]
            /\ fd' = [fd EXCEPT ![p] = None]
        BY <2>7 DEF Free, Go, kernel
      <4> QED BY <1>t, <4>1 DEF TypeOK
    <3>2. BufOK(f)'
        BY <1>b, <2>2, <2>3, <3>1 DEF BufOK
    <3> QED BY <2>3, <3>1, <3>2, BufLocal
  <2> QED BY <1>6, <2>4, <2>5, <2>6, <2>7 DEF Ends
<1>7. ASSUME NEW p \in Porters, NEW f \in Fds, Serves(p, f) PROVE BufInv'
  <2>1. /\ pc[p] = "loop" /\ fd[p] = None /\ watch[f].porter = p /\ sock[f] \in Conns
        /\ sock[f] \in served /\ left[f] = {} /\ \A q \in Porters : fd[q] # f
    BY <1>7, Serving
  <2>2. UNCHANGED <<sock, served>>
    BY <1>7 DEF Serves, RecvPart, RecvRequest, RecvWhole, RecvNone, RecvBad, RecvEnd,
                SendKeep, SendLast, kernel
  <2>3. \/ UNCHANGED <<pc, fd>>
        \/ fd'[p] = f /\ \A q \in Porters \ {p} : pc'[q] = pc[q] /\ fd'[q] = fd[q]
    <3>1. CASE RecvPart(p, f) \/ RecvRequest(p, f) \/ RecvNone(p, f) \/ RecvBad(p, f)
                  \/ SendKeep(p, f)
        BY <3>1 DEF RecvPart, RecvRequest, RecvNone, RecvBad, SendKeep
    <3>2. CASE RecvWhole(p, f) \/ RecvEnd(p, f) \/ SendLast(p, f)
        BY <1>t, Domains, <3>2 DEF RecvWhole, RecvEnd, SendLast, Go
    <3> QED BY <1>7, <3>1, <3>2 DEF Serves
  <2>4. \A g \in Fds \ {f} :
            /\ recv'[g] = recv[g] /\ send'[g] = send[g] /\ dosize'[g] = dosize[g]
            /\ watch'[g] = watch[g] /\ left'[g] = left[g]
    <3>1. CASE RecvPart(p, f) \/ RecvNone(p, f) \/ RecvWhole(p, f)
        BY <1>t, Domains, <3>1 DEF RecvPart, RecvNone, RecvWhole
    <3>2. CASE RecvRequest(p, f)
        BY <1>t, Domains, <3>2 DEF RecvRequest, Answer, Watch
    <3>3. CASE RecvBad(p, f)
        BY <1>t, Domains, <3>3 DEF RecvBad, Watch
    <3>4. CASE RecvEnd(p, f) \/ SendKeep(p, f) \/ SendLast(p, f)
        BY <1>t, Domains, <3>4 DEF RecvEnd, SendKeep, SendLast, Watch
    <3> QED BY <1>7, <3>1, <3>2, <3>3, <3>4 DEF Serves
  <2>5. ASSUME BufOK(f)' PROVE BufInv'
    BY <2>1, <2>2, <2>3, <2>4, <2>5, BufLocal
  <2>6. ASSUME recv'[f] \cup send'[f] \subseteq {sock[f]},
               watch'[f].cb = "send" => recv'[f] = {},
               watch'[f].cb = "recv" \/ left'[f] # {} => send'[f] = {},
               \A q \in Porters : fd'[q] = f /\ pc'[q] # "hit"
                                     => recv'[f] = {} /\ send'[f] = {},
               f \in Heap => dosize'[f] \subseteq {sock[f]}
        PROVE  BufInv'
    BY <2>1, <2>2, <2>5, <2>6 DEF BufOK
  <2>7. /\ recv[f] \cup send[f] \subseteq {sock[f]}
        /\ watch[f].cb = "send" => recv[f] = {}
        /\ watch[f].cb = "recv" => send[f] = {}
        /\ f \in Heap => dosize[f] \subseteq {sock[f]}
    BY <1>b, <2>1 DEF BufOK
  <2>8. CASE RecvPart(p, f)
    <3>1. /\ recv'[f] = recv[f] \cup {sock[f]} /\ dosize'[f] = dosize[f] \cup {sock[f]}
          /\ UNCHANGED <<send, watch, left, pc, fd>> /\ watch[f].cb = "recv"
        BY <1>t, <2>8, Domains DEF RecvPart, Fires
    <3> QED BY <2>1, <2>6, <2>7, <3>1
  <2>9. CASE RecvRequest(p, f)
    <3>1. /\ recv'[f] = {} /\ dosize'[f] = {} /\ UNCHANGED <<left, pc, fd>>
          /\ send'[f] \in {recv[f] \cup {sock[f]}, {}} /\ watch'[f].cb = "send"
        BY <1>t, <2>9, Domains DEF RecvRequest, Answer, Watch
    <3> QED BY <2>1, <2>6, <2>7, <3>1
  <2>10. CASE RecvWhole(p, f) \/ RecvNone(p, f)
    <3>1. /\ recv'[f] = recv[f] \cup {sock[f]} /\ dosize'[f] = {} /\ send' = send
          /\ watch'[f] = Stopped /\ watch[f].cb = "recv"
        BY <1>t, <2>10, Domains DEF RecvWhole, RecvNone, Fires
    <3>2. watch'[f].cb # "send" /\ watch'[f].cb # "recv"
        BY <3>1 DEF Stopped
    <3>3. \A q \in Porters : fd'[q] = f => pc'[q] = "hit"
        BY <1>t, Domains, <2>1, <2>10 DEF RecvWhole, RecvNone, Go
    <3> QED BY <2>6, <2>7, <3>1, <3>2, <3>3
  <2>11. CASE RecvBad(p, f)
    <3>1. /\ recv'[f] = {} /\ dosize'[f] \in {{}, dosize[f]} /\ UNCHANGED <<left, pc, fd>>
          /\ send'[f] = recv[f] \cup {sock[f]} /\ watch'[f].cb = "send"
        BY <1>t, <2>11, Domains DEF RecvBad, Watch
    <3> QED BY <2>1, <2>6, <2>7, <3>1
  <2>12. CASE RecvEnd(p, f)
    <3>1. /\ recv'[f] = {} /\ UNCHANGED <<send, dosize, watch, left>>
          /\ watch[f].cb = "recv"
        BY <1>t, <2>12, Domains DEF RecvEnd, Fires
    <3> QED BY <2>1, <2>6, <2>7, <3>1
  <2>13. CASE SendKeep(p, f)
    <3>1. /\ send'[f] = {} /\ UNCHANGED <<recv, dosize, left, pc, fd>>
          /\ watch[f].cb = "send" /\ watch'[f].cb = "recv"
        BY <1>t, <2>13, Domains DEF SendKeep, Watch, Fires
    <3> QED BY <2>1, <2>6, <2>7, <3>1
  <2>14. CASE SendLast(p, f)
    <3>1. /\ send'[f] = {} /\ UNCHANGED <<recv, dosize, watch, left>>
          /\ watch[f].cb = "send"
        BY <1>t, <2>14, Domains DEF SendLast, Fires
    <3> QED BY <2>1, <2>6, <2>7, <3>1
  <2> QED BY <1>7, <2>8, <2>9, <2>10, <2>11, <2>12, <2>13, <2>14 DEF Serves
<1>8. ASSUME NEW p \in Porters, Works(p) PROVE BufInv'
  <2>1. CASE Hit(p) \/ HitFails(p)
    <3>0. pc[p] = "hit" /\ fd[p] \in Fds
        BY <2>1, Hitting DEF Hit, HitFails, Hits
    <3>1. /\ UNCHANGED <<sock, served, recv, send, dosize, watch, left>>
          /\ \/ UNCHANGED <<pc, fd>>
             \/ pc' = [pc EXCEPT ![p] = "loop"] /\ fd' = [fd EXCEPT ![p] = None]
        BY <2>1 DEF Hit, HitFails, Hits, Go, kernel
    <3>2. \A q \in Porters, g \in Fds : fd'[q] = g /\ pc'[q] # "hit"
                                           => fd[q] = g /\ pc[q] # "hit"
        BY <1>t, Domains, <3>1
    <3>3. ASSUME NEW g \in Fds PROVE BufOK(g)'
        BY <1>b, <3>1, <3>2 DEF BufOK
    <3> QED BY <3>3 DEF BufInv
  <2>2. CASE RunWhole(p)
    <3>1. PICK f \in Fds :
              /\ f = Head(tlist[p]) /\ p \in left[f] /\ sock[f] \in served
              /\ watch[f] = Stopped
              /\ \A q \in Porters : fd[q] = f => pc[q] = "hit"
        BY <2>2, Running DEF RunWhole
    <3>2. /\ left' = [left EXCEPT ![f] = @ \ {p}]
          /\ UNCHANGED <<sock, served, dosize, pc, fd>>
          /\ IF left[f] = {p} THEN Answer(p, f, recv[f])
                              ELSE UNCHANGED <<recv, send, control, watch>>
        BY <2>2, <3>1 DEF RunWhole, kernel
    <3>3. left'[f] = left[f] \ {p} /\ \A g \in Fds \ {f} : left'[g] = left[g]
        BY <1>t, <3>2, Domains
    <3>4. send[f] = {} /\ recv[f] \subseteq {sock[f]}
          /\ (f \in Heap => dosize[f] \subseteq {sock[f]})
        BY <1>b, <3>1 DEF BufOK
    <3>5. CASE left[f] = {p}
      <4>1. /\ recv'[f] = {} /\ send'[f] \in {recv[f], {}} /\ watch'[f].cb = "send"
            /\ \A g \in Fds \ {f} : /\ recv'[g] = recv[g] /\ send'[g] = send[g]
                                    /\ watch'[g] = watch[g]
        BY <1>t, <3>2, <3>5, Domains DEF Answer, Watch
      <4>2. BufOK(f)'
        BY <3>1, <3>2, <3>3, <3>4, <3>5, <4>1 DEF BufOK
      <4> QED BY <3>2, <3>3, <4>1, <4>2, BufLocal
    <3>6. CASE left[f] # {p}
      <4>1. UNCHANGED <<recv, send, watch>>
        BY <3>2, <3>6
      <4>2. watch[f].cb # "send"
        BY <3>1 DEF Stopped
      <4>3. BufOK(f)'
        BY <3>1, <3>2, <3>4, <4>1, <4>2 DEF BufOK
      <4> QED BY <3>2, <3>3, <4>1, <4>3, BufLocal
    <3> QED BY <3>5, <3>6
  <2> QED BY <1>8, <2>1, <2>2 DEF Works
<1>9. CASE UNCHANGED vars
    BY <1>0, <1>9 DEF vars, kernel
<1> QED BY <1>1, <1>2, <1>3, <1>5, <1>6, <1>7, <1>8, <1>9 DEF Next, Done

-----------------------------------------------------------------------------
\* The invariant holds in every reachable state.
THEOREM ConnInvariance == Spec => []Inv
<1>1. Init => Inv
    BY InitInv
<1>2. Inv /\ [Next]_vars => Inv'
    BY TypeStep, OwnStep, TaskStep, SockStep, WayStep, NodeStep, BufStep DEF Inv
<1> QED BY <1>1, <1>2, PTL DEF Spec

\* One porter works on a descriptor at a time and its status says so, however
\* early the kernel gives it out again, and with requests that all porters run,
\* until one of these crosses; the assertions of R_BROKEN and S_BROKEN on the
\* status never fail.
THEOREM Ownership == Spec => []OneOwner
<1>1. Inv => OneOwner
  <2> SUFFICES ASSUME Inv PROVE OneOwner
    OBVIOUS
  <2>1. ASSUME NEW f \in Fds
        PROVE  /\ \A p, q \in Owners(f) : p = q
               /\ Owners(f) = {} \/ left[f] = {}
               /\ IF work_status[f] = "is"
                  THEN Owners(f) # {} \/ left[f] # {} \/ sock[f] \in stranded
                  ELSE Owners(f) = {} /\ left[f] = {}
    <3>1. FdOK(f) /\ work_status[f] \in {"no", "is"}
        BY DEF Inv, OwnInv, TypeOK
    <3>2. \A p : p \in Owners(f) <=> p \in Porters /\ Owns(p, f)
        BY DEF Owners, Owns
    <3> QED BY <3>1, <3>2 DEF FdOK
  <2>2. \A p \in Porters : pc[p] # "abort"
    BY DEF Inv, OwnInv, PorterOK
  <2> QED BY <2>1, <2>2 DEF OneOwner
<1> QED BY <1>1, ConnInvariance, PTL

\* Every connection not yet taken over is on its way once; nothing else is.
THEOREM NothingLost == Spec => []OneWay
<1>1. Inv => OneWay
    BY DEF Inv
<1> QED BY <1>1, ConnInvariance, PTL

\* No porter works with a node that the porter before it frees, in its loop or
\* on a request for all porters.
THEOREM NodesLive == Spec => []NodeLive
<1>1. Inv => NodeLive
    BY DEF Inv, NodeInv, NodeLive
<1> QED BY <1>1, ConnInvariance, PTL

\* No byte passes from a connection to the next one on its descriptor, and no
\* place of the parser does in a node of the heap.
THEOREM OwnAnswers == Spec => []OwnAnswer
<1>1. Inv => OwnAnswer
    BY DEF Inv, BufInv, BufOK, OwnAnswer
<1> QED BY <1>1, ConnInvariance, PTL

\* The state keeps its types: the leader's turn always names a porter, pipes and
\* queues hold descriptors only, and a watcher that is started names a porter.
THEOREM TypeCorrect == Spec => []TypeOK
<1>1. Inv => TypeOK
    BY DEF Inv
<1> QED BY <1>1, ConnInvariance, PTL

=============================================================================
