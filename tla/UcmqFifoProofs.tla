--------------------------- MODULE UcmqFifoProofs ---------------------------
(***************************************************************************)
(* Proofs about what the callers of a queue see who take turns and are not *)
(* killed while a file is written or created: messages leave in the order  *)
(* in which they were put, each at most once, and, as long as the files    *)
(* that are there can be opened, a kill loses at most the message that a   *)
(* get was about to return, and the counters tell how many wait.           *)
(***************************************************************************)
EXTENDS UcmqStoreProofs, FiniteSetTheorems

USE DEF mem, rdb, wdb, nums, fds, disk, prod, cons, env, hist,
        PutIdle, GetIdle, PutGoto, GetGoto, Fault

\* A put and a get never overlap, the process ends by mq_store_close or by a
\* kill while no file is being written, get_next_write_file can open the files
\* it creates and get_next_read_file can map the file to read next.
InTurn == Serialised /\ Orderly

-----------------------------------------------------------------------------
\* The invariant of the order.

TurnInv == ppc = "idle" \/ cpc = "idle"

\* A message is in the hands of the consumer.
Hand == cpc \in {"wrap", "load", "store", "rtag", "ret"}

\* The consumer has come to the end of its file.
Spent == rmap = NoMap \/ rpos + MsgHead >= MaxFile

\* The read position is at or behind the noted one and never passes the write
\* position; without an open rtag file there is nothing left to read in the
\* file, so that every message returned has been noted.
ReadInv ==
    open => /\ rtag[ridx].pos <= rpos
            /\ ReadFile = WriteFile => rpos <= wpos
            /\ cpc \in {"end", "reset"} => ridx = widx
            /\ cpc = "parse" /\ ridx = widx => rpos + MsgHead < wpos
            /\ cpc = "reset" => rpos + MsgHead >= wpos
            /\ cpc \in {"r_lock", "r_open", "r_write"} => Spent
            /\ cpc \in {"r_unlink", "r_map"} => rpos = FileHead
            /\ Hand => rtag_fd = ridx
            /\ cpc = "ret" => rtag[ridx].pos = rpos
            /\ rtag_fd = NoFd => ridx < widx /\ Spent

\* The same between two processes.
RestInv ==
    ~ open /\ ppc \in {"idle", "creat"} =>
        \A r \in DOMAIN rtag, w \in DOMAIN wtag :
            DOMAIN db # {} /\ r = w => rtag[r].pos <= wtag[w].pos

\* Messages are numbered in the order in which their records are written.
Writing == {"body", "pos", "num", "inc", "tag"}
NumberInv ==
    /\ ppc \in Writing => pmsg.id = nput
    /\ ppc \notin Writing \cup {"idle"} => pmsg.id = nput + 1
IdInv ==
    /\ \A i \in DOMAIN db, o \in Offset : Starts(db[i], o) => db[i][o][1] <= nput
    /\ \A g \in DOMAIN got : got[g].id <= nput

OrderInv ==
    \A i, j \in DOMAIN db, o, p \in Offset :
        Starts(db[i], o) /\ Starts(db[j], p) /\ (i < j \/ (i = j /\ o < p))
            => db[i][o][1] < db[j][p][1]

\* What has been returned was put before all that lies behind the noted
\* position, in this process and the next one.
Noting(r) == IF open THEN r = ridx ELSE ppc \in {"idle", "creat"}
NotedAhead(r, i, o) == i > r \/ (i = r /\ o >= rtag[r].pos)
GotInv ==
    \A r \in DOMAIN rtag, i \in DOMAIN db, o \in Offset :
        Noting(r) /\ Starts(db[i], o) /\ NotedAhead(r, i, o)
            => \A g \in DOMAIN got : got[g].id < db[i][o][1]

\* And so was the message in the consumer's hands, which comes after them.
Ahead(i, o) == i > ridx \/ (i = ridx /\ o >= rpos)
HandInv ==
    Hand => /\ cmsg.id <= nput
            /\ \A g \in DOMAIN got : got[g].id < cmsg.id
            /\ \A i \in DOMAIN db, o \in Offset :
                   Starts(db[i], o) /\ Ahead(i, o) => cmsg.id < db[i][o][1]

SortedInv == \A i, j \in DOMAIN got : i < j => got[i].id < got[j].id

TurnsInv == TurnInv /\ ReadInv /\ RestInv /\ NumberInv /\ IdInv /\ OrderInv
            /\ GotInv /\ HandInv /\ SortedInv

-----------------------------------------------------------------------------
\* The invariant of the contents: what is lost.

\* Besides, the files that are there can be opened.
Calm == InTurn /\ Faults \subseteq {"space", "rtag"}

SentInv ==
    /\ Len(sent) = IF ppc \in {"body", "pos", "num", "inc"} THEN nput - 1 ELSE nput
    /\ Len(acked) = IF ppc = "tag" THEN Len(sent) - 1 ELSE Len(sent)
    /\ \A k \in DOMAIN sent : sent[k].id = k /\ sent[k].len \in Lens
    /\ \A k \in DOMAIN acked : acked[k] = sent[k]
    /\ ppc # "idle" => pmsg.len \in Lens
    /\ ppc = "tag" => pmsg = sent[nput]
    /\ nput <= MaxMsgs
    /\ ppc \notin Writing \cup {"idle"} => nput < MaxMsgs

\* The records hold the messages put.
MatchInv ==
    \A i \in DOMAIN db, o \in Offset :
        Starts(db[i], o) => MsgAt(db[i], o) = IF db[i][o][1] \in DOMAIN sent
                                              THEN sent[db[i][o][1]] ELSE pmsg

\* So does the consumer's hand.
HandedInv == Hand => cmsg.id \in DOMAIN sent /\ cmsg = sent[cmsg.id]

\* A message is in the files ahead of the read position, and at rest ahead of
\* the noted one.
Present(n) ==
    IF open THEN \E i \in DOMAIN db, o \in Offset :
                     Starts(db[i], o) /\ db[i][o][1] = n /\ Ahead(i, o)
    ELSE ppc \in {"idle", "creat"} =>
         \E r \in DOMAIN rtag, i \in DOMAIN db, o \in Offset :
             Starts(db[i], o) /\ db[i][o][1] = n /\ NotedAhead(r, i, o)

\* A message that is neither there nor returned nor about to be is lost, and
\* it takes a kill to lose one.
Lost == {n \in 1 .. nput : n \notin Ids(got) /\ ~ (Hand /\ cmsg.id = n) /\ ~ Present(n)}
LossInv == Cardinality(Lost) <= ncrash /\ ncrash <= MaxCrashes

\* The record in the consumer's hands is in its file until it is noted as read.
DiskInv ==
    /\ cpc = "r_write" => rtag[ridx + 1] = Empty
    /\ Hand /\ cpc # "ret" =>
           \E o \in Offset : /\ Starts(db[ridx], o) /\ o >= rtag[ridx].pos
                             /\ MsgAt(db[ridx], o) = cmsg

\* Between the noted position and the read position there is no other record.
GapInv ==
    open => \A i \in DOMAIN db, o \in Offset :
                Starts(db[i], o) /\ NotedAhead(ridx, i, o)
                    => Ahead(i, o) \/ (Hand /\ cpc # "ret" /\ db[i][o][1] = cmsg.id)

\* A queue is created once, and every file it needs is mapped.
OnceInv ==
    /\ open => rmap # NoMap
    /\ ~ open /\ up => DOMAIN db = {} \/ ppc = "mk_open"
    /\ ppc \in Creating \/ DOMAIN db = {} => nput = 0

KeptInv == SentInv /\ MatchInv /\ HandedInv /\ LossInv /\ DiskInv /\ GapInv /\ OnceInv

\* The messages the consumer has passed, returned or not.
Passed == {n \in 1 .. nput : ~ Present(n)}
ReadCount == Cardinality(Passed)

\* Without kills the messages taken from the files are those put first.
Unhurt == Calm /\ MaxCrashes = 0

Taken == Len(got) + (IF Hand THEN 1 ELSE 0)
TakenInv ==
    /\ Taken <= Len(sent)
    /\ \A k \in DOMAIN got : got[k] = sent[k]
    /\ Hand => cmsg = sent[Len(got) + 1]

-----------------------------------------------------------------------------
\* The counters.

\* There is no limit, or it is not reached.
NoLimit == MaxQue = 0 \/ MaxQue > MaxMsgs

\* The counters, of 64 bits, are wide enough; with a limit, their values are
\* those of one process.
Counted == /\ Calm
           /\ IF NoLimit THEN Wide > MaxMsgs
                         ELSE Wide > 2 * MaxQue + 1 /\ MaxCloses = 0 /\ MaxCrashes = 0

LoadInv == /\ ppc \in {"full", "inc"} => pload = put_num
           /\ cpc = "store" => cload = put_num

\* Without a limit they count all that was put and passed, also in the tags: the
\* rtag file does not yet count the message in the consumer's hands.
PlainInv ==
    /\ open => put_num = Len(sent) /\ get_num = ReadCount
    /\ cpc \in {"load", "store"} => MaxQue = 0
    /\ open /\ ppc \in {"idle", "full", "fit", "lock"} => wtag[widx].num = put_num
    /\ open => rtag[ridx].num = IF Hand /\ cpc # "ret" THEN get_num - 1 ELSE get_num
    /\ ~ open /\ ppc = "mk_open" => wtag[1].num = 0
    /\ ~ open /\ ppc \in {"idle", "creat"} /\ DOMAIN db # {} =>
           \A r \in DOMAIN rtag, w \in DOMAIN wtag :
               rtag[r].num = ReadCount /\ wtag[w].num = Len(sent)

\* With a limit both drop by it, one after the other.
Unread == Len(sent) - Taken
LimitInv ==
    /\ open => put_num - get_num = Unread + (IF cpc \in {"load", "store"} THEN MaxQue ELSE 0)
    /\ ~ up => DOMAIN db = {}
    /\ Len(sent) - Len(got) <= MaxQue
    /\ ppc \notin Creating \cup {"idle", "full", "tag"} => Len(sent) - Len(got) < MaxQue
    /\ open => IF cpc = "wrap" THEN get_num <= MaxQue ELSE get_num < MaxQue

CountInv == LoadInv /\ IF NoLimit THEN PlainInv ELSE LimitInv

-----------------------------------------------------------------------------
\* What a step does to the records.

\* A record there after a step was there before, or is being written now.
LEMMA StartsStep ==
    ASSUME Inv, HeldInv, RecInv, Next, Orderly,
           NEW i \in DOMAIN db', NEW o \in Offset, Starts(db'[i], o)
    PROVE  \/ i \in DOMAIN db /\ Starts(db[i], o) /\ db'[i][o] = db[i][o]
           \/ /\ WriteHead /\ i = wmap /\ o = wpos
              /\ db'[i][o] = <<pmsg.id, pmsg.len, 0>>
<1>1. CASE DbSame
  BY <1>1 DEF DbSame
<1>2. CASE DbLess
  BY <1>2 DEF DbLess, Without
<1>3. CASE DbMore
  <2>1. PICK n : n \notin DOMAIN db /\ db' = With(db, n, ZeroFile)
    BY <1>3 DEF DbMore
  <2>2. i # n
    BY <2>1, ZeroSound DEF With, Starts, ZeroFile, Zero
  <2> QED BY <2>1, <2>2 DEF With
<1>4. CASE DbHead
  <2>1. i \in DOMAIN db /\ db'[i] \in {db[i], WriteFileHead(db[i])}
    BY <1>4 DEF DbHead
  <2>2. CASE db'[i] = WriteFileHead(db[i])
    <3>1. db'[i][o] = IF o < FileHead THEN HeadByte ELSE db[i][o]
      BY <2>2 DEF WriteFileHead
    <3>2. db'[i][o] = db[i][o]
      BY <3>1 DEF Starts, HeadByte
    <3> QED BY <2>1, <3>2 DEF Starts
  <2> QED BY <2>1, <2>2
<1>5. CASE WriteHead \/ WriteBody
  <2>1. /\ ppc \in {"rec", "body"} /\ i \in DOMAIN db
        /\ db' = [db EXCEPT ![wmap] = IF WriteHead THEN WriteMsgHead(db[wmap], wpos, pmsg)
                                      ELSE WriteMsgBody(db[wmap], wpos, pmsg)]
    BY <1>5 DEF WriteHead, WriteBody
  <2>2. CASE i # wmap
    BY <2>1, <2>2
  <2>3. CASE i = wmap
    <3>1. /\ db[wmap] \in File /\ pmsg \in Message /\ wpos \in Nat
          /\ wmap \in DOMAIN db /\ MsgHead \in Nat /\ MsgHead >= 2
          /\ RecordLen(pmsg) \in Nat /\ o \in Nat
      BY <2>1, PutPlace, RecordLenNat, LayoutAssumption DEF Inv, TypeOK, Offset
    <3>2. CASE WriteHead
      <4>1. db'[i] = WriteMsgHead(db[wmap], wpos, pmsg)
        BY <2>1, <2>3, <3>1, <3>2
      <4>2. db'[i][o] = IF o - wpos \in 0 .. MsgHead - 1
                        THEN <<pmsg.id, pmsg.len, o - wpos>> ELSE db[i][o]
        BY <2>3, <4>1 DEF WriteMsgHead, WriteBytes
      <4>3. CASE o - wpos \in 0 .. MsgHead - 1
        <5>1. o - wpos = 0
          BY <4>2, <4>3 DEF Starts
        <5>2. o = wpos
          BY <3>1, <5>1
        <5> QED BY <2>3, <3>2, <4>2, <4>3, <5>1, <5>2
      <4>4. CASE o - wpos \notin 0 .. MsgHead - 1
        BY <2>1, <4>2, <4>4 DEF Starts
      <4> QED BY <4>3, <4>4
    <3>3. CASE ~ WriteHead
      <4>1. db'[i] = WriteMsgBody(db[wmap], wpos, pmsg)
        BY <2>1, <2>3, <3>1, <3>3
      <4>2. db'[i][o] = IF o - wpos \in MsgHead .. RecordLen(pmsg) - 1
                        THEN <<pmsg.id, pmsg.len, o - wpos>> ELSE db[i][o]
        BY <2>3, <4>1 DEF WriteMsgBody, WriteBytes
      <4>3. o - wpos \notin MsgHead .. RecordLen(pmsg) - 1
        BY <3>1, <4>2 DEF Starts
      <4> QED BY <2>1, <4>2, <4>3 DEF Starts
    <3> QED BY <3>2, <3>3
  <2> QED BY <2>2, <2>3
<1> QED BY <1>1, <1>2, <1>3, <1>4, <1>5, DbStep

\* All records lie before the write position.
LEMMA BeforeWrite ==
    ASSUME Inv, RecInv, open, NEW i \in DOMAIN db, NEW o \in Offset, Starts(db[i], o)
    PROVE  i \in Nat /\ o \in Nat /\ (i < WriteFile \/ (i = WriteFile /\ o < Frontier))
<1>1. DOMAIN db = ReadFile .. WriteFile /\ o \in Nat
  BY LayoutAssumption DEF RecInv, DataInv, Offset
<1>2. i \in Nat /\ WriteFile \in Nat /\ Frontier \in Nat
  BY WriteFileThere DEF Inv, TypeOK, Directory
<1>3. i <= WriteFile
  BY <1>1, <1>2
<1>4. i = WriteFile => o < Frontier
  <2>1. Clear(db[WriteFile], Frontier)
    BY DEF RecInv, WriteInv, ClearInv
  <2> QED BY <1>1, <1>2, <2>1 DEF Clear, Starts
<1> QED BY <1>1, <1>2, <1>3, <1>4

\* A record's last byte is one of its own.
LEMMA LastByte ==
    ASSUME NEW f \in File, NEW o \in Offset, Starts(f, o), Intact(f, o),
           NEW pos \in Nat, Clear(f, pos)
    PROVE  /\ RecordLen(MsgAt(f, o)) \in Nat
           /\ o + RecordLen(MsgAt(f, o)) <= pos
<1> DEFINE n == RecordLen(MsgAt(f, o))
<1>1. f[o] \in Cell
  BY DEF File
<1>2. MsgAt(f, o) \in Message
  BY <1>1 DEF MsgAt, Message, Cell
<1>3. n \in Nat /\ n >= 2 /\ o \in Nat
  BY <1>2, LayoutAssumption DEF RecordLen, Message, Offset
<1>4. n - 1 \in 0 .. n - 1 /\ o + (n - 1) \in Offset
  BY <1>3, LayoutAssumption DEF Intact, Fits, Offset
<1>5. f[o + (n - 1)] = <<f[o][1], f[o][2], n - 1>>
  BY <1>4 DEF Intact, CrcOk
<1>6. f[o + (n - 1)][1] # 0
  BY <1>5 DEF Starts
<1>7. o + (n - 1) < pos
  BY <1>3, <1>4, <1>6 DEF Clear
<1> QED BY <1>3, <1>7

-----------------------------------------------------------------------------
\* The order, step by step.

\* Callers that take turns never overlap.
LEMMA TurnStep ==
    ASSUME Inv, HeldInv, RecInv, TurnsInv, Next, InTurn PROVE TurnInv'
<1> USE DEF Inv, HeldInv, RecInv, TurnsInv, InTurn, Orderly, WriteFilesOpen, TypeOK,
            LifeInv, MutexInv, IndexInv, Creating, PutHolds, GetHolds, ReadFile,
            WriteFile, NoMap, NoFd
<1> USE DEF TurnInv
<1>1. CASE \E len \in Lens : PutBegin(len)
  BY <1>1 DEF PutBegin
<1>2. CASE GetBegin
  BY <1>2 DEF GetBegin
<1>3. CASE GetNothing
  BY <1>3 DEF GetNothing, vars
<1>4. CASE Create
  BY <1>4 DEF Create, CreatNoSpace, CreatSpace, Wipe, Wiped, MakeRtag, MakeWtag,
     MakeDb, MakeFails, MakeOpen
<1>5. CASE WriteMsg
  BY <1>5 DEF WriteMsg, PutFull, PutNotFull, PutFits, PutOverflows, WriteHead,
     WriteBody, WritePos, LoadPutNum, IncPutNum, PutReturn
<1>6. CASE NextWrite
  BY <1>6 DEF NextWrite, NextWriteNoSpace, NextWriteLock, NextWriteWtag,
     NextWriteNoWtag, NextWriteDb, NextWriteNoDb, NextWritePos,
     NextWriteIndex, NextWriteHead, NextWriteUnlink
<1>7. CASE GetData
  BY <1>7 DEF GetData, EndIndex, EndPos, EndReset, ParseOk, ParseSkip, ParseBeyond,
     WrapGetNum, NoWrap, WrapLoad, WrapPutNum, NoteRtag, GetReturn
<1>8. CASE NextRead
  BY <1>8 DEF NextRead, NextReadEnd, NextReadLock, NextReadRtag, NextReadNoRtag,
     NextReadNote, NextReadUnlink, NextReadShare, NextReadMap, NextReadNoMap
<1>9. CASE Process
  <2>1. CASE Close
    BY <2>1 DEF Close, Stop
  <2>2. CASE Crash
    BY <2>2, QuietKill DEF InTurn
  <2>3. CASE Segv
    BY <2>3, NoStray
  <2>4. CASE OpenQueue
    BY <2>4 DEF OpenQueue
  <2>5. CASE OpenWithout
    BY <2>5 DEF OpenWithout
  <2> QED BY <1>9, <2>1, <2>2, <2>3, <2>4, <2>5 DEF Process
<1>10. ~ PutStray /\ ~ GetStray
  BY NoStrays DEF RecInv
<1> QED BY <1>1, <1>2, <1>3, <1>4, <1>5, <1>6, <1>7, <1>8, <1>9, <1>10
        DEF Next, PutStep, GetStep

\* What mq_sm_db_parse_msg finds at the read position.
LEMMA ParseFinds ==
    ASSUME Inv, HeldInv, RecInv, TurnsInv, cpc = "parse"
    PROVE  /\ open /\ ppc = "idle" /\ rmap \in {NoMap, ridx} /\ ridx \in Nat
           /\ rmap # NoMap => ridx \in DOMAIN db /\ db[ridx] \in File
           /\ Parsed = "OK" => /\ rmap = ridx /\ rpos \in Offset /\ ~ Spent
                               /\ Starts(db[ridx], rpos) /\ Intact(db[ridx], rpos)
                               /\ MsgAt(db[ridx], rpos) \in Message
           /\ Parsed \in {"MSG_ERR", "LEN_BEY"} => Spent
           /\ Parsed = "MAG_NUM_ERR" => /\ rmap = ridx /\ rpos \in Offset
                                        /\ ~ Starts(db[ridx], rpos)
<1>1. /\ open /\ rmap \in {NoMap, ridx} /\ ridx \in Nat /\ widx \in Nat /\ rpos \in Nat
      /\ ridx <= widx /\ ridx >= 1 /\ ppc = "idle"
  BY DEF Inv, TypeOK, LifeInv, IndexInv, ReadFile, TurnsInv, TurnInv
<1>2. rmap # NoMap => ridx \in DOMAIN db /\ db[ridx] \in File
  BY <1>1 DEF HeldInv, Inv, ContentInv
<1>3. \A i \in DOMAIN db, o \in Offset : Starts(db[i], o) => Intact(db[i], o)
  BY <1>1 DEF RecInv, RecordInv, InWork
<1>4. ASSUME rmap = ridx, rmap # NoMap, rpos + MsgHead < MaxFile
      PROVE  /\ rpos \in Offset /\ rpos + 1 \in Offset
             /\ IsMagic(db[ridx], rpos) <=> Starts(db[ridx], rpos)
  <2>1. rpos \in Offset /\ rpos + 1 \in Offset
    BY <1>1, <1>4, LayoutAssumption DEF Offset
  <2>2. ASSUME Starts(db[ridx], rpos) PROVE IsMagic(db[ridx], rpos)
    <3>1. Intact(db[ridx], rpos)
      BY <1>2, <1>3, <1>4, <2>1, <2>2
    <3>2. db[ridx][rpos] \in Cell
      BY <1>2, <1>4, <2>1 DEF File
    <3>3. 1 \in 0 .. RecordLen(MsgAt(db[ridx], rpos)) - 1
      BY <3>2, LayoutAssumption DEF RecordLen, MsgAt, Cell
    <3>4. db[ridx][rpos + 1] = <<db[ridx][rpos][1], db[ridx][rpos][2], 1>>
      BY <3>1, <3>3 DEF Intact, CrcOk
    <3> QED BY <2>2, <3>4 DEF Starts, IsMagic
  <2> QED BY <2>1, <2>2 DEF IsMagic, Starts
<1>5. Parsed = "OK" => /\ rmap = ridx /\ rpos \in Offset /\ ~ Spent
                       /\ Starts(db[ridx], rpos) /\ Intact(db[ridx], rpos)
                       /\ MsgAt(db[ridx], rpos) \in Message
  <2> SUFFICES ASSUME Parsed = "OK"
               PROVE  /\ rmap = ridx /\ rpos \in Offset /\ ~ Spent
                      /\ Starts(db[ridx], rpos) /\ Intact(db[ridx], rpos)
                      /\ MsgAt(db[ridx], rpos) \in Message
    OBVIOUS
  <2>1. rmap # NoMap /\ rmap = ridx
    BY <1>1 DEF Parsed
  <2>2. rpos + MsgHead < MaxFile /\ IsMagic(db[ridx], rpos)
    BY <1>1, <2>1, LayoutAssumption DEF Parsed, ParseMsg
  <2>3. Starts(db[ridx], rpos) /\ rpos \in Offset
    BY <1>4, <2>1, <2>2
  <2>4. db[ridx][rpos] \in Cell
    BY <1>2, <2>1, <2>3 DEF File
  <2>5. MsgAt(db[ridx], rpos) \in Message
    BY <2>4 DEF MsgAt, Message, Cell
  <2>6. ~ Spent
    BY <1>1, <2>1, <2>2, LayoutAssumption DEF Spent
  <2> QED BY <1>2, <1>3, <2>1, <2>3, <2>5, <2>6
<1>6. Parsed \in {"MSG_ERR", "LEN_BEY"} => Spent
  <2> SUFFICES ASSUME Parsed \in {"MSG_ERR", "LEN_BEY"}, ~ Spent PROVE FALSE
    OBVIOUS
  <2>1. rmap # NoMap /\ rmap = ridx /\ rpos + MsgHead < MaxFile
    BY <1>1, LayoutAssumption DEF Spent
  <2>2. IsMagic(db[ridx], rpos) /\ ~ Fits(rpos, MsgAt(db[ridx], rpos))
    BY <1>1, <2>1, LayoutAssumption DEF Parsed, ParseMsg
  <2>3. Starts(db[ridx], rpos) /\ rpos \in Offset
    BY <1>4, <2>1, <2>2
  <2> QED BY <1>2, <1>3, <2>1, <2>2, <2>3 DEF Intact
<1>7. Parsed = "MAG_NUM_ERR" => rmap = ridx /\ rpos \in Offset /\ ~ Starts(db[ridx], rpos)
  <2> SUFFICES ASSUME Parsed = "MAG_NUM_ERR"
               PROVE  rmap = ridx /\ rpos \in Offset /\ ~ Starts(db[ridx], rpos)
    OBVIOUS
  <2>1. rmap # NoMap /\ rmap = ridx
    BY <1>1 DEF Parsed
  <2>2. rpos + MsgHead < MaxFile /\ ~ IsMagic(db[ridx], rpos)
    BY <1>1, <2>1, LayoutAssumption DEF Parsed, ParseMsg
  <2> QED BY <1>4, <2>1, <2>2
<1> QED BY <1>1, <1>2, <1>5, <1>6, <1>7

\* A record read lies before the write position, to its last byte.
LEMMA ReadBefore ==
    ASSUME Inv, HeldInv, RecInv, TurnsInv, cpc = "parse", Parsed = "OK"
    PROVE  /\ RecordLen(MsgAt(db[ridx], rpos)) \in Nat
           /\ ridx = widx => rpos + RecordLen(MsgAt(db[ridx], rpos)) <= wpos
<1>1. /\ open /\ ppc = "idle" /\ ridx \in DOMAIN db /\ db[ridx] \in File
      /\ rpos \in Offset /\ Starts(db[ridx], rpos) /\ Intact(db[ridx], rpos)
      /\ MsgAt(db[ridx], rpos) \in Message
  <2>1. rmap = ridx /\ ~ Spent
    BY ParseFinds
  <2>2. rmap # NoMap
    BY <2>1 DEF Spent
  <2> QED BY <2>2, ParseFinds
<1>2. RecordLen(MsgAt(db[ridx], rpos)) \in Nat
  BY <1>1, RecordLenNat
<1>3. ASSUME ridx = widx PROVE rpos + RecordLen(MsgAt(db[ridx], rpos)) <= wpos
  <2>1. Clear(db[ridx], wpos) /\ wpos \in Nat
    BY <1>1, <1>3 DEF Inv, TypeOK, RecInv, WriteInv, ClearInv, Frontier, WriteFile
  <2> QED BY <1>1, <2>1, LastByte
<1> QED BY <1>2, <1>3

\* The noted position is a number.
LEMMA NotedPos == ASSUME Inv, RecInv, open
                  PROVE  ridx \in DOMAIN rtag /\ rtag[ridx].pos \in Nat /\ ridx \in Nat /\ ridx >= 1
<1>1. ridx \in DOMAIN rtag /\ rtag[ridx] # Empty
  BY DEF RecInv, RtagInv, RtagFiles
<1>2. rtag[ridx] \in Tag
  BY <1>1 DEF Inv, TypeOK, Directory
<1> QED BY <1>1, <1>2 DEF Tag, Inv, TypeOK, IndexInv

\* How far the consumer has read.
LEMMA ReadStep ==
    ASSUME Inv, HeldInv, RecInv, TurnsInv, Next, InTurn PROVE ReadInv'
<1> USE DEF Inv, HeldInv, RecInv, TurnsInv, InTurn, Orderly, WriteFilesOpen, TypeOK,
            LifeInv, MutexInv, IndexInv, Creating, PutHolds, GetHolds, ReadFile,
            WriteFile, NoMap, NoFd
<1> USE NotedPos, LayoutAssumption DEF ReadInv, Hand, Spent, TurnInv
<1>1. CASE \E len \in Lens : PutBegin(len)
  BY <1>1 DEF PutBegin
<1>2. CASE GetBegin
  BY <1>2 DEF GetBegin
<1>3. CASE GetNothing
  BY <1>3 DEF GetNothing, vars
<1>4. CASE Create
  <2>1. CASE CreatNoSpace
    BY <2>1 DEF CreatNoSpace
  <2>2. CASE CreatSpace
    BY <2>2 DEF CreatSpace
  <2>3. CASE Wipe
    BY <2>3 DEF Wipe
  <2>4. CASE Wiped
    BY <2>4 DEF Wiped
  <2>5. CASE MakeRtag
    BY <2>5 DEF MakeRtag
  <2>6. CASE MakeWtag
    BY <2>6 DEF MakeWtag
  <2>7. CASE MakeDb
    BY <2>7 DEF MakeDb
  <2>8. CASE MakeFails
    BY <2>8 DEF MakeFails
  <2>9. CASE MakeOpen
    <3>1. rtag' = rtag /\ rtag[1].pos = 0 /\ cpc = "idle" /\ cpc' = cpc
      BY <2>9 DEF MakeOpen, MakeInv
    <3> QED BY <2>9, <3>1 DEF MakeOpen
  <2> QED BY <1>4, <2>1, <2>2, <2>3, <2>4, <2>5, <2>6, <2>7, <2>8, <2>9 DEF Create
<1>5. CASE WriteMsg
  <2>1. CASE PutFull
    BY <2>1 DEF PutFull
  <2>2. CASE PutNotFull
    BY <2>2 DEF PutNotFull
  <2>3. CASE PutFits
    BY <2>3 DEF PutFits
  <2>4. CASE PutOverflows
    BY <2>4 DEF PutOverflows
  <2>5. CASE WriteHead
    BY <2>5 DEF WriteHead
  <2>6. CASE WriteBody
    BY <2>6 DEF WriteBody
  <2>7. CASE WritePos
    <3>1. RecordLen(pmsg) \in Nat
      BY RecordLenNat
    <3> QED BY <2>7, <3>1 DEF WritePos
  <2>8. CASE LoadPutNum
    BY <2>8 DEF LoadPutNum
  <2>9. CASE IncPutNum
    BY <2>9 DEF IncPutNum
  <2>10. CASE PutReturn
    BY <2>10 DEF PutReturn
  <2> QED BY <1>5, <2>1, <2>2, <2>3, <2>4, <2>5, <2>6, <2>7, <2>8, <2>9, <2>10 DEF WriteMsg
<1>6. CASE NextWrite
  <2>1. CASE NextWriteNoSpace
    BY <2>1 DEF NextWriteNoSpace
  <2>2. CASE NextWriteLock
    BY <2>2 DEF NextWriteLock
  <2>3. CASE NextWriteWtag
    BY <2>3 DEF NextWriteWtag
  <2>4. CASE NextWriteNoWtag
    BY <2>4 DEF NextWriteNoWtag
  <2>5. CASE NextWriteDb
    BY <2>5 DEF NextWriteDb
  <2>6. CASE NextWriteNoDb
    BY <2>6 DEF NextWriteNoDb
  <2>7. CASE NextWritePos
    <3>1. /\ open /\ cpc = "idle" /\ UNCHANGED <<open, ridx, rpos, rmap, rtag, rtag_fd, cpc>>
          /\ WriteFile' = widx + 1 /\ ReadFile' = ridx /\ ridx <= widx /\ ridx \in Nat
          /\ widx \in Nat /\ widx' \in {widx, widx + 1} /\ rtag[ridx].pos <= rpos
          /\ (rtag_fd = NoFd => ridx < widx /\ Spent)
      BY <2>7 DEF NextWritePos
    <3> HIDE DEF ReadFile, WriteFile
    <3>2. ReadFile' # WriteFile' /\ ridx < WriteFile'
      BY ONLY <3>1
    <3>3. rtag_fd' = NoFd => ridx' < widx' /\ Spent'
      BY ONLY <3>1 DEF Spent
    <3> HIDE DEF Spent
    <3> QED BY ONLY <3>1, <3>2, <3>3 DEF ReadInv, Hand
  <2>8. CASE NextWriteIndex
    <3>1. /\ open /\ cpc = "idle" /\ UNCHANGED <<open, ridx, rpos, rmap, rtag, rtag_fd, cpc>>
          /\ WriteFile' = widx + 1 /\ ReadFile' = ridx /\ ridx <= widx /\ ridx \in Nat
          /\ widx \in Nat /\ widx' \in {widx, widx + 1} /\ rtag[ridx].pos <= rpos
          /\ (rtag_fd = NoFd => ridx < widx /\ Spent)
      BY <2>8 DEF NextWriteIndex
    <3> HIDE DEF ReadFile, WriteFile
    <3>2. ReadFile' # WriteFile' /\ ridx < WriteFile'
      BY ONLY <3>1
    <3>3. rtag_fd' = NoFd => ridx' < widx' /\ Spent'
      BY ONLY <3>1 DEF Spent
    <3> HIDE DEF Spent
    <3> QED BY ONLY <3>1, <3>2, <3>3 DEF ReadInv, Hand
  <2>9. CASE NextWriteHead
    BY <2>9 DEF NextWriteHead
  <2>10. CASE NextWriteUnlink
    BY <2>10 DEF NextWriteUnlink
  <2> QED BY <1>6, <2>1, <2>2, <2>3, <2>4, <2>5, <2>6, <2>7, <2>8, <2>9, <2>10 DEF NextWrite
<1>7. CASE GetData
  <2>1. CASE EndIndex
    BY <2>1 DEF EndIndex
  <2>2. CASE EndPos
    BY <2>2 DEF EndPos
  <2>3. CASE EndReset
    <3>1. /\ open /\ ridx = widx /\ rpos <= wpos /\ rtag[ridx].pos <= rpos
          /\ rtag[ridx].pos \in Nat /\ rpos \in Nat /\ wpos \in Nat /\ rtag_fd # NoFd
      BY <2>3 DEF EndReset
    <3> QED BY <2>3, <3>1 DEF EndReset
  <2>4. CASE ParseOk
    <3> DEFINE n == RecordLen(MsgAt(db[ridx], rpos))
    <3>1. /\ open /\ rmap = ridx /\ ~ Spent /\ cpc = "parse" /\ Parsed = "OK" /\ cpc' = "wrap"
          /\ UNCHANGED <<open, ridx, rmap, widx, wpos, rtag_fd, rtag, ppc>> /\ ppc = "idle"
      BY <2>4, ParseFinds DEF ParseOk
    <3>2. rpos' = rpos + n
      BY <2>4, <3>1 DEF ParseOk
    <3>3. n \in Nat /\ (ridx = widx => rpos + n <= wpos)
      BY <3>1, ReadBefore
    <3>4. rtag_fd = ridx /\ rtag_fd # NoFd /\ rtag[ridx].pos <= rpos
      BY <3>1 DEF RtagInv
    <3>5. rpos \in Nat /\ rtag[ridx].pos \in Nat
      BY <3>1
    <3> HIDE DEF n
    <3>6. ridx \in Nat /\ widx \in Nat /\ wpos \in Nat
      BY <3>1
    <3>7. rtag[ridx].pos <= rpos' /\ (ridx = widx => rpos' <= wpos)
      BY ONLY <3>2, <3>3, <3>4, <3>5, <3>6
    <3> QED BY ONLY <3>1, <3>4, <3>7
               DEF ReadInv, ReadFile, WriteFile, Hand
  <2>5. CASE ParseSkip
    <3>1. /\ open /\ cpc = "parse" /\ cpc' = "index" /\ rmap \in mapped
          /\ UNCHANGED <<open, ridx, rmap, widx, wpos, rtag_fd, rtag, ppc>> /\ ppc = "idle"
      BY <2>5 DEF ParseSkip
    <3>2. NoTornRead
      BY NoTorn DEF InTurn
    <3>3. rpos' = rpos + 1
      BY <2>5, <3>1, <3>2 DEF ParseSkip, NoTornRead, RecInv, StaleInv
    <3>4. /\ rpos \in Nat /\ rtag[ridx].pos \in Nat /\ rtag[ridx].pos <= rpos /\ wpos \in Nat
          /\ (ridx = widx => rpos + MsgHead < wpos) /\ (rtag_fd = NoFd => ridx < widx /\ Spent)
      BY <3>1
    <3>5. MsgHead \in Nat /\ MaxFile \in Nat
      BY LayoutAssumption
    <3>6. rtag[ridx].pos <= rpos' /\ (ridx = widx => rpos' <= wpos)
      BY ONLY <3>3, <3>4, <3>5
    <3>7. Spent => Spent'
      BY ONLY <3>1, <3>3, <3>4, <3>5 DEF Spent
    <3> QED BY ONLY <3>1, <3>4, <3>6, <3>7 DEF ReadInv, ReadFile, WriteFile, Hand
  <2>6. CASE ParseBeyond
    <3>1. Spent /\ open
      BY <2>6, ParseFinds DEF ParseBeyond
    <3> QED BY <2>6, <3>1 DEF ParseBeyond
  <2>7. CASE WrapGetNum
    BY <2>7 DEF WrapGetNum
  <2>8. CASE NoWrap
    BY <2>8 DEF NoWrap
  <2>9. CASE WrapLoad
    BY <2>9 DEF WrapLoad
  <2>10. CASE WrapPutNum
    BY <2>10 DEF WrapPutNum
  <2>11. CASE NoteRtag
    <3>1. /\ open /\ rtag_fd = ridx /\ ridx # NoFd /\ cpc = "rtag" /\ cpc' = "ret"
          /\ rtag' = TagWrite(rtag, rtag_fd, get_num, rpos)
          /\ UNCHANGED <<open, ridx, rmap, rpos, widx, wpos, rtag_fd, ppc>>
      BY <2>11 DEF NoteRtag
    <3>2. rtag'[ridx].pos = rpos
      BY ONLY <3>1 DEF TagWrite, With
    <3>3. rpos \in Nat /\ (ReadFile = WriteFile => rpos <= wpos) /\ ReadFile' = ReadFile
          /\ WriteFile' = WriteFile
      BY <3>1
    <3> QED BY ONLY <3>1, <3>2, <3>3 DEF ReadInv, Hand
  <2>12. CASE GetReturn
    BY <2>12 DEF GetReturn
  <2> QED BY <1>7, <2>1, <2>2, <2>3, <2>4, <2>5, <2>6, <2>7, <2>8, <2>9, <2>10,
         <2>11, <2>12 DEF GetData
<1>8. CASE NextRead
  <2>1. CASE NextReadEnd
    BY <2>1 DEF NextReadEnd
  <2>2. CASE NextReadLock
    BY <2>2 DEF NextReadLock
  <2>3. CASE NextReadRtag
    <3>1. /\ open /\ cpc = "r_open" /\ cpc' = "r_write" /\ ridx \in DOMAIN rtag
          /\ rtag' = Created(rtag, ridx + 1, Empty) /\ rtag_fd' = ridx + 1 /\ ridx + 1 # NoFd
          /\ UNCHANGED <<open, ridx, rmap, rpos, widx, wpos, ppc>>
      BY <2>3 DEF NextReadRtag
    <3>2. rtag'[ridx] = rtag[ridx]
      BY ONLY <3>1 DEF Created, With
    <3>3. /\ (ReadFile = WriteFile => rpos <= wpos) /\ ReadFile' = ReadFile
          /\ WriteFile' = WriteFile /\ Spent' = Spent /\ Spent /\ rtag[ridx].pos <= rpos
      BY <3>1
    <3> HIDE DEF ReadFile, WriteFile, Spent
    <3> QED BY ONLY <3>1, <3>2, <3>3 DEF ReadInv, Hand
  <2>4. CASE NextReadNoRtag
    BY <2>4 DEF NextReadNoRtag
  <2>5. CASE NextReadNote
    <3>1. /\ open /\ cpc = "r_write" /\ cpc' = "r_unlink" /\ ridx \in Nat /\ widx \in Nat
          /\ rtag_fd = ridx + 1 /\ ridx + 1 <= widx
          /\ rtag' = TagWrite(rtag, rtag_fd, get_num, FileHead)
          /\ ridx' = ridx + 1 /\ rpos' = FileHead /\ FileHead \in Nat
          /\ UNCHANGED <<open, rmap, widx, wpos, rtag_fd, ppc>>
          /\ ppc = "idle"
      BY <2>5 DEF NextReadNote, RtagInv
    <3>2. rtag'[ridx + 1].pos = FileHead
      BY ONLY <3>1 DEF TagWrite, With, NoFd
    <3>3. ReadFile' = ridx /\ WriteFile' = widx /\ ridx # widx /\ rtag_fd' # NoFd
      BY ONLY <3>1 DEF ReadFile, WriteFile, NoFd
    <3>4. rtag'[ridx'].pos <= rpos'
      BY ONLY <3>1, <3>2
    <3> HIDE DEF ReadFile, WriteFile, Spent
    <3> QED BY ONLY <3>1, <3>3, <3>4 DEF ReadInv, Hand
  <2>6. CASE NextReadUnlink
    <3>1. /\ open /\ cpc = "r_unlink" /\ cpc' = "r_map" /\ ridx \in DOMAIN rtag /\ ridx \in Nat
          /\ rtag' = Without(rtag, ridx - 1) /\ rtag_fd = ridx /\ ridx # NoFd
          /\ UNCHANGED <<open, ridx, rmap, rpos, widx, wpos, rtag_fd, ppc>>
      BY <2>6 DEF NextReadUnlink, RtagInv
    <3>2. rtag'[ridx] = rtag[ridx]
      <4>1. ridx # ridx - 1
        BY <3>1
      <4> QED BY ONLY <3>1, <4>1 DEF Without
    <3>3. /\ (ReadFile = WriteFile => rpos <= wpos) /\ ReadFile' = ReadFile
          /\ WriteFile' = WriteFile /\ rtag[ridx].pos <= rpos /\ rpos = FileHead
      BY <3>1
    <3> HIDE DEF ReadFile, WriteFile, Spent
    <3> QED BY ONLY <3>1, <3>2, <3>3 DEF ReadInv, Hand
  <2>7. CASE NextReadShare
    <3>1. /\ open /\ cpc = "r_map" /\ cpc' = "index" /\ rtag_fd = ridx /\ ridx # NoFd
          /\ UNCHANGED <<open, ridx, rpos, widx, wpos, rtag_fd, rtag, ppc>>
          /\ rtag[ridx].pos <= rpos
      BY <2>7 DEF NextReadShare, RtagInv
    <3>2. rpos = FileHead /\ wpos >= FileHead
      BY <3>1 DEF WriteInv, PlaceInv
    <3>3. rpos' <= wpos'
      BY <3>1, <3>2
    <3> HIDE DEF ReadFile, WriteFile, Spent
    <3> QED BY ONLY <3>1, <3>3 DEF ReadInv, Hand
  <2>8. CASE NextReadMap
    <3>1. /\ open /\ cpc = "r_map" /\ cpc' = "index" /\ rtag_fd = ridx /\ ridx # NoFd
          /\ UNCHANGED <<open, ridx, rpos, widx, wpos, rtag_fd, rtag, ppc>>
          /\ rtag[ridx].pos <= rpos
      BY <2>8 DEF NextReadMap, RtagInv
    <3>2. rpos = FileHead /\ wpos >= FileHead
      BY <3>1 DEF WriteInv, PlaceInv
    <3>3. rpos' <= wpos'
      BY <3>1, <3>2
    <3> HIDE DEF ReadFile, WriteFile, Spent
    <3> QED BY ONLY <3>1, <3>3 DEF ReadInv, Hand
  <2>9. CASE NextReadNoMap
    BY <2>9 DEF NextReadNoMap
  <2> QED BY <1>8, <2>1, <2>2, <2>3, <2>4, <2>5, <2>6, <2>7, <2>8, <2>9 DEF NextRead
<1>9. CASE Process
  <2>1. CASE Close
    BY <2>1 DEF Close, Stop
  <2>2. CASE Crash
    BY <2>2, QuietKill DEF InTurn
  <2>3. CASE Segv
    BY <2>3, NoStray
  <2>4. CASE OpenQueue
    <3>1. PICK r \in DOMAIN rtag, w \in DOMAIN wtag :
              /\ Openable(r, w) /\ ridx' = r /\ widx' = w /\ rtag_fd' = r
              /\ rpos' = rtag[r].pos /\ wpos' = wtag[w].pos
      BY <2>4 DEF OpenQueue
    <3>2. ~ open /\ ppc = "idle" /\ cpc = "idle" /\ UNCHANGED <<rtag, ppc, cpc>> /\ r # NoFd
      BY <2>4, <3>1 DEF OpenQueue, Directory
    <3>3. r = w => rtag[r].pos <= wtag[w].pos
      BY <3>1, <3>2 DEF RestInv, Openable, HandleFiles
    <3>4. ReadFile' = r /\ WriteFile' = w
      BY <3>1, <3>2
    <3>5. rtag[r].pos <= rtag[r].pos
      <4>1. rtag[r] \in Tag \cup {Empty}
        BY <3>1 DEF Directory
      <4> QED BY <4>1 DEF Tag, Empty
    <3> HIDE DEF ReadFile, WriteFile, Spent
    <3> QED BY ONLY <3>1, <3>2, <3>3, <3>4, <3>5 DEF ReadInv, Hand
  <2>5. CASE OpenWithout
    BY <2>5 DEF OpenWithout
  <2> QED BY <1>9, <2>1, <2>2, <2>3, <2>4, <2>5 DEF Process
<1>10. ~ PutStray /\ ~ GetStray
  BY NoStrays DEF RecInv
<1> QED BY <1>1, <1>2, <1>3, <1>4, <1>5, <1>6, <1>7, <1>8, <1>9, <1>10
        DEF Next, PutStep, GetStep

\* What is at rest can be read from the noted position on.
LEMMA RestStep ==
    ASSUME Inv, HeldInv, RecInv, TurnsInv, Next, InTurn PROVE RestInv'
<1> USE DEF Inv, HeldInv, RecInv, TurnsInv, InTurn, Orderly, WriteFilesOpen, TypeOK,
            LifeInv, MutexInv, IndexInv, Creating, PutHolds, GetHolds, ReadFile,
            WriteFile, NoMap, NoFd
<1> USE DEF RestInv
<1>1. CASE \E len \in Lens : PutBegin(len)
  BY <1>1 DEF PutBegin
<1>2. CASE GetBegin
  BY <1>2 DEF GetBegin
<1>3. CASE GetNothing
  BY <1>3 DEF GetNothing, vars
<1>4. CASE Create
  <2>1. CASE CreatNoSpace
    BY <2>1 DEF CreatNoSpace
  <2>2. CASE CreatSpace
    BY <2>2 DEF CreatSpace
  <2>3. CASE Wipe
    BY <2>3 DEF Wipe
  <2>4. CASE Wiped
    BY <2>4 DEF Wiped
  <2>5. CASE MakeRtag
    BY <2>5 DEF MakeRtag
  <2>6. CASE MakeWtag
    BY <2>6 DEF MakeWtag
  <2>7. CASE MakeDb
    BY <2>7 DEF MakeDb
  <2>8. CASE MakeFails
    <3>1. DOMAIN db = {} /\ db' = db
      BY <2>8 DEF MakeFails, MakeInv
    <3> QED BY <3>1
  <2>9. CASE MakeOpen
    BY <2>9 DEF MakeOpen
  <2> QED BY <1>4, <2>1, <2>2, <2>3, <2>4, <2>5, <2>6, <2>7, <2>8, <2>9 DEF Create
<1>5. CASE WriteMsg
  BY <1>5 DEF WriteMsg, PutFull, PutNotFull, PutFits, PutOverflows, WriteHead,
     WriteBody, WritePos, LoadPutNum, IncPutNum, PutReturn
<1>6. CASE NextWrite
  BY <1>6 DEF NextWrite, NextWriteNoSpace, NextWriteLock, NextWriteWtag,
     NextWriteNoWtag, NextWriteDb, NextWriteNoDb, NextWritePos,
     NextWriteIndex, NextWriteHead, NextWriteUnlink
<1>7. CASE GetData
  BY <1>7 DEF GetData, EndIndex, EndPos, EndReset, ParseOk, ParseSkip, ParseBeyond,
     WrapGetNum, NoWrap, WrapLoad, WrapPutNum, NoteRtag, GetReturn
<1>8. CASE NextRead
  BY <1>8 DEF NextRead, NextReadEnd, NextReadLock, NextReadRtag, NextReadNoRtag,
     NextReadNote, NextReadUnlink, NextReadShare, NextReadMap, NextReadNoMap
<1>9. CASE Process
  <2>1. CASE Close \/ Crash
    <3>1. ppc \in QuietPut /\ cpc \in QuietGet /\ UNCHANGED <<db, rtag, wtag>>
      <4>1. CASE Close
        BY <4>1 DEF Close, Stop, QuietPut, QuietGet
      <4>2. CASE Crash
        BY <4>2, QuietKill
      <4> QED BY <2>1, <4>1, <4>2
    <3>2. CASE ~ open
      BY <3>1, <3>2 DEF QuietPut
    <3>3. CASE open
      <4>0. ppc \in {"idle", "lock"} /\ cpc \notin {"r_write", "r_unlink", "r_map"}
        BY <3>1, <3>3 DEF QuietPut, QuietGet
      <4>1. /\ DOMAIN rtag = {ridx} /\ DOMAIN wtag = {widx} /\ wtag[widx].pos = wpos
        BY <3>3, <4>0 DEF RtagInv, RtagFiles, WtagInv, WtagFiles, NotedInv, Fresh
      <4>2. rtag[ridx].pos <= rpos /\ (ridx = widx => rpos <= wpos)
        BY <3>3, <4>0 DEF ReadInv
      <4>3. rtag[ridx].pos \in Nat /\ rpos \in Nat /\ wpos \in Nat
        BY <3>3, NotedPos
      <4>4. ridx = widx => rtag[ridx].pos <= wtag[widx].pos
        BY <4>1, <4>2, <4>3
      <4>5. \A r \in DOMAIN rtag, w \in DOMAIN wtag : r = w => rtag[r].pos <= wtag[w].pos
        BY ONLY <4>1, <4>4
      <4> QED BY <3>1, <4>5
    <3> QED BY <3>2, <3>3
  <2>3. CASE Segv
    BY <2>3, NoStray
  <2>4. CASE OpenQueue
    BY <2>4 DEF OpenQueue
  <2>5. CASE OpenWithout
    BY <2>5 DEF OpenWithout
  <2> QED BY <1>9, <2>1, <2>3, <2>4, <2>5 DEF Process
<1>10. ~ PutStray /\ ~ GetStray
  BY NoStrays DEF RecInv
<1> QED BY <1>1, <1>2, <1>3, <1>4, <1>5, <1>6, <1>7, <1>8, <1>9, <1>10
        DEF Next, PutStep, GetStep

\* What a step adds to what the callers saw.
LEMMA HistStep == ASSUME RecInv, Next
    PROVE  /\ nput' = nput \/ WriteHead
           /\ got' = got \/ GetReturn
           /\ sent' = sent \/ IncPutNum
           /\ acked' = acked \/ PutReturn
<1>1. CASE \E len \in Lens : PutBegin(len)
  BY <1>1 DEF PutBegin
<1>2. CASE GetBegin
  BY <1>2 DEF GetBegin
<1>3. CASE GetNothing
  BY <1>3 DEF GetNothing, vars
<1>4. CASE Create
  BY <1>4 DEF Create, CreatNoSpace, CreatSpace, Wipe, Wiped, MakeRtag, MakeWtag,
     MakeDb, MakeFails, MakeOpen
<1>5. CASE WriteMsg
  BY <1>5 DEF WriteMsg, PutFull, PutNotFull, PutFits, PutOverflows, WriteHead,
     WriteBody, WritePos, LoadPutNum, IncPutNum, PutReturn
<1>6. CASE NextWrite
  BY <1>6 DEF NextWrite, NextWriteNoSpace, NextWriteLock, NextWriteWtag,
     NextWriteNoWtag, NextWriteDb, NextWriteNoDb, NextWritePos,
     NextWriteIndex, NextWriteHead, NextWriteUnlink
<1>7. CASE GetData
  BY <1>7 DEF GetData, EndIndex, EndPos, EndReset, ParseOk, ParseSkip, ParseBeyond,
     WrapGetNum, NoWrap, WrapLoad, WrapPutNum, NoteRtag, GetReturn
<1>8. CASE NextRead
  BY <1>8 DEF NextRead, NextReadEnd, NextReadLock, NextReadRtag, NextReadNoRtag,
     NextReadNote, NextReadUnlink, NextReadShare, NextReadMap, NextReadNoMap
<1>9. CASE Process
  BY <1>9 DEF Process, Close, Crash, Segv, OpenQueue, OpenWithout, Stop
<1>10. ~ PutStray /\ ~ GetStray
  BY NoStrays DEF RecInv
<1> QED BY <1>1, <1>2, <1>3, <1>4, <1>5, <1>6, <1>7, <1>8, <1>9, <1>10
        DEF Next, PutStep, GetStep

\* Messages are numbered as they are written.
LEMMA NumberStep ==
    ASSUME Inv, HeldInv, RecInv, TurnsInv, Next, InTurn PROVE NumberInv'
<1> USE DEF Inv, HeldInv, RecInv, TurnsInv, InTurn, Orderly, WriteFilesOpen, TypeOK,
            LifeInv, MutexInv, IndexInv, Creating, PutHolds, GetHolds, ReadFile,
            WriteFile, NoMap, NoFd
<1> USE DEF NumberInv, Writing
<1>1. CASE \E len \in Lens : PutBegin(len)
  BY <1>1 DEF PutBegin
<1>2. CASE GetBegin
  BY <1>2 DEF GetBegin
<1>3. CASE GetNothing
  BY <1>3 DEF GetNothing, vars
<1>4. CASE Create
  BY <1>4 DEF Create, CreatNoSpace, CreatSpace, Wipe, Wiped, MakeRtag, MakeWtag,
     MakeDb, MakeFails, MakeOpen
<1>5. CASE WriteMsg
  BY <1>5 DEF WriteMsg, PutFull, PutNotFull, PutFits, PutOverflows, WriteHead,
     WriteBody, WritePos, LoadPutNum, IncPutNum, PutReturn
<1>6. CASE NextWrite
  BY <1>6 DEF NextWrite, NextWriteNoSpace, NextWriteLock, NextWriteWtag,
     NextWriteNoWtag, NextWriteDb, NextWriteNoDb, NextWritePos,
     NextWriteIndex, NextWriteHead, NextWriteUnlink
<1>7. CASE GetData
  BY <1>7 DEF GetData, EndIndex, EndPos, EndReset, ParseOk, ParseSkip, ParseBeyond,
     WrapGetNum, NoWrap, WrapLoad, WrapPutNum, NoteRtag, GetReturn
<1>8. CASE NextRead
  BY <1>8 DEF NextRead, NextReadEnd, NextReadLock, NextReadRtag, NextReadNoRtag,
     NextReadNote, NextReadUnlink, NextReadShare, NextReadMap, NextReadNoMap
<1>9. CASE Process
  <2>1. CASE Close
    BY <2>1 DEF Close, Stop
  <2>2. CASE Crash
    BY <2>2, QuietKill DEF InTurn, QuietPut, QuietGet
  <2>3. CASE Segv
    BY <2>3, NoStray
  <2>4. CASE OpenQueue
    BY <2>4 DEF OpenQueue
  <2>5. CASE OpenWithout
    BY <2>5 DEF OpenWithout
  <2> QED BY <1>9, <2>1, <2>2, <2>3, <2>4, <2>5 DEF Process
<1>10. ~ PutStray /\ ~ GetStray
  BY NoStrays DEF RecInv
<1> QED BY <1>1, <1>2, <1>3, <1>4, <1>5, <1>6, <1>7, <1>8, <1>9, <1>10
        DEF Next, PutStep, GetStep

\* The number of a record is a number.
LEMMA RecordId == ASSUME RecInv, NEW i \in DOMAIN db, NEW o \in Offset
                  PROVE  db[i][o][1] \in Nat /\ db[i][o][2] \in Nat
<1>1. db[i][o] \in Cell
  BY DEF RecInv, WholeInv, File
<1> QED BY <1>1 DEF Cell

\* No number is greater than that of the last record written.
LEMMA IdStep ==
    ASSUME Inv, HeldInv, RecInv, TurnsInv, Next, InTurn PROVE IdInv'
<1>1. /\ nput \in Nat
      /\ nput' = nput \/ nput' = nput + 1
      /\ WriteHead => nput' = nput + 1 /\ pmsg.id = nput + 1
  BY HistStep DEF Inv, TypeOK, WriteHead, TurnsInv, NumberInv, Writing
<1>2. ASSUME NEW i \in DOMAIN db', NEW o \in Offset, Starts(db'[i], o)
      PROVE  db'[i][o][1] <= nput'
  <2>1. CASE i \in DOMAIN db /\ Starts(db[i], o) /\ db'[i][o] = db[i][o]
    <3>1. db[i][o][1] <= nput
      BY <2>1 DEF TurnsInv, IdInv
    <3> QED BY <1>1, <2>1, <3>1, RecordId
  <2>2. CASE WriteHead /\ db'[i][o] = <<pmsg.id, pmsg.len, 0>>
    BY <1>1, <2>2
  <2> QED BY <1>2, <2>1, <2>2, StartsStep DEF InTurn
<1>3. ASSUME NEW g \in DOMAIN got' PROVE got'[g].id <= nput'
  <2>1. got \in Seq(Message) /\ cmsg \in Message
    BY DEF Inv, TypeOK
  <2>2. CASE got' = got
    <3>1. g \in DOMAIN got /\ got[g] \in Message
      BY <1>3, <2>1, <2>2
    <3>2. got[g].id \in Nat /\ got[g].id <= nput
      BY <3>1 DEF TurnsInv, IdInv, Message
    <3> QED BY <1>1, <2>2, <3>2
  <2>3. CASE GetReturn
    <3>1. got' = Append(got, cmsg) /\ Hand /\ nput' = nput
      BY <2>3 DEF GetReturn, Hand
    <3>2. cmsg.id <= nput
      BY <3>1 DEF TurnsInv, HandInv
    <3>3. got'[g] = cmsg \/ (g \in DOMAIN got /\ got'[g] = got[g])
      BY <1>3, <2>1, <3>1
    <3> QED BY <3>1, <3>2, <3>3 DEF TurnsInv, IdInv
  <2> QED BY <2>2, <2>3, HistStep
<1> QED BY <1>2, <1>3 DEF IdInv

\* Records lie in the files in the order of their numbers.
LEMMA OrderStep ==
    ASSUME Inv, HeldInv, RecInv, TurnsInv, Next, InTurn PROVE OrderInv'
<1> SUFFICES ASSUME NEW i \in DOMAIN db', NEW j \in DOMAIN db', NEW o \in Offset, NEW p \in Offset,
                    Starts(db'[i], o), Starts(db'[j], p), i < j \/ (i = j /\ o < p)
             PROVE  db'[i][o][1] < db'[j][p][1]
  BY DEF OrderInv
<1>1. CASE /\ i \in DOMAIN db /\ Starts(db[i], o) /\ db'[i][o] = db[i][o]
           /\ j \in DOMAIN db /\ Starts(db[j], p) /\ db'[j][p] = db[j][p]
  BY <1>1 DEF TurnsInv, OrderInv
<1>2. ASSUME WriteHead
      PROVE  /\ wmap = WriteFile /\ WriteFile \in Nat /\ Frontier = wpos /\ wpos \in Nat
             /\ open /\ pmsg.id = nput + 1 /\ nput \in Nat
  <2>1. ppc = "rec"
    BY <1>2 DEF WriteHead
  <2>2. wmap = WriteFile /\ open
    BY <2>1, PutPlace
  <2> QED BY <2>1, <2>2, WriteFileThere DEF Frontier, TurnsInv, NumberInv, Writing, Inv, TypeOK
<1>3. CASE /\ WriteHead /\ j = wmap /\ p = wpos /\ db'[j][p] = <<pmsg.id, pmsg.len, 0>>
           /\ i \in DOMAIN db /\ Starts(db[i], o) /\ db'[i][o] = db[i][o]
  <2>1. db[i][o][1] <= nput /\ db[i][o][1] \in Nat
    BY <1>3, RecordId DEF TurnsInv, IdInv
  <2> QED BY <1>2, <1>3, <2>1
<1>4. CASE /\ WriteHead /\ i = wmap /\ o = wpos
           /\ j \in DOMAIN db /\ Starts(db[j], p)
  <2>1. j \in Nat /\ p \in Nat /\ (j < WriteFile \/ (j = WriteFile /\ p < wpos))
    BY <1>2, <1>4, BeforeWrite
  <2> QED BY <1>2, <1>4, <2>1
<1>5. CASE i = wmap /\ o = wpos /\ j = wmap /\ p = wpos /\ WriteHead
  BY <1>2, <1>5
<1> QED BY <1>1, <1>3, <1>4, <1>5, StartsStep DEF InTurn

\* A noted position never moves back over a record.
LEMMA NotedAheadStep ==
    ASSUME Inv, HeldInv, RecInv, TurnsInv, Next, InTurn,
           NEW r \in DOMAIN rtag', NEW i \in DOMAIN db, NEW o \in Offset,
           Starts(db[i], o), Noting(r)', NotedAhead(r, i, o)'
    PROVE  \E q \in DOMAIN rtag : Noting(q) /\ NotedAhead(q, i, o)
<1> USE DEF Inv, HeldInv, RecInv, TurnsInv, InTurn, Orderly, WriteFilesOpen, TypeOK,
            LifeInv, MutexInv, IndexInv, Creating, PutHolds, GetHolds, ReadFile,
            WriteFile, NoMap, NoFd
<1> USE DEF TurnInv, Noting, NotedAhead
<1>0. /\ i \in Nat \ {0} /\ o \in Nat
      /\ open => ridx \in DOMAIN rtag /\ rtag[ridx].pos \in Nat /\ ridx \in Nat
  <2>1. i \in Nat \ {0}
    BY DEF Directory
  <2>2. o \in Nat
    BY LayoutAssumption DEF Offset
  <2> QED BY <2>1, <2>2, NotedPos
<1>1. CASE \E len \in Lens : PutBegin(len)
  BY <1>1, <1>0 DEF PutBegin
<1>2. CASE GetBegin
  BY <1>2, <1>0 DEF GetBegin
<1>3. CASE GetNothing
  BY <1>3, <1>0 DEF GetNothing, vars
<1>4. CASE Create
  <2>1. CASE CreatNoSpace
    BY <2>1, <1>0 DEF CreatNoSpace
  <2>2. CASE CreatSpace
    BY <2>2, <1>0 DEF CreatSpace
  <2>3. CASE Wipe
    BY <2>3, <1>0 DEF Wipe
  <2>4. CASE Wiped
    BY <2>4, <1>0 DEF Wiped
  <2>5. CASE MakeRtag
    BY <2>5, <1>0 DEF MakeRtag
  <2>6. CASE MakeWtag
    BY <2>6, <1>0 DEF MakeWtag
  <2>7. CASE MakeDb
    BY <2>7, <1>0 DEF MakeDb
  <2>8. CASE MakeFails
    <3>1. DOMAIN db = {}
      BY <2>8 DEF MakeFails, MakeInv
    <3> QED BY <3>1
  <2>9. CASE MakeOpen
    <3>1. DOMAIN db = {1} /\ db[1] = ZeroFile
      BY <2>9 DEF MakeOpen, MakeInv
    <3> QED BY <3>1 DEF Starts, ZeroFile, Zero
  <2> QED BY <1>4, <2>1, <2>2, <2>3, <2>4, <2>5, <2>6, <2>7, <2>8, <2>9 DEF Create
<1>5. CASE WriteMsg
  BY <1>5, <1>0 DEF WriteMsg, PutFull, PutNotFull, PutFits, PutOverflows, WriteHead,
     WriteBody, WritePos, LoadPutNum, IncPutNum, PutReturn
<1>6. CASE NextWrite
  BY <1>6, <1>0 DEF NextWrite, NextWriteNoSpace, NextWriteLock, NextWriteWtag,
     NextWriteNoWtag, NextWriteDb, NextWriteNoDb, NextWritePos,
     NextWriteIndex, NextWriteHead, NextWriteUnlink
<1>7. CASE GetData
  <2>1. CASE EndIndex
    BY <2>1, <1>0 DEF EndIndex
  <2>2. CASE EndPos
    BY <2>2, <1>0 DEF EndPos
  <2>3. CASE EndReset
    BY <2>3, <1>0 DEF EndReset
  <2>4. CASE ParseOk
    BY <2>4, <1>0 DEF ParseOk
  <2>5. CASE ParseSkip
    BY <2>5, <1>0 DEF ParseSkip
  <2>6. CASE ParseBeyond
    BY <2>6, <1>0 DEF ParseBeyond
  <2>7. CASE WrapGetNum
    BY <2>7, <1>0 DEF WrapGetNum
  <2>8. CASE NoWrap
    BY <2>8, <1>0 DEF NoWrap
  <2>9. CASE WrapLoad
    BY <2>9, <1>0 DEF WrapLoad
  <2>10. CASE WrapPutNum
    BY <2>10, <1>0 DEF WrapPutNum
  <2>11. CASE NoteRtag
    <3>1. /\ open /\ rtag_fd = ridx /\ ridx # NoFd /\ open' /\ ridx' = ridx
          /\ rtag' = TagWrite(rtag, rtag_fd, get_num, rpos)
          /\ rtag[ridx].pos <= rpos /\ rpos \in Nat
      BY <2>11 DEF NoteRtag, ReadInv, Hand
    <3>2. rtag'[ridx].pos = rpos
      BY ONLY <3>1 DEF TagWrite, With
    <3>3. r = ridx /\ Noting(ridx)
      BY <3>1
    <3>4. NotedAhead(ridx, i, o)
      BY <1>0, <3>1, <3>2, <3>3
    <3> HIDE DEF Noting, NotedAhead
    <3> QED BY <1>0, <3>1, <3>3, <3>4
  <2>12. CASE GetReturn
    BY <2>12, <1>0 DEF GetReturn
  <2> QED BY <1>7, <2>1, <2>2, <2>3, <2>4, <2>5, <2>6, <2>7, <2>8, <2>9, <2>10,
         <2>11, <2>12 DEF GetData
<1>8. CASE NextRead
  <2>1. CASE NextReadEnd
    BY <2>1, <1>0 DEF NextReadEnd
  <2>2. CASE NextReadLock
    BY <2>2, <1>0 DEF NextReadLock
  <2>3. CASE NextReadRtag
    <3>1. /\ open /\ open' /\ ridx' = ridx /\ ridx \in DOMAIN rtag
          /\ rtag' = Created(rtag, ridx + 1, Empty)
      BY <2>3, <1>0 DEF NextReadRtag
    <3>2. rtag'[ridx] = rtag[ridx]
      BY ONLY <3>1 DEF Created, With
    <3> QED BY <3>1, <3>2
  <2>4. CASE NextReadNoRtag
    BY <2>4, <1>0 DEF NextReadNoRtag
  <2>5. CASE NextReadNote
    <3>1. open /\ open' /\ ridx' = ridx + 1
      BY <2>5 DEF NextReadNote
    <3>2. r = ridx + 1 /\ i > ridx
      BY <1>0, <3>1
    <3> QED BY <1>0, <3>1, <3>2
  <2>6. CASE NextReadUnlink
    <3>1. /\ open /\ open' /\ ridx' = ridx /\ ridx \in DOMAIN rtag
          /\ rtag' = Without(rtag, ridx - 1)
      BY <2>6, <1>0 DEF NextReadUnlink
    <3>2. rtag'[ridx] = rtag[ridx]
      <4>1. ridx # ridx - 1
        BY <1>0, <3>1
      <4> QED BY ONLY <3>1, <4>1 DEF Without
    <3> QED BY <3>1, <3>2
  <2>7. CASE NextReadShare
    BY <2>7, <1>0 DEF NextReadShare
  <2>8. CASE NextReadMap
    BY <2>8, <1>0 DEF NextReadMap
  <2>9. CASE NextReadNoMap
    BY <2>9, <1>0 DEF NextReadNoMap
  <2> QED BY <1>8, <2>1, <2>2, <2>3, <2>4, <2>5, <2>6, <2>7, <2>8, <2>9 DEF NextRead
<1>9. CASE Process
  <2>1. CASE Close
    <3>1. ppc = "idle" /\ rtag' = rtag /\ cpc = "idle"
      BY <2>1 DEF Close, Stop
    <3>2. open => DOMAIN rtag = {ridx}
      BY <3>1 DEF RtagInv, RtagFiles
    <3> QED BY <3>1, <3>2
  <2>2. CASE Crash
    <3>1. ppc \in QuietPut /\ rtag' = rtag /\ cpc \in QuietGet
      BY <2>2, QuietKill
    <3>2. open => DOMAIN rtag = {ridx}
      BY <3>1 DEF RtagInv, RtagFiles, QuietGet
    <3> QED BY <3>1, <3>2, <2>2, QuietKill DEF QuietPut
  <2>3. CASE Segv
    BY <2>3, NoStray
  <2>4. CASE OpenQueue
    BY <2>4, <1>0 DEF OpenQueue
  <2>5. CASE OpenWithout
    BY <2>5, <1>0 DEF OpenWithout
  <2> QED BY <1>9, <2>1, <2>2, <2>3, <2>4, <2>5 DEF Process
<1>10. ~ PutStray /\ ~ GetStray
  BY NoStrays DEF RecInv
<1> QED BY <1>1, <1>2, <1>3, <1>4, <1>5, <1>6, <1>7, <1>8, <1>9, <1>10
        DEF Next, PutStep, GetStep

\* What has been returned was put before what is still ahead.
LEMMA GotStep ==
    ASSUME Inv, HeldInv, RecInv, TurnsInv, Next, InTurn PROVE GotInv'
<1> SUFFICES ASSUME NEW r \in DOMAIN rtag', NEW i \in DOMAIN db', NEW o \in Offset,
                    Noting(r)', Starts(db'[i], o), NotedAhead(r, i, o)',
                    NEW g \in DOMAIN got'
             PROVE  got'[g].id < db'[i][o][1]
  BY DEF GotInv
<1>1. /\ got \in Seq(Message) /\ cmsg \in Message /\ nput \in Nat
  BY DEF Inv, TypeOK
<1>2. CASE GetReturn
  <2>1. /\ got' = Append(got, cmsg) /\ db' = db /\ cpc = "ret"
        /\ UNCHANGED <<open, ridx, rtag, ppc>>
    BY <1>2 DEF GetReturn
  <2>2. open /\ Hand /\ rtag[ridx].pos = rpos
    BY <2>1 DEF Inv, LifeInv, TurnsInv, ReadInv, Hand
  <2>3. r = ridx /\ Ahead(i, o) /\ NotedAhead(r, i, o) /\ Noting(r)
    BY <2>1, <2>2 DEF Noting, NotedAhead, Ahead
  <2>4. cmsg.id < db[i][o][1]
    BY <2>1, <2>2, <2>3 DEF TurnsInv, HandInv
  <2>5. \A k \in DOMAIN got : got[k].id < db[i][o][1]
    BY <2>1, <2>3 DEF TurnsInv, GotInv
  <2>6. got'[g] = cmsg \/ (g \in DOMAIN got /\ got'[g] = got[g])
    BY <1>1, <2>1
  <2> QED BY <2>1, <2>4, <2>5, <2>6
<1>3. CASE got' = got
  <2>1. CASE i \in DOMAIN db /\ Starts(db[i], o) /\ db'[i][o] = db[i][o]
    <3>1. PICK q \in DOMAIN rtag : Noting(q) /\ NotedAhead(q, i, o)
      BY <2>1, NotedAheadStep
    <3> QED BY <1>3, <2>1, <3>1 DEF TurnsInv, GotInv
  <2>2. CASE WriteHead /\ db'[i][o] = <<pmsg.id, pmsg.len, 0>>
    <3>1. pmsg.id = nput + 1
      BY <2>2 DEF WriteHead, TurnsInv, NumberInv, Writing
    <3>2. got[g].id <= nput /\ got[g] \in Message
      BY <1>1, <1>3 DEF TurnsInv, IdInv
    <3> QED BY <1>1, <1>3, <2>2, <3>1, <3>2 DEF Message
  <2> QED BY <2>1, <2>2, StartsStep DEF InTurn
<1> QED BY <1>2, <1>3, HistStep

\* The consumer takes a message, and keeps it until it returns it.
LEMMA HandChange == ASSUME Inv, HeldInv, RecInv, TurnsInv, Next, InTurn, Hand'
                    PROVE  ParseOk \/ (Hand /\ UNCHANGED <<cmsg, ridx, rpos, open>> /\ ~ WriteHead)
<1> USE DEF Inv, HeldInv, LifeInv, TypeOK, Hand, TurnsInv, TurnInv, InTurn, Orderly, Creating,
            WriteHead
<1>1. CASE \E len \in Lens : PutBegin(len)
  BY <1>1 DEF PutBegin
<1>2. CASE GetBegin
  BY <1>2 DEF GetBegin
<1>3. CASE GetNothing
  BY <1>3 DEF GetNothing, vars
<1>4. CASE Create
  <2>1. CASE CreatNoSpace
    BY <2>1 DEF CreatNoSpace
  <2>2. CASE CreatSpace
    BY <2>2 DEF CreatSpace
  <2>3. CASE Wipe
    BY <2>3 DEF Wipe
  <2>4. CASE Wiped
    BY <2>4 DEF Wiped
  <2>5. CASE MakeRtag
    BY <2>5 DEF MakeRtag
  <2>6. CASE MakeWtag
    BY <2>6 DEF MakeWtag
  <2>7. CASE MakeDb
    BY <2>7 DEF MakeDb
  <2>8. CASE MakeFails
    BY <2>8 DEF MakeFails
  <2>9. CASE MakeOpen
    BY <2>9 DEF MakeOpen
  <2> QED BY <1>4, <2>1, <2>2, <2>3, <2>4, <2>5, <2>6, <2>7, <2>8, <2>9 DEF Create
<1>5. CASE WriteMsg
  <2>1. CASE PutFull
    BY <2>1 DEF PutFull
  <2>2. CASE PutNotFull
    BY <2>2 DEF PutNotFull
  <2>3. CASE PutFits
    BY <2>3 DEF PutFits
  <2>4. CASE PutOverflows
    BY <2>4 DEF PutOverflows
  <2>5. CASE WriteHead
    BY <2>5 DEF WriteHead
  <2>6. CASE WriteBody
    BY <2>6 DEF WriteBody
  <2>7. CASE WritePos
    BY <2>7 DEF WritePos
  <2>8. CASE LoadPutNum
    BY <2>8 DEF LoadPutNum
  <2>9. CASE IncPutNum
    BY <2>9 DEF IncPutNum
  <2>10. CASE PutReturn
    BY <2>10 DEF PutReturn
  <2> QED BY <1>5, <2>1, <2>2, <2>3, <2>4, <2>5, <2>6, <2>7, <2>8, <2>9, <2>10 DEF WriteMsg
<1>6. CASE NextWrite
  <2>1. CASE NextWriteNoSpace
    BY <2>1 DEF NextWriteNoSpace
  <2>2. CASE NextWriteLock
    BY <2>2 DEF NextWriteLock
  <2>3. CASE NextWriteWtag
    BY <2>3 DEF NextWriteWtag
  <2>4. CASE NextWriteNoWtag
    BY <2>4 DEF NextWriteNoWtag
  <2>5. CASE NextWriteDb
    BY <2>5 DEF NextWriteDb
  <2>6. CASE NextWriteNoDb
    BY <2>6 DEF NextWriteNoDb
  <2>7. CASE NextWritePos
    BY <2>7 DEF NextWritePos
  <2>8. CASE NextWriteIndex
    BY <2>8 DEF NextWriteIndex
  <2>9. CASE NextWriteHead
    BY <2>9 DEF NextWriteHead
  <2>10. CASE NextWriteUnlink
    BY <2>10 DEF NextWriteUnlink
  <2> QED BY <1>6, <2>1, <2>2, <2>3, <2>4, <2>5, <2>6, <2>7, <2>8, <2>9, <2>10 DEF NextWrite
<1>7. CASE GetData
  <2>1. CASE EndIndex
    BY <2>1 DEF EndIndex
  <2>2. CASE EndPos
    BY <2>2 DEF EndPos
  <2>3. CASE EndReset
    BY <2>3 DEF EndReset
  <2>4. CASE ParseOk
    BY <2>4
  <2>5. CASE ParseSkip
    BY <2>5 DEF ParseSkip
  <2>6. CASE ParseBeyond
    BY <2>6 DEF ParseBeyond
  <2>7. CASE WrapGetNum
    BY <2>7 DEF WrapGetNum
  <2>8. CASE NoWrap
    BY <2>8 DEF NoWrap
  <2>9. CASE WrapLoad
    BY <2>9 DEF WrapLoad
  <2>10. CASE WrapPutNum
    BY <2>10 DEF WrapPutNum
  <2>11. CASE NoteRtag
    BY <2>11 DEF NoteRtag
  <2>12. CASE GetReturn
    BY <2>12 DEF GetReturn
  <2> QED BY <1>7, <2>1, <2>2, <2>3, <2>4, <2>5, <2>6, <2>7, <2>8, <2>9, <2>10,
         <2>11, <2>12 DEF GetData
<1>8. CASE NextRead
  <2>1. CASE NextReadEnd
    BY <2>1 DEF NextReadEnd
  <2>2. CASE NextReadLock
    BY <2>2 DEF NextReadLock
  <2>3. CASE NextReadRtag
    BY <2>3 DEF NextReadRtag
  <2>4. CASE NextReadNoRtag
    BY <2>4 DEF NextReadNoRtag
  <2>5. CASE NextReadNote
    BY <2>5 DEF NextReadNote
  <2>6. CASE NextReadUnlink
    BY <2>6 DEF NextReadUnlink
  <2>7. CASE NextReadShare
    BY <2>7 DEF NextReadShare
  <2>8. CASE NextReadMap
    BY <2>8 DEF NextReadMap
  <2>9. CASE NextReadNoMap
    BY <2>9 DEF NextReadNoMap
  <2> QED BY <1>8, <2>1, <2>2, <2>3, <2>4, <2>5, <2>6, <2>7, <2>8, <2>9 DEF NextRead
<1>9. CASE Process
  <2>1. CASE Close
    BY <2>1 DEF Close, Stop
  <2>2. CASE Crash
    BY <2>2, QuietKill DEF InTurn, Hand
  <2>3. CASE Segv
    BY <2>3, NoStray
  <2>4. CASE OpenQueue
    BY <2>4 DEF OpenQueue
  <2>5. CASE OpenWithout
    BY <2>5 DEF OpenWithout
  <2> QED BY <1>9, <2>1, <2>2, <2>3, <2>4, <2>5 DEF Process
<1>10. ~ PutStray /\ ~ GetStray
  BY NoStrays DEF RecInv
<1> QED BY <1>1, <1>2, <1>3, <1>4, <1>5, <1>6, <1>7, <1>8, <1>9, <1>10
        DEF Next, PutStep, GetStep

\* It comes after all that have been returned, and before all ahead.
LEMMA HandStep ==
    ASSUME Inv, HeldInv, RecInv, TurnsInv, Next, InTurn PROVE HandInv'
<1> SUFFICES ASSUME Hand' PROVE HandInv'
  BY DEF HandInv
<1>1. /\ got \in Seq(Message) /\ cmsg \in Message /\ nput \in Nat /\ rpos \in Nat
  BY DEF Inv, TypeOK
<1>2. CASE ParseOk
  <2>1. /\ cpc = "parse" /\ Parsed = "OK" /\ UNCHANGED <<db, got, ridx, nput>>
        /\ cmsg' = MsgAt(db[rmap], rpos) /\ rpos' = rpos + RecordLen(cmsg')
    BY <1>2 DEF ParseOk
  <2>2. /\ open /\ rmap = ridx /\ rpos \in Offset /\ Starts(db[ridx], rpos) /\ ridx \in Nat
        /\ ~ Spent
    BY <2>1, ParseFinds
  <2>3. ridx \in DOMAIN db
    BY <2>1, <2>2, ParseFinds DEF Spent
  <2>4. cmsg'.id = db[ridx][rpos][1] /\ rpos' = rpos + RecordLen(MsgAt(db[ridx], rpos))
    BY <2>1, <2>2 DEF MsgAt
  <2>5. cmsg'.id <= nput
    BY <2>2, <2>3, <2>4 DEF TurnsInv, IdInv
  <2>6. ASSUME NEW g \in DOMAIN got PROVE got[g].id < cmsg'.id
    <3>1. Noting(ridx) /\ NotedAhead(ridx, ridx, rpos) /\ ridx \in DOMAIN rtag
      BY <2>2, NotedPos DEF Noting, NotedAhead, TurnsInv, ReadInv
    <3> QED BY <2>2, <2>3, <2>4, <3>1 DEF TurnsInv, GotInv
  <2>7. ASSUME NEW i \in DOMAIN db, NEW o \in Offset, Starts(db[i], o), Ahead(i, o)'
        PROVE  cmsg'.id < db[i][o][1]
    <3>1. RecordLen(MsgAt(db[ridx], rpos)) \in Nat /\ RecordLen(MsgAt(db[ridx], rpos)) > 0
      <4>1. MsgAt(db[ridx], rpos) \in Message
        BY <2>1, ParseFinds
      <4> QED BY <4>1, LayoutAssumption DEF RecordLen, Message
    <3>2. ridx < i \/ (ridx = i /\ rpos < o)
      <4>1. o \in Nat /\ i \in Nat
        BY LayoutAssumption DEF Offset, Inv, TypeOK, Directory
      <4>2. i > ridx \/ (i = ridx /\ o >= rpos + RecordLen(MsgAt(db[ridx], rpos)))
        BY <2>1, <2>4, <2>7 DEF Ahead
      <4> QED BY <1>1, <2>2, <3>1, <4>1, <4>2
    <3> QED BY <2>2, <2>3, <2>4, <2>7, <3>2 DEF TurnsInv, OrderInv
  <2> QED BY <2>1, <2>5, <2>6, <2>7 DEF HandInv
<1>3. CASE Hand /\ UNCHANGED <<cmsg, ridx, rpos, open>> /\ ~ WriteHead
  <2>1. got' = got /\ nput' = nput
    BY <1>3, HistStep DEF GetReturn, Hand
  <2>2. cmsg.id <= nput /\ \A g \in DOMAIN got : got[g].id < cmsg.id
    BY <1>3 DEF TurnsInv, HandInv
  <2>3. ASSUME NEW i \in DOMAIN db', NEW o \in Offset, Starts(db'[i], o), Ahead(i, o)'
        PROVE  cmsg.id < db'[i][o][1]
    <3>1. i \in DOMAIN db /\ Starts(db[i], o) /\ db'[i][o] = db[i][o]
      BY <1>3, <2>3, StartsStep DEF InTurn
    <3>2. Ahead(i, o)
      BY <1>3, <2>3 DEF Ahead
    <3> QED BY <1>3, <3>1, <3>2 DEF TurnsInv, HandInv
  <2> QED BY <1>3, <2>1, <2>2, <2>3 DEF HandInv
<1> QED BY <1>2, <1>3, HandChange

\* So what is returned is in order.
LEMMA SortedStep ==
    ASSUME Inv, HeldInv, RecInv, TurnsInv, Next, InTurn PROVE SortedInv'
<1>1. /\ got \in Seq(Message) /\ cmsg \in Message
  BY DEF Inv, TypeOK
<1>2. CASE got' = got
  BY <1>2 DEF TurnsInv, SortedInv
<1>3. CASE GetReturn
  <2>1. got' = Append(got, cmsg) /\ Hand
    BY <1>3 DEF GetReturn, Hand
  <2>2. \A g \in DOMAIN got : got[g].id < cmsg.id
    BY <2>1 DEF TurnsInv, HandInv
  <2>3. ASSUME NEW i \in DOMAIN got', NEW j \in DOMAIN got', i < j
        PROVE  got'[i].id < got'[j].id
    <3>1. i \in DOMAIN got /\ got'[i] = got[i]
      BY <1>1, <2>1, <2>3
    <3>2. got'[j] = cmsg \/ (j \in DOMAIN got /\ got'[j] = got[j])
      BY <1>1, <2>1
    <3> QED BY <2>2, <2>3, <3>1, <3>2 DEF TurnsInv, SortedInv
  <2> QED BY <2>3 DEF SortedInv
<1> QED BY <1>2, <1>3, HistStep

\* The invariant holds before the store is opened for the first time ...
LEMMA TurnsInit == Init => TurnsInv
  BY DEF Init, TurnsInv, TurnInv, ReadInv, RestInv, NumberInv, IdInv, OrderInv, GotInv,
     HandInv, Hand, SortedInv, Writing

\* ... and every step keeps it.
LEMMA TurnsStep ==
    InTurn /\ Inv /\ HeldInv /\ RecInv /\ TurnsInv /\ [Next]_vars => TurnsInv'
<1> SUFFICES ASSUME InTurn, Inv, HeldInv, RecInv, TurnsInv, [Next]_vars PROVE TurnsInv'
  OBVIOUS
<1>1. CASE Next
  <2>1. TurnInv' /\ ReadInv' /\ RestInv' /\ NumberInv' /\ IdInv'
    BY <1>1, TurnStep, ReadStep, RestStep, NumberStep, IdStep
  <2>2. OrderInv' /\ GotInv' /\ HandInv' /\ SortedInv'
    BY <1>1, OrderStep, GotStep, HandStep, SortedStep
  <2> QED BY <2>1, <2>2 DEF TurnsInv
<1>2. CASE UNCHANGED vars
  <2>1. TurnInv' /\ ReadInv' /\ RestInv'
    BY <1>2 DEF vars, TurnsInv, TurnInv, ReadInv, RestInv, Hand, Spent, ReadFile, WriteFile
  <2>2. NumberInv' /\ IdInv' /\ OrderInv' /\ SortedInv'
    BY <1>2 DEF vars, TurnsInv, NumberInv, IdInv, OrderInv, SortedInv
  <2>3. GotInv' /\ HandInv'
    BY <1>2 DEF vars, TurnsInv, GotInv, HandInv, Hand, Noting, NotedAhead, Ahead
  <2> QED BY <2>1, <2>2, <2>3 DEF TurnsInv
<1> QED BY <1>1, <1>2

\* The invariant of callers that take turns.
THEOREM TurnsKept ==
    ASSUME InTurn PROVE Spec => [](Inv /\ HeldInv /\ RecInv /\ TurnsInv)
<1>1. Spec => [](Inv /\ HeldInv /\ RecInv)
  BY RecordsKept DEF InTurn
<1> QED BY <1>1, TurnsInit, TurnsStep, PTL DEF Spec

\* Messages come out in the order they went in and none twice, for any number
\* of messages, files, restarts, kills while no file is being written and
\* failing calls, as long as callers take turns and get_next_write_file can
\* open the files it creates: no position that mq_store_init reads back, no
\* skipped file and no scan of the rest of a file (mq_sm_get_data) leads back
\* to a record that was returned.
THEOREM InOrder == ASSUME InTurn PROVE Spec => []InOrderAtMostOnce
<1>1. TurnsInv => InOrderAtMostOnce
  BY DEF TurnsInv, SortedInv, InOrderAtMostOnce
<1> QED BY <1>1, TurnsKept, PTL

-----------------------------------------------------------------------------
\* The contents, step by step.

\* A message appended to a sequence leaves the others where they are.
LEMMA Appended ==
    ASSUME NEW S, NEW s \in Seq(S), NEW e \in S
    PROVE  /\ Append(s, e) \in Seq(S) /\ Len(s) \in Nat /\ Len(Append(s, e)) = Len(s) + 1
           /\ DOMAIN s = 1 .. Len(s) /\ DOMAIN Append(s, e) = 1 .. Len(s) + 1
           /\ Append(s, e)[Len(s) + 1] = e
           /\ \A k \in DOMAIN s : Append(s, e)[k] = s[k]
  OBVIOUS

\* What the producer is doing does not change its message.
LEMMA PutKeeps == ASSUME Inv, HeldInv, RecInv, Next, InTurn, ppc \in Writing
                  PROVE  \/ pmsg' = pmsg /\ ppc' \in Writing
                         \/ PutReturn
<1> USE DEF Inv, LifeInv, Creating, Writing
<1>1. CASE \E len \in Lens : PutBegin(len)
  BY <1>1 DEF PutBegin
<1>2. CASE GetBegin
  BY <1>2 DEF GetBegin
<1>3. CASE GetNothing
  BY <1>3 DEF GetNothing, vars
<1>4. CASE Create
  BY <1>4 DEF Create, CreatNoSpace, CreatSpace, Wipe, Wiped, MakeRtag, MakeWtag,
     MakeDb, MakeFails, MakeOpen
<1>5. CASE WriteMsg
  BY <1>5 DEF WriteMsg, PutFull, PutNotFull, PutFits, PutOverflows, WriteHead,
     WriteBody, WritePos, LoadPutNum, IncPutNum, PutReturn
<1>6. CASE NextWrite
  BY <1>6 DEF NextWrite, NextWriteNoSpace, NextWriteLock, NextWriteWtag,
     NextWriteNoWtag, NextWriteDb, NextWriteNoDb, NextWritePos,
     NextWriteIndex, NextWriteHead, NextWriteUnlink
<1>7. CASE GetData
  BY <1>7 DEF GetData, EndIndex, EndPos, EndReset, ParseOk, ParseSkip, ParseBeyond,
     WrapGetNum, NoWrap, WrapLoad, WrapPutNum, NoteRtag, GetReturn
<1>8. CASE NextRead
  BY <1>8 DEF NextRead, NextReadEnd, NextReadLock, NextReadRtag, NextReadNoRtag,
     NextReadNote, NextReadUnlink, NextReadShare, NextReadMap, NextReadNoMap
<1>9. CASE Process
  <2>1. CASE Close
    BY <2>1 DEF Close, Stop
  <2>2. CASE Crash
    BY <2>2, QuietKill DEF InTurn, QuietPut
  <2>3. CASE Segv
    BY <2>3, NoStray
  <2>4. CASE OpenQueue
    BY <2>4 DEF OpenQueue
  <2>5. CASE OpenWithout
    BY <2>5 DEF OpenWithout
  <2> QED BY <1>9, <2>1, <2>2, <2>3, <2>4, <2>5 DEF Process
<1>10. ~ PutStray /\ ~ GetStray
  BY NoStrays DEF RecInv
<1> QED BY <1>1, <1>2, <1>3, <1>4, <1>5, <1>6, <1>7, <1>8, <1>9, <1>10
        DEF Next, PutStep, GetStep

\* Which messages have been counted and acknowledged.
LEMMA SentStep ==
    ASSUME Inv, HeldInv, RecInv, TurnsInv, KeptInv, Next, Calm PROVE SentInv'
<1>0. /\ sent \in Seq(Message) /\ acked \in Seq(Message) /\ pmsg \in Message /\ nput \in Nat
      /\ MaxMsgs \in Nat
  BY StoreAssumption DEF Inv, TypeOK
<1>a. /\ Len(sent) \in Nat /\ DOMAIN sent = 1 .. Len(sent)
      /\ Len(acked) \in Nat /\ DOMAIN acked = 1 .. Len(acked)
  BY <1>0
<1>b. SentInv /\ NumberInv
  BY DEF KeptInv, TurnsInv
<1> USE DEF SentInv, Writing
<1>1. CASE \E len \in Lens : PutBegin(len)
  <2>1. PICK len \in Lens : PutBegin(len)
    BY <1>1
  <2>2. /\ ppc = "idle" /\ ppc' \in {"full", "creat"} /\ pmsg' = [id |-> nput + 1, len |-> len]
        /\ nput < MaxMsgs /\ UNCHANGED <<sent, acked, nput>>
    BY <2>1 DEF PutBegin
  <2> QED BY ONLY <1>0, <1>a, <1>b, <2>2 DEF SentInv, Writing
<1>2. CASE GetBegin
  BY <1>2, <1>0, <1>a, <1>b DEF GetBegin
<1>3. CASE GetNothing
  BY <1>3, <1>0, <1>a, <1>b DEF GetNothing, vars
<1>4. CASE Create
  BY <1>4, <1>0, <1>a, <1>b DEF Create, CreatNoSpace, CreatSpace, Wipe, Wiped, MakeRtag, MakeWtag,
     MakeDb, MakeFails, MakeOpen
<1>5. CASE WriteMsg
  <2>1. CASE PutFull
    BY <2>1, <1>0, <1>a, <1>b DEF PutFull
  <2>2. CASE PutNotFull
    BY <2>2, <1>0, <1>a, <1>b DEF PutNotFull
  <2>3. CASE PutFits
    BY <2>3, <1>0, <1>a, <1>b DEF PutFits
  <2>4. CASE PutOverflows
    BY <2>4, <1>0, <1>a, <1>b DEF PutOverflows
  <2>5. CASE WriteHead
    <3>1. /\ ppc = "rec" /\ ppc' = "body" /\ UNCHANGED <<sent, acked, pmsg>> /\ nput' = nput + 1
      BY <2>5 DEF WriteHead
    <3> QED BY ONLY <1>0, <1>a, <1>b, <3>1 DEF SentInv, Writing
  <2>6. CASE WriteBody
    BY <2>6, <1>0, <1>a, <1>b DEF WriteBody
  <2>7. CASE WritePos
    BY <2>7, <1>0, <1>a, <1>b DEF WritePos
  <2>8. CASE LoadPutNum
    BY <2>8, <1>0, <1>a, <1>b DEF LoadPutNum
  <2>9. CASE IncPutNum
    <3>1. /\ ppc = "inc" /\ ppc' = "tag" /\ UNCHANGED <<acked, pmsg, nput>>
          /\ sent' = Append(sent, pmsg)
      BY <2>9 DEF IncPutNum
    <3>2. Len(sent) = nput - 1 /\ pmsg.id = nput /\ Len(acked) = Len(sent)
      BY ONLY <1>b, <3>1 DEF SentInv, NumberInv, Writing
    <3>3. /\ Len(sent') = nput /\ DOMAIN sent' = 1 .. nput /\ sent'[nput] = pmsg
          /\ \A k \in DOMAIN sent : sent'[k] = sent[k]
      BY ONLY <1>0, <1>a, <3>1, <3>2, Appended
    <3>4. \A k \in DOMAIN sent' : sent'[k].id = k /\ sent'[k].len \in Lens
      <4> SUFFICES ASSUME NEW k \in DOMAIN sent' PROVE sent'[k].id = k /\ sent'[k].len \in Lens
        OBVIOUS
      <4>1. k = nput \/ k \in DOMAIN sent
        BY ONLY <1>0, <1>a, <3>2, <3>3
      <4> QED BY ONLY <1>b, <3>1, <3>2, <3>3, <4>1 DEF SentInv
    <3>5. \A k \in DOMAIN acked : acked'[k] = sent'[k]
      BY ONLY <1>a, <1>b, <3>1, <3>2, <3>3 DEF SentInv
    <3> QED BY ONLY <1>0, <1>a, <1>b, <3>1, <3>2, <3>3, <3>4, <3>5 DEF SentInv, Writing
  <2>10. CASE PutReturn
    <3>1. /\ ppc = "tag" /\ ppc' = "idle" /\ UNCHANGED <<sent, nput>>
          /\ acked' = Append(acked, pmsg)
      BY <2>10 DEF PutReturn
    <3>2. Len(sent) = nput /\ Len(acked) = nput - 1 /\ pmsg = sent[nput]
      BY ONLY <1>b, <3>1 DEF SentInv
    <3>3. /\ Len(acked') = nput /\ DOMAIN acked' = 1 .. nput /\ acked'[nput] = pmsg
          /\ \A k \in DOMAIN acked : acked'[k] = acked[k]
      BY ONLY <1>0, <1>a, <3>1, <3>2, Appended
    <3>4. \A k \in DOMAIN acked' : acked'[k] = sent'[k]
      <4> SUFFICES ASSUME NEW k \in DOMAIN acked' PROVE acked'[k] = sent'[k]
        OBVIOUS
      <4>1. k = nput \/ k \in DOMAIN acked
        BY ONLY <1>0, <1>a, <3>2, <3>3
      <4> QED BY ONLY <1>b, <3>1, <3>2, <3>3, <4>1 DEF SentInv
    <3> QED BY ONLY <1>0, <1>a, <1>b, <3>1, <3>2, <3>3, <3>4 DEF SentInv, Writing
  <2> QED BY <1>5, <2>1, <2>2, <2>3, <2>4, <2>5, <2>6, <2>7, <2>8, <2>9, <2>10 DEF WriteMsg
<1>6. CASE NextWrite
  BY <1>6, <1>0, <1>a, <1>b DEF NextWrite, NextWriteNoSpace, NextWriteLock, NextWriteWtag,
     NextWriteNoWtag, NextWriteDb, NextWriteNoDb, NextWritePos,
     NextWriteIndex, NextWriteHead, NextWriteUnlink
<1>7. CASE GetData
  BY <1>7, <1>0, <1>a, <1>b DEF GetData, EndIndex, EndPos, EndReset, ParseOk, ParseSkip, ParseBeyond,
     WrapGetNum, NoWrap, WrapLoad, WrapPutNum, NoteRtag, GetReturn
<1>8. CASE NextRead
  BY <1>8, <1>0, <1>a, <1>b DEF NextRead, NextReadEnd, NextReadLock, NextReadRtag, NextReadNoRtag,
     NextReadNote, NextReadUnlink, NextReadShare, NextReadMap, NextReadNoMap
<1>9. CASE Process
  <2>1. CASE Close
    BY <2>1, <1>0, <1>a, <1>b DEF Close, Stop
  <2>2. CASE Crash
    <3>1. ppc \in QuietPut /\ ppc' = "idle" /\ UNCHANGED <<sent, acked, nput>>
      BY <2>2, QuietKill DEF Calm, InTurn
    <3> QED BY ONLY <1>0, <1>a, <1>b, <3>1 DEF SentInv, Writing, QuietPut
  <2>3. CASE Segv
    BY <2>3, NoStray
  <2>4. CASE OpenQueue
    BY <2>4, <1>0, <1>a, <1>b DEF OpenQueue
  <2>5. CASE OpenWithout
    BY <2>5, <1>0, <1>a, <1>b DEF OpenWithout
  <2> QED BY <1>9, <2>1, <2>2, <2>3, <2>4, <2>5 DEF Process
<1>10. ~ PutStray /\ ~ GetStray
  BY NoStrays DEF RecInv
<1> QED BY <1>1, <1>2, <1>3, <1>4, <1>5, <1>6, <1>7, <1>8, <1>9, <1>10
        DEF Next, PutStep, GetStep

\* The records hold what was put.
LEMMA MatchStep ==
    ASSUME Inv, HeldInv, RecInv, TurnsInv, KeptInv, Next, Calm PROVE MatchInv'
<1>0. /\ sent \in Seq(Message) /\ pmsg \in Message /\ nput \in Nat
      /\ Len(sent) \in Nat /\ DOMAIN sent = 1 .. Len(sent)
  BY DEF Inv, TypeOK
<1> SUFFICES ASSUME NEW i \in DOMAIN db', NEW o \in Offset, Starts(db'[i], o)
             PROVE  MsgAt(db'[i], o) = IF db'[i][o][1] \in DOMAIN sent'
                                       THEN sent'[db'[i][o][1]] ELSE pmsg'
  BY DEF MatchInv
<1>1. CASE i \in DOMAIN db /\ Starts(db[i], o) /\ db'[i][o] = db[i][o]
  <2> DEFINE n == db[i][o][1]
  <2>1. MsgAt(db'[i], o) = MsgAt(db[i], o) /\ db'[i][o][1] = n
    BY <1>1 DEF MsgAt
  <2>2. n \in Nat /\ n # 0 /\ n <= nput
    BY <1>1, RecordId DEF Starts, TurnsInv, IdInv
  <2>3. MsgAt(db[i], o) = IF n \in DOMAIN sent THEN sent[n] ELSE pmsg
    BY <1>1 DEF KeptInv, MatchInv
  <2>4. \/ sent' = sent
        \/ /\ IncPutNum /\ sent' = Append(sent, pmsg)
    BY HistStep DEF IncPutNum
  <2>5. CASE n \in DOMAIN sent
    <3>1. n \in DOMAIN sent' /\ sent'[n] = sent[n]
      BY ONLY <1>0, <2>2, <2>4, <2>5, Appended
    <3> QED BY <2>1, <2>3, <2>5, <3>1
  <2>6. CASE n \notin DOMAIN sent
    <3>1. ppc \in {"body", "pos", "num", "inc"} /\ n = nput /\ Len(sent) = nput - 1
      BY <1>0, <2>2, <2>6 DEF KeptInv, SentInv
    <3>2. CASE sent' = sent
      <4>1. pmsg' = pmsg
        BY <3>1, PutKeeps DEF Calm, Writing, PutReturn
      <4> QED BY <2>1, <2>3, <2>6, <3>2, <4>1
    <3>3. CASE sent' = Append(sent, pmsg)
      <4>1. n \in DOMAIN sent' /\ sent'[n] = pmsg
        BY ONLY <1>0, <2>2, <3>1, <3>3, Appended
      <4> QED BY <2>1, <2>3, <2>6, <4>1
    <3> QED BY <2>4, <3>2, <3>3
  <2> QED BY <2>5, <2>6
<1>2. CASE WriteHead /\ db'[i][o] = <<pmsg.id, pmsg.len, 0>>
  <2>1. ppc = "rec" /\ UNCHANGED <<sent, pmsg>>
    BY <1>2 DEF WriteHead
  <2>2. pmsg.id = nput + 1 /\ Len(sent) = nput
    BY <2>1 DEF TurnsInv, NumberInv, Writing, KeptInv, SentInv
  <2>3. pmsg.id \notin DOMAIN sent'
    BY <1>0, <2>1, <2>2
  <2>4. MsgAt(db'[i], o) = pmsg
    BY <1>0, <1>2 DEF MsgAt, Message
  <2> QED BY <1>2, <2>1, <2>3, <2>4
<1> QED BY <1>1, <1>2, StartsStep DEF Calm, InTurn

\* A message leaves the consumer's hands when it is returned.
LEMMA HandLeaves == ASSUME Inv, HeldInv, RecInv, TurnsInv, Next, Calm, Hand, ~ Hand'
                    PROVE  GetReturn \/ Crash
<1> USE DEF Inv, HeldInv, LifeInv, TypeOK, Hand, TurnsInv, TurnInv, Calm, InTurn, Orderly, Creating
<1>1. CASE \E len \in Lens : PutBegin(len)
  BY <1>1 DEF PutBegin
<1>2. CASE GetBegin
  BY <1>2 DEF GetBegin
<1>3. CASE GetNothing
  BY <1>3 DEF GetNothing, vars
<1>4. CASE Create
  BY <1>4 DEF Create, CreatNoSpace, CreatSpace, Wipe, Wiped, MakeRtag, MakeWtag,
     MakeDb, MakeFails, MakeOpen
<1>5. CASE WriteMsg
  BY <1>5 DEF WriteMsg, PutFull, PutNotFull, PutFits, PutOverflows, WriteHead,
     WriteBody, WritePos, LoadPutNum, IncPutNum, PutReturn
<1>6. CASE NextWrite
  BY <1>6 DEF NextWrite, NextWriteNoSpace, NextWriteLock, NextWriteWtag,
     NextWriteNoWtag, NextWriteDb, NextWriteNoDb, NextWritePos,
     NextWriteIndex, NextWriteHead, NextWriteUnlink
<1>7. CASE GetData
  BY <1>7 DEF GetData, EndIndex, EndPos, EndReset, ParseOk, ParseSkip, ParseBeyond,
     WrapGetNum, NoWrap, WrapLoad, WrapPutNum, NoteRtag, GetReturn
<1>8. CASE NextRead
  BY <1>8 DEF NextRead, NextReadEnd, NextReadLock, NextReadRtag, NextReadNoRtag,
     NextReadNote, NextReadUnlink, NextReadShare, NextReadMap, NextReadNoMap
<1>9. CASE Process
  <2>1. CASE Close
    BY <2>1 DEF Close, Stop
  <2>2. CASE Crash
    BY <2>2
  <2>3. CASE Segv
    BY <2>3, NoStray
  <2>4. CASE OpenQueue
    BY <2>4 DEF OpenQueue
  <2>5. CASE OpenWithout
    BY <2>5 DEF OpenWithout
  <2> QED BY <1>9, <2>1, <2>2, <2>3, <2>4, <2>5 DEF Process
<1>10. ~ PutStray /\ ~ GetStray
  BY NoStrays DEF RecInv
<1> QED BY <1>1, <1>2, <1>3, <1>4, <1>5, <1>6, <1>7, <1>8, <1>9, <1>10
        DEF Next, PutStep, GetStep

\* A file that is not extended is not one of full size.
LEMMA ShortNotFile == Short \notin File
<1>1. DOMAIN Short = {}
  BY DEF Short
<1>2. 0 \in Offset
  BY LayoutAssumption DEF Offset
<1> QED BY <1>1, <1>2 DEF File

\* At rest the directory can be opened, with the only tag files there are.
LEMMA RestOpens ==
    ASSUME Inv, RecInv, ~ open, ppc \in {"idle", "creat"}, DOMAIN db # {}
    PROVE  /\ DOMAIN rtag # {} /\ DOMAIN wtag # {}
           /\ \A r \in DOMAIN rtag, w \in DOMAIN wtag :
                 Openable(r, w) /\ DOMAIN rtag = {r} /\ DOMAIN wtag = {w}
<1>1. PICK r \in DOMAIN rtag, w \in DOMAIN wtag :
          /\ r <= w /\ DOMAIN db = r .. w
          /\ DOMAIN rtag = {r} /\ DOMAIN wtag = {w}
          /\ rtag[r] # Empty /\ wtag[w] # Empty
  BY DEF RecInv, MakeInv, Resting
<1>2. r \in Nat /\ w \in Nat
  BY DEF Inv, TypeOK, Directory
<1>3. HandleFiles(r, w)
  BY <1>1, <1>2 DEF HandleFiles
<1>4. Mappable(r) /\ Mappable(w)
  BY <1>3, ShortNotFile DEF HandleFiles, Mappable, RecInv, WholeInv
<1>5. Openable(r, w)
  BY <1>1, <1>3, <1>4 DEF Openable
<1> QED BY <1>1, <1>5

\* The file to be read next can be mapped.
LEMMA NextMaps == ASSUME Inv, RecInv, cpc = "r_map" PROVE Mappable(ridx)
<1>1. open /\ ridx \in Nat /\ widx \in Nat /\ ridx <= widx
  BY DEF Inv, TypeOK, LifeInv, IndexInv
<1>2. WriteFile \in Nat /\ WriteFile >= widx
  BY <1>1 DEF WriteFile
<1>3. DOMAIN db = (ridx - 1) .. WriteFile
  BY <1>1 DEF RecInv, DataInv, ReadFile
<1>4. ridx \in DOMAIN db
  BY <1>1, <1>2, <1>3
<1> QED BY <1>4, ShortNotFile DEF Mappable, RecInv, WholeInv

\* With the queue open, the files are there, and its producer is not creating.
LEMMA OpenFiles == ASSUME Inv, RecInv, open PROVE DOMAIN db # {} /\ ppc \notin Creating
<1>1. WriteFile \in DOMAIN db
  BY WriteFileThere
<1> QED BY <1>1 DEF Inv, LifeInv

\* The consumer has its file mapped.
LEMMA ReadMapStep ==
    ASSUME Inv, HeldInv, RecInv, TurnsInv, KeptInv, Next, Calm PROVE (open => rmap # NoMap)'
<1> USE DEF Inv, HeldInv, RecInv, TurnsInv, KeptInv, Calm, InTurn, Orderly, WriteFilesOpen,
            TypeOK, LifeInv, MutexInv, IndexInv, Creating, PutHolds, GetHolds, ReadFile,
            WriteFile, NoMap, NoFd
<1> USE DEF OnceInv
<1>1. CASE \E len \in Lens : PutBegin(len)
  BY <1>1 DEF PutBegin
<1>2. CASE GetBegin
  BY <1>2 DEF GetBegin
<1>3. CASE GetNothing
  BY <1>3 DEF GetNothing, vars
<1>4. CASE Create
  BY <1>4 DEF Create, CreatNoSpace, CreatSpace, Wipe, Wiped, MakeRtag, MakeWtag,
     MakeDb, MakeFails, MakeOpen
<1>5. CASE WriteMsg
  BY <1>5 DEF WriteMsg, PutFull, PutNotFull, PutFits, PutOverflows, WriteHead,
     WriteBody, WritePos, LoadPutNum, IncPutNum, PutReturn
<1>6. CASE NextWrite
  BY <1>6 DEF NextWrite, NextWriteNoSpace, NextWriteLock, NextWriteWtag,
     NextWriteNoWtag, NextWriteDb, NextWriteNoDb, NextWritePos,
     NextWriteIndex, NextWriteHead, NextWriteUnlink
<1>7. CASE GetData
  BY <1>7 DEF GetData, EndIndex, EndPos, EndReset, ParseOk, ParseSkip, ParseBeyond,
     WrapGetNum, NoWrap, WrapLoad, WrapPutNum, NoteRtag, GetReturn
<1>8. CASE NextRead
  <2>1. CASE NextReadEnd
    BY <2>1 DEF NextReadEnd
  <2>2. CASE NextReadLock
    BY <2>2 DEF NextReadLock
  <2>3. CASE NextReadRtag
    BY <2>3 DEF NextReadRtag
  <2>4. CASE NextReadNoRtag
    BY <2>4 DEF NextReadNoRtag
  <2>5. CASE NextReadNote
    BY <2>5 DEF NextReadNote
  <2>6. CASE NextReadUnlink
    BY <2>6 DEF NextReadUnlink
  <2>7. CASE NextReadShare
    <3>1. open /\ wmap \in mapped /\ rmap' = wmap
      BY <2>7 DEF NextReadShare
    <3> QED BY <3>1
  <2>8. CASE NextReadMap
    BY <2>8 DEF NextReadMap
  <2>9. CASE NextReadNoMap
    <3>1. Mappable(ridx) /\ "rdb" \notin Faults
      BY <2>9, NextMaps DEF NextReadNoMap
    <3> QED BY <2>9, <3>1 DEF NextReadNoMap
  <2> QED BY <1>8, <2>1, <2>2, <2>3, <2>4, <2>5, <2>6, <2>7, <2>8, <2>9 DEF NextRead
<1>9. CASE Process
  <2>1. CASE Close
    BY <2>1 DEF Close, Stop
  <2>2. CASE Crash
    BY <2>2, QuietKill DEF Calm, InTurn
  <2>3. CASE Segv
    BY <2>3, NoStray
  <2>4. CASE OpenQueue
    <3>1. PICK r \in DOMAIN rtag : rmap' = r
      BY <2>4 DEF OpenQueue
    <3> QED BY <3>1 DEF Directory
  <2>5. CASE OpenWithout
    BY <2>5 DEF OpenWithout
  <2> QED BY <1>9, <2>1, <2>2, <2>3, <2>4, <2>5 DEF Process
<1>10. ~ PutStray /\ ~ GetStray
  BY NoStrays DEF RecInv
<1> QED BY <1>1, <1>2, <1>3, <1>4, <1>5, <1>6, <1>7, <1>8, <1>9, <1>10
        DEF Next, PutStep, GetStep

\* A store opens without the queue only if the queue has no files.
LEMMA ClosedStep ==
    ASSUME Inv, HeldInv, RecInv, TurnsInv, KeptInv, Next, Calm PROVE (~ open /\ up => DOMAIN db = {} \/ ppc = "mk_open")'
<1> USE DEF Inv, HeldInv, RecInv, TurnsInv, KeptInv, Calm, InTurn, Orderly, WriteFilesOpen,
            TypeOK, LifeInv, MutexInv, IndexInv, Creating, PutHolds, GetHolds, ReadFile,
            WriteFile, NoMap, NoFd
<1> USE DEF OnceInv
<1>1. CASE \E len \in Lens : PutBegin(len)
  BY <1>1 DEF PutBegin
<1>2. CASE GetBegin
  BY <1>2 DEF GetBegin
<1>3. CASE GetNothing
  BY <1>3 DEF GetNothing, vars
<1>4. CASE Create
  <2>1. CASE CreatNoSpace
    BY <2>1 DEF CreatNoSpace
  <2>2. CASE CreatSpace
    BY <2>2 DEF CreatSpace
  <2>3. CASE Wipe
    BY <2>3, Domains DEF Wipe
  <2>4. CASE Wiped
    BY <2>4 DEF Wiped
  <2>5. CASE MakeRtag
    BY <2>5 DEF MakeRtag
  <2>6. CASE MakeWtag
    BY <2>6 DEF MakeWtag
  <2>7. CASE MakeDb
    BY <2>7 DEF MakeDb
  <2>8. CASE MakeFails
    BY <2>8 DEF MakeFails
  <2>9. CASE MakeOpen
    BY <2>9 DEF MakeOpen
  <2> QED BY <1>4, <2>1, <2>2, <2>3, <2>4, <2>5, <2>6, <2>7, <2>8, <2>9 DEF Create
<1>5. CASE WriteMsg
  BY <1>5 DEF WriteMsg, PutFull, PutNotFull, PutFits, PutOverflows, WriteHead,
     WriteBody, WritePos, LoadPutNum, IncPutNum, PutReturn
<1>6. CASE NextWrite
  BY <1>6 DEF NextWrite, NextWriteNoSpace, NextWriteLock, NextWriteWtag,
     NextWriteNoWtag, NextWriteDb, NextWriteNoDb, NextWritePos,
     NextWriteIndex, NextWriteHead, NextWriteUnlink
<1>7. CASE GetData
  BY <1>7 DEF GetData, EndIndex, EndPos, EndReset, ParseOk, ParseSkip, ParseBeyond,
     WrapGetNum, NoWrap, WrapLoad, WrapPutNum, NoteRtag, GetReturn
<1>8. CASE NextRead
  BY <1>8 DEF NextRead, NextReadEnd, NextReadLock, NextReadRtag, NextReadNoRtag,
     NextReadNote, NextReadUnlink, NextReadShare, NextReadMap, NextReadNoMap
<1>9. CASE Process
  <2>1. CASE Close
    BY <2>1 DEF Close, Stop
  <2>2. CASE Crash
    BY <2>2, QuietKill DEF Calm, InTurn
  <2>3. CASE Segv
    BY <2>3, NoStray
  <2>4. CASE OpenQueue
    BY <2>4 DEF OpenQueue
  <2>5. CASE OpenWithout
    <3>1. ~ open /\ ppc = "idle" /\ db' = db /\ "open" \notin Faults
      BY <2>5 DEF OpenWithout
    <3>2. DOMAIN db = {}
      <4> SUFFICES ASSUME DOMAIN db # {} PROVE FALSE
        OBVIOUS
      <4> HIDE DEF Inv, RecInv
      <4> QED BY <2>5, <3>1, RestOpens DEF OpenWithout
    <3> QED BY <3>1, <3>2
  <2> QED BY <1>9, <2>1, <2>2, <2>3, <2>4, <2>5 DEF Process
<1>10. ~ PutStray /\ ~ GetStray
  BY NoStrays DEF RecInv
<1> QED BY <1>1, <1>2, <1>3, <1>4, <1>5, <1>6, <1>7, <1>8, <1>9, <1>10
        DEF Next, PutStep, GetStep

\* The queue is created only as long as there is nothing to lose.
LEMMA OnceStep ==
    ASSUME Inv, HeldInv, RecInv, TurnsInv, KeptInv, Next, Calm PROVE OnceInv'
<1>a. Inv' /\ RecInv'
  <2>1. [Next]_vars
    OBVIOUS
  <2> QED BY <2>1, NextInv, RecStep DEF Calm, InTurn
<1> SUFFICES ASSUME ~ open' PROVE (ppc \in Creating \/ DOMAIN db = {} => nput = 0)'
  <2>1. ASSUME open' PROVE ppc' \notin Creating /\ DOMAIN db' # {}
    <3>1. /\ ppc' \notin Creating /\ DOMAIN db' = ReadFile' .. WriteFile'
          /\ ridx' \in Nat /\ widx' \in Nat /\ ridx' <= widx'
      BY <1>a, <2>1 DEF Inv, TypeOK, LifeInv, IndexInv, RecInv, DataInv
    <3>2. /\ ReadFile' = ridx' \/ ReadFile' = ridx' - 1
          /\ WriteFile' = widx' \/ WriteFile' = widx' + 1
      BY DEF ReadFile, WriteFile
    <3>3. WriteFile' \in ReadFile' .. WriteFile'
      BY ONLY <3>1, <3>2
    <3> QED BY ONLY <3>1, <3>3
  <2> QED BY <2>1, ReadMapStep, ClosedStep DEF OnceInv
<1>b. open => DOMAIN db # {}
  BY OpenFiles
<1> USE DEF Inv, HeldInv, RecInv, TurnsInv, KeptInv, Calm, InTurn, Orderly, WriteFilesOpen,
            TypeOK, LifeInv, MutexInv, IndexInv, Creating, PutHolds, GetHolds, ReadFile,
            WriteFile, NoMap, NoFd
<1> USE DEF OnceInv
<1>1. CASE \E len \in Lens : PutBegin(len)
  BY <1>1 DEF PutBegin
<1>2. CASE GetBegin
  BY <1>2 DEF GetBegin
<1>3. CASE GetNothing
  BY <1>3 DEF GetNothing, vars
<1>4. CASE Create
  BY <1>4 DEF Create, CreatNoSpace, CreatSpace, Wipe, Wiped, MakeRtag, MakeWtag,
     MakeDb, MakeFails, MakeOpen
<1>5. CASE WriteMsg
  BY <1>5 DEF WriteMsg, PutFull, PutNotFull, PutFits, PutOverflows, WriteHead,
     WriteBody, WritePos, LoadPutNum, IncPutNum, PutReturn
<1>6. CASE NextWrite
  BY <1>6 DEF NextWrite, NextWriteNoSpace, NextWriteLock, NextWriteWtag,
     NextWriteNoWtag, NextWriteDb, NextWriteNoDb, NextWritePos,
     NextWriteIndex, NextWriteHead, NextWriteUnlink
<1>7. CASE GetData
  BY <1>7 DEF GetData, EndIndex, EndPos, EndReset, ParseOk, ParseSkip, ParseBeyond,
     WrapGetNum, NoWrap, WrapLoad, WrapPutNum, NoteRtag, GetReturn
<1>8. CASE NextRead
  BY <1>8 DEF NextRead, NextReadEnd, NextReadLock, NextReadRtag, NextReadNoRtag,
     NextReadNote, NextReadUnlink, NextReadShare, NextReadMap, NextReadNoMap
<1>9. CASE Process
  <2>1. CASE Close
    BY <2>1, <1>b DEF Close, Stop
  <2>2. CASE Crash
    BY <2>2, <1>b DEF Crash, Stop
  <2>3. CASE Segv
    BY <2>3, NoStray
  <2>4. CASE OpenQueue
    BY <2>4 DEF OpenQueue
  <2>5. CASE OpenWithout
    BY <2>5 DEF OpenWithout
  <2> QED BY <1>9, <2>1, <2>2, <2>3, <2>4, <2>5 DEF Process
<1>10. ~ PutStray /\ ~ GetStray
  BY NoStrays DEF RecInv
<1> QED BY <1>1, <1>2, <1>3, <1>4, <1>5, <1>6, <1>7, <1>8, <1>9, <1>10
        DEF Next, PutStep, GetStep

\* What the consumer holds is in its file until it is noted as read.
LEMMA HoldStep ==
    ASSUME Inv, HeldInv, RecInv, TurnsInv, KeptInv, Next, Calm PROVE DiskInv'
<1> USE DEF Inv, HeldInv, RecInv, TurnsInv, KeptInv, Calm, InTurn, Orderly, WriteFilesOpen,
            TypeOK, LifeInv, MutexInv, IndexInv, Creating, PutHolds, GetHolds, ReadFile,
            WriteFile, NoMap, NoFd
<1> USE DEF DiskInv, Hand, TurnInv
<1>1. CASE \E len \in Lens : PutBegin(len)
  BY <1>1 DEF PutBegin
<1>2. CASE GetBegin
  BY <1>2 DEF GetBegin
<1>3. CASE GetNothing
  BY <1>3 DEF GetNothing, vars
<1>4. CASE Create
  BY <1>4 DEF Create, CreatNoSpace, CreatSpace, Wipe, Wiped, MakeRtag, MakeWtag,
     MakeDb, MakeFails, MakeOpen
<1>5. CASE WriteMsg
  BY <1>5 DEF WriteMsg, PutFull, PutNotFull, PutFits, PutOverflows, WriteHead,
     WriteBody, WritePos, LoadPutNum, IncPutNum, PutReturn
<1>6. CASE NextWrite
  BY <1>6 DEF NextWrite, NextWriteNoSpace, NextWriteLock, NextWriteWtag,
     NextWriteNoWtag, NextWriteDb, NextWriteNoDb, NextWritePos,
     NextWriteIndex, NextWriteHead, NextWriteUnlink
<1>7. CASE GetData
  <2>1. CASE EndIndex
    BY <2>1 DEF EndIndex
  <2>2. CASE EndPos
    BY <2>2 DEF EndPos
  <2>3. CASE EndReset
    BY <2>3 DEF EndReset
  <2>4. CASE ParseOk
    <3>1. /\ cpc = "parse" /\ Parsed = "OK" /\ cmsg' = MsgAt(db[rmap], rpos) /\ cpc' = "wrap"
          /\ UNCHANGED <<db, rtag, ridx>>
      BY <2>4 DEF ParseOk
    <3>2. open /\ rmap = ridx /\ rpos \in Offset /\ Starts(db[ridx], rpos)
      BY <3>1, ParseFinds
    <3>3. rpos >= rtag[ridx].pos
      BY <3>2, NotedPos DEF ReadInv
    <3> QED BY <3>1, <3>2, <3>3
  <2>5. CASE ParseSkip
    BY <2>5 DEF ParseSkip
  <2>6. CASE ParseBeyond
    BY <2>6 DEF ParseBeyond
  <2>7. CASE WrapGetNum
    BY <2>7 DEF WrapGetNum
  <2>8. CASE NoWrap
    BY <2>8 DEF NoWrap
  <2>9. CASE WrapLoad
    BY <2>9 DEF WrapLoad
  <2>10. CASE WrapPutNum
    BY <2>10 DEF WrapPutNum
  <2>11. CASE NoteRtag
    BY <2>11 DEF NoteRtag
  <2>12. CASE GetReturn
    BY <2>12 DEF GetReturn
  <2> QED BY <1>7, <2>1, <2>2, <2>3, <2>4, <2>5, <2>6, <2>7, <2>8, <2>9, <2>10,
         <2>11, <2>12 DEF GetData
<1>8. CASE NextRead
  <2>1. CASE NextReadEnd
    BY <2>1 DEF NextReadEnd
  <2>2. CASE NextReadLock
    BY <2>2 DEF NextReadLock
  <2>3. CASE NextReadRtag
    <3>1. /\ open /\ cpc' = "r_write" /\ ridx' = ridx /\ rtag' = Created(rtag, ridx + 1, Empty)
          /\ DOMAIN rtag = {ridx} /\ ridx \in Nat
      BY <2>3 DEF NextReadRtag, RtagInv, RtagFiles
    <3>2. rtag'[ridx + 1] = Empty
      BY ONLY <3>1 DEF Created, With
    <3> QED BY <3>1, <3>2
  <2>4. CASE NextReadNoRtag
    BY <2>4 DEF NextReadNoRtag
  <2>5. CASE NextReadNote
    BY <2>5 DEF NextReadNote
  <2>6. CASE NextReadUnlink
    BY <2>6 DEF NextReadUnlink
  <2>7. CASE NextReadShare
    BY <2>7 DEF NextReadShare
  <2>8. CASE NextReadMap
    BY <2>8 DEF NextReadMap
  <2>9. CASE NextReadNoMap
    BY <2>9 DEF NextReadNoMap
  <2> QED BY <1>8, <2>1, <2>2, <2>3, <2>4, <2>5, <2>6, <2>7, <2>8, <2>9 DEF NextRead
<1>9. CASE Process
  <2>1. CASE Close
    BY <2>1 DEF Close, Stop
  <2>2. CASE Crash
    BY <2>2 DEF Crash, Stop
  <2>3. CASE Segv
    BY <2>3, NoStray
  <2>4. CASE OpenQueue
    BY <2>4 DEF OpenQueue
  <2>5. CASE OpenWithout
    BY <2>5 DEF OpenWithout
  <2> QED BY <1>9, <2>1, <2>2, <2>3, <2>4, <2>5 DEF Process
<1>10. ~ PutStray /\ ~ GetStray
  BY NoStrays DEF RecInv
<1> QED BY <1>1, <1>2, <1>3, <1>4, <1>5, <1>6, <1>7, <1>8, <1>9, <1>10
        DEF Next, PutStep, GetStep

\* A step that leaves a file leaves the records in it.
LEMMA KeptStep ==
    ASSUME Inv, HeldInv, RecInv, Next, Orderly,
           NEW i \in DOMAIN db, i \in DOMAIN db', NEW o \in Offset, Starts(db[i], o)
    PROVE  Starts(db'[i], o) /\ db'[i][o] = db[i][o]
<1> SUFFICES db'[i][o] = db[i][o]
  BY DEF Starts
<1>0. o \in Nat /\ o >= FileHead /\ FileHead \in Nat
  BY LayoutAssumption DEF Offset, RecInv, RecordInv
<1>1. CASE DbSame
  BY <1>1 DEF DbSame
<1>2. CASE DbLess
  BY <1>2 DEF DbLess, Without
<1>3. CASE DbMore
  BY <1>3 DEF DbMore, With
<1>4. CASE DbHead
  <2>1. db'[i] \in {db[i], WriteFileHead(db[i])}
    BY <1>4 DEF DbHead
  <2>2. CASE db'[i] = WriteFileHead(db[i])
    BY <1>0, <2>2 DEF WriteFileHead
  <2> QED BY <2>1, <2>2
<1>5. CASE WriteHead \/ WriteBody
  <2>1. /\ ppc \in {"rec", "body"}
        /\ db' = [db EXCEPT ![wmap] = IF WriteHead THEN WriteMsgHead(db[wmap], wpos, pmsg)
                                      ELSE WriteMsgBody(db[wmap], wpos, pmsg)]
        /\ WriteHead => ppc = "rec"
        /\ ~ WriteHead => ppc = "body"
    BY <1>5 DEF WriteHead, WriteBody
  <2>2. CASE i # wmap
    BY <2>1, <2>2
  <2>3. CASE i = wmap
    <3>1. /\ open /\ db[wmap] \in File /\ pmsg \in Message /\ wpos \in Nat /\ wmap = WriteFile
          /\ MsgHead \in Nat /\ wmap \in DOMAIN db
          /\ RecordLen(pmsg) \in Nat
      BY <2>1, PutPlace, RecordLenNat, LayoutAssumption DEF Inv, TypeOK
    <3>2. o < Frontier
      BY <2>3, <3>1, BeforeWrite
    <3>3. CASE WriteHead
      <4>1. db'[i] = WriteMsgHead(db[wmap], wpos, pmsg) /\ o < wpos
        BY <2>1, <2>3, <3>1, <3>2, <3>3 DEF Frontier
      <4> QED BY <2>3, <3>1, <4>1, Bytes, <1>0 DEF WriteMsgHead
    <3>4. CASE ~ WriteHead
      <4>1. db'[i] = WriteMsgBody(db[wmap], wpos, pmsg) /\ o < wpos + MsgHead
        BY <2>1, <2>3, <3>1, <3>2, <3>4 DEF Frontier
      <4> QED BY <2>3, <3>1, <4>1, Bytes, <1>0 DEF WriteMsgBody
    <3> QED BY <3>3, <3>4
  <2> QED BY <2>2, <2>3
<1> QED BY <1>1, <1>2, <1>3, <1>4, <1>5, DbStep

\* A file still to be read is not removed.
LEMMA FileStays == ASSUME Inv, HeldInv, RecInv, Next, InTurn, open, NEW i \in DOMAIN db, i >= ridx
                   PROVE  i \in DOMAIN db'
<1>a. i \in DOMAIN db /\ ridx \in Nat /\ i \in Nat /\ i # ridx - 1
  <2>1. ridx \in Nat /\ i \in Nat
    BY DEF Inv, TypeOK, Directory
  <2> QED BY ONLY <2>1, i >= ridx
<1> USE DEF Inv, LifeInv, Creating
<1>1. CASE \E len \in Lens : PutBegin(len)
  BY <1>1 DEF PutBegin
<1>2. CASE GetBegin
  BY <1>2 DEF GetBegin
<1>3. CASE GetNothing
  BY <1>3 DEF GetNothing, vars
<1>4. CASE Create
  BY <1>4 DEF Create, CreatNoSpace, CreatSpace, Wipe, Wiped, MakeRtag, MakeWtag,
     MakeDb, MakeFails, MakeOpen
<1>5. CASE WriteMsg
  <2>1. CASE PutFull
    BY <2>1 DEF PutFull
  <2>2. CASE PutNotFull
    BY <2>2 DEF PutNotFull
  <2>3. CASE PutFits
    BY <2>3 DEF PutFits
  <2>4. CASE PutOverflows
    BY <2>4 DEF PutOverflows
  <2>5. CASE WriteHead
    BY <2>5 DEF WriteHead
  <2>6. CASE WriteBody
    BY <2>6 DEF WriteBody
  <2>7. CASE WritePos
    BY <2>7 DEF WritePos
  <2>8. CASE LoadPutNum
    BY <2>8 DEF LoadPutNum
  <2>9. CASE IncPutNum
    BY <2>9 DEF IncPutNum
  <2>10. CASE PutReturn
    BY <2>10 DEF PutReturn
  <2> QED BY <1>5, <2>1, <2>2, <2>3, <2>4, <2>5, <2>6, <2>7, <2>8, <2>9, <2>10 DEF WriteMsg
<1>6. CASE NextWrite
  <2>1. CASE NextWriteNoSpace
    BY <2>1 DEF NextWriteNoSpace
  <2>2. CASE NextWriteLock
    BY <2>2 DEF NextWriteLock
  <2>3. CASE NextWriteWtag
    BY <2>3 DEF NextWriteWtag
  <2>4. CASE NextWriteNoWtag
    BY <2>4 DEF NextWriteNoWtag
  <2>5. CASE NextWriteDb
    <3>1. DOMAIN db' = DOMAIN db \cup {widx + 1}
      BY <2>5, Domains DEF NextWriteDb
    <3> QED BY ONLY <1>a, <3>1
  <2>6. CASE NextWriteNoDb
    BY <2>6 DEF NextWriteNoDb, InTurn, Orderly, WriteFilesOpen
  <2>7. CASE NextWritePos
    BY <2>7 DEF NextWritePos
  <2>8. CASE NextWriteIndex
    BY <2>8 DEF NextWriteIndex
  <2>9. CASE NextWriteHead
    BY <2>9 DEF NextWriteHead
  <2>10. CASE NextWriteUnlink
    BY <2>10 DEF NextWriteUnlink
  <2> QED BY <1>6, <2>1, <2>2, <2>3, <2>4, <2>5, <2>6, <2>7, <2>8, <2>9, <2>10 DEF NextWrite
<1>7. CASE GetData
  BY <1>7 DEF GetData, EndIndex, EndPos, EndReset, ParseOk, ParseSkip, ParseBeyond,
     WrapGetNum, NoWrap, WrapLoad, WrapPutNum, NoteRtag, GetReturn
<1>8. CASE NextRead
  <2>1. CASE NextReadEnd
    BY <2>1 DEF NextReadEnd
  <2>2. CASE NextReadLock
    BY <2>2 DEF NextReadLock
  <2>3. CASE NextReadRtag
    BY <2>3 DEF NextReadRtag
  <2>4. CASE NextReadNoRtag
    BY <2>4 DEF NextReadNoRtag
  <2>5. CASE NextReadNote
    BY <2>5 DEF NextReadNote
  <2>6. CASE NextReadUnlink
    BY <2>6 DEF NextReadUnlink
  <2>7. CASE NextReadShare
    <3>1. DOMAIN db' = DOMAIN db \ {ridx - 1}
      BY <2>7, Domains DEF NextReadShare
    <3> QED BY ONLY <1>a, <3>1
  <2>8. CASE NextReadMap
    <3>1. DOMAIN db' = DOMAIN db \ {ridx - 1}
      BY <2>8, Domains DEF NextReadMap
    <3> QED BY ONLY <1>a, <3>1
  <2>9. CASE NextReadNoMap
    <3>1. DOMAIN db' = DOMAIN db \ {ridx - 1}
      BY <2>9, Domains DEF NextReadNoMap
    <3> QED BY ONLY <1>a, <3>1
  <2> QED BY <1>8, <2>1, <2>2, <2>3, <2>4, <2>5, <2>6, <2>7, <2>8, <2>9 DEF NextRead
<1>9. CASE Process
  <2>1. CASE Close
    BY <2>1 DEF Close, Stop
  <2>2. CASE Crash
    BY <2>2, QuietKill DEF InTurn
  <2>3. CASE Segv
    BY <2>3, NoStray
  <2>4. CASE OpenQueue
    BY <2>4 DEF OpenQueue
  <2>5. CASE OpenWithout
    BY <2>5 DEF OpenWithout
  <2> QED BY <1>9, <2>1, <2>2, <2>3, <2>4, <2>5 DEF Process
<1>10. ~ PutStray /\ ~ GetStray
  BY NoStrays DEF RecInv
<1> QED BY <1>1, <1>2, <1>3, <1>4, <1>5, <1>6, <1>7, <1>8, <1>9, <1>10
        DEF Next, PutStep, GetStep

\* A record has a body.
LEMMA RecordBody ==
    ASSUME Inv, RecInv, TurnsInv, KeptInv, NEW i \in DOMAIN db, NEW o \in Offset,
           Starts(db[i], o)
    PROVE  RecordLen(MsgAt(db[i], o)) \in Nat /\ RecordLen(MsgAt(db[i], o)) > MsgHead
<1> DEFINE n == db[i][o][1]
<1>1. n \in Nat /\ n # 0 /\ n <= nput /\ nput \in Nat
  BY RecordId DEF Starts, TurnsInv, IdInv, Inv, TypeOK
<1>2. DOMAIN sent = 1 .. Len(sent) /\ Len(sent) \in Nat
  BY DEF Inv, TypeOK
<1>3. MsgAt(db[i], o) = IF n \in DOMAIN sent THEN sent[n] ELSE pmsg
  BY DEF KeptInv, MatchInv
<1>4. MsgAt(db[i], o).len \in Lens
  <2>1. CASE n \in DOMAIN sent
    BY <1>3, <2>1 DEF KeptInv, SentInv
  <2>2. CASE n \notin DOMAIN sent
    <3>1. ppc \in {"body", "pos", "num", "inc"}
      BY <1>1, <1>2, <2>2 DEF KeptInv, SentInv
    <3> QED BY <1>3, <2>2, <3>1 DEF KeptInv, SentInv
  <2> QED BY <2>1, <2>2
<1>5. MsgAt(db[i], o).len \in Nat /\ MsgAt(db[i], o).len > 0
  BY <1>4, StoreAssumption DEF ValidLen
<1> HIDE DEF n
<1> QED BY ONLY <1>5, LayoutAssumption DEF RecordLen

\* Between calls every record is there to its last byte.
LEMMA RecordWhole ==
    ASSUME Inv, RecInv, ppc # "body", NEW i \in DOMAIN db, NEW o \in Offset, Starts(db[i], o)
    PROVE  Intact(db[i], o)
  BY DEF RecInv, RecordInv, InWork

\* No record begins inside another.
LEMMA NotInside ==
    ASSUME NEW f, NEW o \in Nat, NEW p \in Nat, Starts(f, o), Starts(f, p), Intact(f, o),
           RecordLen(MsgAt(f, o)) \in Nat, o < p
    PROVE  o + RecordLen(MsgAt(f, o)) <= p
<1> SUFFICES ASSUME p < o + RecordLen(MsgAt(f, o)) PROVE FALSE
  OBVIOUS
<1>1. p - o \in 0 .. RecordLen(MsgAt(f, o)) - 1 /\ o + (p - o) = p /\ p - o # 0
  OBVIOUS
<1>2. f[p] = <<f[o][1], f[o][2], p - o>>
  BY <1>1 DEF Intact, CrcOk
<1> QED BY <1>1, <1>2 DEF Starts

\* The consumer passes a record only by taking it.
LEMMA AheadStep ==
    ASSUME Inv, HeldInv, RecInv, TurnsInv, KeptInv, Next, Calm, open, open',
           NEW i \in DOMAIN db, NEW o \in Offset, Starts(db[i], o), Ahead(i, o),
           ~ (Hand' /\ db[i][o][1] = cmsg'.id)
    PROVE  Ahead(i, o)'
<1>a. /\ i \in Nat /\ o \in Nat /\ ridx \in Nat /\ rpos \in Nat /\ o >= FileHead /\ FileHead \in Nat
      /\ i <= WriteFile
  <2>1. i <= WriteFile
    BY BeforeWrite, WriteFileThere
  <2>2. i \in Nat /\ ridx \in Nat /\ rpos \in Nat
    BY DEF Inv, TypeOK, Directory
  <2>3. o \in Nat /\ FileHead \in Nat
    BY LayoutAssumption DEF Offset
  <2>4. o >= FileHead
    BY DEF RecInv, RecordInv
  <2> QED BY <2>1, <2>2, <2>3, <2>4
<1>b. RecordLen(MsgAt(db[i], o)) \in Nat /\ RecordLen(MsgAt(db[i], o)) > MsgHead
  BY RecordBody
<1> USE DEF Inv, HeldInv, LifeInv, Creating, Ahead
<1>1. CASE \E len \in Lens : PutBegin(len)
  BY <1>1 DEF PutBegin
<1>2. CASE GetBegin
  BY <1>2 DEF GetBegin
<1>3. CASE GetNothing
  BY <1>3 DEF GetNothing, vars
<1>4. CASE Create
  BY <1>4 DEF Create, CreatNoSpace, CreatSpace, Wipe, Wiped, MakeRtag, MakeWtag,
     MakeDb, MakeFails, MakeOpen
<1>5. CASE WriteMsg
  BY <1>5 DEF WriteMsg, PutFull, PutNotFull, PutFits, PutOverflows, WriteHead,
     WriteBody, WritePos, LoadPutNum, IncPutNum, PutReturn
<1>6. CASE NextWrite
  BY <1>6 DEF NextWrite, NextWriteNoSpace, NextWriteLock, NextWriteWtag,
     NextWriteNoWtag, NextWriteDb, NextWriteNoDb, NextWritePos,
     NextWriteIndex, NextWriteHead, NextWriteUnlink
<1>7. CASE GetData
  <2>1. CASE EndIndex
    BY <2>1 DEF EndIndex
  <2>2. CASE EndPos
    BY <2>2 DEF EndPos
  <2>3. CASE EndReset
    <3>1. /\ cpc = "reset" /\ ppc = "idle" /\ ridx = widx /\ rpos + MsgHead >= wpos /\ WriteFile = ridx
          /\ Frontier = wpos /\ wpos \in Nat
      BY <2>3 DEF EndReset, TurnsInv, TurnInv, ReadInv, WriteFile, Frontier, TypeOK
    <3>2. i = ridx /\ o >= rpos
      BY <1>a, <3>1
    <3>3. Intact(db[i], o) /\ db[i] \in File /\ Clear(db[i], wpos)
      BY <3>1, <3>2, RecordWhole DEF RecInv, WholeInv, WriteInv, ClearInv
    <3>4. o + RecordLen(MsgAt(db[i], o)) <= wpos
      BY <3>1, <3>3, LastByte
    <3> QED BY <1>a, <1>b, <3>1, <3>2, <3>4, LayoutAssumption
  <2>4. CASE ParseOk
    <3>1. /\ cpc = "parse" /\ Parsed = "OK" /\ cpc' = "wrap" /\ UNCHANGED <<ridx, got>>
          /\ cmsg' = MsgAt(db[rmap], rpos) /\ rpos' = rpos + RecordLen(cmsg')
      BY <2>4 DEF ParseOk
    <3>2. /\ rmap = ridx /\ rpos \in Offset /\ Starts(db[ridx], rpos) /\ Intact(db[ridx], rpos)
          /\ RecordLen(MsgAt(db[ridx], rpos)) \in Nat
      BY <3>1, ParseFinds, ReadBefore
    <3>3. Hand' /\ cmsg'.id = db[ridx][rpos][1]
      BY <3>1, <3>2 DEF Hand, MsgAt
    <3>4. CASE i > ridx
      BY <3>1, <3>4
    <3>5. CASE i = ridx /\ o >= rpos
      <4>2. o # rpos
        BY <3>3, <3>5
      <4>3. rpos + RecordLen(MsgAt(db[ridx], rpos)) <= o
        BY <1>a, <3>2, <3>5, <4>2, NotInside
      <4> QED BY <1>a, <3>1, <3>2, <3>5, <4>3
    <3> QED BY <3>4, <3>5
  <2>5. CASE ParseSkip
    <3>1. /\ cpc = "parse" /\ rmap \in mapped /\ ridx' = ridx
      BY <2>5 DEF ParseSkip
    <3>2. NoTornRead
      BY NoTorn DEF Calm, InTurn
    <3>3. Parsed = "MAG_NUM_ERR" /\ rpos' = rpos + 1
      BY <2>5, <3>1, <3>2 DEF ParseSkip, NoTornRead, RecInv, StaleInv
    <3>4. ~ Starts(db[ridx], rpos)
      BY <3>1, <3>3, ParseFinds
    <3> QED BY <1>a, <3>1, <3>3, <3>4
  <2>6. CASE ParseBeyond
    BY <2>6 DEF ParseBeyond
  <2>7. CASE WrapGetNum
    BY <2>7 DEF WrapGetNum
  <2>8. CASE NoWrap
    BY <2>8 DEF NoWrap
  <2>9. CASE WrapLoad
    BY <2>9 DEF WrapLoad
  <2>10. CASE WrapPutNum
    BY <2>10 DEF WrapPutNum
  <2>11. CASE NoteRtag
    BY <2>11 DEF NoteRtag
  <2>12. CASE GetReturn
    BY <2>12 DEF GetReturn
  <2> QED BY <1>7, <2>1, <2>2, <2>3, <2>4, <2>5, <2>6, <2>7, <2>8, <2>9, <2>10,
         <2>11, <2>12 DEF GetData
<1>8. CASE NextRead
  <2>1. CASE NextReadEnd
    <3>1. ridx <= widx /\ widx \in Nat /\ ridx' = widx /\ rpos' = rpos /\ ridx + 1 > widx
      BY <2>1 DEF NextReadEnd, IndexInv, TypeOK
    <3> QED BY <1>a, <3>1
  <2>2. CASE NextReadLock
    BY <2>2 DEF NextReadLock
  <2>3. CASE NextReadRtag
    BY <2>3 DEF NextReadRtag
  <2>4. CASE NextReadNoRtag
    BY <2>4 DEF NextReadNoRtag
  <2>5. CASE NextReadNote
    <3>1. cpc = "r_write" /\ ridx' = ridx + 1 /\ rpos' = FileHead /\ ppc = "idle"
      BY <2>5 DEF NextReadNote, TurnsInv, TurnInv
    <3>2. rpos + MsgHead >= MaxFile
      BY <3>1 DEF TurnsInv, ReadInv, Spent, KeptInv, OnceInv
    <3>3. o + RecordLen(MsgAt(db[i], o)) <= MaxFile
      BY <3>1, RecordWhole DEF Intact, Fits
    <3>4. ~ (i = ridx /\ o >= rpos)
      BY <1>a, <1>b, <3>2, <3>3, LayoutAssumption
    <3> QED BY <1>a, <3>1, <3>4
  <2>6. CASE NextReadUnlink
    BY <2>6 DEF NextReadUnlink
  <2>7. CASE NextReadShare
    BY <2>7 DEF NextReadShare
  <2>8. CASE NextReadMap
    BY <2>8 DEF NextReadMap
  <2>9. CASE NextReadNoMap
    BY <2>9 DEF NextReadNoMap
  <2> QED BY <1>8, <2>1, <2>2, <2>3, <2>4, <2>5, <2>6, <2>7, <2>8, <2>9 DEF NextRead
<1>9. CASE Process
  <2>1. CASE Close
    BY <2>1 DEF Close, Stop
  <2>2. CASE Crash
    BY <2>2, QuietKill DEF Calm, InTurn
  <2>3. CASE Segv
    BY <2>3, NoStray
  <2>4. CASE OpenQueue
    BY <2>4 DEF OpenQueue
  <2>5. CASE OpenWithout
    BY <2>5 DEF OpenWithout
  <2> QED BY <1>9, <2>1, <2>2, <2>3, <2>4, <2>5 DEF Process
<1>10. ~ PutStray /\ ~ GetStray
  BY NoStrays DEF RecInv
<1> QED BY <1>1, <1>2, <1>3, <1>4, <1>5, <1>6, <1>7, <1>8, <1>9, <1>10
        DEF Next, PutStep, GetStep

\* How a queue comes to be open, or not.
LEMMA OpenStep ==
    ASSUME Inv, HeldInv, RecInv, Next, Calm PROVE 
    /\ ~ open /\ open' => OpenQueue \/ MakeOpen
    /\ open /\ ~ open' => Close \/ Crash
    /\ ~ open /\ ~ open' /\ ppc' \in {"idle", "creat"}
           => UNCHANGED <<db, rtag>> \/ MakeFails
    /\ ~ open => UNCHANGED <<nput, got>>
<1> USE DEF Inv, LifeInv, Creating
<1>1. CASE \E len \in Lens : PutBegin(len)
  BY <1>1 DEF PutBegin
<1>2. CASE GetBegin
  BY <1>2 DEF GetBegin
<1>3. CASE GetNothing
  BY <1>3 DEF GetNothing, vars
<1>4. CASE Create
  BY <1>4 DEF Create, CreatNoSpace, CreatSpace, Wipe, Wiped, MakeRtag, MakeWtag,
     MakeDb, MakeFails, MakeOpen
<1>5. CASE WriteMsg
  BY <1>5 DEF WriteMsg, PutFull, PutNotFull, PutFits, PutOverflows, WriteHead,
     WriteBody, WritePos, LoadPutNum, IncPutNum, PutReturn
<1>6. CASE NextWrite
  BY <1>6 DEF NextWrite, NextWriteNoSpace, NextWriteLock, NextWriteWtag,
     NextWriteNoWtag, NextWriteDb, NextWriteNoDb, NextWritePos,
     NextWriteIndex, NextWriteHead, NextWriteUnlink
<1>7. CASE GetData
  BY <1>7 DEF GetData, EndIndex, EndPos, EndReset, ParseOk, ParseSkip, ParseBeyond,
     WrapGetNum, NoWrap, WrapLoad, WrapPutNum, NoteRtag, GetReturn
<1>8. CASE NextRead
  BY <1>8 DEF NextRead, NextReadEnd, NextReadLock, NextReadRtag, NextReadNoRtag,
     NextReadNote, NextReadUnlink, NextReadShare, NextReadMap, NextReadNoMap
<1>9. CASE Process
  <2>1. CASE Close
    BY <2>1 DEF Close, Stop
  <2>2. CASE Crash
    BY <2>2, QuietKill DEF Calm, InTurn
  <2>3. CASE Segv
    BY <2>3, NoStray
  <2>4. CASE OpenQueue
    BY <2>4 DEF OpenQueue
  <2>5. CASE OpenWithout
    BY <2>5 DEF OpenWithout
  <2> QED BY <1>9, <2>1, <2>2, <2>3, <2>4, <2>5 DEF Process
<1>10. ~ PutStray /\ ~ GetStray
  BY NoStrays DEF RecInv
<1> QED BY <1>1, <1>2, <1>3, <1>4, <1>5, <1>6, <1>7, <1>8, <1>9, <1>10
        DEF Next, PutStep, GetStep

\* A kill is counted.
LEMMA KillsStep == ASSUME Inv, HeldInv, RecInv, Next
    PROVE  /\ Crash => ncrash' = ncrash + 1 /\ ncrash < MaxCrashes
           /\ ~ Crash => ncrash' = ncrash
<1>1. CASE \E len \in Lens : PutBegin(len)
  BY <1>1 DEF PutBegin, Crash
<1>2. CASE GetBegin
  BY <1>2 DEF GetBegin, Crash
<1>3. CASE GetNothing
  BY <1>3 DEF GetNothing, vars, Crash
<1>4. CASE Create
  BY <1>4 DEF Create, CreatNoSpace, CreatSpace, Wipe, Wiped, MakeRtag, MakeWtag,
     MakeDb, MakeFails, MakeOpen, Crash
<1>5. CASE WriteMsg
  BY <1>5 DEF WriteMsg, PutFull, PutNotFull, PutFits, PutOverflows, WriteHead,
     WriteBody, WritePos, LoadPutNum, IncPutNum, PutReturn, Crash
<1>6. CASE NextWrite
  BY <1>6 DEF NextWrite, NextWriteNoSpace, NextWriteLock, NextWriteWtag,
     NextWriteNoWtag, NextWriteDb, NextWriteNoDb, NextWritePos,
     NextWriteIndex, NextWriteHead, NextWriteUnlink, Crash
<1>7. CASE GetData
  BY <1>7 DEF GetData, EndIndex, EndPos, EndReset, ParseOk, ParseSkip, ParseBeyond,
     WrapGetNum, NoWrap, WrapLoad, WrapPutNum, NoteRtag, GetReturn, Crash
<1>8. CASE NextRead
  BY <1>8 DEF NextRead, NextReadEnd, NextReadLock, NextReadRtag, NextReadNoRtag,
     NextReadNote, NextReadUnlink, NextReadShare, NextReadMap, NextReadNoMap, Crash
<1>9. CASE Process
  BY <1>9, NoStray DEF Process, Close, Crash, OpenQueue, OpenWithout, Stop
<1>10. ~ PutStray /\ ~ GetStray
  BY NoStrays DEF RecInv
<1> QED BY <1>1, <1>2, <1>3, <1>4, <1>5, <1>6, <1>7, <1>8, <1>9, <1>10
        DEF Next, PutStep, GetStep

\* A message in the files stays there to be read, until the consumer takes it.
LEMMA PresentStays ==
    ASSUME Inv, HeldInv, RecInv, TurnsInv, KeptInv, Next, Calm,
           NEW n \in 1 .. nput, Present(n), ~ (Hand' /\ cmsg'.id = n)
    PROVE  Present(n)'
<1>0. nput \in Nat
  BY DEF Inv, TypeOK
<1>1. CASE open /\ open'
  <2>1. PICK i \in DOMAIN db, o \in Offset : Starts(db[i], o) /\ db[i][o][1] = n /\ Ahead(i, o)
    BY <1>1 DEF Present
  <2>2. i >= ridx
    <3>1. i \in Nat /\ ridx \in Nat
      BY DEF Inv, TypeOK, Directory
    <3> QED BY <2>1, <3>1 DEF Ahead
  <2>3. i \in DOMAIN db'
    BY <1>1, <2>2, FileStays DEF Calm
  <2>4. Starts(db'[i], o) /\ db'[i][o] = db[i][o]
    BY <2>1, <2>3, KeptStep DEF Calm, InTurn
  <2>5. Ahead(i, o)'
    BY <1>1, <2>1, AheadStep
  <2> QED BY <1>1, <2>1, <2>3, <2>4, <2>5 DEF Present
<1>2. CASE ~ open /\ open'
  <2>1. OpenQueue
    <3>1. OpenQueue \/ MakeOpen
      BY <1>2, OpenStep
    <3>2. ~ MakeOpen
      BY <1>0 DEF MakeOpen, Creating, KeptInv, OnceInv
    <3> QED BY <3>1, <3>2
  <2>2. PICK q \in DOMAIN rtag : ridx' = q /\ rpos' = rtag[q].pos
    BY <2>1 DEF OpenQueue
  <2>3. ppc = "idle" /\ db' = db
    BY <1>2, <2>1 DEF OpenQueue, Inv, LifeInv
  <2>4. PICK r \in DOMAIN rtag, i \in DOMAIN db, o \in Offset :
            Starts(db[i], o) /\ db[i][o][1] = n /\ NotedAhead(r, i, o)
    BY <1>2, <2>3 DEF Present
  <2>5. q = r
    BY <1>2, <2>3, <2>4, RestOpens
  <2> QED BY <1>2, <2>2, <2>3, <2>4, <2>5 DEF Ahead, NotedAhead, Present
<1>3. CASE open /\ ~ open'
  <2>1. UNCHANGED <<db, rtag>>
    <3>1. CASE Close
      BY <3>1 DEF Close, Stop
    <3>2. CASE Crash
      BY <3>2, QuietKill DEF Calm, InTurn
    <3> QED BY <1>3, <3>1, <3>2, OpenStep
  <2>2. PICK i \in DOMAIN db, o \in Offset : Starts(db[i], o) /\ db[i][o][1] = n /\ Ahead(i, o)
    BY <1>3 DEF Present
  <2>3. ridx \in DOMAIN rtag /\ rtag[ridx].pos <= rpos /\ rtag[ridx].pos \in Nat /\ rpos \in Nat
    BY <1>3, NotedPos DEF Inv, TypeOK, TurnsInv, ReadInv
  <2>4. o \in Nat
    BY LayoutAssumption DEF Offset
  <2>5. NotedAhead(ridx, i, o)
    BY ONLY <2>2, <2>3, <2>4 DEF NotedAhead, Ahead
  <2>6. \E q \in DOMAIN rtag, j \in DOMAIN db, p \in Offset :
            Starts(db[j], p) /\ db[j][p][1] = n /\ NotedAhead(q, j, p)
    BY <2>2, <2>3, <2>5
  <2> QED BY <1>3, <2>1, <2>6 DEF NotedAhead, Present
<1>4. CASE ~ open /\ ~ open'
  <2> SUFFICES ASSUME ppc' \in {"idle", "creat"} PROVE Present(n)'
    BY <1>4 DEF Present
  <2>1. ppc \notin Creating
    BY <1>0 DEF KeptInv, OnceInv
  <2>2. ppc \in {"idle", "creat"} /\ UNCHANGED <<db, rtag>>
    BY <1>4, <2>1, OpenStep DEF Inv, LifeInv, MakeFails, Creating
  <2>3. \E r \in DOMAIN rtag, i \in DOMAIN db, o \in Offset :
            Starts(db[i], o) /\ db[i][o][1] = n /\ NotedAhead(r, i, o)
    BY <1>4, <2>2 DEF Present
  <2> QED BY <1>4, <2>2, <2>3 DEF NotedAhead, Present
<1> QED BY <1>1, <1>2, <1>3, <1>4

\* A record is written ahead of the consumer, ...
LEMMA WriteAhead ==
    ASSUME Inv, HeldInv, RecInv, TurnsInv, WriteHead
    PROVE  wmap > ridx' \/ (wmap = ridx' /\ wpos >= rpos')
<1>1. ppc = "rec" /\ UNCHANGED <<ridx, rpos>>
  BY DEF WriteHead
<1>2. cpc = "idle" /\ open
  BY <1>1 DEF TurnsInv, TurnInv, Inv, LifeInv, Creating
<1>3. wmap = WriteFile /\ wpos \in Nat
  BY <1>1, PutPlace DEF Inv, TypeOK
<1>4. /\ WriteFile = widx /\ ReadFile = ridx /\ ridx <= widx /\ ridx \in Nat /\ widx \in Nat
      /\ rpos \in Nat
  BY <1>1, <1>2 DEF WriteFile, ReadFile, Inv, TypeOK, IndexInv
<1>5. ridx = widx => rpos <= wpos
  BY <1>2, <1>4 DEF TurnsInv, ReadInv
<1> QED BY ONLY <1>1, <1>3, <1>4, <1>5

\* ... so that its message is there to be read.
LEMMA NewPresent ==
    ASSUME Inv, HeldInv, RecInv, TurnsInv, KeptInv, WriteHead, NEW n, n = nput + 1
    PROVE  Present(n)'
<1>0. nput \in Nat /\ nput' = nput + 1
  BY DEF Inv, TypeOK, WriteHead
<1>1. /\ ppc = "rec" /\ UNCHANGED <<open, ridx, rpos, wmap, wpos>>
      /\ db' = [db EXCEPT ![wmap] = WriteMsgHead(db[wmap], wpos, pmsg)]
  BY DEF WriteHead
<1>2. pmsg.id = nput + 1 /\ cpc = "idle" /\ open
  BY <1>1 DEF TurnsInv, TurnInv, NumberInv, Writing, Inv, LifeInv, Creating
<1>3. /\ wmap \in DOMAIN db /\ wmap = WriteFile /\ db[wmap] \in File
      /\ pmsg \in Message /\ wpos \in Offset /\ wpos \in Nat
  BY <1>1, PutPlace DEF Inv, TypeOK
<1>4. wmap \in DOMAIN db' /\ db'[wmap] = WriteMsgHead(db[wmap], wpos, pmsg)
  BY <1>1, <1>3
<1>5. db'[wmap][wpos] = <<pmsg.id, pmsg.len, 0>>
  <2>1. WriteBytes(db[wmap], wpos, pmsg, 0, MsgHead - 1)[wpos] = <<pmsg.id, pmsg.len, wpos - wpos>>
    <3>1. 0 \in Int /\ MsgHead - 1 \in Int /\ wpos + 0 <= wpos /\ wpos <= wpos + (MsgHead - 1)
      BY ONLY <1>3, LayoutAssumption
    <3> QED BY ONLY <1>3, <3>1, Bytes
  <2>2. wpos - wpos = 0
    BY <1>3
  <2> QED BY <1>4, <2>1, <2>2 DEF WriteMsgHead
<1>6. Starts(db'[wmap], wpos) /\ db'[wmap][wpos][1] = n
  BY ONLY <1>0, <1>2, <1>5, n = nput + 1 DEF Starts
<1>7. wmap > ridx' \/ (wmap = ridx' /\ wpos >= rpos')
  BY WriteAhead
<1> QED BY ONLY <1>1, <1>2, <1>3, <1>4, <1>6, <1>7 DEF Present, Ahead

\* The messages lost are a finite set.
LEMMA LostFinite == ASSUME Inv PROVE IsFiniteSet(Lost) /\ Cardinality(Lost) \in Nat
<1>1. nput \in Int /\ 1 \in Int
  BY DEF Inv, TypeOK
<1>2. IsFiniteSet(1 .. nput)
  BY ONLY <1>1, FS_Interval
<1>3. Lost \in SUBSET (1 .. nput)
  BY DEF Lost
<1>4. IsFiniteSet(Lost)
  BY ONLY <1>2, <1>3, FS_Subset
<1> QED BY ONLY <1>4, FS_CardinalityType

\* Only a kill loses a message, and only the one in the consumer's hands.
LEMMA LostStep ==
    ASSUME Inv, HeldInv, RecInv, TurnsInv, KeptInv, Next, Calm, NEW n \in Lost'
    PROVE  n \in Lost \/ (Crash /\ n = cmsg.id)
<1>0. nput \in Nat /\ got \in Seq(Message) /\ cmsg \in Message
  BY DEF Inv, TypeOK
<1>1. n \in 1 .. nput' /\ n \notin Ids(got') /\ ~ (Hand' /\ cmsg'.id = n) /\ ~ Present(n)'
  BY DEF Lost
<1>2. n \in 1 .. nput
  <2> SUFFICES ASSUME n \notin 1 .. nput PROVE FALSE
    OBVIOUS
  <2>1. WriteHead
    BY <1>1, HistStep
  <2>2. nput' = nput + 1
    BY <2>1 DEF WriteHead
  <2>3. n = nput + 1
    BY ONLY <1>0, <1>1, <2>2, n \notin 1 .. nput
  <2>4. Present(n)'
    BY <2>1, <2>3, NewPresent
  <2> QED BY <1>1, <2>4
<1>3. ~ Present(n)
  BY <1>1, <1>2, PresentStays
<1>4. n \notin Ids(got) /\ (GetReturn => n # cmsg.id)
  <2>1. CASE GetReturn
    <3>1. got' = Append(got, cmsg)
      BY <2>1 DEF GetReturn
    <3>2. /\ DOMAIN got' = 1 .. Len(got) + 1 /\ DOMAIN got = 1 .. Len(got) /\ Len(got) \in Nat
          /\ got'[Len(got) + 1] = cmsg /\ \A k \in DOMAIN got : got'[k] = got[k]
      BY ONLY <1>0, <3>1, Appended
    <3>3. Len(got) + 1 \in DOMAIN got' /\ DOMAIN got \subseteq DOMAIN got'
      BY ONLY <3>2
    <3> QED BY <1>1, <3>2, <3>3 DEF Ids
  <2>2. CASE ~ GetReturn
    BY <1>1, <2>2, HistStep
  <2> QED BY <2>1, <2>2
<1>5. Hand /\ cmsg.id = n => Crash
  <2> SUFFICES ASSUME Hand, cmsg.id = n PROVE Crash
    OBVIOUS
  <2>1. CASE Hand'
    <3>1. cmsg' = cmsg
      BY <2>1, HandChange DEF Calm, ParseOk, Hand
    <3> QED BY <1>1, <2>1, <3>1
  <2>2. CASE ~ Hand'
    BY <1>4, <2>2, HandLeaves
  <2> QED BY <2>1, <2>2
<1> QED BY <1>2, <1>3, <1>4, <1>5 DEF Lost

\* Each kill loses at most one message.
LEMMA LossStep ==
    ASSUME Inv, HeldInv, RecInv, TurnsInv, KeptInv, Next, Calm PROVE LossInv'
<1>1. Cardinality(Lost) <= ncrash /\ ncrash <= MaxCrashes /\ ncrash \in Nat /\ MaxCrashes \in Nat
  BY StoreAssumption DEF KeptInv, LossInv, Inv, TypeOK
<1>2. IsFiniteSet(Lost) /\ Cardinality(Lost) \in Nat
  BY LostFinite
<1>3. Inv'
  <2>1. [Next]_vars
    OBVIOUS
  <2> QED BY <2>1, NextInv
<1>4. IsFiniteSet(Lost') /\ Cardinality(Lost') \in Nat
  <2>1. nput' \in Int /\ 1 \in Int
    BY <1>3 DEF Inv, TypeOK
  <2>2. IsFiniteSet(1 .. nput')
    BY ONLY <2>1, FS_Interval
  <2>3. Lost' \in SUBSET (1 .. nput')
    BY DEF Lost
  <2>4. IsFiniteSet(Lost')
    BY ONLY <2>2, <2>3, FS_Subset
  <2> QED BY ONLY <2>4, FS_CardinalityType
<1>5. CASE Crash
  <2>1. ncrash' = ncrash + 1 /\ ncrash < MaxCrashes
    BY <1>5, KillsStep
  <2>2. Lost' \in SUBSET (Lost \cup {cmsg.id})
    BY LostStep
  <2>3. IsFiniteSet(Lost \cup {cmsg.id}) /\ Cardinality(Lost \cup {cmsg.id}) <= Cardinality(Lost) + 1
        /\ Cardinality(Lost \cup {cmsg.id}) \in Nat
    BY ONLY <1>2, FS_AddElement
  <2>4. Cardinality(Lost') <= Cardinality(Lost \cup {cmsg.id})
    BY ONLY <2>2, <2>3, FS_Subset
  <2>5. Cardinality(Lost') <= ncrash' /\ ncrash' <= MaxCrashes
    BY ONLY <1>1, <1>2, <1>4, <2>1, <2>3, <2>4
  <2> QED BY <2>5 DEF LossInv
<1>6. CASE ~ Crash
  <2>1. ncrash' = ncrash
    BY <1>6, KillsStep
  <2>2. Lost' \in SUBSET Lost
    BY <1>6, LostStep
  <2>3. Cardinality(Lost') <= Cardinality(Lost)
    BY ONLY <1>2, <2>2, FS_Subset
  <2>4. Cardinality(Lost') <= ncrash' /\ ncrash' <= MaxCrashes
    BY ONLY <1>1, <1>2, <1>4, <2>1, <2>3
  <2> QED BY <2>4 DEF LossInv
<1> QED BY <1>5, <1>6

\* The consumer takes what was put.
LEMMA HandedStep ==
    ASSUME Inv, HeldInv, RecInv, TurnsInv, KeptInv, Next, Calm PROVE HandedInv'
<1> SUFFICES ASSUME Hand' PROVE cmsg'.id \in DOMAIN sent' /\ cmsg' = sent'[cmsg'.id]
  BY DEF HandedInv
<1>0. /\ sent \in Seq(Message) /\ pmsg \in Message /\ nput \in Nat /\ Len(sent) \in Nat
      /\ DOMAIN sent = 1 .. Len(sent)
  BY DEF Inv, TypeOK
<1>1. CASE ParseOk
  <2>1. /\ cpc = "parse" /\ Parsed = "OK" /\ sent' = sent /\ cmsg' = MsgAt(db[rmap], rpos)
    BY <1>1 DEF ParseOk
  <2>2. /\ rmap = ridx /\ ppc = "idle" /\ ridx \in DOMAIN db /\ rpos \in Offset
        /\ Starts(db[ridx], rpos)
    <3>1. rmap = ridx /\ ~ Spent
      BY <2>1, ParseFinds
    <3>2. rmap # NoMap
      BY <3>1 DEF Spent
    <3> QED BY <2>1, <3>2, ParseFinds
  <2> DEFINE n == db[ridx][rpos][1]
  <2>3. n \in Nat /\ n # 0 /\ n <= nput
    BY <2>2, RecordId DEF Starts, TurnsInv, IdInv
  <2>4. Len(sent) = nput
    BY <2>2 DEF KeptInv, SentInv
  <2>5. n \in DOMAIN sent
    <3> HIDE DEF n
    <3> QED BY ONLY <1>0, <2>3, <2>4
  <2>6. MsgAt(db[ridx], rpos) = sent[n] /\ MsgAt(db[ridx], rpos).id = n
    BY <2>2, <2>5 DEF KeptInv, MatchInv, MsgAt
  <2> QED BY <2>1, <2>2, <2>5, <2>6
<1>2. CASE ~ ParseOk
  <2>1. Hand /\ cmsg' = cmsg
    BY <1>2, HandChange DEF Calm
  <2>2. cmsg.id \in DOMAIN sent /\ cmsg = sent[cmsg.id]
    BY <2>1 DEF KeptInv, HandedInv
  <2>3. sent' = sent \/ sent' = Append(sent, pmsg)
    BY HistStep DEF IncPutNum
  <2>4. \A k \in DOMAIN sent : k \in DOMAIN sent' /\ sent'[k] = sent[k]
    BY ONLY <1>0, <2>3, Appended
  <2> QED BY ONLY <2>1, <2>2, <2>4
<1> QED BY <1>1, <1>2

\* The consumer moves on, never back.
LEMMA ReadForward ==
    ASSUME Inv, HeldInv, RecInv, TurnsInv, Next, Calm, open, open'
    PROVE  ridx' > ridx \/ (ridx' = ridx /\ rpos' >= rpos)
<1>0. ridx \in Nat /\ rpos \in Nat /\ widx \in Nat /\ wpos \in Nat /\ ridx <= widx
  BY DEF Inv, TypeOK, IndexInv
<1>a. ridx >= ridx /\ rpos >= rpos
  BY <1>0
<1> USE <1>a DEF Inv, LifeInv, Creating
<1>1. CASE \E len \in Lens : PutBegin(len)
  BY <1>1 DEF PutBegin
<1>2. CASE GetBegin
  BY <1>2 DEF GetBegin
<1>3. CASE GetNothing
  BY <1>3 DEF GetNothing, vars
<1>4. CASE Create
  BY <1>4 DEF Create, CreatNoSpace, CreatSpace, Wipe, Wiped, MakeRtag, MakeWtag,
     MakeDb, MakeFails, MakeOpen
<1>5. CASE WriteMsg
  BY <1>5 DEF WriteMsg, PutFull, PutNotFull, PutFits, PutOverflows, WriteHead,
     WriteBody, WritePos, LoadPutNum, IncPutNum, PutReturn
<1>6. CASE NextWrite
  BY <1>6 DEF NextWrite, NextWriteNoSpace, NextWriteLock, NextWriteWtag,
     NextWriteNoWtag, NextWriteDb, NextWriteNoDb, NextWritePos,
     NextWriteIndex, NextWriteHead, NextWriteUnlink
<1>7. CASE GetData
  <2>1. CASE EndReset
    <3>1. cpc = "reset" /\ ppc = "idle" /\ rpos' = wpos /\ ridx' = ridx
      BY <2>1 DEF EndReset, TurnsInv, TurnInv
    <3>2. ReadFile = WriteFile
      BY <3>1 DEF TurnsInv, ReadInv, ReadFile, WriteFile
    <3>3. rpos <= wpos
      BY <3>2 DEF TurnsInv, ReadInv
    <3> QED BY ONLY <1>0, <3>1, <3>3
  <2>2. CASE ParseOk
    <3>1. /\ cpc = "parse" /\ Parsed = "OK" /\ ridx' = ridx
          /\ cmsg' = MsgAt(db[rmap], rpos) /\ rpos' = rpos + RecordLen(cmsg')
      BY <2>2 DEF ParseOk
    <3>2. rmap = ridx
      BY <3>1, ParseFinds
    <3>3. RecordLen(cmsg') \in Nat
      BY <3>1, <3>2, ReadBefore
    <3> QED BY ONLY <1>0, <3>1, <3>3
  <2>3. CASE ParseSkip
    <3>1. ridx' = ridx /\ (rpos' = rpos + 1 \/ rpos' = rpos + 2)
      BY <2>3 DEF ParseSkip
    <3> QED BY ONLY <1>0, <3>1
  <2>4. CASE EndIndex \/ EndPos \/ ParseBeyond \/ WrapGetNum \/ NoWrap \/ WrapLoad \/ WrapPutNum
             \/ NoteRtag \/ GetReturn
    BY <2>4 DEF EndIndex, EndPos, ParseBeyond, WrapGetNum, NoWrap, WrapLoad, WrapPutNum,
       NoteRtag, GetReturn
  <2> QED BY <1>7, <2>1, <2>2, <2>3, <2>4 DEF GetData
<1>8. CASE NextRead
  <2>1. CASE NextReadEnd
    <3>1. ridx' = widx /\ rpos' = rpos
      BY <2>1 DEF NextReadEnd
    <3> QED BY ONLY <1>0, <3>1
  <2>2. CASE NextReadNote
    <3>1. ridx' = ridx + 1
      BY <2>2 DEF NextReadNote
    <3> QED BY ONLY <1>0, <3>1
  <2>3. CASE NextReadLock \/ NextReadRtag \/ NextReadNoRtag \/ NextReadUnlink \/ NextReadShare
             \/ NextReadMap \/ NextReadNoMap
    BY <2>3 DEF NextReadLock, NextReadRtag, NextReadNoRtag, NextReadUnlink, NextReadShare,
       NextReadMap, NextReadNoMap
  <2> QED BY <1>8, <2>1, <2>2, <2>3 DEF NextRead
<1>9. CASE Process
  <2>1. CASE Close \/ Crash
    BY <2>1 DEF Close, Crash, Stop
  <2>2. CASE Segv
    BY <2>2, NoStray
  <2>3. CASE OpenQueue \/ OpenWithout
    BY <2>3 DEF OpenQueue, OpenWithout
  <2> QED BY <1>9, <2>1, <2>2, <2>3 DEF Process
<1>10. ~ PutStray /\ ~ GetStray
  BY NoStrays DEF RecInv
<1> QED BY <1>1, <1>2, <1>3, <1>4, <1>5, <1>6, <1>7, <1>8, <1>9, <1>10
        DEF Next, PutStep, GetStep

\* So nothing passed comes to lie ahead again.
LEMMA AheadBack ==
    ASSUME Inv, HeldInv, RecInv, TurnsInv, Next, Calm, open, open',
           NEW i \in DOMAIN db, NEW o \in Offset, Ahead(i, o)'
    PROVE  Ahead(i, o)
<1>1. i \in Nat /\ o \in Nat /\ ridx \in Nat /\ rpos \in Nat
  BY LayoutAssumption DEF Inv, TypeOK, Directory, Offset
<1>2. ridx' \in Nat /\ rpos' \in Nat
  <2>1. [Next]_vars
    OBVIOUS
  <2>2. Inv'
    BY <2>1, NextInv
  <2> QED BY <2>2 DEF Inv, TypeOK
<1>3. i > ridx' \/ (i = ridx' /\ o >= rpos')
  BY DEF Ahead
<1>4. ridx' > ridx \/ (ridx' = ridx /\ rpos' >= rpos)
  BY ReadForward
<1> QED BY ONLY <1>1, <1>2, <1>3, <1>4 DEF Ahead

\* Between the noted position and the read position lies nothing but the
\* message in the consumer's hands.
LEMMA GapStep ==
    ASSUME Inv, HeldInv, RecInv, TurnsInv, KeptInv, Next, Calm PROVE GapInv'
<1> SUFFICES ASSUME open', NEW i \in DOMAIN db', NEW o \in Offset, Starts(db'[i], o),
                    i > ridx' \/ (i = ridx' /\ o >= rtag'[ridx'].pos)
             PROVE  \/ i > ridx' \/ (i = ridx' /\ o >= rpos')
                    \/ Hand' /\ cpc' # "ret" /\ db'[i][o][1] = cmsg'.id
  BY DEF GapInv, NotedAhead, Ahead
<1>0. Inv' /\ RecInv' /\ TurnsInv'
  <2>1. [Next]_vars
    OBVIOUS
  <2> QED BY <2>1, NextInv, RecStep, TurnsStep DEF Calm, InTurn
<1>1. CASE OpenQueue
  <2>1. PICK q \in DOMAIN rtag : ridx' = q /\ rpos' = rtag[q].pos /\ rtag' = rtag
    BY <1>1 DEF OpenQueue
  <2> QED BY <2>1
<1>2. CASE WriteHead /\ i = wmap /\ o = wpos
  <2>1. UNCHANGED <<wmap, wpos>>
    BY <1>2 DEF WriteHead
  <2> QED BY <1>2, <2>1, WriteAhead
<1>3. CASE /\ ~ OpenQueue /\ i \in DOMAIN db /\ Starts(db[i], o) /\ db'[i][o] = db[i][o]
  <2>0. db[i][o][1] \in Nat /\ db[i][o][1] # 0 /\ db[i][o][1] <= nput /\ nput \in Nat
    BY <1>3, RecordId DEF Starts, TurnsInv, IdInv, Inv, TypeOK
  <2>1. open
    <3> SUFFICES ASSUME ~ open PROVE FALSE
      OBVIOUS
    <3>1. MakeOpen
      BY <1>3, OpenStep
    <3>2. nput = 0
      BY <3>1 DEF MakeOpen, Creating, KeptInv, OnceInv
    <3> QED BY ONLY <2>0, <3>2
  <2>2. PICK r \in DOMAIN rtag' : r = ridx'
    BY <1>0 DEF RecInv, RtagInv, RtagFiles
  <2>3. Noting(r)' /\ NotedAhead(r, i, o)'
    BY <2>2 DEF Noting, NotedAhead
  <2>4. PICK q \in DOMAIN rtag : Noting(q) /\ NotedAhead(q, i, o)
    BY <1>3, <2>3, NotedAheadStep DEF Calm
  <2>5. NotedAhead(ridx, i, o)
    BY <2>1, <2>4 DEF Noting
  <2>6. CASE Ahead(i, o)
    <3>1. CASE ~ (Hand' /\ db[i][o][1] = cmsg'.id)
      <4>1. Ahead(i, o)'
        BY <1>3, <2>1, <2>6, <3>1, AheadStep
      <4> QED BY <4>1 DEF Ahead
    <3>2. CASE Hand' /\ db[i][o][1] = cmsg'.id
      <4>1. CASE ParseOk
        BY <1>3, <3>2, <4>1 DEF ParseOk
      <4>2. CASE ~ ParseOk
        <5>1. Hand /\ cmsg' = cmsg
          BY <3>2, <4>2, HandChange DEF Calm
        <5>2. cmsg.id < db[i][o][1]
          BY <1>3, <2>6, <5>1 DEF TurnsInv, HandInv
        <5> QED BY ONLY <2>0, <3>2, <5>1, <5>2
      <4> QED BY <4>1, <4>2
    <3> QED BY <3>1, <3>2
  <2>7. CASE Hand /\ cpc # "ret" /\ db[i][o][1] = cmsg.id
    <3>1. Hand'
      <4>1. ~ GetReturn
        BY <2>7 DEF GetReturn
      <4>2. ~ Crash
        BY DEF Crash, Stop
      <4> QED BY <2>7, <4>1, <4>2, HandLeaves
    <3>2. cmsg' = cmsg
      BY <2>7, <3>1, HandChange DEF Calm, ParseOk, Hand
    <3>3. CASE cpc' # "ret"
      BY <1>3, <2>7, <3>1, <3>2, <3>3
    <3>4. CASE cpc' = "ret"
      <4>1. rtag'[ridx'].pos = rpos'
        BY <1>0, <3>4 DEF TurnsInv, ReadInv
      <4> QED BY <4>1
    <3> QED BY <3>3, <3>4
  <2> QED BY <1>3, <2>1, <2>5, <2>6, <2>7 DEF KeptInv, GapInv
<1>4. OpenQueue \/ (WriteHead /\ i = wmap /\ o = wpos)
         \/ (~ OpenQueue /\ i \in DOMAIN db /\ Starts(db[i], o) /\ db'[i][o] = db[i][o])
  BY StartsStep DEF Calm, InTurn
<1> QED BY <1>1, <1>2, <1>3, <1>4

\* The invariant holds before the store is opened for the first time ...
LEMMA KeptInit == Init => KeptInv
<1> SUFFICES ASSUME Init PROVE KeptInv
  OBVIOUS
<1>1. SentInv /\ MatchInv /\ HandedInv /\ DiskInv /\ GapInv /\ OnceInv
  BY StoreAssumption DEF Init, SentInv, MatchInv, HandedInv, Hand, DiskInv, GapInv, OnceInv, Writing
<1>2. nput = 0 /\ ncrash = 0 /\ MaxCrashes \in Nat
  BY StoreAssumption DEF Init
<1>3. Lost = {}
  BY <1>2 DEF Lost
<1>4. Cardinality(Lost) = 0
  BY ONLY <1>3, FS_EmptySet
<1>5. LossInv
  BY <1>2, <1>4 DEF LossInv
<1> QED BY <1>1, <1>5 DEF KeptInv

\* ... and every step keeps it.
LEMMA KeptNext ==
    Calm /\ Inv /\ HeldInv /\ RecInv /\ TurnsInv /\ KeptInv /\ [Next]_vars => KeptInv'
<1> SUFFICES ASSUME Calm, Inv, HeldInv, RecInv, TurnsInv, KeptInv, [Next]_vars PROVE KeptInv'
  OBVIOUS
<1>1. CASE Next
  <2>1. SentInv' /\ MatchInv' /\ HandedInv'
    BY <1>1, SentStep, MatchStep, HandedStep
  <2>2. LossInv' /\ DiskInv' /\ GapInv' /\ OnceInv'
    BY <1>1, LossStep, HoldStep, GapStep, OnceStep
  <2> QED BY <2>1, <2>2 DEF KeptInv
<1>2. CASE UNCHANGED vars
  <2>1. SentInv' /\ MatchInv' /\ HandedInv' /\ DiskInv' /\ GapInv' /\ OnceInv'
    BY <1>2 DEF vars, KeptInv, SentInv, MatchInv, HandedInv, Hand, DiskInv, GapInv, OnceInv,
       Ahead, NotedAhead
  <2>2. Lost' = Lost
    BY <1>2 DEF vars, Lost, Present, Hand, Ids, Ahead, NotedAhead
  <2>3. LossInv'
    BY <1>2, <2>2 DEF vars, KeptInv, LossInv
  <2> QED BY <2>1, <2>3 DEF KeptInv
<1> QED BY <1>1, <1>2

\* The invariant of a queue whose files can be opened.
THEOREM ContentsKept ==
    ASSUME Calm PROVE Spec => [](Inv /\ HeldInv /\ RecInv /\ TurnsInv /\ KeptInv)
<1>1. Spec => [](Inv /\ HeldInv /\ RecInv /\ TurnsInv)
  BY TurnsKept DEF Calm
<1> QED BY <1>1, KeptInit, KeptNext, PTL DEF Spec

\* A record in a file ahead of the noted position is on disk.
LEMMA RecordOnDisk ==
    ASSUME Inv, RecInv, NEW i \in DOMAIN db, NEW o \in Offset, Starts(db[i], o), Intact(db[i], o),
           i \in DOMAIN rtag => rtag[i] = Empty \/ o >= rtag[i].pos
    PROVE  OnDisk(MsgAt(db[i], o))
<1> DEFINE m == MsgAt(db[i], o)
<1>1. db[i] \in File /\ db[i] # Short
  BY ShortNotFile DEF RecInv, WholeInv
<1>2. RecordLen(m) \in Nat /\ o \in Nat
  <2>1. m \in Message
    BY RecordId DEF MsgAt, Message
  <2> QED BY <2>1, RecordLenNat, LayoutAssumption DEF Offset
<1>3. o \in 0 .. MaxFile - RecordLen(m)
  BY <1>2, LayoutAssumption DEF Intact, Fits
<1>4. \A k \in 0 .. RecordLen(m) - 1 : db[i][o + k] = <<m.id, m.len, k>>
  BY DEF Intact, CrcOk, MsgAt
<1> QED BY <1>1, <1>3, <1>4 DEF OnDisk

\* A message acknowledged and present is on disk.
LEMMA PresentOnDisk ==
    ASSUME Inv, HeldInv, RecInv, TurnsInv, KeptInv, NEW a \in DOMAIN acked, Present(a)
    PROVE  OnDisk(acked[a])
<1>1. /\ acked \in Seq(Message) /\ sent \in Seq(Message) /\ got \in Seq(Message) /\ nput \in Nat
      /\ DOMAIN acked = 1 .. Len(acked) /\ DOMAIN sent = 1 .. Len(sent)
      /\ Len(acked) \in Nat /\ Len(sent) \in Nat /\ Len(got) \in Nat
  BY DEF Inv, TypeOK
<1>2. /\ a \in DOMAIN sent /\ acked[a] = sent[a] /\ a \in 1 .. nput /\ (ppc = "body" => a # nput)
  <2>1. /\ Len(sent) = IF ppc \in {"body", "pos", "num", "inc"} THEN nput - 1 ELSE nput
        /\ Len(acked) = IF ppc = "tag" THEN Len(sent) - 1 ELSE Len(sent)
        /\ \A k \in DOMAIN acked : acked[k] = sent[k]
    BY DEF KeptInv, SentInv
  <2> QED BY ONLY <1>1, <2>1, a \in DOMAIN acked
<1>3. ASSUME NEW i \in DOMAIN db, NEW o \in Offset, Starts(db[i], o), db[i][o][1] = a,
             i \in DOMAIN rtag => rtag[i] = Empty \/ o >= rtag[i].pos
      PROVE  OnDisk(acked[a])
  <2>1. MsgAt(db[i], o) = acked[a]
    BY <1>2, <1>3 DEF KeptInv, MatchInv
  <2>2. ~ InWork(i, o)
    <3> SUFFICES ASSUME InWork(i, o) PROVE FALSE
      OBVIOUS
    <3>1. ppc = "body" /\ open /\ i = wmap /\ o = wpos
      BY DEF InWork
    <3>2. db[wmap][wpos + 0] = <<pmsg.id, pmsg.len, 0>>
      BY <3>1, LayoutAssumption DEF RecInv, WriteInv, ClearInv
    <3>3. wpos + 0 = wpos
      BY DEF Inv, TypeOK
    <3>4. db[i][o][1] = nput
      BY <3>1, <3>2, <3>3 DEF TurnsInv, NumberInv, Writing
    <3> QED BY <1>2, <1>3, <3>1, <3>4
  <2>3. Intact(db[i], o)
    BY <1>3, <2>2 DEF RecInv, RecordInv
  <2> QED BY <1>3, <2>1, <2>3, RecordOnDisk
<1>4. CASE open
  <2>1. PICK i \in DOMAIN db, o \in Offset : Starts(db[i], o) /\ db[i][o][1] = a /\ Ahead(i, o)
    BY <1>2, <1>4 DEF Present
  <2>2. i \in Nat /\ o \in Nat
    BY LayoutAssumption DEF Inv, TypeOK, Directory, Offset
  <2>3. /\ rtag[ridx].pos \in Nat /\ rtag[ridx].pos <= rpos /\ rpos \in Nat /\ ridx \in Nat
    BY <1>4, NotedPos DEF TurnsInv, ReadInv, Inv, TypeOK
  <2>4. ASSUME i \in DOMAIN rtag PROVE rtag[i] = Empty \/ o >= rtag[i].pos
    <3>1. CASE i = ridx
      BY ONLY <2>1, <2>2, <2>3, <3>1 DEF Ahead
    <3>2. CASE i # ridx
      <4>1. i > ridx
        BY ONLY <2>1, <2>2, <2>3, <3>2 DEF Ahead
      <4>2. i \in RtagFiles
        BY <1>4, <2>4 DEF RecInv, RtagInv
      <4>3. cpc = "r_write" /\ i = ridx + 1
        BY ONLY <2>2, <2>3, <4>1, <4>2 DEF RtagFiles
      <4> QED BY <4>3 DEF KeptInv, DiskInv
    <3> QED BY <3>1, <3>2
  <2> QED BY <1>3, <2>1, <2>4
<1>5. CASE ~ open
  <2>1. ppc \in {"idle", "creat"}
    <3>1. ppc \notin Creating
      BY <1>1, <1>2 DEF KeptInv, OnceInv
    <3> QED BY <1>5, <3>1 DEF Inv, LifeInv
  <2>2. PICK r \in DOMAIN rtag, i \in DOMAIN db, o \in Offset :
            Starts(db[i], o) /\ db[i][o][1] = a /\ NotedAhead(r, i, o)
    BY <1>2, <1>5, <2>1 DEF Present
  <2>3. DOMAIN rtag = {r}
    BY <1>5, <2>1, <2>2, RestOpens
  <2>4. i \in DOMAIN rtag => o >= rtag[i].pos
    <3>1. r \in Nat
      BY DEF Inv, TypeOK, Directory
    <3> QED BY <2>2, <2>3, <3>1 DEF NotedAhead
  <2> QED BY <1>3, <2>2, <2>4
<1> QED BY <1>4, <1>5

\* What is lost of the messages whose put returned true is at most one for
\* each kill, the one about to be returned, for any number of messages, files
\* and restarts and whichever opens of rtag files and checks for space fail:
\* without kills nothing is lost.
THEOREM NothingLost == ASSUME Calm PROVE Spec => []LossBound
<1>1. ASSUME Inv, HeldInv, RecInv, TurnsInv, KeptInv PROVE LossBound
  <2> DEFINE Bad == {i \in DOMAIN acked : /\ acked[i].id \notin Ids(got)
                                          /\ ~ (cpc = "ret" /\ cmsg = acked[i])
                                          /\ ~ OnDisk(acked[i])}
  <2>1. ASSUME NEW a \in Bad PROVE a \in Lost
    <3>1. /\ DOMAIN acked = 1 .. Len(acked) /\ DOMAIN sent = 1 .. Len(sent) /\ nput \in Nat
          /\ Len(acked) \in Nat /\ Len(sent) \in Nat
      BY <1>1 DEF Inv, TypeOK
    <3>2. /\ a \in DOMAIN acked /\ acked[a] = sent[a] /\ a \in DOMAIN sent /\ a \in 1 .. nput
      <4>1. \A k \in DOMAIN acked : acked[k] = sent[k]
        BY <1>1 DEF KeptInv, SentInv
      <4>2. a \in DOMAIN acked
        BY <2>1
      <4>3. a \in Nat /\ a >= 1 /\ a <= Len(acked)
        BY ONLY <3>1, <4>2
      <4>4. Len(acked) <= Len(sent) /\ Len(sent) <= nput
        <5>1. /\ Len(sent) \in {nput, nput - 1}
              /\ Len(acked) \in {Len(sent), Len(sent) - 1}
          BY <1>1 DEF KeptInv, SentInv
        <5>2. nput \in Nat /\ Len(sent) \in Nat
          BY <3>1
        <5> QED BY ONLY <5>1, <5>2
      <4>5. a \in 1 .. Len(sent) /\ a \in 1 .. nput
        BY ONLY <3>1, <4>3, <4>4
      <4> QED BY <3>1, <4>1, <4>2, <4>5
    <3>3. a \notin Ids(got)
      BY <1>1, <2>1, <3>2 DEF KeptInv, SentInv
    <3>4. ~ (Hand /\ cmsg.id = a)
      <4> SUFFICES ASSUME Hand, cmsg.id = a PROVE FALSE
        OBVIOUS
      <4>1. cmsg = acked[a]
        BY <1>1, <3>2 DEF KeptInv, HandedInv
      <4>2. cpc # "ret"
        BY <2>1, <4>1
      <4>3. PICK o \in Offset : /\ Starts(db[ridx], o) /\ o >= rtag[ridx].pos
                                /\ MsgAt(db[ridx], o) = cmsg
        BY <1>1, <4>2 DEF KeptInv, DiskInv
      <4>4. open /\ ppc = "idle" /\ rmap # NoMap /\ cpc \notin {"r_unlink", "r_map"}
        BY <1>1 DEF Inv, LifeInv, Hand, TurnsInv, TurnInv, KeptInv, OnceInv
      <4>5. ridx \in DOMAIN db
        BY <1>1, <4>4 DEF Inv, IndexInv, ReadFile, HeldInv, ContentInv
      <4>6. OnDisk(cmsg)
        BY <1>1, <4>3, <4>4, <4>5, RecordWhole, RecordOnDisk
      <4> QED BY <2>1, <4>1, <4>6
    <3>5. ~ Present(a)
      BY <1>1, <2>1, <3>2, PresentOnDisk
    <3> QED BY <3>2, <3>3, <3>4, <3>5 DEF Lost
  <2> HIDE DEF Bad
  <2>2. Bad \in SUBSET Lost
    BY <2>1
  <2>3. IsFiniteSet(Lost) /\ Cardinality(Lost) \in Nat /\ Cardinality(Lost) <= ncrash /\ ncrash \in Nat
    BY <1>1, LostFinite DEF KeptInv, LossInv, Inv, TypeOK
  <2>4. IsFiniteSet(Bad) /\ Cardinality(Bad) <= Cardinality(Lost)
    BY ONLY <2>2, <2>3, FS_Subset
  <2>5. Cardinality(Bad) \in Nat
    BY ONLY <2>4, FS_CardinalityType
  <2>6. Cardinality(Bad) <= ncrash
    BY ONLY <2>3, <2>4, <2>5
  <2> QED BY <2>6 DEF LossBound, Bad
<1> QED BY <1>1, ContentsKept, PTL

-----------------------------------------------------------------------------
\* What the consumer has passed, also in a queue that is killed.

\* A message that is there was there before, unless a kill gave it back.
LEMMA PresentBack ==
    ASSUME Inv, HeldInv, RecInv, TurnsInv, KeptInv, Next, Calm,
           NEW n \in 1 .. nput, Present(n)', ~ (Crash /\ Hand /\ cpc # "ret" /\ cmsg.id = n)
    PROVE  Present(n)
<1>0. nput \in Nat /\ nput' \in Nat /\ nput' >= nput
  <2>1. nput \in Nat
    BY DEF Inv, TypeOK
  <2>2. nput' = nput \/ nput' = nput + 1
    BY HistStep DEF WriteHead
  <2> QED BY ONLY <2>1, <2>2
<1>a. OnceInv'
  BY OnceStep
<1>1. CASE open /\ open'
  <2>1. PICK i \in DOMAIN db', o \in Offset :
            Starts(db'[i], o) /\ db'[i][o][1] = n /\ Ahead(i, o)'
    BY <1>1 DEF Present
  <2>2. ~ (WriteHead /\ db'[i][o] = <<pmsg.id, pmsg.len, 0>>)
    <3> SUFFICES ASSUME WriteHead, db'[i][o] = <<pmsg.id, pmsg.len, 0>> PROVE FALSE
      OBVIOUS
    <3>1. pmsg.id = nput + 1
      BY DEF WriteHead, TurnsInv, NumberInv, Writing
    <3>2. n = nput + 1
      BY <2>1, <3>1
    <3> QED BY ONLY <1>0, <3>2, n \in 1 .. nput
  <2>3. i \in DOMAIN db /\ Starts(db[i], o) /\ db'[i][o] = db[i][o]
    BY <2>1, <2>2, StartsStep DEF Calm, InTurn
  <2>4. Ahead(i, o)
    BY <1>1, <2>1, <2>3, AheadBack
  <2> QED BY <1>1, <2>1, <2>3, <2>4 DEF Present
<1>2. CASE ~ open /\ open'
  <2>1. OpenQueue
    <3>1. OpenQueue \/ MakeOpen
      BY <1>2, OpenStep
    <3>2. ~ MakeOpen
      BY <1>0 DEF MakeOpen, Creating, KeptInv, OnceInv
    <3> QED BY <3>1, <3>2
  <2>2. PICK q \in DOMAIN rtag : ridx' = q /\ rpos' = rtag[q].pos /\ db' = db
    BY <2>1 DEF OpenQueue
  <2>3. PICK i \in DOMAIN db', o \in Offset :
            Starts(db'[i], o) /\ db'[i][o][1] = n /\ Ahead(i, o)'
    BY <1>2 DEF Present
  <2>4. NotedAhead(q, i, o)
    BY <2>2, <2>3 DEF Ahead, NotedAhead
  <2> QED BY <1>2, <2>2, <2>3, <2>4 DEF Present
<1>3. CASE open /\ ~ open'
  <2>1. /\ cpc \in QuietGet /\ ppc' = "idle" /\ UNCHANGED <<db, rtag>>
        /\ Crash \/ cpc = "idle"
    <3>1. CASE Close
      BY <3>1 DEF Close, Stop, QuietGet
    <3>2. CASE Crash
      BY <3>2, QuietKill DEF Calm, InTurn
    <3> QED BY <1>3, <3>1, <3>2, OpenStep
  <2>2. PICK r \in DOMAIN rtag, i \in DOMAIN db, o \in Offset :
            Starts(db[i], o) /\ db[i][o][1] = n /\ NotedAhead(r, i, o)
    BY <1>3, <2>1 DEF Present, NotedAhead
  <2>3. r = ridx
    BY <1>3, <2>1, <2>2 DEF RecInv, RtagInv, RtagFiles, QuietGet
  <2>4. Ahead(i, o) \/ (Hand /\ cpc # "ret" /\ db[i][o][1] = cmsg.id)
    BY <1>3, <2>2, <2>3 DEF KeptInv, GapInv
  <2>5. Ahead(i, o)
    BY <2>1, <2>2, <2>4 DEF Hand
  <2> QED BY <1>3, <2>2, <2>5 DEF Present
<1>4. CASE ~ open /\ ~ open'
  <2>1. ppc \notin Creating /\ ppc' \notin Creating
    BY <1>0, <1>a DEF KeptInv, OnceInv
  <2>2. Inv'
    <3>1. [Next]_vars
      OBVIOUS
    <3> QED BY <3>1, NextInv
  <2>3. ppc \in {"idle", "creat"} /\ ppc' \in {"idle", "creat"}
    BY <1>4, <2>1, <2>2 DEF Inv, LifeInv
  <2>4. UNCHANGED <<db, rtag>>
    BY <1>4, <2>1, <2>3, OpenStep DEF MakeFails, Creating
  <2>5. \E r \in DOMAIN rtag, i \in DOMAIN db, o \in Offset :
            Starts(db[i], o) /\ db[i][o][1] = n /\ NotedAhead(r, i, o)
    BY <1>4, <2>3, <2>4 DEF Present, NotedAhead
  <2> QED BY <1>4, <2>3, <2>5 DEF Present
<1> QED BY <1>1, <1>2, <1>3, <1>4

\* What the consumer holds is no longer ahead of it.
LEMMA HandPassed == ASSUME Inv, TurnsInv, Hand PROVE cmsg.id \notin Nat \/ ~ Present(cmsg.id)
<1> SUFFICES ASSUME cmsg.id \in Nat, Present(cmsg.id) PROVE FALSE
  OBVIOUS
<1>1. open
  BY DEF Inv, LifeInv, Hand
<1>2. PICK i \in DOMAIN db, o \in Offset :
          Starts(db[i], o) /\ db[i][o][1] = cmsg.id /\ Ahead(i, o)
  BY <1>1 DEF Present
<1>3. cmsg.id < db[i][o][1]
  BY <1>2 DEF TurnsInv, HandInv
<1> QED BY <1>2, <1>3

\* How the set of the messages passed changes in a step.
LEMMA PassedStep ==
    ASSUME Inv, HeldInv, RecInv, TurnsInv, KeptInv, Next, Calm
    PROVE  /\ ParseOk => cmsg'.id \notin Passed /\ Passed' = Passed \cup {cmsg'.id}
           /\ Crash /\ Hand /\ cpc # "ret" => cmsg.id \in Passed /\ Passed' = Passed \ {cmsg.id}
           /\ ~ ParseOk /\ ~ (Crash /\ Hand /\ cpc # "ret") => Passed' = Passed
<1>0. nput \in Nat /\ nput' \in Nat /\ (nput' = nput \/ (WriteHead /\ nput' = nput + 1))
  <2>1. nput \in Nat
    BY DEF Inv, TypeOK
  <2>2. nput' = nput \/ (WriteHead /\ nput' = nput + 1)
    BY HistStep DEF WriteHead
  <2> QED BY ONLY <2>1, <2>2
<1>a. Inv' /\ TurnsInv'
  <2>1. [Next]_vars
    OBVIOUS
  <2> QED BY <2>1, NextInv, TurnsStep DEF Calm
<1>b. \A n : n \in Passed <=> n \in 1 .. nput /\ ~ Present(n)
  BY DEF Passed
<1>c. \A n : n \in Passed' <=> n \in 1 .. nput' /\ ~ Present(n)'
  BY DEF Passed
<1>d. \A n \in 1 .. nput' : n \in 1 .. nput \/ Present(n)'
  <2> SUFFICES ASSUME NEW n \in 1 .. nput', n \notin 1 .. nput PROVE Present(n)'
    OBVIOUS
  <2>1. WriteHead /\ n = nput + 1
    BY ONLY <1>0, n \in 1 .. nput', n \notin 1 .. nput
  <2> QED BY <2>1, NewPresent
<1>e. 1 .. nput \subseteq 1 .. nput'
  BY ONLY <1>0
<1>1. ASSUME ParseOk PROVE cmsg'.id \notin Passed /\ Passed' = Passed \cup {cmsg'.id}
  <2>1. /\ cpc = "parse" /\ Parsed = "OK" /\ UNCHANGED <<open, ridx, nput>> /\ cpc' = "wrap"
        /\ cmsg' = MsgAt(db[rmap], rpos) /\ ~ Crash
    BY <1>1 DEF ParseOk, Crash, Stop, GetIdle
  <2>2. /\ rmap = ridx /\ open /\ ridx \in DOMAIN db /\ rpos \in Offset /\ Starts(db[ridx], rpos)
    <3>1. rmap = ridx /\ ~ Spent
      BY <2>1, ParseFinds
    <3>2. rmap # NoMap
      BY <3>1 DEF Spent
    <3> QED BY <2>1, <3>2, ParseFinds
  <2>3. PICK m : m = cmsg'.id
    OBVIOUS
  <2>4. m = db[ridx][rpos][1]
    BY <2>1, <2>2, <2>3 DEF MsgAt
  <2>5. m \in 1 .. nput
    <3>1. m \in Nat /\ m # 0 /\ m <= nput
      BY <2>2, <2>4, RecordId DEF Starts, TurnsInv, IdInv
    <3> QED BY ONLY <1>0, <3>1
  <2>6. Present(m)
    <3>1. Ahead(ridx, rpos)
      BY DEF Ahead, Inv, TypeOK
    <3> QED BY <2>2, <2>4, <3>1 DEF Present
  <2>7. ~ Present(m)'
    <3> SUFFICES ASSUME Present(m)' PROVE FALSE
      OBVIOUS
    <3>1. PICK i \in DOMAIN db', o \in Offset :
              Starts(db'[i], o) /\ db'[i][o][1] = m /\ Ahead(i, o)'
      BY <2>1, <2>2 DEF Present
    <3>2. cmsg'.id < db'[i][o][1]
      BY <1>a, <2>1, <3>1 DEF TurnsInv, HandInv, Hand
    <3>3. m < m /\ m \in Nat
      BY <2>3, <2>5, <3>1, <3>2
    <3> QED BY ONLY <3>3
  <2>8. \A n \in 1 .. nput : n # m => (Present(n) <=> Present(n)')
    BY <2>1, <2>3, PresentStays, PresentBack
  <2>9. \A n : n \in Passed' <=> n \in Passed \/ n = m
    BY <1>b, <1>c, <2>1, <2>5, <2>7, <2>8
  <2> QED BY <1>b, <2>3, <2>5, <2>6, <2>9
<1>2. ASSUME Crash, Hand, cpc # "ret"
      PROVE  cmsg.id \in Passed /\ Passed' = Passed \ {cmsg.id}
  <2>1. /\ ppc' = "idle" /\ cpc' = "idle" /\ ~ open' /\ UNCHANGED <<db, rtag, nput>>
        /\ cpc \in QuietGet
    BY <1>2, QuietKill DEF Calm, InTurn
  <2>2. PICK m : m = cmsg.id
    OBVIOUS
  <2>3. m \in 1 .. nput
    <3>1. m \in 1 .. Len(sent) /\ Len(sent) \in Nat
      BY <1>2, <2>2 DEF KeptInv, HandedInv, Inv, TypeOK
    <3>2. Len(sent) \in {nput, nput - 1} /\ nput \in Nat
      BY <1>0 DEF KeptInv, SentInv
    <3> QED BY ONLY <3>1, <3>2
  <2>4. ~ Present(m)
    BY <1>2, <2>2, <2>3, HandPassed
  <2>5. Present(m)'
    <3>1. PICK o \in Offset : /\ Starts(db[ridx], o) /\ o >= rtag[ridx].pos
                              /\ MsgAt(db[ridx], o) = cmsg
      BY <1>2 DEF KeptInv, DiskInv
    <3>2. db[ridx][o][1] = m
      BY <2>2, <3>1 DEF MsgAt
    <3>3. open /\ rmap # NoMap /\ cpc \notin {"r_unlink", "r_map"}
      BY <1>2 DEF Inv, LifeInv, Hand, KeptInv, OnceInv
    <3>4. ridx \in DOMAIN db /\ ridx \in DOMAIN rtag
      BY <3>3, NotedPos DEF Inv, IndexInv, ReadFile, HeldInv, ContentInv
    <3>5. \E r \in DOMAIN rtag, i \in DOMAIN db : Starts(db[i], o) /\ db[i][o][1] = m
                                                  /\ (i > r \/ (i = r /\ o >= rtag[r].pos))
      BY <3>1, <3>2, <3>4
    <3> QED BY <2>1, <3>5 DEF Present, NotedAhead
  <2>6. \A n \in 1 .. nput : n # m => (Present(n) <=> Present(n)')
    BY <2>1, <2>2, PresentStays, PresentBack DEF Hand
  <2>7. \A n : n \in Passed' <=> n \in Passed /\ n # m
    BY <1>b, <1>c, <2>1, <2>5, <2>6
  <2> QED BY <1>b, <2>2, <2>3, <2>4, <2>7
<1>3. ASSUME ~ ParseOk, ~ (Crash /\ Hand /\ cpc # "ret") PROVE Passed' = Passed
  <2>1. ASSUME NEW n \in 1 .. nput PROVE Present(n) <=> Present(n)'
    <3>1. ASSUME Present(n)' PROVE Present(n)
      BY <1>3, <2>1, <3>1, PresentBack
    <3>2. ASSUME Present(n) PROVE Present(n)'
      <4>1. ~ (Hand' /\ cmsg'.id = n)
        <5> SUFFICES ASSUME Hand', cmsg'.id = n PROVE FALSE
          OBVIOUS
        <5>1. Hand /\ cmsg' = cmsg
          BY <1>3, HandChange DEF Calm
        <5> QED BY <2>1, <3>2, <5>1, HandPassed
      <4> QED BY <2>1, <3>2, <4>1, PresentStays
    <3> QED BY <3>1, <3>2
  <2>2. \A n : n \in Passed' <=> n \in Passed
    BY <1>b, <1>c, <1>d, <1>e, <2>1
  <2> QED BY <2>2
<1> QED BY <1>1, <1>2, <1>3

\* How many there are.
LEMMA PassedFinite ==
    ASSUME Inv PROVE IsFiniteSet(Passed) /\ ReadCount \in Nat /\ ReadCount <= nput
<1>1. nput \in Int /\ 1 \in Int /\ nput \in Nat
  BY DEF Inv, TypeOK
<1>2. IsFiniteSet(1 .. nput) /\ Cardinality(1 .. nput) = IF 1 > nput THEN 0 ELSE nput - 1 + 1
  BY ONLY <1>1, FS_Interval
<1>3. Passed \in SUBSET (1 .. nput)
  BY DEF Passed
<1>4. IsFiniteSet(Passed) /\ ReadCount <= Cardinality(1 .. nput)
  BY ONLY <1>2, <1>3, FS_Subset DEF ReadCount
<1>5. ReadCount \in Nat
  BY ONLY <1>4, FS_CardinalityType DEF ReadCount
<1> QED BY ONLY <1>1, <1>2, <1>4, <1>5

\* How their number changes in a step.
LEMMA ReadCountStep ==
    ASSUME Inv, HeldInv, RecInv, TurnsInv, KeptInv, Next, Calm
    PROVE  /\ ReadCount \in Nat /\ ReadCount <= nput
           /\ ParseOk => ReadCount' = ReadCount + 1 /\ ReadCount + 1 <= nput
           /\ Crash /\ Hand /\ cpc # "ret" => ReadCount' = ReadCount - 1
           /\ ~ ParseOk /\ ~ (Crash /\ Hand /\ cpc # "ret") => ReadCount' = ReadCount
<1>1. IsFiniteSet(Passed) /\ ReadCount \in Nat /\ ReadCount <= nput
  BY PassedFinite
<1>2. ASSUME ParseOk PROVE ReadCount' = ReadCount + 1 /\ ReadCount + 1 <= nput
  <2>1. cmsg'.id \notin Passed /\ Passed' = Passed \cup {cmsg'.id}
    BY <1>2, PassedStep
  <2>2. ReadCount' = ReadCount + 1
    BY ONLY <1>1, <2>1, FS_AddElement DEF ReadCount
  <2>3. ReadCount' <= nput'
    <3>1. [Next]_vars
      OBVIOUS
    <3>2. Inv'
      BY <3>1, NextInv
    <3>3. nput' \in Int /\ 1 \in Int /\ nput' \in Nat
      BY <3>2 DEF Inv, TypeOK
    <3>4. IsFiniteSet(1 .. nput') /\ Cardinality(1 .. nput') = IF 1 > nput' THEN 0 ELSE nput' - 1 + 1
      BY ONLY <3>3, FS_Interval
    <3>5. Passed' \in SUBSET (1 .. nput')
      BY DEF Passed
    <3>6. ReadCount' <= Cardinality(1 .. nput')
      BY ONLY <3>4, <3>5, FS_Subset DEF ReadCount
    <3>7. ReadCount' \in Nat
      BY ONLY <1>1, <2>2
    <3> QED BY ONLY <3>3, <3>4, <3>6, <3>7
  <2>4. nput' = nput
    BY <1>2 DEF ParseOk
  <2> QED BY <2>2, <2>3, <2>4
<1>3. ASSUME Crash, Hand, cpc # "ret" PROVE ReadCount' = ReadCount - 1
  <2>1. cmsg.id \in Passed /\ Passed' = Passed \ {cmsg.id}
    BY <1>3, PassedStep
  <2> QED BY ONLY <1>1, <2>1, FS_RemoveElement DEF ReadCount
<1>4. ASSUME ~ ParseOk, ~ (Crash /\ Hand /\ cpc # "ret") PROVE ReadCount' = ReadCount
  BY <1>4, PassedStep DEF ReadCount
<1> QED BY <1>1, <1>2, <1>3, <1>4

-----------------------------------------------------------------------------
\* The order of a queue that is not killed.

\* The process is not killed.
LEMMA NoKill == ASSUME Inv, Unhurt PROVE ~ Crash
  BY DEF Inv, TypeOK, Unhurt, Crash

\* What was put and not taken is in the files.
LEMMA AllPresent ==
    ASSUME Inv, KeptInv, TakenInv, Unhurt, NEW n \in 1 .. nput, n > Taken PROVE Present(n)
<1>0. /\ sent \in Seq(Message) /\ got \in Seq(Message) /\ Len(sent) \in Nat /\ Len(got) \in Nat
      /\ DOMAIN sent = 1 .. Len(sent) /\ DOMAIN got = 1 .. Len(got)
  BY DEF Inv, TypeOK
<1>1. IsFiniteSet(Lost) /\ Cardinality(Lost) \in Nat /\ Cardinality(Lost) <= 0
  BY LostFinite DEF KeptInv, LossInv, Inv, TypeOK, Unhurt
<1>2. Lost = {}
  <2>1. Cardinality(Lost) = 0
    BY ONLY <1>1
  <2> QED BY ONLY <1>1, <2>1, FS_EmptySet
<1>3. \A k \in DOMAIN sent : sent[k].id = k
  BY DEF KeptInv, SentInv
<1>4. /\ Taken <= Len(sent)
      /\ \A k \in DOMAIN got : got[k] = sent[k]
      /\ Hand => cmsg = sent[Len(got) + 1]
  BY DEF TakenInv
<1>5. n \notin Ids(got)
  <2> SUFFICES ASSUME NEW k \in DOMAIN got, got[k].id = n PROVE FALSE
    BY DEF Ids
  <2>1. k \in DOMAIN sent /\ k <= Taken
    BY ONLY <1>0, <1>4, k \in DOMAIN got DEF Taken
  <2>2. k = n
    BY <1>3, <1>4, <2>1
  <2> QED BY ONLY <1>0, <2>1, <2>2, n > Taken, n \in 1 .. nput DEF Taken
<1>6. ~ (Hand /\ cmsg.id = n)
  <2> SUFFICES ASSUME Hand, cmsg.id = n PROVE FALSE
    OBVIOUS
  <2>1. Len(got) + 1 \in DOMAIN sent /\ Taken = Len(got) + 1
    BY ONLY <1>0, <1>4, Hand DEF Taken
  <2>2. n = Taken
    BY <1>3, <1>4, <2>1
  <2> QED BY ONLY <1>0, <2>1, <2>2, n > Taken
<1> QED BY <1>2, <1>5, <1>6 DEF Lost

\* The number of a message at the read position.
LEMMA ParseNumber ==
    ASSUME Inv, HeldInv, RecInv, TurnsInv, KeptInv, TakenInv, Unhurt, cpc = "parse", Parsed = "OK"
    PROVE  /\ Len(got) + 1 <= Len(sent) /\ db[ridx][rpos][1] = Len(got) + 1
           /\ MsgAt(db[ridx], rpos) = sent[Len(got) + 1]
<1> DEFINE n == db[ridx][rpos][1]
           g == Len(got) + 1
<1>1. /\ open /\ ppc = "idle" /\ ridx \in DOMAIN db /\ rpos \in Offset /\ Starts(db[ridx], rpos)
      /\ ridx \in Nat
  <2>1. rmap = ridx /\ ~ Spent
    BY ParseFinds
  <2>2. rmap # NoMap
    BY <2>1 DEF Spent
  <2> QED BY <2>2, ParseFinds
<1>2. /\ got \in Seq(Message) /\ sent \in Seq(Message) /\ nput \in Nat /\ Len(sent) = nput
      /\ DOMAIN got = 1 .. Len(got) /\ DOMAIN sent = 1 .. Len(sent) /\ Len(got) \in Nat
  BY <1>1 DEF Inv, TypeOK, KeptInv, SentInv
<1>3. n \in Nat /\ n # 0 /\ n <= nput
  BY <1>1, RecordId DEF Starts, TurnsInv, IdInv
<1>4. n > Len(got)
  <2>1. Noting(ridx) /\ NotedAhead(ridx, ridx, rpos) /\ ridx \in DOMAIN rtag
    BY <1>1, NotedPos DEF Noting, NotedAhead, TurnsInv, ReadInv
  <2>2. \A k \in DOMAIN got : got[k].id < n
    BY <1>1, <2>1 DEF TurnsInv, GotInv
  <2>3. Len(got) \in DOMAIN got => got[Len(got)].id = Len(got)
    BY <1>2 DEF KeptInv, SentInv, TakenInv, Taken, Hand
  <2> QED BY <1>2, <1>3, <2>2, <2>3
<1>5. g \in 1 .. nput /\ g > Taken
  BY <1>2, <1>3, <1>4 DEF Taken, Hand
<1>a. Present(g)
  BY <1>5, AllPresent
<1>6. PICK i \in DOMAIN db, o \in Offset : Starts(db[i], o) /\ db[i][o][1] = g /\ Ahead(i, o)
  BY <1>1, <1>a DEF Present
<1>7. i \in Nat /\ o \in Nat /\ rpos \in Nat
  BY LayoutAssumption DEF Inv, TypeOK, Directory, Offset
<1>8. n = g
  <2>1. CASE i = ridx /\ o = rpos
    BY <1>6, <2>1
  <2>2. CASE ridx < i \/ (ridx = i /\ rpos < o)
    <3>1. n < g
      BY <1>1, <1>6, <2>2 DEF TurnsInv, OrderInv
    <3> QED BY <1>2, <1>3, <1>4, <3>1
  <2> QED BY <1>1, <1>6, <1>7, <2>1, <2>2 DEF Ahead
<1>9. MsgAt(db[ridx], rpos) = IF n \in DOMAIN sent THEN sent[n] ELSE pmsg
  BY <1>1 DEF KeptInv, MatchInv
<1> QED BY <1>2, <1>5, <1>8, <1>9

\* The messages are taken in the order in which they were put.
LEMMA TakenStep ==
    ASSUME Inv, HeldInv, RecInv, TurnsInv, KeptInv, TakenInv, Next, Unhurt PROVE TakenInv'
<1>0. /\ sent \in Seq(Message) /\ got \in Seq(Message) /\ pmsg \in Message /\ cmsg \in Message
      /\ Len(sent) \in Nat /\ Len(got) \in Nat
      /\ DOMAIN sent = 1 .. Len(sent) /\ DOMAIN got = 1 .. Len(got)
  BY DEF Inv, TypeOK
<1>1. /\ Taken <= Len(sent)
      /\ \A k \in DOMAIN got : got[k] = sent[k]
      /\ Hand => cmsg = sent[Len(got) + 1]
  BY DEF TakenInv
<1>2. CASE ParseOk
  <2>1. /\ cpc = "parse" /\ Parsed = "OK" /\ UNCHANGED <<sent, got>> /\ cpc' = "wrap"
        /\ cmsg' = MsgAt(db[rmap], rpos)
    BY <1>2 DEF ParseOk
  <2>2. rmap = ridx
    BY <2>1, ParseFinds
  <2>3. Len(got) + 1 <= Len(sent) /\ cmsg' = sent[Len(got) + 1]
    BY <2>1, <2>2, ParseNumber
  <2>4. Hand'
    BY <2>1 DEF Hand
  <2> QED BY ONLY <1>0, <1>1, <2>1, <2>3, <2>4 DEF TakenInv, Taken
<1>3. CASE GetReturn
  <2>1. Hand /\ ~ Hand' /\ got' = Append(got, cmsg) /\ sent' = sent
    BY <1>3 DEF GetReturn, Hand
  <2>2. /\ Len(got') = Len(got) + 1 /\ DOMAIN got' = 1 .. Len(got) + 1
        /\ got'[Len(got) + 1] = cmsg /\ \A k \in DOMAIN got : got'[k] = got[k]
    BY ONLY <1>0, <2>1, Appended
  <2>3. \A k \in DOMAIN got' : got'[k] = sent[k]
    <3> SUFFICES ASSUME NEW k \in DOMAIN got' PROVE got'[k] = sent[k]
      OBVIOUS
    <3>1. k = Len(got) + 1 \/ k \in DOMAIN got
      BY ONLY <1>0, <2>2
    <3> QED BY ONLY <1>1, <2>1, <2>2, <3>1
  <2> QED BY ONLY <1>0, <1>1, <2>1, <2>2, <2>3 DEF TakenInv, Taken
<1>4. CASE ~ ParseOk /\ ~ GetReturn
  <2>1. got' = got /\ (Hand' <=> Hand) /\ (Hand' => cmsg' = cmsg)
    BY <1>4, HistStep, HandChange, HandLeaves, NoKill DEF Unhurt, Calm
  <2>2. \/ sent' = sent
        \/ sent' = Append(sent, pmsg)
    BY HistStep DEF IncPutNum
  <2>3. /\ Len(sent') \in Nat /\ Len(sent') >= Len(sent)
        /\ \A k \in DOMAIN sent : sent'[k] = sent[k]
    BY ONLY <1>0, <2>2, Appended
  <2>4. Taken' = Taken /\ Taken \in Nat
    BY ONLY <1>0, <2>1 DEF Taken
  <2>5. \A k \in DOMAIN got : k \in DOMAIN sent
    BY ONLY <1>0, <1>1 DEF Taken
  <2>6. Hand => Len(got) + 1 \in DOMAIN sent
    BY ONLY <1>0, <1>1 DEF Taken
  <2>7. Taken' <= Len(sent')
    BY ONLY <1>0, <1>1, <2>3, <2>4
  <2>8. \A k \in DOMAIN got' : got'[k] = sent'[k]
    BY ONLY <1>1, <2>1, <2>3, <2>5
  <2>9. Hand' => cmsg' = sent'[Len(got') + 1]
    BY ONLY <1>1, <2>1, <2>3, <2>6
  <2> QED BY ONLY <2>7, <2>8, <2>9 DEF TakenInv
<1> QED BY <1>2, <1>3, <1>4

\* The first messages put are the first to be taken, of a queue that is not
\* killed.
THEOREM TakenFirst ==
    ASSUME Unhurt PROVE Spec => [](Inv /\ HeldInv /\ RecInv /\ TurnsInv /\ KeptInv /\ TakenInv)
<1>1. Spec => [](Inv /\ HeldInv /\ RecInv /\ TurnsInv /\ KeptInv)
  BY ContentsKept DEF Unhurt
<1>2. Init => TakenInv
  BY DEF Init, TakenInv, Taken, Hand
<1>3. Inv /\ HeldInv /\ RecInv /\ TurnsInv /\ KeptInv /\ TakenInv /\ [Next]_vars => TakenInv'
  <2> SUFFICES ASSUME Inv, HeldInv, RecInv, TurnsInv, KeptInv, TakenInv, [Next]_vars
               PROVE  TakenInv'
    OBVIOUS
  <2>1. CASE Next
    BY <2>1, TakenStep
  <2>2. CASE UNCHANGED vars
    BY <2>2 DEF vars, TakenInv, Taken, Hand
  <2> QED BY <2>1, <2>2
<1> QED BY <1>1, <1>2, <1>3, PTL DEF Spec

-----------------------------------------------------------------------------
\* The counters, step by step.

\* A value in range is its own remainder.
LEMMA U64Same == ASSUME NEW n \in 0 .. Wide - 1 PROVE U64(n) = n
  BY StoreAssumption DEF U64

\* The values loaded are still the ones to be stored.
LEMMA LoadStep ==
    ASSUME Inv, HeldInv, RecInv, TurnsInv, KeptInv, CountInv, Next, Counted PROVE LoadInv'
<1> USE DEF Inv, HeldInv, RecInv, TurnsInv, KeptInv, CountInv, Counted, Unhurt, Calm, InTurn, Orderly,
            WriteFilesOpen, TypeOK, LifeInv, Creating, NoMap, NoFd, TurnInv, Hand
<1> USE DEF LoadInv, MutexInv
<1>1. CASE \E len \in Lens : PutBegin(len)
  BY <1>1 DEF PutBegin
<1>2. CASE GetBegin
  BY <1>2 DEF GetBegin
<1>3. CASE GetNothing
  BY <1>3 DEF GetNothing, vars
<1>4. CASE Create
  BY <1>4 DEF Create, CreatNoSpace, CreatSpace, Wipe, Wiped, MakeRtag, MakeWtag,
     MakeDb, MakeFails, MakeOpen
<1>5. CASE WriteMsg
  BY <1>5 DEF WriteMsg, PutFull, PutNotFull, PutFits, PutOverflows, WriteHead,
     WriteBody, WritePos, LoadPutNum, IncPutNum, PutReturn
<1>6. CASE NextWrite
  BY <1>6 DEF NextWrite, NextWriteNoSpace, NextWriteLock, NextWriteWtag,
     NextWriteNoWtag, NextWriteDb, NextWriteNoDb, NextWritePos,
     NextWriteIndex, NextWriteHead, NextWriteUnlink
<1>7. CASE GetData
  BY <1>7 DEF GetData, EndIndex, EndPos, EndReset, ParseOk, ParseSkip, ParseBeyond,
     WrapGetNum, NoWrap, WrapLoad, WrapPutNum, NoteRtag, GetReturn
<1>8. CASE NextRead
  BY <1>8 DEF NextRead, NextReadEnd, NextReadLock, NextReadRtag, NextReadNoRtag,
     NextReadNote, NextReadUnlink, NextReadShare, NextReadMap, NextReadNoMap
<1>9. CASE Process
  <2>1. CASE Close
    BY <2>1 DEF Close, Stop
  <2>2. CASE Crash
    BY <2>2 DEF Crash, Stop
  <2>3. CASE Segv
    BY <2>3, NoStray
  <2>4. CASE OpenQueue
    BY <2>4 DEF OpenQueue
  <2>5. CASE OpenWithout
    BY <2>5 DEF OpenWithout
  <2> QED BY <1>9, <2>1, <2>2, <2>3, <2>4, <2>5 DEF Process
<1>10. ~ PutStray /\ ~ GetStray
  BY NoStrays DEF RecInv
<1> QED BY <1>1, <1>2, <1>3, <1>4, <1>5, <1>6, <1>7, <1>8, <1>9, <1>10
        DEF Next, PutStep, GetStep

\* How the number of messages put changes in a step.
LEMMA SentLen ==
    ASSUME Inv, HeldInv, RecInv, TurnsInv, KeptInv, Next, Calm PROVE
    /\ Len(sent) \in Nat /\ nput \in Nat /\ nput <= MaxMsgs /\ MaxMsgs \in Nat
    /\ IncPutNum \/ Len(sent') = Len(sent)
    /\ IncPutNum => Len(sent') = Len(sent) + 1 /\ nput = Len(sent) + 1
<1>1. sent \in Seq(Message) /\ pmsg \in Message /\ nput \in Nat /\ MaxMsgs \in Nat
  BY StoreAssumption DEF Inv, TypeOK
<1>2. Len(sent) \in Nat
  BY ONLY <1>1
<1>3. IncPutNum => Len(sent') = Len(sent) + 1 /\ nput = Len(sent) + 1
  <2> SUFFICES ASSUME IncPutNum PROVE Len(sent') = Len(sent) + 1 /\ nput = Len(sent) + 1
    OBVIOUS
  <2>1. ppc = "inc" /\ sent' = Append(sent, pmsg)
    BY DEF IncPutNum
  <2>2. Len(sent) = nput - 1
    BY <2>1 DEF KeptInv, SentInv
  <2>3. Len(sent') = Len(sent) + 1
    BY ONLY <1>1, <2>1
  <2> QED BY ONLY <1>1, <1>2, <2>2, <2>3
<1>4. nput <= MaxMsgs
  BY DEF KeptInv, SentInv
<1> QED BY <1>1, <1>2, <1>3, <1>4, HistStep

\* How the lengths change in a step.
LEMMA LenStep ==
    ASSUME Inv, HeldInv, RecInv, TurnsInv, KeptInv, TakenInv, Next, Unhurt PROVE 
    /\ Len(sent) \in Nat /\ Len(got) \in Nat /\ Taken \in Nat /\ Taken <= Len(sent)
    /\ IncPutNum \/ Len(sent') = Len(sent)
    /\ IncPutNum => Len(sent') = Len(sent) + 1 /\ nput = Len(sent) + 1 /\ nput <= MaxMsgs
    /\ GetReturn \/ Len(got') = Len(got)
    /\ GetReturn => Len(got') = Len(got) + 1
    /\ ParseOk \/ Taken' = Taken
    /\ ParseOk => /\ Taken' = Taken + 1 /\ Taken + 1 <= Len(sent) /\ Taken = Len(got)
    /\ Len(sent) <= MaxMsgs /\ MaxMsgs \in Nat
<1>1. /\ sent \in Seq(Message) /\ got \in Seq(Message) /\ pmsg \in Message /\ cmsg \in Message
      /\ nput \in Nat /\ MaxMsgs \in Nat
  BY StoreAssumption DEF Inv, TypeOK
<1>2. Len(sent) \in Nat /\ Len(got) \in Nat /\ Taken \in Nat
  BY ONLY <1>1 DEF Taken
<1>3. Taken <= Len(sent)
  BY DEF TakenInv
<1>4. IncPutNum => Len(sent') = Len(sent) + 1 /\ nput = Len(sent) + 1 /\ nput <= MaxMsgs
  BY SentLen DEF Unhurt
<1>5. GetReturn => Len(got') = Len(got) + 1 /\ Taken' = Taken
  <2> SUFFICES ASSUME GetReturn PROVE Len(got') = Len(got) + 1 /\ Taken' = Taken
    OBVIOUS
  <2>1. got' = Append(got, cmsg) /\ Hand /\ ~ Hand'
    BY DEF GetReturn, Hand
  <2>2. Len(got') = Len(got) + 1
    BY ONLY <1>1, <2>1
  <2> QED BY ONLY <1>2, <2>1, <2>2 DEF Taken
<1>6. ParseOk => /\ Taken' = Taken + 1 /\ Taken + 1 <= Len(sent) /\ Taken = Len(got)
  <2> SUFFICES ASSUME ParseOk
               PROVE  Taken' = Taken + 1 /\ Taken + 1 <= Len(sent) /\ Taken = Len(got)
    OBVIOUS
  <2>1. cpc = "parse" /\ Parsed = "OK" /\ cpc' = "wrap" /\ got' = got
    BY DEF ParseOk
  <2>2. Len(got) + 1 <= Len(sent)
    BY <2>1, ParseNumber
  <2>3. ~ Hand /\ Hand'
    BY ONLY <2>1 DEF Hand
  <2> QED BY ONLY <1>2, <2>1, <2>2, <2>3 DEF Taken
<1>7. ~ ParseOk /\ ~ GetReturn => Taken' = Taken
  <2> SUFFICES ASSUME ~ ParseOk, ~ GetReturn PROVE Taken' = Taken
    OBVIOUS
  <2>1. got' = got /\ (Hand' <=> Hand)
    BY HistStep, HandChange, HandLeaves, NoKill DEF Unhurt, Calm
  <2> QED BY ONLY <2>1 DEF Taken
<1>8. Len(sent) <= MaxMsgs
  <2>1. nput <= MaxMsgs /\ (Len(sent) = nput - 1 \/ Len(sent) = nput)
    BY DEF KeptInv, SentInv
  <2> QED BY ONLY <1>1, <1>2, <2>1
<1> QED BY <1>1, <1>2, <1>3, <1>4, <1>5, <1>6, <1>7, <1>8, HistStep

\* The steps that change no counter do not change what the counters mean.
Busy(pc) == pc \notin Creating \cup {"idle", "full", "tag"}
LEMMA CounterStep ==
    ASSUME Inv, HeldInv, RecInv, TurnsInv, KeptInv, Next, Calm PROVE 
    \/ MakeOpen \/ PutNotFull \/ IncPutNum \/ ParseOk \/ WrapGetNum \/ NoWrap \/ WrapPutNum
    \/ OpenQueue \/ Close \/ Crash
    \/ /\ open' => open /\ UNCHANGED <<put_num, get_num>>
       /\ ~ up' => ~ up /\ db' = db
       /\ cpc' \in {"load", "store"} <=> cpc \in {"load", "store"}
       /\ cpc' = "wrap" => cpc = "wrap"
       /\ Busy(ppc') => Busy(ppc)
       /\ open /\ open' /\ cpc = "wrap" => cpc' = "wrap"
<1> USE DEF Inv, HeldInv, TurnsInv, TurnInv, LifeInv, Creating, Busy
<1>1. CASE \E len \in Lens : PutBegin(len)
  BY <1>1 DEF PutBegin
<1>2. CASE GetBegin
  BY <1>2 DEF GetBegin
<1>3. CASE GetNothing
  BY <1>3 DEF GetNothing, vars
<1>4. CASE Create
  BY <1>4 DEF Create, CreatNoSpace, CreatSpace, Wipe, Wiped, MakeRtag, MakeWtag,
     MakeDb, MakeFails, MakeOpen
<1>5. CASE WriteMsg
  BY <1>5 DEF WriteMsg, PutFull, PutNotFull, PutFits, PutOverflows, WriteHead,
     WriteBody, WritePos, LoadPutNum, IncPutNum, PutReturn
<1>6. CASE NextWrite
  BY <1>6 DEF NextWrite, NextWriteNoSpace, NextWriteLock, NextWriteWtag,
     NextWriteNoWtag, NextWriteDb, NextWriteNoDb, NextWritePos,
     NextWriteIndex, NextWriteHead, NextWriteUnlink
<1>7. CASE GetData
  BY <1>7 DEF GetData, EndIndex, EndPos, EndReset, ParseOk, ParseSkip, ParseBeyond,
     WrapGetNum, NoWrap, WrapLoad, WrapPutNum, NoteRtag, GetReturn
<1>8. CASE NextRead
  BY <1>8 DEF NextRead, NextReadEnd, NextReadLock, NextReadRtag, NextReadNoRtag,
     NextReadNote, NextReadUnlink, NextReadShare, NextReadMap, NextReadNoMap
<1>9. CASE Process
  <2>1. CASE Close
    BY <2>1 DEF Close, Stop
  <2>2. CASE Crash
    BY <2>2
  <2>3. CASE Segv
    BY <2>3, NoStray
  <2>4. CASE OpenQueue
    BY <2>4 DEF OpenQueue
  <2>5. CASE OpenWithout
    BY <2>5 DEF OpenWithout
  <2> QED BY <1>9, <2>1, <2>2, <2>3, <2>4, <2>5 DEF Process
<1>10. ~ PutStray /\ ~ GetStray
  BY NoStrays DEF RecInv
<1> QED BY <1>1, <1>2, <1>3, <1>4, <1>5, <1>6, <1>7, <1>8, <1>9, <1>10
        DEF Next, PutStep, GetStep

\* The counters of a queue with a limit.
LEMMA LimitStep ==
    ASSUME Inv, HeldInv, RecInv, TurnsInv, KeptInv, TakenInv, CountInv, Next, Counted, ~ NoLimit PROVE LimitInv'
<1>a. /\ Len(sent) \in Nat /\ Len(got) \in Nat /\ Taken \in Nat /\ Taken <= Len(sent)
      /\ IncPutNum \/ Len(sent') = Len(sent)
      /\ IncPutNum => Len(sent') = Len(sent) + 1
      /\ GetReturn \/ Len(got') = Len(got)
      /\ GetReturn => Len(got') = Len(got) + 1
      /\ ParseOk \/ Taken' = Taken
      /\ ParseOk => /\ Taken' = Taken + 1 /\ Taken + 1 <= Len(sent)
  BY LenStep DEF Counted, Unhurt
<1>b. /\ put_num \in Nat /\ get_num \in Nat /\ put_num < Wide /\ get_num < Wide
      /\ MaxQue \in Nat /\ MaxQue # 0 /\ Wide \in Nat /\ Wide > 2 * MaxQue + 1
  <2>1. MaxQue # 0
    BY DEF NoLimit
  <2> QED BY <2>1, StoreAssumption DEF Inv, TypeOK, Counted
<1>c. LimitInv /\ LoadInv /\ MaxCloses = 0
  BY DEF CountInv, Counted
<1>d. Taken = Len(got) \/ (Hand /\ Taken = Len(got) + 1)
  BY <1>a DEF Taken
<1> USE DEF Inv, HeldInv, RecInv, TurnsInv, KeptInv, CountInv, Counted, Unhurt, Calm, InTurn, Orderly,
            WriteFilesOpen, TypeOK, LifeInv, Creating, NoMap, NoFd, TurnInv, Hand
<1> USE DEF OnceInv, SentInv, LoadInv
<1>1. CASE MakeOpen
  <2>1. /\ ~ open /\ open' /\ ppc = "mk_open" /\ ppc' = "full" /\ up' = up /\ up
        /\ cpc = "idle" /\ cpc' = "idle" /\ put_num' = 0 /\ get_num' = 0 /\ UNCHANGED <<sent, got>>
        /\ db' = db
    BY <1>1 DEF MakeOpen
  <2>2. nput = 0 /\ Len(sent) = nput
    BY <2>1 DEF OnceInv, SentInv
  <2>3. Taken' = Taken
    BY <1>1, <1>a DEF MakeOpen, ParseOk
  <2> HIDE DEF Hand
  <2> QED BY ONLY <1>a, <1>b, <1>c, <2>1, <2>2, <2>3 DEF LimitInv, Unread
<1>2. CASE PutNotFull
  <2>1. /\ ppc = "full" /\ ppc' = "fit" /\ cpc = "idle" /\ ~ IsFull /\ open /\ pload = put_num
        /\ UNCHANGED <<open, up, put_num, get_num, cpc, sent, got, db>>
    BY <1>2 DEF PutNotFull, LoadInv
  <2>2. Taken = Len(got) /\ Taken' = Taken
    BY ONLY <1>d, <2>1 DEF Taken, Hand
  <2>3. pload - get_num + 1 = Len(sent) - Len(got) + 1
    BY ONLY <1>a, <1>b, <1>c, <2>1, <2>2 DEF LimitInv, Unread
  <2>4. pload - get_num + 1 \in 0 .. Wide - 1
    BY ONLY <1>a, <1>b, <1>c, <2>2, <2>3 DEF LimitInv
  <2>5. U64(pload - get_num + 1) = pload - get_num + 1
    BY <2>4, U64Same
  <2>6. Len(sent) - Len(got) < MaxQue
    BY ONLY <1>a, <1>b, <2>1, <2>3, <2>5 DEF IsFull
  <2> HIDE DEF Hand
  <2> QED BY ONLY <1>a, <1>b, <1>c, <2>1, <2>2, <2>6 DEF LimitInv, Unread, Creating
<1>3. CASE IncPutNum
  <2>1. /\ ppc = "inc" /\ ppc' = "tag" /\ open /\ cpc = "idle" /\ pload = put_num
        /\ put_num' = U64(pload + 1) /\ UNCHANGED <<open, up, get_num, cpc, got, db>>
    BY <1>3 DEF IncPutNum, LoadInv
  <2>2. Taken = Len(got) /\ Taken' = Taken /\ Len(sent') = Len(sent) + 1
    <3>1. Taken' = Taken
      BY ONLY <2>1 DEF Taken, Hand
    <3>2. Taken = Len(got)
      BY ONLY <1>d, <2>1 DEF Hand
    <3> QED BY ONLY <1>a, <1>3, <3>1, <3>2
  <2>3. Len(sent) - Len(got) < MaxQue /\ put_num = get_num + (Len(sent) - Len(got)) /\ get_num < MaxQue
    <3>1. put_num - get_num = Len(sent) - Len(got) /\ get_num < MaxQue
      BY ONLY <1>a, <1>b, <1>c, <2>1, <2>2 DEF LimitInv, Unread
    <3>2. Len(sent) - Len(got) < MaxQue
      BY ONLY <1>c, <2>1 DEF LimitInv, Creating
    <3> QED BY ONLY <1>a, <1>b, <3>1, <3>2
  <2>4. pload + 1 \in 0 .. Wide - 1
    BY ONLY <1>a, <1>b, <2>1, <2>3
  <2>5. put_num' = put_num + 1
    BY <2>1, <2>4, U64Same
  <2> HIDE DEF Hand
  <2>6. put_num' - get_num' = Unread' /\ cpc' \notin {"load", "store", "wrap"}
    BY ONLY <1>a, <1>b, <2>1, <2>2, <2>3, <2>5 DEF Unread
  <2>7. Len(sent') - Len(got') <= MaxQue /\ get_num' < MaxQue /\ up'
    BY <1>a, <1>b, <2>1, <2>2, <2>3
  <2>8. ~ Busy(ppc')
    BY <2>1 DEF Busy
  <2>9. put_num' - get_num' = Unread' + 0
    BY ONLY <1>a, <1>b, <2>1, <2>2, <2>3, <2>5 DEF Unread
  <2> QED BY ONLY <2>6, <2>7, <2>8, <2>9 DEF LimitInv, Busy
<1>4. CASE ParseOk
  <2>1. /\ open /\ cpc = "parse" /\ cpc' = "wrap" /\ get_num' = U64(get_num + 1) /\ ppc = "idle"
        /\ UNCHANGED <<open, up, put_num, ppc, sent, got, db>>
    BY <1>4 DEF ParseOk
  <2>2. get_num + 1 \in 0 .. Wide - 1 /\ get_num < MaxQue
    BY ONLY <1>b, <1>c, <2>1 DEF LimitInv
  <2>3. get_num' = get_num + 1
    BY <2>1, <2>2, U64Same
  <2>4. Taken' = Taken + 1
    BY <1>4, <1>a
  <2> HIDE DEF Hand
  <2> QED BY ONLY <1>a, <1>b, <1>c, <2>1, <2>2, <2>3, <2>4 DEF LimitInv, Unread
<1>5. CASE WrapGetNum
  <2>1. /\ open /\ cpc = "wrap" /\ cpc' = "load" /\ get_num' = U64(get_num - MaxQue) /\ ppc = "idle"
        /\ get_num >= MaxQue /\ UNCHANGED <<open, up, put_num, ppc, sent, got, db>>
    BY <1>5 DEF WrapGetNum
  <2>2. get_num = MaxQue /\ get_num - MaxQue \in 0 .. Wide - 1
    BY ONLY <1>b, <1>c, <2>1 DEF LimitInv
  <2>3. get_num' = 0
    BY <1>b, <2>1, <2>2, U64Same
  <2>4. Taken' = Taken
    BY ONLY <2>1 DEF Taken, Hand
  <2> HIDE DEF Hand
  <2> QED BY ONLY <1>a, <1>b, <1>c, <2>1, <2>2, <2>3, <2>4 DEF LimitInv, Unread
<1>6. CASE WrapPutNum
  <2>1. /\ open /\ cpc = "store" /\ cpc' = "rtag" /\ put_num' = U64(cload - MaxQue) /\ ppc = "idle"
        /\ cload = put_num /\ UNCHANGED <<open, up, get_num, ppc, sent, got, db>>
    BY <1>6 DEF WrapPutNum, LoadInv
  <2>2. put_num - get_num = Len(sent) - Taken + MaxQue /\ cload - MaxQue \in 0 .. Wide - 1
    BY ONLY <1>a, <1>b, <1>c, <2>1 DEF LimitInv, Unread
  <2>3. put_num' = put_num - MaxQue
    BY <1>b, <2>1, <2>2, U64Same
  <2>4. Taken' = Taken
    BY ONLY <2>1 DEF Taken, Hand
  <2> HIDE DEF Hand
  <2> QED BY ONLY <1>a, <1>b, <1>c, <2>1, <2>2, <2>3, <2>4 DEF LimitInv, Unread
<1>7. CASE OpenQueue
  <2>1. DOMAIN db # {} /\ ~ up
    BY <1>7 DEF OpenQueue, Openable, HandleFiles
  <2> QED BY <1>c, <2>1 DEF LimitInv
<1>8. CASE Close
  BY <1>8, <1>c DEF Close
<1>11. CASE Crash
  BY <1>11, NoKill
<1>9. CASE NoWrap
  <2>1. /\ open /\ cpc = "wrap" /\ cpc' = "rtag" /\ ppc = "idle" /\ get_num < MaxQue
        /\ UNCHANGED <<open, up, put_num, get_num, ppc, sent, got, db>>
    BY <1>9 DEF NoWrap
  <2>2. Taken' = Taken
    BY ONLY <2>1 DEF Taken, Hand
  <2> HIDE DEF Hand
  <2> QED BY ONLY <1>a, <1>b, <1>c, <2>1, <2>2 DEF LimitInv, Unread
<1>10. CASE /\ ~ IncPutNum /\ ~ ParseOk
            /\ open' => open /\ UNCHANGED <<put_num, get_num>>
            /\ ~ up' => ~ up /\ db' = db
            /\ cpc' \in {"load", "store"} <=> cpc \in {"load", "store"}
            /\ cpc' = "wrap" => cpc = "wrap"
            /\ Busy(ppc') => Busy(ppc)
            /\ open /\ open' /\ cpc = "wrap" => cpc' = "wrap"
  <2>1. Taken' = Taken /\ Len(sent') = Len(sent) /\ Len(got') \in Nat /\ Len(got') >= Len(got)
    BY ONLY <1>a, <1>10
  <2> HIDE DEF Hand
  <2>2. open' => put_num' - get_num' = Unread' + (IF cpc' \in {"load", "store"} THEN MaxQue ELSE 0)
    BY ONLY <1>c, <1>10, <2>1 DEF LimitInv, Unread
  <2>3. /\ ~ up' => DOMAIN db' = {}
        /\ open' => IF cpc' = "wrap" THEN get_num' <= MaxQue ELSE get_num' < MaxQue
    BY ONLY <1>b, <1>c, <1>10 DEF LimitInv
  <2>4. /\ Len(sent') - Len(got') <= MaxQue
        /\ Busy(ppc') => Len(sent') - Len(got') < MaxQue
    BY ONLY <1>a, <1>b, <1>c, <1>10, <2>1 DEF LimitInv, Busy
  <2> QED BY ONLY <2>2, <2>3, <2>4 DEF LimitInv, Busy
<1> QED BY <1>1, <1>2, <1>3, <1>4, <1>5, <1>6, <1>7, <1>8, <1>9, <1>10, <1>11, CounterStep DEF Counted

\* Without a limit the wrap, which the code goes through all the same, takes
\* nothing away.
LEMMA PlainWrap ==
    ASSUME Inv, HeldInv, RecInv, TurnsInv, KeptInv, CountInv, Next, Counted, NoLimit
    PROVE  /\ WrapGetNum \/ WrapPutNum => MaxQue = 0
           /\ (cpc \in {"load", "store"} => MaxQue = 0)'
<1>1. cpc \in {"load", "store"} => MaxQue = 0
  BY DEF CountInv, PlainInv
<1>2. WrapGetNum => MaxQue = 0
  <2> SUFFICES ASSUME WrapGetNum PROVE MaxQue = 0
    OBVIOUS
  <2>1. get_num >= MaxQue /\ open
    BY DEF WrapGetNum, Inv, LifeInv
  <2>2. get_num = ReadCount
    BY <2>1 DEF CountInv, PlainInv
  <2>3. ReadCount \in Nat /\ ReadCount <= nput /\ nput \in Nat /\ nput <= MaxMsgs /\ MaxMsgs \in Nat
    BY PassedFinite, SentLen DEF Counted
  <2> QED BY ONLY <2>1, <2>2, <2>3, NoLimit, StoreAssumption DEF NoLimit
<1>3. WrapPutNum => MaxQue = 0
  BY <1>1 DEF WrapPutNum
<1>4. cpc' \in {"load", "store"} => cpc \in {"load", "store"} \/ WrapGetNum
  <2>1. CASE \/ \E len \in Lens : PutBegin(len)
             \/ GetBegin \/ GetNothing
    BY <2>1 DEF PutBegin, GetBegin, GetNothing, vars
  <2>2. CASE Create
    BY <2>2 DEF Create, CreatNoSpace, CreatSpace, Wipe, Wiped, MakeRtag, MakeWtag,
       MakeDb, MakeFails, MakeOpen
  <2>3. CASE WriteMsg
    BY <2>3 DEF WriteMsg, PutFull, PutNotFull, PutFits, PutOverflows, WriteHead,
       WriteBody, WritePos, LoadPutNum, IncPutNum, PutReturn
  <2>4. CASE NextWrite
    BY <2>4 DEF NextWrite, NextWriteNoSpace, NextWriteLock, NextWriteWtag,
       NextWriteNoWtag, NextWriteDb, NextWriteNoDb, NextWritePos,
       NextWriteIndex, NextWriteHead, NextWriteUnlink
  <2>5. CASE GetData
    BY <2>5 DEF GetData, EndIndex, EndPos, EndReset, ParseOk, ParseSkip, ParseBeyond,
       NoWrap, WrapLoad, WrapPutNum, NoteRtag, GetReturn
  <2>6. CASE NextRead
    BY <2>6 DEF NextRead, NextReadEnd, NextReadLock, NextReadRtag, NextReadNoRtag,
       NextReadNote, NextReadUnlink, NextReadShare, NextReadMap, NextReadNoMap
  <2>7. CASE Process
    BY <2>7 DEF Process, Close, Crash, Segv, OpenQueue, OpenWithout, Stop
  <2>8. ~ PutStray /\ ~ GetStray
    BY NoStrays DEF RecInv
  <2> QED BY <2>1, <2>2, <2>3, <2>4, <2>5, <2>6, <2>7, <2>8 DEF Next, PutStep, GetStep
<1> QED BY <1>1, <1>2, <1>3, <1>4

\* The counters of a queue without a limit, ...
LEMMA PlainNums ==
    ASSUME Inv, HeldInv, RecInv, TurnsInv, KeptInv, CountInv, Next, Counted, NoLimit PROVE
    (open => put_num = Len(sent) /\ get_num = ReadCount)'
<1>a. /\ Len(sent) \in Nat /\ nput \in Nat /\ nput <= MaxMsgs /\ MaxMsgs \in Nat
      /\ IncPutNum \/ Len(sent') = Len(sent)
      /\ IncPutNum => Len(sent') = Len(sent) + 1 /\ nput = Len(sent) + 1
  BY SentLen DEF Counted
<1>r. /\ ReadCount \in Nat /\ ReadCount <= nput
      /\ ParseOk => ReadCount' = ReadCount + 1 /\ ReadCount + 1 <= nput
      /\ ~ ParseOk /\ ~ Crash => ReadCount' = ReadCount
  BY ReadCountStep DEF Counted
<1>k. Crash => ~ open'
  BY DEF Crash, Stop
<1>b. /\ put_num \in 0 .. Wide - 1 /\ get_num \in 0 .. Wide - 1 /\ Wide \in Nat /\ Wide > MaxMsgs
  BY StoreAssumption DEF Inv, TypeOK, Counted
<1>c. /\ open => put_num = Len(sent) /\ get_num = ReadCount
      /\ LoadInv
  BY DEF CountInv, PlainInv
<1>d. MakeOpen \/ OpenQueue \/ ParseOk \/ IncPutNum => ~ WrapGetNum /\ ~ WrapPutNum
  BY DEF MakeOpen, OpenQueue, ParseOk, IncPutNum, WrapGetNum, WrapPutNum, Inv, LifeInv,
         TurnsInv, TurnInv
<1>1. CASE MakeOpen
  <2>1. ppc = "mk_open" /\ put_num' = 0 /\ get_num' = 0
    BY <1>1 DEF MakeOpen
  <2>2. Len(sent) = 0 /\ nput = 0
    BY <2>1 DEF KeptInv, OnceInv, SentInv, Creating
  <2>3. ~ IncPutNum /\ ~ ParseOk /\ ~ Crash
    BY <1>1 DEF MakeOpen, IncPutNum, ParseOk, Crash, Stop
  <2> QED BY ONLY <1>a, <1>r, <2>1, <2>2, <2>3
<1>2. CASE IncPutNum
  <2>1. ppc = "inc" /\ open /\ put_num' = U64(pload + 1) /\ get_num' = get_num /\ cpc' = cpc
    BY <1>2 DEF IncPutNum, Inv, LifeInv, Creating
  <2>2. pload = put_num
    BY <1>c, <2>1 DEF LoadInv
  <2>3. pload + 1 \in 0 .. Wide - 1
    BY ONLY <1>a, <1>b, <1>c, <1>2, <2>1, <2>2
  <2>4. put_num' = put_num + 1
    BY <2>1, <2>2, <2>3, U64Same
  <2>5. ~ ParseOk /\ (open' => ~ Crash)
    BY <1>2, <1>k DEF IncPutNum, ParseOk, TurnsInv, TurnInv
  <2> QED BY ONLY <1>a, <1>c, <1>r, <1>2, <2>1, <2>4, <2>5
<1>3. CASE ParseOk
  <2>1. open /\ get_num' = U64(get_num + 1) /\ put_num' = put_num /\ sent' = sent
    BY <1>3 DEF ParseOk, Inv, LifeInv
  <2>2. get_num + 1 \in 0 .. Wide - 1
    BY ONLY <1>a, <1>b, <1>c, <1>r, <1>3, <2>1
  <2>3. get_num' = get_num + 1
    BY <2>1, <2>2, U64Same
  <2> QED BY ONLY <1>a, <1>c, <1>r, <1>3, <2>1, <2>3
<1>4. CASE OpenQueue
  <2>1. PICK r \in DOMAIN rtag, w \in DOMAIN wtag :
            Openable(r, w) /\ get_num' = rtag[r].num /\ put_num' = wtag[w].num
    BY <1>4 DEF OpenQueue
  <2>2. ~ open /\ ppc = "idle" /\ cpc = "idle" /\ sent' = sent /\ open' /\ DOMAIN db # {}
    BY <1>4, <2>1 DEF OpenQueue, Openable, HandleFiles, Inv, LifeInv
  <2>3. rtag[r].num = ReadCount /\ wtag[w].num = Len(sent)
    BY <2>2 DEF CountInv, PlainInv
  <2>4. ReadCount' = ReadCount
    BY <1>k, <1>r, <2>2 DEF ParseOk
  <2> QED BY ONLY <2>1, <2>2, <2>3, <2>4
<1>5. ASSUME ~ MakeOpen, ~ IncPutNum, ~ ParseOk, ~ OpenQueue
      PROVE  open' => open /\ UNCHANGED <<put_num, get_num>>
  <2>1. CASE WrapGetNum
    <3>1. open' = open /\ get_num' = U64(get_num - MaxQue) /\ put_num' = put_num /\ get_num - 0 = get_num
      BY <1>b, <2>1 DEF WrapGetNum
    <3>2. open /\ MaxQue = 0
      BY <2>1, PlainWrap DEF WrapGetNum, Inv, LifeInv
    <3> QED BY <1>b, <3>1, <3>2, U64Same
  <2>2. CASE WrapPutNum
    <3>1. open' = open /\ put_num' = U64(cload - MaxQue) /\ get_num' = get_num /\ put_num - 0 = put_num
      BY <1>b, <2>2 DEF WrapPutNum
    <3>2. open /\ cload = put_num /\ MaxQue = 0
      BY <1>c, <2>2, PlainWrap DEF WrapPutNum, Inv, LifeInv, LoadInv
    <3> QED BY <1>b, <3>1, <3>2, U64Same
  <2>3. CASE PutNotFull \/ NoWrap \/ Close \/ Crash
    BY <2>3 DEF PutNotFull, NoWrap, Close, Crash, Stop, Inv, LifeInv, Creating
  <2> QED BY <1>5, <2>1, <2>2, <2>3, CounterStep DEF Counted
<1>6. CASE ~ MakeOpen /\ ~ IncPutNum /\ ~ ParseOk /\ ~ OpenQueue
  BY ONLY <1>a, <1>c, <1>r, <1>k, <1>5, <1>6
<1> QED BY <1>1, <1>2, <1>3, <1>4, <1>6

\* ... the last line of the wtag file, ...
LEMMA PlainWtag ==
    ASSUME Inv, HeldInv, RecInv, TurnsInv, KeptInv, CountInv, Next, Counted, NoLimit PROVE 
    (open /\ ppc \in {"idle", "full", "fit", "lock"} => wtag[widx].num = put_num)'
<1>a. put_num \in 0 .. Wide - 1 /\ put_num - 0 = put_num
  BY StoreAssumption DEF Inv, TypeOK
<1>b. /\ open /\ ppc \in {"idle", "full", "fit", "lock"} => wtag[widx].num = put_num
      /\ ~ open /\ ppc = "mk_open" => wtag[1].num = 0
      /\ LoadInv
  BY DEF CountInv, PlainInv
<1> USE DEF Inv, HeldInv, RecInv, TurnsInv, Counted, Unhurt, Calm, InTurn, Orderly, WriteFilesOpen,
            LifeInv, Creating, TurnInv
<1>1. CASE \E len \in Lens : PutBegin(len)
  BY <1>1, <1>b DEF PutBegin
<1>2. CASE GetBegin
  BY <1>2, <1>b DEF GetBegin
<1>3. CASE GetNothing
  BY <1>3, <1>b DEF GetNothing, vars
<1>4. CASE Create
  <2>1. CASE CreatNoSpace
    BY <2>1, <1>b DEF CreatNoSpace
  <2>2. CASE CreatSpace
    BY <2>2, <1>b DEF CreatSpace
  <2>3. CASE Wipe
    BY <2>3, <1>b DEF Wipe
  <2>4. CASE Wiped
    BY <2>4, <1>b DEF Wiped
  <2>5. CASE MakeRtag
    BY <2>5, <1>b DEF MakeRtag
  <2>6. CASE MakeWtag
    BY <2>6, <1>b DEF MakeWtag
  <2>7. CASE MakeDb
    BY <2>7, <1>b DEF MakeDb
  <2>8. CASE MakeFails
    BY <2>8, <1>b DEF MakeFails
  <2>9. CASE MakeOpen
    BY <2>9, <1>b DEF MakeOpen
  <2> QED BY <1>4, <2>1, <2>2, <2>3, <2>4, <2>5, <2>6, <2>7, <2>8, <2>9 DEF Create
<1>5. CASE WriteMsg
  <2>1. CASE PutFull
    BY <2>1, <1>b DEF PutFull
  <2>2. CASE PutNotFull
    BY <2>2, <1>b DEF PutNotFull
  <2>3. CASE PutFits
    BY <2>3, <1>b DEF PutFits
  <2>4. CASE PutOverflows
    BY <2>4, <1>b DEF PutOverflows
  <2>5. CASE WriteHead
    BY <2>5, <1>b DEF WriteHead
  <2>6. CASE WriteBody
    BY <2>6, <1>b DEF WriteBody
  <2>7. CASE WritePos
    BY <2>7, <1>b DEF WritePos
  <2>8. CASE LoadPutNum
    BY <2>8, <1>b DEF LoadPutNum
  <2>9. CASE IncPutNum
    BY <2>9, <1>b DEF IncPutNum
  <2>10. CASE PutReturn
    <3>1. /\ open /\ wtag_fd = widx /\ widx # NoFd /\ UNCHANGED <<widx, put_num>>
          /\ wtag' = TagWrite(wtag, wtag_fd, put_num, wpos)
      BY <2>10 DEF PutReturn, WtagInv, IndexInv, TypeOK, NoFd
    <3>2. wtag'[widx].num = put_num
      BY ONLY <3>1 DEF TagWrite, With
    <3> QED BY <3>1, <3>2
  <2> QED BY <1>5, <2>1, <2>2, <2>3, <2>4, <2>5, <2>6, <2>7, <2>8, <2>9, <2>10 DEF WriteMsg
<1>6. CASE NextWrite
  BY <1>6, <1>b DEF NextWrite, NextWriteNoSpace, NextWriteLock, NextWriteWtag,
     NextWriteNoWtag, NextWriteDb, NextWriteNoDb, NextWritePos,
     NextWriteIndex, NextWriteHead, NextWriteUnlink
<1>7. CASE GetData
  <2>1. CASE EndIndex
    BY <2>1, <1>b DEF EndIndex
  <2>2. CASE EndPos
    BY <2>2, <1>b DEF EndPos
  <2>3. CASE EndReset
    BY <2>3, <1>b DEF EndReset
  <2>4. CASE ParseOk
    BY <2>4, <1>b DEF ParseOk
  <2>5. CASE ParseSkip
    BY <2>5, <1>b DEF ParseSkip
  <2>6. CASE ParseBeyond
    BY <2>6, <1>b DEF ParseBeyond
  <2>7. CASE WrapGetNum
    BY <2>7, <1>b DEF WrapGetNum
  <2>8. CASE NoWrap
    BY <2>8, <1>b DEF NoWrap
  <2>9. CASE WrapLoad
    BY <2>9, <1>b DEF WrapLoad
  <2>10. CASE WrapPutNum
    <3>1. /\ cpc = "store" /\ put_num' = U64(cload - MaxQue) /\ UNCHANGED <<open, widx, wtag, ppc>>
      BY <2>10 DEF WrapPutNum
    <3>2. put_num' = put_num
      BY <1>a, <1>b, <2>10, <3>1, PlainWrap, U64Same DEF LoadInv
    <3> QED BY <1>b, <3>1, <3>2
  <2>11. CASE NoteRtag
    BY <2>11, <1>b DEF NoteRtag
  <2>12. CASE GetReturn
    BY <2>12, <1>b DEF GetReturn
  <2> QED BY <1>7, <2>1, <2>2, <2>3, <2>4, <2>5, <2>6, <2>7, <2>8, <2>9, <2>10,
         <2>11, <2>12 DEF GetData
<1>8. CASE NextRead
  BY <1>8, <1>b DEF NextRead, NextReadEnd, NextReadLock, NextReadRtag, NextReadNoRtag,
     NextReadNote, NextReadUnlink, NextReadShare, NextReadMap, NextReadNoMap
<1>9. CASE Process
  <2>1. CASE Close
    BY <2>1, <1>b DEF Close, Stop
  <2>2. CASE Crash
    BY <2>2 DEF Crash, Stop
  <2>3. CASE Segv
    BY <2>3, NoStray
  <2>4. CASE OpenQueue
    BY <2>4, <1>b DEF OpenQueue
  <2>5. CASE OpenWithout
    BY <2>5, <1>b DEF OpenWithout
  <2> QED BY <1>9, <2>1, <2>2, <2>3, <2>4, <2>5 DEF Process
<1>10. ~ PutStray /\ ~ GetStray
  BY NoStrays DEF RecInv
<1> QED BY <1>1, <1>2, <1>3, <1>4, <1>5, <1>6, <1>7, <1>8, <1>9, <1>10
        DEF Next, PutStep, GetStep

\* ... that of the rtag file, ...
LEMMA PlainRtag ==
    ASSUME Inv, HeldInv, RecInv, TurnsInv, KeptInv, CountInv, Next, Counted, NoLimit PROVE 
    (open => rtag[ridx].num = IF Hand /\ cpc # "ret" THEN get_num - 1 ELSE get_num)'
<1>a. get_num \in 0 .. Wide - 1 /\ get_num - 0 = get_num
  BY StoreAssumption DEF Inv, TypeOK
<1>b. open => rtag[ridx].num = IF Hand /\ cpc # "ret" THEN get_num - 1 ELSE get_num
  BY DEF CountInv, PlainInv
<1>c. open => ridx \in DOMAIN rtag /\ ridx \in Nat /\ ridx # NoFd
  BY NotedPos DEF NoFd
<1> USE DEF Inv, HeldInv, RecInv, TurnsInv, Counted, Unhurt, Calm, InTurn, Orderly, WriteFilesOpen,
            LifeInv, Creating, TurnInv, Hand
<1>1. CASE \E len \in Lens : PutBegin(len)
  BY <1>1, <1>b DEF PutBegin
<1>2. CASE GetBegin
  BY <1>2, <1>b DEF GetBegin
<1>3. CASE GetNothing
  BY <1>3, <1>b DEF GetNothing, vars
<1>4. CASE Create
  <2>1. CASE CreatNoSpace
    BY <2>1, <1>b DEF CreatNoSpace
  <2>2. CASE CreatSpace
    BY <2>2, <1>b DEF CreatSpace
  <2>3. CASE Wipe
    BY <2>3, <1>b DEF Wipe
  <2>4. CASE Wiped
    BY <2>4, <1>b DEF Wiped
  <2>5. CASE MakeRtag
    BY <2>5, <1>b DEF MakeRtag
  <2>6. CASE MakeWtag
    BY <2>6, <1>b DEF MakeWtag
  <2>7. CASE MakeDb
    BY <2>7, <1>b DEF MakeDb
  <2>8. CASE MakeFails
    BY <2>8, <1>b DEF MakeFails
  <2>9. CASE MakeOpen
    <3>1. rtag' = rtag /\ ridx' = 1 /\ get_num' = 0 /\ rtag[1].num = 0 /\ cpc' = "idle"
      BY <2>9 DEF MakeOpen, MakeInv
    <3> QED BY <3>1
  <2> QED BY <1>4, <2>1, <2>2, <2>3, <2>4, <2>5, <2>6, <2>7, <2>8, <2>9 DEF Create
<1>5. CASE WriteMsg
  BY <1>5, <1>b DEF WriteMsg, PutFull, PutNotFull, PutFits, PutOverflows, WriteHead,
     WriteBody, WritePos, LoadPutNum, IncPutNum, PutReturn
<1>6. CASE NextWrite
  BY <1>6, <1>b DEF NextWrite, NextWriteNoSpace, NextWriteLock, NextWriteWtag,
     NextWriteNoWtag, NextWriteDb, NextWriteNoDb, NextWritePos,
     NextWriteIndex, NextWriteHead, NextWriteUnlink
<1>7. CASE GetData
  <2>1. CASE EndIndex
    BY <2>1, <1>b DEF EndIndex
  <2>2. CASE EndPos
    BY <2>2, <1>b DEF EndPos
  <2>3. CASE EndReset
    BY <2>3, <1>b DEF EndReset
  <2>4. CASE ParseOk
    <3>1. /\ open /\ cpc = "parse" /\ cpc' = "wrap" /\ get_num' = U64(get_num + 1)
          /\ UNCHANGED <<ridx, rtag>>
      BY <2>4 DEF ParseOk
    <3>2. get_num + 1 \in 0 .. Wide - 1
      <4>1. get_num = ReadCount
        BY <3>1 DEF CountInv, PlainInv
      <4>2. ReadCount \in Nat /\ ReadCount + 1 <= nput
        BY <2>4, ReadCountStep DEF Counted
      <4>3. nput \in Nat /\ nput <= MaxMsgs /\ MaxMsgs \in Nat /\ Wide \in Nat /\ Wide > MaxMsgs
        BY SentLen, StoreAssumption DEF Counted
      <4> QED BY ONLY <4>1, <4>2, <4>3
    <3>3. get_num' = get_num + 1 /\ get_num \in Nat
      BY <1>a, <3>1, <3>2, U64Same
    <3>4. rtag[ridx].num = get_num' - 1
      BY <1>b, <3>1, <3>3
    <3> QED BY <3>1, <3>4
  <2>5. CASE ParseSkip
    BY <2>5, <1>b DEF ParseSkip
  <2>6. CASE ParseBeyond
    BY <2>6, <1>b DEF ParseBeyond
  <2>7. CASE WrapGetNum
    <3>1. cpc = "wrap" /\ cpc' = "load" /\ get_num' = U64(get_num - MaxQue) /\ UNCHANGED <<open, ridx, rtag>>
      BY <2>7 DEF WrapGetNum
    <3>2. get_num' = get_num
      BY <1>a, <2>7, <3>1, PlainWrap, U64Same
    <3> QED BY <1>b, <3>1, <3>2
  <2>8. CASE NoWrap
    BY <2>8, <1>b DEF NoWrap
  <2>9. CASE WrapLoad
    BY <2>9, <1>b DEF WrapLoad
  <2>10. CASE WrapPutNum
    BY <2>10, <1>b DEF WrapPutNum
  <2>11. CASE NoteRtag
    <3>1. /\ rtag_fd = ridx /\ rtag' = TagWrite(rtag, rtag_fd, get_num, rpos)
          /\ UNCHANGED <<ridx, get_num>> /\ ridx # NoFd /\ cpc' = "ret"
      BY <2>11, <1>c DEF NoteRtag, ReadInv
    <3>2. rtag'[ridx].num = get_num
      BY ONLY <3>1 DEF TagWrite, With
    <3> QED BY <3>1, <3>2
  <2>12. CASE GetReturn
    BY <2>12, <1>b DEF GetReturn
  <2> QED BY <1>7, <2>1, <2>2, <2>3, <2>4, <2>5, <2>6, <2>7, <2>8, <2>9, <2>10,
         <2>11, <2>12 DEF GetData
<1>8. CASE NextRead
  <2>1. CASE NextReadEnd
    <3>1. /\ open /\ cpc = "r_lock" /\ ridx' = widx /\ ridx + 1 > widx /\ ridx <= widx /\ widx \in Nat
          /\ UNCHANGED <<rtag, get_num>> /\ cpc' = "idle"
      BY <2>1 DEF NextReadEnd, IndexInv, TypeOK
    <3>2. ridx' = ridx
      BY <1>c, <3>1
    <3> QED BY <1>b, <3>1, <3>2
  <2>2. CASE NextReadLock
    BY <2>2, <1>b DEF NextReadLock
  <2>3. CASE NextReadRtag
    <3>1. /\ open /\ cpc = "r_open" /\ rtag' = Created(rtag, ridx + 1, Empty)
          /\ UNCHANGED <<ridx, get_num>> /\ cpc' = "r_write"
      BY <2>3 DEF NextReadRtag
    <3>2. rtag'[ridx] = rtag[ridx]
      BY <1>c, <3>1, Values
    <3> QED BY <1>b, <3>1, <3>2
  <2>4. CASE NextReadNoRtag
    BY <2>4, <1>b DEF NextReadNoRtag
  <2>5. CASE NextReadNote
    <3>1. /\ open /\ rtag_fd = ridx + 1 /\ rtag' = TagWrite(rtag, rtag_fd, get_num, FileHead)
          /\ ridx' = ridx + 1 /\ get_num' = get_num /\ cpc' = "r_unlink"
      BY <2>5 DEF NextReadNote, RtagInv
    <3>2. ridx + 1 # NoFd
      BY <1>c, <3>1 DEF NoFd
    <3>3. rtag'[ridx + 1].num = get_num
      BY ONLY <3>1, <3>2 DEF TagWrite, With
    <3> QED BY <3>1, <3>3
  <2>6. CASE NextReadUnlink
    <3>1. /\ open /\ cpc = "r_unlink" /\ rtag' = Without(rtag, ridx - 1)
          /\ UNCHANGED <<ridx, get_num>> /\ cpc' = "r_map"
      BY <2>6 DEF NextReadUnlink
    <3>2. ridx # ridx - 1
      BY <1>c, <3>1
    <3>3. rtag'[ridx] = rtag[ridx]
      BY <1>c, <3>1, <3>2, Values
    <3> QED BY <1>b, <3>1, <3>3
  <2>7. CASE NextReadShare
    BY <2>7, <1>b DEF NextReadShare
  <2>8. CASE NextReadMap
    BY <2>8, <1>b DEF NextReadMap
  <2>9. CASE NextReadNoMap
    BY <2>9, <1>b DEF NextReadNoMap
  <2> QED BY <1>8, <2>1, <2>2, <2>3, <2>4, <2>5, <2>6, <2>7, <2>8, <2>9 DEF NextRead
<1>9. CASE Process
  <2>1. CASE Close
    BY <2>1, <1>b DEF Close, Stop
  <2>2. CASE Crash
    BY <2>2 DEF Crash, Stop
  <2>3. CASE Segv
    BY <2>3, NoStray
  <2>4. CASE OpenQueue
    BY <2>4, <1>b DEF OpenQueue
  <2>5. CASE OpenWithout
    BY <2>5, <1>b DEF OpenWithout
  <2> QED BY <1>9, <2>1, <2>2, <2>3, <2>4, <2>5 DEF Process
<1>10. ~ PutStray /\ ~ GetStray
  BY NoStrays DEF RecInv
<1> QED BY <1>1, <1>2, <1>3, <1>4, <1>5, <1>6, <1>7, <1>8, <1>9, <1>10
        DEF Next, PutStep, GetStep

\* ... and those of a directory at rest.
LEMMA PlainRest ==
    ASSUME Inv, HeldInv, RecInv, TurnsInv, KeptInv, CountInv, Next, Counted, NoLimit PROVE 
    /\ (~ open /\ ppc = "mk_open" => wtag[1].num = 0)'
    /\ (~ open /\ ppc \in {"idle", "creat"} /\ DOMAIN db # {} =>
           \A r \in DOMAIN rtag, w \in DOMAIN wtag :
               rtag[r].num = ReadCount /\ wtag[w].num = Len(sent))'
<1>b. /\ ~ open /\ ppc = "mk_open" => wtag[1].num = 0
      /\ ~ open /\ ppc \in {"idle", "creat"} /\ DOMAIN db # {} =>
           \A r \in DOMAIN rtag, w \in DOMAIN wtag :
               rtag[r].num = ReadCount /\ wtag[w].num = Len(sent)
  BY DEF CountInv, PlainInv
<1>r. /\ Crash /\ Hand /\ cpc # "ret" => ReadCount' = ReadCount - 1
      /\ ~ ParseOk /\ ~ (Crash /\ Hand /\ cpc # "ret") => ReadCount' = ReadCount
  BY ReadCountStep DEF Counted
<1>k. CASE Crash
  <2>1. /\ ppc \in QuietPut /\ cpc \in QuietGet /\ UNCHANGED <<db, rtag, wtag, sent>>
        /\ ppc' = "idle" /\ ~ ParseOk
    BY <1>k, QuietKill DEF Counted, Calm, InTurn, ParseOk, Crash, Stop
  <2>2. CASE ~ open
    <3>1. ReadCount' = ReadCount
      BY <1>r, <2>1, <2>2 DEF Hand, Inv, LifeInv
    <3>2. ppc \in {"idle", "creat"}
      BY <2>1, <2>2 DEF QuietPut, Inv, LifeInv, Creating
    <3> QED BY <1>b, <2>1, <2>2, <3>1, <3>2
  <2>3. CASE open
    <3>0. ppc \in {"idle", "lock"} /\ cpc \notin {"r_write", "r_unlink", "r_map"}
      BY <2>1, <2>3 DEF QuietPut, QuietGet, Inv, LifeInv, Creating
    <3>1. DOMAIN rtag = {ridx} /\ DOMAIN wtag = {widx}
      BY <2>3, <3>0 DEF RecInv, RtagInv, RtagFiles, WtagInv, WtagFiles
    <3>2. wtag[widx].num = Len(sent)
      BY <2>3, <3>0 DEF CountInv, PlainInv
    <3>3. rtag[ridx].num = ReadCount'
      BY <1>k, <1>r, <2>1, <2>3 DEF CountInv, PlainInv
    <3> QED BY <2>1, <3>1, <3>2, <3>3
  <2> QED BY <2>2, <2>3
<1> SUFFICES ASSUME ~ Crash, ~ open'
             PROVE  /\ ppc' = "mk_open" => wtag'[1].num = 0
                    /\ ppc' \in {"idle", "creat"} /\ DOMAIN db' # {} =>
                           \A r \in DOMAIN rtag', w \in DOMAIN wtag' :
                               rtag'[r].num = ReadCount' /\ wtag'[w].num = Len(sent')
  BY <1>k
<1>e. ReadCount' = ReadCount
  BY <1>r DEF ParseOk, Inv, LifeInv
<1> USE <1>e
<1> USE DEF Inv, HeldInv, RecInv, TurnsInv, Counted, Unhurt, Calm, InTurn, Orderly, WriteFilesOpen,
            LifeInv, Creating, TurnInv
<1>1. CASE \E len \in Lens : PutBegin(len)
  BY <1>1, <1>b DEF PutBegin
<1>2. CASE GetBegin
  BY <1>2, <1>b DEF GetBegin
<1>3. CASE GetNothing
  BY <1>3, <1>b DEF GetNothing, vars
<1>4. CASE Create
  <2>1. CASE CreatNoSpace
    BY <2>1, <1>b DEF CreatNoSpace
  <2>2. CASE CreatSpace
    BY <2>2, <1>b DEF CreatSpace
  <2>3. CASE Wipe
    BY <2>3, <1>b DEF Wipe
  <2>4. CASE Wiped
    BY <2>4, <1>b DEF Wiped
  <2>5. CASE MakeRtag
    BY <2>5, <1>b DEF MakeRtag
  <2>6. CASE MakeWtag
    BY <2>6, <1>b DEF MakeWtag
  <2>7. CASE MakeDb
    <3>1. wtag' = TagWrite(wtag, 1, 0, 0) /\ ppc' = "mk_open"
      BY <2>7 DEF MakeDb
    <3>2. wtag'[1].num = 0
      BY ONLY <3>1 DEF TagWrite, With, NoFd
    <3> QED BY <3>1, <3>2
  <2>8. CASE MakeFails
    <3>1. DOMAIN db = {} /\ db' = db /\ ppc' = "idle"
      BY <2>8 DEF MakeFails, MakeInv
    <3> QED BY <3>1
  <2>9. CASE MakeOpen
    BY <2>9, <1>b DEF MakeOpen
  <2> QED BY <1>4, <2>1, <2>2, <2>3, <2>4, <2>5, <2>6, <2>7, <2>8, <2>9 DEF Create
<1>5. CASE WriteMsg
  BY <1>5, <1>b DEF WriteMsg, PutFull, PutNotFull, PutFits, PutOverflows, WriteHead,
     WriteBody, WritePos, LoadPutNum, IncPutNum, PutReturn
<1>6. CASE NextWrite
  BY <1>6, <1>b DEF NextWrite, NextWriteNoSpace, NextWriteLock, NextWriteWtag,
     NextWriteNoWtag, NextWriteDb, NextWriteNoDb, NextWritePos,
     NextWriteIndex, NextWriteHead, NextWriteUnlink
<1>7. CASE GetData
  BY <1>7, <1>b DEF GetData, EndIndex, EndPos, EndReset, ParseOk, ParseSkip, ParseBeyond,
     WrapGetNum, NoWrap, WrapLoad, WrapPutNum, NoteRtag, GetReturn
<1>8. CASE NextRead
  BY <1>8, <1>b DEF NextRead, NextReadEnd, NextReadLock, NextReadRtag, NextReadNoRtag,
     NextReadNote, NextReadUnlink, NextReadShare, NextReadMap, NextReadNoMap
<1>9. CASE Process
  <2>1. CASE Close
    <3>1. ppc = "idle" /\ cpc = "idle" /\ UNCHANGED <<db, rtag, wtag, sent, got>> /\ ppc' = "idle"
      BY <2>1 DEF Close, Stop
    <3>2. CASE ~ open
      BY <1>b, <3>1, <3>2
    <3>3. CASE open
      <4>1. /\ DOMAIN rtag = {ridx} /\ DOMAIN wtag = {widx}
        BY <3>1, <3>3 DEF RtagInv, RtagFiles, WtagInv, WtagFiles
      <4>2. /\ rtag[ridx].num = get_num /\ wtag[widx].num = put_num
            /\ put_num = Len(sent) /\ get_num = ReadCount
        BY <3>1, <3>3 DEF CountInv, PlainInv, Hand
      <4> QED BY <3>1, <4>1, <4>2
    <3> QED BY <3>2, <3>3
  <2>2. CASE Crash
    BY <2>2
  <2>3. CASE Segv
    BY <2>3, NoStray
  <2>4. CASE OpenQueue
    BY <2>4, <1>b DEF OpenQueue
  <2>5. CASE OpenWithout
    BY <2>5, <1>b DEF OpenWithout
  <2> QED BY <1>9, <2>1, <2>2, <2>3, <2>4, <2>5 DEF Process
<1>10. ~ PutStray /\ ~ GetStray
  BY NoStrays DEF RecInv
<1> QED BY <1>1, <1>2, <1>3, <1>4, <1>5, <1>6, <1>7, <1>8, <1>9, <1>10
        DEF Next, PutStep, GetStep

\* The invariant holds before the store is opened for the first time ...
LEMMA CountInit == Init => CountInv
  BY StoreAssumption DEF Init, CountInv, LoadInv, PlainInv, LimitInv, Unread, Taken, Hand, Creating

\* ... and every step keeps it, of a queue without a limit also a kill.
LEMMA CountNext ==
    ASSUME Counted, Inv, HeldInv, RecInv, TurnsInv, KeptInv, ~ NoLimit => TakenInv, CountInv,
           [Next]_vars
    PROVE  CountInv'
<1>1. CASE Next
  <2>1. CASE NoLimit
    <3>1. PlainInv'
      BY <1>1, <2>1, PlainNums, PlainWrap, PlainWtag, PlainRtag, PlainRest DEF PlainInv
    <3> QED BY <1>1, <2>1, <3>1, LoadStep DEF CountInv
  <2>2. CASE ~ NoLimit
    BY <1>1, <2>2, LimitStep, LoadStep DEF CountInv
  <2> QED BY <2>1, <2>2
<1>2. CASE UNCHANGED vars
  <2>1. ReadCount' = ReadCount
    BY <1>2 DEF vars, ReadCount, Passed, Present, Ahead, NotedAhead
  <2> QED BY <1>2, <2>1 DEF vars, CountInv, LoadInv, PlainInv, LimitInv, Unread, Taken, Hand
<1> QED BY <1>1, <1>2

\* The invariant of the counters.
THEOREM CountsKept ==
    ASSUME Counted
    PROVE  Spec => [](Inv /\ HeldInv /\ RecInv /\ TurnsInv /\ KeptInv /\ CountInv)
<1>1. Spec => [](Inv /\ HeldInv /\ RecInv /\ TurnsInv /\ KeptInv)
  BY ContentsKept DEF Counted
<1>2. CASE NoLimit
  <2>1. Inv /\ HeldInv /\ RecInv /\ TurnsInv /\ KeptInv /\ CountInv /\ [Next]_vars => CountInv'
    BY <1>2, CountNext
  <2> QED BY <1>1, <2>1, CountInit, PTL DEF Spec
<1>3. CASE ~ NoLimit
  <2>1. Spec => [](Inv /\ HeldInv /\ RecInv /\ TurnsInv /\ KeptInv /\ TakenInv)
    BY <1>3, TakenFirst DEF Counted, Unhurt
  <2>2. Inv /\ HeldInv /\ RecInv /\ TurnsInv /\ KeptInv /\ TakenInv /\ CountInv /\ [Next]_vars
            => CountInv'
    BY CountNext
  <2> QED BY <2>1, <2>2, CountInit, PTL DEF Spec
<1> QED BY <1>2, <1>3

\* A message that an open queue has on disk is in a record behind the noted
\* position.
LEMMA OnDiskRecord ==
    ASSUME Inv, HeldInv, RecInv, TurnsInv, KeptInv, open, ppc = "idle", cpc = "idle",
           NEW a \in DOMAIN acked, OnDisk(acked[a])
    PROVE  /\ a \in 1 .. nput /\ a \in DOMAIN sent /\ Noting(ridx) /\ ridx \in DOMAIN rtag
           /\ \E i \in DOMAIN db, p \in Offset :
                  Starts(db[i], p) /\ db[i][p][1] = a /\ NotedAhead(ridx, i, p)
<1> DEFINE m == acked[a]
<1>1. m.id = a /\ m \in Message /\ a \in 1 .. nput /\ a \in DOMAIN sent /\ a \in Nat /\ a # 0
  <2>1. /\ DOMAIN acked = 1 .. Len(acked) /\ DOMAIN sent = 1 .. Len(sent)
        /\ Len(acked) \in Nat /\ Len(sent) \in Nat
    BY DEF Inv, TypeOK
  <2>2. Len(acked) = Len(sent) /\ Len(sent) = nput
    BY DEF KeptInv, SentInv
  <2>3. a \in DOMAIN sent /\ a \in Nat /\ a # 0 /\ a \in 1 .. nput
    BY ONLY <2>1, <2>2, a \in DOMAIN acked
  <2>4. sent[a].id = a /\ m = sent[a]
    BY <2>3 DEF KeptInv, SentInv
  <2>5. sent[a] \in Message
    BY <2>3 DEF Inv, TypeOK
  <2> QED BY ONLY <2>3, <2>4, <2>5
<1>2. PICK i \in DOMAIN db, p \in 0 .. MaxFile - RecordLen(m) :
          /\ \A k \in 0 .. RecordLen(m) - 1 : db[i][p + k] = <<m.id, m.len, k>>
          /\ i \in DOMAIN rtag => rtag[i] = Empty \/ p >= rtag[i].pos
  BY DEF OnDisk
<1>3. p \in Offset /\ 0 \in 0 .. RecordLen(m) - 1 /\ p + 0 = p
  BY <1>1, LayoutAssumption DEF RecordLen, Message, Offset
<1>4. db[i][p] = <<a, m.len, 0>>
  <2> HIDE DEF m
  <2> QED BY ONLY <1>1, <1>2, <1>3
<1>5. Starts(db[i], p) /\ db[i][p][1] = a
  BY ONLY <1>1, <1>4 DEF Starts
<1>6. ridx \in DOMAIN rtag /\ rtag[ridx] # Empty /\ Noting(ridx)
  BY NotedPos DEF RecInv, RtagInv, Noting
<1>7. i \in Nat /\ ridx \in Nat /\ i >= ridx
  <2>1. DOMAIN db = ridx .. widx /\ ridx \in Nat /\ widx \in Nat
    BY DEF RecInv, DataInv, ReadFile, WriteFile, Inv, TypeOK
  <2> QED BY ONLY <2>1, <1>2
<1>8. NotedAhead(ridx, i, p)
  BY <1>2, <1>6, <1>7 DEF NotedAhead
<1> QED BY <1>1, <1>3, <1>5, <1>6, <1>8

\* An open queue has on disk exactly what the consumer has not passed, ...
LEMMA OnDiskPresent ==
    ASSUME Inv, HeldInv, RecInv, TurnsInv, KeptInv, open, ppc = "idle", cpc = "idle"
    PROVE  Cardinality({a \in DOMAIN acked : OnDisk(acked[a])}) = Len(sent) - ReadCount
<1> DEFINE D == {a \in DOMAIN acked : OnDisk(acked[a])}
<1>1. DOMAIN acked = 1 .. nput /\ Len(sent) = nput /\ nput \in Nat
  <2>1. DOMAIN acked = 1 .. Len(acked) /\ Len(acked) \in Nat /\ nput \in Nat
    BY DEF Inv, TypeOK
  <2>2. Len(acked) = Len(sent) /\ Len(sent) = nput
    BY DEF KeptInv, SentInv
  <2> QED BY <2>1, <2>2
<1>2. ASSUME NEW a \in DOMAIN acked, OnDisk(acked[a]) PROVE Present(a)
  <2>1. PICK i \in DOMAIN db, p \in Offset :
            Starts(db[i], p) /\ db[i][p][1] = a /\ NotedAhead(ridx, i, p)
    BY <1>2, OnDiskRecord
  <2>2. Ahead(i, p)
    BY <2>1 DEF KeptInv, GapInv, Hand
  <2> QED BY <2>1, <2>2 DEF Present
<1>3. ASSUME NEW a \in DOMAIN acked, Present(a) PROVE OnDisk(acked[a])
  BY <1>3, PresentOnDisk
<1>4. D = (1 .. nput) \ Passed
  BY <1>1, <1>2, <1>3 DEF Passed
<1>5. (1 .. nput) \cap Passed = Passed
  BY DEF Passed
<1>6. IsFiniteSet(1 .. nput) /\ Cardinality(1 .. nput) = nput
  <2>1. 1 \in Int /\ nput \in Int
    BY <1>1
  <2>2. IsFiniteSet(1 .. nput) /\ Cardinality(1 .. nput) = IF 1 > nput THEN 0 ELSE nput - 1 + 1
    BY ONLY <2>1, FS_Interval
  <2> QED BY ONLY <1>1, <2>2
<1>7. Cardinality((1 .. nput) \ Passed) = nput - Cardinality(Passed)
  <2> DEFINE S == 1 .. nput
  <2>1. IsFiniteSet(S) /\ Cardinality(S) = nput /\ S \cap Passed = Passed
    BY <1>5, <1>6
  <2> HIDE DEF S
  <2>2. Cardinality(S \ Passed) = Cardinality(S) - Cardinality(S \cap Passed)
    BY ONLY <2>1, FS_Difference
  <2> QED BY <2>1, <2>2 DEF S
<1> QED BY <1>1, <1>4, <1>7 DEF ReadCount

\* ... which without kills is what has not been returned.
LEMMA OnDiskUnread ==
    ASSUME Inv, HeldInv, RecInv, TurnsInv, KeptInv, TakenInv, Unhurt,
           open, ppc = "idle", cpc = "idle"
    PROVE  {i \in DOMAIN acked : OnDisk(acked[i])} = (Len(got) + 1) .. Len(sent)
<1>1. /\ DOMAIN acked = 1 .. Len(acked) /\ DOMAIN sent = 1 .. Len(sent) /\ DOMAIN got = 1 .. Len(got)
      /\ Len(acked) \in Nat /\ Len(sent) \in Nat /\ Len(got) \in Nat /\ Len(acked) = Len(sent)
      /\ Taken = Len(got)
  <2>1. acked \in Seq(Message) /\ sent \in Seq(Message) /\ got \in Seq(Message)
    BY DEF Inv, TypeOK
  <2>2. Len(acked) = Len(sent) /\ ~ Hand
    BY DEF KeptInv, SentInv, Hand
  <2> QED BY ONLY <2>1, <2>2 DEF Taken
<1>2. ASSUME NEW a \in (Len(got) + 1) .. Len(sent)
      PROVE  a \in DOMAIN acked /\ OnDisk(acked[a])
  <2>1. a \in DOMAIN acked /\ a > Taken /\ a \in 1 .. Len(sent)
    BY ONLY <1>1, <1>2
  <2>2. Len(sent) = nput
    BY DEF KeptInv, SentInv
  <2>3. Present(a)
    BY <2>1, <2>2, AllPresent
  <2> QED BY <2>1, <2>3, PresentOnDisk
<1>3. ASSUME NEW a \in DOMAIN acked, OnDisk(acked[a]) PROVE a > Len(got)
  <2>1. a \in DOMAIN sent /\ a \in Nat /\ Noting(ridx) /\ ridx \in DOMAIN rtag
    BY <1>1, <1>3, OnDiskRecord
  <2>2. PICK i \in DOMAIN db, p \in Offset :
            Starts(db[i], p) /\ db[i][p][1] = a /\ NotedAhead(ridx, i, p)
    BY <1>3, OnDiskRecord
  <2>3. \A g \in DOMAIN got : got[g].id < a
    BY <2>1, <2>2 DEF TurnsInv, GotInv
  <2> SUFFICES ASSUME a <= Len(got) PROVE FALSE
    BY <1>1, <2>1
  <2>4. a \in DOMAIN got
    BY ONLY <1>1, <2>1, a <= Len(got)
  <2>5. got[a].id = a
    BY <2>1, <2>4 DEF TakenInv, KeptInv, SentInv
  <2> QED BY <2>1, <2>3, <2>4, <2>5
<1>4. \A a \in DOMAIN acked : a \in Nat /\ a <= Len(sent)
  BY ONLY <1>1
<1>5. \A a \in DOMAIN acked : OnDisk(acked[a]) => a \in (Len(got) + 1) .. Len(sent)
  BY ONLY <1>1, <1>3, <1>4
<1> QED BY ONLY <1>2, <1>5

\* put_num - get_num is the number of messages left to read: of a queue
\* without a limit, whose counters are read back from the tag files, after any
\* number of restarts and of kills outside a write or a rotation, and of one
\* with a limit within one process.
THEOREM CountsUnread == ASSUME Counted PROVE Spec => []UnreadCount
<1>1. ASSUME Inv, open, NEW n \in Nat, NEW g \in Nat, g <= n, put_num - get_num = n - g
      PROVE  U64(put_num - get_num) = n - g
  <2>1. put_num \in Nat /\ get_num \in Nat /\ put_num < Wide /\ Wide \in Nat
    BY <1>1, StoreAssumption DEF Inv, TypeOK
  <2>2. put_num - get_num \in 0 .. Wide - 1
    BY ONLY <1>1, <2>1
  <2> QED BY <1>1, <2>2, U64Same
<1>2. CASE NoLimit
  <2>1. ASSUME Inv, HeldInv, RecInv, TurnsInv, KeptInv, CountInv PROVE UnreadCount
    <3> SUFFICES ASSUME open, ppc = "idle", cpc = "idle"
                 PROVE  U64(put_num - get_num)
                          = Cardinality({i \in DOMAIN acked : OnDisk(acked[i])})
      BY DEF UnreadCount
    <3>1. put_num = Len(sent) /\ get_num = ReadCount
      BY <1>2, <2>1 DEF CountInv, PlainInv
    <3>2. Len(sent) \in Nat /\ ReadCount \in Nat /\ ReadCount <= Len(sent)
      <4>1. Len(sent) = nput /\ Len(sent) \in Nat
        BY <2>1 DEF KeptInv, SentInv, Inv, TypeOK
      <4> QED BY <2>1, <4>1, PassedFinite
    <3>3. U64(put_num - get_num) = Len(sent) - ReadCount
      BY <1>1, <2>1, <3>1, <3>2
    <3> QED BY <2>1, <3>3, OnDiskPresent
  <2> QED BY <2>1, CountsKept, PTL
<1>3. CASE ~ NoLimit
  <2>0. Unhurt
    BY <1>3 DEF Counted, Unhurt
  <2>1. ASSUME Inv, HeldInv, RecInv, TurnsInv, KeptInv, TakenInv, CountInv PROVE UnreadCount
    <3> SUFFICES ASSUME open, ppc = "idle", cpc = "idle"
                 PROVE  U64(put_num - get_num)
                          = Cardinality({i \in DOMAIN acked : OnDisk(acked[i])})
      BY DEF UnreadCount
    <3>1. Len(sent) \in Nat /\ Len(got) \in Nat /\ Taken = Len(got)
      BY <2>1 DEF Inv, TypeOK, Taken, Hand
    <3>2. put_num \in Nat /\ get_num \in Nat
      BY <2>1, StoreAssumption DEF Inv, TypeOK
    <3>3. put_num - get_num = Len(sent) - Len(got)
      BY <1>3, <2>1, <3>1, <3>2 DEF CountInv, LimitInv, Unread
    <3>4. Len(got) <= Len(sent)
      BY <2>1, <3>1 DEF TakenInv
    <3>5. U64(put_num - get_num) = Len(sent) - Len(got)
      BY <1>1, <2>1, <3>1, <3>3, <3>4
    <3>6. Cardinality((Len(got) + 1) .. Len(sent)) = Len(sent) - Len(got)
      <4> DEFINE a == Len(got) + 1
                 b == Len(sent)
      <4>1. a \in Int /\ b \in Int
        BY <3>1
      <4> HIDE DEF a, b
      <4>2. Cardinality(a .. b) = IF a > b THEN 0 ELSE b - a + 1
        BY ONLY <4>1, FS_Interval
      <4>3. (IF a > b THEN 0 ELSE b - a + 1) = Len(sent) - Len(got)
        BY ONLY <3>1, <3>4 DEF a, b
      <4> QED BY <4>2, <4>3 DEF a, b
    <3> QED BY <2>0, <2>1, <3>5, <3>6, OnDiskUnread
  <2>2. Spec => [](Inv /\ HeldInv /\ RecInv /\ TurnsInv /\ KeptInv /\ TakenInv)
    BY <2>0, TakenFirst
  <2> QED BY <2>1, <2>2, CountsKept, PTL
<1> QED BY <1>2, <1>3

\* A put is refused as QUEUE_FULL only if as many messages as the limit wait.
THEOREM RefusedFull == ASSUME Counted PROVE Spec => FullMeansFull
<1>1. ASSUME Inv, TurnsInv, TakenInv, CountInv, PutFull, ~ NoLimit PROVE Len(sent) - Len(got) >= MaxQue
  <2>1. ppc = "full" /\ MaxQue # 0 /\ U64(pload - get_num + 1) > MaxQue
    BY <1>1 DEF PutFull, IsFull
  <2>2. cpc = "idle" /\ open /\ pload = put_num
    BY <1>1, <2>1 DEF TurnsInv, TurnInv, Inv, LifeInv, Creating, CountInv, LoadInv
  <2>3. Len(sent) \in Nat /\ Len(got) \in Nat /\ Taken = Len(got) /\ Len(got) <= Len(sent)
    <3>1. Len(sent) \in Nat /\ Len(got) \in Nat /\ Taken = Len(got)
      BY <1>1, <2>2 DEF Inv, TypeOK, Taken, Hand
    <3> QED BY <1>1, <3>1 DEF TakenInv
  <2>4. /\ put_num \in Nat /\ get_num \in Nat /\ MaxQue \in Nat /\ Wide \in Nat /\ Wide > MaxQue + 1
    BY <1>1, StoreAssumption DEF Inv, TypeOK
  <2>5. LimitInv
    BY <1>1, <2>1 DEF CountInv
  <2>6. put_num - get_num = Len(sent) - Len(got) /\ Len(sent) - Len(got) <= MaxQue
    BY ONLY <2>2, <2>3, <2>4, <2>5 DEF LimitInv, Unread
  <2>7. pload - get_num + 1 \in 0 .. Wide - 1
    BY ONLY <2>2, <2>3, <2>4, <2>6
  <2>8. U64(pload - get_num + 1) = Len(sent) - Len(got) + 1
    BY <2>2, <2>6, <2>7, U64Same
  <2> QED BY ONLY <2>1, <2>3, <2>4, <2>8
<1>2. CASE NoLimit
  <2>1. ASSUME Inv, TurnsInv, KeptInv, CountInv, PutFull PROVE FALSE
    <3>1. ppc = "full" /\ MaxQue # 0 /\ U64(pload - get_num + 1) > MaxQue
      BY <2>1 DEF PutFull, IsFull
    <3>2. open /\ pload = put_num
      BY <2>1, <3>1 DEF Inv, LifeInv, Creating, CountInv, LoadInv
    <3>3. put_num = Len(sent) /\ get_num = ReadCount
      BY <1>2, <2>1, <3>2 DEF CountInv, PlainInv
    <3>4. Len(sent) = nput /\ nput \in Nat /\ nput <= MaxMsgs /\ ReadCount \in Nat /\ ReadCount <= nput
      BY <2>1, <3>1, PassedFinite DEF KeptInv, SentInv, Inv, TypeOK
    <3>5. MaxQue > MaxMsgs /\ MaxQue \in Nat /\ MaxMsgs \in Nat /\ Wide \in Nat /\ Wide > MaxQue + 1
      BY <1>2, <3>1, StoreAssumption DEF NoLimit
    <3>6. pload - get_num + 1 \in 0 .. Wide - 1 /\ pload - get_num + 1 <= MaxQue
      BY ONLY <3>2, <3>3, <3>4, <3>5
    <3> QED BY ONLY <3>1, <3>5, <3>6, U64Same
  <2>2. Inv /\ TurnsInv /\ KeptInv /\ CountInv /\ [Next]_vars
            => [PutFull => Len(sent) - Len(got) >= MaxQue]_vars
    BY <2>1
  <2> QED BY <2>2, CountsKept, PTL DEF Spec, FullMeansFull
<1>3. CASE ~ NoLimit
  <2>1. Spec => [](Inv /\ HeldInv /\ RecInv /\ TurnsInv /\ KeptInv /\ TakenInv)
    BY <1>3, TakenFirst DEF Counted, Unhurt
  <2>2. Inv /\ TurnsInv /\ TakenInv /\ CountInv /\ [Next]_vars
            => [PutFull => Len(sent) - Len(got) >= MaxQue]_vars
    BY <1>1, <1>3
  <2> QED BY <2>1, <2>2, CountsKept, PTL DEF Spec, FullMeansFull
<1> QED BY <1>2, <1>3

-----------------------------------------------------------------------------
\* The abstract queue.

\* Every step is one of the abstract queue, which has room for it, or none.
LEMMA StepIsFifo ==
    ASSUME Inv, HeldInv, RecInv, TurnsInv, KeptInv, TakenInv, [Next]_vars,
           MaxQue # 0 /\ ppc = "inc" => Len(sent) - Len(got) < MaxQue
    PROVE  [Fifo!Next]_<<sent, got>>
<1>0. /\ sent \in Seq(Message) /\ got \in Seq(Message) /\ nput \in Nat
      /\ Len(sent) \in Nat /\ Len(got) \in Nat
  BY DEF Inv, TypeOK
<1>1. CASE IncPutNum
  <2>1. ppc = "inc" /\ sent' = Append(sent, pmsg) /\ got' = got
    BY <1>1 DEF IncPutNum
  <2>2. pmsg \in [id : 1 .. MaxMsgs, len : Lens]
    <3>1. pmsg.id = nput /\ nput <= MaxMsgs /\ nput # 0 /\ pmsg.len \in Lens /\ MaxMsgs \in Nat
      BY <2>1, <1>0, StoreAssumption DEF TurnsInv, NumberInv, Writing, KeptInv, SentInv
    <3>2. pmsg \in Message
      BY DEF Inv, TypeOK
    <3>3. pmsg.id \in 1 .. MaxMsgs
      BY ONLY <1>0, <3>1
    <3> QED BY ONLY <3>1, <3>2, <3>3 DEF Message
  <2>3. Fifo!Put(pmsg)
    BY <2>1 DEF Fifo!Put, Fifo!Waiting
  <2> QED BY <2>2, <2>3 DEF Fifo!Next
<1>2. CASE GetReturn
  <2>1. got' = Append(got, cmsg) /\ Hand /\ sent' = sent
    BY <1>2 DEF GetReturn, Hand
  <2>2. cmsg = sent[Len(got) + 1] /\ Taken <= Len(sent)
    BY <2>1 DEF TakenInv
  <2>3. Len(sent) - Len(got) > 0
    BY ONLY <1>0, <2>1, <2>2 DEF Taken
  <2> QED BY <2>1, <2>2, <2>3 DEF Fifo!Next, Fifo!Get, Fifo!Waiting
<1>3. CASE UNCHANGED <<sent, got>>
  BY <1>3
<1>4. CASE UNCHANGED vars
  BY <1>4 DEF vars
<1> QED BY <1>1, <1>2, <1>3, <1>4, HistStep

\* The store is a FIFO queue as long as it is not killed: with a limit one that
\* never holds more, and without a limit also over any number of restarts.
THEOREM StoreIsFifo == ASSUME Counted, MaxCrashes = 0 PROVE Spec => FifoSafe
<1>1. Init => Fifo!Init
  BY DEF Init, Fifo!Init
<1>2. Inv /\ HeldInv /\ RecInv /\ TurnsInv /\ KeptInv /\ TakenInv /\ CountInv /\ [Next]_vars
          => [Fifo!Next]_<<sent, got>>
  <2> SUFFICES ASSUME Inv, HeldInv, RecInv, TurnsInv, KeptInv, TakenInv, CountInv, [Next]_vars
               PROVE  [Fifo!Next]_<<sent, got>>
    OBVIOUS
  <2>1. MaxQue # 0 /\ ppc = "inc" => Len(sent) - Len(got) < MaxQue
    <3>1. CASE ~ NoLimit
      BY <3>1 DEF CountInv, LimitInv, Creating
    <3>2. CASE NoLimit
      <4>1. /\ Len(sent) \in Nat /\ Len(got) \in Nat /\ nput \in Nat /\ MaxMsgs \in Nat /\ MaxQue \in Nat
        BY StoreAssumption DEF Inv, TypeOK
      <4>2. (ppc = "inc" => Len(sent) = nput - 1) /\ nput <= MaxMsgs
        BY DEF KeptInv, SentInv
      <4> QED BY ONLY <3>2, <4>1, <4>2 DEF NoLimit
    <3> QED BY <3>1, <3>2
  <2> QED BY <2>1, StepIsFifo DEF Counted
<1>3. Spec => [](Inv /\ HeldInv /\ RecInv /\ TurnsInv /\ KeptInv /\ TakenInv)
  BY TakenFirst DEF Counted, Unhurt
<1> QED BY <1>1, <1>2, <1>3, CountsKept, PTL DEF Spec, FifoSafe

\* mq_store_init never leaves out a queue that has files, which the next put
\* would delete, as long as it can open the files it finds and the process was
\* not killed while a file was written or created.
THEOREM NoneRefused ==
    ASSUME Orderly, "open" \notin Faults PROVE Spec => NeverRefused
<1>1. ASSUME Inv, RecInv, OpenWithout PROVE DOMAIN db = {}
  <2> SUFFICES ASSUME DOMAIN db # {} PROVE FALSE
    OBVIOUS
  <2>1. ~ open /\ ppc = "idle"
    BY <1>1 DEF OpenWithout, Inv, LifeInv
  <2> QED BY <1>1, <2>1, RestOpens DEF OpenWithout
<1>2. Inv /\ RecInv /\ [Next]_vars => [OpenWithout => DOMAIN db = {}]_vars
  BY <1>1
<1> QED BY <1>2, RecordsKept, PTL DEF Spec, NeverRefused

=============================================================================
