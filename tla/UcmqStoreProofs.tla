--------------------------- MODULE UcmqStoreProofs --------------------------
(***************************************************************************)
(* Proofs about UcmqStore, for every value of its constants: the two       *)
(* threads interleave freely, messages, rotations, failing calls, closes   *)
(* and kills are bounded by any numbers whatever.                          *)
(***************************************************************************)
EXTENDS UcmqStore, TLAPS

-----------------------------------------------------------------------------
\* The operators the files are built with.

\* Adding a file, or giving one new contents, leaves a directory.
LEMMA WithDirectory ==
    ASSUME NEW f, NEW C, Directory(f, C), NEW i \in Nat \ {0}, NEW v \in C
    PROVE  /\ Directory(With(f, i, v), C)
           /\ DOMAIN With(f, i, v) = DOMAIN f \cup {i}
           /\ With(f, i, v)[i] = v
           /\ \A j \in DOMAIN f : j # i => With(f, i, v)[j] = f[j]
  BY DEF With, Directory

\* So does removing one.
LEMMA WithoutDirectory ==
    ASSUME NEW f, NEW C, Directory(f, C), NEW i
    PROVE  /\ Directory(Without(f, i), C)
           /\ DOMAIN Without(f, i) = DOMAIN f \ {i}
           /\ \A j \in DOMAIN f : j # i => Without(f, i)[j] = f[j]
  BY DEF Without, Directory

\* open with O_CREAT touches no other file, and not the contents of this one.
LEMMA CreatedDirectory ==
    ASSUME NEW f, NEW C, Directory(f, C), NEW i \in Nat \ {0}, NEW v \in C
    PROVE  /\ Directory(Created(f, i, v), C)
           /\ DOMAIN f \subseteq DOMAIN Created(f, i, v)
           /\ \A j \in DOMAIN f : Created(f, i, v)[j] = f[j]
<1>1. CASE i \in DOMAIN f
  BY <1>1 DEF Created
<1>2. CASE i \notin DOMAIN f
  <2>1. Created(f, i, v) = With(f, i, v)
    BY <1>2 DEF Created
  <2>2. \A j \in DOMAIN f : j # i
    BY <1>2
  <2> QED BY <2>1, <2>2 DEF With, Directory
<1> QED BY <1>1, <1>2

\* Writing a tag line keeps the tag files a directory.
LEMMA TagWriteDirectory ==
    ASSUME NEW f, Directory(f, Tag \cup {Empty}), NEW fd \in Nat,
           NEW num \in 0..(Wide - 1), NEW pos \in Nat
    PROVE  Directory(TagWrite(f, fd, num, pos), Tag \cup {Empty})
<1> DEFINE t == [num |-> num, pos |-> pos]
<1>1. t \in Tag \cup {Empty}
  BY DEF Tag
<1>2. CASE fd = NoFd
  BY <1>2 DEF TagWrite
<1>3. CASE fd # NoFd
  <2>1. fd \in Nat \ {0}
    BY <1>3 DEF NoFd
  <2>2. Directory(With(f, fd, t), Tag \cup {Empty})
    BY <1>1, <2>1, WithDirectory
  <2> QED BY <1>3, <2>2 DEF TagWrite
<1> QED BY <1>2, <1>3

\* Extending a data file leaves it with its full size.
LEMMA ExtendedDirectory ==
    ASSUME NEW f, Directory(f, File \cup {Short}), NEW i \in Nat \ {0}
    PROVE  /\ Directory(Extended(f, i), File \cup {Short})
           /\ DOMAIN Extended(f, i) = DOMAIN f \cup {i}
           /\ Extended(f, i)[i] \in File
           /\ \A j \in DOMAIN f : j # i => Extended(f, i)[j] = f[j]
<1> DEFINE v == IF i \in DOMAIN f /\ f[i] # Short THEN f[i] ELSE ZeroFile
<1>1. ZeroFile \in File
  BY DEF ZeroFile, File, Cell, Zero
<1>2. v \in File
  BY <1>1 DEF Directory
<1>3. Extended(f, i) = With(f, i, v)
  BY DEF Extended
<1> HIDE DEF v
<1> QED BY <1>2, <1>3, WithDirectory

\* The writes through a mapping keep a data file a data file.
LEMMA WrittenFile ==
    ASSUME NEW file \in File, NEW pos \in Nat, NEW m \in Message
    PROVE  /\ WriteFileHead(file) \in File
           /\ WriteMsgHead(file, pos, m) \in File
           /\ WriteMsgBody(file, pos, m) \in File
<1>1. WriteFileHead(file) \in File
  BY DEF WriteFileHead, File, Cell, HeadByte
<1>2. ASSUME NEW from \in Nat, NEW to \in Int
      PROVE  WriteBytes(file, pos, m, from, to) \in File
  <2>1. \A o \in Offset : o - pos \in from..to => <<m.id, m.len, o - pos>> \in Cell
    BY LayoutAssumption DEF Cell, Offset, Message
  <2> QED BY <2>1 DEF WriteBytes, File
<1>3. MsgHead \in Nat /\ MsgHead - 1 \in Int /\ RecordLen(m) - 1 \in Int
  BY LayoutAssumption DEF RecordLen, Message
<1> QED BY <1>1, <1>2, <1>3 DEF WriteMsgHead, WriteMsgBody

\* A record has a length.
LEMMA RecordLenNat == ASSUME NEW m \in Message PROVE RecordLen(m) \in Nat
  BY LayoutAssumption DEF RecordLen, Message

\* Counter arithmetic stays in range.
LEMMA U64Range ==
    ASSUME NEW n \in Int
    PROVE  U64(n) \in 0..(Wide - 1)
  BY StoreAssumption DEF U64

\* The values of an idle thread and of a queue just created have their types.
LEMMA ZeroValues == 0 \in 0..(Wide - 1) /\ NoMessage \in Message
  BY StoreAssumption DEF NoMessage, Message

-----------------------------------------------------------------------------
\* The inductive invariant: TypeOK, and what the steps that write through a
\* mapping or remove a file rely on.

Creating == {"creat", "wipe", "mk_rtag", "mk_wtag", "mk_db", "mk_open"}
PutHolds == {"wtag", "wdb", "wpos", "widx", "head", "unlink"}
GetHolds == {"r_open", "r_write", "r_unlink", "r_map"}

\* The mutex is held exactly during the file rotations.
MutexInv ==
    /\ mutex = "put" <=> ppc \in PutHolds
    /\ mutex = "get" <=> cpc \in GetHolds

\* What the process does while the queue is not open.
LifeInv ==
    /\ open => up /\ ppc \notin Creating
    /\ ~ open => /\ cpc = "idle" /\ ppc \in Creating \cup {"idle"}
                 /\ mapped = IF ppc = "mk_open" THEN {1} ELSE {}
    /\ ~ up => ~ open /\ ppc = "idle"

\* The files the mappings belong to once a rotation has got so far.
ReadFile  == IF cpc \in {"r_unlink", "r_map"} THEN ridx - 1 ELSE ridx
WriteFile == IF ppc \in {"wpos", "widx"} THEN widx + 1 ELSE widx

\* The reader is never ahead of the writer, and each maps its own file.
IndexInv ==
    open => /\ 1 <= ridx /\ ridx <= widx
            /\ rmap \in {NoMap, ReadFile} /\ wmap \in {NoMap, WriteFile}
            /\ cpc \in {"r_open", "r_write"} => ridx + 1 <= widx

\* No mapping is left behind; the two threads share one mapping when they
\* work on the same file.
MappedInv ==
    open => /\ mapped \subseteq {rmap, wmap}
            /\ ppc \in {"wtag", "wdb"} /\ ridx < widx => wmap \notin mapped
            /\ ridx = widx /\ ppc \notin {"wpos", "widx"}
                           /\ cpc \notin {"r_unlink", "r_map"}
                   => rmap = wmap \/ wmap = NoMap

\* A mapped file exists and has its size.
ContentInv == \A i \in mapped : i \in DOMAIN db /\ db[i] \in File

Inv == TypeOK /\ MutexInv /\ LifeInv /\ IndexInv /\ MappedInv /\ ContentInv

\* Without failures of get_next_write_file to open its files, the mappings
\* the threads hold are there.
HeldInv ==
    open => /\ ppc \notin {"wtag", "wdb"} => wmap \in mapped
            /\ rmap # NoMap => rmap \in mapped
            /\ rmap = NoMap => cpc \notin {"wrap", "load", "store", "rtag", "ret"}

USE DEF mem, rdb, wdb, nums, fds, disk, prod, cons, env, hist,
        PutIdle, GetIdle, PutGoto, GetGoto, Fault

-----------------------------------------------------------------------------
\* The control invariants, step by step.

\* A rotation takes the mutex at its start and gives it back on every return.
LEMMA MutexStep == ASSUME Inv, Next PROVE MutexInv'
<1> USE DEF Inv, TypeOK, LifeInv, MutexInv, Creating, PutHolds, GetHolds
<1>1. CASE \E len \in Lens : PutBegin(len)
  BY <1>1 DEF PutBegin
<1>2. CASE GetBegin
  BY <1>2 DEF GetBegin
<1>3. CASE GetNothing
  BY <1>3 DEF GetNothing, vars
<1>4. CASE Create
  BY <1>4 DEF Create, CreatNoSpace, CreatSpace, Wipe, Wiped, MakeRtag,
              MakeWtag, MakeDb, MakeFails, MakeOpen
<1>5. CASE WriteMsg
  BY <1>5 DEF WriteMsg, PutFull, PutNotFull, PutFits, PutOverflows, WriteHead,
              WriteBody, WritePos, LoadPutNum, IncPutNum, PutReturn
<1>6. CASE NextWrite
  BY <1>6 DEF NextWrite, NextWriteNoSpace, NextWriteLock, NextWriteWtag,
              NextWriteNoWtag, NextWriteDb, NextWriteNoDb, NextWritePos,
              NextWriteIndex, NextWriteHead, NextWriteUnlink
<1>7. CASE GetData
  BY <1>7 DEF GetData, EndIndex, EndPos, EndReset, ParseOk, ParseSkip,
              ParseBeyond, WrapGetNum, NoWrap, WrapLoad, WrapPutNum,
              NoteRtag, GetReturn
<1>8. CASE NextRead
  BY <1>8 DEF NextRead, NextReadEnd, NextReadLock, NextReadRtag,
              NextReadNoRtag, NextReadNote, NextReadUnlink, NextReadShare,
              NextReadMap, NextReadNoMap
<1>9. CASE Process
  BY <1>9 DEF Process, Close, Crash, Segv, Stop, OpenQueue, OpenWithout
<1>10. CASE PutStray
  BY <1>10 DEF PutStray, NextWriteLockStray, PutReturnStray
<1>11. CASE GetStray
  BY <1>11 DEF GetStray, NextReadUnlinkStray, NextReadMapStray, NoteRtagStray
<1> QED BY <1>1, <1>2, <1>3, <1>4, <1>5, <1>6, <1>7, <1>8, <1>9, <1>10, <1>11
        DEF Next, PutStep, GetStep

\* The queue is opened and closed between calls only.
LEMMA LifeStep == ASSUME Inv, Next PROVE LifeInv'
<1> USE DEF Inv, TypeOK, LifeInv, Creating
<1>1. CASE \E len \in Lens : PutBegin(len)
  BY <1>1 DEF PutBegin
<1>2. CASE GetBegin
  BY <1>2 DEF GetBegin
<1>3. CASE GetNothing
  BY <1>3 DEF GetNothing, vars
<1>4. CASE Create
  <2>1. CASE CreatNoSpace
    BY <2>1 DEF CreatNoSpace
  <2>2. CASE CreatSpace
    BY <2>2 DEF CreatSpace
  <2>3. CASE Wipe
    BY <2>3 DEF Wipe
  <2>4. CASE Wiped
    BY <2>4 DEF Wiped
  <2>5. CASE MakeRtag
    BY <2>5 DEF MakeRtag
  <2>6. CASE MakeWtag
    BY <2>6 DEF MakeWtag
  <2>7. CASE MakeDb
    BY <2>7 DEF MakeDb
  <2>8. CASE MakeFails
    BY <2>8 DEF MakeFails
  <2>9. CASE MakeOpen
    BY <2>9 DEF MakeOpen
  <2> QED BY <1>4, <2>1, <2>2, <2>3, <2>4, <2>5, <2>6, <2>7, <2>8, <2>9
          DEF Create
<1>5. CASE WriteMsg
  BY <1>5 DEF WriteMsg, PutFull, PutNotFull, PutFits, PutOverflows, WriteHead,
              WriteBody, WritePos, LoadPutNum, IncPutNum, PutReturn
<1>6. CASE NextWrite
  BY <1>6 DEF NextWrite, NextWriteNoSpace, NextWriteLock, NextWriteWtag,
              NextWriteNoWtag, NextWriteDb, NextWriteNoDb, NextWritePos,
              NextWriteIndex, NextWriteHead, NextWriteUnlink
<1>7. CASE GetData
  BY <1>7 DEF GetData, EndIndex, EndPos, EndReset, ParseOk, ParseSkip,
              ParseBeyond, WrapGetNum, NoWrap, WrapLoad, WrapPutNum,
              NoteRtag, GetReturn
<1>8. CASE NextRead
  BY <1>8 DEF NextRead, NextReadEnd, NextReadLock, NextReadRtag,
              NextReadNoRtag, NextReadNote, NextReadUnlink, NextReadShare,
              NextReadMap, NextReadNoMap
<1>9. CASE Process
  BY <1>9 DEF Process, Close, Crash, Segv, Stop, OpenQueue, OpenWithout
<1>10. CASE PutStray
  BY <1>10 DEF PutStray, NextWriteLockStray, PutReturnStray
<1>11. CASE GetStray
  BY <1>11 DEF GetStray, NextReadUnlinkStray, NextReadMapStray, NoteRtagStray
<1> QED BY <1>1, <1>2, <1>3, <1>4, <1>5, <1>6, <1>7, <1>8, <1>9, <1>10, <1>11
        DEF Next, PutStep, GetStep

\* A rotation moves an index by one file, and the mapping with it.
LEMMA IndexStep == ASSUME Inv, Next PROVE IndexInv'
<1> USE DEF Inv, TypeOK, LifeInv, MutexInv, IndexInv, Creating, PutHolds,
            GetHolds, ReadFile, WriteFile, NoMap
<1>1. CASE \E len \in Lens : PutBegin(len)
  BY <1>1 DEF PutBegin
<1>2. CASE GetBegin
  BY <1>2 DEF GetBegin
<1>3. CASE GetNothing
  BY <1>3 DEF GetNothing, vars
<1>4. CASE Create
  <2>1. CASE CreatNoSpace
    BY <2>1 DEF CreatNoSpace
  <2>2. CASE CreatSpace
    BY <2>2 DEF CreatSpace
  <2>3. CASE Wipe
    BY <2>3 DEF Wipe
  <2>4. CASE Wiped
    BY <2>4 DEF Wiped
  <2>5. CASE MakeRtag
    BY <2>5 DEF MakeRtag
  <2>6. CASE MakeWtag
    BY <2>6 DEF MakeWtag
  <2>7. CASE MakeDb
    BY <2>7 DEF MakeDb
  <2>8. CASE MakeFails
    BY <2>8 DEF MakeFails
  <2>9. CASE MakeOpen
    BY <2>9 DEF MakeOpen
  <2> QED BY <1>4, <2>1, <2>2, <2>3, <2>4, <2>5, <2>6, <2>7, <2>8, <2>9
          DEF Create
<1>5. CASE WriteMsg
  <2>1. CASE PutFull
    BY <2>1 DEF PutFull
  <2>2. CASE PutNotFull
    BY <2>2 DEF PutNotFull
  <2>3. CASE PutFits
    BY <2>3 DEF PutFits
  <2>4. CASE PutOverflows
    BY <2>4 DEF PutOverflows
  <2>5. CASE WriteHead
    BY <2>5 DEF WriteHead
  <2>6. CASE WriteBody
    BY <2>6 DEF WriteBody
  <2>7. CASE WritePos
    BY <2>7 DEF WritePos
  <2>8. CASE LoadPutNum
    BY <2>8 DEF LoadPutNum
  <2>9. CASE IncPutNum
    BY <2>9 DEF IncPutNum
  <2>10. CASE PutReturn
    BY <2>10 DEF PutReturn
  <2> QED BY <1>5, <2>1, <2>2, <2>3, <2>4, <2>5, <2>6, <2>7, <2>8, <2>9, <2>10
          DEF WriteMsg
<1>6. CASE NextWrite
  <2>1. CASE NextWriteNoSpace
    BY <2>1 DEF NextWriteNoSpace
  <2>2. CASE NextWriteLock
    BY <2>2 DEF NextWriteLock
  <2>3. CASE NextWriteWtag
    BY <2>3 DEF NextWriteWtag
  <2>4. CASE NextWriteNoWtag
    BY <2>4 DEF NextWriteNoWtag
  <2>5. CASE NextWriteDb
    BY <2>5 DEF NextWriteDb
  <2>6. CASE NextWriteNoDb
    BY <2>6 DEF NextWriteNoDb
  <2>7. CASE NextWritePos
    BY <2>7 DEF NextWritePos
  <2>8. CASE NextWriteIndex
    BY <2>8 DEF NextWriteIndex
  <2>9. CASE NextWriteHead
    BY <2>9 DEF NextWriteHead
  <2>10. CASE NextWriteUnlink
    BY <2>10 DEF NextWriteUnlink
  <2> QED BY <1>6, <2>1, <2>2, <2>3, <2>4, <2>5, <2>6, <2>7, <2>8, <2>9, <2>10
          DEF NextWrite
<1>7. CASE GetData
  <2>1. CASE EndIndex
    BY <2>1 DEF EndIndex
  <2>2. CASE EndPos
    BY <2>2 DEF EndPos
  <2>3. CASE EndReset
    BY <2>3 DEF EndReset
  <2>4. CASE ParseOk
    BY <2>4 DEF ParseOk
  <2>5. CASE ParseSkip
    BY <2>5 DEF ParseSkip
  <2>6. CASE ParseBeyond
    BY <2>6 DEF ParseBeyond
  <2>7. CASE WrapGetNum
    BY <2>7 DEF WrapGetNum
  <2>8. CASE NoWrap
    BY <2>8 DEF NoWrap
  <2>9. CASE WrapLoad
    BY <2>9 DEF WrapLoad
  <2>10. CASE WrapPutNum
    BY <2>10 DEF WrapPutNum
  <2>11. CASE NoteRtag
    BY <2>11 DEF NoteRtag
  <2>12. CASE GetReturn
    BY <2>12 DEF GetReturn
  <2> QED BY <1>7, <2>1, <2>2, <2>3, <2>4, <2>5, <2>6, <2>7, <2>8, <2>9, <2>10, <2>11, <2>12
          DEF GetData
<1>8. CASE NextRead
  <2>1. CASE NextReadEnd
    BY <2>1 DEF NextReadEnd
  <2>2. CASE NextReadLock
    BY <2>2 DEF NextReadLock
  <2>3. CASE NextReadRtag
    BY <2>3 DEF NextReadRtag
  <2>4. CASE NextReadNoRtag
    BY <2>4 DEF NextReadNoRtag
  <2>5. CASE NextReadNote
    BY <2>5 DEF NextReadNote
  <2>6. CASE NextReadUnlink
    BY <2>6 DEF NextReadUnlink
  <2>7. CASE NextReadShare
    BY <2>7 DEF NextReadShare
  <2>8. CASE NextReadMap
    BY <2>8 DEF NextReadMap
  <2>9. CASE NextReadNoMap
    BY <2>9 DEF NextReadNoMap
  <2> QED BY <1>8, <2>1, <2>2, <2>3, <2>4, <2>5, <2>6, <2>7, <2>8, <2>9
          DEF NextRead
<1>9. CASE Process
  <2>1. CASE Close \/ Crash \/ Segv
    BY <2>1 DEF Close, Crash, Segv, Stop
  <2>2. CASE OpenQueue
    <3>1. PICK rt \in DOMAIN rtag, wt \in DOMAIN wtag :
              /\ Openable(rt, wt)
              /\ ridx' = rt /\ widx' = wt /\ rmap' = rt /\ wmap' = wt
      BY <2>2 DEF OpenQueue
    <3>2. rt \in Nat \ {0} /\ wt \in Nat \ {0} /\ rt <= wt
      BY <3>1 DEF Directory, Openable, HandleFiles
    <3>3. cpc' = "idle" /\ ppc' = "idle"
      BY <2>2 DEF OpenQueue
    <3> QED BY <3>1, <3>2, <3>3
  <2>3. CASE OpenWithout
    BY <2>3 DEF OpenWithout
  <2> QED BY <1>9, <2>1, <2>2, <2>3 DEF Process
<1>10. CASE PutStray
  <2>1. CASE NextWriteLockStray
    BY <2>1 DEF NextWriteLockStray
  <2>2. CASE PutReturnStray
    BY <2>2 DEF PutReturnStray
  <2> QED BY <1>10, <2>1, <2>2 DEF PutStray
<1>11. CASE GetStray
  <2>1. CASE NextReadUnlinkStray
    BY <2>1 DEF NextReadUnlinkStray
  <2>2. CASE NextReadMapStray
    BY <2>2 DEF NextReadMapStray
  <2>3. CASE NoteRtagStray
    BY <2>3 DEF NoteRtagStray
  <2> QED BY <1>11, <2>1, <2>2, <2>3 DEF GetStray
<1> QED BY <1>1, <1>2, <1>3, <1>4, <1>5, <1>6, <1>7, <1>8, <1>9, <1>10, <1>11
        DEF Next, PutStep, GetStep

\* A rotation removes the mapping of the file it leaves, unless the other
\* thread is on that file.
LEMMA MappedStep == ASSUME Inv, Next PROVE MappedInv'
<1> USE DEF Inv, TypeOK, LifeInv, MutexInv, IndexInv, MappedInv, Creating,
            PutHolds, GetHolds, ReadFile, WriteFile, NoMap
<1>1. CASE \E len \in Lens : PutBegin(len)
  BY <1>1 DEF PutBegin
<1>2. CASE GetBegin
  BY <1>2 DEF GetBegin
<1>3. CASE GetNothing
  BY <1>3 DEF GetNothing, vars
<1>4. CASE Create
  <2>1. CASE CreatNoSpace
    BY <2>1 DEF CreatNoSpace
  <2>2. CASE CreatSpace
    BY <2>2 DEF CreatSpace
  <2>3. CASE Wipe
    BY <2>3 DEF Wipe
  <2>4. CASE Wiped
    BY <2>4 DEF Wiped
  <2>5. CASE MakeRtag
    BY <2>5 DEF MakeRtag
  <2>6. CASE MakeWtag
    BY <2>6 DEF MakeWtag
  <2>7. CASE MakeDb
    BY <2>7 DEF MakeDb
  <2>8. CASE MakeFails
    BY <2>8 DEF MakeFails
  <2>9. CASE MakeOpen
    BY <2>9 DEF MakeOpen
  <2> QED BY <1>4, <2>1, <2>2, <2>3, <2>4, <2>5, <2>6, <2>7, <2>8, <2>9
          DEF Create
<1>5. CASE WriteMsg
  <2>1. CASE PutFull
    BY <2>1 DEF PutFull
  <2>2. CASE PutNotFull
    BY <2>2 DEF PutNotFull
  <2>3. CASE PutFits
    BY <2>3 DEF PutFits
  <2>4. CASE PutOverflows
    BY <2>4 DEF PutOverflows
  <2>5. CASE WriteHead
    BY <2>5 DEF WriteHead
  <2>6. CASE WriteBody
    BY <2>6 DEF WriteBody
  <2>7. CASE WritePos
    BY <2>7 DEF WritePos
  <2>8. CASE LoadPutNum
    BY <2>8 DEF LoadPutNum
  <2>9. CASE IncPutNum
    BY <2>9 DEF IncPutNum
  <2>10. CASE PutReturn
    BY <2>10 DEF PutReturn
  <2> QED BY <1>5, <2>1, <2>2, <2>3, <2>4, <2>5, <2>6, <2>7, <2>8, <2>9, <2>10
          DEF WriteMsg
<1>6. CASE NextWrite
  <2>1. CASE NextWriteNoSpace
    BY <2>1 DEF NextWriteNoSpace
  <2>2. CASE NextWriteLock
    BY <2>2 DEF NextWriteLock
  <2>3. CASE NextWriteWtag
    BY <2>3 DEF NextWriteWtag
  <2>4. CASE NextWriteNoWtag
    BY <2>4 DEF NextWriteNoWtag
  <2>5. CASE NextWriteDb
    BY <2>5 DEF NextWriteDb
  <2>6. CASE NextWriteNoDb
    BY <2>6 DEF NextWriteNoDb
  <2>7. CASE NextWritePos
    BY <2>7 DEF NextWritePos
  <2>8. CASE NextWriteIndex
    BY <2>8 DEF NextWriteIndex
  <2>9. CASE NextWriteHead
    BY <2>9 DEF NextWriteHead
  <2>10. CASE NextWriteUnlink
    BY <2>10 DEF NextWriteUnlink
  <2> QED BY <1>6, <2>1, <2>2, <2>3, <2>4, <2>5, <2>6, <2>7, <2>8, <2>9, <2>10
          DEF NextWrite
<1>7. CASE GetData
  <2>1. CASE EndIndex
    BY <2>1 DEF EndIndex
  <2>2. CASE EndPos
    BY <2>2 DEF EndPos
  <2>3. CASE EndReset
    BY <2>3 DEF EndReset
  <2>4. CASE ParseOk
    BY <2>4 DEF ParseOk
  <2>5. CASE ParseSkip
    BY <2>5 DEF ParseSkip
  <2>6. CASE ParseBeyond
    BY <2>6 DEF ParseBeyond
  <2>7. CASE WrapGetNum
    BY <2>7 DEF WrapGetNum
  <2>8. CASE NoWrap
    BY <2>8 DEF NoWrap
  <2>9. CASE WrapLoad
    BY <2>9 DEF WrapLoad
  <2>10. CASE WrapPutNum
    BY <2>10 DEF WrapPutNum
  <2>11. CASE NoteRtag
    BY <2>11 DEF NoteRtag
  <2>12. CASE GetReturn
    BY <2>12 DEF GetReturn
  <2> QED BY <1>7, <2>1, <2>2, <2>3, <2>4, <2>5, <2>6, <2>7, <2>8, <2>9, <2>10, <2>11, <2>12
          DEF GetData
<1>8. CASE NextRead
  <2>1. CASE NextReadEnd
    BY <2>1 DEF NextReadEnd
  <2>2. CASE NextReadLock
    BY <2>2 DEF NextReadLock
  <2>3. CASE NextReadRtag
    BY <2>3 DEF NextReadRtag
  <2>4. CASE NextReadNoRtag
    BY <2>4 DEF NextReadNoRtag
  <2>5. CASE NextReadNote
    BY <2>5 DEF NextReadNote
  <2>6. CASE NextReadUnlink
    BY <2>6 DEF NextReadUnlink
  <2>7. CASE NextReadShare
    BY <2>7 DEF NextReadShare
  <2>8. CASE NextReadMap
    BY <2>8 DEF NextReadMap
  <2>9. CASE NextReadNoMap
    BY <2>9 DEF NextReadNoMap
  <2> QED BY <1>8, <2>1, <2>2, <2>3, <2>4, <2>5, <2>6, <2>7, <2>8, <2>9
          DEF NextRead
<1>9. CASE Process
  BY <1>9 DEF Process, Close, Crash, Segv, Stop, OpenQueue, OpenWithout
<1>10. CASE PutStray
  <2>1. CASE NextWriteLockStray
    BY <2>1 DEF NextWriteLockStray
  <2>2. CASE PutReturnStray
    BY <2>2 DEF PutReturnStray
  <2> QED BY <1>10, <2>1, <2>2 DEF PutStray
<1>11. CASE GetStray
  <2>1. CASE NextReadUnlinkStray
    BY <2>1 DEF NextReadUnlinkStray
  <2>2. CASE NextReadMapStray
    BY <2>2 DEF NextReadMapStray
  <2>3. CASE NoteRtagStray
    BY <2>3 DEF NoteRtagStray
  <2> QED BY <1>11, <2>1, <2>2, <2>3 DEF GetStray
<1> QED BY <1>1, <1>2, <1>3, <1>4, <1>5, <1>6, <1>7, <1>8, <1>9, <1>10, <1>11
        DEF Next, PutStep, GetStep

-----------------------------------------------------------------------------
\* The directory.

DiskOK == /\ Directory(db, File \cup {Short})
          /\ Directory(rtag, Tag \cup {Empty})
          /\ Directory(wtag, Tag \cup {Empty})

\* A write through a mapping changes a file that exists and has its size.
LEMMA MappedWrite ==
    ASSUME Inv, wmap \in mapped, NEW new \in File,
           db' = [db EXCEPT ![wmap] = new]
    PROVE  /\ Directory(db', File \cup {Short})
           /\ \A i \in mapped : i \in DOMAIN db' /\ db'[i] \in File
<1>1. wmap \in DOMAIN db /\ db[wmap] \in File
  BY DEF Inv, ContentInv
<1>2. db' \in [DOMAIN db -> File \cup {Short}] /\ DOMAIN db' = DOMAIN db
  BY <1>1 DEF Inv, TypeOK, Directory
<1>3. \A i \in mapped : i \in DOMAIN db' /\ db'[i] \in File
  BY <1>1, <1>2 DEF Inv, ContentInv
<1> QED BY <1>2, <1>3 DEF Inv, TypeOK, Directory

\* So does a tag line that goes astray.
LEMMA ScribbledFiles ==
    ASSUME Inv, NEW tag, NEW fd, Scribbled(tag, fd)
    PROVE  /\ Directory(db', File \cup {Short})
           /\ \A i \in mapped : i \in DOMAIN db' /\ db'[i] \in File
<1>1. PICK f \in {rmap, wmap} \cap mapped, n \in Offset :
          db' = [db EXCEPT ![f] = WriteText(db[f], n)]
  BY DEF Scribbled
<1>2. f \in DOMAIN db /\ db[f] \in File
  BY DEF Inv, ContentInv
<1>3. WriteText(db[f], n) \in File
  BY <1>2 DEF WriteText, File, Cell, Text
<1>4. db' \in [DOMAIN db -> File \cup {Short}] /\ DOMAIN db' = DOMAIN db
  BY <1>1, <1>2, <1>3 DEF Inv, TypeOK, Directory
<1>5. \A i \in mapped : i \in DOMAIN db' /\ db'[i] \in File
  BY <1>1, <1>2, <1>3, <1>4 DEF Inv, ContentInv
<1> QED BY <1>4, <1>5 DEF Inv, TypeOK, Directory

\* The files stay well formed, and the mapped ones keep their size.
LEMMA DiskStep == ASSUME Inv, Next PROVE DiskOK' /\ ContentInv'
<1> USE DEF DiskOK, ContentInv
<1>0. DiskOK /\ ContentInv
  BY DEF Inv, TypeOK
<1>1. CASE \E len \in Lens : PutBegin(len)
  BY <1>0, <1>1 DEF PutBegin
<1>2. CASE GetBegin
  BY <1>0, <1>2 DEF GetBegin
<1>3. CASE GetNothing
  BY <1>0, <1>3 DEF GetNothing, vars
<1>4. CASE Create
  <2>0. ppc # "idle" /\ ppc \in Creating => mapped = IF ppc = "mk_open" THEN {1} ELSE {}
    BY DEF Inv, LifeInv
  <2>i. 1 \in Nat \ {0} /\ Empty \in Tag \cup {Empty} /\ Short \in File \cup {Short}
    OBVIOUS
  <2>1. CASE CreatNoSpace \/ CreatSpace \/ Wiped \/ MakeOpen
    BY <1>0, <2>1 DEF CreatNoSpace, CreatSpace, Wiped, MakeOpen
  <2>2. CASE Wipe
    <3>1. mapped' = {}
      BY <2>0, <2>2 DEF Wipe, Creating
    <3>2. CASE \E i \in DOMAIN db : db' = Without(db, i) /\ UNCHANGED <<rtag, wtag>>
      <4>1. PICK i \in DOMAIN db : db' = Without(db, i)
        BY <3>2
      <4>2. Directory(Without(db, i), File \cup {Short})
        BY <1>0, WithoutDirectory
      <4> QED BY <1>0, <3>1, <3>2, <4>1, <4>2
    <3>3. CASE \E i \in DOMAIN rtag : rtag' = Without(rtag, i) /\ UNCHANGED <<db, wtag>>
      <4>1. PICK i \in DOMAIN rtag : rtag' = Without(rtag, i)
        BY <3>3
      <4>2. Directory(Without(rtag, i), Tag \cup {Empty})
        BY <1>0, WithoutDirectory
      <4> QED BY <1>0, <3>1, <3>3, <4>1, <4>2
    <3>4. CASE \E i \in DOMAIN wtag : wtag' = Without(wtag, i) /\ UNCHANGED <<db, rtag>>
      <4>1. PICK i \in DOMAIN wtag : wtag' = Without(wtag, i)
        BY <3>4
      <4>2. Directory(Without(wtag, i), Tag \cup {Empty})
        BY <1>0, WithoutDirectory
      <4> QED BY <1>0, <3>1, <3>4, <4>1, <4>2
    <3> QED BY <2>2, <3>2, <3>3, <3>4 DEF Wipe
  <2>3. CASE MakeRtag
    <3>1. Directory(Created(rtag, 1, Empty), Tag \cup {Empty})
      BY <1>0, <2>i, CreatedDirectory
    <3> QED BY <1>0, <2>3, <3>1 DEF MakeRtag
  <2>4. CASE MakeWtag
    <3>1. Directory(Created(wtag, 1, Empty), Tag \cup {Empty})
      BY <1>0, <2>i, CreatedDirectory
    <3> QED BY <1>0, <2>4, <3>1 DEF MakeWtag
  <2>5. CASE MakeDb
    <3>1. mapped' = {1}
      BY <2>0, <2>5 DEF MakeDb, Creating
    <3>2. Directory(db', File \cup {Short}) /\ 1 \in DOMAIN db' /\ db'[1] \in File
      <4>1. db' = Extended(db, 1)
        BY <2>5 DEF MakeDb
      <4>2. /\ Directory(Extended(db, 1), File \cup {Short})
            /\ DOMAIN Extended(db, 1) = DOMAIN db \cup {1}
            /\ Extended(db, 1)[1] \in File
        BY <1>0, <2>i, ExtendedDirectory
      <4> QED BY <4>1, <4>2
    <3>3. /\ Directory(TagWrite(rtag, 1, 0, 0), Tag \cup {Empty})
          /\ Directory(TagWrite(wtag, 1, 0, 0), Tag \cup {Empty})
      BY <1>0, ZeroValues, TagWriteDirectory
    <3> QED BY <2>5, <3>1, <3>2, <3>3 DEF MakeDb
  <2>6. CASE MakeFails
    <3>1. mapped' = {}
      BY <2>0, <2>6 DEF MakeFails, Creating
    <3>2. Directory(With(db, 1, Short), File \cup {Short})
      BY <1>0, <2>i, WithDirectory
    <3>3. Directory(Extended(db, 1), File \cup {Short})
      BY <1>0, <2>i, ExtendedDirectory
    <3>4. db' \in {db, With(db, 1, Short), Extended(db, 1)} /\ UNCHANGED <<rtag, wtag>>
      BY <2>6 DEF MakeFails
    <3> QED BY <1>0, <3>1, <3>2, <3>3, <3>4
  <2> QED BY <1>4, <2>1, <2>2, <2>3, <2>4, <2>5, <2>6 DEF Create
<1>5. CASE WriteMsg
  <2>0. ppc # "idle" => pmsg \in Message /\ wpos \in Nat
    BY DEF Inv, TypeOK
  <2>1. CASE PutFull \/ PutNotFull \/ PutFits \/ WritePos \/ LoadPutNum \/ IncPutNum
    BY <1>0, <2>1 DEF PutFull, PutNotFull, PutFits, WritePos, LoadPutNum, IncPutNum
  <2>2. CASE PutOverflows
    <3>1. CASE wmap = NoMap
      BY <1>0, <2>2, <3>1 DEF PutOverflows
    <3>2. CASE wmap # NoMap
      <4>1. wmap \in mapped /\ db' = [db EXCEPT ![wmap] = WriteFileHead(db[wmap])]
        BY <2>2, <3>2 DEF PutOverflows
      <4>2. WriteFileHead(db[wmap]) \in File
        BY <1>0, <2>0, <2>2, <4>1, WrittenFile DEF PutOverflows
      <4> QED BY <1>0, <2>2, <4>1, <4>2, MappedWrite DEF PutOverflows
    <3> QED BY <3>1, <3>2
  <2>3. CASE WriteHead
    <3>1. WriteMsgHead(db[wmap], wpos, pmsg) \in File
      BY <1>0, <2>0, <2>3, WrittenFile DEF WriteHead
    <3> QED BY <1>0, <2>3, <3>1, MappedWrite DEF WriteHead
  <2>4. CASE WriteBody
    <3>1. WriteMsgBody(db[wmap], wpos, pmsg) \in File
      BY <1>0, <2>0, <2>4, WrittenFile DEF WriteBody
    <3> QED BY <1>0, <2>4, <3>1, MappedWrite DEF WriteBody
  <2>5. CASE PutReturn
    <3>1. Directory(TagWrite(wtag, wtag_fd, put_num, wpos), Tag \cup {Empty})
      BY <1>0, TagWriteDirectory DEF Inv, TypeOK
    <3> QED BY <1>0, <2>5, <3>1 DEF PutReturn
  <2> QED BY <1>5, <2>1, <2>2, <2>3, <2>4, <2>5 DEF WriteMsg
<1>6. CASE NextWrite
  <2>0. widx + 1 \in Nat \ {0}
    BY DEF Inv, TypeOK
  <2>1. CASE NextWriteNoSpace \/ NextWriteLock \/ NextWriteNoWtag \/ NextWritePos \/ NextWriteIndex
    BY <1>0, <2>1 DEF NextWriteNoSpace, NextWriteLock, NextWriteNoWtag,
                      NextWritePos, NextWriteIndex
  <2>2. CASE NextWriteWtag
    <3>1. Directory(Created(wtag, widx + 1, Empty), Tag \cup {Empty})
      BY <1>0, <2>0, CreatedDirectory
    <3> QED BY <1>0, <2>2, <3>1 DEF NextWriteWtag
  <2>3. CASE NextWriteDb
    <3>1. /\ Directory(db', File \cup {Short})
          /\ DOMAIN db' = DOMAIN db \cup {widx + 1}
          /\ db'[widx + 1] \in File
          /\ \A j \in DOMAIN db : j # widx + 1 => db'[j] = db[j]
      BY <1>0, <2>0, <2>3, ExtendedDirectory DEF NextWriteDb
    <3>2. mapped' = mapped \cup {widx + 1} /\ UNCHANGED <<rtag, wtag>>
      BY <2>3 DEF NextWriteDb
    <3> QED BY <1>0, <3>1, <3>2
  <2>4. CASE NextWriteNoDb
    <3>1. /\ Directory(Created(db, widx + 1, Short), File \cup {Short})
          /\ DOMAIN db \subseteq DOMAIN Created(db, widx + 1, Short)
          /\ \A j \in DOMAIN db : Created(db, widx + 1, Short)[j] = db[j]
      BY <1>0, <2>0, CreatedDirectory
    <3>2. /\ Directory(Extended(db, widx + 1), File \cup {Short})
          /\ DOMAIN Extended(db, widx + 1) = DOMAIN db \cup {widx + 1}
          /\ Extended(db, widx + 1)[widx + 1] \in File
          /\ \A j \in DOMAIN db : j # widx + 1 => Extended(db, widx + 1)[j] = db[j]
      BY <1>0, <2>0, ExtendedDirectory
    <3>3. /\ db' \in {db, Created(db, widx + 1, Short), Extended(db, widx + 1)}
          /\ UNCHANGED <<mapped, rtag, wtag>>
      BY <2>4 DEF NextWriteNoDb
    <3> QED BY <1>0, <3>1, <3>2, <3>3
  <2>5. CASE NextWriteHead
    <3>1. WriteFileHead(db[wmap]) \in File
      BY <1>0, <2>5, WrittenFile DEF NextWriteHead, Inv, TypeOK
    <3>2. Directory(TagWrite(wtag, wtag_fd, put_num, wpos), Tag \cup {Empty})
      BY <1>0, TagWriteDirectory DEF Inv, TypeOK
    <3> QED BY <1>0, <2>5, <3>1, <3>2, MappedWrite DEF NextWriteHead
  <2>6. CASE NextWriteUnlink
    BY <1>0, <2>6, WithoutDirectory DEF NextWriteUnlink
  <2> QED BY <1>6, <2>1, <2>2, <2>3, <2>4, <2>5, <2>6 DEF NextWrite
<1>7. CASE GetData
  <2>1. CASE NoteRtag
    <3>1. Directory(TagWrite(rtag, rtag_fd, get_num, rpos), Tag \cup {Empty})
      BY <1>0, TagWriteDirectory DEF Inv, TypeOK
    <3> QED BY <1>0, <2>1, <3>1 DEF NoteRtag
  <2>2. CASE ~ NoteRtag
    BY <1>0, <1>7, <2>2 DEF GetData, EndIndex, EndPos, EndReset, ParseOk,
            ParseSkip, ParseBeyond, WrapGetNum, NoWrap, WrapLoad, WrapPutNum,
            GetReturn
  <2> QED BY <2>1, <2>2
<1>8. CASE NextRead
  <2>1. CASE NextReadEnd \/ NextReadLock \/ NextReadNoRtag
    BY <1>0, <2>1 DEF NextReadEnd, NextReadLock, NextReadNoRtag
  <2>2. CASE NextReadRtag
    <3>1. Directory(Created(rtag, ridx + 1, Empty), Tag \cup {Empty})
      BY <1>0, CreatedDirectory DEF Inv, TypeOK
    <3> QED BY <1>0, <2>2, <3>1 DEF NextReadRtag
  <2>3. CASE NextReadNote
    <3>1. Directory(TagWrite(rtag, rtag_fd, get_num, FileHead), Tag \cup {Empty})
      BY <1>0, LayoutAssumption, TagWriteDirectory DEF Inv, TypeOK
    <3> QED BY <1>0, <2>3, <3>1 DEF NextReadNote
  <2>4. CASE NextReadUnlink
    BY <1>0, <2>4, WithoutDirectory DEF NextReadUnlink
  <2>5. CASE NextReadShare \/ NextReadMap \/ NextReadNoMap
    <3>1. UNCHANGED <<rtag, wtag>> /\ db' = Without(db, ridx - 1)
      BY <2>5 DEF NextReadShare, NextReadMap, NextReadNoMap
    <3>2. /\ Directory(db', File \cup {Short})
          /\ DOMAIN db' = DOMAIN db \ {ridx - 1}
          /\ \A j \in DOMAIN db : j # ridx - 1 => db'[j] = db[j]
      BY <1>0, <3>1, WithoutDirectory
    <3>3. \A i \in mapped \ {rmap} : i # ridx - 1
      <4>1. cpc = "r_map" /\ open
        BY <2>5 DEF NextReadShare, NextReadMap, NextReadNoMap, Inv, LifeInv
      <4>2. mapped \ {rmap} \subseteq {wmap} /\ 0 \notin mapped
        BY <4>1 DEF Inv, TypeOK, MappedInv
      <4>3. wmap = 0 \/ wmap > ridx - 1
        BY <4>1 DEF Inv, TypeOK, IndexInv, WriteFile, NoMap
      <4> QED BY <4>2, <4>3 DEF Inv, TypeOK
    <3>4. CASE NextReadMap
      <4>1. ridx \in DOMAIN db /\ db[ridx] \in File /\ ridx # ridx - 1
        <5>1. ridx \in DOMAIN db /\ db[ridx] # Short
          BY <3>4 DEF NextReadMap, Mappable
        <5>2. db[ridx] \in File
          BY <1>0, <5>1 DEF Directory
        <5>3. ridx \in Nat
          BY DEF Inv, TypeOK
        <5> QED BY <5>1, <5>2, <5>3
      <4> QED BY <1>0, <3>1, <3>2, <3>3, <3>4, <4>1 DEF NextReadMap
    <3>5. CASE ~ NextReadMap
      <4>1. mapped' = mapped \ {rmap}
        BY <2>5, <3>5 DEF NextReadShare, NextReadNoMap
      <4> QED BY <1>0, <3>1, <3>2, <3>3, <4>1
    <3> QED BY <3>4, <3>5
  <2> QED BY <1>8, <2>1, <2>2, <2>3, <2>4, <2>5 DEF NextRead
<1>9. CASE Process
  <2>1. CASE Close \/ Crash \/ Segv
    BY <1>0, <2>1 DEF Close, Crash, Segv, Stop
  <2>2. CASE OpenQueue
    <3>1. PICK rt \in DOMAIN rtag, wt \in DOMAIN wtag :
              Openable(rt, wt) /\ mapped' = {rt, wt}
      BY <2>2 DEF OpenQueue
    <3>2. UNCHANGED disk
      BY <2>2 DEF OpenQueue
    <3> QED BY <1>0, <3>1, <3>2 DEF Openable, Mappable, Directory
  <2>3. CASE OpenWithout
    BY <1>0, <2>3 DEF OpenWithout
  <2> QED BY <1>9, <2>1, <2>2, <2>3 DEF Process
<1>10. CASE PutStray
  <2>1. CASE NextWriteLockStray
    BY <1>0, <2>1 DEF NextWriteLockStray
  <2>2. CASE PutReturnStray
    BY <1>0, <2>2, ScribbledFiles DEF PutReturnStray
  <2> QED BY <1>10, <2>1, <2>2 DEF PutStray
<1>11. CASE GetStray
  <2>1. CASE NextReadUnlinkStray
    BY <1>0, <2>1, WithoutDirectory DEF NextReadUnlinkStray
  <2>2. CASE NoteRtagStray
    BY <1>0, <2>2, ScribbledFiles DEF NoteRtagStray
  <2>3. CASE NextReadMapStray
    <3>1. UNCHANGED <<rtag, wtag>> /\ db' = Without(db, ridx - 1)
      BY <2>3 DEF NextReadMapStray
    <3>2. /\ Directory(db', File \cup {Short})
          /\ DOMAIN db' = DOMAIN db \ {ridx - 1}
          /\ \A j \in DOMAIN db : j # ridx - 1 => db'[j] = db[j]
      BY <1>0, <3>1, WithoutDirectory
    <3>3. \A i \in mapped \ {rmap} : i # ridx - 1
      <4>1. cpc = "r_map" /\ open
        BY <2>3 DEF NextReadMapStray, Inv, LifeInv
      <4>2. mapped \ {rmap} \subseteq {wmap} /\ 0 \notin mapped
        BY <4>1 DEF Inv, TypeOK, MappedInv
      <4>3. wmap = 0 \/ wmap > ridx - 1
        BY <4>1 DEF Inv, TypeOK, IndexInv, WriteFile, NoMap
      <4> QED BY <4>2, <4>3 DEF Inv, TypeOK
    <3>4. CASE Mappable(ridx) /\ mapped' = (mapped \ {rmap}) \cup {ridx}
      <4>1. ridx \in DOMAIN db /\ db[ridx] \in File
        BY <1>0, <3>4 DEF Mappable, Directory
      <4>2. ridx # ridx - 1
        BY DEF Inv, TypeOK
      <4> QED BY <1>0, <3>1, <3>2, <3>3, <3>4, <4>1, <4>2
    <3>5. CASE mapped' = mapped \ {rmap}
      BY <1>0, <3>1, <3>2, <3>3, <3>5
    <3> QED BY <2>3, <3>4, <3>5 DEF NextReadMapStray
  <2> QED BY <1>11, <2>1, <2>2, <2>3 DEF GetStray
<1> QED BY <1>1, <1>2, <1>3, <1>4, <1>5, <1>6, <1>7, <1>8, <1>9, <1>10, <1>11
        DEF Next, PutStep, GetStep

\* Every field keeps its range.
LEMMA TypeStep == ASSUME Inv, Next PROVE TypeOK'
<1> USE DEF Inv, TypeOK, DiskOK, PutPc, GetPc, NoMap, NoFd
<1>0. DiskOK'
  BY DiskStep
<1>1. ASSUME NEW len \in Lens, PutBegin(len) PROVE TypeOK'
  <2>1. pmsg' \in Message
    BY <1>1, StoreAssumption DEF PutBegin, Message
  <2> QED BY <1>0, <1>1, <2>1 DEF PutBegin
<1>2. CASE GetBegin
  BY <1>0, <1>2 DEF GetBegin
<1>3. CASE GetNothing
  BY <1>3 DEF GetNothing, vars
<1>4. CASE Create
  <2>1. CASE CreatNoSpace
    BY <1>0, <2>1, ZeroValues DEF CreatNoSpace
  <2>2. CASE CreatSpace
    BY <1>0, <2>2, ZeroValues DEF CreatSpace
  <2>3. CASE Wipe
    BY <1>0, <2>3, ZeroValues DEF Wipe
  <2>4. CASE Wiped
    BY <1>0, <2>4, ZeroValues DEF Wiped
  <2>5. CASE MakeRtag
    BY <1>0, <2>5, ZeroValues DEF MakeRtag
  <2>6. CASE MakeWtag
    BY <1>0, <2>6, ZeroValues DEF MakeWtag
  <2>7. CASE MakeDb
    <3>1. mapped' \subseteq Nat \ {0}
      BY <2>7 DEF MakeDb
    <3> QED BY <1>0, <2>7, <3>1, ZeroValues DEF MakeDb
  <2>8. CASE MakeFails
    <3>1. nfault' \in Nat /\ UNCHANGED <<up, nput, ncrash, nclose>>
      BY <2>8 DEF MakeFails
    <3> QED BY <1>0, <2>8, <3>1, ZeroValues DEF MakeFails
  <2>9. CASE MakeOpen
    BY <1>0, <2>9, ZeroValues, LayoutAssumption DEF MakeOpen
  <2> QED BY <1>4, <2>1, <2>2, <2>3, <2>4, <2>5, <2>6, <2>7, <2>8, <2>9
          DEF Create
<1>5. CASE WriteMsg
  <2>1. CASE PutFull
    BY <1>0, <2>1, ZeroValues DEF PutFull
  <2>2. CASE PutNotFull
    BY <1>0, <2>2, ZeroValues DEF PutNotFull
  <2>3. CASE PutFits
    BY <1>0, <2>3, ZeroValues DEF PutFits
  <2>4. CASE PutOverflows
    BY <1>0, <2>4, ZeroValues DEF PutOverflows
  <2>5. CASE WriteHead
    BY <1>0, <2>5, ZeroValues DEF WriteHead
  <2>6. CASE WriteBody
    BY <1>0, <2>6, ZeroValues DEF WriteBody
  <2>7. CASE WritePos
    <3>1. wpos' \in Nat
      BY <2>7, RecordLenNat DEF WritePos
    <3> QED BY <1>0, <2>7, <3>1, ZeroValues DEF WritePos
  <2>8. CASE LoadPutNum
    BY <1>0, <2>8, ZeroValues DEF LoadPutNum
  <2>9. CASE IncPutNum
    <3>1. put_num' \in 0..(Wide - 1) /\ sent' \in Seq(Message)
      BY <2>9, U64Range DEF IncPutNum
    <3> QED BY <1>0, <2>9, <3>1, ZeroValues DEF IncPutNum
  <2>10. CASE PutReturn
    BY <1>0, <2>10, ZeroValues DEF PutReturn
  <2> QED BY <1>5, <2>1, <2>2, <2>3, <2>4, <2>5, <2>6, <2>7, <2>8, <2>9, <2>10
          DEF WriteMsg
<1>6. CASE NextWrite
  <2>1. CASE NextWriteNoSpace
    BY <1>0, <2>1, ZeroValues DEF NextWriteNoSpace
  <2>2. CASE NextWriteLock
    BY <1>0, <2>2, ZeroValues DEF NextWriteLock
  <2>3. CASE NextWriteWtag
    <3>1. stale' \subseteq {"num", "rtag", "wtag"}
      BY <2>3 DEF NextWriteWtag, Reopened
    <3> QED BY <1>0, <2>3, <3>1, ZeroValues DEF NextWriteWtag
  <2>4. CASE NextWriteNoWtag
    BY <1>0, <2>4, ZeroValues DEF NextWriteNoWtag
  <2>5. CASE NextWriteDb
    <3>1. mapped' \subseteq Nat \ {0} /\ wmap' \in Nat
      BY <2>5 DEF NextWriteDb
    <3> QED BY <1>0, <2>5, <3>1, ZeroValues DEF NextWriteDb
  <2>6. CASE NextWriteNoDb
    BY <1>0, <2>6, ZeroValues DEF NextWriteNoDb
  <2>7. CASE NextWritePos
    BY <1>0, <2>7, ZeroValues, LayoutAssumption DEF NextWritePos
  <2>8. CASE NextWriteIndex
    BY <1>0, <2>8, ZeroValues DEF NextWriteIndex
  <2>9. CASE NextWriteHead
    BY <1>0, <2>9, ZeroValues DEF NextWriteHead
  <2>10. CASE NextWriteUnlink
    BY <1>0, <2>10, ZeroValues DEF NextWriteUnlink
  <2> QED BY <1>6, <2>1, <2>2, <2>3, <2>4, <2>5, <2>6, <2>7, <2>8, <2>9, <2>10
          DEF NextWrite
<1>7. CASE GetData
  <2>1. CASE EndIndex
    BY <1>0, <2>1, ZeroValues DEF EndIndex
  <2>2. CASE EndPos
    BY <1>0, <2>2, ZeroValues DEF EndPos
  <2>3. CASE EndReset
    BY <1>0, <2>3, ZeroValues DEF EndReset
  <2>4. CASE ParseOk
    <3>1. db[rmap] \in File /\ rpos \in Offset
      BY <2>4, LayoutAssumption DEF ParseOk, Parsed, ParseMsg, ContentInv, Offset
    <3>2. MsgAt(db[rmap], rpos) \in Message
      BY <3>1 DEF MsgAt, File, Cell, Message
    <3>3. rpos' \in Nat /\ cmsg' \in Message
      <4>1. cmsg' \in Message /\ rpos' = rpos + RecordLen(cmsg')
        BY <2>4, <3>2 DEF ParseOk
      <4>2. RecordLen(cmsg') \in Nat
        BY <4>1, RecordLenNat
      <4> QED BY <4>1, <4>2
    <3>4. get_num' \in 0..(Wide - 1)
      BY <2>4, U64Range DEF ParseOk
    <3>5. /\ UNCHANGED <<open, up, ridx, rmap, wdb, put_num, fds, mutex, mapped>>
          /\ UNCHANGED <<prod, cload, env, hist>> /\ cpc' = "wrap"
      BY <2>4 DEF ParseOk
    <3> QED BY <1>0, <3>3, <3>4, <3>5
  <2>5. CASE ParseSkip
    <3>1. rpos' \in Nat
      BY <2>5 DEF ParseSkip
    <3> QED BY <1>0, <2>5, <3>1, ZeroValues DEF ParseSkip
  <2>6. CASE ParseBeyond
    BY <1>0, <2>6, ZeroValues DEF ParseBeyond
  <2>7. CASE WrapGetNum
    <3>1. get_num' \in 0..(Wide - 1)
      BY <2>7, StoreAssumption, U64Range DEF WrapGetNum
    <3> QED BY <1>0, <2>7, <3>1, ZeroValues DEF WrapGetNum
  <2>8. CASE NoWrap
    BY <1>0, <2>8, ZeroValues DEF NoWrap
  <2>9. CASE WrapLoad
    BY <1>0, <2>9, ZeroValues DEF WrapLoad
  <2>10. CASE WrapPutNum
    <3>1. put_num' \in 0..(Wide - 1)
      BY <2>10, StoreAssumption, U64Range DEF WrapPutNum
    <3> QED BY <1>0, <2>10, <3>1, ZeroValues DEF WrapPutNum
  <2>11. CASE NoteRtag
    BY <1>0, <2>11, ZeroValues DEF NoteRtag
  <2>12. CASE GetReturn
    BY <1>0, <2>12, ZeroValues DEF GetReturn
  <2> QED BY <1>7, <2>1, <2>2, <2>3, <2>4, <2>5, <2>6, <2>7, <2>8, <2>9, <2>10, <2>11, <2>12
          DEF GetData
<1>8. CASE NextRead
  <2>1. CASE NextReadEnd
    BY <1>0, <2>1, ZeroValues DEF NextReadEnd
  <2>2. CASE NextReadLock
    BY <1>0, <2>2, ZeroValues DEF NextReadLock
  <2>3. CASE NextReadRtag
    <3>1. stale' \subseteq {"num", "rtag", "wtag"}
      BY <2>3 DEF NextReadRtag, Reopened
    <3> QED BY <1>0, <2>3, <3>1, ZeroValues DEF NextReadRtag
  <2>4. CASE NextReadNoRtag
    BY <1>0, <2>4, ZeroValues DEF NextReadNoRtag
  <2>5. CASE NextReadNote
    BY <1>0, <2>5, ZeroValues, LayoutAssumption DEF NextReadNote
  <2>6. CASE NextReadUnlink
    BY <1>0, <2>6, ZeroValues DEF NextReadUnlink
  <2>7. CASE NextReadShare
    BY <1>0, <2>7, ZeroValues DEF NextReadShare
  <2>8. CASE NextReadMap
    <3>1. mapped' \subseteq Nat \ {0}
      BY <2>8 DEF NextReadMap, Mappable, Directory
    <3> QED BY <1>0, <2>8, <3>1, ZeroValues DEF NextReadMap
  <2>9. CASE NextReadNoMap
    <3>1. nfault' \in Nat /\ UNCHANGED <<up, nput, ncrash, nclose>>
      BY <2>9 DEF NextReadNoMap
    <3> QED BY <1>0, <2>9, <3>1, ZeroValues DEF NextReadNoMap
  <2> QED BY <1>8, <2>1, <2>2, <2>3, <2>4, <2>5, <2>6, <2>7, <2>8, <2>9
          DEF NextRead
<1>9. CASE Process
  <2>1. CASE Close \/ Crash \/ Segv
    <3>1. /\ nput' \in Nat /\ nfault' \in Nat
          /\ ncrash' \in Nat /\ nclose' \in Nat
      <4>1. nput' = nput /\ nfault' = nfault
        BY <2>1 DEF Close, Crash, Segv
      <4>2. ncrash' \in {ncrash, ncrash + 1} /\ nclose' \in {nclose, nclose + 1}
        BY <2>1 DEF Close, Crash, Segv
      <4> QED BY <4>1, <4>2
    <3>2. Stop
      BY <2>1 DEF Close, Crash, Segv
    <3> QED BY <1>0, <3>1, <3>2, ZeroValues DEF Stop
  <2>2. CASE OpenQueue
    <3>1. PICK rt \in DOMAIN rtag, wt \in DOMAIN wtag :
              /\ Openable(rt, wt)
              /\ up' = TRUE /\ open' = TRUE
              /\ ridx' = rt /\ rpos' = rtag[rt].pos /\ get_num' = rtag[rt].num
              /\ widx' = wt /\ wpos' = wtag[wt].pos /\ put_num' = wtag[wt].num
              /\ rmap' = rt /\ wmap' = wt /\ mapped' = {rt, wt}
              /\ rtag_fd' = rt /\ wtag_fd' = wt /\ stale' = {}
      BY <2>2 DEF OpenQueue
    <3>2. rt \in Nat \ {0} /\ wt \in Nat \ {0} /\ rtag[rt] \in Tag /\ wtag[wt] \in Tag
      BY <3>1 DEF Openable, Directory
    <3>3. /\ rtag[rt].pos \in Nat /\ rtag[rt].num \in 0..(Wide - 1)
          /\ wtag[wt].pos \in Nat /\ wtag[wt].num \in 0..(Wide - 1)
      BY <3>2 DEF Tag
    <3>4. UNCHANGED <<mutex, prod, cons, nput, nfault, ncrash, nclose, hist>>
      BY <2>2 DEF OpenQueue
    <3> QED BY <1>0, <3>1, <3>2, <3>3, <3>4
  <2>3. CASE OpenWithout
    <3>1. nfault' \in Nat
      BY <2>3 DEF OpenWithout
    <3>2. /\ up' \in BOOLEAN
          /\ UNCHANGED <<mem, mutex, mapped, prod, cons, nput, ncrash, nclose, hist>>
      BY <2>3 DEF OpenWithout
    <3> QED BY <1>0, <3>1, <3>2
  <2> QED BY <1>9, <2>1, <2>2, <2>3 DEF Process
<1>10. CASE PutStray
  <2>1. CASE NextWriteLockStray
    BY <1>0, <2>1, ZeroValues DEF NextWriteLockStray, TakenAway
  <2>2. CASE PutReturnStray
    BY <1>0, <2>2, ZeroValues DEF PutReturnStray
  <2> QED BY <1>10, <2>1, <2>2 DEF PutStray
<1>11. CASE GetStray
  <2>1. CASE NextReadUnlinkStray
    BY <1>0, <2>1, ZeroValues DEF NextReadUnlinkStray, TakenAway
  <2>2. CASE NoteRtagStray
    BY <1>0, <2>2, ZeroValues DEF NoteRtagStray
  <2>3. CASE NextReadMapStray
    <3>1. mapped' \subseteq Nat \ {0} /\ rmap' \in Nat
      BY <2>3 DEF NextReadMapStray, Mappable, Directory
    <3> QED BY <1>0, <2>3, <3>1, ZeroValues DEF NextReadMapStray, TakenAway
  <2> QED BY <1>11, <2>1, <2>2, <2>3 DEF GetStray
<1> QED BY <1>1, <1>2, <1>3, <1>4, <1>5, <1>6, <1>7, <1>8, <1>9, <1>10, <1>11
        DEF Next, PutStep, GetStep

-----------------------------------------------------------------------------
\* The theorems.

\* The initial state satisfies the invariant.
LEMMA InitInv == Init => Inv
<1> SUFFICES ASSUME Init PROVE Inv
  OBVIOUS
<1> USE DEF Init, NoMap, NoFd
<1>1. TypeOK
  <2>1. DiskOK
    BY DEF DiskOK, Directory
  <2>2. << >> \in Seq(Message)
    OBVIOUS
  <2>3. ppc \in PutPc /\ cpc \in GetPc
    BY DEF PutPc, GetPc
  <2> QED BY <2>1, <2>2, <2>3, ZeroValues DEF TypeOK, DiskOK
<1>2. MutexInv
  BY DEF MutexInv, PutHolds, GetHolds
<1>3. LifeInv
  BY DEF LifeInv, Creating
<1>4. IndexInv /\ MappedInv /\ ContentInv
  BY DEF IndexInv, MappedInv, ContentInv
<1> QED BY <1>1, <1>2, <1>3, <1>4 DEF Inv

\* So does every state a step leads to.
LEMMA NextInv == Inv /\ [Next]_vars => Inv'
<1> SUFFICES ASSUME Inv, [Next]_vars PROVE Inv'
  OBVIOUS
<1>1. CASE Next
  BY <1>1, TypeStep, MutexStep, LifeStep, IndexStep, MappedStep, DiskStep DEF Inv
<1>2. CASE UNCHANGED vars
  BY <1>2 DEF vars, Inv, TypeOK, MutexInv, LifeInv, IndexInv, MappedInv,
              ContentInv, ReadFile, WriteFile
<1> QED BY <1>1, <1>2

\* TypeOK and the control invariants hold in every reachable state.
THEOREM Invariance == Spec => []Inv
  BY InitInv, NextInv, PTL DEF Spec

\* Every field of the queue, the contents of its files and the state of the
\* two threads keep their types whatever calls fail and wherever the process
\* is killed; in particular no write goes through the mapping of a file that
\* get_next_read_file has removed, and the counters stay in their width.
THEOREM TypeCorrect == Spec => []TypeOK
<1>1. Inv => TypeOK
  BY DEF Inv
<1> QED BY <1>1, Invariance, PTL

\* get_next_write_file can open the files it creates.
WriteFilesOpen == Faults \cap {"wtag", "db"} = {}

\* Then a rotation never takes a mapping from the other thread.
LEMMA HeldStep == ASSUME Inv, HeldInv, Next, WriteFilesOpen PROVE HeldInv'
<1> USE DEF Inv, HeldInv, TypeOK, LifeInv, MutexInv, IndexInv, MappedInv,
            Creating, PutHolds, GetHolds, ReadFile, WriteFile, NoMap
<1>1. CASE \E len \in Lens : PutBegin(len)
  BY <1>1 DEF PutBegin
<1>2. CASE GetBegin
  BY <1>2 DEF GetBegin
<1>3. CASE GetNothing
  BY <1>3 DEF GetNothing, vars
<1>4. CASE Create
  <2>1. CASE CreatNoSpace
    BY <2>1 DEF CreatNoSpace
  <2>2. CASE CreatSpace
    BY <2>2 DEF CreatSpace
  <2>3. CASE Wipe
    BY <2>3 DEF Wipe
  <2>4. CASE Wiped
    BY <2>4 DEF Wiped
  <2>5. CASE MakeRtag
    BY <2>5 DEF MakeRtag
  <2>6. CASE MakeWtag
    BY <2>6 DEF MakeWtag
  <2>7. CASE MakeDb
    BY <2>7 DEF MakeDb
  <2>8. CASE MakeFails
    BY <2>8 DEF MakeFails
  <2>9. CASE MakeOpen
    BY <2>9 DEF MakeOpen
  <2> QED BY <1>4, <2>1, <2>2, <2>3, <2>4, <2>5, <2>6, <2>7, <2>8, <2>9
          DEF Create
<1>5. CASE WriteMsg
  <2>1. CASE PutFull
    BY <2>1 DEF PutFull
  <2>2. CASE PutNotFull
    BY <2>2 DEF PutNotFull
  <2>3. CASE PutFits
    BY <2>3 DEF PutFits
  <2>4. CASE PutOverflows
    BY <2>4 DEF PutOverflows
  <2>5. CASE WriteHead
    BY <2>5 DEF WriteHead
  <2>6. CASE WriteBody
    BY <2>6 DEF WriteBody
  <2>7. CASE WritePos
    BY <2>7 DEF WritePos
  <2>8. CASE LoadPutNum
    BY <2>8 DEF LoadPutNum
  <2>9. CASE IncPutNum
    BY <2>9 DEF IncPutNum
  <2>10. CASE PutReturn
    BY <2>10 DEF PutReturn
  <2> QED BY <1>5, <2>1, <2>2, <2>3, <2>4, <2>5, <2>6, <2>7, <2>8, <2>9, <2>10
          DEF WriteMsg
<1>6. CASE NextWrite
  <2>1. CASE NextWriteNoSpace
    BY <2>1 DEF NextWriteNoSpace
  <2>2. CASE NextWriteLock
    BY <2>2 DEF NextWriteLock
  <2>3. CASE NextWriteWtag
    BY <2>3 DEF NextWriteWtag
  <2>4. CASE NextWriteNoWtag
    BY <2>4 DEF NextWriteNoWtag, WriteFilesOpen
  <2>5. CASE NextWriteDb
    BY <2>5 DEF NextWriteDb
  <2>6. CASE NextWriteNoDb
    BY <2>6 DEF NextWriteNoDb, WriteFilesOpen
  <2>7. CASE NextWritePos
    BY <2>7 DEF NextWritePos
  <2>8. CASE NextWriteIndex
    BY <2>8 DEF NextWriteIndex
  <2>9. CASE NextWriteHead
    BY <2>9 DEF NextWriteHead
  <2>10. CASE NextWriteUnlink
    BY <2>10 DEF NextWriteUnlink
  <2> QED BY <1>6, <2>1, <2>2, <2>3, <2>4, <2>5, <2>6, <2>7, <2>8, <2>9, <2>10
          DEF NextWrite
<1>7. CASE GetData
  <2>1. CASE EndIndex
    BY <2>1 DEF EndIndex
  <2>2. CASE EndPos
    BY <2>2 DEF EndPos
  <2>3. CASE EndReset
    BY <2>3 DEF EndReset
  <2>4. CASE ParseOk
    BY <2>4 DEF ParseOk
  <2>5. CASE ParseSkip
    BY <2>5 DEF ParseSkip
  <2>6. CASE ParseBeyond
    BY <2>6 DEF ParseBeyond
  <2>7. CASE WrapGetNum
    BY <2>7 DEF WrapGetNum
  <2>8. CASE NoWrap
    BY <2>8 DEF NoWrap
  <2>9. CASE WrapLoad
    BY <2>9 DEF WrapLoad
  <2>10. CASE WrapPutNum
    BY <2>10 DEF WrapPutNum
  <2>11. CASE NoteRtag
    BY <2>11 DEF NoteRtag
  <2>12. CASE GetReturn
    BY <2>12 DEF GetReturn
  <2> QED BY <1>7, <2>1, <2>2, <2>3, <2>4, <2>5, <2>6, <2>7, <2>8, <2>9, <2>10, <2>11, <2>12
          DEF GetData
<1>8. CASE NextRead
  <2>1. CASE NextReadEnd
    BY <2>1 DEF NextReadEnd
  <2>2. CASE NextReadLock
    BY <2>2 DEF NextReadLock
  <2>3. CASE NextReadRtag
    BY <2>3 DEF NextReadRtag
  <2>4. CASE NextReadNoRtag
    BY <2>4 DEF NextReadNoRtag
  <2>5. CASE NextReadNote
    BY <2>5 DEF NextReadNote
  <2>6. CASE NextReadUnlink
    BY <2>6 DEF NextReadUnlink
  <2>7. CASE NextReadShare
    BY <2>7 DEF NextReadShare
  <2>8. CASE NextReadMap
    BY <2>8 DEF NextReadMap
  <2>9. CASE NextReadNoMap
    BY <2>9 DEF NextReadNoMap
  <2> QED BY <1>8, <2>1, <2>2, <2>3, <2>4, <2>5, <2>6, <2>7, <2>8, <2>9
          DEF NextRead
<1>9. CASE Process
  BY <1>9 DEF Process, Close, Crash, Segv, Stop, OpenQueue, OpenWithout
<1>10. CASE PutStray
  <2>1. CASE NextWriteLockStray
    BY <2>1 DEF NextWriteLockStray
  <2>2. CASE PutReturnStray
    BY <2>2 DEF PutReturnStray
  <2> QED BY <1>10, <2>1, <2>2 DEF PutStray
<1>11. CASE GetStray
  <2>1. CASE NextReadUnlinkStray
    BY <2>1 DEF NextReadUnlinkStray
  <2>2. CASE NextReadMapStray
    BY <2>2 DEF NextReadMapStray
  <2>3. CASE NoteRtagStray
    BY <2>3 DEF NoteRtagStray
  <2> QED BY <1>11, <2>1, <2>2, <2>3 DEF GetStray
<1> QED BY <1>1, <1>2, <1>3, <1>4, <1>5, <1>6, <1>7, <1>8, <1>9, <1>10, <1>11
        DEF Next, PutStep, GetStep

\* Two threads without a lock never read or write through a mapping the other
\* one's file rotation has removed, for any number of messages, rotations,
\* closes and kills, and whatever else fails, as long as get_next_write_file
\* can open the files it creates (mq_store_file.c:263-279; when it cannot, the
\* code keeps a pointer to the mapping it has just removed).
THEOREM MapSafety == ASSUME WriteFilesOpen PROVE Spec => []MapSafe
<1>1. Init => HeldInv
  BY DEF Init, HeldInv
<1>2. Inv /\ HeldInv /\ [Next]_vars => HeldInv'
  <2> SUFFICES ASSUME Inv, HeldInv, [Next]_vars PROVE HeldInv'
    OBVIOUS
  <2>1. CASE Next
    BY <2>1, HeldStep
  <2>2. CASE UNCHANGED vars
    BY <2>2 DEF vars, HeldInv
  <2> QED BY <2>1, <2>2
<1>3. Inv /\ HeldInv => MapSafe
  BY DEF Inv, HeldInv, LifeInv, Creating, MapSafe, PutTouches, GetTouches
<1> QED BY <1>1, <1>2, <1>3, Invariance, PTL DEF Spec

-----------------------------------------------------------------------------
\* The contents of the files of a queue that is killed only while no file is
\* being changed: the directory is in order between calls, and a consumer that
\* takes no lock never meets a record that is half written.

\* Where a kill finds the directory as it is between calls: no put has begun to
\* write, no directory is being made, no rotation has created or removed a file.
QuietPut == {"idle", "creat", "lock"}
QuietGet == {"idle", "index", "end", "reset", "parse", "wrap", "load", "store", "rtag",
             "ret", "r_lock", "r_open"}

\* The process ends by mq_store_close or is killed at such places only, and
\* the rotations can create the files to write to and map the ones to read: an
\* error return after that leaves numbers of closed files in the queue.
Orderly == /\ WriteFilesOpen /\ "rdb" \notin Faults
           /\ MaxCrashes = 0 \/ CrashAt \subseteq QuietPut \cup QuietGet

-----------------------------------------------------------------------------
\* The invariant of the directory.

\* The tag files there are in the middle of a rotation.
RtagFiles == IF cpc = "r_write" THEN {ridx, ridx + 1}
             ELSE IF cpc = "r_unlink" THEN {ridx - 1, ridx} ELSE {ridx}
WtagFiles == IF ppc \in {"wdb", "wpos", "widx"} THEN {widx, widx + 1}
             ELSE IF ppc \in {"head", "unlink"} THEN {widx - 1, widx} ELSE {widx}

\* The queue has just been created, and the first put is under way.
Fresh == /\ ppc \in {"full", "fit"} /\ cpc = "idle"
         /\ put_num = 0 /\ get_num = 0 /\ pload = 0 /\ wpos = FileHead

\* While the queue is open, the files between the two indexes exist, with one
\* file of each tag, which is the one open for writing, and the last wtag line
\* has the position the next put writes to.
DataInv == open => DOMAIN db = ReadFile .. WriteFile
RtagInv ==
    open => /\ DOMAIN rtag = RtagFiles
            /\ rtag_fd \in (IF cpc = "r_write" THEN {ridx + 1} ELSE {NoFd, ridx})
            /\ cpc \in {"r_unlink", "r_map"} => rtag_fd = ridx
            /\ rtag[ridx] # Empty
WtagInv ==
    open => /\ DOMAIN wtag = WtagFiles
            /\ wtag_fd = IF ppc \in {"wdb", "wpos", "widx"} THEN widx + 1 ELSE widx
NotedInv ==
    open /\ ppc \in {"idle", "full", "fit", "lock"} =>
        \/ wtag[widx] # Empty /\ wtag[widx].pos = wpos
        \/ Fresh

\* Only full-sized files: none is left behind half made.
WholeInv == \A i \in DOMAIN db : db[i] \in File

\* A record begins here, and is there to its last byte.
Starts(f, o) == f[o][1] # 0 /\ f[o][3] = 0
Intact(f, o) == Fits(o, MsgAt(f, o)) /\ CrcOk(f, o)

\* The record the producer is copying.
InWork(i, o) == open /\ ppc = "body" /\ i = wmap /\ o = wpos

\* Every record but that one is intact, and none reaches into the file head.
RecordInv ==
    \A i \in DOMAIN db, o \in Offset :
        Starts(db[i], o) => o >= FileHead /\ (Intact(db[i], o) \/ InWork(i, o))

\* Nothing has been written behind the position.
Clear(f, pos) == \A o \in Offset : o >= pos => f[o][1] = 0

Frontier == CASE ppc = "body" -> wpos + MsgHead
              [] ppc = "pos"  -> wpos + RecordLen(pmsg)
              [] ppc = "wpos" -> 0
              [] OTHER        -> wpos

PlaceInv ==
    /\ ppc # "idle" => pmsg.id # 0 /\ ValidLen(pmsg.len)
    /\ open => /\ wpos >= FileHead
               /\ ppc \in {"widx", "head", "unlink"} => wpos = FileHead
               /\ ppc \in {"rec", "body", "pos"} => Fits(wpos, pmsg)

ClearInv ==
    open => /\ Clear(db[WriteFile], Frontier)
            /\ ppc = "body" => \A k \in 0 .. MsgHead - 1 :
                   db[wmap][wpos + k] = <<pmsg.id, pmsg.len, k>>

WriteInv == PlaceInv /\ ClearInv

\* The consumer parses behind the producer.
ParseInv ==
    open /\ cpc = "parse" /\ rmap # NoMap =>
        \/ rmap < WriteFile
        \/ rmap = WriteFile /\ rpos < wpos

\* What a queue that is not open has left in its directory: nothing that could
\* be opened, or all that mq_store_init needs.
Resting ==
    \/ DOMAIN db = {}
    \/ \E r \in DOMAIN rtag, w \in DOMAIN wtag :
          /\ r <= w /\ DOMAIN db = r .. w
          /\ DOMAIN rtag = {r} /\ DOMAIN wtag = {w}
          /\ rtag[r] # Empty /\ wtag[w] # Empty
          /\ wtag[w].pos >= FileHead /\ Clear(db[w], wtag[w].pos)

\* How a directory is made again.
MakeInv ==
    ~ open =>
        /\ ppc \in {"idle", "creat"} => Resting
        /\ ppc \in {"mk_rtag", "mk_wtag", "mk_db"} => DOMAIN db = {}
        /\ ppc = "mk_rtag" => DOMAIN rtag = {}
        /\ ppc \in {"mk_wtag", "mk_db", "mk_open"} => DOMAIN rtag = {1}
        /\ ppc \in {"mk_rtag", "mk_wtag"} => DOMAIN wtag = {}
        /\ ppc \in {"mk_db", "mk_open"} => DOMAIN wtag = {1}
        /\ ppc = "mk_open" => /\ DOMAIN db = {1} /\ db[1] = ZeroFile
                              /\ rtag[1] = [num |-> 0, pos |-> 0]

\* No number of a closed file is kept.
StaleInv == stale = {}

RecInv == StaleInv /\ DataInv /\ RtagInv /\ WtagInv /\ NotedInv
          /\ WholeInv /\ RecordInv /\ WriteInv /\ ParseInv /\ MakeInv

\* Then none is closed a second time.
LEMMA NoStrays == ASSUME StaleInv PROVE ~ PutStray /\ ~ GetStray
  BY DEF StaleInv, PutStray, GetStray, NextWriteLockStray, PutReturnStray,
     NextReadUnlinkStray, NextReadMapStray, NoteRtagStray, TakenAway, Scribbled

\* The file to read next can be mapped.
LEMMA ReadFileThere == ASSUME Inv, RecInv, Orderly PROVE ~ NextReadNoMap
<1> SUFFICES ASSUME NextReadNoMap PROVE FALSE
  OBVIOUS
<1>1. cpc = "r_map" /\ ridx # widx /\ ~ Mappable(ridx)
  BY DEF NextReadNoMap, Orderly
<1>2. open /\ ridx \in Nat /\ widx \in Nat /\ ridx <= widx
  BY <1>1 DEF Inv, LifeInv, IndexInv, TypeOK
<1>3. ridx \in DOMAIN db
  BY <1>1, <1>2 DEF RecInv, DataInv, ReadFile, WriteFile
<1>4. db[ridx] \in File
  BY <1>3 DEF RecInv, WholeInv
<1>5. 0 \in Offset
  BY LayoutAssumption DEF Offset
<1> QED BY <1>1, <1>3, <1>4, <1>5 DEF Mappable, Short, File

-----------------------------------------------------------------------------
\* The directory, step by step.

\* Directories after a change.
LEMMA Domains ==
    /\ \A f, i, v : DOMAIN With(f, i, v) = DOMAIN f \cup {i}
    /\ \A f, i : DOMAIN Without(f, i) = DOMAIN f \ {i}
    /\ \A f, i, v : DOMAIN Created(f, i, v) = DOMAIN f \cup {i}
    /\ \A f, i : DOMAIN Extended(f, i) = DOMAIN f \cup {i}
    /\ \A f, fd, n, p : DOMAIN TagWrite(f, fd, n, p)
                        = IF fd = NoFd THEN DOMAIN f ELSE DOMAIN f \cup {fd}
  BY DEF With, Without, Created, Extended, TagWrite

\* Files that a change leaves alone, and the line that is written.
LEMMA Values ==
    /\ \A f, i, v : With(f, i, v)[i] = v
    /\ \A f, i, v : \A j \in DOMAIN f : j # i => With(f, i, v)[j] = f[j]
    /\ \A f, i : \A j \in DOMAIN f : j # i => Without(f, i)[j] = f[j]
    /\ \A f, i, v : \A j \in DOMAIN f : Created(f, i, v)[j] = f[j]
    /\ \A f, i : \A j \in DOMAIN f : j # i => Extended(f, i)[j] = f[j]
    /\ \A f, fd, n, p : fd # NoFd => TagWrite(f, fd, n, p)[fd] = [num |-> n, pos |-> p]
    /\ \A f, fd, n, p : \A j \in DOMAIN f : j # fd => TagWrite(f, fd, n, p)[j] = f[j]
  BY DEF With, Without, Created, Extended, TagWrite

\* The data files are those between the two indexes.
LEMMA DataStep == ASSUME Inv, HeldInv, RecInv, Next, Orderly PROVE DataInv'
<1> USE DEF Inv, HeldInv, RecInv, Orderly, WriteFilesOpen, TypeOK, LifeInv, MutexInv,
            IndexInv, Creating, PutHolds, GetHolds, ReadFile, WriteFile, NoMap, NoFd
<1> USE Domains DEF DataInv
<1>1. CASE \E len \in Lens : PutBegin(len)
  BY <1>1 DEF PutBegin
<1>2. CASE GetBegin
  BY <1>2 DEF GetBegin
<1>3. CASE GetNothing
  BY <1>3 DEF GetNothing, vars
<1>4. CASE Create
  <2>1. CASE CreatNoSpace
    BY <2>1 DEF CreatNoSpace
  <2>2. CASE CreatSpace
    BY <2>2 DEF CreatSpace
  <2>3. CASE Wipe
    BY <2>3 DEF Wipe
  <2>4. CASE Wiped
    BY <2>4 DEF Wiped
  <2>5. CASE MakeRtag
    BY <2>5 DEF MakeRtag
  <2>6. CASE MakeWtag
    BY <2>6 DEF MakeWtag
  <2>7. CASE MakeDb
    BY <2>7 DEF MakeDb
  <2>8. CASE MakeFails
    BY <2>8 DEF MakeFails
  <2>9. CASE MakeOpen
    <3>1. ~ open /\ cpc = "idle" /\ DOMAIN db = {1}
      BY <2>9 DEF MakeOpen, MakeInv
    <3>2. ReadFile' = 1 /\ WriteFile' = 1 /\ db' = db
      BY <2>9, <3>1 DEF MakeOpen
    <3> QED BY <3>1, <3>2
  <2> QED BY <1>4, <2>1, <2>2, <2>3, <2>4, <2>5, <2>6, <2>7, <2>8, <2>9 DEF Create
<1>5. CASE WriteMsg
  <2>1. CASE PutFull
    BY <2>1 DEF PutFull
  <2>2. CASE PutNotFull
    BY <2>2 DEF PutNotFull
  <2>3. CASE PutFits
    BY <2>3 DEF PutFits
  <2>4. CASE PutOverflows
    BY <2>4 DEF PutOverflows
  <2>5. CASE WriteHead
    BY <2>5 DEF WriteHead
  <2>6. CASE WriteBody
    BY <2>6 DEF WriteBody
  <2>7. CASE WritePos
    BY <2>7 DEF WritePos
  <2>8. CASE LoadPutNum
    BY <2>8 DEF LoadPutNum
  <2>9. CASE IncPutNum
    BY <2>9 DEF IncPutNum
  <2>10. CASE PutReturn
    BY <2>10 DEF PutReturn
  <2> QED BY <1>5, <2>1, <2>2, <2>3, <2>4, <2>5, <2>6, <2>7, <2>8, <2>9, <2>10 DEF WriteMsg
<1>6. CASE NextWrite
  <2>1. CASE NextWriteNoSpace
    BY <2>1 DEF NextWriteNoSpace
  <2>2. CASE NextWriteLock
    BY <2>2 DEF NextWriteLock
  <2>3. CASE NextWriteWtag
    BY <2>3 DEF NextWriteWtag
  <2>4. CASE NextWriteNoWtag
    BY <2>4 DEF NextWriteNoWtag
  <2>5. CASE NextWriteDb
    <3>1. /\ open /\ ReadFile' = ReadFile /\ ReadFile = ridx
          /\ WriteFile = widx /\ WriteFile' = widx + 1
      BY <2>5 DEF NextWriteDb
    <3>2. DOMAIN db' = DOMAIN db \cup {widx + 1}
      BY <2>5 DEF NextWriteDb
    <3>3. (ridx .. widx) \cup {widx + 1} = ridx .. widx + 1
      <4>1. ridx \in Nat /\ widx \in Nat /\ ridx <= widx
        BY <3>1
      <4> QED BY ONLY <4>1
    <3> QED BY <3>1, <3>2, <3>3
  <2>6. CASE NextWriteNoDb
    BY <2>6 DEF NextWriteNoDb
  <2>7. CASE NextWritePos
    BY <2>7 DEF NextWritePos
  <2>8. CASE NextWriteIndex
    BY <2>8 DEF NextWriteIndex
  <2>9. CASE NextWriteHead
    BY <2>9 DEF NextWriteHead
  <2>10. CASE NextWriteUnlink
    BY <2>10 DEF NextWriteUnlink
  <2> QED BY <1>6, <2>1, <2>2, <2>3, <2>4, <2>5, <2>6, <2>7, <2>8, <2>9, <2>10 DEF NextWrite
<1>7. CASE GetData
  <2>1. CASE EndIndex
    BY <2>1 DEF EndIndex
  <2>2. CASE EndPos
    BY <2>2 DEF EndPos
  <2>3. CASE EndReset
    BY <2>3 DEF EndReset
  <2>4. CASE ParseOk
    BY <2>4 DEF ParseOk
  <2>5. CASE ParseSkip
    BY <2>5 DEF ParseSkip
  <2>6. CASE ParseBeyond
    BY <2>6 DEF ParseBeyond
  <2>7. CASE WrapGetNum
    BY <2>7 DEF WrapGetNum
  <2>8. CASE NoWrap
    BY <2>8 DEF NoWrap
  <2>9. CASE WrapLoad
    BY <2>9 DEF WrapLoad
  <2>10. CASE WrapPutNum
    BY <2>10 DEF WrapPutNum
  <2>11. CASE NoteRtag
    BY <2>11 DEF NoteRtag
  <2>12. CASE GetReturn
    BY <2>12 DEF GetReturn
  <2> QED BY <1>7, <2>1, <2>2, <2>3, <2>4, <2>5, <2>6, <2>7, <2>8, <2>9,
         <2>10, <2>11, <2>12 DEF GetData
<1>8. CASE NextRead
  <2>1. CASE NextReadEnd
    BY <2>1 DEF NextReadEnd
  <2>2. CASE NextReadLock
    BY <2>2 DEF NextReadLock
  <2>3. CASE NextReadRtag
    BY <2>3 DEF NextReadRtag
  <2>4. CASE NextReadNoRtag
    BY <2>4 DEF NextReadNoRtag
  <2>5. CASE NextReadNote
    BY <2>5 DEF NextReadNote
  <2>6. CASE NextReadUnlink
    BY <2>6 DEF NextReadUnlink
  <2>7. CASE NextReadShare
    <3>1. /\ open /\ ReadFile = ridx - 1 /\ ReadFile' = ridx
          /\ WriteFile' = WriteFile /\ WriteFile \in Nat /\ ridx \in Nat
          /\ ridx - 1 <= WriteFile
      BY <2>7 DEF NextReadShare
    <3>2. DOMAIN db' = DOMAIN db \ {ridx - 1}
      BY <2>7 DEF NextReadShare
    <3>3. (ridx - 1 .. WriteFile) \ {ridx - 1} = ridx .. WriteFile
      BY <3>1
    <3> QED BY <3>1, <3>2, <3>3
  <2>8. CASE NextReadMap
    <3>1. /\ open /\ ReadFile = ridx - 1 /\ ReadFile' = ridx
          /\ WriteFile' = WriteFile /\ WriteFile \in Nat /\ ridx \in Nat
          /\ ridx - 1 <= WriteFile
      BY <2>8 DEF NextReadMap
    <3>2. DOMAIN db' = DOMAIN db \ {ridx - 1}
      BY <2>8 DEF NextReadMap
    <3>3. (ridx - 1 .. WriteFile) \ {ridx - 1} = ridx .. WriteFile
      BY <3>1
    <3> QED BY <3>1, <3>2, <3>3
  <2>9. CASE NextReadNoMap
    <3>1. /\ open /\ ReadFile = ridx - 1 /\ ReadFile' = ridx
          /\ WriteFile' = WriteFile /\ WriteFile \in Nat /\ ridx \in Nat
          /\ ridx - 1 <= WriteFile
      BY <2>9 DEF NextReadNoMap
    <3>2. DOMAIN db' = DOMAIN db \ {ridx - 1}
      BY <2>9 DEF NextReadNoMap
    <3>3. (ridx - 1 .. WriteFile) \ {ridx - 1} = ridx .. WriteFile
      BY <3>1
    <3> QED BY <3>1, <3>2, <3>3
  <2> QED BY <1>8, <2>1, <2>2, <2>3, <2>4, <2>5, <2>6, <2>7, <2>8, <2>9 DEF NextRead
<1>9. CASE Process
  <2>1. CASE Close
    BY <2>1 DEF Close, Stop
  <2>2. CASE Crash
    BY <2>2 DEF Crash, Stop
  <2>3. CASE Segv
    BY <2>3 DEF Segv, Stop
  <2>4. CASE OpenQueue
    <3>1. PICK r \in DOMAIN rtag, w \in DOMAIN wtag :
              /\ Openable(r, w) /\ ridx' = r /\ widx' = w
      BY <2>4 DEF OpenQueue
    <3>2. DOMAIN db = r .. w
      <4>1. ~ open /\ ppc = "idle" /\ Resting /\ DOMAIN db # {}
        BY <2>4, <3>1 DEF OpenQueue, MakeInv, Openable, HandleFiles
      <4> QED BY <3>1, <4>1 DEF Resting
    <3>3. ReadFile' = r /\ WriteFile' = w /\ db' = db
      BY <2>4, <3>1 DEF OpenQueue
    <3> QED BY <3>2, <3>3
  <2>5. CASE OpenWithout
    BY <2>5 DEF OpenWithout
  <2> QED BY <1>9, <2>1, <2>2, <2>3, <2>4, <2>5 DEF Process
<1>10. ~ PutStray /\ ~ GetStray
  BY NoStrays
<1> QED BY <1>1, <1>2, <1>3, <1>4, <1>5, <1>6, <1>7, <1>8, <1>9, <1>10
        DEF Next, PutStep, GetStep

\* There is one rtag file but during get_next_read_file.
LEMMA RtagStep == ASSUME Inv, HeldInv, RecInv, Next, Orderly PROVE RtagInv'
<1> USE DEF Inv, HeldInv, RecInv, Orderly, WriteFilesOpen, TypeOK, LifeInv, MutexInv,
            IndexInv, Creating, PutHolds, GetHolds, ReadFile, WriteFile, NoMap, NoFd
<1> USE Domains, Values DEF RtagInv, RtagFiles
<1>1. CASE \E len \in Lens : PutBegin(len)
  BY <1>1 DEF PutBegin
<1>2. CASE GetBegin
  BY <1>2 DEF GetBegin
<1>3. CASE GetNothing
  BY <1>3 DEF GetNothing, vars
<1>4. CASE Create
  <2>1. CASE CreatNoSpace
    BY <2>1 DEF CreatNoSpace
  <2>2. CASE CreatSpace
    BY <2>2 DEF CreatSpace
  <2>3. CASE Wipe
    BY <2>3 DEF Wipe
  <2>4. CASE Wiped
    BY <2>4 DEF Wiped
  <2>5. CASE MakeRtag
    BY <2>5 DEF MakeRtag
  <2>6. CASE MakeWtag
    BY <2>6 DEF MakeWtag
  <2>7. CASE MakeDb
    BY <2>7 DEF MakeDb
  <2>8. CASE MakeFails
    BY <2>8 DEF MakeFails
  <2>9. CASE MakeOpen
    <3>1. ~ open /\ cpc = "idle" /\ DOMAIN rtag = {1} /\ rtag[1] # Empty
      BY <2>9 DEF MakeOpen, MakeInv, Empty
    <3>2. RtagFiles' = {1} /\ rtag' = rtag /\ ridx' = 1 /\ rtag_fd' = 1 /\ cpc' = "idle"
      BY <2>9, <3>1 DEF MakeOpen
    <3> QED BY <3>1, <3>2
  <2> QED BY <1>4, <2>1, <2>2, <2>3, <2>4, <2>5, <2>6, <2>7, <2>8, <2>9 DEF Create
<1>5. CASE WriteMsg
  <2>1. CASE PutFull
    BY <2>1 DEF PutFull
  <2>2. CASE PutNotFull
    BY <2>2 DEF PutNotFull
  <2>3. CASE PutFits
    BY <2>3 DEF PutFits
  <2>4. CASE PutOverflows
    BY <2>4 DEF PutOverflows
  <2>5. CASE WriteHead
    BY <2>5 DEF WriteHead
  <2>6. CASE WriteBody
    BY <2>6 DEF WriteBody
  <2>7. CASE WritePos
    BY <2>7 DEF WritePos
  <2>8. CASE LoadPutNum
    BY <2>8 DEF LoadPutNum
  <2>9. CASE IncPutNum
    BY <2>9 DEF IncPutNum
  <2>10. CASE PutReturn
    BY <2>10 DEF PutReturn
  <2> QED BY <1>5, <2>1, <2>2, <2>3, <2>4, <2>5, <2>6, <2>7, <2>8, <2>9, <2>10 DEF WriteMsg
<1>6. CASE NextWrite
  BY <1>6 DEF NextWrite, NextWriteNoSpace, NextWriteLock, NextWriteWtag,
     NextWriteNoWtag, NextWriteDb, NextWriteNoDb, NextWritePos,
     NextWriteIndex, NextWriteHead, NextWriteUnlink
<1>7. CASE GetData
  <2>1. CASE EndIndex
    BY <2>1 DEF EndIndex
  <2>2. CASE EndPos
    BY <2>2 DEF EndPos
  <2>3. CASE EndReset
    BY <2>3 DEF EndReset
  <2>4. CASE ParseOk
    BY <2>4 DEF ParseOk
  <2>5. CASE ParseSkip
    BY <2>5 DEF ParseSkip
  <2>6. CASE ParseBeyond
    BY <2>6 DEF ParseBeyond
  <2>7. CASE WrapGetNum
    BY <2>7 DEF WrapGetNum
  <2>8. CASE NoWrap
    BY <2>8 DEF NoWrap
  <2>9. CASE WrapLoad
    BY <2>9 DEF WrapLoad
  <2>10. CASE WrapPutNum
    BY <2>10 DEF WrapPutNum
  <2>11. CASE NoteRtag
    <3>1. /\ rtag' = TagWrite(rtag, rtag_fd, get_num, rpos)
          /\ RtagFiles' = RtagFiles /\ RtagFiles = {ridx}
          /\ UNCHANGED <<ridx, rtag_fd, open>> /\ cpc' = "ret" /\ open
          /\ rtag_fd \in {NoFd, ridx} /\ DOMAIN rtag = {ridx}
      BY <2>11 DEF NoteRtag
    <3>2. [num |-> get_num, pos |-> rpos] # Empty
      <4>1. rpos # -1
        BY DEF TypeOK
      <4> QED BY <4>1 DEF Empty
    <3>3. CASE rtag_fd = NoFd
      <4>1. rtag' = rtag
        BY <3>1, <3>3 DEF TagWrite
      <4> QED BY <3>1, <4>1
    <3>4. CASE rtag_fd = ridx /\ rtag_fd # NoFd
      <4>1. DOMAIN rtag' = {ridx} /\ rtag'[ridx] # Empty
        BY ONLY <3>1, <3>2, <3>4 DEF TagWrite, With
      <4> QED BY <3>1, <3>4, <4>1
    <3> QED BY <3>1, <3>3, <3>4
  <2>12. CASE GetReturn
    BY <2>12 DEF GetReturn
  <2> QED BY <1>7, <2>1, <2>2, <2>3, <2>4, <2>5, <2>6, <2>7, <2>8, <2>9, <2>10,
         <2>11, <2>12 DEF GetData
<1>8. CASE NextRead
  <2>1. CASE NextReadEnd
    BY <2>1 DEF NextReadEnd
  <2>2. CASE NextReadLock
    BY <2>2 DEF NextReadLock
  <2>3. CASE NextReadRtag
    <3>1. /\ open /\ rtag' = Created(rtag, ridx + 1, Empty)
          /\ RtagFiles = {ridx} /\ RtagFiles' = {ridx, ridx + 1}
          /\ UNCHANGED <<ridx, open>> /\ cpc' = "r_write" /\ rtag_fd' = ridx + 1
          /\ DOMAIN rtag = {ridx}
      BY <2>3 DEF NextReadRtag
    <3>2. DOMAIN rtag' = {ridx, ridx + 1} /\ rtag'[ridx] = rtag[ridx]
      BY ONLY <3>1 DEF Created, With
    <3> QED BY <3>1, <3>2
  <2>4. CASE NextReadNoRtag
    BY <2>4 DEF NextReadNoRtag
  <2>5. CASE NextReadNote
    <3>1. /\ open /\ ridx \in Nat /\ rtag_fd = ridx + 1
          /\ rtag' = TagWrite(rtag, rtag_fd, get_num, FileHead)
          /\ RtagFiles = {ridx, ridx + 1} /\ ridx' = ridx + 1
          /\ UNCHANGED <<open, rtag_fd>> /\ cpc' = "r_unlink"
          /\ DOMAIN rtag = {ridx, ridx + 1}
      BY <2>5 DEF NextReadNote
    <3>2. RtagFiles' = {ridx, ridx + 1} /\ rtag_fd # NoFd
      BY ONLY <3>1 DEF RtagFiles, NoFd
    <3>3. [num |-> get_num, pos |-> FileHead] # Empty
      <4>1. FileHead # -1
        BY LayoutAssumption
      <4> QED BY <4>1 DEF Empty
    <3>4. DOMAIN rtag' = {ridx, ridx + 1} /\ rtag'[ridx + 1] # Empty
      BY ONLY <3>1, <3>2, <3>3 DEF TagWrite, With
    <3> QED BY <3>1, <3>2, <3>4
  <2>6. CASE NextReadUnlink
    <3>1. /\ open /\ ridx \in Nat /\ rtag' = Without(rtag, ridx - 1)
          /\ RtagFiles = {ridx - 1, ridx} /\ RtagFiles' = {ridx}
          /\ UNCHANGED <<open, ridx, rtag_fd>> /\ cpc' = "r_map" /\ rtag_fd = ridx
          /\ DOMAIN rtag = {ridx - 1, ridx}
      BY <2>6 DEF NextReadUnlink
    <3>2. ridx # ridx - 1
      BY <3>1
    <3>3. DOMAIN rtag' = {ridx} /\ rtag'[ridx] = rtag[ridx]
      BY ONLY <3>1, <3>2 DEF Without
    <3> QED BY <3>1, <3>3
  <2>7. CASE NextReadShare
    BY <2>7 DEF NextReadShare
  <2>8. CASE NextReadMap
    BY <2>8 DEF NextReadMap
  <2>9. CASE NextReadNoMap
    BY <2>9 DEF NextReadNoMap
  <2> QED BY <1>8, <2>1, <2>2, <2>3, <2>4, <2>5, <2>6, <2>7, <2>8, <2>9 DEF NextRead
<1>9. CASE Process
  <2>1. CASE Close
    BY <2>1 DEF Close, Stop
  <2>2. CASE Crash
    BY <2>2 DEF Crash, Stop
  <2>3. CASE Segv
    BY <2>3 DEF Segv, Stop
  <2>4. CASE OpenQueue
    <3>1. PICK r \in DOMAIN rtag, w \in DOMAIN wtag :
              /\ Openable(r, w) /\ ridx' = r /\ rtag_fd' = r
      BY <2>4 DEF OpenQueue
    <3>2. DOMAIN rtag = {r} /\ rtag[r] # Empty
      <4>1. ~ up
        BY <2>4 DEF OpenQueue
      <4>2. ~ open /\ ppc = "idle" /\ Resting
        BY <4>1 DEF MakeInv
      <4>3. DOMAIN db # {} /\ rtag[r] # Empty
        BY <3>1 DEF Openable, HandleFiles
      <4>4. PICK r1 \in DOMAIN rtag : DOMAIN rtag = {r1}
        BY ONLY <4>2, <4>3 DEF Resting
      <4> QED BY ONLY <3>1, <4>3, <4>4
    <3>3. cpc = "idle" /\ cpc' = cpc /\ rtag' = rtag
      BY <2>4 DEF OpenQueue
    <3> QED BY <3>1, <3>2, <3>3
  <2>5. CASE OpenWithout
    BY <2>5 DEF OpenWithout
  <2> QED BY <1>9, <2>1, <2>2, <2>3, <2>4, <2>5 DEF Process
<1>10. ~ PutStray /\ ~ GetStray
  BY NoStrays
<1> QED BY <1>1, <1>2, <1>3, <1>4, <1>5, <1>6, <1>7, <1>8, <1>9, <1>10
        DEF Next, PutStep, GetStep

\* There is one wtag file but during get_next_write_file.
LEMMA WtagStep == ASSUME Inv, HeldInv, RecInv, Next, Orderly PROVE WtagInv'
<1> USE DEF Inv, HeldInv, RecInv, Orderly, WriteFilesOpen, TypeOK, LifeInv, MutexInv,
            IndexInv, Creating, PutHolds, GetHolds, ReadFile, WriteFile, NoMap, NoFd
<1> USE Domains DEF WtagInv, WtagFiles
<1>1. CASE \E len \in Lens : PutBegin(len)
  BY <1>1 DEF PutBegin
<1>2. CASE GetBegin
  BY <1>2 DEF GetBegin
<1>3. CASE GetNothing
  BY <1>3 DEF GetNothing, vars
<1>4. CASE Create
  <2>1. CASE CreatNoSpace
    BY <2>1 DEF CreatNoSpace
  <2>2. CASE CreatSpace
    BY <2>2 DEF CreatSpace
  <2>3. CASE Wipe
    BY <2>3 DEF Wipe
  <2>4. CASE Wiped
    BY <2>4 DEF Wiped
  <2>5. CASE MakeRtag
    BY <2>5 DEF MakeRtag
  <2>6. CASE MakeWtag
    BY <2>6 DEF MakeWtag
  <2>7. CASE MakeDb
    BY <2>7 DEF MakeDb
  <2>8. CASE MakeFails
    BY <2>8 DEF MakeFails
  <2>9. CASE MakeOpen
    <3>1. ~ open /\ DOMAIN wtag = {1}
      BY <2>9 DEF MakeOpen, MakeInv
    <3>2. WtagFiles' = {1} /\ wtag' = wtag /\ widx' = 1 /\ wtag_fd' = 1 /\ ppc' = "full"
      BY <2>9, <3>1 DEF MakeOpen
    <3> QED BY <3>1, <3>2
  <2> QED BY <1>4, <2>1, <2>2, <2>3, <2>4, <2>5, <2>6, <2>7, <2>8, <2>9 DEF Create
<1>5. CASE WriteMsg
  <2>1. CASE PutFull
    BY <2>1 DEF PutFull
  <2>2. CASE PutNotFull
    BY <2>2 DEF PutNotFull
  <2>3. CASE PutFits
    BY <2>3 DEF PutFits
  <2>4. CASE PutOverflows
    BY <2>4 DEF PutOverflows
  <2>5. CASE WriteHead
    BY <2>5 DEF WriteHead
  <2>6. CASE WriteBody
    BY <2>6 DEF WriteBody
  <2>7. CASE WritePos
    BY <2>7 DEF WritePos
  <2>8. CASE LoadPutNum
    BY <2>8 DEF LoadPutNum
  <2>9. CASE IncPutNum
    BY <2>9 DEF IncPutNum
  <2>10. CASE PutReturn
    <3>1. /\ open /\ widx \in Nat /\ widx >= 1 /\ wtag_fd = widx
          /\ wtag' = TagWrite(wtag, wtag_fd, put_num, wpos)
          /\ WtagFiles = {widx} /\ WtagFiles' = {widx}
          /\ UNCHANGED <<open, widx, wtag_fd>> /\ ppc' = "idle"
          /\ DOMAIN wtag = {widx}
      BY <2>10 DEF PutReturn
    <3>2. DOMAIN wtag' = {widx}
      BY ONLY <3>1 DEF TagWrite, With, NoFd
    <3> QED BY <3>1, <3>2
  <2> QED BY <1>5, <2>1, <2>2, <2>3, <2>4, <2>5, <2>6, <2>7, <2>8, <2>9, <2>10 DEF WriteMsg
<1>6. CASE NextWrite
  <2>1. CASE NextWriteNoSpace
    BY <2>1 DEF NextWriteNoSpace
  <2>2. CASE NextWriteLock
    BY <2>2 DEF NextWriteLock
  <2>3. CASE NextWriteWtag
    <3>1. /\ open /\ wtag' = Created(wtag, widx + 1, Empty)
          /\ WtagFiles = {widx} /\ WtagFiles' = {widx, widx + 1}
          /\ UNCHANGED <<widx, open>> /\ ppc' = "wdb" /\ wtag_fd' = widx + 1
          /\ DOMAIN wtag = {widx}
      BY <2>3 DEF NextWriteWtag
    <3>2. DOMAIN wtag' = {widx, widx + 1}
      BY ONLY <3>1 DEF Created, With
    <3> QED BY <3>1, <3>2
  <2>4. CASE NextWriteNoWtag
    BY <2>4 DEF NextWriteNoWtag
  <2>5. CASE NextWriteDb
    BY <2>5 DEF NextWriteDb
  <2>6. CASE NextWriteNoDb
    BY <2>6 DEF NextWriteNoDb
  <2>7. CASE NextWritePos
    BY <2>7 DEF NextWritePos
  <2>8. CASE NextWriteIndex
    BY <2>8 DEF NextWriteIndex
  <2>9. CASE NextWriteHead
    <3>1. /\ open /\ widx \in Nat /\ widx >= 1 /\ wtag_fd = widx
          /\ wtag' = TagWrite(wtag, wtag_fd, put_num, wpos)
          /\ WtagFiles = {widx - 1, widx} /\ WtagFiles' = WtagFiles
          /\ UNCHANGED <<open, widx, wtag_fd>> /\ ppc' = "unlink"
          /\ DOMAIN wtag = {widx - 1, widx}
      BY <2>9 DEF NextWriteHead
    <3>2. DOMAIN wtag' = {widx - 1, widx}
      BY ONLY <3>1 DEF TagWrite, With, NoFd
    <3> QED BY <3>1, <3>2
  <2>10. CASE NextWriteUnlink
    <3>1. /\ open /\ widx \in Nat /\ wtag' = Without(wtag, widx - 1)
          /\ WtagFiles = {widx - 1, widx} /\ WtagFiles' = {widx}
          /\ UNCHANGED <<open, widx, wtag_fd>> /\ ppc' = "rec" /\ wtag_fd = widx
          /\ DOMAIN wtag = {widx - 1, widx}
      BY <2>10 DEF NextWriteUnlink
    <3>2. widx # widx - 1
      BY <3>1
    <3>3. DOMAIN wtag' = {widx}
      BY ONLY <3>1, <3>2 DEF Without
    <3> QED BY <3>1, <3>3
  <2> QED BY <1>6, <2>1, <2>2, <2>3, <2>4, <2>5, <2>6, <2>7, <2>8, <2>9, <2>10 DEF NextWrite
<1>7. CASE GetData
  <2>1. CASE EndIndex
    BY <2>1 DEF EndIndex
  <2>2. CASE EndPos
    BY <2>2 DEF EndPos
  <2>3. CASE EndReset
    BY <2>3 DEF EndReset
  <2>4. CASE ParseOk
    BY <2>4 DEF ParseOk
  <2>5. CASE ParseSkip
    BY <2>5 DEF ParseSkip
  <2>6. CASE ParseBeyond
    BY <2>6 DEF ParseBeyond
  <2>7. CASE WrapGetNum
    BY <2>7 DEF WrapGetNum
  <2>8. CASE NoWrap
    BY <2>8 DEF NoWrap
  <2>9. CASE WrapLoad
    BY <2>9 DEF WrapLoad
  <2>10. CASE WrapPutNum
    BY <2>10 DEF WrapPutNum
  <2>11. CASE NoteRtag
    BY <2>11 DEF NoteRtag
  <2>12. CASE GetReturn
    BY <2>12 DEF GetReturn
  <2> QED BY <1>7, <2>1, <2>2, <2>3, <2>4, <2>5, <2>6, <2>7, <2>8, <2>9,
         <2>10, <2>11, <2>12 DEF GetData
<1>8. CASE NextRead
  <2>1. ~ NextReadNoMap
    BY ReadFileThere
  <2> QED BY <1>8, <2>1 DEF NextRead, NextReadEnd, NextReadLock, NextReadRtag,
     NextReadNoRtag, NextReadNote, NextReadUnlink, NextReadShare, NextReadMap
<1>9. CASE Process
  <2>1. CASE Close
    BY <2>1 DEF Close, Stop
  <2>2. CASE Crash
    BY <2>2 DEF Crash, Stop
  <2>3. CASE Segv
    BY <2>3 DEF Segv, Stop
  <2>4. CASE OpenQueue
    <3>1. PICK r \in DOMAIN rtag, w \in DOMAIN wtag :
              /\ Openable(r, w) /\ widx' = w /\ wtag_fd' = w
      BY <2>4 DEF OpenQueue
    <3>2. DOMAIN wtag = {w}
      <4>1. ~ open /\ ppc = "idle" /\ Resting /\ DOMAIN db # {}
        BY <2>4, <3>1 DEF OpenQueue, MakeInv, Openable, HandleFiles
      <4> QED BY <3>1, <4>1 DEF Resting
    <3>3. ppc = "idle" /\ ppc' = ppc /\ wtag' = wtag
      BY <2>4 DEF OpenQueue
    <3> QED BY <3>1, <3>2, <3>3
  <2>5. CASE OpenWithout
    BY <2>5 DEF OpenWithout
  <2> QED BY <1>9, <2>1, <2>2, <2>3, <2>4, <2>5 DEF Process
<1>10. ~ PutStray /\ ~ GetStray
  BY NoStrays
<1> QED BY <1>1, <1>2, <1>3, <1>4, <1>5, <1>6, <1>7, <1>8, <1>9, <1>10
        DEF Next, PutStep, GetStep

\* The wtag line has the write position between puts.
LEMMA NotedStep == ASSUME Inv, HeldInv, RecInv, Next, Orderly PROVE NotedInv'
<1> USE DEF Inv, HeldInv, RecInv, Orderly, WriteFilesOpen, TypeOK, LifeInv, MutexInv,
            IndexInv, Creating, PutHolds, GetHolds, ReadFile, WriteFile, NoMap, NoFd
<1> USE Domains, Values DEF NotedInv, WtagInv, WtagFiles, Fresh
<1>1. CASE \E len \in Lens : PutBegin(len)
  BY <1>1 DEF PutBegin
<1>2. CASE GetBegin
  <2>1. put_num - get_num # 0
    BY <1>2, StoreAssumption DEF GetBegin, U64
  <2> QED BY <1>2, <2>1 DEF GetBegin
<1>3. CASE GetNothing
  BY <1>3 DEF GetNothing, vars
<1>4. CASE Create
  <2>1. CASE CreatNoSpace
    BY <2>1 DEF CreatNoSpace
  <2>2. CASE CreatSpace
    BY <2>2 DEF CreatSpace
  <2>3. CASE Wipe
    BY <2>3 DEF Wipe
  <2>4. CASE Wiped
    BY <2>4 DEF Wiped
  <2>5. CASE MakeRtag
    BY <2>5 DEF MakeRtag
  <2>6. CASE MakeWtag
    BY <2>6 DEF MakeWtag
  <2>7. CASE MakeDb
    BY <2>7 DEF MakeDb
  <2>8. CASE MakeFails
    BY <2>8 DEF MakeFails
  <2>9. CASE MakeOpen
    BY <2>9 DEF MakeOpen
  <2> QED BY <1>4, <2>1, <2>2, <2>3, <2>4, <2>5, <2>6, <2>7, <2>8, <2>9 DEF Create
<1>5. CASE WriteMsg
  <2>1. CASE PutFull
    <3>1. open /\ ppc = "full" /\ IsFull
      BY <2>1 DEF PutFull
    <3>2. ~ Fresh
      <4>1. ASSUME Fresh PROVE pload - get_num + 1 = 1
        BY <4>1
      <4>2. U64(1) = 1
        BY StoreAssumption DEF U64
      <4> QED BY <3>1, <4>1, <4>2, StoreAssumption DEF IsFull
    <3> QED BY <2>1, <3>1, <3>2 DEF PutFull
  <2>2. CASE PutNotFull
    BY <2>2 DEF PutNotFull
  <2>3. CASE PutFits
    BY <2>3 DEF PutFits
  <2>4. CASE PutOverflows
    <3>1. open /\ ppc = "fit" /\ ~ Fits(wpos, pmsg)
      BY <2>4 DEF PutOverflows
    <3>2. ~ Fresh
      <4>1. ValidLen(pmsg.len) /\ pmsg \in Message
        BY <3>1 DEF WriteInv, PlaceInv
      <4>2. pmsg.len \in Nat /\ FileHead \in Nat /\ MsgHead \in Nat /\ MaxFile \in Nat
        BY ONLY <4>1, LayoutAssumption DEF Message
      <4>3. Fits(FileHead, pmsg)
        BY ONLY <4>1, <4>2 DEF ValidLen, Fits, RecordLen
      <4> QED BY ONLY <3>1, <4>3 DEF Fresh
    <3> QED BY <2>4, <3>1, <3>2 DEF PutOverflows
  <2>5. CASE WriteHead
    BY <2>5 DEF WriteHead
  <2>6. CASE WriteBody
    BY <2>6 DEF WriteBody
  <2>7. CASE WritePos
    BY <2>7 DEF WritePos
  <2>8. CASE LoadPutNum
    BY <2>8 DEF LoadPutNum
  <2>9. CASE IncPutNum
    BY <2>9 DEF IncPutNum
  <2>10. CASE PutReturn
    <3>1. /\ open /\ widx \in Nat /\ widx >= 1 /\ wtag_fd = widx
          /\ wtag' = TagWrite(wtag, wtag_fd, put_num, wpos)
          /\ UNCHANGED <<widx, wpos>>
      BY <2>10 DEF PutReturn
    <3>2. wtag'[widx] = [num |-> put_num, pos |-> wpos]
      BY ONLY <3>1 DEF TagWrite, With, NoFd
    <3>3. wtag'[widx].pos = wpos /\ wtag'[widx] # Empty
      <4>1. wpos # -1
        BY DEF TypeOK
      <4> QED BY <3>2, <4>1 DEF Empty
    <3> QED BY <3>1, <3>3
  <2> QED BY <1>5, <2>1, <2>2, <2>3, <2>4, <2>5, <2>6, <2>7, <2>8, <2>9, <2>10 DEF WriteMsg
<1>6. CASE NextWrite
  <2>1. CASE NextWriteNoSpace
    BY <2>1 DEF NextWriteNoSpace
  <2>2. CASE NextWriteLock
    BY <2>2 DEF NextWriteLock
  <2>3. CASE NextWriteWtag
    BY <2>3 DEF NextWriteWtag
  <2>4. CASE NextWriteNoWtag
    BY <2>4 DEF NextWriteNoWtag
  <2>5. CASE NextWriteDb
    BY <2>5 DEF NextWriteDb
  <2>6. CASE NextWriteNoDb
    BY <2>6 DEF NextWriteNoDb
  <2>7. CASE NextWritePos
    BY <2>7 DEF NextWritePos
  <2>8. CASE NextWriteIndex
    BY <2>8 DEF NextWriteIndex
  <2>9. CASE NextWriteHead
    BY <2>9 DEF NextWriteHead
  <2>10. CASE NextWriteUnlink
    BY <2>10 DEF NextWriteUnlink
  <2> QED BY <1>6, <2>1, <2>2, <2>3, <2>4, <2>5, <2>6, <2>7, <2>8, <2>9, <2>10 DEF NextWrite
<1>7. CASE GetData
  BY <1>7 DEF GetData, EndIndex, EndPos, EndReset, ParseOk, ParseSkip, ParseBeyond,
     WrapGetNum, NoWrap, WrapLoad, WrapPutNum, NoteRtag, GetReturn
<1>8. CASE NextRead
  BY <1>8 DEF NextRead, NextReadEnd, NextReadLock, NextReadRtag, NextReadNoRtag,
     NextReadNote, NextReadUnlink, NextReadShare, NextReadMap, NextReadNoMap
<1>9. CASE Process
  <2>1. CASE Close
    BY <2>1 DEF Close, Stop
  <2>2. CASE Crash
    BY <2>2 DEF Crash, Stop
  <2>3. CASE Segv
    BY <2>3 DEF Segv, Stop
  <2>4. CASE OpenQueue
    <3>1. PICK r \in DOMAIN rtag, w \in DOMAIN wtag :
              /\ Openable(r, w) /\ widx' = w /\ wpos' = wtag[w].pos /\ wtag' = wtag
      BY <2>4 DEF OpenQueue
    <3> QED BY <3>1 DEF Openable
  <2>5. CASE OpenWithout
    BY <2>5 DEF OpenWithout
  <2> QED BY <1>9, <2>1, <2>2, <2>3, <2>4, <2>5 DEF Process
<1>10. ~ PutStray /\ ~ GetStray
  BY NoStrays
<1> QED BY <1>1, <1>2, <1>3, <1>4, <1>5, <1>6, <1>7, <1>8, <1>9, <1>10
        DEF Next, PutStep, GetStep

-----------------------------------------------------------------------------
\* The contents of a data file.

\* A record stays intact if its own bytes stay.
LEMMA Untouched ==
    ASSUME NEW f \in File, NEW g \in File, NEW o \in Offset,
           Starts(f, o), Intact(f, o),
           \A p \in Offset : p >= o /\ f[p][1] # 0 => g[p] = f[p]
    PROVE  Starts(g, o) /\ Intact(g, o)
<1>1. g[o] = f[o] /\ o \in Nat
  BY LayoutAssumption DEF Starts, Offset
<1>2. MsgAt(g, o) = MsgAt(f, o)
  BY <1>1 DEF MsgAt
<1>3. ASSUME NEW k \in 0 .. RecordLen(MsgAt(f, o)) - 1
      PROVE  g[o + k] = <<g[o][1], g[o][2], k>>
  <2>1. f[o] \in Cell
    BY DEF File
  <2>2. MsgAt(f, o) \in Message
    BY <2>1 DEF MsgAt, Message, Cell
  <2>3. RecordLen(MsgAt(f, o)) \in Nat /\ k \in Nat
    BY <2>2, RecordLenNat
  <2>4. o + k \in Offset
    BY <1>1, <2>3, LayoutAssumption DEF Intact, Fits, Offset
  <2>5. f[o + k] = <<f[o][1], f[o][2], k>>
    BY DEF Intact, CrcOk
  <2>6. f[o + k][1] # 0
    BY <2>5 DEF Starts
  <2>7. g[o + k] = f[o + k]
    BY <1>1, <2>3, <2>4, <2>6
  <2> QED BY <1>1, <2>5, <2>7
<1>4. CrcOk(g, o)
  BY <1>2, <1>3 DEF CrcOk
<1> QED BY <1>1, <1>2, <1>4 DEF Starts, Intact

\* Every record of a file is intact, but for those that begin at an offset of x.
Sound(f, x) ==
    \A o \in Offset : Starts(f, o) => o >= FileHead /\ (Intact(f, o) \/ o \in x)

\* A file just extended has no record.
LEMMA ZeroSound == Sound(ZeroFile, {}) /\ ZeroFile \in File
                   /\ \A pos \in Nat : Clear(ZeroFile, pos)
  BY DEF Sound, Starts, ZeroFile, Zero, Clear, File, Cell

\* The file head touches no record, and nothing behind it.
LEMMA HeadSound ==
    ASSUME NEW f \in File, NEW x, Sound(f, x)
    PROVE  /\ Sound(WriteFileHead(f), x)
           /\ \A pos \in Nat : pos >= FileHead /\ Clear(f, pos) => Clear(WriteFileHead(f), pos)
<1> DEFINE g == WriteFileHead(f)
<1>1. /\ g \in File
      /\ \A p \in Offset : g[p] = IF p < FileHead THEN HeadByte ELSE f[p]
  <2>1. g \in File
    BY WrittenFile, ZeroValues, 0 \in Nat
  <2> QED BY <2>1 DEF WriteFileHead
<1>2. \A pos \in Nat : pos >= FileHead /\ Clear(f, pos) => Clear(g, pos)
  BY <1>1, LayoutAssumption DEF Clear, HeadByte, Offset
<1> HIDE DEF g
<1>3. ASSUME NEW o \in Offset, Starts(g, o)
      PROVE  o >= FileHead /\ (Intact(g, o) \/ o \in x)
  <2>1. g[o] = f[o] /\ o >= FileHead
    BY <1>1, <1>3, LayoutAssumption DEF Starts, HeadByte, Offset
  <2>2. Starts(f, o)
    BY <1>3, <2>1 DEF Starts
  <2>3. CASE Intact(f, o)
    <3>1. \A p \in Offset : p >= o /\ f[p][1] # 0 => g[p] = f[p]
      BY <1>1, <2>1, LayoutAssumption DEF Offset
    <3> QED BY <1>1, <2>1, <2>2, <2>3, <3>1, Untouched
  <2>4. CASE o \in x
    BY <2>1, <2>4
  <2> QED BY <2>2, <2>3, <2>4 DEF Sound
<1>4. Sound(g, x)
  BY <1>3 DEF Sound
<1> QED BY <1>2, <1>4 DEF g

\* The bytes a write leaves.
LEMMA Bytes ==
    ASSUME NEW f \in File, NEW pos \in Nat, NEW m \in Message,
           NEW from \in Int, NEW to \in Int, NEW p \in Offset
    PROVE  /\ pos + from <= p /\ p <= pos + to
                   => WriteBytes(f, pos, m, from, to)[p] = <<m.id, m.len, p - pos>>
           /\ p < pos + from \/ pos + to < p
                   => WriteBytes(f, pos, m, from, to)[p] = f[p]
  BY LayoutAssumption DEF WriteBytes, Offset

\* The head of a record written at a position with nothing behind it.
LEMMA MsgHeadSound ==
    ASSUME NEW f \in File, Sound(f, {}), NEW pos \in Nat, pos >= FileHead,
           Clear(f, pos), NEW m \in Message, m.id # 0, Fits(pos, m)
    PROVE  /\ Sound(WriteMsgHead(f, pos, m), {pos})
           /\ Clear(WriteMsgHead(f, pos, m), pos + MsgHead)
           /\ \A k \in 0 .. MsgHead - 1 : WriteMsgHead(f, pos, m)[pos + k] = <<m.id, m.len, k>>
<1> DEFINE g == WriteMsgHead(f, pos, m)
<1>1. /\ g \in File
      /\ \A p \in Offset : pos <= p /\ p < pos + MsgHead => g[p] = <<m.id, m.len, p - pos>>
      /\ \A p \in Offset : p < pos \/ pos + MsgHead <= p => g[p] = f[p]
  <2>1. MsgHead \in Nat /\ Offset \subseteq Nat
    BY LayoutAssumption DEF Offset
  <2>2. g \in File
    BY WrittenFile
  <2>3. ASSUME NEW p \in Offset, pos <= p, p < pos + MsgHead
        PROVE  g[p] = <<m.id, m.len, p - pos>>
    <3>1. pos + 0 <= p /\ p <= pos + (MsgHead - 1) /\ MsgHead - 1 \in Int /\ 0 \in Int
      BY <2>1, <2>3
    <3>2. WriteBytes(f, pos, m, 0, MsgHead - 1)[p] = <<m.id, m.len, p - pos>>
      BY ONLY <3>1, Bytes, f \in File, pos \in Nat, m \in Message, p \in Offset
    <3> QED BY <3>2 DEF WriteMsgHead
  <2>4. ASSUME NEW p \in Offset, p < pos \/ pos + MsgHead <= p
        PROVE  g[p] = f[p]
    <3>1. /\ p < pos + 0 \/ pos + (MsgHead - 1) < p
          /\ MsgHead - 1 \in Int /\ 0 \in Int
      BY <2>1, <2>4
    <3>2. WriteBytes(f, pos, m, 0, MsgHead - 1)[p] = f[p]
      BY ONLY <3>1, Bytes, f \in File, pos \in Nat, m \in Message, p \in Offset
    <3> QED BY <3>2 DEF WriteMsgHead
  <2> QED BY <2>2, <2>3, <2>4
<1> HIDE DEF g
<1>2. Clear(g, pos + MsgHead)
  BY <1>1, LayoutAssumption DEF Clear, Offset
<1>3. ASSUME NEW k \in 0 .. MsgHead - 1 PROVE g[pos + k] = <<m.id, m.len, k>>
  <2>1. pos + k \in Offset /\ pos + k - pos = k
    BY LayoutAssumption DEF Offset, Fits, RecordLen, Message
  <2> QED BY <1>1, <2>1, LayoutAssumption
<1>4. ASSUME NEW o \in Offset, Starts(g, o)
      PROVE  o >= FileHead /\ (Intact(g, o) \/ o \in {pos})
  <2>1. CASE o = pos
    BY <2>1
  <2>2. CASE pos < o
    <3>1. f[o][1] = 0
      BY <2>2, LayoutAssumption DEF Clear, Offset
    <3>2. g[o] = <<m.id, m.len, o - pos>> \/ g[o] = f[o]
      BY <1>1, <2>2, LayoutAssumption DEF Offset
    <3>3. o - pos # 0
      BY <2>2, LayoutAssumption DEF Offset
    <3> QED BY <1>4, <3>1, <3>2, <3>3 DEF Starts
  <2>3. CASE o < pos
    <3>1. g[o] = f[o]
      BY <1>1, <2>3, LayoutAssumption DEF Offset
    <3>2. Starts(f, o)
      BY <1>4, <3>1 DEF Starts
    <3>3. Intact(f, o) /\ o >= FileHead
      BY <3>2 DEF Sound
    <3>4. \A p \in Offset : p >= o /\ f[p][1] # 0 => g[p] = f[p]
      BY <1>1, LayoutAssumption DEF Clear, Offset
    <3> QED BY <1>1, <3>2, <3>3, <3>4, Untouched
  <2> QED BY <2>1, <2>2, <2>3, LayoutAssumption DEF Offset
<1> QED BY <1>2, <1>3, <1>4 DEF Sound, g

\* The body makes the record intact.
LEMMA MsgBodySound ==
    ASSUME NEW f \in File, NEW pos \in Nat, Sound(f, {pos}), pos >= FileHead,
           NEW m \in Message, m.id # 0, Fits(pos, m),
           Clear(f, pos + MsgHead),
           \A k \in 0 .. MsgHead - 1 : f[pos + k] = <<m.id, m.len, k>>
    PROVE  /\ Sound(WriteMsgBody(f, pos, m), {})
           /\ Clear(WriteMsgBody(f, pos, m), pos + RecordLen(m))
           /\ MsgAt(WriteMsgBody(f, pos, m), pos) = m
           /\ Starts(WriteMsgBody(f, pos, m), pos)
<1> DEFINE g == WriteMsgBody(f, pos, m)
<1>1. RecordLen(m) \in Nat /\ RecordLen(m) >= MsgHead /\ MsgHead \in Nat /\ MsgHead >= 2
  BY LayoutAssumption DEF RecordLen, Message
<1>2. /\ g \in File
      /\ \A p \in Offset : pos + MsgHead <= p /\ p < pos + RecordLen(m)
                               => g[p] = <<m.id, m.len, p - pos>>
      /\ \A p \in Offset : p < pos + MsgHead \/ pos + RecordLen(m) <= p => g[p] = f[p]
  <2>1. Offset \subseteq Nat
    BY LayoutAssumption DEF Offset
  <2>2. g \in File
    BY WrittenFile
  <2>3. ASSUME NEW p \in Offset, pos + MsgHead <= p, p < pos + RecordLen(m)
        PROVE  g[p] = <<m.id, m.len, p - pos>>
    <3>1. p <= pos + (RecordLen(m) - 1) /\ RecordLen(m) - 1 \in Int /\ MsgHead \in Int
      BY <1>1, <2>1, <2>3
    <3> QED BY <2>3, <3>1, Bytes DEF WriteMsgBody
  <2>4. ASSUME NEW p \in Offset, p < pos + MsgHead \/ pos + RecordLen(m) <= p
        PROVE  g[p] = f[p]
    <3>1. /\ p < pos + MsgHead \/ pos + (RecordLen(m) - 1) < p
          /\ RecordLen(m) - 1 \in Int /\ MsgHead \in Int
      BY <1>1, <2>1, <2>4
    <3> QED BY <3>1, Bytes DEF WriteMsgBody
  <2> QED BY <2>2, <2>3, <2>4
<1> HIDE DEF g
<1>3. Clear(g, pos + RecordLen(m))
  BY <1>1, <1>2, LayoutAssumption DEF Clear, Offset
<1>4. ASSUME NEW k \in 0 .. RecordLen(m) - 1 PROVE g[pos + k] = <<m.id, m.len, k>>
  <2>1. pos + k \in Offset /\ pos + k - pos = k
    BY <1>1, LayoutAssumption DEF Offset, Fits
  <2>2. CASE k >= MsgHead
    BY <1>1, <1>2, <2>1, <2>2
  <2>3. CASE k < MsgHead
    <3>1. g[pos + k] = f[pos + k]
      BY <1>1, <1>2, <2>1, <2>3
    <3> QED BY <1>1, <2>3, <3>1
  <2> QED BY <1>1, <2>2, <2>3
<1>5. g[pos] = <<m.id, m.len, 0>>
  <2>1. 0 \in 0 .. RecordLen(m) - 1 /\ pos + 0 = pos
    BY <1>1
  <2> QED BY <1>4, <2>1
<1>6. MsgAt(g, pos) = m
  BY <1>5 DEF MsgAt, Message
<1>7. Intact(g, pos)
  BY <1>4, <1>5, <1>6 DEF Intact, CrcOk
<1>8. ASSUME NEW o \in Offset, Starts(g, o)
      PROVE  o >= FileHead /\ Intact(g, o)
  <2>1. CASE o = pos
    BY <2>1, <1>7
  <2>2. CASE pos < o
    <3>1. o - pos \in Nat \ {0}
      BY <2>2, LayoutAssumption DEF Offset
    <3>2. CASE o - pos \in 0 .. RecordLen(m) - 1
      <4>1. g[o] = <<m.id, m.len, o - pos>>
        <5>1. pos + (o - pos) = o
          BY LayoutAssumption DEF Offset
        <5> QED BY <1>4, <3>2, <5>1
      <4> QED BY <1>8, <3>1, <4>1 DEF Starts
    <3>3. CASE o - pos >= RecordLen(m)
      <4>1. g[o][1] = 0
        BY <1>1, <1>3, <3>1, <3>3, LayoutAssumption DEF Clear, Offset
      <4> QED BY <1>8, <4>1 DEF Starts
    <3> QED BY <1>1, <3>1, <3>2, <3>3
  <2>3. CASE o < pos
    <3>1. g[o] = f[o]
      BY <1>1, <1>2, <2>3, LayoutAssumption DEF Offset
    <3>2. Starts(f, o)
      BY <1>8, <3>1 DEF Starts
    <3>3. Intact(f, o) /\ o >= FileHead
      BY <2>3, <3>2, LayoutAssumption DEF Sound, Offset
    <3>4. \A p \in Offset : p >= o /\ f[p][1] # 0 => g[p] = f[p]
      BY <1>1, <1>2, LayoutAssumption DEF Clear, Offset
    <3> QED BY <1>2, <3>2, <3>3, <3>4, Untouched
  <2> QED BY <2>1, <2>2, <2>3, LayoutAssumption DEF Offset
<1>9. Starts(g, pos)
  BY <1>5 DEF Starts
<1> QED BY <1>3, <1>6, <1>8, <1>9 DEF Sound, g

-----------------------------------------------------------------------------
\* The records, step by step.

\* No step goes astray.
LEMMA NoStray == ASSUME Inv, HeldInv PROVE ~ Segv
  BY DEF Inv, HeldInv, LifeInv, Creating, Segv, PutTouches, GetTouches

\* A kill finds both threads where the directory is in order.
LEMMA QuietKill == ASSUME Inv, Orderly, Crash
                   PROVE  /\ ppc \in QuietPut /\ cpc \in QuietGet
                          /\ ~ open' /\ ppc' = "idle" /\ cpc' = "idle" /\ ~ up'
                          /\ UNCHANGED <<db, rtag, wtag, sent, acked, got, nput>>
<1>1. ppc \in CrashAt /\ cpc \in CrashAt /\ ncrash < MaxCrashes
  BY DEF Crash
<1>2. CrashAt \subseteq QuietPut \cup QuietGet
  BY <1>1 DEF Inv, TypeOK, Orderly
<1>3. ppc \in QuietPut /\ cpc \in QuietGet
  BY <1>1, <1>2 DEF Inv, TypeOK, PutPc, GetPc, QuietPut, QuietGet
<1> QED BY <1>3 DEF Crash, Stop

\* What a step does to the data files.
DbSame  == db' = db
DbLess  == \E i : db' = Without(db, i)
DbMore  == \E i : i \notin DOMAIN db /\ db' = With(db, i, ZeroFile)
DbHead  == wmap \in DOMAIN db /\ db' = [db EXCEPT ![wmap] = WriteFileHead(@)]

\* These are all the changes there are.
LEMMA DbStep == ASSUME Inv, HeldInv, RecInv, Next, Orderly PROVE 
    DbSame \/ DbLess \/ DbMore \/ DbHead \/ WriteHead \/ WriteBody
<1> USE DEF Inv, HeldInv, RecInv, Orderly, WriteFilesOpen, TypeOK, LifeInv, MutexInv,
            IndexInv, Creating, PutHolds, GetHolds, ReadFile, WriteFile, NoMap, NoFd
<1> USE DEF DbSame, DbLess, DbMore, DbHead
<1>1. CASE \E len \in Lens : PutBegin(len)
  BY <1>1 DEF PutBegin
<1>2. CASE GetBegin
  BY <1>2 DEF GetBegin
<1>3. CASE GetNothing
  BY <1>3 DEF GetNothing, vars
<1>4. CASE Create
  <2>1. CASE CreatNoSpace
    BY <2>1 DEF CreatNoSpace
  <2>2. CASE CreatSpace
    BY <2>2 DEF CreatSpace
  <2>3. CASE Wipe
    BY <2>3 DEF Wipe
  <2>4. CASE Wiped
    BY <2>4 DEF Wiped
  <2>5. CASE MakeRtag
    BY <2>5 DEF MakeRtag
  <2>6. CASE MakeWtag
    BY <2>6 DEF MakeWtag
  <2>7. CASE MakeDb
    <3>1. db' = Extended(db, 1) /\ DOMAIN db = {}
      BY <2>7 DEF MakeDb, MakeInv
    <3> QED BY <3>1 DEF Extended
  <2>8. CASE MakeFails
    BY <2>8 DEF MakeFails
  <2>9. CASE MakeOpen
    BY <2>9 DEF MakeOpen
  <2> QED BY <1>4, <2>1, <2>2, <2>3, <2>4, <2>5, <2>6, <2>7, <2>8, <2>9 DEF Create
<1>5. CASE WriteMsg
  <2>1. CASE PutFull
    BY <2>1 DEF PutFull
  <2>2. CASE PutNotFull
    BY <2>2 DEF PutNotFull
  <2>3. CASE PutFits
    BY <2>3 DEF PutFits
  <2>4. CASE PutOverflows
    BY <2>4 DEF PutOverflows, ContentInv
  <2>5. CASE WriteHead
    BY <2>5
  <2>6. CASE WriteBody
    BY <2>6
  <2>7. CASE WritePos
    BY <2>7 DEF WritePos
  <2>8. CASE LoadPutNum
    BY <2>8 DEF LoadPutNum
  <2>9. CASE IncPutNum
    BY <2>9 DEF IncPutNum
  <2>10. CASE PutReturn
    BY <2>10 DEF PutReturn
  <2> QED BY <1>5, <2>1, <2>2, <2>3, <2>4, <2>5, <2>6, <2>7, <2>8, <2>9, <2>10 DEF WriteMsg
<1>6. CASE NextWrite
  <2>1. CASE NextWriteNoSpace
    BY <2>1 DEF NextWriteNoSpace
  <2>2. CASE NextWriteLock
    BY <2>2 DEF NextWriteLock
  <2>3. CASE NextWriteWtag
    BY <2>3 DEF NextWriteWtag
  <2>4. CASE NextWriteNoWtag
    BY <2>4 DEF NextWriteNoWtag
  <2>5. CASE NextWriteDb
    <3>1. db' = Extended(db, widx + 1) /\ DOMAIN db = ReadFile .. widx /\ widx \in Nat
      BY <2>5 DEF NextWriteDb, DataInv
    <3>2. widx + 1 \notin DOMAIN db
      BY <3>1
    <3> QED BY <3>1, <3>2 DEF Extended
  <2>6. CASE NextWriteNoDb
    BY <2>6 DEF NextWriteNoDb
  <2>7. CASE NextWritePos
    BY <2>7 DEF NextWritePos
  <2>8. CASE NextWriteIndex
    BY <2>8 DEF NextWriteIndex
  <2>9. CASE NextWriteHead
    BY <2>9 DEF NextWriteHead, ContentInv
  <2>10. CASE NextWriteUnlink
    BY <2>10 DEF NextWriteUnlink
  <2> QED BY <1>6, <2>1, <2>2, <2>3, <2>4, <2>5, <2>6, <2>7, <2>8, <2>9, <2>10 DEF NextWrite
<1>7. CASE GetData
  BY <1>7 DEF GetData, EndIndex, EndPos, EndReset, ParseOk, ParseSkip, ParseBeyond,
     WrapGetNum, NoWrap, WrapLoad, WrapPutNum, NoteRtag, GetReturn
<1>8. CASE NextRead
  <2>1. CASE NextReadEnd
    BY <2>1 DEF NextReadEnd
  <2>2. CASE NextReadLock
    BY <2>2 DEF NextReadLock
  <2>3. CASE NextReadRtag
    BY <2>3 DEF NextReadRtag
  <2>4. CASE NextReadNoRtag
    BY <2>4 DEF NextReadNoRtag
  <2>5. CASE NextReadNote
    BY <2>5 DEF NextReadNote
  <2>6. CASE NextReadUnlink
    BY <2>6 DEF NextReadUnlink
  <2>7. CASE NextReadShare
    BY <2>7 DEF NextReadShare
  <2>8. CASE NextReadMap
    BY <2>8 DEF NextReadMap
  <2>9. CASE NextReadNoMap
    BY <2>9 DEF NextReadNoMap
  <2> QED BY <1>8, <2>1, <2>2, <2>3, <2>4, <2>5, <2>6, <2>7, <2>8, <2>9 DEF NextRead
<1>9. CASE Process
  <2>1. CASE Close
    BY <2>1 DEF Close, Stop
  <2>2. CASE Crash
    BY <2>2 DEF Crash, Stop
  <2>3. CASE Segv
    BY <2>3 DEF Segv, Stop
  <2>4. CASE OpenQueue
    BY <2>4 DEF OpenQueue
  <2>5. CASE OpenWithout
    BY <2>5 DEF OpenWithout
  <2> QED BY <1>9, <2>1, <2>2, <2>3, <2>4, <2>5 DEF Process
<1>10. ~ PutStray /\ ~ GetStray
  BY NoStrays
<1> QED BY <1>1, <1>2, <1>3, <1>4, <1>5, <1>6, <1>7, <1>8, <1>9, <1>10
        DEF Next, PutStep, GetStep

\* The record being copied is left alone by everything but its writer.
LEMMA WorkStep == ASSUME Inv, HeldInv, RecInv, Next, Orderly PROVE 
    \/ WriteHead \/ WriteBody
    \/ ppc = "body" /\ UNCHANGED <<open, ppc, pmsg, wmap, wpos, widx>>
    \/ ppc # "body" /\ ppc' # "body"
<1> USE DEF Inv, HeldInv, RecInv, Orderly, WriteFilesOpen, TypeOK, LifeInv, MutexInv,
            IndexInv, Creating, PutHolds, GetHolds, ReadFile, WriteFile, NoMap, NoFd
<1>1. CASE \E len \in Lens : PutBegin(len)
  BY <1>1 DEF PutBegin
<1>2. CASE GetBegin
  BY <1>2 DEF GetBegin
<1>3. CASE GetNothing
  BY <1>3 DEF GetNothing, vars
<1>4. CASE Create
  BY <1>4 DEF Create, CreatNoSpace, CreatSpace, Wipe, Wiped, MakeRtag, MakeWtag,
     MakeDb, MakeFails, MakeOpen
<1>5. CASE WriteMsg
  <2>1. CASE PutFull
    BY <2>1 DEF PutFull
  <2>2. CASE PutNotFull
    BY <2>2 DEF PutNotFull
  <2>3. CASE PutFits
    BY <2>3 DEF PutFits
  <2>4. CASE PutOverflows
    BY <2>4 DEF PutOverflows
  <2>5. CASE WriteHead
    BY <2>5
  <2>6. CASE WriteBody
    BY <2>6
  <2>7. CASE WritePos
    BY <2>7 DEF WritePos
  <2>8. CASE LoadPutNum
    BY <2>8 DEF LoadPutNum
  <2>9. CASE IncPutNum
    BY <2>9 DEF IncPutNum
  <2>10. CASE PutReturn
    BY <2>10 DEF PutReturn
  <2> QED BY <1>5, <2>1, <2>2, <2>3, <2>4, <2>5, <2>6, <2>7, <2>8, <2>9, <2>10 DEF WriteMsg
<1>6. CASE NextWrite
  BY <1>6 DEF NextWrite, NextWriteNoSpace, NextWriteLock, NextWriteWtag,
     NextWriteNoWtag, NextWriteDb, NextWriteNoDb, NextWritePos,
     NextWriteIndex, NextWriteHead, NextWriteUnlink
<1>7. CASE GetData
  BY <1>7 DEF GetData, EndIndex, EndPos, EndReset, ParseOk, ParseSkip, ParseBeyond,
     WrapGetNum, NoWrap, WrapLoad, WrapPutNum, NoteRtag, GetReturn
<1>8. CASE NextRead
  BY <1>8 DEF NextRead, NextReadEnd, NextReadLock, NextReadRtag, NextReadNoRtag,
     NextReadNote, NextReadUnlink, NextReadShare, NextReadMap, NextReadNoMap
<1>9. CASE Process
  <2>1. CASE Close
    BY <2>1 DEF Close, Stop
  <2>2. CASE Crash
    BY <2>2, QuietKill DEF QuietPut
  <2>3. CASE Segv
    BY <2>3, NoStray
  <2>4. CASE OpenQueue
    BY <2>4 DEF OpenQueue
  <2>5. CASE OpenWithout
    BY <2>5 DEF OpenWithout
  <2> QED BY <1>9, <2>1, <2>2, <2>3, <2>4, <2>5 DEF Process
<1>10. ~ PutStray /\ ~ GetStray
  BY NoStrays
<1> QED BY <1>1, <1>2, <1>3, <1>4, <1>5, <1>6, <1>7, <1>8, <1>9, <1>10
        DEF Next, PutStep, GetStep

\* No file is left half made.
LEMMA WholeStep == ASSUME Inv, HeldInv, RecInv, Next, Orderly PROVE WholeInv'
<1> USE DEF RecInv, WholeInv
<1>1. CASE DbSame
  BY <1>1 DEF DbSame
<1>2. CASE DbLess
  BY <1>2 DEF DbLess, Without
<1>3. CASE DbMore
  BY <1>3, ZeroSound DEF DbMore, With
<1>4. ASSUME wmap \in DOMAIN db, NEW f \in File, db' = [db EXCEPT ![wmap] = f]
      PROVE  WholeInv'
  BY <1>4
<1>5. /\ wpos \in Nat /\ pmsg \in Message
      /\ wmap \in mapped => wmap \in DOMAIN db
  BY DEF Inv, TypeOK, ContentInv
<1>6. CASE DbHead
  <2>1. WriteFileHead(db[wmap]) \in File
    BY <1>5, <1>6, WrittenFile DEF DbHead
  <2> QED BY <1>4, <1>6, <2>1 DEF DbHead
<1>7. CASE WriteHead
  <2>1. WriteMsgHead(db[wmap], wpos, pmsg) \in File
    BY <1>5, <1>7, WrittenFile DEF WriteHead
  <2> QED BY <1>4, <1>5, <1>7, <2>1 DEF WriteHead
<1>8. CASE WriteBody
  <2>1. WriteMsgBody(db[wmap], wpos, pmsg) \in File
    BY <1>5, <1>8, WrittenFile DEF WriteBody
  <2> QED BY <1>4, <1>5, <1>8, <2>1 DEF WriteBody
<1> QED BY <1>1, <1>2, <1>3, <1>6, <1>7, <1>8, DbStep

\* The offsets at which a file may hold a record that is not intact.
Working(i) == {o \in Offset : InWork(i, o)}

\* RecordInv, file by file.
LEMMA RecordFiles == RecordInv <=> \A i \in DOMAIN db : Sound(db[i], Working(i))
  BY DEF RecordInv, Sound, Working

\* The position a record is written to is in the file.
LEMMA PutPlace == ASSUME Inv, HeldInv, RecInv, ppc \in {"rec", "body"}
    PROVE /\ open /\ wmap \in DOMAIN db /\ wmap = WriteFile /\ db[wmap] \in File
          /\ pmsg \in Message /\ pmsg.id # 0 /\ Fits(wpos, pmsg)
          /\ wpos \in Offset /\ wpos >= FileHead
          /\ ppc = "rec" => Clear(db[wmap], wpos)
          /\ ppc = "body" => Clear(db[wmap], wpos + MsgHead)
<1>1. open /\ pmsg \in Message /\ wpos \in Nat
  BY DEF Inv, TypeOK, LifeInv, Creating
<1>2. wmap \in mapped
  BY <1>1 DEF HeldInv
<1>3. wmap \in DOMAIN db /\ db[wmap] \in File /\ wmap # NoMap
  BY <1>2 DEF Inv, ContentInv, TypeOK, NoMap
<1>4. wmap = WriteFile
  BY <1>1, <1>3 DEF Inv, IndexInv
<1>5. pmsg.id # 0 /\ Fits(wpos, pmsg) /\ wpos >= FileHead
  BY <1>1 DEF RecInv, WriteInv, PlaceInv, ClearInv
<1>6. wpos \in Offset
  BY <1>1, <1>5, LayoutAssumption DEF Fits, RecordLen, Offset, Message
<1>7. Clear(db[wmap], Frontier)
  BY <1>1, <1>4 DEF RecInv, WriteInv, PlaceInv, ClearInv
<1> QED BY <1>1, <1>3, <1>4, <1>5, <1>6, <1>7 DEF Frontier

\* Every record is intact but the one being copied.
LEMMA RecordStep == ASSUME Inv, HeldInv, RecInv, Next, Orderly PROVE RecordInv'
<1>1. \A i \in DOMAIN db : Sound(db[i], Working(i)) /\ db[i] \in File
  BY RecordFiles DEF RecInv, WholeInv
<1> SUFFICES ASSUME NEW i \in DOMAIN db' PROVE Sound(db'[i], Working(i)')
  <2>1. (\A i \in DOMAIN db : Sound(db[i], Working(i)))' => RecordInv'
    BY DEF RecordInv, Sound, Working
  <2> QED BY <2>1
<1>2. CASE WriteHead
  <2>1. ppc = "rec" /\ wmap' = wmap /\ wpos' = wpos /\ open' = open /\ ppc' = "body"
    BY <1>2 DEF WriteHead
  <2>2. Working(i) = {}
    BY <2>1 DEF Working, InWork
  <2>3. CASE i = wmap
    <3>1. Working(i)' = {wpos}
      BY <2>1, <2>3, PutPlace DEF Working, InWork
    <3>2. Sound(WriteMsgHead(db[wmap], wpos, pmsg), {wpos})
      <4>1. wpos \in Nat
        BY DEF Inv, TypeOK
      <4> QED BY <1>1, <2>1, <2>2, <2>3, <4>1, PutPlace, MsgHeadSound
    <3>3. db'[i] = WriteMsgHead(db[wmap], wpos, pmsg)
      BY <1>2, <2>1, <2>3, PutPlace DEF WriteHead
    <3> QED BY <3>1, <3>2, <3>3
  <2>4. CASE i # wmap
    <3>1. db'[i] = db[i] /\ i \in DOMAIN db
      BY <1>2, <2>4 DEF WriteHead
    <3>2. Working(i)' = {}
      BY <2>1, <2>4 DEF Working, InWork
    <3> QED BY <1>1, <2>2, <3>1, <3>2
  <2> QED BY <2>3, <2>4
<1>3. CASE WriteBody
  <2>1. ppc = "body" /\ wmap' = wmap /\ wpos' = wpos /\ open' = open /\ ppc' = "pos"
    BY <1>3 DEF WriteBody
  <2>2. Working(i)' = {}
    BY <2>1 DEF Working, InWork
  <2>3. CASE i = wmap
    <3>1. Working(i) = {wpos}
      BY <2>1, <2>3, PutPlace DEF Working, InWork
    <3>2. Sound(WriteMsgBody(db[wmap], wpos, pmsg), {})
      <4>1. wpos \in Nat
        BY DEF Inv, TypeOK
      <4>2. \A k \in 0 .. MsgHead - 1 : db[wmap][wpos + k] = <<pmsg.id, pmsg.len, k>>
        BY <2>1, PutPlace DEF RecInv, WriteInv, PlaceInv, ClearInv
      <4> QED BY <1>1, <2>1, <2>3, <3>1, <4>1, <4>2, PutPlace, MsgBodySound
    <3>3. db'[i] = WriteMsgBody(db[wmap], wpos, pmsg)
      BY <1>3, <2>1, <2>3, PutPlace DEF WriteBody
    <3> QED BY <2>2, <3>2, <3>3
  <2>4. CASE i # wmap
    <3>1. db'[i] = db[i] /\ i \in DOMAIN db
      BY <1>3, <2>4 DEF WriteBody
    <3>2. Working(i) = {}
      BY <2>1, <2>4 DEF Working, InWork
    <3> QED BY <1>1, <2>2, <3>1, <3>2
  <2> QED BY <2>3, <2>4
<1>4. CASE ~ WriteHead /\ ~ WriteBody
  <2>1. Working(i)' = Working(i)
    BY <1>4, WorkStep DEF Working, InWork
  <2>2. CASE DbSame
    BY <1>1, <2>1, <2>2 DEF DbSame
  <2>3. CASE DbLess
    BY <1>1, <2>1, <2>3 DEF DbLess, Without
  <2>4. CASE DbMore
    <3>1. PICK n : n \notin DOMAIN db /\ db' = With(db, n, ZeroFile)
      BY <2>4 DEF DbMore
    <3>2. CASE i = n
      <4>1. Sound(ZeroFile, Working(i))
        BY ZeroSound DEF Sound
      <4> QED BY <2>1, <3>1, <3>2, <4>1 DEF With
    <3>3. CASE i # n
      BY <1>1, <2>1, <3>1, <3>3 DEF With
    <3> QED BY <3>2, <3>3
  <2>5. CASE DbHead
    <3>1. i \in DOMAIN db /\ db'[i] \in {db[i], WriteFileHead(db[i])}
      BY <2>5 DEF DbHead
    <3> QED BY <1>1, <2>1, <3>1, HeadSound
  <2> QED BY <1>4, <2>2, <2>3, <2>4, <2>5, DbStep
<1> QED BY <1>2, <1>3, <1>4

\* Where the next record goes.
LEMMA PlaceStep == ASSUME Inv, HeldInv, RecInv, Next, Orderly PROVE PlaceInv'
<1> USE DEF Inv, HeldInv, RecInv, Orderly, WriteFilesOpen, TypeOK, LifeInv, MutexInv,
            IndexInv, Creating, PutHolds, GetHolds, ReadFile, WriteFile, NoMap, NoFd
<1> USE LayoutAssumption DEF PlaceInv, WriteInv
<1>1. CASE \E len \in Lens : PutBegin(len)
  <2>1. PICK len \in Lens : PutBegin(len)
    BY <1>1
  <2>2. /\ pmsg' = [id |-> nput + 1, len |-> len] /\ ValidLen(len) /\ nput \in Nat
        /\ UNCHANGED <<open, wpos>> /\ ppc' \in {"full", "creat"} /\ (open => wpos >= FileHead)
    BY <2>1 DEF PutBegin
  <2>3. pmsg'.id # 0 /\ pmsg'.len = len
    BY ONLY <2>2
  <2> QED BY ONLY <2>2, <2>3 DEF PlaceInv
<1>2. CASE GetBegin
  BY <1>2 DEF GetBegin
<1>3. CASE GetNothing
  BY <1>3 DEF GetNothing, vars
<1>4. CASE Create
  <2>1. CASE CreatNoSpace
    BY <2>1 DEF CreatNoSpace
  <2>2. CASE CreatSpace
    BY <2>2 DEF CreatSpace
  <2>3. CASE Wipe
    BY <2>3 DEF Wipe
  <2>4. CASE Wiped
    BY <2>4 DEF Wiped
  <2>5. CASE MakeRtag
    BY <2>5 DEF MakeRtag
  <2>6. CASE MakeWtag
    BY <2>6 DEF MakeWtag
  <2>7. CASE MakeDb
    BY <2>7 DEF MakeDb
  <2>8. CASE MakeFails
    BY <2>8 DEF MakeFails
  <2>9. CASE MakeOpen
    BY <2>9 DEF MakeOpen
  <2> QED BY <1>4, <2>1, <2>2, <2>3, <2>4, <2>5, <2>6, <2>7, <2>8, <2>9 DEF Create
<1>5. CASE WriteMsg
  <2>1. CASE PutFull
    BY <2>1 DEF PutFull
  <2>2. CASE PutNotFull
    BY <2>2 DEF PutNotFull
  <2>3. CASE PutFits
    BY <2>3 DEF PutFits
  <2>4. CASE PutOverflows
    BY <2>4 DEF PutOverflows
  <2>5. CASE WriteHead
    BY <2>5 DEF WriteHead
  <2>6. CASE WriteBody
    BY <2>6 DEF WriteBody
  <2>7. CASE WritePos
    <3>1. RecordLen(pmsg) \in Nat
      BY RecordLenNat
    <3> QED BY <2>7, <3>1 DEF WritePos
  <2>8. CASE LoadPutNum
    BY <2>8 DEF LoadPutNum
  <2>9. CASE IncPutNum
    BY <2>9 DEF IncPutNum
  <2>10. CASE PutReturn
    BY <2>10 DEF PutReturn
  <2> QED BY <1>5, <2>1, <2>2, <2>3, <2>4, <2>5, <2>6, <2>7, <2>8, <2>9, <2>10 DEF WriteMsg
<1>6. CASE NextWrite
  <2>1. CASE NextWriteNoSpace
    BY <2>1 DEF NextWriteNoSpace
  <2>2. CASE NextWriteLock
    BY <2>2 DEF NextWriteLock
  <2>3. CASE NextWriteWtag
    BY <2>3 DEF NextWriteWtag
  <2>4. CASE NextWriteNoWtag
    BY <2>4 DEF NextWriteNoWtag
  <2>5. CASE NextWriteDb
    BY <2>5 DEF NextWriteDb
  <2>6. CASE NextWriteNoDb
    BY <2>6 DEF NextWriteNoDb
  <2>7. CASE NextWritePos
    BY <2>7 DEF NextWritePos
  <2>8. CASE NextWriteIndex
    BY <2>8 DEF NextWriteIndex
  <2>9. CASE NextWriteHead
    BY <2>9 DEF NextWriteHead
  <2>10. CASE NextWriteUnlink
    <3>1. pmsg \in Message /\ ValidLen(pmsg.len) /\ open /\ wpos = FileHead
      BY <2>10 DEF NextWriteUnlink
    <3>2. Fits(FileHead, pmsg)
      <4>1. pmsg.len \in Nat /\ FileHead \in Nat /\ MsgHead \in Nat /\ MaxFile \in Nat
        BY ONLY <3>1, LayoutAssumption DEF Message
      <4> QED BY ONLY <3>1, <4>1 DEF ValidLen, Fits, RecordLen
    <3> QED BY <2>10, <3>1, <3>2 DEF NextWriteUnlink
  <2> QED BY <1>6, <2>1, <2>2, <2>3, <2>4, <2>5, <2>6, <2>7, <2>8, <2>9, <2>10 DEF NextWrite
<1>7. CASE GetData
  BY <1>7 DEF GetData, EndIndex, EndPos, EndReset, ParseOk, ParseSkip, ParseBeyond,
     WrapGetNum, NoWrap, WrapLoad, WrapPutNum, NoteRtag, GetReturn
<1>8. CASE NextRead
  BY <1>8 DEF NextRead, NextReadEnd, NextReadLock, NextReadRtag, NextReadNoRtag,
     NextReadNote, NextReadUnlink, NextReadShare, NextReadMap, NextReadNoMap
<1>9. CASE Process
  <2>1. CASE Close
    BY <2>1 DEF Close, Stop
  <2>2. CASE Crash
    BY <2>2, QuietKill
  <2>3. CASE Segv
    BY <2>3, NoStray
  <2>4. CASE OpenQueue
    <3>1. PICK r \in DOMAIN rtag, w \in DOMAIN wtag :
              /\ Openable(r, w) /\ wpos' = wtag[w].pos
      BY <2>4 DEF OpenQueue
    <3>2. wtag[w].pos >= FileHead
      <4>1. ~ open /\ ppc = "idle" /\ Resting /\ DOMAIN db # {}
        BY <2>4, <3>1 DEF OpenQueue, MakeInv, Openable, HandleFiles
      <4> QED BY <3>1, <4>1 DEF Resting
    <3>3. ppc = "idle" /\ ppc' = ppc
      BY <2>4 DEF OpenQueue
    <3> QED BY <3>1, <3>2, <3>3
  <2>5. CASE OpenWithout
    BY <2>5 DEF OpenWithout
  <2> QED BY <1>9, <2>1, <2>2, <2>3, <2>4, <2>5 DEF Process
<1>10. ~ PutStray /\ ~ GetStray
  BY NoStrays
<1> QED BY <1>1, <1>2, <1>3, <1>4, <1>5, <1>6, <1>7, <1>8, <1>9, <1>10
        DEF Next, PutStep, GetStep

\* What is clear from a position on is clear from a later one on.
LEMMA ClearLater == ASSUME NEW f, NEW a \in Int, NEW b \in Int, a <= b, Clear(f, a)
                    PROVE  Clear(f, b)
  BY LayoutAssumption DEF Clear, Offset

\* The file being written exists, and has its size.
LEMMA WriteFileThere ==
    ASSUME Inv, RecInv, open
    PROVE  /\ WriteFile \in DOMAIN db /\ db[WriteFile] \in File /\ WriteFile \in Nat
           /\ Frontier \in Nat /\ ReadFile <= WriteFile /\ ridx <= widx
           /\ ridx \in Nat /\ widx \in Nat /\ wpos \in Nat
           /\ ppc # "wpos" => Frontier >= FileHead
<1>1. /\ ridx \in Nat /\ widx \in Nat /\ wpos \in Nat /\ pmsg \in Message /\ ridx <= widx
      /\ 1 <= ridx
  BY DEF Inv, TypeOK, IndexInv
<1>2. WriteFile \in Nat /\ ReadFile \in Nat /\ ReadFile <= WriteFile
  BY <1>1 DEF WriteFile, ReadFile
<1>3. WriteFile \in DOMAIN db
  BY <1>2 DEF RecInv, DataInv
<1>4. wpos >= FileHead
  BY DEF RecInv, WriteInv, PlaceInv
<1>5. /\ RecordLen(pmsg) \in Nat /\ MsgHead \in Nat /\ FileHead \in Nat
  BY <1>1, RecordLenNat, LayoutAssumption
<1>6. Frontier \in Nat /\ (ppc # "wpos" => Frontier >= FileHead)
  BY <1>1, <1>4, <1>5 DEF Frontier
<1> QED BY <1>1, <1>2, <1>3, <1>6 DEF RecInv, WholeInv

\* A step that leaves the write position and its file leaves it clear.
LEMMA SameClear ==
    ASSUME Inv, RecInv, open', open,
           db'[WriteFile] = db[WriteFile], UNCHANGED <<WriteFile, Frontier>>,
           ppc' # "body" \/ UNCHANGED <<ppc, wmap, wpos, pmsg, db>>
    PROVE  ClearInv'
<1>1. Clear(db[WriteFile], Frontier) /\ ClearInv
  BY DEF RecInv, WriteInv, ClearInv
<1>2. Clear(db[WriteFile], Frontier)'
  BY <1>1
<1> QED BY <1>1, <1>2 DEF ClearInv

\* Nothing is written behind the write position.
LEMMA ClearStep == ASSUME Inv, HeldInv, RecInv, Next, Orderly PROVE ClearInv'
<1> USE DEF Inv, HeldInv, RecInv, Orderly, WriteFilesOpen, TypeOK, LifeInv, MutexInv,
            IndexInv, Creating, PutHolds, GetHolds, ReadFile, WriteFile, NoMap, NoFd
<1>1. CASE \E len \in Lens : PutBegin(len)
  <2>1. CASE open
    <3>1. /\ open' /\ db' = db
          /\ UNCHANGED <<WriteFile, Frontier>> /\ ppc' # "body"
      BY <1>1, <2>1 DEF PutBegin, Frontier
    <3> QED BY <2>1, <3>1, SameClear
  <2>2. CASE ~ open
    BY <1>1, <2>2 DEF PutBegin, ClearInv
  <2> QED BY <2>1, <2>2
<1>2. CASE GetBegin
  <2>1. CASE open
    <3>1. /\ open' /\ db' = db
          /\ UNCHANGED <<WriteFile, Frontier, ppc, wmap, wpos, pmsg>>
      BY <1>2, <2>1 DEF GetBegin, Frontier, vars
    <3> QED BY <2>1, <3>1, SameClear
  <2>2. CASE ~ open
    BY <1>2, <2>2 DEF GetBegin, ClearInv, vars
  <2> QED BY <2>1, <2>2
<1>3. CASE GetNothing
  <2>1. CASE open
    <3>1. /\ open' /\ db' = db
          /\ UNCHANGED <<WriteFile, Frontier, ppc, wmap, wpos, pmsg>>
      BY <1>3, <2>1 DEF GetNothing, Frontier, vars
    <3> QED BY <2>1, <3>1, SameClear
  <2>2. CASE ~ open
    BY <1>3, <2>2 DEF GetNothing, ClearInv, vars
  <2> QED BY <2>1, <2>2
<1>4. CASE Create
  <2>1. CASE CreatNoSpace
    <3>1. ~ open'
      BY <2>1 DEF CreatNoSpace
    <3> QED BY <3>1 DEF ClearInv
  <2>2. CASE CreatSpace
    <3>1. ~ open'
      BY <2>2 DEF CreatSpace
    <3> QED BY <3>1 DEF ClearInv
  <2>3. CASE Wipe
    <3>1. ~ open'
      BY <2>3 DEF Wipe
    <3> QED BY <3>1 DEF ClearInv
  <2>4. CASE Wiped
    <3>1. ~ open'
      BY <2>4 DEF Wiped
    <3> QED BY <3>1 DEF ClearInv
  <2>5. CASE MakeRtag
    <3>1. ~ open'
      BY <2>5 DEF MakeRtag
    <3> QED BY <3>1 DEF ClearInv
  <2>6. CASE MakeWtag
    <3>1. ~ open'
      BY <2>6 DEF MakeWtag
    <3> QED BY <3>1 DEF ClearInv
  <2>7. CASE MakeDb
    <3>1. ~ open'
      BY <2>7 DEF MakeDb
    <3> QED BY <3>1 DEF ClearInv
  <2>8. CASE MakeFails
    <3>1. ~ open'
      BY <2>8 DEF MakeFails
    <3> QED BY <3>1 DEF ClearInv
  <2>9. CASE MakeOpen
    <3>1. db' = db /\ db[1] = ZeroFile
      BY <2>9 DEF MakeOpen, MakeInv
    <3>2. WriteFile' = 1 /\ Frontier' = FileHead /\ ppc' # "body"
      BY <2>9 DEF MakeOpen, Frontier
    <3>3. Clear(ZeroFile, FileHead)
      BY ZeroSound, LayoutAssumption
    <3> QED BY <3>1, <3>2, <3>3 DEF ClearInv
  <2> QED BY <1>4, <2>1, <2>2, <2>3, <2>4, <2>5, <2>6, <2>7, <2>8, <2>9 DEF Create
<1>5. CASE WriteMsg
  <2>1. CASE PutFull
    <3>1. /\ open /\ open' /\ db' = db
          /\ UNCHANGED <<WriteFile, Frontier>>
          /\ ppc' # "body" \/ UNCHANGED <<ppc, wmap, wpos, pmsg>>
      BY <2>1 DEF PutFull, Frontier
    <3> QED BY <3>1, SameClear
  <2>2. CASE PutNotFull
    <3>1. /\ open /\ open' /\ db' = db
          /\ UNCHANGED <<WriteFile, Frontier>>
          /\ ppc' # "body" \/ UNCHANGED <<ppc, wmap, wpos, pmsg>>
      BY <2>2 DEF PutNotFull, Frontier
    <3> QED BY <3>1, SameClear
  <2>3. CASE PutFits
    <3>1. /\ open /\ open' /\ db' = db
          /\ UNCHANGED <<WriteFile, Frontier>>
          /\ ppc' # "body" \/ UNCHANGED <<ppc, wmap, wpos, pmsg>>
      BY <2>3 DEF PutFits, Frontier
    <3> QED BY <3>1, SameClear
  <2>4. CASE PutOverflows
    <3>1. open /\ wmap \in mapped /\ ppc # "wpos"
      BY <2>4 DEF PutOverflows
    <3>2. wmap # NoMap /\ wmap \in DOMAIN db /\ wmap = WriteFile
      BY <3>1 DEF ContentInv
    <3>3. open' /\ db' = [db EXCEPT ![wmap] = WriteFileHead(db[wmap])]
      BY <2>4, <3>2 DEF PutOverflows
    <3>4. UNCHANGED <<WriteFile, Frontier>> /\ ppc' # "body"
      BY <2>4 DEF PutOverflows, Frontier
    <3>5. open /\ open' /\ UNCHANGED <<WriteFile, Frontier>> /\ ppc' # "body" /\ ppc # "wpos"
      BY <3>1, <3>3, <3>4
    <3>6. db'[WriteFile] = WriteFileHead(db[WriteFile])
      <4>1. db'[wmap] = WriteFileHead(db[wmap])
        BY ONLY <3>2, <3>3
      <4> QED BY ONLY <3>2, <4>1
    <3>7. Sound(db[WriteFile], Working(WriteFile))
      BY <3>5, WriteFileThere, RecordFiles
    <3>8. Clear(WriteFileHead(db[WriteFile]), Frontier)
      BY <3>5, <3>7, WriteFileThere, HeadSound DEF WriteInv, ClearInv
    <3> QED BY <3>5, <3>6, <3>8 DEF ClearInv
  <2>5. CASE WriteHead
    <3>1. ppc = "rec" /\ ppc' = "body" /\ UNCHANGED <<wmap, wpos, pmsg, WriteFile>>
      BY <2>5 DEF WriteHead
    <3>2. db'[wmap] = WriteMsgHead(db[wmap], wpos, pmsg)
      BY <2>5, <3>1, PutPlace DEF WriteHead
    <3>3. Sound(db[wmap], {})
      <4>1. Working(wmap) = {}
        BY <3>1 DEF Working, InWork
      <4> QED BY <3>1, <4>1, PutPlace, RecordFiles
    <3>4. Frontier' = wpos + MsgHead /\ wpos \in Nat
      BY <3>1 DEF Frontier
    <3>5. /\ Clear(WriteMsgHead(db[wmap], wpos, pmsg), wpos + MsgHead)
          /\ \A k \in 0 .. MsgHead - 1 :
                 WriteMsgHead(db[wmap], wpos, pmsg)[wpos + k] = <<pmsg.id, pmsg.len, k>>
      <4>1. /\ db[wmap] \in File /\ wpos \in Nat /\ wpos >= FileHead /\ Clear(db[wmap], wpos)
            /\ pmsg \in Message /\ pmsg.id # 0 /\ Fits(wpos, pmsg)
        BY <3>1, <3>4, PutPlace
      <4> QED BY ONLY <3>3, <4>1, MsgHeadSound
    <3> HIDE DEF WriteFile
    <3>6. WriteFile' = wmap
      BY <3>1, PutPlace
    <3> QED BY ONLY <3>1, <3>2, <3>4, <3>5, <3>6 DEF ClearInv
  <2>6. CASE WriteBody
    <3>1. ppc = "body" /\ ppc' = "pos" /\ UNCHANGED <<wmap, wpos, pmsg, WriteFile>>
      BY <2>6 DEF WriteBody
    <3>2. db'[wmap] = WriteMsgBody(db[wmap], wpos, pmsg)
      BY <2>6, <3>1, PutPlace DEF WriteBody
    <3>3. Sound(db[wmap], {wpos})
      <4>1. Working(wmap) = {wpos}
        BY <3>1, PutPlace DEF Working, InWork
      <4> QED BY <3>1, <4>1, PutPlace, RecordFiles
    <3>4. Frontier' = wpos + RecordLen(pmsg) /\ wpos \in Nat
      BY <3>1 DEF Frontier
    <3>5. Clear(WriteMsgBody(db[wmap], wpos, pmsg), wpos + RecordLen(pmsg))
      BY <3>1, <3>3, <3>4, PutPlace, MsgBodySound DEF WriteInv, ClearInv
    <3> HIDE DEF WriteFile
    <3>6. WriteFile' = wmap
      BY <3>1, PutPlace
    <3> QED BY ONLY <3>1, <3>2, <3>4, <3>5, <3>6 DEF ClearInv
  <2>7. CASE WritePos
    <3>1. /\ open /\ open' /\ db' = db
          /\ UNCHANGED <<WriteFile, Frontier>>
          /\ ppc' # "body" \/ UNCHANGED <<ppc, wmap, wpos, pmsg>>
      BY <2>7 DEF WritePos, Frontier
    <3> QED BY <3>1, SameClear
  <2>8. CASE LoadPutNum
    <3>1. /\ open /\ open' /\ db' = db
          /\ UNCHANGED <<WriteFile, Frontier>>
          /\ ppc' # "body" \/ UNCHANGED <<ppc, wmap, wpos, pmsg>>
      BY <2>8 DEF LoadPutNum, Frontier
    <3> QED BY <3>1, SameClear
  <2>9. CASE IncPutNum
    <3>1. /\ open /\ open' /\ db' = db
          /\ UNCHANGED <<WriteFile, Frontier>>
          /\ ppc' # "body" \/ UNCHANGED <<ppc, wmap, wpos, pmsg>>
      BY <2>9 DEF IncPutNum, Frontier
    <3> QED BY <3>1, SameClear
  <2>10. CASE PutReturn
    <3>1. /\ open /\ open' /\ db' = db
          /\ UNCHANGED <<WriteFile, Frontier>>
          /\ ppc' # "body" \/ UNCHANGED <<ppc, wmap, wpos, pmsg>>
      BY <2>10 DEF PutReturn, Frontier
    <3> QED BY <3>1, SameClear
  <2> QED BY <1>5, <2>1, <2>2, <2>3, <2>4, <2>5, <2>6, <2>7, <2>8, <2>9, <2>10 DEF WriteMsg
<1>6. CASE NextWrite
  <2>1. CASE NextWriteNoSpace
    <3>1. /\ open /\ open' /\ db' = db
          /\ UNCHANGED <<WriteFile, Frontier>>
          /\ ppc' # "body" \/ UNCHANGED <<ppc, wmap, wpos, pmsg>>
      BY <2>1 DEF NextWriteNoSpace, Frontier
    <3> QED BY <3>1, SameClear
  <2>2. CASE NextWriteLock
    <3>1. /\ open /\ open' /\ db' = db
          /\ UNCHANGED <<WriteFile, Frontier>>
          /\ ppc' # "body" \/ UNCHANGED <<ppc, wmap, wpos, pmsg>>
      BY <2>2 DEF NextWriteLock, Frontier
    <3> QED BY <3>1, SameClear
  <2>3. CASE NextWriteWtag
    <3>1. /\ open /\ open' /\ db' = db
          /\ UNCHANGED <<WriteFile, Frontier>>
          /\ ppc' # "body" \/ UNCHANGED <<ppc, wmap, wpos, pmsg>>
      BY <2>3 DEF NextWriteWtag, Frontier
    <3> QED BY <3>1, SameClear
  <2>4. CASE NextWriteNoWtag
    BY <2>4 DEF NextWriteNoWtag
  <2>5. CASE NextWriteDb
    <3>1. /\ db' = Extended(db, widx + 1) /\ DOMAIN db = ReadFile .. widx /\ widx \in Nat
          /\ WriteFile' = widx + 1 /\ ppc' = "wpos" /\ Frontier' = 0
      BY <2>5 DEF NextWriteDb, DataInv, Frontier
    <3>2. widx + 1 \notin DOMAIN db
      BY <3>1
    <3>3. db'[widx + 1] = ZeroFile
      BY <3>1, <3>2 DEF Extended, With
    <3>4. Clear(ZeroFile, 0)
      BY ZeroSound
    <3> QED BY <3>1, <3>3, <3>4 DEF ClearInv
  <2>6. CASE NextWriteNoDb
    BY <2>6 DEF NextWriteNoDb
  <2>7. CASE NextWritePos
    <3>1. /\ open /\ db' = db /\ UNCHANGED WriteFile
          /\ Frontier = 0 /\ Frontier' = FileHead /\ ppc' # "body"
      BY <2>7 DEF NextWritePos, Frontier
    <3>2. Clear(db[WriteFile], FileHead)
      BY <3>1, ClearLater, LayoutAssumption DEF WriteInv, ClearInv
    <3> QED BY <3>1, <3>2 DEF ClearInv
  <2>8. CASE NextWriteIndex
    <3>1. /\ open /\ open' /\ db' = db
          /\ UNCHANGED <<WriteFile, Frontier>>
          /\ ppc' # "body" \/ UNCHANGED <<ppc, wmap, wpos, pmsg>>
      BY <2>8 DEF NextWriteIndex, Frontier
    <3> QED BY <3>1, SameClear
  <2>9. CASE NextWriteHead
    <3>1. open /\ wmap \in mapped /\ ppc # "wpos"
      BY <2>9 DEF NextWriteHead
    <3>2. wmap # NoMap /\ wmap \in DOMAIN db /\ wmap = WriteFile
      BY <3>1 DEF ContentInv
    <3>3. open' /\ db' = [db EXCEPT ![wmap] = WriteFileHead(db[wmap])]
      BY <2>9, <3>2 DEF NextWriteHead
    <3>4. UNCHANGED <<WriteFile, Frontier>> /\ ppc' # "body"
      BY <2>9 DEF NextWriteHead, Frontier
    <3>5. open /\ open' /\ UNCHANGED <<WriteFile, Frontier>> /\ ppc' # "body" /\ ppc # "wpos"
      BY <3>1, <3>3, <3>4
    <3>6. db'[WriteFile] = WriteFileHead(db[WriteFile])
      <4>1. db'[wmap] = WriteFileHead(db[wmap])
        BY ONLY <3>2, <3>3
      <4> QED BY ONLY <3>2, <4>1
    <3>7. Sound(db[WriteFile], Working(WriteFile))
      BY <3>5, WriteFileThere, RecordFiles
    <3>8. Clear(WriteFileHead(db[WriteFile]), Frontier)
      BY <3>5, <3>7, WriteFileThere, HeadSound DEF WriteInv, ClearInv
    <3> QED BY <3>5, <3>6, <3>8 DEF ClearInv
  <2>10. CASE NextWriteUnlink
    <3>1. /\ open /\ open' /\ db' = db
          /\ UNCHANGED <<WriteFile, Frontier>>
          /\ ppc' # "body" \/ UNCHANGED <<ppc, wmap, wpos, pmsg>>
      BY <2>10 DEF NextWriteUnlink, Frontier
    <3> QED BY <3>1, SameClear
  <2> QED BY <1>6, <2>1, <2>2, <2>3, <2>4, <2>5, <2>6, <2>7, <2>8, <2>9, <2>10 DEF NextWrite
<1>7. CASE GetData
  <2>1. CASE EndIndex
    <3>1. /\ open /\ open' /\ db' = db
          /\ UNCHANGED <<WriteFile, Frontier>>
          /\ ppc' # "body" \/ UNCHANGED <<ppc, wmap, wpos, pmsg>>
      BY <2>1 DEF EndIndex, Frontier
    <3> QED BY <3>1, SameClear
  <2>2. CASE EndPos
    <3>1. /\ open /\ open' /\ db' = db
          /\ UNCHANGED <<WriteFile, Frontier>>
          /\ ppc' # "body" \/ UNCHANGED <<ppc, wmap, wpos, pmsg>>
      BY <2>2 DEF EndPos, Frontier
    <3> QED BY <3>1, SameClear
  <2>3. CASE EndReset
    <3>1. /\ open /\ open' /\ db' = db
          /\ UNCHANGED <<WriteFile, Frontier>>
          /\ ppc' # "body" \/ UNCHANGED <<ppc, wmap, wpos, pmsg>>
      BY <2>3 DEF EndReset, Frontier
    <3> QED BY <3>1, SameClear
  <2>4. CASE ParseOk
    <3>1. /\ open /\ open' /\ db' = db
          /\ UNCHANGED <<WriteFile, Frontier>>
          /\ ppc' # "body" \/ UNCHANGED <<ppc, wmap, wpos, pmsg>>
      BY <2>4 DEF ParseOk, Frontier
    <3> QED BY <3>1, SameClear
  <2>5. CASE ParseSkip
    <3>1. /\ open /\ open' /\ db' = db
          /\ UNCHANGED <<WriteFile, Frontier>>
          /\ ppc' # "body" \/ UNCHANGED <<ppc, wmap, wpos, pmsg>>
      BY <2>5 DEF ParseSkip, Frontier
    <3> QED BY <3>1, SameClear
  <2>6. CASE ParseBeyond
    <3>1. /\ open /\ open' /\ db' = db
          /\ UNCHANGED <<WriteFile, Frontier>>
          /\ ppc' # "body" \/ UNCHANGED <<ppc, wmap, wpos, pmsg>>
      BY <2>6 DEF ParseBeyond, Frontier
    <3> QED BY <3>1, SameClear
  <2>7. CASE WrapGetNum
    <3>1. /\ open /\ open' /\ db' = db
          /\ UNCHANGED <<WriteFile, Frontier>>
          /\ ppc' # "body" \/ UNCHANGED <<ppc, wmap, wpos, pmsg>>
      BY <2>7 DEF WrapGetNum, Frontier
    <3> QED BY <3>1, SameClear
  <2>8. CASE NoWrap
    <3>1. /\ open /\ open' /\ db' = db
          /\ UNCHANGED <<WriteFile, Frontier>>
          /\ ppc' # "body" \/ UNCHANGED <<ppc, wmap, wpos, pmsg>>
      BY <2>8 DEF NoWrap, Frontier
    <3> QED BY <3>1, SameClear
  <2>9. CASE WrapLoad
    <3>1. /\ open /\ open' /\ db' = db
          /\ UNCHANGED <<WriteFile, Frontier>>
          /\ ppc' # "body" \/ UNCHANGED <<ppc, wmap, wpos, pmsg>>
      BY <2>9 DEF WrapLoad, Frontier
    <3> QED BY <3>1, SameClear
  <2>10. CASE WrapPutNum
    <3>1. /\ open /\ open' /\ db' = db
          /\ UNCHANGED <<WriteFile, Frontier>>
          /\ ppc' # "body" \/ UNCHANGED <<ppc, wmap, wpos, pmsg>>
      BY <2>10 DEF WrapPutNum, Frontier
    <3> QED BY <3>1, SameClear
  <2>11. CASE NoteRtag
    <3>1. /\ open /\ open' /\ db' = db
          /\ UNCHANGED <<WriteFile, Frontier>>
          /\ ppc' # "body" \/ UNCHANGED <<ppc, wmap, wpos, pmsg>>
      BY <2>11 DEF NoteRtag, Frontier
    <3> QED BY <3>1, SameClear
  <2>12. CASE GetReturn
    <3>1. /\ open /\ open' /\ db' = db
          /\ UNCHANGED <<WriteFile, Frontier>>
          /\ ppc' # "body" \/ UNCHANGED <<ppc, wmap, wpos, pmsg>>
      BY <2>12 DEF GetReturn, Frontier
    <3> QED BY <3>1, SameClear
  <2> QED BY <1>7, <2>1, <2>2, <2>3, <2>4, <2>5, <2>6, <2>7, <2>8, <2>9, <2>10,
         <2>11, <2>12 DEF GetData
<1>8. CASE NextRead
  <2>1. CASE NextReadEnd
    <3>1. /\ open /\ open' /\ db' = db
          /\ UNCHANGED <<WriteFile, Frontier>>
          /\ ppc' # "body" \/ UNCHANGED <<ppc, wmap, wpos, pmsg>>
      BY <2>1 DEF NextReadEnd, Frontier
    <3> QED BY <3>1, SameClear
  <2>2. CASE NextReadLock
    <3>1. /\ open /\ open' /\ db' = db
          /\ UNCHANGED <<WriteFile, Frontier>>
          /\ ppc' # "body" \/ UNCHANGED <<ppc, wmap, wpos, pmsg>>
      BY <2>2 DEF NextReadLock, Frontier
    <3> QED BY <3>1, SameClear
  <2>3. CASE NextReadRtag
    <3>1. /\ open /\ open' /\ db' = db
          /\ UNCHANGED <<WriteFile, Frontier>>
          /\ ppc' # "body" \/ UNCHANGED <<ppc, wmap, wpos, pmsg>>
      BY <2>3 DEF NextReadRtag, Frontier
    <3> QED BY <3>1, SameClear
  <2>4. CASE NextReadNoRtag
    <3>1. /\ open /\ open' /\ db' = db
          /\ UNCHANGED <<WriteFile, Frontier>>
          /\ ppc' # "body" \/ UNCHANGED <<ppc, wmap, wpos, pmsg>>
      BY <2>4 DEF NextReadNoRtag, Frontier
    <3> QED BY <3>1, SameClear
  <2>5. CASE NextReadNote
    <3>1. /\ open /\ open' /\ db' = db
          /\ UNCHANGED <<WriteFile, Frontier>>
          /\ ppc' # "body" \/ UNCHANGED <<ppc, wmap, wpos, pmsg>>
      BY <2>5 DEF NextReadNote, Frontier
    <3> QED BY <3>1, SameClear
  <2>6. CASE NextReadUnlink
    <3>1. /\ open /\ open' /\ db' = db
          /\ UNCHANGED <<WriteFile, Frontier>>
          /\ ppc' # "body" \/ UNCHANGED <<ppc, wmap, wpos, pmsg>>
      BY <2>6 DEF NextReadUnlink, Frontier
    <3> QED BY <3>1, SameClear
  <2>7. CASE NextReadShare
    <3>1. /\ open /\ open' /\ db' = Without(db, ridx - 1)
          /\ UNCHANGED <<WriteFile, Frontier, ppc, wmap, wpos, pmsg>>
      BY <2>7 DEF NextReadShare, Frontier
    <3>2. ridx - 1 # WriteFile
      BY <3>1, WriteFileThere
    <3>3. db'[WriteFile] = db[WriteFile]
      BY <3>1, <3>2, WriteFileThere DEF Without
    <3>4. ppc = "body" => wmap = WriteFile
      BY <3>1, PutPlace
    <3> QED BY <3>1, <3>3, <3>4 DEF WriteInv, ClearInv
  <2>8. CASE NextReadMap
    <3>1. /\ open /\ open' /\ db' = Without(db, ridx - 1)
          /\ UNCHANGED <<WriteFile, Frontier, ppc, wmap, wpos, pmsg>>
      BY <2>8 DEF NextReadMap, Frontier
    <3>2. ridx - 1 # WriteFile
      BY <3>1, WriteFileThere
    <3>3. db'[WriteFile] = db[WriteFile]
      BY <3>1, <3>2, WriteFileThere DEF Without
    <3>4. ppc = "body" => wmap = WriteFile
      BY <3>1, PutPlace
    <3> QED BY <3>1, <3>3, <3>4 DEF WriteInv, ClearInv
  <2>9. CASE NextReadNoMap
    <3>1. /\ open /\ open' /\ db' = Without(db, ridx - 1)
          /\ UNCHANGED <<WriteFile, Frontier, ppc, wmap, wpos, pmsg>>
      BY <2>9 DEF NextReadNoMap, Frontier
    <3>2. ridx - 1 # WriteFile
      BY <3>1, WriteFileThere
    <3>3. db'[WriteFile] = db[WriteFile]
      BY <3>1, <3>2, WriteFileThere DEF Without
    <3>4. ppc = "body" => wmap = WriteFile
      BY <3>1, PutPlace
    <3> QED BY <3>1, <3>3, <3>4 DEF WriteInv, ClearInv
  <2> QED BY <1>8, <2>1, <2>2, <2>3, <2>4, <2>5, <2>6, <2>7, <2>8, <2>9 DEF NextRead
<1>9. CASE Process
  <2>1. CASE Close
    <3>1. ~ open'
      BY <2>1 DEF Close, Stop
    <3> QED BY <3>1 DEF ClearInv
  <2>2. CASE Crash
    <3>1. ~ open'
      BY <2>2, QuietKill
    <3> QED BY <3>1 DEF ClearInv
  <2>3. CASE Segv
    BY <2>3, NoStray
  <2>4. CASE OpenQueue
    <3>1. PICK r \in DOMAIN rtag, w \in DOMAIN wtag :
              /\ Openable(r, w) /\ wpos' = wtag[w].pos /\ widx' = w /\ db' = db
      BY <2>4 DEF OpenQueue
    <3>2. Clear(db[w], wtag[w].pos)
      <4>1. ~ open /\ ppc = "idle" /\ Resting /\ DOMAIN db # {}
        BY <2>4, <3>1 DEF OpenQueue, MakeInv, Openable, HandleFiles
      <4> QED BY <3>1, <4>1 DEF Resting
    <3>3. ppc = "idle" /\ ppc' = ppc
      BY <2>4 DEF OpenQueue
    <3>4. WriteFile' = w /\ Frontier' = wpos'
      BY <3>1, <3>3 DEF Frontier
    <3> QED BY <3>1, <3>2, <3>3, <3>4 DEF ClearInv
  <2>5. CASE OpenWithout
    <3>1. ~ open'
      BY <2>5 DEF OpenWithout
    <3> QED BY <3>1 DEF ClearInv
  <2> QED BY <1>9, <2>1, <2>2, <2>3, <2>4, <2>5 DEF Process
<1>10. ~ PutStray /\ ~ GetStray
  BY NoStrays
<1> QED BY <1>1, <1>2, <1>3, <1>4, <1>5, <1>6, <1>7, <1>8, <1>9, <1>10
        DEF Next, PutStep, GetStep

\* The consumer parses behind the producer.
LEMMA ParseStep == ASSUME Inv, HeldInv, RecInv, Next, Orderly PROVE ParseInv'
<1> USE DEF Inv, HeldInv, RecInv, Orderly, WriteFilesOpen, TypeOK, LifeInv, MutexInv,
            IndexInv, Creating, PutHolds, GetHolds, ReadFile, WriteFile, NoMap, NoFd
<1> USE LayoutAssumption DEF ParseInv
<1>1. CASE \E len \in Lens : PutBegin(len)
  BY <1>1 DEF PutBegin
<1>2. CASE GetBegin
  BY <1>2 DEF GetBegin
<1>3. CASE GetNothing
  BY <1>3 DEF GetNothing, vars
<1>4. CASE Create
  BY <1>4 DEF Create, CreatNoSpace, CreatSpace, Wipe, Wiped, MakeRtag, MakeWtag,
     MakeDb, MakeFails, MakeOpen
<1>5. CASE WriteMsg
  <2>1. CASE PutFull
    BY <2>1 DEF PutFull
  <2>2. CASE PutNotFull
    BY <2>2 DEF PutNotFull
  <2>3. CASE PutFits
    BY <2>3 DEF PutFits
  <2>4. CASE PutOverflows
    BY <2>4 DEF PutOverflows
  <2>5. CASE WriteHead
    BY <2>5 DEF WriteHead
  <2>6. CASE WriteBody
    BY <2>6 DEF WriteBody
  <2>7. CASE WritePos
    <3>1. RecordLen(pmsg) \in Nat
      BY RecordLenNat
    <3> QED BY <2>7, <3>1 DEF WritePos
  <2>8. CASE LoadPutNum
    BY <2>8 DEF LoadPutNum
  <2>9. CASE IncPutNum
    BY <2>9 DEF IncPutNum
  <2>10. CASE PutReturn
    BY <2>10 DEF PutReturn
  <2> QED BY <1>5, <2>1, <2>2, <2>3, <2>4, <2>5, <2>6, <2>7, <2>8, <2>9, <2>10 DEF WriteMsg
<1>6. CASE NextWrite
  <2>1. CASE NextWriteNoSpace
    BY <2>1 DEF NextWriteNoSpace
  <2>2. CASE NextWriteLock
    BY <2>2 DEF NextWriteLock
  <2>3. CASE NextWriteWtag
    BY <2>3 DEF NextWriteWtag
  <2>4. CASE NextWriteNoWtag
    BY <2>4 DEF NextWriteNoWtag
  <2>5. CASE NextWriteDb
    BY <2>5 DEF NextWriteDb
  <2>6. CASE NextWriteNoDb
    BY <2>6 DEF NextWriteNoDb
  <2>7. CASE NextWritePos
    BY <2>7 DEF NextWritePos
  <2>8. CASE NextWriteIndex
    BY <2>8 DEF NextWriteIndex
  <2>9. CASE NextWriteHead
    BY <2>9 DEF NextWriteHead
  <2>10. CASE NextWriteUnlink
    BY <2>10 DEF NextWriteUnlink
  <2> QED BY <1>6, <2>1, <2>2, <2>3, <2>4, <2>5, <2>6, <2>7, <2>8, <2>9, <2>10 DEF NextWrite
<1>7. CASE GetData
  <2>1. CASE EndIndex
    BY <2>1 DEF EndIndex
  <2>2. CASE EndPos
    BY <2>2 DEF EndPos
  <2>3. CASE EndReset
    BY <2>3 DEF EndReset
  <2>4. CASE ParseOk
    BY <2>4 DEF ParseOk
  <2>5. CASE ParseSkip
    BY <2>5 DEF ParseSkip
  <2>6. CASE ParseBeyond
    BY <2>6 DEF ParseBeyond
  <2>7. CASE WrapGetNum
    BY <2>7 DEF WrapGetNum
  <2>8. CASE NoWrap
    BY <2>8 DEF NoWrap
  <2>9. CASE WrapLoad
    BY <2>9 DEF WrapLoad
  <2>10. CASE WrapPutNum
    BY <2>10 DEF WrapPutNum
  <2>11. CASE NoteRtag
    BY <2>11 DEF NoteRtag
  <2>12. CASE GetReturn
    BY <2>12 DEF GetReturn
  <2> QED BY <1>7, <2>1, <2>2, <2>3, <2>4, <2>5, <2>6, <2>7, <2>8, <2>9, <2>10,
         <2>11, <2>12 DEF GetData
<1>8. CASE NextRead
  <2>1. CASE NextReadEnd
    BY <2>1 DEF NextReadEnd
  <2>2. CASE NextReadLock
    BY <2>2 DEF NextReadLock
  <2>3. CASE NextReadRtag
    BY <2>3 DEF NextReadRtag
  <2>4. CASE NextReadNoRtag
    BY <2>4 DEF NextReadNoRtag
  <2>5. CASE NextReadNote
    BY <2>5 DEF NextReadNote
  <2>6. CASE NextReadUnlink
    BY <2>6 DEF NextReadUnlink
  <2>7. CASE NextReadShare
    BY <2>7 DEF NextReadShare
  <2>8. CASE NextReadMap
    BY <2>8 DEF NextReadMap
  <2>9. CASE NextReadNoMap
    BY <2>9 DEF NextReadNoMap
  <2> QED BY <1>8, <2>1, <2>2, <2>3, <2>4, <2>5, <2>6, <2>7, <2>8, <2>9 DEF NextRead
<1>9. CASE Process
  <2>1. CASE Close
    BY <2>1 DEF Close, Stop
  <2>2. CASE Crash
    BY <2>2, QuietKill
  <2>3. CASE Segv
    BY <2>3, NoStray
  <2>4. CASE OpenQueue
    BY <2>4 DEF OpenQueue
  <2>5. CASE OpenWithout
    BY <2>5 DEF OpenWithout
  <2> QED BY <1>9, <2>1, <2>2, <2>3, <2>4, <2>5 DEF Process
<1>10. ~ PutStray /\ ~ GetStray
  BY NoStrays
<1> QED BY <1>1, <1>2, <1>3, <1>4, <1>5, <1>6, <1>7, <1>8, <1>9, <1>10
        DEF Next, PutStep, GetStep

\* A directory is left as mq_store_init needs it, or empty.
LEMMA MakeStep == ASSUME Inv, HeldInv, RecInv, Next, Orderly PROVE MakeInv'
<1> USE DEF Inv, HeldInv, RecInv, Orderly, WriteFilesOpen, TypeOK, LifeInv, MutexInv,
            IndexInv, Creating, PutHolds, GetHolds, ReadFile, WriteFile, NoMap, NoFd
<1> USE DEF MakeInv
<1>1. CASE \E len \in Lens : PutBegin(len)
  <2>1. UNCHANGED <<open, db, rtag, wtag>> /\ ppc = "idle" /\ (~ open => ppc' = "creat")
    BY <1>1 DEF PutBegin
  <2>2. CASE ~ open
    <3>1. Resting'
      BY <2>1, <2>2 DEF Resting
    <3> QED BY <2>1, <2>2, <3>1
  <2>3. CASE open
    BY <2>1, <2>3
  <2> QED BY <2>2, <2>3
<1>2. CASE GetBegin
  BY <1>2 DEF GetBegin
<1>3. CASE GetNothing
  <2>1. UNCHANGED <<open, ppc, db, rtag, wtag>>
    BY <1>3 DEF GetNothing, vars
  <2>2. Resting' = Resting
    BY <2>1 DEF Resting
  <2> QED BY <2>1, <2>2
<1>4. CASE Create
  <2>1. CASE CreatNoSpace
    <3>1. ~ open /\ Resting /\ UNCHANGED <<db, rtag, wtag>> /\ ppc' = "idle"
      BY <2>1 DEF CreatNoSpace
    <3>2. Resting'
      BY <3>1 DEF Resting
    <3> QED BY <3>1, <3>2
  <2>2. CASE CreatSpace
    BY <2>2 DEF CreatSpace
  <2>3. CASE Wipe
    BY <2>3 DEF Wipe
  <2>4. CASE Wiped
    BY <2>4 DEF Wiped
  <2>5. CASE MakeRtag
    <3>1. /\ DOMAIN db = {} /\ DOMAIN rtag = {} /\ DOMAIN wtag = {} /\ UNCHANGED <<db, wtag>>
          /\ rtag' = Created(rtag, 1, Empty) /\ ppc' = "mk_wtag"
      BY <2>5 DEF MakeRtag
    <3>2. DOMAIN rtag' = {1}
      BY ONLY <3>1 DEF Created, With
    <3> QED BY <3>1, <3>2
  <2>6. CASE MakeWtag
    <3>1. /\ DOMAIN db = {} /\ DOMAIN rtag = {1} /\ DOMAIN wtag = {} /\ UNCHANGED <<db, rtag>>
          /\ wtag' = Created(wtag, 1, Empty) /\ ppc' = "mk_db"
      BY <2>6 DEF MakeWtag
    <3>2. DOMAIN wtag' = {1}
      BY ONLY <3>1 DEF Created, With
    <3> QED BY <3>1, <3>2
  <2>7. CASE MakeDb
    <3>1. /\ DOMAIN db = {} /\ DOMAIN rtag = {1} /\ DOMAIN wtag = {1} /\ ppc' = "mk_open"
          /\ db' = Extended(db, 1)
          /\ rtag' = TagWrite(rtag, 1, 0, 0) /\ wtag' = TagWrite(wtag, 1, 0, 0)
      BY <2>7 DEF MakeDb
    <3>2. DOMAIN db' = {1} /\ db'[1] = ZeroFile
      BY ONLY <3>1 DEF Extended, With
    <3>3. DOMAIN rtag' = {1} /\ DOMAIN wtag' = {1} /\ rtag'[1] = [num |-> 0, pos |-> 0]
      BY ONLY <3>1 DEF TagWrite, With, NoFd
    <3> QED BY <3>1, <3>2, <3>3
  <2>8. CASE MakeFails
    <3>1. ppc = "mk_rtag" /\ ~ open /\ DOMAIN db = {} /\ db' = db /\ ppc' = "idle"
      BY <2>8 DEF MakeFails
    <3> QED BY <3>1 DEF Resting
  <2>9. CASE MakeOpen
    BY <2>9 DEF MakeOpen
  <2> QED BY <1>4, <2>1, <2>2, <2>3, <2>4, <2>5, <2>6, <2>7, <2>8, <2>9 DEF Create
<1>5. CASE WriteMsg
  BY <1>5 DEF WriteMsg, PutFull, PutNotFull, PutFits, PutOverflows, WriteHead,
     WriteBody, WritePos, LoadPutNum, IncPutNum, PutReturn
<1>6. CASE NextWrite
  BY <1>6 DEF NextWrite, NextWriteNoSpace, NextWriteLock, NextWriteWtag,
     NextWriteNoWtag, NextWriteDb, NextWriteNoDb, NextWritePos,
     NextWriteIndex, NextWriteHead, NextWriteUnlink
<1>7. CASE GetData
  BY <1>7 DEF GetData, EndIndex, EndPos, EndReset, ParseOk, ParseSkip, ParseBeyond,
     WrapGetNum, NoWrap, WrapLoad, WrapPutNum, NoteRtag, GetReturn
<1>8. CASE NextRead
  BY <1>8 DEF NextRead, NextReadEnd, NextReadLock, NextReadRtag, NextReadNoRtag,
     NextReadNote, NextReadUnlink, NextReadShare, NextReadMap, NextReadNoMap
<1>9. CASE Process
  <2>1. CASE Close \/ Crash
    <3>1. /\ ppc \in QuietPut /\ cpc \in QuietGet /\ UNCHANGED <<db, rtag, wtag>>
          /\ ppc' = "idle"
      <4>1. CASE Close
        BY <4>1 DEF Close, Stop, QuietPut, QuietGet
      <4>2. CASE Crash
        BY <4>2, QuietKill
      <4> QED BY <2>1, <4>1, <4>2
    <3>2. CASE ~ open
      <4>1. Resting
        BY <3>1, <3>2 DEF QuietPut
      <4>2. Resting'
        BY <3>1, <4>1 DEF Resting
      <4> QED BY <3>1, <4>2
    <3>3. CASE open
      <4>0. ppc \in {"idle", "lock"} /\ cpc \notin {"r_write", "r_unlink", "r_map"}
        BY <3>1, <3>3 DEF QuietPut, QuietGet
      <4>1. /\ ridx <= widx /\ DOMAIN db = ridx .. widx
            /\ DOMAIN rtag = {ridx} /\ DOMAIN wtag = {widx}
        BY <3>3, <4>0 DEF DataInv, RtagInv, RtagFiles, WtagInv, WtagFiles
      <4>2. rtag[ridx] # Empty /\ wtag[widx] # Empty /\ wtag[widx].pos = wpos
        BY <3>3, <4>0 DEF RtagInv, NotedInv, Fresh
      <4>3. wpos >= FileHead /\ Clear(db[widx], wpos)
        BY <3>3, <4>0 DEF WriteInv, PlaceInv, ClearInv, Frontier
      <4>4. ridx \in DOMAIN rtag /\ widx \in DOMAIN wtag
        BY <4>1
      <4>5. Resting
        BY ONLY <4>1, <4>2, <4>3, <4>4 DEF Resting
      <4>6. Resting'
        BY <3>1, <4>5 DEF Resting
      <4> QED BY <3>1, <4>6
    <3> QED BY <3>2, <3>3
  <2>3. CASE Segv
    BY <2>3, NoStray
  <2>4. CASE OpenQueue
    BY <2>4 DEF OpenQueue
  <2>5. CASE OpenWithout
    <3>1. ~ open /\ Resting /\ UNCHANGED <<db, rtag, wtag>> /\ ppc' = "idle"
      BY <2>5 DEF OpenWithout
    <3>2. Resting'
      BY <3>1 DEF Resting
    <3> QED BY <3>1, <3>2
  <2> QED BY <1>9, <2>1, <2>3, <2>4, <2>5 DEF Process
<1>10. ~ PutStray /\ ~ GetStray
  BY NoStrays
<1> QED BY <1>1, <1>2, <1>3, <1>4, <1>5, <1>6, <1>7, <1>8, <1>9, <1>10
        DEF Next, PutStep, GetStep

\* The error returns that leave a closed number behind do not happen.
LEMMA StaleStep == ASSUME Inv, HeldInv, RecInv, Next, Orderly PROVE StaleInv'
<1> USE DEF StaleInv, RecInv
<1>1. CASE \E len \in Lens : PutBegin(len)
  BY <1>1 DEF PutBegin
<1>2. CASE GetBegin \/ GetNothing
  BY <1>2 DEF GetBegin, GetNothing, vars
<1>3. CASE Create
  BY <1>3 DEF Create, CreatNoSpace, CreatSpace, Wipe, Wiped, MakeRtag,
              MakeWtag, MakeDb, MakeFails, MakeOpen
<1>4. CASE WriteMsg
  BY <1>4 DEF WriteMsg, PutFull, PutNotFull, PutFits, PutOverflows, WriteHead,
              WriteBody, WritePos, LoadPutNum, IncPutNum, PutReturn
<1>5. CASE NextWrite
  BY <1>5 DEF NextWrite, NextWriteNoSpace, NextWriteLock, NextWriteWtag,
              NextWriteNoWtag, NextWriteDb, NextWriteNoDb, NextWritePos,
              NextWriteIndex, NextWriteHead, NextWriteUnlink, Reopened,
              Orderly, WriteFilesOpen
<1>6. CASE GetData
  BY <1>6 DEF GetData, EndIndex, EndPos, EndReset, ParseOk, ParseSkip,
              ParseBeyond, WrapGetNum, NoWrap, WrapLoad, WrapPutNum,
              NoteRtag, GetReturn
<1>7. CASE NextRead
  BY <1>7, ReadFileThere DEF NextRead, NextReadEnd, NextReadLock, NextReadRtag,
              NextReadNoRtag, NextReadNote, NextReadUnlink, NextReadShare,
              NextReadMap, Reopened
<1>8. CASE Process
  BY <1>8 DEF Process, Close, Crash, Segv, Stop, OpenQueue, OpenWithout
<1>9. ~ PutStray /\ ~ GetStray
  BY NoStrays
<1> QED BY <1>1, <1>2, <1>3, <1>4, <1>5, <1>6, <1>7, <1>8, <1>9
        DEF Next, PutStep, GetStep

\* It holds before the store is opened for the first time ...
LEMMA RecInit == Init => RecInv
  BY DEF Init, RecInv, StaleInv, DataInv, RtagInv, WtagInv, NotedInv, WholeInv, RecordInv,
     WriteInv, PlaceInv, ClearInv, ParseInv, MakeInv, Resting

\* ... and every step keeps it.
LEMMA RecStep == Orderly /\ Inv /\ HeldInv /\ RecInv /\ [Next]_vars => RecInv'
<1> SUFFICES ASSUME Orderly, Inv, HeldInv, RecInv, [Next]_vars PROVE RecInv'
  OBVIOUS
<1>1. CASE Next
  <2>1. DataInv' /\ RtagInv' /\ WtagInv' /\ NotedInv'
    BY <1>1, DataStep, RtagStep, WtagStep, NotedStep
  <2>2. WholeInv' /\ RecordInv' /\ PlaceInv' /\ ClearInv' /\ ParseInv' /\ MakeInv'
    BY <1>1, WholeStep, RecordStep, PlaceStep, ClearStep, ParseStep, MakeStep
  <2> QED BY <1>1, <2>1, <2>2, StaleStep DEF RecInv, WriteInv
<1>2. CASE UNCHANGED vars
  <2>1. DataInv' /\ RtagInv' /\ WtagInv' /\ NotedInv'
    BY <1>2 DEF vars, RecInv, DataInv, RtagInv, RtagFiles, WtagInv, WtagFiles, NotedInv,
       Fresh, ReadFile, WriteFile
  <2>2. WholeInv' /\ RecordInv'
    BY <1>2 DEF vars, RecInv, WholeInv, RecordInv, InWork
  <2>3. PlaceInv' /\ ClearInv' /\ ParseInv'
    BY <1>2 DEF vars, RecInv, WriteInv, PlaceInv, ClearInv, ParseInv, Frontier, WriteFile
  <2>4. StaleInv' /\ MakeInv'
    BY <1>2 DEF vars, RecInv, StaleInv, MakeInv, Resting
  <2> QED BY <2>1, <2>2, <2>3, <2>4 DEF RecInv, WriteInv
<1> QED BY <1>1, <1>2

\* The invariant holds, for any number of messages, rotations, devices found
\* full, rtag files that cannot be opened, restarts and kills at such places of
\* two threads that take no lock.
THEOREM RecordsKept == ASSUME Orderly PROVE Spec => [](Inv /\ HeldInv /\ RecInv)
<1>1. Init => HeldInv
  BY DEF Init, HeldInv
<1>2. Inv /\ HeldInv /\ [Next]_vars => HeldInv'
  <2> SUFFICES ASSUME Inv, HeldInv, [Next]_vars PROVE HeldInv'
    OBVIOUS
  <2>1. CASE Next
    BY <2>1, HeldStep DEF Orderly
  <2>2. CASE UNCHANGED vars
    BY <2>2 DEF vars, HeldInv
  <2> QED BY <2>1, <2>2
<1>3. Inv /\ HeldInv /\ RecInv /\ [Next]_vars => RecInv'
  BY RecStep
<1> QED BY <1>1, <1>2, <1>3, RecInit, Invariance, PTL DEF Spec

\* Between calls the directory of a queue that has not been killed while a file
\* was written or created holds the data files from the one being read to the
\* one being written and one tag file of each kind, however often the device was
\* full, an rtag file could not be opened or a start failed (find_handle_file,
\* mq_store_file.c, relies on it at the next start).
THEOREM DirectoryTidy == ASSUME Orderly PROVE Spec => []TidyDirectory
<1>1. RecInv => TidyDirectory
  BY DEF RecInv, DataInv, RtagInv, RtagFiles, WtagInv, WtagFiles, ReadFile, WriteFile,
     TidyDirectory
<1> QED BY <1>1, RecordsKept, PTL

\* The consumer does not reach the record being copied.
LEMMA NoTorn == Inv /\ HeldInv /\ RecInv => NoTornRead
<1> SUFFICES ASSUME Inv, HeldInv, RecInv, cpc = "parse", rmap \in mapped,
                    Parsed = "CRC_ERR"
             PROVE  FALSE
  BY DEF NoTornRead
<1>1. /\ rmap \in DOMAIN db /\ rpos \in Nat /\ rmap # NoMap /\ open
      /\ wmap \in {NoMap, WriteFile}
  BY DEF Inv, TypeOK, LifeInv, ContentInv, NoMap, IndexInv
<1>2. /\ rpos + MsgHead < MaxFile /\ IsMagic(db[rmap], rpos)
      /\ Fits(rpos, MsgAt(db[rmap], rpos)) /\ ~ CrcOk(db[rmap], rpos)
  BY <1>1, LayoutAssumption DEF Parsed, ParseMsg
<1>3. rpos \in Offset
  BY <1>1, <1>2, LayoutAssumption DEF Offset
<1>4. Starts(db[rmap], rpos) /\ ~ Intact(db[rmap], rpos)
  BY <1>2 DEF IsMagic, Starts, Intact
<1>5. InWork(rmap, rpos)
  BY <1>1, <1>3, <1>4 DEF RecInv, RecordInv
<1>6. rmap = WriteFile /\ rpos = wpos
  BY <1>1, <1>5 DEF InWork
<1>7. WriteFile \in Nat /\ wpos \in Nat
  BY <1>1, WriteFileThere
<1> QED BY <1>1, <1>6, <1>7 DEF RecInv, ParseInv

\* mq_sm_db_parse_msg (mq_store_msg.c) never finds a record with a CRC that does
\* not check: the consumer, which takes no lock to read a record, does not
\* reach the one the producer is copying, and no rotation leaves a number behind
\* through which a tag line could reach a data file.
THEOREM TornReads == ASSUME Orderly PROVE Spec => []NoTornRead
  BY NoTorn, RecordsKept, PTL

=============================================================================
