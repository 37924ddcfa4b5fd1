----------------------------- MODULE UcmqStore ------------------------------
(***************************************************************************)
(* One libucmq queue: the mq_queue_t structure in memory, the files of its *)
(* directory, the thread that puts (mq_store_put), the thread that gets    *)
(* (mq_store_get), and the process around them, which may be closed,       *)
(* killed and opened again (mq_store_close, mq_store_init).                *)
(*                                                                         *)
(* An action stands for the code between two points that another thread,   *)
(* or a restart after a kill, could tell apart: one read or write of a     *)
(* shared field, or one change of the directory.  The thread program       *)
(* counters ppc and cpc name the next such point.                          *)
(*                                                                         *)
(* A kill stops the process; what it wrote to files and mappings stays.    *)
(* Loss of power is not modelled.                                          *)
(***************************************************************************)
EXTENDS DbFile, FiniteSets, Sequences

CONSTANTS
    Lens,         \* body lengths the producer tries
    MaxQue,       \* def_max_queue: limit of unread messages, 0 for none
    Wide,         \* put_num and get_num are unsigned modulo Wide (2^64)
    Serialised,   \* TRUE if the callers never overlap a put and a get
    Faults,       \* the calls that may fail, see FaultKind
    CrashAt,      \* program counters at which the process may be killed
    MaxMsgs,      \* bound on the records written
    MaxFaults,    \* bound on failing calls
    MaxCrashes,   \* bound on kills
    MaxCloses     \* bound on orderly closes

FaultKind == {"space", "wtag", "db", "rtag", "rdb", "open"}

PutPc == {"idle", "creat", "wipe", "mk_rtag", "mk_wtag", "mk_db", "mk_open",
          "full", "fit", "lock", "wtag", "wdb", "wpos", "widx", "head",
          "unlink", "rec", "body", "pos", "num", "inc", "tag"}
GetPc == {"idle", "index", "end", "reset", "parse", "wrap", "load", "store",
          "rtag", "ret", "r_lock", "r_open", "r_write", "r_unlink", "r_map"}

ASSUME StoreAssumption ==
    /\ Lens \subseteq Nat /\ \A len \in Lens : ValidLen(len)
    /\ MaxQue \in Nat
    /\ Wide \in Nat /\ Wide > MaxQue + 1
    /\ Serialised \in BOOLEAN
    /\ Faults \subseteq FaultKind
    /\ CrashAt \subseteq PutPc \cup GetPc
    /\ MaxMsgs \in Nat /\ MaxFaults \in Nat
    /\ MaxCrashes \in Nat /\ MaxCloses \in Nat

VARIABLES
    \* mq_queue_t
    open,                \* the queue is in the hash table of queues
    ridx, rpos, rmap,    \* cur_rdb: cur_index, pos, map_mem
    widx, wpos, wmap,    \* cur_wdb: cur_index, pos, map_mem
    put_num, get_num,    \* messages put and got
    rtag_fd, wtag_fd,    \* the tag files open for writing
    stale,               \* whether a closed number is kept, see Reopened
    mutex,               \* who holds the queue's mutex
    mapped,              \* the files mapped in the address space
    \* the queue's directory: index -> contents, for each file that exists
    db, rtag, wtag,
    \* the producer and the consumer: program counter, message, register
    ppc, pmsg, pload,
    cpc, cmsg, cload,
    \* the process and what has been spent of the bounds
    up, nput, nfault, ncrash, nclose,
    \* what the callers saw: counted puts, acknowledged puts, returned gets
    sent, acked, got

rdb  == <<ridx, rpos, rmap>>
wdb  == <<widx, wpos, wmap>>
nums == <<put_num, get_num>>
fds  == <<rtag_fd, wtag_fd, stale>>
mem  == <<open, rdb, wdb, nums, fds>>
disk == <<db, rtag, wtag>>
prod == <<ppc, pmsg, pload>>
cons == <<cpc, cmsg, cload>>
env  == <<up, nput, nfault, ncrash, nclose>>
hist == <<sent, acked, got>>
vars == <<mem, mutex, mapped, disk, prod, cons, env, hist>>

-----------------------------------------------------------------------------
NoFd  == 0       \* no tag file: file indexes start at 1
NoMap == 0       \* map_mem = NULL
Empty == [num |-> 0, pos |-> -1]              \* a tag file with no line
Short == [o \in {} |-> Zero]                  \* a data file not yet extended

\* A tag file is represented by its last line.
Tag == [num : 0..(Wide - 1), pos : Nat]

U64(n) == n % Wide

\* Function f with value v at i; function f without i.
With(f, i, v) == [j \in DOMAIN f \cup {i} |-> IF j = i THEN v ELSE f[j]]
Without(f, i) == [j \in DOMAIN f \ {i} |-> f[j]]

\* open(..., O_CREAT) keeps the contents of a file that exists.
Created(f, i, v) == IF i \in DOMAIN f THEN f ELSE With(f, i, v)

\* Writing a line through a descriptor that is not open only logs.
TagWrite(f, fd, num, pos) ==
    IF fd = NoFd THEN f ELSE With(f, fd, [num |-> num, pos |-> pos])

Extended(f, i) == With(f, i, IF i \in DOMAIN f /\ f[i] # Short
                             THEN f[i] ELSE ZeroFile)

Fault(kind) == /\ kind \in Faults
               /\ nfault < MaxFaults
               /\ nfault' = nfault + 1
               /\ UNCHANGED <<up, nput, ncrash, nclose>>

\* An error return may leave numbers of closed files in the queue, "num".  A
\* tag file opened after that may have received one of them.  Which field
\* keeps which number is not followed, as a second close can leave the next
\* closed number behind, here or in another queue of the process: from then on
\* any close of a rotation may be a second close.
Reopened(tag) == IF stale = {} THEN {} ELSE stale \cup {tag}

\* The close of a number that was closed before takes a tag file along.
TakenAway ==
    /\ \/ "rtag" \in stale /\ rtag_fd' = NoFd /\ UNCHANGED wtag_fd
       \/ "wtag" \in stale /\ wtag_fd' = NoFd /\ UNCHANGED rtag_fd
    /\ UNCHANGED stale

\* The number of a tag file taken away may since be that of a data file: a
\* tag line then goes to the beginning of that file, where earlier ones are.
Scribbled(tag, fd) ==
    /\ tag \in stale /\ fd = NoFd
    /\ \E i \in {rmap, wmap} \cap mapped, n \in Offset :
            db' = [db EXCEPT ![i] = WriteText(@, n)]

PutIdle == ppc' = "idle" /\ pmsg' = NoMessage /\ pload' = 0
GetIdle == cpc' = "idle" /\ cmsg' = NoMessage /\ cload' = 0
PutGoto(pc) == ppc' = pc /\ UNCHANGED <<pmsg, pload>>
GetGoto(pc) == cpc' = pc /\ UNCHANGED <<cmsg, cload>>

-----------------------------------------------------------------------------
\* mq_store_put: find the queue, or create it first.

PutBegin(len) ==
    /\ up /\ ppc = "idle" /\ nput < MaxMsgs
    /\ Serialised => cpc = "idle"
    /\ ValidLen(len)
    /\ pmsg' = [id |-> nput + 1, len |-> len]
    /\ IF open THEN ppc' = "full" /\ pload' = put_num
               ELSE ppc' = "creat" /\ UNCHANGED pload
    /\ UNCHANGED <<mem, mutex, mapped, disk, cons, env, hist>>

\* mq_sm_creat_db: give up when the device is full.
CreatNoSpace ==
    /\ ppc = "creat" /\ Fault("space")
    /\ PutIdle
    /\ UNCHANGED <<mem, mutex, mapped, disk, cons, hist>>

CreatSpace ==
    /\ ppc = "creat"
    /\ PutGoto("wipe")
    /\ UNCHANGED <<mem, mutex, mapped, disk, cons, env, hist>>

\* delete_file on a directory that exists: one file after the other.
Wipe ==
    /\ ppc = "wipe"
    /\ \/ \E i \in DOMAIN db   : db' = Without(db, i) /\ UNCHANGED <<rtag, wtag>>
       \/ \E i \in DOMAIN rtag : rtag' = Without(rtag, i) /\ UNCHANGED <<db, wtag>>
       \/ \E i \in DOMAIN wtag : wtag' = Without(wtag, i) /\ UNCHANGED <<db, rtag>>
    /\ UNCHANGED <<mem, mutex, mapped, prod, cons, env, hist>>

Wiped ==
    /\ ppc = "wipe"
    /\ DOMAIN db = {} /\ DOMAIN rtag = {} /\ DOMAIN wtag = {}
    /\ PutGoto("mk_rtag")
    /\ UNCHANGED <<mem, mutex, mapped, disk, cons, env, hist>>

MakeRtag ==
    /\ ppc = "mk_rtag"
    /\ rtag' = Created(rtag, 1, Empty)
    /\ PutGoto("mk_wtag")
    /\ UNCHANGED <<mem, mutex, mapped, db, wtag, cons, env, hist>>

MakeWtag ==
    /\ ppc = "mk_wtag"
    /\ wtag' = Created(wtag, 1, Empty)
    /\ PutGoto("mk_db")
    /\ UNCHANGED <<mem, mutex, mapped, db, rtag, cons, env, hist>>

\* Both first tag lines are written while the positions are still 0.  A kill
\* before both are there leaves a queue that is not opened, as one before the
\* data file is made does, and the next put wipes either.
MakeDb ==
    /\ ppc = "mk_db"
    /\ db' = Extended(db, 1)
    /\ mapped' = mapped \cup {1}
    /\ rtag' = TagWrite(rtag, 1, 0, 0)
    /\ wtag' = TagWrite(wtag, 1, 0, 0)
    /\ PutGoto("mk_open")
    /\ UNCHANGED <<mem, mutex, cons, env, hist>>

\* A failing open or extension leaves the directory half made.
MakeFails ==
    /\ \/ /\ ppc = "mk_rtag" /\ Fault("rtag") /\ UNCHANGED db
       \/ /\ ppc = "mk_wtag" /\ Fault("wtag") /\ UNCHANGED db
       \/ /\ ppc = "mk_db" /\ Fault("db")
          /\ db' \in {db, With(db, 1, Short), Extended(db, 1)}
    /\ PutIdle
    /\ UNCHANGED <<mem, mutex, mapped, rtag, wtag, cons, hist>>

\* The rest of mq_sm_creat_db, init_queue and hash_add_queue_kv.
MakeOpen ==
    /\ ppc = "mk_open"
    /\ open' = TRUE
    /\ ridx' = 1 /\ rpos' = FileHead /\ rmap' = 1
    /\ widx' = 1 /\ wpos' = FileHead /\ wmap' = 1
    /\ put_num' = 0 /\ get_num' = 0
    /\ rtag_fd' = 1 /\ wtag_fd' = 1 /\ stale' = {}
    /\ ppc' = "full" /\ pload' = 0 /\ UNCHANGED pmsg
    /\ UNCHANGED <<mutex, mapped, disk, cons, env, hist>>

-----------------------------------------------------------------------------
\* mq_qm_push_item: the limit check reads put_num, then get_num.

\* Mutant: off by one.
IsFull_TooSoon == MaxQue # 0 /\ U64(pload - get_num + 1) >= MaxQue

IsFull == MaxQue # 0 /\ U64(pload - get_num + 1) > MaxQue

PutFull ==
    /\ ppc = "full" /\ IsFull
    /\ PutIdle
    /\ UNCHANGED <<mem, mutex, mapped, disk, cons, env, hist>>

PutNotFull ==
    /\ ppc = "full" /\ ~ IsFull
    /\ PutGoto("fit")
    /\ UNCHANGED <<mem, mutex, mapped, disk, cons, env, hist>>

\* mq_sm_db_write_msg: the record fits, or the file is closed with its head.
PutFits ==
    /\ ppc = "fit" /\ Fits(wpos, pmsg)
    /\ PutGoto("rec")
    /\ UNCHANGED <<mem, mutex, mapped, disk, cons, env, hist>>

PutOverflows ==
    /\ ppc = "fit" /\ ~ Fits(wpos, pmsg)
    /\ wmap \in mapped \cup {NoMap}
    /\ db' = IF wmap = NoMap THEN db
             ELSE [db EXCEPT ![wmap] = WriteFileHead(@)]
    /\ PutGoto("lock")
    /\ UNCHANGED <<mem, mutex, mapped, rtag, wtag, cons, env, hist>>

\* get_next_write_file, under the mutex.  The space check comes first; the
\* current file is unmapped unless the consumer is reading it.
NextWriteNoSpace ==
    /\ ppc = "lock" /\ mutex = "free" /\ Fault("space")
    /\ PutIdle
    /\ UNCHANGED <<mem, mutex, mapped, disk, cons, hist>>

\* Mutant: the file being read is unmapped as well.
NextWriteLock_Unmaps ==
    /\ ppc = "lock" /\ mutex = "free"
    /\ mutex' = "put"
    /\ mapped' = mapped \ {wmap}
    /\ PutGoto("wtag")
    /\ UNCHANGED <<mem, disk, cons, env, hist>>

NextWriteLock ==
    /\ ppc = "lock" /\ mutex = "free"
    /\ mutex' = "put"
    /\ mapped' = IF widx > ridx THEN mapped \ {wmap} ELSE mapped
    /\ PutGoto("wtag")
    /\ UNCHANGED <<mem, disk, cons, env, hist>>

\* cur_wdb.fd is closed although it already was, by an earlier error return.
NextWriteLockStray ==
    /\ ppc = "lock" /\ mutex = "free" /\ widx > ridx
    /\ TakenAway
    /\ mutex' = "put"
    /\ mapped' = mapped \ {wmap}
    /\ PutGoto("wtag")
    /\ UNCHANGED <<open, rdb, wdb, nums, disk, cons, env, hist>>

NextWriteWtag ==
    /\ ppc = "wtag"
    /\ wtag' = Created(wtag, widx + 1, Empty)
    /\ wtag_fd' = widx + 1 /\ stale' = Reopened("wtag")
    /\ PutGoto("wdb")
    /\ UNCHANGED <<open, rdb, wdb, nums, rtag_fd, mutex, mapped, db, rtag,
                   cons, env, hist>>

NextWriteNoWtag ==
    /\ ppc = "wtag" /\ Fault("wtag")
    /\ wtag_fd' = NoFd /\ stale' = stale \ {"wtag"}
    /\ mutex' = "free"
    /\ PutIdle
    /\ UNCHANGED <<open, rdb, wdb, nums, rtag_fd, mapped, disk, cons, hist>>

NextWriteDb ==
    /\ ppc = "wdb"
    /\ db' = Extended(db, widx + 1)
    /\ mapped' = mapped \cup {widx + 1}
    /\ wmap' = widx + 1
    /\ PutGoto("wpos")
    /\ UNCHANGED <<open, rdb, widx, wpos, nums, fds, mutex, rtag, wtag, cons,
                   env, hist>>

\* The file may be there by then, with its size if only mmap failed.  The
\* number in cur_wdb.fd has been closed.
NextWriteNoDb ==
    /\ ppc = "wdb" /\ Fault("db")
    /\ db' \in {db, Created(db, widx + 1, Short), Extended(db, widx + 1)}
    /\ wmap' = NoMap
    /\ stale' = stale \cup {"num"}
    /\ mutex' = "free"
    /\ PutIdle
    /\ UNCHANGED <<open, rdb, widx, wpos, nums, rtag_fd, wtag_fd, mapped, rtag,
                   wtag, cons, hist>>

\* The position is stored before the index.
NextWritePos ==
    /\ ppc = "wpos"
    /\ wpos' = FileHead
    /\ PutGoto("widx")
    /\ UNCHANGED <<open, rdb, widx, wmap, nums, fds, mutex, mapped, disk,
                   cons, env, hist>>

NextWriteIndex ==
    /\ ppc = "widx"
    /\ widx' = widx + 1
    /\ PutGoto("head")
    /\ UNCHANGED <<open, rdb, wpos, wmap, nums, fds, mutex, mapped, disk,
                   cons, env, hist>>

NextWriteHead ==
    /\ ppc = "head" /\ wmap \in mapped
    /\ db' = [db EXCEPT ![wmap] = WriteFileHead(@)]
    /\ wtag' = TagWrite(wtag, wtag_fd, put_num, wpos)
    /\ PutGoto("unlink")
    /\ UNCHANGED <<mem, mutex, mapped, rtag, cons, env, hist>>

NextWriteUnlink ==
    /\ ppc = "unlink"
    /\ wtag' = Without(wtag, widx - 1)
    /\ mutex' = "free"
    /\ PutGoto("rec")
    /\ UNCHANGED <<mem, mapped, db, rtag, cons, env, hist>>

\* The record goes into the mapping, head before body, ...
WriteHead ==
    /\ ppc = "rec" /\ wmap \in mapped
    /\ db' = [db EXCEPT ![wmap] = WriteMsgHead(@, wpos, pmsg)]
    /\ nput' = nput + 1
    /\ PutGoto("body")
    /\ UNCHANGED <<mem, mutex, mapped, rtag, wtag, cons, up, nfault, ncrash,
                   nclose, hist>>

WriteBody ==
    /\ ppc = "body" /\ wmap \in mapped
    /\ db' = [db EXCEPT ![wmap] = WriteMsgBody(@, wpos, pmsg)]
    /\ PutGoto("pos")
    /\ UNCHANGED <<mem, mutex, mapped, rtag, wtag, cons, env, hist>>

\* Mutant: the position skips the body only.
WritePos_BodyOnly ==
    /\ ppc = "pos"
    /\ wpos' = wpos + pmsg.len
    /\ PutGoto("num")
    /\ UNCHANGED <<open, rdb, widx, wmap, nums, fds, mutex, mapped, disk,
                   cons, env, hist>>

\* ... then pos and put_num advance, put_num by a load and a store, ...
WritePos ==
    /\ ppc = "pos"
    /\ wpos' = wpos + RecordLen(pmsg)
    /\ PutGoto("num")
    /\ UNCHANGED <<open, rdb, widx, wmap, nums, fds, mutex, mapped, disk,
                   cons, env, hist>>

LoadPutNum ==
    /\ ppc = "num"
    /\ pload' = put_num
    /\ ppc' = "inc" /\ UNCHANGED pmsg
    /\ UNCHANGED <<mem, mutex, mapped, disk, cons, env, hist>>

IncPutNum ==
    /\ ppc = "inc"
    /\ put_num' = U64(pload + 1)
    /\ sent' = Append(sent, pmsg)
    /\ PutGoto("tag")
    /\ UNCHANGED <<open, rdb, wdb, get_num, fds, mutex, mapped, disk, cons,
                   env, acked, got>>

\* Mutants: the wtag line is not written, or holds the count before this put.
PutReturn_NoTag ==
    /\ ppc = "tag"
    /\ acked' = Append(acked, pmsg)
    /\ PutIdle
    /\ UNCHANGED <<mem, mutex, mapped, disk, cons, env, sent, got>>
PutReturn_OldCount ==
    /\ ppc = "tag"
    /\ wtag' = TagWrite(wtag, wtag_fd, pload, wpos)
    /\ acked' = Append(acked, pmsg)
    /\ PutIdle
    /\ UNCHANGED <<mem, mutex, mapped, db, rtag, cons, env, sent, got>>

\* ... and the wtag line is written last, before the put returns true.
PutReturn ==
    /\ ppc = "tag"
    /\ wtag' = TagWrite(wtag, wtag_fd, put_num, wpos)
    /\ acked' = Append(acked, pmsg)
    /\ PutIdle
    /\ UNCHANGED <<mem, mutex, mapped, db, rtag, cons, env, sent, got>>

PutReturnStray ==
    /\ ppc = "tag" /\ Scribbled("wtag", wtag_fd)
    /\ acked' = Append(acked, pmsg)
    /\ PutIdle
    /\ UNCHANGED <<mem, mutex, mapped, rtag, wtag, cons, env, sent, got>>

-----------------------------------------------------------------------------
\* mq_qm_pop_item: a queue whose counters differ is not empty.

GetBegin ==
    /\ up /\ open /\ cpc = "idle"
    /\ Serialised => ppc = "idle"
    /\ U64(put_num - get_num) >= 1
    /\ GetGoto("index")
    /\ UNCHANGED <<mem, mutex, mapped, disk, prod, env, hist>>

\* The queue does not exist, or is found empty: the get returns false.
GetNothing ==
    /\ up /\ cpc = "idle"
    /\ Serialised => ppc = "idle"
    /\ open => U64(put_num - get_num) < 1
    /\ UNCHANGED vars

\* mq_sm_get_data, once per turn of its loop.  The end check compares the
\* indexes, then the positions, and reads the write position once more to
\* move the read position.
EndIndex ==
    /\ cpc = "index"
    /\ GetGoto(IF ridx = widx THEN "end" ELSE "parse")
    /\ UNCHANGED <<mem, mutex, mapped, disk, prod, env, hist>>

EndPos ==
    /\ cpc = "end"
    /\ GetGoto(IF rpos + MsgHead >= wpos THEN "reset" ELSE "parse")
    /\ UNCHANGED <<mem, mutex, mapped, disk, prod, env, hist>>

EndReset ==
    /\ cpc = "reset"
    /\ rpos' = wpos
    /\ GetIdle
    /\ UNCHANGED <<open, ridx, rmap, wdb, nums, fds, mutex, mapped, disk,
                   prod, env, hist>>

\* What mq_sm_db_parse_msg returns at the read position.
Parsed == IF rmap = NoMap THEN "MSG_ERR" ELSE ParseMsg(db[rmap], rpos)

ParseOk ==
    /\ cpc = "parse" /\ rmap \in mapped
    /\ Parsed = "OK"
    /\ cmsg' = MsgAt(db[rmap], rpos)
    /\ rpos' = rpos + RecordLen(cmsg')
    /\ get_num' = U64(get_num + 1)
    /\ cpc' = "wrap" /\ UNCHANGED cload
    /\ UNCHANGED <<open, ridx, rmap, wdb, put_num, fds, mutex, mapped, disk,
                   prod, env, hist>>

ParseSkip ==
    /\ cpc = "parse" /\ rmap \in mapped
    /\ \/ Parsed = "MAG_NUM_ERR" /\ rpos' = rpos + 1
       \/ Parsed = "CRC_ERR" /\ rpos' = rpos + 2
    /\ GetGoto("index")
    /\ UNCHANGED <<open, ridx, rmap, wdb, nums, fds, mutex, mapped, disk,
                   prod, env, hist>>

ParseBeyond ==
    /\ cpc = "parse" /\ rmap \in mapped \cup {NoMap}
    /\ Parsed \in {"MSG_ERR", "LEN_BEY"}
    /\ GetGoto("r_lock")
    /\ UNCHANGED <<mem, mutex, mapped, disk, prod, env, hist>>

\* Both counters drop by maxque once get_num reaches it.
WrapGetNum ==
    /\ cpc = "wrap" /\ get_num >= MaxQue
    /\ get_num' = U64(get_num - MaxQue)
    /\ GetGoto("load")
    /\ UNCHANGED <<open, rdb, wdb, put_num, fds, mutex, mapped, disk, prod,
                   env, hist>>

NoWrap ==
    /\ cpc = "wrap" /\ get_num < MaxQue
    /\ GetGoto("rtag")
    /\ UNCHANGED <<mem, mutex, mapped, disk, prod, env, hist>>

WrapLoad ==
    /\ cpc = "load"
    /\ cload' = put_num
    /\ cpc' = "store" /\ UNCHANGED cmsg
    /\ UNCHANGED <<mem, mutex, mapped, disk, prod, env, hist>>

\* Mutant: only get_num is wrapped.
WrapPutNum_Keeps ==
    /\ cpc = "store"
    /\ GetGoto("rtag")
    /\ UNCHANGED <<mem, mutex, mapped, disk, prod, env, hist>>

WrapPutNum ==
    /\ cpc = "store"
    /\ put_num' = U64(cload - MaxQue)
    /\ GetGoto("rtag")
    /\ UNCHANGED <<open, rdb, wdb, get_num, fds, mutex, mapped, disk, prod,
                   env, hist>>

\* Mutant: the rtag line is not written.
NoteRtag_Forgets ==
    /\ cpc = "rtag"
    /\ GetGoto("ret")
    /\ UNCHANGED <<mem, mutex, mapped, disk, prod, env, hist>>

\* The rtag line is written, then mq_store_get copies the body out of the
\* mapping and returns it.
NoteRtag ==
    /\ cpc = "rtag"
    /\ rtag' = TagWrite(rtag, rtag_fd, get_num, rpos)
    /\ GetGoto("ret")
    /\ UNCHANGED <<mem, mutex, mapped, db, wtag, prod, env, hist>>

NoteRtagStray ==
    /\ cpc = "rtag" /\ Scribbled("rtag", rtag_fd)
    /\ GetGoto("ret")
    /\ UNCHANGED <<mem, mutex, mapped, rtag, wtag, prod, env, hist>>

GetReturn ==
    /\ cpc = "ret" /\ rmap \in mapped
    /\ got' = Append(got, cmsg)
    /\ GetIdle
    /\ UNCHANGED <<mem, mutex, mapped, disk, prod, env, sent, acked>>

-----------------------------------------------------------------------------
\* get_next_read_file, under the mutex.

NextReadEnd ==
    /\ cpc = "r_lock" /\ mutex = "free" /\ ridx + 1 > widx
    /\ ridx' = widx
    /\ GetIdle
    /\ UNCHANGED <<open, rpos, rmap, wdb, nums, fds, mutex, mapped, disk,
                   prod, env, hist>>

NextReadLock ==
    /\ cpc = "r_lock" /\ mutex = "free" /\ ridx + 1 <= widx
    /\ mutex' = "get"
    /\ GetGoto("r_open")
    /\ UNCHANGED <<mem, mapped, disk, prod, env, hist>>

NextReadRtag ==
    /\ cpc = "r_open"
    /\ rtag' = Created(rtag, ridx + 1, Empty)
    /\ rtag_fd' = ridx + 1 /\ stale' = Reopened("rtag")
    /\ GetGoto("r_write")
    /\ UNCHANGED <<open, rdb, wdb, nums, wtag_fd, mutex, mapped, db, wtag,
                   prod, env, hist>>

\* Mutant: the mutex is kept.
NextReadNoRtag_Locked ==
    /\ cpc = "r_open" /\ Fault("rtag")
    /\ rtag_fd' = NoFd /\ stale' = stale \ {"rtag"}
    /\ GetIdle
    /\ UNCHANGED <<open, rdb, wdb, nums, wtag_fd, mutex, mapped, disk, prod,
                   hist>>

NextReadNoRtag ==
    /\ cpc = "r_open" /\ Fault("rtag")
    /\ rtag_fd' = NoFd /\ stale' = stale \ {"rtag"}
    /\ mutex' = "free"
    /\ GetIdle
    /\ UNCHANGED <<open, rdb, wdb, nums, wtag_fd, mapped, disk, prod, hist>>

\* Mutant: the position is not reset.
NextReadNote_NoReset ==
    /\ cpc = "r_write"
    /\ ridx' = ridx + 1
    /\ rtag' = TagWrite(rtag, rtag_fd, get_num, rpos)
    /\ GetGoto("r_unlink")
    /\ UNCHANGED <<open, rpos, rmap, wdb, nums, fds, mutex, mapped, db, wtag,
                   prod, env, hist>>

NextReadNote ==
    /\ cpc = "r_write"
    /\ ridx' = ridx + 1
    /\ rpos' = FileHead
    /\ rtag' = TagWrite(rtag, rtag_fd, get_num, FileHead)
    /\ GetGoto("r_unlink")
    /\ UNCHANGED <<open, rmap, wdb, nums, fds, mutex, mapped, db, wtag, prod,
                   env, hist>>

\* Mutant: the old rtag file stays.
NextReadUnlink_Keeps ==
    /\ cpc = "r_unlink"
    /\ GetGoto("r_map")
    /\ UNCHANGED <<mem, mutex, mapped, disk, prod, env, hist>>

NextReadUnlink ==
    /\ cpc = "r_unlink"
    /\ rtag' = Without(rtag, ridx - 1)
    /\ GetGoto("r_map")
    /\ UNCHANGED <<mem, mutex, mapped, db, wtag, prod, env, hist>>

\* The number the queue kept for the old rtag file had been closed before.
NextReadUnlinkStray ==
    /\ cpc = "r_unlink"
    /\ TakenAway
    /\ rtag' = Without(rtag, ridx - 1)
    /\ GetGoto("r_map")
    /\ UNCHANGED <<open, rdb, wdb, nums, mutex, mapped, db, wtag, prod, env,
                   hist>>

\* mq_sm_open_db_file without O_CREAT: the file is there and has its size.
Mappable(i) == i \in DOMAIN db /\ db[i] # Short

\* The old file is unmapped and removed; the next one is the file being
\* written, whose mapping is shared, or is mapped now.
NextReadShare ==
    /\ cpc = "r_map" /\ ridx = widx
    /\ db' = Without(db, ridx - 1)
    /\ mapped' = mapped \ {rmap}
    /\ rmap' = wmap
    /\ mutex' = "free"
    /\ GetGoto("index")
    /\ UNCHANGED <<open, ridx, rpos, wdb, nums, fds, rtag, wtag, prod, env,
                   hist>>

NextReadMap ==
    /\ cpc = "r_map" /\ ridx # widx
    /\ Mappable(ridx)
    /\ db' = Without(db, ridx - 1)
    /\ mapped' = (mapped \ {rmap}) \cup {ridx}
    /\ rmap' = ridx
    /\ mutex' = "free"
    /\ GetGoto("index")
    /\ UNCHANGED <<open, ridx, rpos, wdb, nums, fds, rtag, wtag, prod, env,
                   hist>>

\* So had the number in cur_rdb.fd.
NextReadMapStray ==
    /\ cpc = "r_map"
    /\ TakenAway
    /\ db' = Without(db, ridx - 1)
    /\ \/ ridx = widx /\ mapped' = mapped \ {rmap} /\ rmap' = wmap
       \/ /\ ridx # widx /\ Mappable(ridx)
          /\ mapped' = (mapped \ {rmap}) \cup {ridx} /\ rmap' = ridx
    /\ mutex' = "free"
    /\ GetGoto("index")
    /\ UNCHANGED <<open, ridx, rpos, wdb, nums, rtag, wtag, prod, env, hist>>

\* The fresh rtag file is closed again; rtag_fd and cur_rdb.fd keep the
\* closed numbers, and the next rotation closes them once more.
NextReadNoMap ==
    /\ cpc = "r_map" /\ ridx # widx
    /\ \/ Fault("rdb")
       \/ ~ Mappable(ridx) /\ UNCHANGED env
    /\ db' = Without(db, ridx - 1)
    /\ mapped' = mapped \ {rmap}
    /\ rmap' = NoMap
    /\ rtag_fd' = NoFd /\ stale' = stale \cup {"num"}
    /\ wtag_fd' \in IF "wtag" \in stale THEN {wtag_fd, NoFd} ELSE {wtag_fd}
    /\ mutex' = "free"
    /\ GetIdle
    /\ UNCHANGED <<open, ridx, rpos, wdb, nums, rtag, wtag, prod, hist>>

-----------------------------------------------------------------------------
\* The process.

\* Everything in memory is gone; the files stay.
Stop ==
    /\ up' = FALSE /\ open' = FALSE
    /\ ridx' = 0 /\ rpos' = 0 /\ rmap' = NoMap
    /\ widx' = 0 /\ wpos' = 0 /\ wmap' = NoMap
    /\ put_num' = 0 /\ get_num' = 0
    /\ rtag_fd' = NoFd /\ wtag_fd' = NoFd /\ stale' = {}
    /\ mutex' = "free" /\ mapped' = {}
    /\ PutIdle /\ GetIdle
    /\ UNCHANGED <<disk, hist>>

\* mq_store_close unmaps and closes, and writes no tag.
Close ==
    /\ up /\ ppc = "idle" /\ cpc = "idle" /\ nclose < MaxCloses
    /\ nclose' = nclose + 1
    /\ Stop
    /\ UNCHANGED <<nput, nfault, ncrash>>

Crash ==
    /\ up /\ ppc \in CrashAt /\ cpc \in CrashAt /\ ncrash < MaxCrashes
    /\ ncrash' = ncrash + 1
    /\ Stop
    /\ UNCHANGED <<nput, nfault, nclose>>

\* The steps that go through a mapping, and what a stray one does.
PutTouches == \/ ppc = "fit" /\ ~ Fits(wpos, pmsg) /\ wmap # NoMap
              \/ ppc \in {"head", "rec", "body"}
GetTouches == \/ cpc = "parse" /\ rmap # NoMap
              \/ cpc = "ret"

Segv ==
    /\ \/ PutTouches /\ wmap \notin mapped
       \/ GetTouches /\ rmap \notin mapped
    /\ ncrash' = ncrash + 1
    /\ Stop
    /\ UNCHANGED <<nput, nfault, nclose>>

\* find_handle_file: the data files with the smallest and the largest index;
\* of several tag files the one readdir lists first, which may be any.
HandleFiles(rt, wt) ==
    /\ rt \in DOMAIN db /\ wt \in DOMAIN db
    /\ \A i \in DOMAIN db : rt <= i /\ i <= wt

\* Mutant: an empty tag file is read as well.
Openable_Empty(rt, wt) ==
    /\ HandleFiles(rt, wt)
    /\ Mappable(rt) /\ Mappable(wt)

\* mq_qm_open_store for this queue's directory: the tag files must not be
\* empty and the data files must have their size.
Openable(rt, wt) ==
    /\ HandleFiles(rt, wt)
    /\ rtag[rt] # Empty /\ wtag[wt] # Empty
    /\ Mappable(rt) /\ Mappable(wt)

OpenQueue ==
    /\ ~ up
    /\ \E rt \in DOMAIN rtag, wt \in DOMAIN wtag :
        /\ Openable(rt, wt)
        /\ up' = TRUE /\ open' = TRUE
        /\ ridx' = rt /\ rpos' = rtag[rt].pos /\ get_num' = rtag[rt].num
        /\ widx' = wt /\ wpos' = wtag[wt].pos /\ put_num' = wtag[wt].num
        /\ rmap' = rt /\ wmap' = wt /\ mapped' = {rt, wt}
        /\ rtag_fd' = rt /\ wtag_fd' = wt /\ stale' = {}
    /\ UNCHANGED <<mutex, disk, prod, cons, nput, nfault, ncrash, nclose,
                   hist>>

\* Whatever is wrong with a queue's files, the store opens without it.
OpenWithout ==
    /\ ~ up /\ up' = TRUE
    /\ \/ DOMAIN rtag = {} /\ UNCHANGED nfault
       \/ DOMAIN wtag = {} /\ UNCHANGED nfault
       \/ /\ \E rt \in DOMAIN rtag, wt \in DOMAIN wtag : ~ Openable(rt, wt)
          /\ UNCHANGED nfault
       \/ /\ "open" \in Faults /\ nfault < MaxFaults
          /\ nfault' = nfault + 1
    /\ UNCHANGED <<mem, mutex, mapped, disk, prod, cons, nput, ncrash, nclose,
                   hist>>

-----------------------------------------------------------------------------
Init ==
    /\ up = FALSE /\ open = FALSE
    /\ ridx = 0 /\ rpos = 0 /\ rmap = NoMap
    /\ widx = 0 /\ wpos = 0 /\ wmap = NoMap
    /\ put_num = 0 /\ get_num = 0
    /\ rtag_fd = NoFd /\ wtag_fd = NoFd /\ stale = {}
    /\ mutex = "free" /\ mapped = {}
    /\ db = [i \in {} |-> ZeroFile]
    /\ rtag = [i \in {} |-> Empty] /\ wtag = [i \in {} |-> Empty]
    /\ ppc = "idle" /\ pmsg = NoMessage /\ pload = 0
    /\ cpc = "idle" /\ cmsg = NoMessage /\ cload = 0
    /\ nput = 0 /\ nfault = 0 /\ ncrash = 0 /\ nclose = 0
    /\ sent = <<>> /\ acked = <<>> /\ got = <<>>

Create == \/ CreatNoSpace \/ CreatSpace \/ Wipe \/ Wiped
          \/ MakeRtag \/ MakeWtag \/ MakeDb \/ MakeFails \/ MakeOpen

NextWrite == \/ NextWriteNoSpace \/ NextWriteLock
             \/ NextWriteWtag \/ NextWriteNoWtag
             \/ NextWriteDb \/ NextWriteNoDb
             \/ NextWritePos \/ NextWriteIndex
             \/ NextWriteHead \/ NextWriteUnlink

WriteMsg == \/ PutFull \/ PutNotFull \/ PutFits \/ PutOverflows
            \/ WriteHead \/ WriteBody \/ WritePos
            \/ LoadPutNum \/ IncPutNum \/ PutReturn

PutStray == NextWriteLockStray \/ PutReturnStray
GetStray == NextReadUnlinkStray \/ NextReadMapStray \/ NoteRtagStray

\* The rest of a put once it has begun.
PutStep == Create \/ WriteMsg \/ NextWrite \/ PutStray

GetData == \/ EndIndex \/ EndPos \/ EndReset
           \/ ParseOk \/ ParseSkip \/ ParseBeyond
           \/ WrapGetNum \/ NoWrap \/ WrapLoad \/ WrapPutNum
           \/ NoteRtag \/ GetReturn

NextRead == \/ NextReadEnd \/ NextReadLock
            \/ NextReadRtag \/ NextReadNoRtag
            \/ NextReadNote \/ NextReadUnlink
            \/ NextReadShare \/ NextReadMap \/ NextReadNoMap

\* The rest of a get once it has begun.
GetStep == GetData \/ NextRead \/ GetStray

Process == Close \/ Crash \/ Segv \/ OpenQueue \/ OpenWithout

Next == \/ \E len \in Lens : PutBegin(len)
        \/ GetBegin \/ GetNothing
        \/ PutStep \/ GetStep \/ Process

Spec == Init /\ [][Next]_vars

\* A call that has begun runs to its end and a stopped process is started
\* again.  The consumer keeps calling mq_store_get: callers that serialise
\* their calls give it its turn again and again, hence strong fairness.
Fairness == /\ WF_vars(PutStep) /\ WF_vars(GetStep)
            /\ SF_vars(GetBegin)
            /\ WF_vars(OpenQueue \/ OpenWithout)

FairSpec == Spec /\ Fairness

-----------------------------------------------------------------------------
(***************************************************************************)
(* Properties.                                                             *)
(***************************************************************************)

\* The files of one kind: a contents for each index that exists.
Directory(f, Contents) ==
    f \in [DOMAIN f -> Contents] /\ DOMAIN f \subseteq Nat \ {0}

\* Every field has the range the code gives it.
TypeOK ==
    /\ open \in BOOLEAN /\ up \in BOOLEAN
    /\ ridx \in Nat /\ rpos \in Nat /\ rmap \in Nat
    /\ widx \in Nat /\ wpos \in Nat /\ wmap \in Nat
    /\ put_num \in 0..(Wide - 1) /\ get_num \in 0..(Wide - 1)
    /\ rtag_fd \in Nat /\ wtag_fd \in Nat
    /\ stale \subseteq {"num", "rtag", "wtag"}
    /\ mutex \in {"free", "put", "get"}
    /\ mapped \subseteq Nat \ {0}
    /\ Directory(db, File \cup {Short})
    /\ Directory(rtag, Tag \cup {Empty})
    /\ Directory(wtag, Tag \cup {Empty})
    /\ ppc \in PutPc /\ pmsg \in Message /\ pload \in 0..(Wide - 1)
    /\ cpc \in GetPc /\ cmsg \in Message /\ cload \in 0..(Wide - 1)
    /\ nput \in Nat /\ nfault \in Nat /\ ncrash \in Nat /\ nclose \in Nat
    /\ sent \in Seq(Message) /\ acked \in Seq(Message) /\ got \in Seq(Message)

\* No thread reads or writes a data file through a mapping that the other
\* thread's file rotation has removed: get_next_write_file keeps the mapping
\* of the file being read, get_next_read_file never removes the one being
\* written, and the record being copied out by mq_store_get stays mapped.
MapSafe ==
    /\ PutTouches => wmap \in mapped
    /\ GetTouches => rmap \in mapped

Ids(s) == {s[i].id : i \in DOMAIN s}

\* mq_store_put refuses a message as QUEUE_FULL only if maxque messages are
\* really waiting.
FullMeansFull == [][PutFull => Len(sent) - Len(got) >= MaxQue]_vars

\* Messages come out in the order they went in and never twice, whatever the
\* process was doing when it was killed and whichever tag files it found, and
\* also, until the process ends, whichever calls failed.  Both together can
\* break it: after a failed open of the wtag file, or when a rotation closed
\* the number of a fresh tag file, positions are not noted, and the store that
\* is opened next goes back to the last one that was.
InOrderAtMostOnce ==
    nfault = 0 \/ ncrash + nclose = 0 =>
        \A i, j \in DOMAIN got : i < j => got[i].id < got[j].id

\* The consumer parses records without taking the mutex, yet never sees one
\* the producer is still copying into the mapping: without kills the CRC
\* always checks, so mq_sm_get_data never steps over a message half written,
\* as long as no error return has left the number of a closed file behind,
\* through which tag lines could reach a data file.
NoTornRead == cpc = "parse" /\ rmap \in mapped /\ stale = {}
                  => Parsed # "CRC_ERR"

\* Between calls the directory holds what find_handle_file asks for: the data
\* files from the one being read to the one being written, one rtag file and
\* one wtag file, with the indexes of these two.
TidyDirectory ==
    open /\ ppc = "idle" /\ cpc = "idle"
        => /\ DOMAIN db = ridx..widx
           /\ DOMAIN rtag = {ridx} /\ DOMAIN wtag = {widx}

\* mq_qm_open_store never leaves out a queue that has files, which the next
\* put would delete.
NeverRefused == [][OpenWithout => DOMAIN db = {}]_vars

\* Every put and every get returns: no early return of a file rotation keeps
\* the mutex, and the scanning loop of mq_sm_get_data comes to an end.
CallsReturn == /\ ppc # "idle" ~> ppc = "idle"
               /\ cpc # "idle" ~> cpc = "idle"

\* The end-of-queue test of mq_sm_get_data succeeds only at the end of the
\* queue: no counted message is left unread.
EndMeansEmpty == cpc = "reset" => Ids(sent) \subseteq Ids(got)

\* Where m's record lies intact in the files, at or after the position the
\* last rtag line of the file holds.
OnDisk(m) ==
    \E i \in DOMAIN db : \E p \in 0..(MaxFile - RecordLen(m)) :
        /\ db[i] # Short
        /\ \A k \in 0..(RecordLen(m) - 1) : db[i][p + k] = <<m.id, m.len, k>>
        /\ i \in DOMAIN rtag => rtag[i] = Empty \/ p >= rtag[i].pos

\* While no call is in progress put_num - get_num, which limits the queue and
\* is summed up at start, is the number of acknowledged messages that are
\* still to be read from the files.
UnreadCount ==
    open /\ ppc = "idle" /\ cpc = "idle"
        => U64(put_num - get_num) = Cardinality({i \in DOMAIN acked : OnDisk(acked[i])})

\* A message whose put returned true is returned by a get or is still in the
\* files ahead of the noted read position; each kill costs at most the one
\* message whose rtag line was written but which was not yet returned.
LossBound ==
    Cardinality({i \in DOMAIN acked : /\ acked[i].id \notin Ids(got)
                                      /\ ~ (cpc = "ret" /\ cmsg = acked[i])
                                      /\ ~ OnDisk(acked[i])}) <= ncrash

\* find_handle_file ignores an empty tag file beside a usable one: a directory
\* that can be opened with its other tag files is opened.
EmptyTagsIgnored ==
    [][OpenWithout => ~ \E rt \in DOMAIN rtag, wt \in DOMAIN wtag :
            /\ Openable(rt, wt)
            /\ \A i \in DOMAIN rtag \ {rt} : rtag[i] = Empty
            /\ \A i \in DOMAIN wtag \ {wt} : wtag[i] = Empty]_vars

-----------------------------------------------------------------------------
\* The abstract queue.
Fifo == INSTANCE FifoQueue WITH Msgs <- [id : 1..MaxMsgs, len : Lens],
                                Capacity <- MaxQue

\* The steps of the store are those of a FIFO queue of at most maxque messages:
\* a put adds one message at the end, a get returns the one that waits longest,
\* and a message is added only where there is room.
FifoSafe == Fifo!Init /\ [][Fifo!Next]_<<sent, got>>

\* The store is a FIFO queue of at most maxque messages, and a consumer that
\* keeps calling mq_store_get receives every message put: rotation of the
\* data files, failing calls that the code recovers from, the wrap of the
\* counters and, in the runs that have them, orderly restarts do not show.
ImplementsFifo == Fifo!Spec

=============================================================================
