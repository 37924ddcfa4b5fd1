------------------------------- MODULE DbFile -------------------------------
(***************************************************************************)
(* The layout of a libucmq data file (db_<index>) and the two algorithms   *)
(* that work on it: writing a record (mq_sm_db_write_msg) and recognising  *)
(* one at a position (mq_sm_db_parse_msg).                                 *)
(*                                                                         *)
(* A file is a function from offsets to cells.  A cell stands for one byte *)
(* and records where the byte comes from: <<id, len, k>> is the k-th byte  *)
(* of the record of message id, whose body has len bytes.  The magic       *)
(* number is bytes 0 and 1 of a record, and the CRC of a record checks     *)
(* exactly when every one of its bytes is still in place.  Bodies are      *)
(* taken not to contain the magic number.                                  *)
(***************************************************************************)
EXTENDS Integers

CONSTANTS MaxFile,     \* MAX_DB_FILE_SIZE
          FileHead,    \* DB_FILE_HEAD_LEN
          MsgHead      \* MSG_HEAD_LEN

ASSUME LayoutAssumption ==
    /\ FileHead \in Nat
    /\ MsgHead \in Nat /\ MsgHead >= 2
    /\ MaxFile \in Nat /\ MaxFile > FileHead + MsgHead

Offset == 0..(MaxFile - 1)
Cell   == Nat \X Nat \X Nat
File   == [Offset -> Cell]

Zero     == <<0, 0, 0>>      \* a byte of the hole extend_file_size leaves
HeadByte == <<0, 0, 1>>      \* a byte of the file head
Text     == <<0, 0, 2>>      \* a byte of a tag line

\* A message is its identity and the length of its body.
Message == [id : Nat, len : Nat]
NoMessage == [id |-> 0, len |-> 0]

\* The lengths mq_store_put lets through.
ValidLen(len) == len > 0 /\ len <= MaxFile - FileHead - MsgHead

RecordLen(m) == m.len + MsgHead

\* Whether a record still fits in a file whose write position is pos.
Fits(pos, m) == pos + RecordLen(m) <= MaxFile

ZeroFile == [o \in Offset |-> Zero]

WriteFileHead(file) == [o \in Offset |-> IF o < FileHead THEN HeadByte ELSE file[o]]

\* Bytes from..to of m's record, written at pos.
WriteBytes(file, pos, m, from, to) ==
    [o \in Offset |-> IF o - pos \in from..to THEN <<m.id, m.len, o - pos>>
                                              ELSE file[o]]

WriteMsgHead(file, pos, m) == WriteBytes(file, pos, m, 0, MsgHead - 1)
WriteMsgBody(file, pos, m) == WriteBytes(file, pos, m, MsgHead, RecordLen(m) - 1)

\* n bytes of text over the beginning of the file.
WriteText(file, n) == [o \in Offset |-> IF o < n THEN Text ELSE file[o]]

-----------------------------------------------------------------------------
\* mq_sm_db_parse_msg on a mapped file.

IsMagic(file, pos) ==
    /\ file[pos][1] # 0 /\ file[pos][3] = 0
    /\ file[pos + 1][1] # 0 /\ file[pos + 1][3] = 1

MsgAt(file, pos) == [id |-> file[pos][1], len |-> file[pos][2]]

CrcOk(file, pos) ==
    \A k \in 0..(RecordLen(MsgAt(file, pos)) - 1) :
        file[pos + k] = <<file[pos][1], file[pos][2], k>>

ParseMsg(file, pos) ==
    IF pos + MsgHead >= MaxFile                THEN "LEN_BEY"
    ELSE IF ~ IsMagic(file, pos)               THEN "MAG_NUM_ERR"
    ELSE IF ~ Fits(pos, MsgAt(file, pos))      THEN "LEN_BEY"
    ELSE IF CrcOk(file, pos)                   THEN "OK"
    ELSE "CRC_ERR"

=============================================================================
