------------------------------- MODULE TagFile -------------------------------
(***************************************************************************)
(* A tag file of a queue, byte by byte (mq_store_rtag.c, mq_store_wtag.c,  *)
(* which differ in the length of a line only): lines of fixed length are   *)
(* appended, and at the next start the last one is searched for backwards  *)
(* from the end of the file.  UcmqStore takes a tag file to be its last    *)
(* line; this module is about what that rests on.                          *)
(*                                                                         *)
(* A line need not arrive whole.  write_n returns early when the device is *)
(* full, and a process can be killed in write(2); either way a write stops *)
(* where the file would need another page, and what fits is kept.          *)
(***************************************************************************)
EXTENDS Naturals, Sequences

CONSTANTS ItemLen,     \* RTAG_ITEM_LEN (30), WTAG_ITEM_LEN (40)
          Pages,       \* the sizes a page may have
          MaxLines     \* bound on the lines written

Width == ItemLen + 1                   \* with its newline

ASSUME TagAssumption == /\ ItemLen \in Nat \ {0, 1}
                        /\ MaxLines \in Nat
                        /\ \A s \in Pages : s \in Nat /\ s >= 2 * Width

VARIABLES page,        \* the size of a page
          file,        \* the bytes of the file
          left,        \* what is left of the page it ends in
          lines,       \* lines written or tried so far
          noted,       \* the last one mq_sm_rtag_write_item returned true for
          up,          \* the file is open
          item         \* what the last mq_sm_rtag_read_item found

vars == <<page, file, left, lines, noted, up, item>>

-----------------------------------------------------------------------------
(* Byte <<n, k>> is the k-th byte of the n-th line.  The last one is the   *)
(* newline; the others are digits, of which only the line matters.         *)

Line(n) == [k \in 1 .. Width |-> <<n, k>>]
IsNewline(byte) == byte[2] = Width

\* strtok: the bytes from a to b of a buffer are a token.
IsToken(buf, a, b) ==
    /\ \A x \in a .. b : ~IsNewline(buf[x])
    /\ a = 1 \/ IsNewline(buf[a - 1])
    /\ b = Len(buf) \/ IsNewline(buf[b + 1])

\* parse_rtag_item: where a token as long as an item begins.
LongEnough(a, b) == b - a + 1 >= ItemLen

Items(buf) == {a \in 1 .. Len(buf) :
                  \E b \in a .. Len(buf) : IsToken(buf, a, b) /\ LongEnough(a, b)}
FirstItem(buf) == CHOOSE a \in Items(buf) : \A c \in Items(buf) : a <= c

\* The item found there: the number of its line, or 0 when the digits come from
\* more than one line, and say anything.
ItemAt(buf, a) ==
    LET n == buf[a][1]
    IN  IF \A k \in 1 .. ItemLen : buf[a + k - 1] = <<n, k>> THEN n ELSE 0

\* What read_n gives after seeking i lines back from the end: up to two lines.
Window_One(i) == SubSeq(file, Len(file) - i * Width + 1, Len(file) - i * Width + Width)

Window(i) == LET from == Len(file) - i * Width + 1
             IN  SubSeq(file, from, IF i = 1 THEN Len(file) ELSE from + 2 * Width - 1)

\* mq_sm_rtag_read_item: seek back by one line more until an item is found or
\* the file has no more.  With i > 1 the last line was not read, and writing
\* goes on in another file (cur_wdb.pos = MAX_DB_FILE_SIZE).  With no item at
\* all reading begins at the start of its file.
Tries == {i \in 1 .. Len(file) : i * Width <= Len(file) /\ Items(Window(i)) # {}}
FirstTry == CHOOSE i \in Tries : \A j \in Tries : i <= j

ReadItem_NoSkip ==
    IF Tries = {} THEN [line |-> 0, skip |-> TRUE]
    ELSE [line |-> ItemAt(Window(FirstTry), FirstItem(Window(FirstTry))),
          skip |-> FirstTry > 2]

ReadItem ==
    IF Tries = {} THEN [line |-> 0, skip |-> TRUE]
    ELSE [line |-> ItemAt(Window(FirstTry), FirstItem(Window(FirstTry))),
          skip |-> FirstTry > 1]

-----------------------------------------------------------------------------
Init == /\ page \in Pages
        /\ file = <<>> /\ left = 0
        /\ lines = 0 /\ noted = 0
        /\ up = TRUE
        /\ item = [line |-> 0, skip |-> FALSE]

\* mq_sm_rtag_write_item.  The descriptor was opened by a rotation, at the
\* start of an empty file, or with O_APPEND: every line goes to the end.
Write ==
    /\ up /\ lines < MaxLines
    /\ lines' = lines + 1
    /\ file' = file \o Line(lines + 1)
    /\ left' = IF left >= Width THEN left - Width ELSE left + page - Width
    /\ noted' = lines + 1
    /\ UNCHANGED <<page, up, item>>

\* A write that stops at the end of the page.
Stop ==
    /\ lines < MaxLines /\ left < Width
    /\ lines' = lines + 1
    /\ file' = file \o SubSeq(Line(lines + 1), 1, left)
    /\ left' = 0

\* The device is full: write(2) takes what the page has room for, write_n
\* calls it again, gets ENOSPC and returns -1.  The queue goes on.
WriteFull ==
    /\ up
    /\ Stop
    /\ UNCHANGED <<page, noted, up, item>>

\* The process ends, between two lines or killed in the write of one.
Kill ==
    /\ up
    /\ Stop \/ UNCHANGED <<file, left, lines>>
    /\ up' = FALSE
    /\ UNCHANGED <<page, noted, item>>

\* mq_sm_rtag_open_file and mq_sm_rtag_read_item; an empty file is refused.
Open ==
    /\ ~up
    /\ file # <<>>
    /\ up' = TRUE
    /\ item' = ReadItem
    /\ UNCHANGED <<page, file, left, lines, noted>>

OpenEmpty ==
    /\ ~up
    /\ file = <<>>
    /\ UNCHANGED vars

Next == Write \/ WriteFull \/ Kill \/ Open \/ OpenEmpty

Spec == Init /\ [][Next]_vars

-----------------------------------------------------------------------------
Byte == (1 .. MaxLines) \X (1 .. Width)

TypeOK == /\ page \in Pages
          /\ file \in Seq(Byte) /\ left \in 0 .. page - 1
          /\ lines \in 0 .. MaxLines /\ noted \in 0 .. lines
          /\ up \in BOOLEAN
          /\ item \in [line : 0 .. MaxLines, skip : BOOLEAN]

Opens == ~up /\ up'

\* Whatever lines were torn by kills and a full device, and wherever, a start
\* goes on from a line that was really written, never from digits of two, and
\* never from one older than the last that was acknowledged: nothing that a
\* put or a get of an earlier process was told is undone.
NoteSurvives == [][Opens => item'.line \in noted .. lines /\ item'.line > 0]_vars

\* "Skip this db file to avoid coverage": when the line that told of the last
\* record is torn, writing does not go on at the position of the line before,
\* over that record.
NoCoverage == [][Opens => \/ item'.skip
                          \/ item'.line = file[Len(file)][1]]_vars

=============================================================================
