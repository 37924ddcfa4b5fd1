---------------------------- MODULE TagFileProofs ----------------------------
(***************************************************************************)
(* Proofs about TagFile: for every length of an item, every size of a page *)
(* of at least two lines and any number of torn lines, a start finds the   *)
(* last line that arrived.                                                 *)
(***************************************************************************)
EXTENDS TagFile, TLAPS

\* The whole line m lies in the file after its first s bytes.
LineAt(s, m) == \A k \in 1 .. Width : file[s + k] = <<m, k>>

\* How the file ends: with the line m and the first f bytes of a torn line n.
\* A byte before the line m ends another line, or m is the first line of its
\* page; then a torn line cannot follow it.
EndsWith(s, m, f, n) ==
    /\ Len(file) = s + Width + f
    /\ LineAt(s, m)
    /\ \A k \in 1 .. f : file[s + Width + k] = <<n, k>>
    /\ m >= noted /\ n >= noted
    /\ f > 0 => left = 0
    /\ \/ s > 0 /\ IsNewline(file[s])
       \/ f = 0 /\ left = page - Width

\* The inductive invariant.  A file that has anything reaches to the end of its
\* first page.
FileInv == \/ file = <<>> /\ left = 0 /\ noted = 0
           \/ /\ Len(file) + left >= page
              /\ \E s \in Nat, m \in 1 .. lines, f \in 0 .. ItemLen, n \in 1 .. lines :
                     EndsWith(s, m, f, n)

Inv == TypeOK /\ FileInv

-----------------------------------------------------------------------------
LEMMA Constants == /\ ItemLen \in Nat /\ ItemLen >= 2
                   /\ Width = ItemLen + 1 /\ Width \in Nat
                   /\ MaxLines \in Nat
                   /\ \A p \in Pages : p \in Nat /\ p >= 2 * Width
  BY TagAssumption DEF Width

LEMMA LineType == \A n \in 1 .. MaxLines :
                     /\ Line(n) \in Seq(Byte) /\ Len(Line(n)) = Width
                     /\ \A k \in 1 .. Width : Line(n)[k] = <<n, k>>
  BY Constants DEF Line, Byte

\* What appending does to the bytes.
LEMMA Appended ==
    ASSUME NEW a \in Seq(Byte), NEW b \in Seq(Byte)
    PROVE  /\ a \o b \in Seq(Byte) /\ Len(a \o b) = Len(a) + Len(b)
           /\ \A i \in 1 .. Len(a) : (a \o b)[i] = a[i]
           /\ \A i \in 1 .. Len(b) : (a \o b)[Len(a) + i] = b[i]
  OBVIOUS

LEMMA PartOf ==
    ASSUME NEW a \in Seq(Byte), NEW l \in 0 .. Len(a)
    PROVE  /\ SubSeq(a, 1, l) \in Seq(Byte) /\ Len(SubSeq(a, 1, l)) = l
           /\ \A i \in 1 .. l : SubSeq(a, 1, l)[i] = a[i]
  OBVIOUS

\* A piece of the file.
LEMMA Piece ==
    ASSUME file \in Seq(Byte), NEW a \in Nat, NEW b \in Nat,
           a >= 1, a <= b, b <= Len(file)
    PROVE  /\ Len(SubSeq(file, a, b)) = b - a + 1
           /\ \A i \in 1 .. b - a + 1 : SubSeq(file, a, b)[i] = file[a + i - 1]
  OBVIOUS

-----------------------------------------------------------------------------
LEMMA InitInv == Init => Inv
  BY Constants DEF Init, Inv, TypeOK, FileInv

LEMMA WriteInv == Inv /\ Write => Inv'
<1> SUFFICES ASSUME Inv, Write PROVE Inv'
  OBVIOUS
<1> USE Constants
<1>1. /\ TypeOK /\ page \in Nat /\ page >= 2 * Width
      /\ lines + 1 \in 1 .. MaxLines /\ file \in Seq(Byte)
      /\ Len(file) \in Nat /\ left \in 0 .. page - 1
  BY DEF Inv, Write, TypeOK
<1> DEFINE new == Line(lines + 1)
<1>2. new \in Seq(Byte) /\ Len(new) = Width /\ \A k \in 1 .. Width : new[k] = <<lines + 1, k>>
  BY <1>1, LineType
<1> HIDE DEF new
<1>3. /\ file' \in Seq(Byte) /\ Len(file') = Len(file) + Width
      /\ \A k \in 1 .. Width : file'[Len(file) + k] = <<lines + 1, k>>
      /\ \A i \in 1 .. Len(file) : file'[i] = file[i]
  <2>1. file' = file \o new
    BY DEF Write, new
  <2>2. /\ file' \in Seq(Byte) /\ Len(file') = Len(file) + Len(new)
        /\ \A i \in 1 .. Len(file) : file'[i] = file[i]
        /\ \A i \in 1 .. Len(new) : file'[Len(file) + i] = new[i]
    BY <2>1, <1>1, <1>2, Appended
  <2> QED BY <2>2, <1>2
<1>4. TypeOK'
  BY <1>1, <1>3 DEF TypeOK, Write
<1>5. Len(file') + left' >= page'
  BY <1>1, <1>3 DEF Write, Inv, FileInv
<1>6. (Len(file) > 0 /\ IsNewline(file'[Len(file)])) \/ left' = page' - Width
  <2>1. CASE file = <<>>
    BY <2>1, <1>1 DEF Inv, FileInv, Write
  <2>2. CASE file # <<>>
    <3>1. PICK s \in Nat, m \in 1 .. lines, f \in 0 .. ItemLen, n \in 1 .. lines :
                 EndsWith(s, m, f, n)
      BY <2>2 DEF Inv, FileInv
    <3>2. CASE f = 0
      <4>1. Len(file) = s + Width /\ Len(file) > 0 /\ Width \in 1 .. Width
        BY <3>1, <3>2, <1>1 DEF EndsWith
      <4>2. file[s + Width] = <<m, Width>>
        BY <3>1, <4>1 DEF EndsWith, LineAt
      <4>3. file'[Len(file)] = <<m, Width>>
        <5>1. Len(file) \in 1 .. Len(file)
          BY <4>1, <1>1
        <5>2. file'[Len(file)] = file[Len(file)]
          BY <5>1, <1>3
        <5> QED BY <5>2, <4>1, <4>2
      <4> QED BY <4>1, <4>3 DEF IsNewline
    <3>3. CASE f > 0
      BY <3>1, <3>3, <1>1 DEF EndsWith, Write
    <3> QED BY <3>2, <3>3
  <2> QED BY <2>1, <2>2
<1>7. PICK s \in Nat, m \in 1 .. MaxLines : s = Len(file) /\ m = lines + 1
  BY <1>1
<1>8. EndsWith(s, m, 0, m)'
  <2>1. noted' = lines + 1 /\ page' = page
    BY DEF Write
  <2>2. Len(file') = s + Width /\ LineAt(s, m)'
    BY <1>3, <1>7 DEF LineAt
  <2>3. (s > 0 /\ IsNewline(file'[s])) \/ left' = page' - Width
    BY <1>6, <1>7
  <2> QED BY <2>1, <2>2, <2>3, <1>7 DEF EndsWith
<1>9. FileInv'
  <2>1. lines' = lines + 1 /\ m \in 1 .. lines' /\ 0 \in 0 .. ItemLen
    BY <1>1, <1>7 DEF Write
  <2> QED BY <1>5, <1>8, <2>1 DEF FileInv
<1> QED BY <1>4, <1>9 DEF Inv

LEMMA StopInv ==
    ASSUME Inv, Stop, UNCHANGED <<page, noted>>
    PROVE  /\ FileInv'
           /\ file' \in Seq(Byte) /\ left' \in 0 .. page' - 1
           /\ lines' \in 0 .. MaxLines /\ noted' \in 0 .. lines'
<1> USE Constants
<1>1. /\ TypeOK /\ page \in Nat /\ page >= 2 * Width /\ lines \in Nat
      /\ lines + 1 \in 1 .. MaxLines /\ file \in Seq(Byte) /\ noted \in 0 .. lines
      /\ Len(file) \in Nat /\ left \in 0 .. ItemLen
  BY DEF Inv, Stop, TypeOK
<1> DEFINE new == SubSeq(Line(lines + 1), 1, left)
<1>2. new \in Seq(Byte) /\ Len(new) = left /\ \A k \in 1 .. left : new[k] = <<lines + 1, k>>
  <2>1. /\ Line(lines + 1) \in Seq(Byte) /\ Len(Line(lines + 1)) = Width
        /\ \A k \in 1 .. Width : Line(lines + 1)[k] = <<lines + 1, k>>
    BY <1>1, LineType
  <2>2. left \in 0 .. Len(Line(lines + 1))
    BY <1>1, <2>1
  <2> QED BY <1>1, <2>1, <2>2, PartOf
<1> HIDE DEF new
<1>3. /\ file' \in Seq(Byte) /\ Len(file') = Len(file) + left
      /\ \A k \in 1 .. left : file'[Len(file) + k] = <<lines + 1, k>>
      /\ \A i \in 1 .. Len(file) : file'[i] = file[i]
  <2>1. file' = file \o new
    BY DEF Stop, new
  <2>2. /\ file' \in Seq(Byte) /\ Len(file') = Len(file) + Len(new)
        /\ \A i \in 1 .. Len(file) : file'[i] = file[i]
        /\ \A i \in 1 .. Len(new) : file'[Len(file) + i] = new[i]
    BY <2>1, <1>1, <1>2, Appended
  <2> QED BY <2>2, <1>2
<1>4. left' = 0 /\ lines' = lines + 1 /\ noted' = noted /\ page' = page
  BY DEF Stop
<1>5. CASE file = <<>>
  <2>1. left = 0 /\ noted = 0
    BY <1>5, <1>1 DEF Inv, FileInv
  <2>2. file' = <<>>
    BY <2>1, <1>3, <1>5
  <2> QED BY <2>1, <2>2, <1>1, <1>3, <1>4 DEF FileInv
<1>6. CASE file # <<>>
  <2>1. PICK s \in Nat, m \in 1 .. lines, f \in 0 .. ItemLen, n \in 1 .. lines :
               EndsWith(s, m, f, n)
    BY <1>6 DEF Inv, FileInv
  <2>2. Len(file) + left >= page
    BY <1>6 DEF Inv, FileInv
  <2>3. LineAt(s, m)'
    <3>1. \A k \in 1 .. Width : file[s + k] = <<m, k>>
      BY <2>1 DEF EndsWith, LineAt
    <3>2. \A k \in 1 .. Width : s + k \in 1 .. Len(file)
      BY <2>1 DEF EndsWith
    <3> QED BY <3>1, <3>2, <1>3 DEF LineAt
  <2>4. CASE f > 0 \/ left = 0
    <3>1. left = 0 /\ Len(file') = Len(file)
      BY <2>1, <2>4, <1>3 DEF EndsWith
    <3>2. \A k \in 1 .. f : file'[s + Width + k] = <<n, k>>
      <4>1. \A k \in 1 .. f : s + Width + k \in 1 .. Len(file)
                              /\ file[s + Width + k] = <<n, k>>
        BY <2>1 DEF EndsWith
      <4> QED BY <4>1, <1>3
    <3>3. s > 0 /\ IsNewline(file'[s])
      <4>1. s > 0 /\ IsNewline(file[s])
        BY <2>1, <3>1, <1>1 DEF EndsWith
      <4>2. s \in 1 .. Len(file)
        BY <4>1, <2>1 DEF EndsWith
      <4> QED BY <4>1, <4>2, <1>3
    <3>4. EndsWith(s, m, f, n)'
      <4>1. Len(file) = s + Width + f /\ m >= noted /\ n >= noted
        BY <2>1 DEF EndsWith
      <4> QED BY <4>1, <3>1, <3>2, <3>3, <2>3, <1>4 DEF EndsWith
    <3>5. m \in 1 .. lines' /\ n \in 1 .. lines'
      BY <1>1, <1>4
    <3> QED BY <3>1, <3>4, <3>5, <2>2, <1>1, <1>3, <1>4 DEF FileInv
  <2>5. CASE f = 0 /\ left > 0
    <3>1. Len(file) = s + Width /\ m >= noted
      BY <2>1, <2>5 DEF EndsWith
    <3>2. s > 0 /\ IsNewline(file'[s])
      <4>1. s > 0 /\ IsNewline(file[s])
        BY <2>1, <2>5, <1>1 DEF EndsWith
      <4>2. s \in 1 .. Len(file)
        BY <4>1, <3>1
      <4> QED BY <4>1, <4>2, <1>3
    <3>3. PICK g \in 0 .. ItemLen, q \in 1 .. MaxLines : g = left /\ q = lines + 1
      BY <1>1
    <3>4. /\ Len(file') = s + Width + g
          /\ \A k \in 1 .. g : file'[s + Width + k] = <<q, k>>
      BY <3>1, <3>3, <1>3
    <3>5. EndsWith(s, m, g, q)'
      <4>1. q >= noted
        BY <3>3, <1>1
      <4> QED BY <4>1, <3>1, <3>2, <3>4, <2>3, <1>4 DEF EndsWith
    <3>6. m \in 1 .. lines' /\ q \in 1 .. lines'
      BY <3>3, <1>1, <1>4
    <3>7. Len(file') + left' >= page'
      BY <2>2, <1>1, <1>3, <1>4
    <3> QED BY <3>5, <3>6, <3>7, <1>1, <1>3, <1>4 DEF FileInv
  <2> QED BY <2>4, <2>5, <1>1
<1> QED BY <1>5, <1>6

-----------------------------------------------------------------------------
(* The search. *)

\* A buffer with one item in it: less than an item before it that ends with a
\* newline, and after it the end, or a newline and less than an item.
LEMMA OneItem ==
    ASSUME NEW buf, Len(buf) \in Nat, NEW p \in 0 .. ItemLen, NEW n,
           p > 0 => IsNewline(buf[p]),
           \A k \in 1 .. ItemLen : buf[p + k] = <<n, k>>,
           \/ Len(buf) = p + ItemLen
           \/ /\ IsNewline(buf[p + Width])
              /\ Len(buf) >= p + Width /\ Len(buf) < p + Width + ItemLen
    PROVE  Items(buf) = {p + 1} /\ FirstItem(buf) = p + 1 /\ ItemAt(buf, p + 1) = n
<1> USE Constants
<1>1. p + 1 \in 1 .. Len(buf) /\ p + ItemLen \in p + 1 .. Len(buf)
  OBVIOUS
<1>2. \A k \in 1 .. ItemLen : ~IsNewline(buf[p + k])
  <2>1. \A k \in 1 .. ItemLen : buf[p + k][2] = k /\ k # Width
    OBVIOUS
  <2> QED BY <2>1 DEF IsNewline
<1>3. p + 1 \in Items(buf)
  <2>1. \A x \in p + 1 .. p + ItemLen : ~IsNewline(buf[x])
    <3> SUFFICES ASSUME NEW x \in p + 1 .. p + ItemLen PROVE ~IsNewline(buf[x])
      OBVIOUS
    <3>1. x - p \in 1 .. ItemLen /\ x = p + (x - p)
      OBVIOUS
    <3> QED BY <3>1, <1>2
  <2>2. p + ItemLen = Len(buf) \/ IsNewline(buf[p + ItemLen + 1])
    <3>1. p + ItemLen + 1 = p + Width
      OBVIOUS
    <3> QED BY <3>1
  <2>3. p + 1 = 1 \/ IsNewline(buf[p + 1 - 1])
    <3>1. p + 1 - 1 = p
      OBVIOUS
    <3> QED BY <3>1
  <2>4. IsToken(buf, p + 1, p + ItemLen)
    BY <2>1, <2>2, <2>3 DEF IsToken
  <2>5. LongEnough(p + 1, p + ItemLen)
    BY DEF LongEnough
  <2> QED BY <2>4, <2>5, <1>1 DEF Items
<1>4. ASSUME NEW a \in Items(buf) PROVE a = p + 1
  <2>1. PICK b \in a .. Len(buf) : IsToken(buf, a, b) /\ LongEnough(a, b)
    BY DEF Items
  <2>2. a \in 1 .. Len(buf) /\ b \in 1 .. Len(buf) /\ b >= a + ItemLen - 1
    BY <2>1 DEF Items, LongEnough
  <2>3. \A x \in a .. b : ~IsNewline(buf[x])
    BY <2>1 DEF IsToken
  <2>4. CASE a <= p
    <3>1. p \in a .. b
      BY <2>2, <2>4
    <3> QED BY <3>1, <2>2, <2>3, <2>4
  <2>5. CASE a > p + 1 /\ a <= p + ItemLen
    <3>1. a - 1 = p + (a - 1 - p) /\ a - 1 - p \in 1 .. ItemLen /\ a # 1
      BY <2>2, <2>5
    <3>2. IsNewline(buf[a - 1])
      BY <2>1, <3>1 DEF IsToken
    <3> QED BY <3>1, <3>2, <1>2
  <2>6. CASE a >= p + Width
    <3>1. IsNewline(buf[p + Width]) /\ Len(buf) < p + Width + ItemLen
      BY <2>2, <2>6
    <3>2. a = p + Width /\ a \in a .. b
      BY <3>1, <2>2, <2>6
    <3> QED BY <3>1, <3>2, <2>3
  <2> QED BY <2>2, <2>4, <2>5, <2>6
<1>5. Items(buf) = {p + 1}
  BY <1>3, <1>4
<1>6. FirstItem(buf) = p + 1
  BY <1>5 DEF FirstItem
<1>7. ItemAt(buf, p + 1) = n
  <2>1. \A k \in 1 .. ItemLen : p + 1 + k - 1 = p + k
    OBVIOUS
  <2>2. buf[p + 1] = <<n, 1>>
    OBVIOUS
  <2>3. buf[p + 1][1] = n
    BY <2>2
  <2>4. \A k \in 1 .. ItemLen : buf[p + 1 + k - 1] = <<n, k>>
    BY <2>1
  <2> QED BY <2>3, <2>4 DEF ItemAt
<1> QED BY <1>5, <1>6, <1>7

\* A buffer without an item: less than one on both sides of a newline.
LEMMA NoItem ==
    ASSUME NEW buf, Len(buf) \in Nat, NEW p \in 1 .. ItemLen,
           IsNewline(buf[p]), Len(buf) < p + ItemLen
    PROVE  Items(buf) = {}
<1> USE Constants
<1> SUFFICES ASSUME NEW a \in Items(buf) PROVE FALSE
  OBVIOUS
<1>1. PICK b \in a .. Len(buf) : IsToken(buf, a, b) /\ LongEnough(a, b)
  BY DEF Items
<1>2. a \in 1 .. Len(buf) /\ b \in 1 .. Len(buf) /\ b >= a + ItemLen - 1
  BY <1>1 DEF Items, LongEnough
<1>3. p \in a .. b
  BY <1>2
<1> QED BY <1>1, <1>3 DEF IsToken

\* What a start finds in a file that ends so.
LEMMA Finds ==
    ASSUME TypeOK, NEW s \in Nat, NEW m \in 1 .. lines, NEW f \in 0 .. ItemLen,
           NEW n \in 1 .. lines, EndsWith(s, m, f, n), Len(file) + left >= page
    PROVE  ReadItem = [line |-> IF f = ItemLen THEN n ELSE m,
                       skip |-> f \in 1 .. ItemLen - 1]
<1> USE Constants
<1>1. /\ file \in Seq(Byte) /\ Len(file) \in Nat /\ Len(file) = s + Width + f
      /\ page \in Nat /\ page >= 2 * Width
      /\ \A k \in 1 .. Width : file[s + k] = <<m, k>>
      /\ \A k \in 1 .. f : file[s + Width + k] = <<n, k>>
  <2>1. file \in Seq(Byte) /\ Len(file) \in Nat /\ page \in Nat /\ page >= 2 * Width
    BY DEF TypeOK
  <2>2. Len(file) = s + Width + f /\ LineAt(s, m)
        /\ \A k \in 1 .. f : file[s + Width + k] = <<n, k>>
    BY DEF EndsWith
  <2> QED BY <2>1, <2>2 DEF LineAt
<1> DEFINE one == Window(1)
           two == Window(2)
<1>2. Len(one) = Width /\ \A i \in 1 .. Width : one[i] = file[s + f + i]
  <2> DEFINE a == s + f + 1
             b == s + f + Width
  <2>1. /\ Len(file) - 1 * Width + 1 = a /\ Len(file) = b /\ b - a + 1 = Width
        /\ a \in Nat /\ b \in Nat /\ a >= 1 /\ a <= b
        /\ \A i \in 1 .. Width : a + i - 1 = s + f + i
    BY <1>1
  <2>2. one = SubSeq(file, a, b)
    BY <2>1 DEF Window
  <2> HIDE DEF a, b
  <2>3. /\ Len(SubSeq(file, a, b)) = b - a + 1
        /\ \A i \in 1 .. b - a + 1 : SubSeq(file, a, b)[i] = file[a + i - 1]
    BY <1>1, <2>1, Piece
  <2> HIDE DEF one
  <2>4. /\ Len(one) = b - a + 1
        /\ \A i \in 1 .. b - a + 1 : one[i] = file[a + i - 1]
    BY ONLY <2>2, <2>3
  <2>5. Len(one) = Width /\ \A i \in 1 .. Width : one[i] = file[a + i - 1]
    BY ONLY <2>1, <2>4
  <2>6. \A i \in 1 .. Width : file[a + i - 1] = file[s + f + i]
    BY ONLY <2>1
  <2> QED BY ONLY <2>5, <2>6
<1>3. 1 \in 1 .. Len(file) /\ 1 * Width <= Len(file)
  BY <1>1
<1> HIDE DEF one, two
<1>4. CASE f = 0
  <2> DEFINE p == 0
  <2>1. p = 0
    OBVIOUS
  <2> HIDE DEF p
  <2>2. \A k \in 1 .. Width : one[p + k] = <<m, k>>
    <3>1. \A k \in 1 .. Width : s + f + k = s + k /\ p + k = k
      BY <2>1, <1>4
    <3> QED BY <3>1, <1>1, <1>2
  <2>3. IsNewline(one[p + Width]) /\ \A k \in 1 .. ItemLen : one[p + k] = <<m, k>>
    <3>1. one[p + Width] = <<m, Width>>
      BY <2>2
    <3>2. \A k \in 1 .. ItemLen : k \in 1 .. Width
      OBVIOUS
    <3> QED BY <3>1, <3>2, <2>2 DEF IsNewline
  <2>4. /\ p \in 0 .. ItemLen /\ Len(one) \in Nat /\ ~(p > 0)
        /\ Len(one) >= p + Width /\ Len(one) < p + Width + ItemLen
    BY <2>1, <1>2
  <2>5. Items(one) = {p + 1} /\ FirstItem(one) = p + 1 /\ ItemAt(one, p + 1) = m
    BY ONLY <2>3, <2>4, OneItem
  <2>6. 1 \in Tries /\ FirstTry = 1
    BY <2>5, <1>3 DEF Tries, FirstTry, one
  <2> QED BY <2>5, <2>6, <1>4 DEF ReadItem, one
<1>5. CASE f = ItemLen
  <2> DEFINE p == 1
  <2>1. p = 1
    OBVIOUS
  <2> HIDE DEF p
  <2>2. \A k \in 1 .. ItemLen : one[p + k] = <<n, k>>
    <3>1. \A k \in 1 .. ItemLen : s + f + (p + k) = s + Width + k /\ p + k \in 1 .. Width
      BY <2>1, <1>5
    <3> QED BY <3>1, <1>1, <1>2, <1>5
  <2>3. IsNewline(one[p])
    <3>1. s + f + 1 = s + Width /\ 1 \in 1 .. Width
      BY <1>5
    <3>2. one[p] = <<m, Width>>
      BY <3>1, <2>1, <1>1, <1>2
    <3> QED BY <3>2 DEF IsNewline
  <2>4. p \in 0 .. ItemLen /\ Len(one) \in Nat /\ Len(one) = p + ItemLen
    BY <2>1, <1>2
  <2>5. Items(one) = {p + 1} /\ FirstItem(one) = p + 1 /\ ItemAt(one, p + 1) = n
    <3>1. p > 0 => IsNewline(one[p])
      BY <2>3
    <3>2. \/ Len(one) = p + ItemLen
          \/ /\ IsNewline(one[p + Width])
             /\ Len(one) >= p + Width /\ Len(one) < p + Width + ItemLen
      BY <2>4
    <3>3. p \in 0 .. ItemLen /\ Len(one) \in Nat
      BY <2>4
    <3> QED BY ONLY <3>1, <3>2, <3>3, <2>2, OneItem, Zenon
  <2>6. 1 \in Tries /\ FirstTry = 1
    BY <2>5, <1>3 DEF Tries, FirstTry, one
  <2> QED BY <2>5, <2>6, <1>5 DEF ReadItem, one
<1>6. CASE f \in 1 .. ItemLen - 1
  <2>1. IsNewline(one[Width - f])
    <3>1. one[Width - f] = <<m, Width>>
      BY <1>1, <1>2, <1>6, SMTT(20)
    <3> QED BY <3>1 DEF IsNewline
  <2>2. Items(one) = {}
    <3>1. Len(one) \in Nat /\ Width - f \in 1 .. ItemLen /\ Len(one) < Width - f + ItemLen
      BY <1>2, <1>6
    <3> QED BY ONLY <3>1, <2>1, NoItem
  <2>3. /\ left = 0 /\ s > 0 /\ IsNewline(file[s])
    BY <1>6 DEF EndsWith
  <2>4. Len(file) >= 2 * Width /\ s >= Width - f
    BY <2>3, <1>1
  <2>5. Len(two) = 2 * Width
        /\ \A i \in 1 .. 2 * Width : two[i] = file[s - (Width - f) + i]
    <3> DEFINE from == s - (Width - f) + 1
    <3>1. from \in Nat /\ from >= 1 /\ from + 2 * Width - 1 = Len(file)
      BY <2>4, <1>1
    <3>2. two = SubSeq(file, from, from + 2 * Width - 1)
      BY <1>1 DEF Window, two
    <3>3. /\ Len(SubSeq(file, from, from + 2 * Width - 1)) = 2 * Width
          /\ \A i \in 1 .. 2 * Width : SubSeq(file, from, from + 2 * Width - 1)[i]
                                         = file[from + i - 1]
      BY <3>1, <1>1, Piece
    <3> QED BY <3>2, <3>3
  <2> DEFINE p == Width - f
  <2>6. p \in 1 .. ItemLen /\ two[p] = file[s]
    BY <2>5, <1>6
  <2>7. \A k \in 1 .. Width : two[p + k] = <<m, k>>
    <3>1. \A k \in 1 .. Width : s - (Width - f) + (p + k) = s + k /\ p + k \in 1 .. 2 * Width
      BY <1>6
    <3> QED BY <3>1, <2>5, <1>1
  <2>8. IsNewline(two[p]) /\ IsNewline(two[p + Width])
    <3>1. two[p + Width] = <<m, Width>>
      BY <2>7
    <3> QED BY <2>3, <2>6, <3>1 DEF IsNewline
  <2>9. Len(two) \in Nat /\ Len(two) >= p + Width /\ Len(two) < p + Width + ItemLen
    BY <2>5, <1>6
  <2> HIDE DEF p
  <2>10. Items(two) = {p + 1} /\ FirstItem(two) = p + 1 /\ ItemAt(two, p + 1) = m
    <3>1. p \in 0 .. ItemLen /\ \A k \in 1 .. ItemLen : two[p + k] = <<m, k>>
      BY <2>6, <2>7
    <3> QED BY ONLY <3>1, <2>8, <2>9, OneItem, ZenonT(30)
  <2>11. 1 \notin Tries /\ 2 \in Tries
    <3>1. 2 \in 1 .. Len(file) /\ 2 * Width <= Len(file)
      BY <2>4, <1>1
    <3> QED BY <3>1, <2>2, <2>10 DEF Tries, one, two
  <2>12. FirstTry = 2
    BY <2>11 DEF Tries, FirstTry
  <2> QED BY <2>10, <2>11, <2>12, <1>6 DEF ReadItem, two
<1> QED BY <1>4, <1>5, <1>6

-----------------------------------------------------------------------------
\* What a start finds in any file the queue can leave: a whole line, no older
\* than the last acknowledged one, and the last one unless the file is skipped.
LEMMA OpenFinds ==
    ASSUME Inv, file # <<>>
    PROVE  /\ ReadItem \in [line : 1 .. lines, skip : BOOLEAN]
           /\ ReadItem.line >= noted
           /\ ReadItem.skip \/ ReadItem.line = file[Len(file)][1]
<1> USE Constants
<1>1. PICK s \in Nat, m \in 1 .. lines, f \in 0 .. ItemLen, n \in 1 .. lines :
             EndsWith(s, m, f, n)
  BY DEF Inv, FileInv
<1>2. TypeOK /\ Len(file) + left >= page
  BY DEF Inv, FileInv
<1>3. ReadItem = [line |-> IF f = ItemLen THEN n ELSE m, skip |-> f \in 1 .. ItemLen - 1]
  BY <1>1, <1>2, Finds
<1>4. m >= noted /\ n >= noted /\ Len(file) = s + Width + f
  BY <1>1 DEF EndsWith
<1>5. CASE f = 0
  <2>1. file[s + Width] = <<m, Width>>
    BY <1>1 DEF EndsWith, LineAt
  <2>2. Len(file) = s + Width
    BY <1>4, <1>5
  <2>3. file[Len(file)][1] = m
    BY <2>1, <2>2
  <2> QED BY <2>3, <1>3, <1>4, <1>5
<1>6. CASE f > 0
  <2>1. file[s + Width + f] = <<n, f>>
    BY <1>1, <1>6 DEF EndsWith
  <2>2. file[Len(file)][1] = n
    BY <2>1, <1>4
  <2>3. CASE f = ItemLen
    BY <2>2, <2>3, <1>3, <1>4
  <2>4. CASE f \in 1 .. ItemLen - 1
    BY <2>4, <1>3, <1>4
  <2> QED BY <2>3, <2>4, <1>6
<1> QED BY <1>5, <1>6

\* The invariant is about the file and what was noted.
LEMMA SameFile ==
    ASSUME Inv, UNCHANGED <<page, file, left, lines, noted>>,
           up' \in BOOLEAN, item' \in [line : 0 .. MaxLines, skip : BOOLEAN]
    PROVE  Inv'
<1>1. TypeOK'
  BY DEF Inv, TypeOK
<1>2. ASSUME NEW s, NEW m, NEW f, NEW n, EndsWith(s, m, f, n)
      PROVE  EndsWith(s, m, f, n)'
  BY <1>2 DEF EndsWith, LineAt
<1>3. FileInv'
  BY <1>2 DEF Inv, FileInv
<1> QED BY <1>1, <1>3 DEF Inv

LEMMA NextInv == Inv /\ [Next]_vars => Inv'
<1> SUFFICES ASSUME Inv, [Next]_vars PROVE Inv'
  OBVIOUS
<1> USE Constants
<1>1. CASE Write
  BY <1>1, WriteInv
<1>2. CASE WriteFull
  <2>1. Stop /\ UNCHANGED <<page, noted>> /\ UNCHANGED <<up, item>>
    BY <1>2 DEF WriteFull
  <2> QED BY <2>1, StopInv DEF Inv, TypeOK
<1>3. CASE Kill
  <2>1. CASE Stop
    <3>1. UNCHANGED <<page, noted>> /\ up' \in BOOLEAN /\ item' = item
      BY <1>3 DEF Kill
    <3> QED BY <2>1, <3>1, StopInv DEF Inv, TypeOK
  <2>2. CASE UNCHANGED <<file, left, lines>>
    BY <1>3, <2>2, SameFile DEF Kill, Inv, TypeOK
  <2> QED BY <1>3, <2>1, <2>2 DEF Kill
<1>4. CASE Open
  <2>1. item' \in [line : 0 .. MaxLines, skip : BOOLEAN]
    <3>1. item' = ReadItem /\ file # <<>> /\ lines \in 0 .. MaxLines
      BY <1>4 DEF Open, Inv, TypeOK
    <3>2. ReadItem \in [line : 1 .. lines, skip : BOOLEAN]
      BY <3>1, OpenFinds
    <3> QED BY <3>1, <3>2
  <2> QED BY <2>1, <1>4, SameFile DEF Open
<1>5. CASE OpenEmpty
  BY <1>5, SameFile DEF OpenEmpty, vars, Inv, TypeOK
<1>6. CASE UNCHANGED vars
  BY <1>6, SameFile DEF vars, Inv, TypeOK
<1> QED BY <1>1, <1>2, <1>3, <1>4, <1>5, <1>6 DEF Next

\* The bytes of a tag file end as FileInv says, whatever was torn.
THEOREM TagInvariance == Spec => []Inv
  BY InitInv, NextInv, PTL DEF Spec

\* The file is opened by Open only.
LEMMA OpensIs ==
    ASSUME Inv, [Next]_vars, Opens
    PROVE  item' = ReadItem /\ file # <<>>
<1>1. ~up /\ up' \in BOOLEAN /\ up' = TRUE
  BY NextInv DEF Opens, Inv, TypeOK
<1> QED BY <1>1 DEF Next, Write, WriteFull, Kill, Open, OpenEmpty, vars

\* For lines of any length, pages of any size and any number of torn lines, a
\* start goes on from a line that was written whole and is not older than the
\* last acknowledged one (mq_sm_rtag_read_item, mq_sm_wtag_read_item).
THEOREM NotesSurvive == Spec => NoteSurvives
<1>1. Inv /\ [Next]_vars => [Opens => item'.line \in noted .. lines /\ item'.line > 0]_vars
  <2> SUFFICES ASSUME Inv, [Next]_vars, Opens
               PROVE  item'.line \in noted .. lines /\ item'.line > 0
    OBVIOUS
  <2>1. /\ item' = ReadItem /\ lines \in Nat /\ noted \in Nat
        /\ ReadItem \in [line : 1 .. lines, skip : BOOLEAN] /\ ReadItem.line >= noted
    BY OpensIs, OpenFinds, Constants DEF Inv, TypeOK
  <2> QED BY <2>1
<1> QED BY <1>1, TagInvariance, PTL DEF Spec, NoteSurvives

\* In the same generality, writing never goes on over a record whose line was
\* torn.
THEOREM NothingCovered == Spec => NoCoverage
<1>1. Inv /\ [Next]_vars =>
         [Opens => item'.skip \/ item'.line = file[Len(file)][1]]_vars
  BY OpensIs, OpenFinds
<1> QED BY <1>1, TagInvariance, PTL DEF Spec, NoCoverage

=============================================================================
