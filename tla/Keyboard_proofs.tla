--------------------------- MODULE Keyboard_proofs ---------------------------
(***************************************************************************)
(* What a read delivers (module Keyboard), for every size of the buffer    *)
(* and every keyboard table.                                               *)
(*                                                                         *)
(* The handler changes the scan state only while the reader spins on       *)
(* scanFlag, and there the buffer holds the line as far as it was typed:   *)
(* that is a fact about the value Scan (ScanOK), shown for each thing a    *)
(* key does to it.  From Enter on nobody but the reader moves.             *)
(*                                                                         *)
(* The last part is about the screen the keys are echoed to (module        *)
(* Console), for every size of it.                                         *)
(***************************************************************************)
EXTENDS Keyboard, Console, WellFoundedInduction, TLAPS

ScanType == [flag : {0, 1, Garbage}, len : -1 .. SCANBUF + 1,
             buf : [Cell -> Char], line : Seq(Char), bad : BOOLEAN]

\* What the copy reads at i.
ReadAt(buf, i) == IF i \in Cell THEN buf[i] ELSE NUL

\* The buffer holds the line, unless the line ran past an end of it.
Holds(s) == /\ s.flag # Garbage
            /\ s.len = Len(s.line)
            /\ \A i \in 0 .. s.len - 1 : ReadAt(s.buf, i) = s.line[i + 1]

ScanOK(s) == /\ s \in ScanType
             /\ s.flag = 1 => s.len <= SCANBUF
             /\ s.len <= Len(s.line)
             /\ s.flag = Garbage => Len(s.line) > SCANBUF
             /\ s.bad \/ Holds(s)

-----------------------------------------------------------------------------
(* What keys do to the scan state.                                         *)

LEMMA Sizes == /\ SCANBUF \in Nat \ {0} /\ NUL \in Char /\ BLANK \in Char
               /\ Garbage = 2 /\ Cell = 0 .. SCANBUF - 1
BY KeyboardAssumption DEF Garbage, Cell

LEMMA Parts ==
    ASSUME NEW s \in ScanType
    PROVE  /\ s.flag \in {0, 1, Garbage} /\ s.len \in -1 .. SCANBUF + 1
           /\ s.buf \in [Cell -> Char] /\ s.line \in Seq(Char) /\ s.bad \in BOOLEAN
BY DEF ScanType

\* A store changes the cell, or what lies beyond the buffer.
LEMMA StoreIs ==
    ASSUME NEW s \in ScanType, NEW i \in Int, NEW c \in Char
    PROVE  LET r == Store(s, i, c)
           IN  /\ r \in ScanType
               /\ r.len = s.len /\ r.line = s.line
               /\ r.flag = IF i # SCANBUF THEN s.flag ELSE IF c = NUL THEN 0 ELSE Garbage
               /\ r.buf = IF i \in Cell THEN [s.buf EXCEPT ![i] = c] ELSE s.buf
               /\ r.bad <=> s.bad \/ i < 0 \/ (i = SCANBUF /\ c # NUL)
<1> DEFINE b == IF i \in Cell THEN [s.buf EXCEPT ![i] = c] ELSE s.buf
           f == IF i # SCANBUF THEN s.flag ELSE IF c = NUL THEN 0 ELSE Garbage
           bad == s.bad \/ i < 0 \/ (i = SCANBUF /\ c # NUL)
<1>1. Store(s, i, c) = [s EXCEPT !.buf = b, !.flag = f, !.bad = bad]
  BY DEF Store
<1>2. b \in [Cell -> Char] /\ f \in {0, 1, Garbage} /\ bad \in BOOLEAN
  BY Parts, Sizes
<1> HIDE DEF b, f, bad
<1>3. LET r == [s EXCEPT !.buf = b, !.flag = f, !.bad = bad]
      IN  /\ r \in ScanType
          /\ r.len = s.len /\ r.line = s.line
          /\ r.flag = f /\ r.buf = b /\ r.bad = bad
  BY <1>2 DEF ScanType
<1> QED
  BY <1>1, <1>3 DEF b, f, bad

\* scanBuffer[scanLength++] = c (keyboard.c:319).
LEMMA PutOK ==
    ASSUME NEW s, ScanOK(s), NEW c \in Char
    PROVE  ScanOK(Put(s, c))
<1>1. /\ s \in ScanType /\ (s.flag = 1 => s.len <= SCANBUF) /\ (s.bad \/ Holds(s))
      /\ s.len <= Len(s.line)
  BY DEF ScanOK
<1>2. /\ s.flag \in {0, 1, Garbage} /\ s.len \in -1 .. SCANBUF + 1
      /\ s.buf \in [Cell -> Char] /\ s.line \in Seq(Char) /\ s.bad \in BOOLEAN
  BY <1>1, Parts
<1>3. CASE s.flag # 1
  BY <1>3 DEF Put
<1>4. CASE s.flag = 1
  <2> DEFINE r  == Store(s, s.len, c)
             ln == Append(s.line, c)
             k  == s.len + 1
             p  == [r EXCEPT !.len = k, !.line = ln]
  <2>1. /\ r \in ScanType
        /\ r.len = s.len /\ r.line = s.line
        /\ r.flag = IF s.len # SCANBUF THEN 1 ELSE IF c = NUL THEN 0 ELSE Garbage
        /\ r.buf = IF s.len \in Cell THEN [s.buf EXCEPT ![s.len] = c] ELSE s.buf
    <3>1. s.len \in Int
      BY <1>2, Sizes
    <3> QED
      BY <1>1, <1>4, <3>1, StoreIs
  <2>b. r.bad <=> s.bad \/ s.len < 0 \/ (s.len = SCANBUF /\ c # NUL)
    <3>1. s.len \in Int
      BY <1>2, Sizes
    <3> QED
      BY <1>1, <3>1, StoreIs
  <2>2. Put(s, c) = p
    BY <1>4, <2>1 DEF Put
  <2>3. ln \in Seq(Char) /\ k \in -1 .. SCANBUF + 1 /\ k = s.len + 1 /\ s.len <= SCANBUF
    BY <1>1, <1>2, <1>4, Sizes
  <2> HIDE DEF r
  <2>4. /\ p \in ScanType
        /\ p.len = k /\ p.line = ln /\ p.flag = r.flag /\ p.buf = r.buf /\ p.bad = r.bad
    <3>1. r \in ScanType
      BY <2>1
    <3> HIDE DEF k, ln
    <3> QED
      BY <2>3, <3>1 DEF ScanType
  <2>5. p.flag = 1 => k <= SCANBUF
    BY <1>2, <2>1, <2>3, <2>4, Sizes
  <2>6. ASSUME ~r.bad PROVE Holds(p)
    <3>1. ~s.bad /\ s.len >= 0 /\ ~(s.len = SCANBUF /\ c # NUL)
      BY <1>2, <2>b, <2>6, Sizes
    <3>2. s.len = Len(s.line) /\ \A i \in 0 .. s.len - 1 : ReadAt(s.buf, i) = s.line[i + 1]
      BY <1>1, <3>1 DEF Holds
    <3>3. Len(ln) = k /\ ln[k] = c /\ \A j \in 1 .. s.len : ln[j] = s.line[j]
      BY <1>2, <3>2
    <3>4. p.flag # Garbage
      BY <2>1, <2>4, <3>1, Sizes
    <3>5. ASSUME NEW i \in 0 .. k - 1 PROVE ReadAt(r.buf, i) = ln[i + 1]
      <4>1. CASE i = s.len
        <5>1. CASE i \in Cell
          BY <1>2, <2>1, <3>3, <4>1, <5>1 DEF ReadAt
        <5>2. CASE i \notin Cell
          BY <1>2, <2>3, <3>1, <3>3, <4>1, <5>2, Sizes DEF ReadAt
        <5> QED
          BY <5>1, <5>2
      <4>2. CASE i # s.len
        <5>1. i \in 0 .. s.len - 1 /\ i + 1 \in 1 .. s.len
          BY <1>2, <2>3, <3>5, <4>2
        <5>2. ReadAt(r.buf, i) = ReadAt(s.buf, i)
          BY <1>2, <2>1, <4>2 DEF ReadAt
        <5> QED
          BY <3>2, <3>3, <5>1, <5>2
      <4> QED
        BY <4>1, <4>2
    <3> HIDE DEF p, k, ln
    <3> QED
      BY <2>4, <3>3, <3>4, <3>5 DEF Holds
  <2>7. p.len <= Len(p.line) /\ (p.flag = Garbage => Len(p.line) > SCANBUF)
    <3>1. Len(ln) = Len(s.line) + 1
      BY <1>2
    <3> HIDE DEF p, k, ln
    <3>2. p.flag = Garbage => s.len = SCANBUF
      BY <2>1, <2>4, Sizes
    <3> QED
      BY <1>1, <1>2, <2>3, <2>4, <3>1, <3>2, Sizes
  <2> HIDE DEF p, k, ln
  <2> QED
    BY <2>2, <2>4, <2>5, <2>6, <2>7 DEF ScanOK
<1> QED
  BY <1>3, <1>4

\* Enter: the newline's NUL is stored behind the line (keyboard.c:132-136).
LEMMA EnterOK ==
    ASSUME NEW s, ScanOK(s), s.flag = 1
    PROVE  ScanOK(Store([s EXCEPT !.flag = 0], s.len, NUL))
<1> DEFINE q == [s EXCEPT !.flag = 0]
           r == Store(q, s.len, NUL)
<1>1. s \in ScanType /\ (s.bad \/ Holds(s)) /\ s.len <= Len(s.line)
  BY DEF ScanOK
<1>2. /\ s.flag \in {0, 1, Garbage} /\ s.len \in -1 .. SCANBUF + 1
      /\ s.buf \in [Cell -> Char] /\ s.line \in Seq(Char) /\ s.bad \in BOOLEAN
      /\ s.len \in Int
  BY <1>1, Parts, Sizes
<1>3. /\ q \in ScanType /\ q.flag = 0
      /\ q.len = s.len /\ q.line = s.line /\ q.buf = s.buf /\ q.bad = s.bad
  BY <1>1 DEF ScanType
<1> HIDE DEF q
<1>4. /\ r \in ScanType
      /\ r.len = s.len /\ r.line = s.line /\ r.flag = 0
      /\ r.buf = IF s.len \in Cell THEN [s.buf EXCEPT ![s.len] = NUL] ELSE s.buf
  <2>1. /\ r \in ScanType
        /\ r.len = q.len /\ r.line = q.line
        /\ r.flag = IF s.len # SCANBUF THEN q.flag ELSE IF NUL = NUL THEN 0 ELSE Garbage
        /\ r.buf = IF s.len \in Cell THEN [q.buf EXCEPT ![s.len] = NUL] ELSE q.buf
    BY <1>2, <1>3, StoreIs, Sizes
  <2> HIDE DEF r
  <2> QED
    BY <1>3, <2>1
<1>b. r.bad <=> s.bad \/ s.len < 0
  BY <1>2, <1>3, StoreIs, Sizes
<1> SUFFICES ScanOK(r)
  BY DEF q
<1> HIDE DEF r
<1>5. ASSUME ~r.bad PROVE Holds(r)
  <2>1. /\ s.len = Len(s.line)
        /\ \A i \in 0 .. s.len - 1 : ReadAt(s.buf, i) = s.line[i + 1]
    BY <1>1, <1>2, <1>b, <1>5 DEF Holds
  <2>2. \A i \in 0 .. s.len - 1 : ReadAt(r.buf, i) = ReadAt(s.buf, i)
    BY <1>2, <1>4 DEF ReadAt
  <2> QED
    BY <1>4, <2>1, <2>2, Sizes DEF Holds
<1> QED
  BY <1>1, <1>4, <1>5, Sizes DEF ScanOK

\* Backspace: a blank over the last character (keyboard.c:302-303).
LEMMA BackspaceOK ==
    ASSUME NEW s, ScanOK(s), s.flag = 1, s.len >= 0
    PROVE  LET r == Store(s, s.len - 1, BLANK)
           IN  ScanOK([r EXCEPT !.len  = s.len - 1,
                                !.line = IF @ = <<>> THEN @ ELSE SubSeq(@, 1, Len(@) - 1)])
<1> DEFINE k  == s.len - 1
           r  == Store(s, k, BLANK)
           ln == IF s.line = <<>> THEN s.line ELSE SubSeq(s.line, 1, Len(s.line) - 1)
           p  == [r EXCEPT !.len = k, !.line = ln]
<1>1. /\ s \in ScanType /\ (s.bad \/ Holds(s)) /\ s.len <= SCANBUF
      /\ s.len <= Len(s.line)
  BY DEF ScanOK
<1>2. /\ s.flag \in {0, 1, Garbage} /\ s.len \in -1 .. SCANBUF + 1
      /\ s.buf \in [Cell -> Char] /\ s.line \in Seq(Char) /\ s.bad \in BOOLEAN
  BY <1>1, Parts
<1>3. /\ k \in -1 .. SCANBUF + 1 /\ k \in Int /\ k < SCANBUF /\ k = s.len - 1
      /\ ln \in Seq(Char)
  BY <1>1, <1>2, Sizes
<1>4. /\ r \in ScanType
      /\ r.len = s.len /\ r.line = s.line /\ r.flag = 1
      /\ r.buf = IF k \in Cell THEN [s.buf EXCEPT ![k] = BLANK] ELSE s.buf
  <2>1. k # SCANBUF
    BY <1>3, Sizes
  <2> HIDE DEF k
  <2> QED
    <3>1. /\ r \in ScanType
          /\ r.len = s.len /\ r.line = s.line
          /\ r.flag = IF k # SCANBUF THEN s.flag ELSE IF BLANK = NUL THEN 0 ELSE Garbage
          /\ r.buf = IF k \in Cell THEN [s.buf EXCEPT ![k] = BLANK] ELSE s.buf
      <4>1. BLANK \in Char /\ s \in ScanType /\ k \in Int
        BY <1>1, <1>3, Sizes
      <4> QED
        BY <4>1, StoreIs
    <3> HIDE DEF r
    <3> QED
      BY <2>1, <3>1
<1>b. r.bad <=> s.bad \/ k < 0
  <2>1. k # SCANBUF
    BY <1>3, Sizes
  <2> HIDE DEF k
  <2> QED
    BY <1>1, <1>3, <2>1, StoreIs, Sizes
<1>5. [r EXCEPT !.len  = s.len - 1,
                !.line = IF @ = <<>> THEN @ ELSE SubSeq(@, 1, Len(@) - 1)] = p
  <2> HIDE DEF r
  <2> QED
    BY <1>4
<1> SUFFICES ScanOK(p)
  BY <1>5
<1>6. s.line # <<>> => ln = SubSeq(s.line, 1, Len(s.line) - 1)
  OBVIOUS
<1>len. k <= Len(ln)
  <2>1. CASE s.line = <<>>
    BY <1>1, <1>2, <2>1
  <2>2. CASE s.line # <<>>
    <3>1. Len(s.line) - 1 \in Nat /\ Len(s.line) - 1 <= Len(s.line)
      BY <1>2, <2>2
    <3>2. Len(SubSeq(s.line, 1, Len(s.line) - 1)) = Len(s.line) - 1
      BY <1>2, <3>1
    <3> QED
      BY <1>1, <1>2, <1>6, <2>2, <3>1, <3>2
  <2> QED
    BY <2>1, <2>2
<1> HIDE DEF k, r, ln
<1>7. /\ p \in ScanType
      /\ p.len = k /\ p.line = ln /\ p.flag = r.flag /\ p.buf = r.buf /\ p.bad = r.bad
  <2>1. r \in ScanType
    BY <1>4
  <2> QED
    BY <1>3, <2>1 DEF ScanType
<1> HIDE DEF p
<1>8. ASSUME ~r.bad PROVE Holds(p)
  <2>1. ~s.bad /\ ~(k < 0)
    BY <1>b, <1>8
  <2>2. s.len = Len(s.line) /\ \A i \in 0 .. s.len - 1 : ReadAt(s.buf, i) = s.line[i + 1]
    BY <1>1, <2>1 DEF Holds
  <2>3. s.line # <<>>
    BY <1>2, <1>3, <2>1, <2>2
  <2>4. Len(ln) = k /\ \A j \in 1 .. k : ln[j] = s.line[j]
    BY <1>2, <1>3, <1>6, <2>1, <2>2, <2>3
  <2>5. ASSUME NEW i \in 0 .. k - 1 PROVE ReadAt(r.buf, i) = ln[i + 1]
    <3>1. i \in 0 .. s.len - 1 /\ i + 1 \in 1 .. k /\ i # k
      BY <1>3
    <3>2. ReadAt(r.buf, i) = ReadAt(s.buf, i)
      BY <1>2, <1>4, <3>1 DEF ReadAt
    <3> QED
      BY <2>2, <2>4, <3>1, <3>2
  <2> QED
    BY <1>4, <1>7, <2>4, <2>5, Sizes DEF Holds
<1>9. p.flag = 1 => p.len <= SCANBUF
  BY <1>3, <1>7, Sizes
<1>10. p.len <= Len(p.line) /\ p.flag # Garbage
  BY <1>4, <1>7, <1>len, Sizes
<1> QED
  BY <1>7, <1>8, <1>9, <1>10 DEF ScanOK

-----------------------------------------------------------------------------
(* The reader.                                                             *)

\* Only while the reader spins is the buffer open to keys; from the moment
\* Enter closed it, what the copy has taken is the line up to there.
Armed   == scanFlag # 0 => pc = "spin"
Begun   == /\ pc \in {"clear", "spin"} => got = <<>>
           /\ pc = "clear" => n <= SCANBUF
Scanned == pc \in {"spin", "copy"} => ScanOK(Scan)
Loops   == pc \in {"copy", "wipe"} => copyLen = scanLength /\ (n = 0 \/ n <= copyLen)
Copied  == pc = "copy" =>
              Len(got) = n /\ (~spoiled => \A i \in 1 .. n : got[i] = line[i])

IInv == /\ TypeOK /\ Armed /\ StartsFresh /\ Begun /\ Scanned /\ Loops /\ Copied
        /\ DeliversLine /\ StopsOnlyWhenErased

LEMMA InitIInv == Init => IInv
<1> SUFFICES ASSUME Init PROVE IInv
  OBVIOUS
<1>1. TypeOK
  <2>1. scanBuffer \in [Cell -> Char] /\ spoiled \in BOOLEAN
    BY Sizes DEF Init
  <2>2. got \in Seq(Char) /\ line \in Seq(Char)
    BY DEF Init
  <2>3. scanLength \in -1 .. SCANBUF + 1 /\ n \in 0 .. SCANBUF + 1
        /\ copyLen \in -1 .. SCANBUF + 1
    BY Sizes DEF Init
  <2> QED
    BY <2>1, <2>2, <2>3 DEF Init, TypeOK
<1> QED
  BY <1>1 DEF Init, IInv, Armed, StartsFresh, Begun, Scanned, Loops, Copied,
              DeliversLine, StopsOnlyWhenErased

\* A key that is stored, and Enter: the reader is spinning, and spins on.
LEMMA KeyStep ==
    ASSUME IInv, scanFlag = 1, NEW s, ScanOK(s), SetScan(s), UNCHANGED <<modifiers, reader>>
    PROVE  IInv'
<1>1. pc = "spin" /\ pc' = pc /\ n' = n /\ copyLen' = copyLen /\ got' = got /\ got = <<>>
  BY DEF IInv, Armed, Begun, reader
<1>2. s \in ScanType
  BY DEF ScanOK
<1>3. Scan' = s
  BY <1>2 DEF SetScan, Scan, ScanType
<1>4. TypeOK'
  BY <1>1, <1>2, Parts DEF IInv, TypeOK, SetScan, modifiers, reader
<1> QED
  BY <1>1, <1>3, <1>4 DEF IInv, Armed, StartsFresh, Begun, Scanned, Loops, Copied,
                          DeliversLine, StopsOnlyWhenErased

LEMMA Inductive == IInv /\ [Next]_vars => IInv'
<1> SUFFICES ASSUME IInv, [Next]_vars PROVE IInv'
  OBVIOUS
<1> USE DEF Armed, StartsFresh, Begun, Loops, Copied, DeliversLine, StopsOnlyWhenErased
<1>1. ASSUME UNCHANGED <<shared, ghosts, reader>>, TypeOK' PROVE IInv'
  BY <1>1 DEF IInv, Scanned, Scan, shared, ghosts, reader
<1>2. ASSUME NEW k \in ShiftKey, ShiftDown(k) \/ ShiftUp(k) PROVE IInv'
  BY <1>1, <1>2 DEF IInv, TypeOK, ShiftDown, ShiftUp, shared, ghosts, reader
<1>3. ASSUME NEW down \in BOOLEAN, ControlKey(down) PROVE IInv'
  BY <1>1, <1>3 DEF IInv, TypeOK, ControlKey, shared, ghosts, reader
<1>4. scanFlag = 1 => ScanOK(Scan) /\ Scan.flag = 1 /\ Scan.len = scanLength
  BY DEF IInv, Scanned, Scan
<1>5. CASE Enter
  <2>1. ScanOK(Store([Scan EXCEPT !.flag = 0], scanLength, NUL))
    BY <1>4, <1>5, EnterOK DEF Enter
  <2> QED
    BY <1>5, <2>1, KeyStep DEF Enter
<1>6. ASSUME NEW k \in Key, ShiftedKey(k) PROVE IInv'
  <2> DEFINE once == Put(Scan, Shifted[k])
  <2>1. Shifted[k] \in Char /\ Shifted[PERIOD] \in Char
    BY KeyboardAssumption
  <2>2. ScanOK(once)
    BY <1>4, <1>6, <2>1, PutOK DEF ShiftedKey
  <2>3. ScanOK(IF k = COMMA THEN Put(once, Shifted[PERIOD]) ELSE once)
    BY <2>1, <2>2, PutOK
  <2> QED
    BY <1>6, <2>3, KeyStep DEF ShiftedKey
<1>7. ASSUME NEW k \in Key, PlainKey(k) PROVE IInv'
  <2>1. Plain[k] \in Char
    BY KeyboardAssumption
  <2>2. ScanOK(Put(Scan, Plain[k]))
    BY <1>4, <1>7, <2>1, PutOK DEF PlainKey
  <2> QED
    BY <1>7, <2>2, KeyStep DEF PlainKey
<1>8. CASE Backspace
  <2> DEFINE r == Store(Scan, scanLength - 1, BLANK)
             e == [r EXCEPT !.len  = scanLength - 1,
                            !.line = IF @ = <<>> THEN @ ELSE SubSeq(@, 1, Len(@) - 1)]
  <2>1. ScanOK(e)
    BY <1>4, <1>8, BackspaceOK DEF Backspace
  <2> QED
    BY <1>8, <2>1, KeyStep DEF Backspace
<1>9. CASE StartRead
  <2>1. TypeOK'
    BY <1>9, Sizes DEF IInv, TypeOK, StartRead, modifiers, shared, ghosts
  <2> QED
    BY <1>9, <2>1, Sizes DEF IInv, Scanned, StartRead, shared, ghosts
<1>10. CASE ClearByte
  <2>1. n + 1 \in 0 .. SCANBUF + 1 /\ n + 1 <= SCANBUF
    BY <1>10, Sizes DEF ClearByte
  <2>2. TypeOK'
    BY <1>10, <2>1, Sizes DEF IInv, TypeOK, ClearByte, modifiers, ghosts
  <2> QED
    BY <1>10, <2>1, <2>2 DEF IInv, Scanned, ClearByte, ghosts
<1>11. CASE Arm
  <2>1. TypeOK'
    BY <1>11 DEF IInv, TypeOK, Arm, modifiers
  <2>2. scanLength = 0 /\ scanLength' = 0 /\ scanBuffer \in [Cell -> Char]
    BY <1>11 DEF IInv, TypeOK, Arm
  <2>3. Scan' \in ScanType /\ Scan.flag' = 1 /\ Scan.len' = 0 /\ Scan.line' = <<>>
    BY <1>11, <2>1, <2>2 DEF Arm, Scan, ScanType, TypeOK
  <2>4. Holds(Scan)'
    BY <2>3, Sizes DEF Holds
  <2>5. Scanned'
    BY <2>3, <2>4, Sizes DEF Scanned, ScanOK
  <2> QED
    BY <1>11, <2>1, <2>5 DEF IInv, Arm
<1>12. CASE SpinEnds
  <2>1. TypeOK'
    BY <1>12, Sizes DEF IInv, TypeOK, SpinEnds, modifiers, shared, ghosts
  <2> QED
    BY <1>12, <2>1 DEF IInv, Scanned, Scan, SpinEnds, shared, ghosts
<1>13. CASE CopyByte
  <2>1. /\ n + 1 \in 0 .. SCANBUF + 1 /\ n + 1 <= copyLen /\ n >= 0
        /\ n \in 0 .. scanLength - 1
    BY <1>13, Sizes DEF IInv, TypeOK, CopyByte
  <2>2. CellOrFlag(n) \in Char /\ CellOrFlag(n) = ReadAt(scanBuffer, n)
    BY Sizes DEF IInv, TypeOK, CellOrFlag, ReadAt
  <2>3. got' \in Seq(Char) /\ Len(got') = n + 1 /\ got'[n + 1] = CellOrFlag(n)
        /\ \A i \in 1 .. n : got'[i] = got[i]
    BY <1>13, <2>2 DEF IInv, TypeOK, CopyByte
  <2>4. ~spoiled => CellOrFlag(n) = line[n + 1]
    BY <1>13, <2>1, <2>2 DEF IInv, Scanned, ScanOK, Holds, Scan, CopyByte
  <2>5. TypeOK'
    BY <1>13, <2>1, <2>3 DEF IInv, TypeOK, CopyByte, modifiers, shared, ghosts
  <2>6. Copied'
    <3>1. ASSUME ~spoiled, NEW i \in 1 .. n + 1 PROVE got'[i] = line[i]
      BY <1>13, <2>1, <2>3, <2>4, <3>1 DEF IInv, CopyByte
    <3> QED
      BY <1>13, <2>3, <3>1 DEF CopyByte, ghosts
  <2> QED
    BY <1>13, <2>1, <2>5, <2>6 DEF IInv, Scanned, Scan, CopyByte, shared, ghosts
<1>14. CASE CopyRunsAway
  <2>1. scanLength = -1
    BY <1>14 DEF IInv, TypeOK, CopyRunsAway
  <2>2. spoiled
    BY <1>14, <2>1 DEF IInv, TypeOK, Scanned, ScanOK, Holds, Scan, CopyRunsAway
  <2>3. TypeOK'
    BY <1>14 DEF IInv, TypeOK, CopyRunsAway, modifiers, shared, ghosts
  <2> QED
    BY <1>14, <2>1, <2>2, <2>3 DEF IInv, Scanned, CopyRunsAway, shared, ghosts
<1>15. CASE CopyEnds
  <2>1. TypeOK'
    BY <1>15, Sizes DEF IInv, TypeOK, CopyEnds, modifiers, shared, ghosts
  <2>2. ~spoiled => got = line
    <3>1. ASSUME ~spoiled PROVE got = line
      <4>1. Len(line) = scanLength
        BY <1>15, <3>1 DEF IInv, Scanned, ScanOK, Holds, Scan, CopyEnds
      <4>2. Len(got) = Len(line) /\ \A i \in 1 .. Len(got) : got[i] = line[i]
        BY <1>15, <3>1, <4>1 DEF IInv, CopyEnds
      <4> QED
        BY <4>2 DEF IInv, TypeOK
    <3> QED
      BY <3>1
  <2> QED
    BY <1>15, <2>1, <2>2 DEF IInv, Scanned, CopyEnds, shared, ghosts
<1>16. CASE WipeByte
  <2>1. n + 1 \in 0 .. SCANBUF + 1 /\ n + 1 <= copyLen
    BY <1>16, Sizes DEF IInv, TypeOK, WipeByte
  <2>2. scanFlag = 0 /\ scanFlag' = 0 /\ scanBuffer' \in [Cell -> Char]
    BY <1>16, Sizes DEF IInv, TypeOK, WipeByte
  <2>3. TypeOK'
    BY <1>16, <2>1, <2>2 DEF IInv, TypeOK, WipeByte, modifiers, ghosts
  <2> QED
    BY <1>16, <2>1, <2>2, <2>3 DEF IInv, Scanned, WipeByte, ghosts
<1>17. CASE Disarm
  <2>1. TypeOK'
    BY <1>17 DEF IInv, TypeOK, Disarm, modifiers, ghosts
  <2> QED
    BY <1>17, <2>1 DEF IInv, Scanned, Disarm, ghosts
<1>18. CASE FinishRead
  <2>1. TypeOK'
    BY <1>18, Sizes DEF IInv, TypeOK, FinishRead, modifiers, ghosts
  <2> QED
    BY <1>18, <2>1 DEF IInv, Scanned, FinishRead, ghosts
<1>19. CASE UNCHANGED vars
  <2>1. TypeOK'
    BY <1>19 DEF IInv, TypeOK, vars, modifiers, shared, ghosts, reader
  <2> QED
    BY <1>1, <1>19, <2>1 DEF vars
<1> QED
  BY <1>2, <1>3, <1>5, <1>6, <1>7, <1>8, <1>9, <1>10, <1>11, <1>12, <1>13, <1>14, <1>15,
     <1>16, <1>17, <1>18, <1>19 DEF Next, Handler, ReaderStep

THEOREM Invariant == Spec => []IInv
BY InitIInv, Inductive, PTL DEF Spec

\* Lengths, indices and what the buffers hold keep their types: in particular the
\* reader's loops stay within one byte of scanBuffer, whatever keys come.
THEOREM TypeCorrect == Spec => []TypeOK
<1>1. IInv => TypeOK
  BY DEF IInv
<1> QED
  BY <1>1, Invariant, PTL

\* A read returns exactly the line that was typed, unless it ran past an end of
\* the buffer.
THEOREM LineDelivered == Spec => []DeliversLine
<1>1. IInv => DeliversLine
  BY DEF IInv
<1> QED
  BY <1>1, Invariant, PTL

\* A read begins with nothing left of the line before.
THEOREM ReadsStartFresh == Spec => []StartsFresh
<1>1. IInv => StartsFresh
  BY DEF IInv
<1> QED
  BY <1>1, Invariant, PTL

\* Only erasing an empty line leads to the page fault that stops the machine.
THEOREM OnlyErasingStops == Spec => []StopsOnlyWhenErased
<1>1. IInv => StopsOnlyWhenErased
  BY DEF IInv
<1> QED
  BY <1>1, Invariant, PTL

\* A read hangs, its scanFlag overwritten, only on a line longer than the
\* buffer (keyboard.c:319).
THEOREM OnlyOverlongHangs == Spec => []HangsOnlyWhenOverlong
<1>1. IInv => HangsOnlyWhenOverlong
  BY Sizes DEF IInv, Armed, Scanned, ScanOK, Scan, HangsOnlyWhenOverlong
<1> QED
  BY <1>1, Invariant, PTL

\* No key changes what the loops of the reader walk over.
THEOREM HandlerStaysOff == Spec => HandlerKeepsOff
<1>1. IInv /\ [Next]_vars
        => [pc # "spin" /\ pc' = pc /\ n' = n =>
              UNCHANGED <<scanFlag, scanLength, scanBuffer>>]_vars
  <2> SUFFICES ASSUME IInv, Next, pc # "spin", pc' = pc, n' = n
               PROVE  UNCHANGED <<scanFlag, scanLength, scanBuffer>>
    BY DEF vars, shared
  <2>1. scanFlag # 1 /\ n \in Int
    BY DEF IInv, Armed, TypeOK
  <2> QED
    BY <2>1 DEF Next, Handler, ReaderStep, ShiftDown, ShiftUp, ControlKey, Enter,
                ShiftedKey, PlainKey, Backspace, StartRead, ClearByte, Arm, SpinEnds,
                CopyByte, CopyRunsAway, CopyEnds, WipeByte, Disarm, FinishRead, shared
<1> QED
  BY <1>1, Invariant, PTL DEF Spec, HandlerKeepsOff

\* After Enter the reader is on its way out: the stage it is at, and how much
\* of the loop of that stage is ahead.
Leaving == (pc = "spin" /\ scanFlag = 0) \/ pc \in {"copy", "wipe", "zero"}
Rank    == CASE pc = "spin" -> 3 [] pc = "copy" -> 2 [] pc = "wipe" -> 1 [] OTHER -> 0
Ahead   == IF pc \in {"copy", "wipe"} THEN copyLen - n + 1 ELSE 0

\* What is ahead is finite, and one of the reader's steps can be taken.
WayOut == /\ Ahead \in Nat
          /\ pc = "copy" => n < copyLen \/ n = copyLen \/ copyLen < 0

\* No step takes the reader back: it ends the read, or brings the end nearer,
\* or is a key, and leaves the reader where it was.
GoesOut ==
    Leaving =>
        \/ pc' \in {"user", "stopped"}
        \/ Leaving' /\ Rank' < Rank
        \/ Leaving' /\ Rank' = Rank /\ Ahead' < Ahead
        \/ Leaving' /\ UNCHANGED reader

\* Once Enter has cleared scanFlag, no loop of readFromStdin is without an end
\* (keyboard.c, the while, memcpy2 and memset2), whatever keys follow: what is
\* left of EnterEndsRead is that the processor goes on with the reader.
THEOREM ReaderHasWayOut == Spec => [](WayOut)
<1>1. IInv => WayOut
  <2> SUFFICES ASSUME IInv PROVE WayOut
    OBVIOUS
  <2>1. /\ pc \in {"copy", "wipe"} => n = 0 \/ n <= copyLen
        /\ n \in Nat /\ copyLen \in Int /\ copyLen >= -1
    BY Sizes DEF IInv, TypeOK, Loops
  <2>2. Ahead \in Nat
    BY <2>1 DEF Ahead
  <2> QED
    BY <2>1, <2>2 DEF WayOut
<1> QED
  BY <1>1, Invariant, PTL

THEOREM ReaderGoesOut == Spec => [][GoesOut]_vars
<1>1. IInv /\ Next => GoesOut
  <2> SUFFICES ASSUME IInv, Next, Leaving PROVE GoesOut
    BY DEF GoesOut
  <2>1. scanFlag = 0 /\ n \in Nat /\ copyLen \in Int
    BY Sizes DEF IInv, TypeOK, Armed, Leaving
  <2>2. CASE Handler
    <3>1. UNCHANGED reader /\ scanFlag' = scanFlag
      BY <2>1, <2>2 DEF Handler, ShiftDown, ShiftUp, ControlKey, Enter, ShiftedKey,
                        PlainKey, Backspace, shared
    <3> QED
      BY <2>1, <3>1 DEF GoesOut, Leaving, reader
  <2>3. CASE StartRead
    BY <2>3 DEF StartRead, Leaving
  <2>4. CASE ClearByte \/ Arm
    BY <2>4 DEF ClearByte, Arm, Leaving
  <2>5. CASE SpinEnds \/ CopyEnds \/ Disarm
    BY <2>5 DEF SpinEnds, CopyEnds, Disarm, Leaving, Rank, GoesOut
  <2>6. CASE CopyByte \/ WipeByte
    BY <2>1, <2>6 DEF CopyByte, WipeByte, Leaving, Rank, Ahead, GoesOut
  <2>7. CASE CopyRunsAway \/ FinishRead
    BY <2>7 DEF CopyRunsAway, FinishRead, GoesOut
  <2> QED
    BY <2>2, <2>3, <2>4, <2>5, <2>6, <2>7 DEF Next, ReaderStep
<1>2. IInv /\ [Next]_vars => [GoesOut]_vars
  BY <1>1
<1> QED
  BY <1>2, Invariant, PTL DEF Spec

-----------------------------------------------------------------------------
(* The screen that the handler echoes to and programs write to (module     *)
(* Console), for every size of it.  What fits together, the cursor, the    *)
(* cells and the lines a terminal would hold, is one fact about the value  *)
(* scr (Fits), kept by each part of a call as long as the ghost sound is   *)
(* set.  The text of a write is put character by character: its end is     *)
(* reached by induction over the number of characters.                     *)

\* A set of numbers that is not empty has a least one.
LEMMA Least ==
    ASSUME NEW T \in SUBSET Nat, T # {}
    PROVE  \E x \in T : \A y \in T : x <= y
<1>1. IsWellFoundedOn(OpToRel(<, Nat), Nat)
  BY NatLessThanWellFounded
<1>2. PICK x \in T : \A y \in T : ~ (<<y, x>> \in OpToRel(<, Nat))
  BY <1>1, WFMin
<1>3. \A a, b \in Nat : <<a, b>> \in OpToRel(<, Nat) <=> a < b
  BY DEF OpToRel
<1>4. \A y \in T : ~ (y < x)
  BY <1>2, <1>3
<1>5. QED
  BY <1>4

\* Induction.
LEMMA NatInd ==
    ASSUME NEW S, 0 \in S, \A m \in Nat : m \in S => m + 1 \in S
    PROVE  Nat \subseteq S
<1> DEFINE T == Nat \ S
<1> SUFFICES ASSUME T # {} PROVE FALSE
  OBVIOUS
<1>1. PICK x \in T : \A y \in T : x <= y
  BY Least
<1>2. x # 0 /\ x - 1 \in Nat /\ x - 1 \notin T
  BY <1>1
<1>3. QED
  BY <1>2

\* The screen is a record of its parts.
Shape(s) == /\ DOMAIN s = {"cells", "x", "y", "pos", "rows", "sound"}
            /\ s = [part \in DOMAIN s |-> s[part]]

\* The line with that number, empty where there is none.
At(rows, i) == IF i \in DOMAIN rows THEN rows[i] ELSE <<>>

RowsOK(rows) == /\ rows \in Seq(Seq(Characters))
                /\ Len(rows) \in 1 .. ROWS
                /\ \A i \in 1 .. Len(rows) : Len(rows[i]) <= COLS

\* The cursor, the cells and the lines belong together.
Fits(s) == /\ s.cells \in [ScreenCell -> Characters]
           /\ RowsOK(s.rows)
           /\ s.x \in 0 .. COLS /\ s.y \in 0 .. BOTTOM + 1
           /\ s.pos = s.y * COLS + s.x
           /\ s.y = BOTTOM + 1 => s.x = 0
           /\ Len(s.rows[Len(s.rows)]) = s.x
           /\ \A r \in 0 .. ROWS - 1 : Shows(s, r)

\* As long as nothing has happened that the code does not follow.
ScreenOK(s) == Shape(s) /\ (s.sound => Fits(s))

-----------------------------------------------------------------------------
(* Cells.                                                                  *)

\* What is known of the constants.
LEMMA ScreenSizes ==
    ASSUME ConsoleConstants
    PROVE  /\ COLS \in Nat /\ COLS >= 1 /\ BOTTOM \in Nat /\ MAXPOS \in Nat
           /\ ROWS = BOTTOM + 3 /\ ROWS \in Nat
           /\ Blank \in Characters /\ Newline \in Characters
           /\ Keys \subseteq Characters
           /\ Texts \subseteq Seq(Characters) /\ Behinds \subseteq Seq(Characters)
BY DEF ConsoleConstants, ROWS

\* Multiples.
LEMMA Times ==
    ASSUME NEW c \in Nat, NEW a \in Nat, NEW b \in Nat
    PROVE  /\ a * c \in Nat
           /\ (a + 1) * c = a * c + c
           /\ (a + 2) * c = a * c + 2 * c
           /\ a <= b => a * c <= b * c
<1>1. ASSUME a <= b PROVE a * c <= b * c
  <2> DEFINE d == b - a
  <2>1. d \in Nat /\ b = a + d
    BY <1>1
  <2> HIDE DEF d
  <2>2. (a + d) * c = a * c + d * c
    BY <2>1
  <2>3. d * c \in Nat /\ a * c \in Nat
    BY <2>1
  <2> QED
    BY <2>1, <2>2, <2>3
<1>2. QED
  BY <1>1

\* The cells of a row, and those of different rows.
LEMMA CellsApart ==
    ASSUME ConsoleConstants, NEW r \in Nat, NEW q \in Nat,
           NEW k \in 1 .. COLS, NEW j \in 1 .. COLS
    PROVE  /\ r < q => r * COLS + k - 1 < q * COLS
           /\ r >= q => r * COLS + k - 1 >= q * COLS
           /\ r * COLS + k - 1 = q * COLS + j - 1 => r = q /\ k = j
<1>0. COLS \in Nat /\ COLS >= 1
  BY ScreenSizes
<1> DEFINE R == r * COLS
           Q == q * COLS
<1>1. R \in Nat /\ Q \in Nat
  BY <1>0, Times
<1>2. r < q => R + COLS <= Q
  <2> HAVE r < q
  <2>1. (r + 1) * COLS <= q * COLS
    BY <1>0, Times
  <2>2. (r + 1) * COLS = R + COLS
    BY <1>0, Times
  <2> QED
    BY <2>1, <2>2
<1>3. q < r => Q + COLS <= R
  <2> HAVE q < r
  <2>1. (q + 1) * COLS <= r * COLS
    BY <1>0, Times
  <2>2. (q + 1) * COLS = Q + COLS
    BY <1>0, Times
  <2> QED
    BY <2>1, <2>2
<1>4. r = q => R = Q
  OBVIOUS
<1> HIDE DEF R, Q
<1>5. /\ r < q => R + k - 1 < Q
      /\ r >= q => R + k - 1 >= Q
      /\ R + k - 1 = Q + j - 1 => r = q /\ k = j
  BY <1>0, <1>1, <1>2, <1>3, <1>4
<1>6. QED
  BY <1>5 DEF R, Q

\* The cells of the rows are cells.
LEMMA CellsThere ==
    ASSUME ConsoleConstants, NEW r \in 0 .. ROWS - 1, NEW k \in 1 .. COLS
    PROVE  r * COLS + k - 1 \in ScreenCell
<1>1. /\ COLS \in Nat /\ COLS >= 1 /\ MAXPOS \in Nat /\ ROWS \in Nat /\ r \in Nat
      /\ r < ROWS
  BY ScreenSizes
<1>2. r * COLS + k - 1 < ROWS * COLS
  BY <1>1, CellsApart
<1>3. r * COLS \in Nat /\ ROWS * COLS \in Nat
  BY <1>1, Times
<1> DEFINE R == r * COLS
           Q == ROWS * COLS
<1> HIDE DEF R, Q
<1>4. R \in Nat /\ Q \in Nat /\ R + k - 1 < Q
  BY <1>2, <1>3 DEF R, Q
<1>5. R + k - 1 \in 0 .. MAXPOS + Q
  BY <1>1, <1>4
<1>6. QED
  BY <1>5 DEF ScreenCell, R, Q

-----------------------------------------------------------------------------
(* Lines.                                                                  *)

\* A row shows the line that is as far from the last one as it is from the
\* row of the cursor.
LEMMA LineIs ==
    ASSUME NEW s, NEW r, NEW y, s.y = y
    PROVE  Line(s, r) = At(s.rows, Len(s.rows) - (y - r))
BY DEF Line, At

\* The end of a sequence that is not empty.
LEMMA LastIs ==
    ASSUME NEW S, NEW t \in Seq(S), Len(t) >= 1
    PROVE  /\ Last(t) = t[Len(t)] /\ Last(t) \in S
           /\ Front(t) \in Seq(S) /\ Len(Front(t)) = Len(t) - 1
           /\ \A i \in 1 .. Len(t) - 1 : Front(t)[i] = t[i]
<1>1. Last(t) = t[Len(t)] /\ Last(t) \in S
  BY DEF Last
<1>2. Front(t) = SubSeq(t, 1, Len(t) - 1)
  BY DEF Front
<1>3. Len(t) \in Nat
  OBVIOUS
<1> DEFINE m == Len(t) - 1
           f == SubSeq(t, 1, m)
<1>4. m \in 0 .. Len(t) /\ Len(t) = m + 1
  BY <1>3
<1> HIDE DEF m
<1>5. f \in Seq(S) /\ Len(f) = m
  BY <1>3, <1>4
<1>6. \A i \in 1 .. m : f[i] = t[i]
  BY <1>3, <1>4
<1>7. QED
  BY <1>1, <1>2, <1>5, <1>6 DEF m

\* A line more: the others count one more from the end.
LEMMA LineMore ==
    ASSUME ConsoleConstants, NEW rows, RowsOK(rows)
    PROVE  LET w == WithLine(rows)
           IN  /\ RowsOK(w) /\ w[Len(w)] = <<>>
               /\ \A j \in 0 .. ROWS - 2 :
                      At(w, Len(w) - (j + 1)) = At(rows, Len(rows) - j)
               /\ \A i \in Nat : At(w, Len(w) + i) = <<>>
<1> DEFINE a == Append(rows, <<>>)
           L == Len(rows)
<1>1. /\ rows \in Seq(Seq(Characters)) /\ L \in 1 .. ROWS
      /\ \A i \in 1 .. L : Len(rows[i]) <= COLS
  BY DEF RowsOK
<1>2. /\ a \in Seq(Seq(Characters)) /\ Len(a) = L + 1
      /\ \A i \in 1 .. L : a[i] = rows[i]
      /\ a[L + 1] = <<>>
  <2>1. <<>> \in Seq(Characters)
    OBVIOUS
  <2> QED
    BY <1>1, <2>1
<1>3. Len(<<>>) = 0
  OBVIOUS
<1>4. \A i \in 1 .. L + 1 : Len(a[i]) <= COLS
  BY <1>1, <1>2, <1>3, ScreenSizes
<1> HIDE DEF a, L
<1>5. CASE L < ROWS
  <2>1. WithLine(rows) = a
    BY <1>1, <1>2, <1>5, ScreenSizes DEF WithLine, Kept, a
  <2>2. RowsOK(a)
    BY <1>1, <1>2, <1>4, <1>5, ScreenSizes DEF RowsOK
  <2>3. DOMAIN a = 1 .. L + 1 /\ DOMAIN rows = 1 .. L
    BY <1>1, <1>2 DEF L
  <2>4. ASSUME NEW j \in 0 .. ROWS - 2
        PROVE  At(a, Len(a) - (j + 1)) = At(rows, L - j)
    <3> DEFINE i == L - j
    <3>1. Len(a) - (j + 1) = i /\ i \in Int /\ i <= L
      <4>1. L \in Int /\ Len(a) = L + 1 /\ j \in Nat
        BY <1>1, <1>2, ScreenSizes
      <4> QED
        BY <4>1
    <3> HIDE DEF i
    <3>2. At(a, i) = At(rows, i)
      BY <1>1, <1>2, <2>3, <3>1 DEF At
    <3> QED
      BY <3>1, <3>2 DEF i
  <2>5. ASSUME NEW i \in Nat PROVE At(a, Len(a) + i) = <<>>
    BY <1>1, <1>2, <2>3 DEF At
  <2>6. QED
    BY <1>2, <2>1, <2>2, <2>4, <2>5 DEF L
<1>6. CASE L = ROWS
  <2> DEFINE w == SubSeq(a, 2, ROWS + 1)
  <2>1. WithLine(rows) = w
    <3>1. Len(a) > ROWS /\ Len(a) - ROWS + 1 = 2 /\ Len(a) = ROWS + 1
      BY <1>1, <1>2, <1>6, ScreenSizes
    <3> QED
      BY <3>1 DEF WithLine, Kept, a
  <2>2. /\ w \in Seq(Seq(Characters)) /\ Len(w) = ROWS
        /\ \A i \in 1 .. ROWS : w[i] = a[i + 1]
    <3>1. a \in Seq(Seq(Characters)) /\ Len(a) = ROWS + 1 /\ ROWS \in Nat
      BY <1>1, <1>2, <1>6, ScreenSizes
    <3> QED
      BY <3>1
  <2> HIDE DEF w
  <2>3. RowsOK(w)
    <3>1. ROWS \in 1 .. ROWS
      BY ScreenSizes
    <3>2. ASSUME NEW i \in 1 .. ROWS PROVE Len(w[i]) <= COLS
      <4>1. i + 1 \in 1 .. L + 1
        BY <1>6, ScreenSizes
      <4>2. w[i] = a[i + 1]
        BY <2>2
      <4> QED
        BY <1>4, <4>1, <4>2
    <3> QED
      BY <2>2, <3>1, <3>2 DEF RowsOK
  <2>4. w[ROWS] = <<>>
    BY <1>2, <1>6, <2>2, ScreenSizes
  <2>5. DOMAIN w = 1 .. ROWS /\ DOMAIN rows = 1 .. ROWS
    BY <1>1, <1>6, <2>2 DEF L
  <2>6. ASSUME NEW j \in 0 .. ROWS - 2
        PROVE  At(w, Len(w) - (j + 1)) = At(rows, L - j)
    <3> DEFINE i == ROWS - j
    <3>1. Len(w) - (j + 1) = i - 1 /\ L - j = i /\ i \in 2 .. ROWS
      BY <1>6, <2>2, ScreenSizes
    <3> HIDE DEF i
    <3>2. w[i - 1] = a[i]
      <4>1. i - 1 \in 1 .. ROWS /\ (i - 1) + 1 = i
        BY <3>1, ScreenSizes
      <4> QED
        BY <2>2, <4>1
    <3>3. At(w, i - 1) = At(rows, i)
      BY <1>2, <1>6, <2>5, <3>1, <3>2, ScreenSizes DEF At
    <3> QED
      BY <3>1, <3>3
  <2>7. ASSUME NEW i \in Nat PROVE At(w, Len(w) + i) = <<>>
    BY <2>2, <2>4, <2>5, ScreenSizes DEF At
  <2>8. QED
    BY <2>1, <2>2, <2>3, <2>4, <2>6, <2>7 DEF L
<1>7. QED
  BY <1>1, <1>5, <1>6, ScreenSizes

\* Another line at the end.
LEMMA LineChanged ==
    ASSUME ConsoleConstants, NEW rows, RowsOK(rows),
           NEW new \in Seq(Characters), Len(new) <= COLS
    PROVE  LET w == Append(Front(rows), new)
           IN  /\ RowsOK(w) /\ Len(w) = Len(rows) /\ w[Len(w)] = new
               /\ \A i \in Int : i # Len(rows) => At(w, i) = At(rows, i)
<1> DEFINE f == Front(rows)
           w == Append(f, new)
           L == Len(rows)
<1>1. /\ rows \in Seq(Seq(Characters)) /\ L \in 1 .. ROWS
      /\ \A i \in 1 .. L : Len(rows[i]) <= COLS
  BY DEF RowsOK
<1>2. /\ f \in Seq(Seq(Characters)) /\ Len(f) = L - 1
      /\ \A i \in 1 .. L - 1 : f[i] = rows[i]
  <2>1. Len(rows) >= 1
    BY <1>1, ScreenSizes
  <2> QED
    BY <1>1, <2>1, LastIs, Zenon
<1> HIDE DEF f
<1>3. /\ w \in Seq(Seq(Characters)) /\ Len(w) = L
      /\ \A i \in 1 .. L - 1 : w[i] = rows[i]
      /\ w[L] = new
  BY <1>1, <1>2
<1>4. DOMAIN w = 1 .. L /\ DOMAIN rows = 1 .. L
  BY <1>1, <1>3
<1> HIDE DEF w, L
<1>5. RowsOK(w)
  <2>1. ASSUME NEW i \in 1 .. L PROVE Len(w[i]) <= COLS
    <3>1. CASE i = L
      BY <1>3, <3>1
    <3>2. CASE i # L
      <4>1. i \in 1 .. L - 1
        BY <1>1, <3>2
      <4>2. w[i] = rows[i]
        BY <1>3, <4>1
      <4> QED
        BY <1>1, <4>2
    <3> QED
      BY <3>1, <3>2
  <2> QED
    BY <1>1, <1>3, <2>1 DEF RowsOK
<1>6. ASSUME NEW i \in Int, i # L PROVE At(w, i) = At(rows, i)
  BY <1>1, <1>3, <1>4, <1>6 DEF At
<1>7. QED
  BY <1>3, <1>5, <1>6 DEF f, w, L

\* A glyph more.
LEMMA GlyphMore ==
    ASSUME ConsoleConstants, NEW rows, RowsOK(rows),
           Len(rows[Len(rows)]) < COLS, NEW c \in Characters
    PROVE  LET w == WithGlyph(rows, c)
           IN  /\ RowsOK(w) /\ Len(w) = Len(rows)
               /\ w[Len(w)] = Append(rows[Len(rows)], c)
               /\ \A i \in Int : i # Len(rows) => At(w, i) = At(rows, i)
<1> DEFINE last == rows[Len(rows)]
           new == Append(last, c)
           w == Append(Front(rows), new)
<1>1. /\ rows \in Seq(Seq(Characters)) /\ Len(rows) \in 1 .. ROWS
  BY DEF RowsOK
<1>2. Last(rows) = last /\ last \in Seq(Characters)
  <2>1. Len(rows) >= 1
    BY <1>1, ScreenSizes
  <2>2. Last(rows) = last /\ Last(rows) \in Seq(Characters)
    BY <1>1, <2>1, LastIs, Zenon
  <2> QED
    BY <2>2, Zenon
<1>3. new \in Seq(Characters) /\ Len(new) <= COLS
  BY <1>2, ScreenSizes
<1>4. /\ RowsOK(w) /\ Len(w) = Len(rows) /\ w[Len(w)] = new
      /\ \A i \in Int : i # Len(rows) => At(w, i) = At(rows, i)
  BY <1>3, LineChanged
<1>5. Wrapped(rows) = rows
  BY <1>2, ScreenSizes DEF Wrapped
<1>6. WithGlyph(rows, c) = Kept(w)
  BY <1>2, <1>5 DEF WithGlyph
<1>7. Kept(w) = w
  <2> HIDE DEF w
  <2> QED
    BY <1>1, <1>4, ScreenSizes DEF Kept
<1>8. QED
  BY <1>4, <1>6, <1>7

-----------------------------------------------------------------------------
(* What the parts of a call change.                                        *)

\* What printChar changes.
LEMMA printCharIs ==
    ASSUME NEW s, Shape(s), NEW c
    PROVE  LET r == printChar(s, c)
           IN  /\ Shape(r)
               /\ r.cells = [s.cells EXCEPT ![s.pos] = c]
               /\ r.x = s.x + 1 /\ r.y = s.y /\ r.pos = s.pos + 1
               /\ r.rows = WithGlyph(s.rows, c)
               /\ r.sound <=> s.sound /\ s.x < COLS /\ s.y <= BOTTOM
<1> DEFINE q == s.sound /\ s.x < COLS /\ s.y <= BOTTOM
           cells == [s.cells EXCEPT ![s.pos] = c]
           rows == WithGlyph(s.rows, c)
           x == s.x + 1
           pos == s.pos + 1
           r == [s EXCEPT !.cells = cells, !.pos = pos, !.x = x,
                          !.rows = rows, !.sound = q]
<1>1. printChar(s, c) = r
  BY DEF printChar, Shape
<1> HIDE DEF q, cells, rows, x, pos
<1>2. /\ Shape(r) /\ r.cells = cells /\ r.x = x /\ r.y = s.y /\ r.pos = pos
      /\ r.rows = rows /\ r.sound = q
  BY DEF Shape
<1> HIDE DEF r
<1>3. QED
  BY <1>1, <1>2, Zenon DEF q, cells, rows, x, pos

\* What a new line changes.
LEMMA newLineIs ==
    ASSUME NEW s, Shape(s)
    PROVE  LET r == newLine(s)
           IN  /\ Shape(r) /\ r.cells = s.cells
               /\ r.x = 0 /\ r.y = s.y + 1 /\ r.pos = s.pos + (COLS - s.x)
               /\ r.rows = WithLine(s.rows)
               /\ r.sound = s.sound
<1> DEFINE rows == WithLine(s.rows)
           y == s.y + 1
           pos == s.pos + (COLS - s.x)
           r == [s EXCEPT !.pos = pos, !.y = y, !.x = 0, !.rows = rows]
<1>1. newLine(s) = r
  BY DEF newLine, Shape
<1> HIDE DEF rows, y, pos
<1>2. /\ Shape(r) /\ r.cells = s.cells /\ r.x = 0 /\ r.y = y /\ r.pos = pos
      /\ r.rows = rows /\ r.sound = s.sound
  BY DEF Shape
<1> HIDE DEF r
<1>3. QED
  BY <1>1, <1>2, Zenon DEF rows, y, pos

\* What the first rows show after the scroll.
Scrolled(cells) == [p \in ScreenCell |-> IF p < (BOTTOM + 1) * COLS THEN cells[p + COLS]
                                   ELSE IF p < (BOTTOM + 2) * COLS THEN Blank
                                   ELSE cells[p]]

\* What the scroll of kprintf changes.
LEMMA doScrollIs ==
    ASSUME NEW s, Shape(s)
    PROVE  LET r == doScroll([s EXCEPT !.x = 0])
           IN  /\ Shape(r) /\ r.cells = Scrolled(s.cells)
               /\ r.x = 0 /\ r.y = BOTTOM /\ r.pos = BOTTOM * COLS
               /\ r.rows = s.rows /\ r.sound = s.sound
<1> DEFINE t == [s EXCEPT !.x = 0]
           cells == Scrolled(s.cells)
           pos == BOTTOM * COLS
           r == [t EXCEPT !.cells = cells, !.y = BOTTOM, !.pos = pos]
<1>1. /\ Shape(t) /\ t.cells = s.cells /\ t.x = 0 /\ t.y = s.y
      /\ t.pos = s.pos /\ t.rows = s.rows /\ t.sound = s.sound
  BY DEF Shape
<1> HIDE DEF t
<1>2. doScroll(t) = r
  BY <1>1, Zenon DEF doScroll, Scrolled
<1> HIDE DEF cells, pos
<1>3. /\ Shape(r) /\ r.cells = cells /\ r.x = t.x /\ r.y = BOTTOM
      /\ r.pos = pos /\ r.rows = t.rows /\ r.sound = t.sound
  BY <1>1 DEF Shape
<1> HIDE DEF r
<1>4. QED
  BY <1>1, <1>2, <1>3, Zenon DEF cells, pos, t

\* The lines after an erasure.
Erased(rows) == IF Last(rows) = <<>> THEN rows
                ELSE Append(Front(rows), Front(Last(rows)))

\* What an erasure changes, as far as it is followed.
LEMMA clearCharIs ==
    ASSUME NEW s, Shape(s)
    PROVE  LET r == clearChar(s)
           IN  /\ Shape(r)
               /\ r.sound <=> s.sound /\ s.x > 0
               /\ s.x > 0 =>
                     /\ r.cells = [s.cells EXCEPT ![s.pos - 1] = Blank]
                     /\ r.x = s.x - 1 /\ r.y = s.y /\ r.pos = s.pos - 1
                     /\ r.rows = Erased(s.rows)
<1> DEFINE q == s.sound /\ s.x > 0
           cells == [s.cells EXCEPT ![s.pos - 1] = Blank]
           rows == Erased(s.rows)
           x == IF s.x > 0 THEN s.x - 1 ELSE COLS
           y == IF s.x > 0 THEN s.y ELSE s.y - 1
           pos == s.pos - 1
           r == [s EXCEPT !.x = x, !.y = y, !.cells = cells, !.pos = pos,
                          !.rows = rows, !.sound = q]
<1>1. clearChar(s) = r
  BY DEF clearChar, Shape, Erased
<1> HIDE DEF q, cells, rows, x, y, pos
<1>2. /\ Shape(r) /\ r.cells = cells /\ r.x = x /\ r.y = y /\ r.pos = pos
      /\ r.rows = rows /\ r.sound = q
  BY DEF Shape
<1> HIDE DEF r
<1>3. s.x > 0 => x = s.x - 1 /\ y = s.y
  BY Zenon DEF x, y
<1>4. QED
  BY <1>1, <1>2, <1>3, Zenon DEF q, cells, rows, pos

\* What a wrap changes.
LEMMA WrapIs ==
    ASSUME NEW s, Shape(s)
    PROVE  LET r == [s EXCEPT !.x = 0, !.y = @ + 1, !.rows = Kept(Wrapped(@)),
                              !.sound = @ /\ s.y < BOTTOM]
           IN  /\ Shape(r) /\ r.cells = s.cells
               /\ r.x = 0 /\ r.y = s.y + 1 /\ r.pos = s.pos
               /\ r.rows = Kept(Wrapped(s.rows))
               /\ r.sound <=> s.sound /\ s.y < BOTTOM
<1> DEFINE q == s.sound /\ s.y < BOTTOM
           rows == Kept(Wrapped(s.rows))
           y == s.y + 1
           r == [s EXCEPT !.x = 0, !.y = y, !.rows = rows, !.sound = q]
<1>1. [s EXCEPT !.x = 0, !.y = @ + 1, !.rows = Kept(Wrapped(@)),
                !.sound = @ /\ s.y < BOTTOM] = r
  BY DEF Shape
<1> HIDE DEF q, rows, y
<1>2. /\ Shape(r) /\ r.cells = s.cells /\ r.x = 0 /\ r.y = y /\ r.pos = s.pos
      /\ r.rows = rows /\ r.sound = q
  BY DEF Shape
<1> HIDE DEF r
<1>3. QED
  BY <1>1, <1>2, Zenon DEF q, rows, y

-----------------------------------------------------------------------------
(* What fits before, fits after.                                           *)

\* A glyph left of the edge, on a row in use.
LEMMA GlyphFits ==
    ASSUME ConsoleConstants, NEW s, Fits(s), s.x < COLS, s.y <= BOTTOM,
           NEW c \in Characters, NEW r,
           r.cells = [s.cells EXCEPT ![s.pos] = c], r.rows = WithGlyph(s.rows, c),
           r.x = s.x + 1, r.y = s.y, r.pos = s.pos + 1
    PROVE  Fits(r)
<1> DEFINE L == Len(s.rows)
           old == s.rows[L]
<1>1. /\ s.cells \in [ScreenCell -> Characters] /\ RowsOK(s.rows)
      /\ s.x \in Nat /\ s.x < COLS /\ s.y \in Nat /\ s.y <= BOTTOM
      /\ s.pos = s.y * COLS + s.x /\ Len(old) = s.x
      /\ \A q \in 0 .. ROWS - 1 : Shows(s, q)
  BY ScreenSizes DEF Fits
<1>2. /\ L \in 1 .. ROWS /\ old \in Seq(Characters)
  BY <1>1 DEF RowsOK
<1>3. /\ RowsOK(r.rows) /\ Len(r.rows) = L /\ r.rows[L] = Append(old, c)
      /\ \A i \in Int : i # L => At(r.rows, i) = At(s.rows, i)
  BY <1>1, GlyphMore
<1>4. r.cells \in [ScreenCell -> Characters]
  BY <1>1
<1>5. Len(Append(old, c)) = s.x + 1
  BY <1>1, <1>2
<1>6. s.y * COLS \in Nat
  BY <1>1, ScreenSizes, Times
<1>7. r.pos = r.y * COLS + r.x
  BY <1>1, <1>6
<1>8. ASSUME NEW q \in 0 .. ROWS - 1 PROVE Shows(r, q)
  <2> DEFINE i == L - (s.y - q)
  <2>0. i \in Int /\ q \in Nat /\ (i = L <=> q = s.y)
    BY <1>1, <1>2, ScreenSizes
  <2>1. Line(r, q) = At(r.rows, i) /\ Line(s, q) = At(s.rows, i)
    BY <1>3, LineIs
  <2> SUFFICES ASSUME NEW k \in 1 .. COLS
               PROVE  r.cells[q * COLS + k - 1] =
                         IF k <= Len(Line(r, q)) THEN Line(r, q)[k] ELSE Blank
    BY DEF Shows
  <2> DEFINE p == q * COLS + k - 1
  <2>2. s.cells[p] = IF k <= Len(Line(s, q)) THEN Line(s, q)[k] ELSE Blank
    BY <1>1 DEF Shows
  <2>3. p \in ScreenCell
    BY CellsThere
  <2>4. p = s.pos <=> q = s.y /\ k = s.x + 1
    <3> DEFINE j == s.x + 1
    <3>1. j \in 1 .. COLS
      <4>1. s.x \in Nat /\ s.x < COLS /\ COLS \in Nat
        BY <1>1, ScreenSizes
      <4> QED
        BY <4>1
    <3> HIDE DEF j
    <3>2. q * COLS + k - 1 = s.y * COLS + j - 1 => q = s.y /\ k = j
      BY <1>1, <2>0, <3>1, CellsApart
    <3>3. s.y * COLS + j - 1 = s.pos
      BY <1>1, <1>6 DEF j
    <3>4. q = s.y /\ k = j => q * COLS + k - 1 = s.y * COLS + j - 1
      OBVIOUS
    <3> QED
      BY <3>2, <3>3, <3>4 DEF j
  <2> HIDE DEF p
  <2>5. CASE q # s.y
    <3>1. Line(r, q) = Line(s, q)
      BY <1>3, <2>0, <2>1, <2>5
    <3>2. r.cells[p] = s.cells[p]
      BY <1>1, <2>3, <2>4, <2>5
    <3> QED
      BY <2>2, <3>1, <3>2 DEF p
  <2>6. CASE q = s.y
    <3>1. Line(s, q) = old
      <4>1. i = L /\ L \in DOMAIN s.rows
        BY <1>1, <1>2, <2>0, <2>6 DEF RowsOK
      <4> QED
        BY <2>1, <4>1 DEF At
    <3>2. Line(r, q) = Append(old, c)
      <4>1. i = L /\ L \in DOMAIN r.rows
        BY <1>2, <1>3, <2>0, <2>6 DEF RowsOK
      <4> QED
        BY <1>3, <2>1, <4>1 DEF At
    <3>3. CASE k = s.x + 1
      <4>1. r.cells[p] = c
        BY <1>1, <2>3, <2>4, <2>6, <3>3
      <4>2. k <= Len(Append(old, c)) /\ Append(old, c)[k] = c
        BY <1>1, <1>2, <1>5, <3>3
      <4> QED
        BY <3>2, <4>1, <4>2 DEF p
    <3>4. CASE k # s.x + 1
      <4>1. r.cells[p] = s.cells[p]
        BY <1>1, <2>3, <2>4, <3>4
      <4>2. /\ k <= Len(Append(old, c)) <=> k <= Len(old)
            /\ k <= Len(old) => Append(old, c)[k] = old[k]
        BY <1>1, <1>2, <1>5, <3>4
      <4> QED
        BY <2>2, <3>1, <3>2, <4>1, <4>2 DEF p
    <3> QED
      BY <3>3, <3>4
  <2>7. QED
    BY <2>5, <2>6 DEF p
<1>9. r.x \in 0 .. COLS /\ r.y \in 0 .. BOTTOM + 1 /\ r.y # BOTTOM + 1
  BY <1>1, ScreenSizes
<1>10. Len(r.rows[Len(r.rows)]) = r.x
  BY <1>3, <1>5
<1>11. QED
  BY <1>3, <1>4, <1>7, <1>8, <1>9, <1>10 DEF Fits

\* The begin of the next row.
LEMMA NextRowFits ==
    ASSUME ConsoleConstants, NEW s, Fits(s), s.y <= BOTTOM, NEW r,
           r.cells = s.cells, r.rows = WithLine(s.rows),
           r.x = 0, r.y = s.y + 1, r.pos = (s.y + 1) * COLS
    PROVE  Fits(r)
<1> DEFINE L == Len(s.rows)
           M == Len(r.rows)
<1>1. /\ s.cells \in [ScreenCell -> Characters] /\ RowsOK(s.rows)
      /\ s.y \in Nat /\ s.y <= BOTTOM
      /\ \A q \in 0 .. ROWS - 1 : Shows(s, q)
  BY ScreenSizes DEF Fits
<1>2. L \in 1 .. ROWS /\ DOMAIN s.rows = 1 .. L
  BY <1>1 DEF RowsOK
<1>3. /\ RowsOK(r.rows) /\ r.rows[M] = <<>>
      /\ \A j \in 0 .. ROWS - 2 : At(r.rows, M - (j + 1)) = At(s.rows, L - j)
      /\ \A i \in Nat : At(r.rows, M + i) = <<>>
  <2> DEFINE w == WithLine(s.rows)
  <2>1. /\ RowsOK(w) /\ w[Len(w)] = <<>>
        /\ \A j \in 0 .. ROWS - 2 :
               At(w, Len(w) - (j + 1)) = At(s.rows, Len(s.rows) - j)
        /\ \A i \in Nat : At(w, Len(w) + i) = <<>>
    BY <1>1, LineMore, Zenon
  <2>2. r.rows = w
    OBVIOUS
  <2> HIDE DEF w
  <2>3. QED
    BY <2>1, <2>2, Zenon
<1>4. M \in 1 .. ROWS
  BY <1>3 DEF RowsOK
<1>5. ASSUME NEW q \in 0 .. ROWS - 1 PROVE Line(r, q) = Line(s, q)
  <2>1. /\ Line(r, q) = At(r.rows, M - ((s.y + 1) - q))
        /\ Line(s, q) = At(s.rows, L - (s.y - q))
    <3> DEFINE y == s.y + 1
    <3>1. r.y = y
      OBVIOUS
    <3> HIDE DEF y
    <3>2. Line(r, q) = At(r.rows, M - (y - q))
      BY <3>1, LineIs
    <3>3. Line(s, q) = At(s.rows, L - (s.y - q))
      BY LineIs
    <3> QED
      BY <3>2, <3>3 DEF y
  <2>2. CASE q <= s.y
    <3> DEFINE j == s.y - q
    <3>1. j \in 0 .. ROWS - 2 /\ (s.y + 1) - q = j + 1
      BY <1>1, <2>2, ScreenSizes
    <3> HIDE DEF j
    <3>2. At(r.rows, M - (j + 1)) = At(s.rows, L - j)
      BY <1>3, <3>1
    <3> QED
      BY <2>1, <3>1, <3>2 DEF j
  <2>3. CASE q > s.y
    <3> DEFINE i == q - (s.y + 1)
    <3>1. i \in Nat /\ M - ((s.y + 1) - q) = M + i
      <4> DEFINE y == s.y
      <4>1. y \in Nat /\ q \in Nat /\ M \in Nat /\ q > y
        BY <1>1, <1>4, <2>3, ScreenSizes
      <4> HIDE DEF y, M
      <4>2. q - (y + 1) \in Nat /\ M - ((y + 1) - q) = M + (q - (y + 1))
        BY <4>1
      <4> QED
        BY <4>2 DEF y
    <3>2. L - (s.y - q) \notin 1 .. L
      BY <1>1, <1>2, <2>3, ScreenSizes
    <3> HIDE DEF i
    <3>3. At(r.rows, M + i) = <<>>
      BY <1>3, <3>1
    <3>4. At(s.rows, L - (s.y - q)) = <<>>
      BY <1>2, <3>2 DEF At
    <3> QED
      BY <2>1, <3>1, <3>3, <3>4
  <2>4. QED
    BY <1>1, <2>2, <2>3, ScreenSizes
<1>6. ASSUME NEW q \in 0 .. ROWS - 1 PROVE Shows(r, q)
  BY <1>1, <1>5, <1>6 DEF Shows
<1>7. (s.y + 1) * COLS \in Nat
  <2>1. s.y + 1 \in Nat /\ COLS \in Nat
    BY <1>1, ScreenSizes
  <2> QED
    BY <2>1, Times, Zenon
<1>8. r.x \in 0 .. COLS /\ r.y \in 0 .. BOTTOM + 1 /\ r.pos = r.y * COLS + r.x
  BY <1>1, <1>7, ScreenSizes
<1>9. Len(r.rows[M]) = 0
  BY <1>3
<1>10. QED
  BY <1>1, <1>3, <1>6, <1>8, <1>9 DEF Fits

\* The scroll, with the cursor below the rows in use.
LEMMA ScrollFits ==
    ASSUME ConsoleConstants, NEW s, Fits(s), s.y > BOTTOM, NEW r,
           r.cells = Scrolled(s.cells), r.rows = s.rows,
           r.x = 0, r.y = BOTTOM, r.pos = BOTTOM * COLS
    PROVE  Fits(r)
<1> DEFINE L == Len(s.rows)
<1>1. /\ s.cells \in [ScreenCell -> Characters] /\ RowsOK(s.rows)
      /\ s.y = BOTTOM + 1 /\ Len(s.rows[L]) = 0
      /\ \A q \in 0 .. ROWS - 1 : Shows(s, q)
  BY ScreenSizes DEF Fits
<1>2. L \in 1 .. ROWS /\ DOMAIN s.rows = 1 .. L
  BY <1>1 DEF RowsOK
<1>3. ASSUME NEW p \in ScreenCell
      PROVE  r.cells[p] = IF p < (BOTTOM + 1) * COLS THEN s.cells[p + COLS]
                          ELSE IF p < (BOTTOM + 2) * COLS THEN Blank ELSE s.cells[p]
  BY DEF Scrolled
<1>4. r.cells \in [ScreenCell -> Characters]
  <2>1. ASSUME NEW p \in ScreenCell PROVE r.cells[p] \in Characters
    <3>1. CASE p < (BOTTOM + 1) * COLS
      <4>1. r.cells[p] = s.cells[p + COLS]
        BY <1>3, <3>1
      <4>2. p + COLS \in ScreenCell
        <5> DEFINE A == (BOTTOM + 1) * COLS
                   B == ROWS * COLS
        <5>1. (BOTTOM + 2) * COLS <= B /\ (BOTTOM + 2) * COLS = A + COLS
          <6>1. (BOTTOM + 2) * COLS <= ROWS * COLS
            BY ScreenSizes, Times
          <6>2. ((BOTTOM + 1) + 1) * COLS = (BOTTOM + 1) * COLS + COLS
            BY ScreenSizes, Times
          <6>3. (BOTTOM + 1) + 1 = BOTTOM + 2
            BY ScreenSizes
          <6> QED
            BY <6>1, <6>2, <6>3
        <5>2. A \in Nat /\ B \in Nat
          BY ScreenSizes, Times
        <5>3. p < A
          BY <3>1
        <5>4. p \in 0 .. MAXPOS + B
          BY DEF ScreenCell
        <5> HIDE DEF A, B
        <5>5. p + COLS \in 0 .. MAXPOS + B
          <6>1. A + COLS <= B
            BY <5>1
          <6> QED
            BY <5>2, <5>3, <5>4, <6>1, ScreenSizes
        <5> QED
          BY <5>5 DEF ScreenCell, B
      <4> QED
        BY <1>1, <4>1, <4>2
    <3>2. CASE ~ (p < (BOTTOM + 1) * COLS)
      <4>1. r.cells[p] \in {Blank, s.cells[p]}
        BY <1>3, <3>2
      <4> QED
        BY <1>1, <4>1, ScreenSizes
    <3> QED
      BY <3>1, <3>2
  <2> QED
    BY <2>1 DEF Scrolled
<1>5. ASSUME NEW q \in 0 .. ROWS - 1 PROVE Shows(r, q)
  <2>0. /\ q \in Nat /\ BOTTOM \in Nat /\ COLS \in Nat
    BY ScreenSizes
  <2>1. Line(r, q) = At(s.rows, L - (BOTTOM - q))
    BY LineIs
  <2> SUFFICES ASSUME NEW k \in 1 .. COLS
               PROVE  r.cells[q * COLS + k - 1] =
                         IF k <= Len(Line(r, q)) THEN Line(r, q)[k] ELSE Blank
    BY DEF Shows
  <2> DEFINE p == q * COLS + k - 1
  <2>2. p \in ScreenCell
    BY CellsThere
  <2>3. /\ q < BOTTOM + 1 <=> p < (BOTTOM + 1) * COLS
        /\ q < BOTTOM + 2 <=> p < (BOTTOM + 2) * COLS
    <3>1. BOTTOM + 1 \in Nat /\ BOTTOM + 2 \in Nat
      BY <2>0
    <3>2. \A m \in Nat : /\ q < m => p < m * COLS
                         /\ q >= m => p >= m * COLS
      BY <2>0, CellsApart
    <3>3. \A m \in Nat : m * COLS \in Nat
      BY <2>0, Times
    <3>4. q * COLS \in Nat
      BY <2>0, Times
    <3> DEFINE A == (BOTTOM + 1) * COLS
               B == (BOTTOM + 2) * COLS
    <3>5. /\ q < BOTTOM + 1 => p < A
          /\ q >= BOTTOM + 1 => p >= A
          /\ q < BOTTOM + 2 => p < B
          /\ q >= BOTTOM + 2 => p >= B
      BY <3>1, <3>2
    <3>6. A \in Nat /\ B \in Nat /\ p \in Int
      BY <3>1, <3>3, <3>4, <2>0
    <3> HIDE DEF p, A, B
    <3>7. (q < BOTTOM + 1 <=> p < A) /\ (q < BOTTOM + 2 <=> p < B)
      BY <2>0, <3>5, <3>6
    <3> QED
      BY <3>7 DEF A, B
  <2>4. CASE q <= BOTTOM
    <3>1. q + 1 \in 0 .. ROWS - 1 /\ q < BOTTOM + 1
      BY <2>0, <2>4, ScreenSizes
    <3>2. p + COLS = (q + 1) * COLS + k - 1
      <4>1. (q + 1) * COLS = q * COLS + COLS /\ q * COLS \in Nat
        BY <2>0, Times
      <4> QED
        BY <2>0, <4>1
    <3>3. r.cells[p] = s.cells[(q + 1) * COLS + k - 1]
      <4>1. p < (BOTTOM + 1) * COLS
        BY <2>3, <3>1
      <4>2. r.cells[p] = s.cells[p + COLS]
        BY <1>3, <2>2, <4>1
      <4> QED
        BY <3>2, <4>2
    <3>4. Line(r, q) = Line(s, q + 1)
      <4>1. Line(s, q + 1) = At(s.rows, L - ((BOTTOM + 1) - (q + 1)))
        <5> DEFINE y == BOTTOM + 1
        <5>1. s.y = y
          BY <1>1
        <5> HIDE DEF y
        <5>2. Line(s, q + 1) = At(s.rows, L - (y - (q + 1)))
          BY <5>1, LineIs
        <5> QED
          BY <5>2 DEF y
      <4>2. (BOTTOM + 1) - (q + 1) = BOTTOM - q
        BY <2>0
      <4> QED
        BY <2>1, <4>1, <4>2
    <3>5. Shows(s, q + 1)
      BY <1>1, <3>1
    <3> QED
      BY <3>3, <3>4, <3>5 DEF Shows
  <2>5. CASE q > BOTTOM
    <3>1. Line(r, q) = <<>>
      <4>1. L - (BOTTOM - q) \notin 1 .. L
        BY <1>2, <2>0, <2>5
      <4> QED
        BY <1>2, <2>1, <4>1 DEF At
    <3>2. ~ (k <= Len(<<>>))
      OBVIOUS
    <3>3. r.cells[p] = Blank
      <4>1. CASE q < BOTTOM + 2
        <5>1. ~ (p < (BOTTOM + 1) * COLS) /\ p < (BOTTOM + 2) * COLS
          BY <2>0, <2>3, <2>5, <4>1
        <5> QED
          BY <1>3, <2>2, <5>1
      <4>2. CASE ~ (q < BOTTOM + 2)
        <5>1. ~ (p < (BOTTOM + 1) * COLS) /\ ~ (p < (BOTTOM + 2) * COLS)
          BY <2>0, <2>3, <2>5, <4>2
        <5>2. r.cells[p] = s.cells[p]
          BY <1>3, <2>2, <5>1
        <5>3. Line(s, q) = <<>>
          <6>1. Line(s, q) = At(s.rows, L - ((BOTTOM + 1) - q))
            <7> DEFINE y == BOTTOM + 1
            <7>1. s.y = y
              BY <1>1
            <7> HIDE DEF y
            <7>2. Line(s, q) = At(s.rows, L - (y - q))
              BY <7>1, LineIs
            <7> QED
              BY <7>2 DEF y
          <6>2. L - ((BOTTOM + 1) - q) \notin 1 .. L
            BY <1>2, <2>0, <4>2
          <6> QED
            BY <1>2, <6>1, <6>2 DEF At
        <5>4. s.cells[p] = IF k <= Len(Line(s, q)) THEN Line(s, q)[k] ELSE Blank
          BY <1>1 DEF Shows
        <5> QED
          BY <3>2, <5>2, <5>3, <5>4
      <4> QED
        BY <4>1, <4>2
    <3> QED
      BY <3>1, <3>2, <3>3
  <2>6. QED
    BY <2>0, <2>4, <2>5
<1>6. BOTTOM * COLS \in Nat
  BY ScreenSizes, Times
<1>7. /\ r.x \in 0 .. COLS /\ r.y \in 0 .. BOTTOM + 1 /\ r.y # BOTTOM + 1
      /\ r.pos = r.y * COLS + r.x
  BY <1>6, ScreenSizes
<1>8. QED
  BY <1>1, <1>4, <1>5, <1>7 DEF Fits

\* A glyph less.
LEMMA ErasedFits ==
    ASSUME ConsoleConstants, NEW s, Fits(s), s.x > 0, NEW r,
           r.cells = [s.cells EXCEPT ![s.pos - 1] = Blank],
           r.rows = Erased(s.rows),
           r.x = s.x - 1, r.y = s.y, r.pos = s.pos - 1
    PROVE  Fits(r)
<1> DEFINE L == Len(s.rows)
           old == s.rows[L]
           new == Front(old)
<1>1. /\ s.cells \in [ScreenCell -> Characters] /\ RowsOK(s.rows)
      /\ s.x \in Nat /\ s.x <= COLS /\ s.y \in Nat /\ s.y <= BOTTOM
      /\ s.pos = s.y * COLS + s.x /\ Len(old) = s.x
      /\ \A q \in 0 .. ROWS - 1 : Shows(s, q)
  <2>1. /\ s.cells \in [ScreenCell -> Characters] /\ RowsOK(s.rows)
        /\ s.x \in 0 .. COLS /\ s.y \in 0 .. BOTTOM + 1
        /\ s.y = BOTTOM + 1 => s.x = 0
        /\ s.pos = s.y * COLS + s.x /\ Len(old) = s.x
        /\ \A q \in 0 .. ROWS - 1 : Shows(s, q)
    BY Zenon DEF Fits
  <2>2. s.x \in Nat /\ s.x <= COLS /\ s.y \in Nat /\ s.y <= BOTTOM
    <3>1. s.x # 0 /\ s.y # BOTTOM + 1
      BY <2>1
    <3> QED
      BY <2>1, <3>1, ScreenSizes
  <2> QED
    BY <2>1, <2>2, Zenon
<1>2. /\ L \in 1 .. ROWS /\ old \in Seq(Characters) /\ Last(s.rows) = old
  <2>1. L \in 1 .. ROWS /\ old \in Seq(Characters)
    BY <1>1 DEF RowsOK
  <2>2. Last(s.rows) = old
    BY Zenon DEF Last
  <2> QED
    BY <2>1, <2>2
<1>3. /\ new \in Seq(Characters) /\ Len(new) = s.x - 1
      /\ \A i \in 1 .. s.x - 1 : new[i] = old[i]
  <2> HIDE DEF old
  <2>1. Len(old) >= 1
    BY <1>1
  <2>2. /\ new \in Seq(Characters) /\ Len(new) = Len(old) - 1
        /\ \A i \in 1 .. Len(old) - 1 : new[i] = old[i]
    <3>1. old \in Seq(Characters)
      BY <1>2
    <3> DEFINE S == Characters
    <3>2. old \in Seq(S)
      BY <3>1
    <3> HIDE DEF S
    <3> SUFFICES /\ Front(old) \in Seq(S) /\ Len(Front(old)) = Len(old) - 1
                 /\ \A i \in 1 .. Len(old) - 1 : Front(old)[i] = old[i]
      BY DEF S
    <3> QED
      BY <2>1, <3>2, LastIs
  <2> QED
    BY <1>1, <2>2
<1>4. r.rows = Append(Front(s.rows), new)
  <2>1. old # <<>>
    BY <1>1, <1>2
  <2> HIDE DEF old
  <2> QED
    BY <1>2, <2>1, Zenon DEF Erased
<1>5. /\ RowsOK(r.rows) /\ Len(r.rows) = L /\ r.rows[L] = new
      /\ \A i \in Int : i # L => At(r.rows, i) = At(s.rows, i)
  <2>1. Len(new) <= COLS
    BY <1>1, <1>3, ScreenSizes
  <2> HIDE DEF new
  <2> DEFINE w == Append(Front(s.rows), new)
  <2>2. /\ RowsOK(w) /\ Len(w) = Len(s.rows) /\ w[Len(w)] = new
        /\ \A i \in Int : i # Len(s.rows) => At(w, i) = At(s.rows, i)
    BY <1>1, <1>3, <2>1, LineChanged, Zenon
  <2>3. r.rows = w
    BY <1>4
  <2> HIDE DEF w
  <2> QED
    BY <2>2, <2>3, Zenon
<1>6. r.cells \in [ScreenCell -> Characters]
  BY <1>1, ScreenSizes
<1>7. s.y * COLS \in Nat
  BY <1>1, ScreenSizes, Times
<1>8. r.pos = r.y * COLS + r.x
  BY <1>1, <1>7
<1> HIDE DEF new, old
<1>9. ASSUME NEW q \in 0 .. ROWS - 1 PROVE Shows(r, q)
  <2> DEFINE i == L - (s.y - q)
  <2>0. i \in Int /\ q \in Nat /\ (i = L <=> q = s.y)
    BY <1>1, <1>2, ScreenSizes
  <2>1. Line(r, q) = At(r.rows, i) /\ Line(s, q) = At(s.rows, i)
    <3>1. /\ Line(r, q) = At(r.rows, Len(r.rows) - (s.y - q))
          /\ Line(s, q) = At(s.rows, Len(s.rows) - (s.y - q))
      BY LineIs
    <3>2. Len(r.rows) = L
      BY <1>5
    <3> QED
      BY <3>1, <3>2
  <2> SUFFICES ASSUME NEW k \in 1 .. COLS
               PROVE  r.cells[q * COLS + k - 1] =
                         IF k <= Len(Line(r, q)) THEN Line(r, q)[k] ELSE Blank
    BY DEF Shows
  <2> DEFINE p == q * COLS + k - 1
  <2>2. s.cells[p] = IF k <= Len(Line(s, q)) THEN Line(s, q)[k] ELSE Blank
    BY <1>1 DEF Shows
  <2>3. p \in ScreenCell
    BY CellsThere
  <2>4. p = s.pos - 1 <=> q = s.y /\ k = s.x
    <3> DEFINE j == s.x
    <3>1. j \in 1 .. COLS
      <4>1. s.x \in Nat /\ s.x <= COLS /\ COLS \in Nat
        BY <1>1, ScreenSizes
      <4> QED
        BY <4>1
    <3>2. q * COLS + k - 1 = s.y * COLS + j - 1 => q = s.y /\ k = j
      <4> HIDE DEF j
      <4> QED
        BY <1>1, <2>0, <3>1, CellsApart
    <3>3. s.y * COLS + j - 1 = s.pos - 1
      BY <1>1, <1>7
    <3>4. q = s.y /\ k = j => q * COLS + k - 1 = s.y * COLS + j - 1
      OBVIOUS
    <3> QED
      BY <3>2, <3>3, <3>4
  <2> HIDE DEF p
  <2>5. CASE q # s.y
    <3>1. Line(r, q) = Line(s, q)
      BY <1>5, <2>0, <2>1, <2>5
    <3>2. r.cells[p] = s.cells[p]
      BY <1>1, <2>3, <2>4, <2>5
    <3> QED
      BY <2>2, <3>1, <3>2 DEF p
  <2>6. CASE q = s.y
    <3>1. Line(s, q) = old
      <4>1. i = L /\ L \in DOMAIN s.rows
        BY <1>1, <1>2, <2>0, <2>6 DEF RowsOK
      <4> QED
        BY <2>1, <4>1 DEF At, old
    <3>2. Line(r, q) = new
      <4>1. i = L /\ L \in DOMAIN r.rows
        BY <1>2, <1>5, <2>0, <2>6 DEF RowsOK
      <4> QED
        BY <1>5, <2>1, <4>1 DEF At
    <3>3. CASE k = s.x
      <4>1. r.cells[p] = Blank
        BY <1>1, <2>3, <2>4, <2>6, <3>3
      <4>2. ~ (k <= Len(new))
        BY <1>1, <1>3, <3>3
      <4> QED
        BY <3>2, <4>1, <4>2 DEF p
    <3>4. CASE k # s.x
      <4>1. r.cells[p] = s.cells[p]
        BY <1>1, <2>3, <2>4, <3>4
      <4>2. /\ k <= Len(new) <=> k <= Len(old)
            /\ k <= Len(old) => new[k] = old[k]
        BY <1>1, <1>3, <3>4
      <4> QED
        BY <2>2, <3>1, <3>2, <4>1, <4>2 DEF p
    <3> QED
      BY <3>3, <3>4
  <2>7. QED
    BY <2>5, <2>6 DEF p
<1>10. r.x \in 0 .. COLS /\ r.y \in 0 .. BOTTOM + 1 /\ r.y # BOTTOM + 1
  BY <1>1, ScreenSizes
<1>11. Len(r.rows[Len(r.rows)]) = r.x
  BY <1>3, <1>5
<1>12. QED
  BY <1>5, <1>6, <1>8, <1>9, <1>10, <1>11 DEF Fits

\* A blank screen with one empty line.
LEMMA BlankFits ==
    ASSUME ConsoleConstants, NEW r,
           r.cells = [p \in ScreenCell |-> Blank], r.rows = <<<<>>>>,
           r.x = 0, r.y = 0, r.pos = 0
    PROVE  Fits(r)
<1> DEFINE rows == <<<<>>>>
<1>1. /\ rows \in Seq(Seq(Characters)) /\ Len(rows) = 1 /\ rows[1] = <<>>
      /\ DOMAIN rows = {1}
  <2>1. <<>> \in Seq(Characters)
    OBVIOUS
  <2> QED
    BY <2>1
<1>2. Len(<<>>) = 0
  OBVIOUS
<1> HIDE DEF rows
<1>3. RowsOK(rows)
  BY <1>1, <1>2, ScreenSizes DEF RowsOK
<1>4. ASSUME NEW q \in 0 .. ROWS - 1 PROVE Shows(r, q)
  <2>1. Line(r, q) = <<>>
    <3>1. Line(r, q) = At(r.rows, Len(r.rows) - (0 - q))
      BY LineIs
    <3>2. r.rows = rows
      BY DEF rows
    <3> QED
      BY <1>1, <3>1, <3>2 DEF At
  <2>2. ASSUME NEW k \in 1 .. COLS PROVE r.cells[q * COLS + k - 1] = Blank
    BY CellsThere
  <2>3. ASSUME NEW k \in 1 .. COLS PROVE ~ (k <= Len(Line(r, q)))
    BY <1>2, <2>1
  <2> QED
    BY <2>2, <2>3 DEF Shows
<1>5. 0 * COLS = 0
  BY ScreenSizes
<1>6. r.rows = rows
  BY DEF rows
<1>7. /\ r.x \in 0 .. COLS /\ r.y \in 0 .. BOTTOM + 1 /\ r.y # BOTTOM + 1
      /\ r.pos = r.y * COLS + r.x
  BY <1>5, ScreenSizes
<1>8. r.cells \in [ScreenCell -> Characters]
  BY ScreenSizes
<1>9. Len(r.rows[Len(r.rows)]) = r.x
  BY <1>1, <1>2, <1>6
<1>10. QED
  BY <1>3, <1>4, <1>6, <1>7, <1>8, <1>9 DEF Fits

-----------------------------------------------------------------------------
(* Calls.                                                                  *)

\* Scroll and wrap leave the cursor on a row in use, left of its edge.
Ready(s) == s.sound => s.x < COLS /\ s.y <= BOTTOM

\* Scroll and wrap keep it.
LEMMA SettleOK ==
    ASSUME ConsoleConstants, NEW s, ScreenOK(s)
    PROVE  ScreenOK(Settle(s)) /\ Ready(Settle(s))
<1> DEFINE up == IF s.y > BOTTOM THEN doScroll([s EXCEPT !.x = 0]) ELSE s
<1>1. ScreenOK(up) /\ (up.sound => up.y <= BOTTOM)
  <2>1. CASE s.y > BOTTOM
    <3> DEFINE r == doScroll([s EXCEPT !.x = 0])
    <3>1. /\ Shape(r) /\ r.cells = Scrolled(s.cells)
          /\ r.x = 0 /\ r.y = BOTTOM /\ r.pos = BOTTOM * COLS
          /\ r.rows = s.rows /\ r.sound = s.sound
      BY doScrollIs DEF ScreenOK
    <3>2. up = r
      BY <2>1
    <3> HIDE DEF r, up
    <3>3. r.sound => Fits(s)
      BY <3>1, Zenon DEF ScreenOK
    <3>4. r.sound => Fits(r)
      BY <2>1, <3>1, <3>3, ScrollFits
    <3>5. r.y <= BOTTOM
      BY <3>1, ScreenSizes
    <3> QED
      BY <3>1, <3>2, <3>4, <3>5, Zenon DEF ScreenOK
  <2>2. CASE ~ (s.y > BOTTOM)
    <3>1. up = s
      BY <2>2
    <3>2. s.sound => s.y <= BOTTOM
      <4>1. s.sound => s.y \in 0 .. BOTTOM + 1
        BY Zenon DEF ScreenOK, Fits
      <4>2. s.y \in 0 .. BOTTOM + 1 => s.y <= BOTTOM
        BY <2>2, ScreenSizes
      <4> QED
        BY <4>1, <4>2, Zenon
    <3> QED
      BY <3>1, <3>2, Zenon
  <2>3. QED
    BY <2>1, <2>2
<1>2. CASE up.x = COLS
  <2> DEFINE r == [up EXCEPT !.x = 0, !.y = @ + 1, !.rows = Kept(Wrapped(@)),
                             !.sound = @ /\ up.y < BOTTOM]
  <2>1. Settle(s) = r
    BY <1>2, Zenon DEF Settle
  <2> HIDE DEF up
  <2>2. /\ Shape(r) /\ r.cells = up.cells
        /\ r.x = 0 /\ r.y = up.y + 1 /\ r.pos = up.pos
        /\ r.rows = Kept(Wrapped(up.rows))
        /\ r.sound <=> up.sound /\ up.y < BOTTOM
    BY <1>1, WrapIs DEF ScreenOK
  <2> HIDE DEF r
  <2>3. ASSUME r.sound PROVE Fits(r) /\ r.x < COLS /\ r.y <= BOTTOM
    <3>1. Fits(up) /\ up.y < BOTTOM /\ up.y <= BOTTOM
      BY <1>1, <2>2, <2>3, Zenon DEF ScreenOK
    <3>2. /\ Len(up.rows) \in Nat /\ Len(up.rows) >= 1
          /\ up.rows \in Seq(Seq(Characters))
          /\ Len(up.rows[Len(up.rows)]) = COLS /\ up.y \in Nat
          /\ up.pos = up.y * COLS + COLS
      BY <1>2, <3>1, ScreenSizes DEF Fits, RowsOK
    <3>3. Last(up.rows) = up.rows[Len(up.rows)]
      BY Zenon DEF Last
    <3>4. r.rows = WithLine(up.rows)
      BY <2>2, <3>2, <3>3, Zenon DEF Wrapped, WithLine
    <3>5. r.pos = (up.y + 1) * COLS
      <4>1. (up.y + 1) * COLS = up.y * COLS + COLS
        BY <3>2, ScreenSizes, Times
      <4> QED
        BY <2>2, <3>2, <4>1
    <3>6. Fits(r)
      BY <2>2, <3>1, <3>4, <3>5, NextRowFits
    <3>7. r.x < COLS /\ r.y <= BOTTOM
      BY <2>2, <3>1, <3>2, ScreenSizes
    <3> QED
      BY <3>6, <3>7
  <2>4. QED
    BY <2>1, <2>2, <2>3, Zenon DEF ScreenOK, Ready
<1>3. CASE up.x # COLS
  <2>1. Settle(s) = up
    BY <1>3, Zenon DEF Settle
  <2> HIDE DEF up
  <2>2. ASSUME up.sound PROVE up.x < COLS
    <3>1. up.x \in 0 .. COLS
      BY <1>1, <2>2, Zenon DEF ScreenOK, Fits
    <3> QED
      BY <1>3, <3>1, ScreenSizes
  <2> QED
    BY <1>1, <2>1, <2>2, Zenon DEF Ready
<1>4. QED
  BY <1>2, <1>3

\* So does a glyph, and it proves the row to be in use.
LEMMA printCharOK ==
    ASSUME ConsoleConstants, NEW s, ScreenOK(s), NEW c \in Characters
    PROVE  /\ ScreenOK(printChar(s, c))
           /\ printChar(s, c).sound => s.sound /\ printChar(s, c).y <= BOTTOM
<1> DEFINE r == printChar(s, c)
<1>1. /\ Shape(r)
      /\ r.cells = [s.cells EXCEPT ![s.pos] = c]
      /\ r.x = s.x + 1 /\ r.y = s.y /\ r.pos = s.pos + 1
      /\ r.rows = WithGlyph(s.rows, c)
      /\ r.sound <=> s.sound /\ s.x < COLS /\ s.y <= BOTTOM
  BY printCharIs DEF ScreenOK
<1> HIDE DEF r
<1>2. ASSUME r.sound PROVE Fits(r) /\ s.sound /\ r.y <= BOTTOM
  <2>1. Fits(s) /\ s.x < COLS /\ s.y <= BOTTOM /\ s.sound
    BY <1>1, <1>2, Zenon DEF ScreenOK
  <2>2. Fits(r)
    BY <1>1, <2>1, GlyphFits
  <2>3. r.y <= BOTTOM
    BY <1>1, <2>1
  <2> QED
    BY <2>1, <2>2, <2>3, Zenon
<1>3. QED
  BY <1>1, <1>2, Zenon DEF ScreenOK, r

\* So does a new line from a row in use.
LEMMA newLineOK ==
    ASSUME ConsoleConstants, NEW s, ScreenOK(s), s.sound => s.y <= BOTTOM
    PROVE  ScreenOK(newLine(s))
<1> DEFINE r == newLine(s)
<1>1. /\ Shape(r) /\ r.cells = s.cells
      /\ r.x = 0 /\ r.y = s.y + 1 /\ r.pos = s.pos + (COLS - s.x)
      /\ r.rows = WithLine(s.rows)
      /\ r.sound = s.sound
  BY newLineIs DEF ScreenOK
<1> HIDE DEF r
<1>2. ASSUME r.sound PROVE Fits(r)
  <2>1. Fits(s) /\ s.y <= BOTTOM
    BY <1>1, <1>2, Zenon DEF ScreenOK
  <2>2. s.y \in Nat /\ s.x \in Nat /\ s.pos = s.y * COLS + s.x
    BY <2>1, ScreenSizes DEF Fits
  <2>3. (s.y + 1) * COLS = s.y * COLS + COLS /\ s.y * COLS \in Nat
    BY <2>2, ScreenSizes, Times
  <2>4. r.pos = (s.y + 1) * COLS
    BY <1>1, <2>2, <2>3, ScreenSizes
  <2> QED
    BY <1>1, <2>1, <2>4, NextRowFits
<1>3. QED
  BY <1>1, <1>2, Zenon DEF ScreenOK, r

\* So does a character of the format.
LEMMA kputcOK ==
    ASSUME ConsoleConstants, NEW s, ScreenOK(s), NEW c \in Characters
    PROVE  ScreenOK(kputc(s, c))
<1>1. ScreenOK(Settle(s)) /\ Ready(Settle(s))
  BY SettleOK
<1>2. ScreenOK(printChar(Settle(s), c))
  BY <1>1, printCharOK
<1>3. ScreenOK(newLine(Settle(s)))
  BY <1>1, newLineOK, Zenon DEF Ready
<1>4. QED
  BY <1>2, <1>3, Zenon DEF kputc

\* So does an erasure.
LEMMA clearCharOK ==
    ASSUME ConsoleConstants, NEW s, ScreenOK(s)
    PROVE  ScreenOK(clearChar(s))
<1> DEFINE r == clearChar(s)
<1>1. /\ Shape(r)
      /\ r.sound <=> s.sound /\ s.x > 0
      /\ s.x > 0 =>
            /\ r.cells = [s.cells EXCEPT ![s.pos - 1] = Blank]
            /\ r.x = s.x - 1 /\ r.y = s.y /\ r.pos = s.pos - 1
            /\ r.rows = Erased(s.rows)
  BY clearCharIs DEF ScreenOK
<1> HIDE DEF r
<1>2. ASSUME r.sound PROVE Fits(r)
  <2>1. Fits(s) /\ s.x > 0
    BY <1>1, <1>2, Zenon DEF ScreenOK
  <2> QED
    BY <1>1, <2>1, ErasedFits
<1>3. QED
  BY <1>1, <1>2, Zenon DEF ScreenOK, r

-----------------------------------------------------------------------------
(* A string.                                                               *)

\* Before a character of a string: the cursor is on a row in use, unless a
\* new line comes before it.
StringOK(st) == /\ st.next \in {"any", "raw"}
                /\ ScreenOK(st.s)
                /\ ~ Raw(st) => (st.s.sound => st.s.y <= BOTTOM)

\* So does a character of a string.
LEMMA NextPut ==
    ASSUME ConsoleConstants, NEW st, StringOK(st), NEW c \in Characters
    PROVE  StringOK(PutChar(st, c))
<1>1. CASE Raw(st)
  <2> DEFINE t == printChar(st.s, c)
             q == t.sound /\ c # Newline
             r == [t EXCEPT !.sound = q]
             u == [next |-> "any", s |-> r]
  <2>1. PutChar(st, c) = u
    <3>1. [t EXCEPT !.sound = @ /\ c # Newline] = r
      <4>1. Shape(t)
        BY printCharOK DEF StringOK, ScreenOK
      <4> HIDE DEF t
      <4> QED
        BY <4>1 DEF Shape
    <3> HIDE DEF r
    <3> QED
      BY <1>1, <3>1, Zenon DEF PutChar
  <2>2. ScreenOK(t) /\ (t.sound => t.y <= BOTTOM)
    BY printCharOK, Zenon DEF StringOK
  <2> HIDE DEF t, q
  <2>3. /\ Shape(r) /\ r.cells = t.cells /\ r.x = t.x /\ r.y = t.y
        /\ r.pos = t.pos /\ r.rows = t.rows /\ r.sound = q
    BY <2>2 DEF ScreenOK, Shape
  <2> HIDE DEF r
  <2>4. ASSUME r.sound PROVE Fits(r) /\ r.y <= BOTTOM
    <3>1. Fits(t) /\ t.y <= BOTTOM
      BY <2>2, <2>3, <2>4, Zenon DEF q, ScreenOK
    <3>2. \A p : Line(r, p) = Line(t, p)
      BY <2>3, Zenon DEF Line
    <3>3. \A p : Shows(t, p) => Shows(r, p)
      <4> TAKE p
      <4> HAVE Shows(t, p)
      <4> SUFFICES ASSUME NEW k \in 1 .. COLS
                   PROVE  r.cells[p * COLS + k - 1] =
                             IF k <= Len(Line(r, p)) THEN Line(r, p)[k] ELSE Blank
        BY Zenon DEF Shows
      <4>1. t.cells[p * COLS + k - 1] =
               IF k <= Len(Line(t, p)) THEN Line(t, p)[k] ELSE Blank
        BY Zenon DEF Shows
      <4>2. Line(r, p) = Line(t, p) /\ r.cells = t.cells
        BY <2>3, <3>2, Zenon
      <4> QED
        BY <4>1, <4>2
    <3>4. Fits(r)
      BY <2>3, <3>1, <3>3, Zenon DEF Fits
    <3> QED
      BY <2>3, <3>1, <3>4, Zenon
  <2>5. u.next = "any" /\ u.s = r
    OBVIOUS
  <2> HIDE DEF u
  <2>6. QED
    BY <2>1, <2>3, <2>4, <2>5, Zenon DEF StringOK, ScreenOK
<1>2. CASE ~ Raw(st) /\ c = Newline
  <2> DEFINE t == newLine(st.s)
             u == [next |-> "raw", s |-> t]
  <2>1. PutChar(st, c) = u
    BY <1>2, Zenon DEF PutChar
  <2>2. ScreenOK(t)
    BY <1>2, newLineOK, Zenon DEF StringOK
  <2> HIDE DEF t
  <2>3. u.next = "raw" /\ u.s = t
    OBVIOUS
  <2> HIDE DEF u
  <2>4. QED
    BY <2>1, <2>2, <2>3, Zenon DEF StringOK, Raw
<1>3. CASE ~ Raw(st) /\ c # Newline
  <2> DEFINE t == printChar(st.s, c)
             u == [next |-> "any", s |-> t]
  <2>1. PutChar(st, c) = u
    BY <1>3, Zenon DEF PutChar
  <2>2. ScreenOK(t) /\ (t.sound => t.y <= BOTTOM)
    BY printCharOK, Zenon DEF StringOK
  <2> HIDE DEF t
  <2>3. u.next = "any" /\ u.s = t
    OBVIOUS
  <2> HIDE DEF u
  <2>4. QED
    BY <2>1, <2>2, <2>3, Zenon DEF StringOK
<1>4. QED
  BY <1>1, <1>2, <1>3

\* So does a string.
LEMMA kputsOK ==
    ASSUME ConsoleConstants, NEW s, ScreenOK(s), NEW text \in Seq(Characters)
    PROVE  ScreenOK(kputs(s, text))
<1> DEFINE start == [next |-> "any", s |-> Settle(s)]
           B(f, i) == IF i = 0 THEN start ELSE PutChar(f[i - 1], text[i])
           after == CHOOSE f : f = [i \in 0 .. Len(text) |-> B(f, i)]
<1>1. kputs(s, text) = after[Len(text)].s
  BY DEF kputs
<1>2. StringOK(start)
  <2>1. start.next = "any" /\ start.s = Settle(s)
    OBVIOUS
  <2> HIDE DEF start
  <2>2. QED
    BY <2>1, SettleOK, Zenon DEF StringOK, Ready
<1> HIDE DEF start
<1>3. \E f : f = [i \in 0 .. Len(text) |-> B(f, i)]
  <2> DEFINE S == {m \in Nat : \E f : f = [i \in 0 .. m |-> B(f, i)]}
  <2>1. 0 \in S
    <3> DEFINE f == [i \in 0 .. 0 |-> start]
    <3>1. f = [i \in 0 .. 0 |-> B(f, i)]
      <4>1. \A i \in 0 .. 0 : i = 0
        OBVIOUS
      <4> QED
        BY <4>1, Zenon
    <3> QED
      BY <3>1
  <2>2. ASSUME NEW m \in Nat, m \in S PROVE m + 1 \in S
    <3>1. PICK f : f = [i \in 0 .. m |-> B(f, i)]
      BY <2>2
    <3> DEFINE g == [i \in 0 .. m + 1 |-> IF i = m + 1 THEN PutChar(f[m], text[m + 1])
                                          ELSE f[i]]
    <3>2. ASSUME NEW i \in 0 .. m + 1 PROVE g[i] = B(g, i)
      <4>1. CASE i = m + 1
        <5>1. m \in 0 .. m + 1 /\ m # m + 1 /\ (m + 1) - 1 = m /\ m + 1 # 0
          OBVIOUS
        <5>2. g[m] = f[m] /\ g[m + 1] = PutChar(f[m], text[m + 1])
          BY <4>1, <5>1, Zenon
        <5> HIDE DEF g
        <5> QED
          BY <4>1, <5>1, <5>2
      <4>2. CASE i # m + 1
        <5>1. i \in 0 .. m
          BY <4>2
        <5>2. g[i] = f[i]
          BY <4>2, Zenon
        <5>3. f[i] = B(f, i)
          BY <3>1, <5>1, Zenon
        <5>4. i # 0 => i - 1 \in 0 .. m + 1 /\ i - 1 # m + 1
          BY <5>1
        <5>5. i # 0 => g[i - 1] = f[i - 1]
          BY <5>4, Zenon
        <5> HIDE DEF g
        <5>6. QED
          BY <5>2, <5>3, <5>5, Zenon
      <4>3. QED
        BY <4>1, <4>2
    <3>3. g = [i \in 0 .. m + 1 |-> B(g, i)]
      <4> DEFINE h == [i \in 0 .. m + 1 |-> B(g, i)]
      <4>1. DOMAIN g = 0 .. m + 1 /\ g = [i \in 0 .. m + 1 |-> g[i]]
        BY Zenon
      <4> HIDE DEF g, B
      <4>2. QED
        BY <3>2, <4>1
    <3>4. \E h : h = [i \in 0 .. m + 1 |-> B(h, i)]
      <4> HIDE DEF g, B
      <4> QED
        BY <3>3, Zenon
    <3>5. m + 1 \in Nat
      OBVIOUS
    <3> HIDE DEF B
    <3> QED
      BY <3>4, <3>5
  <2> HIDE DEF S
  <2>3. Nat \subseteq S
    BY <2>1, <2>2, NatInd
  <2>4. Len(text) \in S
    BY <2>3
  <2> QED
    BY <2>4, Zenon DEF S
<1>4. after = [i \in 0 .. Len(text) |-> B(after, i)]
  <2> HIDE DEF B
  <2> QED
    BY <1>3
<1> HIDE DEF after
<1>5. \A m \in Nat : m <= Len(text) => StringOK(after[m])
  <2> DEFINE S == {m \in Nat : m <= Len(text) => StringOK(after[m])}
  <2>1. 0 \in S
    <3>1. 0 \in 0 .. Len(text)
      OBVIOUS
    <3>2. after[0] = start
      BY <1>4, <3>1, Zenon
    <3> QED
      BY <1>2, <3>2
  <2>2. ASSUME NEW m \in Nat, m \in S PROVE m + 1 \in S
    <3> SUFFICES ASSUME m + 1 <= Len(text) PROVE StringOK(after[m + 1])
      OBVIOUS
    <3>1. m + 1 \in 0 .. Len(text) /\ m + 1 # 0 /\ (m + 1) - 1 = m /\ m <= Len(text)
      OBVIOUS
    <3>2. after[m + 1] = PutChar(after[m], text[m + 1])
      <4>1. after[m + 1] = B(after, m + 1)
        <5> HIDE DEF B
        <5> QED
          BY <1>4, <3>1, Zenon
      <4> QED
        BY <3>1, <4>1, Zenon
    <3>3. text[m + 1] \in Characters
      BY <3>1
    <3>4. StringOK(after[m])
      BY <2>2, <3>1
    <3> QED
      BY <3>2, <3>3, <3>4, NextPut, Zenon
  <2> HIDE DEF S
  <2>3. Nat \subseteq S
    BY <2>1, <2>2, NatInd
  <2> QED
    BY <2>3 DEF S
<1>6. StringOK(after[Len(text)])
  BY <1>5
<1>7. QED
  BY <1>1, <1>6, Zenon DEF StringOK

\* The ghost may only say that less is sound.
LEMMA LessSound ==
    ASSUME NEW s, ScreenOK(s), NEW q \in BOOLEAN
    PROVE  ScreenOK([s EXCEPT !.sound = @ /\ q])
<1> DEFINE v == s.sound /\ q
           r == [s EXCEPT !.sound = v]
<1>1. Shape(s) /\ (s.sound => Fits(s))
  BY DEF ScreenOK
<1>2. r = [s EXCEPT !.sound = @ /\ q]
  BY <1>1 DEF Shape
<1>3. CASE v
  <2>1. v = TRUE /\ s.sound = TRUE
    BY <1>1, <1>3 DEF Shape
  <2> HIDE DEF v
  <2>2. r = s
    BY <1>1, <2>1 DEF Shape
  <2> QED
    BY <1>2, <2>2
<1>4. CASE ~ v
  <2> HIDE DEF v
  <2>1. Shape(r) /\ ~ r.sound
    BY <1>1, <1>4 DEF Shape
  <2> QED
    BY <1>2, <2>1, Zenon DEF ScreenOK
<1> QED
  BY <1>3, <1>4

-----------------------------------------------------------------------------
(* Steps.                                                                  *)

ScreenInv == ScreenOK(scr)

\* It holds of the screen at first,
LEMMA ScreenInitially == ASSUME ConsoleConstants PROVE ScreenInit => ScreenInv
<1> SUFFICES ASSUME ScreenInit PROVE ScreenInv
  OBVIOUS
<1>1. /\ Shape(scr)
      /\ scr.cells = [p \in ScreenCell |-> Blank] /\ scr.rows = <<<<>>>>
      /\ scr.x = 0 /\ scr.y = 0 /\ scr.pos = 0
  BY DEF ScreenInit, Shape
<1>2. Fits(scr)
  BY <1>1, BlankFits
<1>3. QED
  BY <1>1, <1>2 DEF ScreenInv, ScreenOK

\* after clear, whatever was there before,
LEMMA ClearOK ==
    ASSUME ConsoleConstants, ScreenInv, Clear PROVE ScreenOK(scr')
<1> DEFINE q == \A p \in ScreenCell : Cleared(scr.cells)[p] = Blank
           cells == Cleared(scr.cells)
           rows == <<<<>>>>
           r == [scr EXCEPT !.cells = cells, !.x = 0, !.y = 0, !.pos = 0,
                            !.rows = rows, !.sound = q]
<1>0. Shape(scr)
  BY DEF ScreenInv, ScreenOK
<1>1. scr' = r
  BY <1>0 DEF Clear, Shape
<1> HIDE DEF q, cells, rows
<1>2. /\ Shape(r) /\ r.cells = cells /\ r.x = 0 /\ r.y = 0 /\ r.pos = 0
      /\ r.rows = rows /\ r.sound = q
  BY <1>0 DEF Shape
<1> HIDE DEF r
<1>3. ASSUME r.sound PROVE Fits(r)
  <2>1. \A p \in ScreenCell : cells[p] = Blank
    BY <1>2, <1>3, Zenon DEF q, cells
  <2>2. cells = [p \in ScreenCell |-> cells[p]]
    BY Zenon DEF cells, Cleared
  <2>3. cells = [p \in ScreenCell |-> Blank]
    BY <2>1, <2>2
  <2> QED
    BY <1>2, <2>3, BlankFits, Zenon DEF rows
<1>4. QED
  BY <1>1, <1>2, <1>3, Zenon DEF ScreenOK

\* and after every step.
LEMMA ScreenInductive ==
    ASSUME ConsoleConstants
    PROVE  ScreenInv /\ [ScreenNext]_screenVars => ScreenInv'
<1> SUFFICES ASSUME ScreenInv, [ScreenNext]_screenVars PROVE ScreenOK(scr')
  BY DEF ScreenInv
<1>0. /\ Blank \in Characters /\ Newline \in Characters
      /\ Keys \subseteq Characters
      /\ Texts \subseteq Seq(Characters) /\ Behinds \subseteq Seq(Characters)
      /\ ScreenOK(scr)
  BY ScreenSizes DEF ScreenInv
<1>1. ASSUME NEW text \in Texts, NEW behind \in Behinds, Write(text, behind)
      PROVE  ScreenOK(scr')
  <2> DEFINE string == StringOf(text, behind)
             q == RunsOn(text) => behind = <<>>
             s == [kputs(scr, string) EXCEPT !.sound = @ /\ q]
  <2>1. string \in Seq(Characters)
    <3>1. text \in Seq(Characters) /\ behind \in Seq(Characters)
      BY <1>0
    <3>2. Append(text, Blank) \o behind \in Seq(Characters)
      BY <1>0, <3>1
    <3> QED
      BY <3>1, <3>2, Zenon DEF StringOf
  <2>2. ScreenOK(kputs(scr, string))
    <3> HIDE DEF string
    <3> QED
      BY <1>0, <2>1, kputsOK
  <2>3. ScreenOK(s)
    <3>1. q \in BOOLEAN
      OBVIOUS
    <3> HIDE DEF q, string
    <3> QED
      BY <2>2, <3>1, LessSound
  <2>4. scr' = IF Prompted(text) THEN s ELSE kputc(kputc(s, Blank), Newline)
    BY <1>1, Zenon DEF Write
  <2> HIDE DEF s
  <2>5. ScreenOK(kputc(s, Blank))
    BY <1>0, <2>3, kputcOK
  <2>6. ScreenOK(kputc(kputc(s, Blank), Newline))
    BY <1>0, <2>5, kputcOK
  <2>7. QED
    BY <2>3, <2>4, <2>6, Zenon
<1>2. ASSUME NEW c \in Keys, Echo(c) PROVE ScreenOK(scr')
  <2>1. ScreenOK(kputc(scr, c))
    BY <1>0, kputcOK
  <2> QED
    BY <1>2, <2>1, Zenon DEF Echo
<1>3. CASE EchoControl
  <2>1. PICK c \in Keys, d \in Keys : scr' = kputc(kputc(scr, c), d)
    BY <1>3 DEF EchoControl
  <2>2. ScreenOK(kputc(scr, c))
    BY <1>0, kputcOK
  <2>3. ScreenOK(kputc(kputc(scr, c), d))
    BY <1>0, <2>2, kputcOK
  <2> QED
    BY <2>1, <2>3, Zenon
<1>4. CASE EchoTab
  <2>1. ScreenOK(kputc(scr, Blank))
    BY <1>0, kputcOK
  <2> QED
    BY <1>4, <2>1, Zenon DEF EchoTab
<1>5. CASE Clear
  BY <1>5, ClearOK
<1>6. CASE Read
  BY <1>0, <1>6, Zenon DEF Read
<1>7. CASE EchoBackspace
  <2>1. ScreenOK(clearChar(scr))
    BY <1>0, clearCharOK
  <2> QED
    BY <1>7, <2>1, Zenon DEF EchoBackspace
<1>8. CASE EchoEnter
  <2>1. ScreenOK(kputc(scr, Newline))
    BY <1>0, kputcOK
  <2> QED
    BY <1>8, <2>1, Zenon DEF EchoEnter
<1>9. CASE UNCHANGED screenVars
  BY <1>0, <1>9, Zenon DEF screenVars
<1>10. QED
  BY <1>1, <1>2, <1>3, <1>4, <1>5, <1>6, <1>7, <1>8, <1>9, Zenon DEF ScreenNext

\* Whatever is written, typed and erased, x, y and vPointer (kprintf.c:8-9)
\* agree as long as no string ran past a row and no erasure past its begin.
THEOREM CursorKept == ScreenSpec => []CursorAgrees
<1>0. ConsoleConstants
  BY ConsoleAssumption
<1>1. ScreenInv => CursorAgrees
  <2>1. ASSUME ScreenInv, scr.sound
        PROVE  scr.pos = scr.y * COLS + scr.x /\ scr.x <= COLS /\ scr.y <= BOTTOM + 1
    <3>1. Fits(scr)
      BY <2>1, Zenon DEF ScreenInv, ScreenOK
    <3> QED
      BY <3>1, ScreenSizes DEF Fits
  <2> QED
    BY <2>1, Zenon DEF CursorAgrees
<1>2. ScreenInit => ScreenInv
  BY <1>0, ScreenInitially
<1>3. ScreenInv /\ [ScreenNext]_screenVars => ScreenInv'
  BY <1>0, ScreenInductive
<1>4. QED
  BY <1>1, <1>2, <1>3, PTL DEF ScreenSpec

\* And the cells show the lines a terminal would hold: what doScroll copies
\* and clears (kprintf.c:44-57) is the screen one line further.
THEOREM TextShown == ScreenSpec => []ScreenShowsText
<1>0. ConsoleConstants
  BY ConsoleAssumption
<1>1. ScreenInv => ScreenShowsText
  BY Zenon DEF ScreenInv, ScreenOK, Fits, ScreenShowsText
<1>2. ScreenInit => ScreenInv
  BY <1>0, ScreenInitially
<1>3. ScreenInv /\ [ScreenNext]_screenVars => ScreenInv'
  BY <1>0, ScreenInductive
<1>4. QED
  BY <1>1, <1>2, <1>3, PTL DEF ScreenSpec
=============================================================================
