----------------------------- MODULE Libc_proofs -----------------------------
(***************************************************************************)
(* The blocks malloc hands out are apart and end to end, and the numbers   *)
(* printf prints read back, for every size of int and word, every heap and *)
(* every set of sizes and calls (module Libc).  The last part is about the *)
(* shell that is linked with it (module Shell): the two variables it keeps *)
(* hold what was exported, and a script is run in order.                   *)
(***************************************************************************)
EXTENDS Libc, Shell, SequenceTheorems, WellFoundedInduction, TLAPS

\* The part of TypeOK the proofs need; printf does not touch it.
HeapOK ==
    /\ heap_ptr \in HEAP_START .. HEAP_END
    /\ blocks \in Seq([at : HEAP_START .. HEAP_END, size : 0 .. INTMAX])

IInv == HeapOK /\ BlocksApart /\ NothingLost

\* The multiple of d below a number.
LEMMA DivBounds ==
    ASSUME NEW n \in Nat, NEW d \in Nat, d > 0
    PROVE  /\ (n \div d) * d \in Nat
           /\ (n \div d) * d <= n
           /\ n < (n \div d) * d + d
<1>1. n = d * (n \div d) + (n % d) /\ n % d \in 0 .. d - 1 /\ n \div d \in Nat
  OBVIOUS
<1>2. d * (n \div d) = (n \div d) * d
  BY <1>1
<1>3. (n \div d) * d \in Nat
  BY <1>1
<1> DEFINE q == (n \div d) * d
<1>4. q \in Nat /\ n = q + (n % d) /\ n % d \in 0 .. d - 1
  BY <1>1, <1>2, <1>3
<1> HIDE DEF q
<1>5. q <= n /\ n < q + d
  BY <1>4
<1> QED
  BY <1>4, <1>5 DEF q

\* A size (malloc.c:49-53) is rounded to something larger, by at most ALIGN,
\* or the rounding overflows and takes the pointer out of the address space.
LEMMA RoundedGrows ==
    ASSUME NEW size \in 0 .. INTMAX, NEW p \in HEAP_START .. HEAP_END
    PROVE  /\ Rounded(size) \in -INTMAX - 1 .. INTMAX
           /\ \/ Rounded(size) > size /\ Rounded(size) <= size + ALIGN
              \/ p + Rounded(size) < 0
<1> USE LibcAssumption
<1> DEFINE q == (size \div ALIGN) * ALIGN
<1>1. q \in Nat /\ q <= size /\ size < q + ALIGN
  BY DivBounds
<1>2. Rounded(size) = ToInt(ALIGN + q)
  BY DEF Rounded
<1> HIDE DEF q
<1>3. CASE ALIGN + q > INTMAX
  BY <1>1, <1>2, <1>3 DEF ToInt
<1>4. CASE ALIGN + q <= INTMAX
  BY <1>1, <1>2, <1>4 DEF ToInt
<1> QED
  BY <1>1, <1>3, <1>4

\* What malloc gives lies behind the pointer and moves it past its end.
LEMMA GivesForward ==
    ASSUME NEW size \in 0 .. INTMAX, NEW p \in HEAP_START .. HEAP_END,
           Wrapped(p + Rounded(size)) <= HEAP_END
    PROVE  /\ Wrapped(p + Rounded(size)) \in HEAP_START .. HEAP_END
           /\ p + size <= Wrapped(p + Rounded(size))
           /\ Wrapped(p + Rounded(size)) <= p + size + ALIGN
BY RoundedGrows, LibcAssumption DEF Wrapped

\* A refusal takes the pointer back to where it was.
LEMMA RefusalTakesBack ==
    ASSUME NEW size \in 0 .. INTMAX, NEW p \in HEAP_START .. HEAP_END
    PROVE  Wrapped(Wrapped(p + Rounded(size)) - Rounded(size)) = p
<1>1. Rounded(size) \in -INTMAX - 1 .. INTMAX
  BY RoundedGrows
<1> QED
  BY <1>1, LibcAssumption DEF Wrapped

-----------------------------------------------------------------------------
\* The invariant holds at the start and is preserved by every step.
LEMMA Initially == Init => IInv
BY LibcAssumption DEF Init, IInv, HeapOK, BlocksApart, NothingLost

\* A block that is given is behind all others.
LEMMA GivesPreserves ==
    ASSUME IInv, NEW size \in Sizes, mallocGives(size)
    PROVE  IInv'
<1>1. size \in 0 .. INTMAX
  BY LibcAssumption DEF mallocGives
<1>2. /\ heap_ptr \in HEAP_START .. HEAP_END
      /\ heap_ptr' = Wrapped(heap_ptr + Rounded(size))
      /\ Wrapped(heap_ptr + Rounded(size)) <= HEAP_END
  BY DEF mallocGives, IInv, HeapOK
<1>3. /\ heap_ptr' \in HEAP_START .. HEAP_END
      /\ heap_ptr + size <= heap_ptr'
      /\ heap_ptr' <= heap_ptr + size + ALIGN
  BY <1>1, <1>2, GivesForward
<1> DEFINE b == [at |-> heap_ptr, size |-> size]
           B == [at : HEAP_START .. HEAP_END, size : 0 .. INTMAX]
<1>4. blocks \in Seq(B) /\ b \in B /\ blocks' = Append(blocks, b)
  BY <1>1, <1>2 DEF mallocGives, IInv, HeapOK
<1> HIDE DEF b, B
<1>5. /\ Len(blocks') = Len(blocks) + 1
      /\ DOMAIN blocks' = 1 .. Len(blocks) + 1
      /\ DOMAIN blocks = 1 .. Len(blocks)
      /\ Len(blocks) \in Nat
      /\ blocks'[Len(blocks) + 1] = b
      /\ \A i \in 1 .. Len(blocks) : blocks'[i] = blocks[i] /\ blocks[i] \in B
      /\ blocks' \in Seq(B)
      /\ blocks' # <<>>
  <2>1. Len(blocks) \in Nat /\ DOMAIN blocks = 1 .. Len(blocks)
    BY <1>4, LenProperties
  <2>2. \A i \in 1 .. Len(blocks) : blocks[i] \in B
    BY <1>4, ElementOfSeq
  <2>3. /\ blocks' \in Seq(B) /\ blocks' # <<>>
        /\ Len(blocks') = Len(blocks) + 1
        /\ \A i \in 1 .. Len(blocks) : blocks'[i] = blocks[i]
        /\ blocks'[Len(blocks) + 1] = b
    BY <1>4, AppendProperties
  <2>4. DOMAIN blocks' = 1 .. Len(blocks')
    BY <2>3, LenProperties
  <2> QED
    BY <2>1, <2>2, <2>3, <2>4
<1>len. Len(blocks) \in Nat
  BY <1>5
<1>6. HeapOK'
  BY <1>3, <1>5 DEF HeapOK, B
<1>7. BlocksApart'
  <2>1. ASSUME NEW i \in 1 .. Len(blocks) + 1
        PROVE  /\ blocks'[i].at + blocks'[i].size <= heap_ptr'
               /\ \A j \in 1 .. Len(blocks) + 1 :
                      i < j => blocks'[i].at + blocks'[i].size <= blocks'[j].at
    <3>1. CASE i = Len(blocks) + 1
      BY <3>1, <1>3, <1>5 DEF b
    <3>2. CASE i \in 1 .. Len(blocks)
      <4>1. /\ blocks[i].at + blocks[i].size <= heap_ptr
            /\ \A j \in 1 .. Len(blocks) :
                   i < j => blocks[i].at + blocks[i].size <= blocks[j].at
        BY <3>2, <1>5 DEF IInv, BlocksApart
      <4>2. heap_ptr <= heap_ptr' /\ blocks[i].at \in Int /\ blocks[i].size \in Int
        <5>1. blocks[i] \in B
          BY <3>2, <1>5
        <5>2. blocks[i].at \in HEAP_START .. HEAP_END /\ blocks[i].size \in 0 .. INTMAX
          BY <5>1 DEF B
        <5>3. HEAP_START \in Int /\ HEAP_END \in Int /\ INTMAX \in Int
          BY LibcAssumption
        <5> QED
          BY <5>2, <5>3, <1>1, <1>2, <1>3
      <4>3. blocks'[i] = blocks[i]
        BY <3>2, <1>5
      <4>4. blocks'[i].at + blocks'[i].size <= heap_ptr'
        BY <4>1, <4>2, <4>3, <1>2, <1>3, LibcAssumption
      <4>5. ASSUME NEW j \in 1 .. Len(blocks) + 1, i < j
            PROVE  blocks'[i].at + blocks'[i].size <= blocks'[j].at
        <5>1. CASE j = Len(blocks) + 1
          BY <5>1, <4>1, <4>3, <1>5 DEF b
        <5>2. CASE j \in 1 .. Len(blocks)
          BY <5>2, <4>1, <4>3, <4>5, <1>5
        <5> QED
          BY <5>1, <5>2, <1>5
      <4> QED
        BY <4>4, <4>5
    <3> QED
      BY <3>1, <3>2, <1>5
  <2> QED
    BY <2>1, <1>5 DEF BlocksApart
<1>8. NothingLost'
  <2>1. blocks' # <<>>
    BY <1>5
  <2>2. ASSUME NEW i \in 1 .. Len(blocks) + 1, i = Len(blocks')
        PROVE  heap_ptr' <= blocks'[i].at + blocks'[i].size + ALIGN
    BY <2>2, <1>3, <1>5 DEF b
  <2>3. ASSUME NEW i \in 1 .. Len(blocks) + 1, i # Len(blocks')
        PROVE  blocks'[i + 1].at <= blocks'[i].at + blocks'[i].size + ALIGN
    <3>1. i \in 1 .. Len(blocks) /\ blocks'[i] = blocks[i]
      BY <2>3, <1>5
    <3>2. CASE i = Len(blocks)
      <4>1. heap_ptr <= blocks[i].at + blocks[i].size + ALIGN
        BY <3>1, <3>2, <1>5 DEF IInv, NothingLost
      <4> QED
        BY <4>1, <3>1, <3>2, <1>5 DEF b
    <3>3. CASE i # Len(blocks)
      <4>1. blocks[i + 1].at <= blocks[i].at + blocks[i].size + ALIGN
        BY <3>1, <3>3, <1>5 DEF IInv, NothingLost
      <4>2. i + 1 \in 1 .. Len(blocks)
        BY <3>1, <3>3, <1>len
      <4> QED
        BY <4>1, <4>2, <3>1, <1>5
    <3> QED
      BY <3>2, <3>3
  <2> QED
    BY <2>1, <2>2, <2>3, <1>5 DEF NothingLost
<1> QED
  BY <1>6, <1>7, <1>8 DEF IInv

\* Every call keeps the heap in order.
LEMMA NextPreserves == IInv /\ [Next]_vars => IInv'
<1> SUFFICES ASSUME IInv, [Next]_vars
             PROVE  IInv'
  OBVIOUS
<1>1. ASSUME UNCHANGED <<heap_ptr, blocks>>
      PROVE  IInv'
  BY <1>1 DEF IInv, HeapOK, BlocksApart, NothingLost
<1>2. ASSUME NEW size \in Sizes, mallocNegative(size)
      PROVE  IInv'
  BY <1>1, <1>2 DEF mallocNegative
<1>3. ASSUME NEW size \in Sizes, mallocGives(size)
      PROVE  IInv'
  BY <1>3, GivesPreserves
<1>4. ASSUME NEW size \in Sizes, mallocRefuses(size)
      PROVE  IInv'
  <2>1. size \in 0 .. INTMAX /\ heap_ptr \in HEAP_START .. HEAP_END
    BY <1>4, LibcAssumption DEF mallocRefuses, IInv, HeapOK
  <2>2. heap_ptr' = heap_ptr /\ blocks' = blocks
    BY <1>4, <2>1, RefusalTakesBack DEF mallocRefuses
  <2> QED
    BY <1>1, <2>2
<1>5. ASSUME NEW call \in Calls, printf(call)
      PROVE  IInv'
  BY <1>1, <1>5 DEF printf
<1>6. CASE UNCHANGED vars
  BY <1>1, <1>6 DEF vars
<1> QED
  BY <1>2, <1>3, <1>4, <1>5, <1>6 DEF Next

\* The heap is in order for good.
LEMMA Inductive == Spec => []IInv
BY Initially, NextPreserves, PTL DEF Spec

\* Blocks of malloc never overlap, whatever was asked for (malloc.c:45-64).
THEOREM NeverOverlap == Spec => []BlocksApart
<1>1. IInv => BlocksApart
  BY DEF IInv
<1> QED
  BY <1>1, Inductive, PTL

\* Blocks lie end to end: no refusal costs memory (malloc.c:58-62).
THEOREM EndToEnd == Spec => []NothingLost
<1>1. IInv => NothingLost
  BY DEF IInv
<1> QED
  BY <1>1, Inductive, PTL
-----------------------------------------------------------------------------
(* Numbers: ReadsBack.  Induction over the naturals is stated with sets.   *)

\* A set of naturals has a least element.
LEMMA Least ==
    ASSUME NEW T \in SUBSET Nat, T # {}
    PROVE  \E x \in T : \A y \in T : x <= y
<1>1. IsWellFoundedOn(OpToRel(<, Nat), Nat)
  BY NatLessThanWellFounded
<1>2. PICK x \in T : \A y \in T : ~ (<<y, x>> \in OpToRel(<, Nat))
  BY <1>1, WFMin
<1>3. \A a, b \in Nat : <<a, b>> \in OpToRel(<, Nat) <=> a < b
  BY DEF OpToRel
<1>4. \A y \in T : ~ (y < x)
  BY <1>2, <1>3
<1>5. QED
  BY <1>4

\* Induction.
LEMMA NatInd ==
    ASSUME NEW S, 0 \in S, \A n \in Nat : n \in S => n + 1 \in S
    PROVE  Nat \subseteq S
<1> DEFINE T == Nat \ S
<1> SUFFICES ASSUME T # {} PROVE FALSE
  OBVIOUS
<1>1. PICK x \in T : \A y \in T : x <= y
  BY Least
<1>2. x # 0 /\ x - 1 \in Nat /\ x - 1 \notin T
  BY <1>1
<1>3. QED
  BY <1>2

\* Dividing by the base leads to a smaller number.
LEMMA DivLess ==
    ASSUME NEW d \in Nat, d >= 2, NEW n \in Nat
    PROVE  /\ n \div d \in Nat /\ n % d \in 0 .. d - 1
           /\ n = d * (n \div d) + (n % d)
           /\ n # 0 => n \div d < n
           /\ n \div d = 0 => n % d = n /\ n < d
<1> DEFINE q == n \div d
           r == n % d
<1>1. q \in Nat /\ r \in 0 .. d - 1 /\ n = d * q + r
  OBVIOUS
<1> HIDE DEF q, r
<1>2. n # 0 => q < n
  <2>1. CASE q = 0
    BY <2>1
  <2>2. CASE q # 0
    <3>1. d * q >= 2 * q /\ 2 * q > q
      BY <1>1, <2>2
    <3>2. d * q \in Nat
      BY <1>1
    <3>3. QED
      BY <1>1, <3>1, <3>2
  <2>3. QED
    BY <2>1, <2>2
<1>3. q = 0 => r = n /\ n < d
  BY <1>1
<1>4. QED
  BY <1>1, <1>2, <1>3 DEF q, r

\* A text for every number, its last glyph behind the text of the quotient.
Digital(f, d, N, first, glyph) ==
    f = [n \in 0 .. N |-> IF n \div d = 0 THEN first[n]
                          ELSE Append(f[n \div d], glyph[n % d])]

\* The recursion of printHex, printPointer and the loop of printInt ends.
LEMMA DigitRecursion ==
    ASSUME NEW d \in Nat, d >= 2, NEW N \in Nat, NEW first, NEW glyph
    PROVE  \E f : Digital(f, d, N, first, glyph)
<1> DEFINE B(f, n) == IF n \div d = 0 THEN first[n] ELSE Append(f[n \div d], glyph[n % d])
           S == {k \in Nat : \E f : f = [n \in 0 .. k - 1 |-> B(f, n)]}
<1>1. 0 \in S
  <2> DEFINE f == [n \in 0 .. 0 - 1 |-> 0]
  <2>1. f = [n \in 0 .. 0 - 1 |-> B(f, n)]
    OBVIOUS
  <2>2. QED
    BY <2>1
<1>2. ASSUME NEW k \in Nat, k \in S
      PROVE  k + 1 \in S
  <2>1. PICK f : f = [n \in 0 .. k - 1 |-> B(f, n)]
    BY <1>2
  <2> DEFINE g == [n \in 0 .. k |-> IF n < k THEN f[n] ELSE B(f, k)]
  <2>2. ASSUME NEW n \in 0 .. k
        PROVE  g[n] = B(g, n)
    <3>1. n \div d \in Nat /\ (n # 0 => n \div d < n)
      BY DivLess
    <3>2. n \div d # 0 => n \div d \in 0 .. k - 1 /\ n \div d \in 0 .. k
      <4>1. n # 0 => n \div d < k
        BY <3>1
      <4>2. n = 0 => n \div d = 0
        <5>1. 0 \div d \in Nat /\ 0 = d * (0 \div d) + (0 % d) /\ 0 % d \in Nat
          BY DivLess
        <5>2. d * (0 \div d) >= 2 * (0 \div d) /\ d * (0 \div d) \in Nat
          BY <5>1
        <5>3. QED
          BY <5>1, <5>2
      <4>3. QED
        BY <3>1, <4>1, <4>2
    <3>3. n \div d # 0 => g[n \div d] = f[n \div d]
      BY <3>2
    <3>4. B(g, n) = B(f, n)
      BY <3>3
    <3>5. n < k => f[n] = B(f, n)
      <4>1. n < k => n \in 0 .. k - 1
        OBVIOUS
      <4> HIDE DEF B
      <4>2. QED
        BY <2>1, <4>1
    <3> HIDE DEF B
    <3>6. QED
      BY <3>4, <3>5
  <2> HIDE DEF B
  <2>3. g = [n \in 0 .. k |-> B(g, n)]
    <3>1. g = [n \in 0 .. k |-> g[n]]
      OBVIOUS
    <3> HIDE DEF g
    <3>2. QED
      BY <2>2, <3>1
  <2>4. (k + 1) - 1 = k /\ k + 1 \in Nat
    OBVIOUS
  <2> HIDE DEF g
  <2>5. \E h : h = [n \in 0 .. (k + 1) - 1 |-> B(h, n)]
    BY <2>3, <2>4
  <2>6. QED
    BY <2>4, <2>5
<1>3. N + 1 \in S
  <2> HIDE DEF S
  <2>1. QED
    BY <1>1, <1>2, NatInd
<1>4. (N + 1) - 1 = N
  OBVIOUS
<1> HIDE DEF B
<1>5. \E f : f = [n \in 0 .. N |-> B(f, n)]
  BY <1>3, <1>4
<1>6. QED
  BY <1>5 DEF B, Digital

\* printInt's digits, digit by digit.
LEMMA DigitsDef ==
    ASSUME NEW n \in 0 .. INTMAX
    PROVE  Digits[n] = IF n \div 10 = 0 THEN <<Zero + n>>
                       ELSE Append(Digits[n \div 10], Zero + (n % 10))
<1> DEFINE B(f, k) == IF k \div 10 = 0 THEN <<Zero + k>>
                      ELSE Append(f[k \div 10], Zero + (k % 10))
           first == [k \in 0 .. INTMAX |-> <<Zero + k>>]
           glyph == [r \in 0 .. 9 |-> Zero + r]
<1>1. \E f : f = [k \in 0 .. INTMAX |-> B(f, k)]
  <2>1. INTMAX \in Nat
    BY LibcAssumption
  <2>2. PICK f : Digital(f, 10, INTMAX, first, glyph)
    <3> HIDE DEF first, glyph
    <3>1. 10 \in Nat /\ 10 >= 2
      OBVIOUS
    <3>2. QED
      BY <2>1, <3>1, DigitRecursion, Zenon
  <2>3. \A k \in 0 .. INTMAX : first[k] = <<Zero + k>> /\ glyph[k % 10] = Zero + (k % 10)
    BY <2>1
  <2> HIDE DEF first, glyph
  <2>4. f = [k \in 0 .. INTMAX |-> B(f, k)]
    BY <2>2, <2>3 DEF Digital
  <2>5. QED
    BY <2>4
<1>2. Digits = CHOOSE f : f = [k \in 0 .. INTMAX |-> B(f, k)]
  BY DEF Digits
<1> HIDE DEF B
<1>3. Digits = [k \in 0 .. INTMAX |-> B(Digits, k)]
  BY <1>1, <1>2
<1>4. Digits[n] = B(Digits, n)
  BY <1>3
<1>5. QED
  BY <1>4 DEF B

\* printHex's, and printPointer's with "0x" before them.
LEMMA HexDef ==
    ASSUME NEW v \in Word
    PROVE  /\ printHex[v] = IF v \div 16 = 0 THEN <<HexGlyph(v % 16)>>
                            ELSE Append(printHex[v \div 16], HexGlyph(v % 16))
           /\ printPointer[v] = IF v \div 16 = 0 THEN <<Zero, LetterX, HexGlyph(v % 16)>>
                                ELSE Append(printPointer[v \div 16], HexGlyph(v % 16))
<1> DEFINE B(f, k) == IF k \div 16 = 0 THEN <<HexGlyph(k % 16)>>
                      ELSE Append(f[k \div 16], HexGlyph(k % 16))
           C(f, k) == IF k \div 16 = 0 THEN <<Zero, LetterX, HexGlyph(k % 16)>>
                      ELSE Append(f[k \div 16], HexGlyph(k % 16))
           glyph == [r \in 0 .. 15 |-> HexGlyph(r)]
<1>1. WORDS - 1 \in Nat /\ Word = 0 .. WORDS - 1
  BY LibcAssumption DEF Word
<1>2. \A k \in Word : glyph[k % 16] = HexGlyph(k % 16)
  BY <1>1
<1> HIDE DEF glyph
<1>3. \E f : f = [k \in Word |-> B(f, k)]
  <2> DEFINE first == [k \in Word |-> <<HexGlyph(k % 16)>>]
  <2>1. \A k \in Word : first[k] = <<HexGlyph(k % 16)>>
    OBVIOUS
  <2> HIDE DEF first
  <2>2. PICK f : Digital(f, 16, WORDS - 1, first, glyph)
    <3>1. 16 \in Nat /\ 16 >= 2
      OBVIOUS
    <3>2. QED
      BY <1>1, <3>1, DigitRecursion, Zenon
  <2>3. f = [k \in Word |-> B(f, k)]
    BY <1>1, <1>2, <2>1, <2>2 DEF Digital
  <2>4. QED
    BY <2>3
<1>4. \E f : f = [k \in Word |-> C(f, k)]
  <2> DEFINE first == [k \in Word |-> <<Zero, LetterX, HexGlyph(k % 16)>>]
  <2>1. \A k \in Word : first[k] = <<Zero, LetterX, HexGlyph(k % 16)>>
    OBVIOUS
  <2> HIDE DEF first
  <2>2. PICK f : Digital(f, 16, WORDS - 1, first, glyph)
    <3>1. 16 \in Nat /\ 16 >= 2
      OBVIOUS
    <3>2. QED
      BY <1>1, <3>1, DigitRecursion, Zenon
  <2>3. f = [k \in Word |-> C(f, k)]
    BY <1>1, <1>2, <2>1, <2>2 DEF Digital
  <2>4. QED
    BY <2>3
<1>5. printHex = CHOOSE f : f = [k \in Word |-> B(f, k)]
  BY DEF printHex
<1>6. printPointer = CHOOSE f : f = [k \in Word |-> C(f, k)]
  BY DEF printPointer
<1> HIDE DEF B, C
<1>7. printHex = [k \in Word |-> B(printHex, k)]
  BY <1>3, <1>5
<1>8. printPointer = [k \in Word |-> C(printPointer, k)]
  BY <1>4, <1>6
<1>9. printHex[v] = B(printHex, v) /\ printPointer[v] = C(printPointer, v)
  BY <1>7, <1>8
<1>10. QED
  BY <1>9 DEF B, C

-----------------------------------------------------------------------------
(* What a text is worth.                                                   *)

\* Value reads a text glyph by glyph.
LEMMA ValueDef ==
    ASSUME NEW base, NEW text \in Seq(Nat)
    PROVE  \E f : /\ Value(base, text) = f[Len(text)] /\ f[0] = 0
                  /\ \A i \in 1 .. Len(text) : f[i] = f[i - 1] * base + Worth(text[i])
<1> DEFINE B(f, i) == IF i = 0 THEN 0 ELSE f[i - 1] * base + Worth(text[i])
           S == {k \in Nat : \E f : f = [i \in 0 .. k |-> B(f, i)]}
<1>1. 0 \in S
  <2> DEFINE f == [i \in 0 .. 0 |-> 0]
  <2>1. f = [i \in 0 .. 0 |-> B(f, i)]
    OBVIOUS
  <2>2. QED
    BY <2>1
<1>2. ASSUME NEW k \in Nat, k \in S
      PROVE  k + 1 \in S
  <2>1. PICK f : f = [i \in 0 .. k |-> B(f, i)]
    BY <1>2
  <2> DEFINE g == [i \in 0 .. k + 1 |-> IF i <= k THEN f[i] ELSE B(f, k + 1)]
  <2>2. ASSUME NEW i \in 0 .. k + 1
        PROVE  g[i] = B(g, i)
    <3>1. i # 0 => i - 1 \in 0 .. k /\ i - 1 \in 0 .. k + 1 /\ i - 1 <= k
      OBVIOUS
    <3>2. i # 0 => g[i - 1] = f[i - 1]
      BY <3>1
    <3>3. B(g, i) = B(f, i)
      BY <3>2
    <3>4. i <= k => f[i] = B(f, i)
      <4>1. i <= k => i \in 0 .. k
        OBVIOUS
      <4> HIDE DEF B
      <4>2. QED
        BY <2>1, <4>1
    <3>5. ~ (i <= k) => i = k + 1
      OBVIOUS
    <3> HIDE DEF B
    <3>6. QED
      BY <3>3, <3>4, <3>5
  <2> HIDE DEF B
  <2>3. g = [i \in 0 .. k + 1 |-> B(g, i)]
    <3>1. g = [i \in 0 .. k + 1 |-> g[i]]
      OBVIOUS
    <3> HIDE DEF g
    <3>2. QED
      BY <2>2, <3>1
  <2> HIDE DEF g
  <2>4. QED
    BY <2>3
<1>3. Len(text) \in S
  <2> HIDE DEF S
  <2>1. Len(text) \in Nat
    BY LenProperties
  <2>2. QED
    BY <1>1, <1>2, <2>1, NatInd
<1> DEFINE f == CHOOSE f : f = [i \in 0 .. Len(text) |-> B(f, i)]
<1>4. Value(base, text) = f[Len(text)]
  BY DEF Value
<1>5. f = [i \in 0 .. Len(text) |-> B(f, i)]
  <2> HIDE DEF B
  <2>1. \E h : h = [i \in 0 .. Len(text) |-> B(h, i)]
    BY <1>3
  <2>2. QED
    BY <2>1
<1> HIDE DEF f
<1>6. Len(text) \in Nat
  BY LenProperties
<1>7. \A i \in 0 .. Len(text) : f[i] = B(f, i)
  <2> HIDE DEF B
  <2>1. QED
    BY <1>5
<1>8. f[0] = 0 /\ \A i \in 1 .. Len(text) : f[i] = f[i - 1] * base + Worth(text[i])
  BY <1>6, <1>7
<1>9. QED
  BY <1>4, <1>8

\* One glyph more.
LEMMA ValueAppend ==
    ASSUME NEW base, NEW text \in Seq(Nat), NEW g \in Nat
    PROVE  Value(base, Append(text, g)) = Value(base, text) * base + Worth(g)
<1> DEFINE n == Len(text)
           more == Append(text, g)
<1>1. n \in Nat /\ more \in Seq(Nat) /\ Len(more) = n + 1 /\ more[n + 1] = g
      /\ \A i \in 1 .. n : more[i] = text[i]
  BY AppendProperties, LenProperties
<1> HIDE DEF n, more
<1>2. PICK f : /\ Value(base, text) = f[n] /\ f[0] = 0
               /\ \A i \in 1 .. n : f[i] = f[i - 1] * base + Worth(text[i])
  BY ValueDef DEF n
<1>3. PICK h : /\ Value(base, more) = h[n + 1] /\ h[0] = 0
               /\ \A i \in 1 .. n + 1 : h[i] = h[i - 1] * base + Worth(more[i])
  <2>1. PICK h : /\ Value(base, more) = h[Len(more)] /\ h[0] = 0
                 /\ \A i \in 1 .. Len(more) : h[i] = h[i - 1] * base + Worth(more[i])
    BY <1>1, ValueDef
  <2>2. QED
    BY <1>1, <2>1
<1> DEFINE S == {i \in Nat : i <= n => f[i] = h[i]}
<1>4. 0 \in S
  BY <1>2, <1>3
<1>5. ASSUME NEW i \in Nat, i \in S
      PROVE  i + 1 \in S
  <2>1. SUFFICES ASSUME i + 1 <= n PROVE f[i + 1] = h[i + 1]
    OBVIOUS
  <2>2. f[i] = h[i] /\ i + 1 \in 1 .. n /\ i + 1 \in 1 .. n + 1 /\ (i + 1) - 1 = i
    BY <1>1, <1>5, <2>1
  <2>3. f[i + 1] = f[i] * base + Worth(text[i + 1])
    BY <1>2, <2>2
  <2>4. h[i + 1] = h[i] * base + Worth(more[i + 1])
    BY <1>3, <2>2
  <2>5. QED
    BY <1>1, <2>2, <2>3, <2>4
<1>6. n \in S
  <2> HIDE DEF S
  <2>1. QED
    BY <1>1, <1>4, <1>5, NatInd
<1>7. h[n + 1] = h[n] * base + Worth(g)
  <2>1. n + 1 \in 1 .. n + 1 /\ (n + 1) - 1 = n
    BY <1>1
  <2>2. QED
    BY <1>1, <1>3, <2>1
<1>8. f[n] = h[n]
  BY <1>1, <1>6
<1>9. QED
  BY <1>2, <1>3, <1>7, <1>8 DEF more

\* A text of one glyph.
LEMMA ValueOne ==
    ASSUME NEW base \in Nat, NEW g \in Nat
    PROVE  Value(base, <<g>>) = Worth(g)
<1> DEFINE text == <<g>>
<1>1. text \in Seq(Nat) /\ Len(text) = 1 /\ text[1] = g
  OBVIOUS
<1> HIDE DEF text
<1>2. PICK f : /\ Value(base, text) = f[Len(text)] /\ f[0] = 0
               /\ \A i \in 1 .. Len(text) : f[i] = f[i - 1] * base + Worth(text[i])
  BY <1>1, ValueDef
<1>3. Value(base, text) = 0 * base + Worth(g)
  BY <1>1, <1>2
<1>4. Worth(g) \in Int
  BY LibcAssumption DEF Worth, Zero, LetterA
<1>5. QED
  BY <1>3, <1>4 DEF text

\* A text is the numeral of n: read in the base it is n, and a zero does not
\* lead it.
Numeral(base, text, n) ==
    /\ text \in Seq(Nat) /\ text # <<>>
    /\ Value(base, text) = n
    /\ text[1] = Zero => n = 0 /\ Len(text) = 1

\* A numeral of one digit.
LEMMA NumeralOne ==
    ASSUME NEW base \in Nat, NEW g \in Nat, g = Zero => Worth(g) = 0
    PROVE  Numeral(base, <<g>>, Worth(g))
<1>1. <<g>> \in Seq(Nat) /\ <<g>> # <<>> /\ Len(<<g>>) = 1 /\ <<g>>[1] = g
  OBVIOUS
<1>2. QED
  BY <1>1, ValueOne DEF Numeral

\* A digit behind a numeral.
LEMMA NumeralMore ==
    ASSUME NEW base \in Nat, NEW text, NEW q \in Nat \ {0}, Numeral(base, text, q), NEW g \in Nat
    PROVE  Numeral(base, Append(text, g), base * q + Worth(g))
<1>1. text \in Seq(Nat) /\ text # <<>> /\ Value(base, text) = q /\ text[1] # Zero
  BY DEF Numeral
<1> DEFINE more == Append(text, g)
<1>2. more \in Seq(Nat) /\ more # <<>> /\ more[1] = text[1]
  <2>1. Len(text) \in Nat /\ Len(text) # 0
    BY <1>1
  <2>2. more \in Seq(Nat) /\ Len(more) = Len(text) + 1 /\ \A i \in 1 .. Len(text) : more[i] = text[i]
    BY <1>1, AppendProperties
  <2>3. 1 \in 1 .. Len(text)
    BY <2>1
  <2> HIDE DEF more
  <2>4. more # <<>>
    BY <2>1, <2>2
  <2>5. QED
    BY <2>2, <2>3, <2>4
<1>3. Value(base, more) = q * base + Worth(g)
  BY <1>1, ValueAppend
<1>4. q * base = base * q
  OBVIOUS
<1> HIDE DEF more
<1>5. QED
  BY <1>1, <1>2, <1>3, <1>4 DEF Numeral, more

\* The glyphs of the digits.
LEMMA Glyphs ==
    /\ \A r \in 0 .. 9 : /\ Zero + r \in Nat /\ Worth(Zero + r) = r
                         /\ Zero + r = Zero => r = 0
    /\ \A r \in 0 .. 15 : /\ HexGlyph(r) \in Nat /\ Worth(HexGlyph(r)) = r
                          /\ HexGlyph(r) = Zero => r = 0
<1>1. \A r \in 0 .. 9 : /\ Zero + r \in Nat /\ Worth(Zero + r) = r
                        /\ Zero + r = Zero => r = 0
  BY DEF Zero, LetterA, Worth
<1>2. ASSUME NEW r \in 0 .. 9 PROVE HexGlyph(r) = Zero + r
  BY DEF HexGlyph
<1>3. ASSUME NEW r \in 10 .. 15 PROVE HexGlyph(r) = LetterA + (r - 10)
  <2>1. ~ (r \div 10 < 1) /\ r % 10 = r - 10
    OBVIOUS
  <2>2. QED
    BY <2>1 DEF HexGlyph
<1>4. \A r \in 10 .. 15 : /\ HexGlyph(r) \in Nat /\ Worth(HexGlyph(r)) = r
                          /\ HexGlyph(r) # Zero
  BY <1>3 DEF Zero, LetterA, Worth
<1>5. \A r \in 0 .. 15 : r \in 0 .. 9 \/ r \in 10 .. 15
  OBVIOUS
<1>6. QED
  BY <1>1, <1>2, <1>4, <1>5

\* printInt (printf.c:165-194) prints the decimal numeral of every int that is
\* not negative.
THEOREM Decimal == \A n \in 0 .. INTMAX : Numeral(10, Digits[n], n)
<1> DEFINE S == {k \in Nat : \A n \in 0 .. INTMAX : n < k => Numeral(10, Digits[n], n)}
<1>1. 0 \in S
  OBVIOUS
<1>2. ASSUME NEW k \in Nat, k \in S
      PROVE  k + 1 \in S
  <2>1. SUFFICES ASSUME k \in 0 .. INTMAX PROVE Numeral(10, Digits[k], k)
    BY <1>2
  <2> DEFINE q == k \div 10
             r == k % 10
  <2>2. /\ q \in Nat /\ r \in 0 .. 9 /\ k = 10 * q + r
        /\ (k # 0 => q < k) /\ (q = 0 => r = k)
    OBVIOUS
  <2>3. Digits[k] = IF q = 0 THEN <<Zero + k>> ELSE Append(Digits[q], Zero + r)
    BY <2>1, DigitsDef
  <2> HIDE DEF q, r
  <2>4. Zero + r \in Nat /\ Worth(Zero + r) = r /\ (Zero + r = Zero => r = 0)
    BY <2>2, Glyphs
  <2>5. CASE q = 0
    <3>1. Digits[k] = <<Zero + r>> /\ r = k
      BY <2>2, <2>3, <2>5
    <3>2. Numeral(10, <<Zero + r>>, Worth(Zero + r))
      BY <2>4, NumeralOne
    <3>3. QED
      BY <2>4, <3>1, <3>2
  <2>6. CASE q # 0
    <3>1. Digits[k] = Append(Digits[q], Zero + r)
      BY <2>3, <2>6
    <3>2. q \in 0 .. INTMAX /\ q < k
      BY <2>1, <2>2, <2>6, LibcAssumption
    <3>3. Numeral(10, Digits[q], q)
      BY <1>2, <3>2
    <3>4. Numeral(10, Append(Digits[q], Zero + r), 10 * q + Worth(Zero + r))
      BY <2>2, <2>4, <2>6, <3>3, NumeralMore
    <3>5. QED
      BY <2>2, <2>4, <3>1, <3>4
  <2>7. QED
    BY <2>5, <2>6
<1>3. Nat \subseteq S
  <2> HIDE DEF S
  <2>1. QED
    BY <1>1, <1>2, NatInd
<1>4. \A n \in 0 .. INTMAX : n + 1 \in Nat /\ n < n + 1
  BY LibcAssumption
<1>5. QED
  BY <1>3, <1>4

\* printHex (printf.c:60-89) prints the hexadecimal numeral of every word, and
\* printPointer (printf.c:28-59) the same behind "0x".
THEOREM Hexadecimal ==
    \A v \in Word : /\ Numeral(16, printHex[v], v)
                    /\ printPointer[v] = <<Zero, LetterX>> \o printHex[v]
<1> DEFINE P(v) == /\ Numeral(16, printHex[v], v)
                   /\ printPointer[v] = <<Zero, LetterX>> \o printHex[v]
           S == {k \in Nat : \A v \in Word : v < k => P(v)}
<1>1. 0 \in S
  BY LibcAssumption DEF Word
<1>2. ASSUME NEW k \in Nat, k \in S
      PROVE  k + 1 \in S
  <2>1. SUFFICES ASSUME k \in Word PROVE P(k)
    <3> HIDE DEF P
    <3>1. \A v \in Word : v < k + 1 => v < k \/ v = k
      BY LibcAssumption DEF Word
    <3>2. QED
      BY <1>2, <2>1, <3>1
  <2> DEFINE q == k \div 16
             r == k % 16
  <2>2. /\ q \in Nat /\ r \in 0 .. 15 /\ k = 16 * q + r
        /\ (k # 0 => q < k) /\ (q = 0 => r = k)
    OBVIOUS
  <2>3. /\ printHex[k] = IF q = 0 THEN <<HexGlyph(r)>> ELSE Append(printHex[q], HexGlyph(r))
        /\ printPointer[k] = IF q = 0 THEN <<Zero, LetterX, HexGlyph(r)>>
                             ELSE Append(printPointer[q], HexGlyph(r))
    BY <2>1, HexDef
  <2> HIDE DEF q, r
  <2> DEFINE g == HexGlyph(r)
  <2>4. g \in Nat /\ Worth(g) = r /\ (g = Zero => r = 0)
    BY <2>2, Glyphs
  <2> HIDE DEF g
  <2>5. CASE q = 0
    <3>1. printHex[k] = <<g>> /\ printPointer[k] = <<Zero, LetterX, g>> /\ r = k
      BY <2>2, <2>3, <2>5 DEF g
    <3>2. Numeral(16, <<g>>, Worth(g))
      BY <2>4, NumeralOne
    <3>3. <<Zero, LetterX, g>> = <<Zero, LetterX>> \o <<g>>
      OBVIOUS
    <3>4. QED
      BY <2>4, <3>1, <3>2, <3>3
  <2>6. CASE q # 0
    <3>1. printHex[k] = Append(printHex[q], g) /\ printPointer[k] = Append(printPointer[q], g)
      BY <2>3, <2>6 DEF g
    <3>2. q \in Word /\ q < k
      BY <2>1, <2>2, <2>6, LibcAssumption DEF Word
    <3>3. Numeral(16, printHex[q], q) /\ printPointer[q] = <<Zero, LetterX>> \o printHex[q]
      BY <1>2, <3>2
    <3>4. Numeral(16, Append(printHex[q], g), 16 * q + Worth(g))
      BY <2>2, <2>4, <2>6, <3>3, NumeralMore
    <3>5. Append(<<Zero, LetterX>> \o printHex[q], g) = <<Zero, LetterX>> \o Append(printHex[q], g)
      <4> DEFINE t == printHex[q]
      <4>1. t \in Seq(Nat) /\ <<Zero, LetterX>> \in Seq(Nat)
        BY <3>3 DEF Numeral, Zero, LetterX
      <4> HIDE DEF t
      <4>2. Append(<<Zero, LetterX>> \o t, g) = <<Zero, LetterX>> \o Append(t, g)
        BY <2>4, <4>1
      <4>3. QED
        BY <4>2 DEF t
    <3>6. QED
      BY <2>2, <2>4, <3>1, <3>3, <3>4, <3>5
  <2>7. QED
    BY <2>5, <2>6
<1>3. Nat \subseteq S
  <2> HIDE DEF S
  <2>1. QED
    BY <1>1, <1>2, NatInd
<1>4. \A v \in Word : v + 1 \in Nat /\ v < v + 1
  BY LibcAssumption DEF Word
<1>5. QED
  BY <1>3, <1>4

-----------------------------------------------------------------------------
(* What printf stores of a single conversion.                              *)

\* The conversion of the first argument, and nothing else.
LEMMA SingleStored ==
    ASSUME NEW fmt \in Seq(Nat), NEW args, Single(fmt), Converted(fmt[2], Head(args)) \in Seq(Nat)
    PROVE  Formatted(fmt, args) = Converted(fmt[2], Head(args))
<1> DEFINE Converts(i) == i > 1 /\ fmt[i - 1] = Percent /\ fmt[i] \in Conversions
           B(after, i) ==
               IF i = 0 THEN [out |-> <<>>, args |-> args]
               ELSE IF Converts(i)
               THEN [out |-> after[i - 1].out \o Converted(fmt[i], Head(after[i - 1].args)),
                     args |-> Tail(after[i - 1].args)]
               ELSE IF fmt[i] = Percent THEN after[i - 1]
               ELSE [after[i - 1] EXCEPT !.out = Append(@, fmt[i])]
           after == CHOOSE f : f = [i \in 0 .. Len(fmt) |-> B(f, i)]
<1>1. Formatted(fmt, args) = after[Len(fmt)].out
  BY DEF Formatted
<1>2. Len(fmt) = 2 /\ fmt[1] = Percent /\ fmt[2] \in Conversions
  BY DEF Single
<1>3. \E f : f = [i \in 0 .. Len(fmt) |-> B(f, i)]
  <2> DEFINE a == [out |-> <<>>, args |-> args]
             c == [out |-> a.out \o Converted(fmt[2], Head(a.args)), args |-> Tail(a.args)]
             f == [i \in 0 .. 2 |-> IF i \in {0, 1} THEN a ELSE c]
  <2>1. f[0] = a /\ f[1] = a /\ f[2] = c
    OBVIOUS
  <2>2. B(f, 0) = a
    OBVIOUS
  <2> HIDE DEF f
  <2>3. B(f, 1) = a
    <3>1. ~ Converts(1) /\ 1 # 0 /\ 1 - 1 = 0
      OBVIOUS
    <3>2. QED
      BY <1>2, <2>1, <3>1
  <2>4. B(f, 2) = c
    <3>1. Converts(2) /\ 2 # 0 /\ 2 - 1 = 1
      BY <1>2
    <3>2. QED
      BY <2>1, <3>1
  <2> HIDE DEF a, c, B
  <2>5. \A i \in 0 .. 2 : f[i] = B(f, i)
    <3>1. \A i \in 0 .. 2 : i = 0 \/ i = 1 \/ i = 2
      OBVIOUS
    <3>2. QED
      BY <2>1, <2>2, <2>3, <2>4, <3>1
  <2>6. f = [i \in 0 .. 2 |-> B(f, i)]
    <3>1. f = [i \in 0 .. 2 |-> f[i]]
      BY DEF f
    <3>2. QED
      BY <2>5, <3>1
  <2>7. QED
    BY <1>2, <2>6
<1>4. after = [i \in 0 .. 2 |-> B(after, i)]
  <2> HIDE DEF B
  <2>1. QED
    BY <1>2, <1>3
<1> HIDE DEF after
<1>5. after[0] = B(after, 0) /\ after[1] = B(after, 1) /\ after[2] = B(after, 2)
  <2>1. 0 \in 0 .. 2 /\ 1 \in 0 .. 2 /\ 2 \in 0 .. 2
    OBVIOUS
  <2> HIDE DEF B
  <2>2. ASSUME NEW i \in 0 .. 2 PROVE after[i] = B(after, i)
    BY <1>4, Zenon
  <2>3. QED
    BY <2>1, <2>2, Zenon
<1>6. after[0] = [out |-> <<>>, args |-> args]
  BY <1>5
<1>7. after[1] = after[0]
  <2>1. ~ Converts(1) /\ 1 # 0 /\ 1 - 1 = 0
    OBVIOUS
  <2>2. QED
    BY <1>2, <1>5, <2>1
<1>8. after[2].out = after[1].out \o Converted(fmt[2], Head(after[1].args))
  <2>1. Converts(2) /\ 2 # 0 /\ 2 - 1 = 1
    BY <1>2
  <2> DEFINE c == after[1].out \o Converted(fmt[2], Head(after[1].args))
  <2>2. B(after, 2) = [out |-> c, args |-> Tail(after[1].args)]
    BY <2>1
  <2> HIDE DEF B, c
  <2>3. after[2] = [out |-> c, args |-> Tail(after[1].args)]
    BY <1>5, <2>2, Zenon
  <2>4. after[2].out = c
    BY <2>3
  <2>5. QED
    BY <2>4 DEF c
<1>9. after[2].out = <<>> \o Converted(fmt[2], Head(args))
  BY <1>6, <1>7, <1>8
<1>10. QED
  BY <1>1, <1>2, <1>9, ConcatEmptySeq

\* Two glyphs before a text, and the text behind them.
LEMMA Stripped ==
    ASSUME NEW x \in Seq(Nat), Len(x) = 2, NEW text \in Seq(Nat)
    PROVE  LET more == x \o text
           IN  /\ more \in Seq(Nat) /\ SubSeq(more, 1, 2) = x
               /\ SubSeq(more, 3, Len(more)) = text
<1> DEFINE more == x \o text
<1>1. /\ more \in Seq(Nat) /\ Len(more) = Len(x) + Len(text)
      /\ \A i \in 1 .. Len(x) + Len(text) :
            more[i] = IF i <= Len(x) THEN x[i] ELSE text[i - Len(x)]
  BY ConcatProperties
<1>2. Len(text) \in Nat
  BY LenProperties
<1> HIDE DEF more
<1>3. SubSeq(more, 1, 2) = [i \in 1 .. 2 |-> more[i]]
  BY <1>1, <1>2
<1>4. x = [i \in 1 .. 2 |-> x[i]]
  BY LenProperties
<1>5. \A i \in 1 .. 2 : more[i] = x[i]
  BY <1>1, <1>2
<1>6. SubSeq(more, 3, Len(more)) = [i \in 1 .. Len(text) |-> more[i + 2]]
  BY <1>1, <1>2
<1>7. text = [i \in 1 .. Len(text) |-> text[i]]
  BY LenProperties
<1>8. ASSUME NEW i \in 1 .. Len(text) PROVE more[i + 2] = text[i]
  <2>1. i + 2 \in 1 .. Len(x) + Len(text) /\ ~ (i + 2 <= Len(x)) /\ (i + 2) - Len(x) = i
    BY <1>2
  <2>2. QED
    BY <1>1, <2>1
<1>9. SubSeq(more, 1, 2) = x
  BY <1>3, <1>4, <1>5
<1>10. SubSeq(more, 3, Len(more)) = text
  BY <1>6, <1>7, <1>8
<1>11. QED
  BY <1>1, <1>9, <1>10 DEF more

\* The numbers of all three conversions.
LEMMA NumbersExact ==
    ASSUME NEW arg \in Word
    PROVE  /\ arg \in 0 .. INTMAX =>
                 /\ Converted(LetterD, arg) \in Seq(Nat)
                 /\ Exact(10, Converted(LetterD, arg), arg)
           /\ Wrapped(Low(arg)) = arg =>
                 /\ Converted(LetterX, arg) \in Seq(Nat)
                 /\ Exact(16, Converted(LetterX, arg), arg)
                 /\ Converted(LetterP, arg) \in Seq(Nat)
                 /\ SubSeq(Converted(LetterP, arg), 1, 2) = <<Zero, LetterX>>
                 /\ Exact(16, SubSeq(Converted(LetterP, arg), 3, Len(Converted(LetterP, arg))), arg)
<1>1. ASSUME NEW base, NEW text, NEW n, Numeral(base, text, n)
      PROVE  text \in Seq(Nat) /\ Exact(base, text, n)
  <2>1. text \in Seq(Nat) /\ Value(base, text) = n /\ (text[1] = Zero => Len(text) = 1)
    BY <1>1 DEF Numeral
  <2>2. Len(text) > 1 => text[1] # Zero
    <3>1. Len(text) > 1 => Len(text) # 1
      <4> DEFINE k == Len(text)
      <4>1. k \in Nat
        BY <2>1, LenProperties
      <4> HIDE DEF k
      <4>2. k > 1 => k # 1
        BY <4>1
      <4>3. QED
        BY <4>2 DEF k
    <3>2. QED
      BY <2>1, <3>1, Zenon
  <2>3. QED
    BY <2>1, <2>2, Zenon DEF Exact
<1>2. ASSUME arg \in 0 .. INTMAX
      PROVE  Converted(LetterD, arg) = Digits[arg]
  <2>1. Low(arg) = arg
    <3>1. INTMAX \in Nat
      BY LibcAssumption
    <3>2. arg % (2 * (INTMAX + 1)) = arg
      BY <1>2, <3>1
    <3>3. QED
      BY <1>2, <3>1, <3>2 DEF Low, ToInt
  <2>2. Converted(LetterD, arg) = printInt(Low(arg))
    BY DEF Converted, LetterC, LetterS, LetterD, LetterX, LetterP
  <2>3. QED
    BY <1>2, <2>1, <2>2 DEF printInt
<1>3. ASSUME Wrapped(Low(arg)) = arg
      PROVE  Converted(LetterX, arg) = printHex[arg] /\ Converted(LetterP, arg) = printPointer[arg]
  BY <1>3 DEF Converted, LetterC, LetterS, LetterD, LetterX, LetterP
<1>4. ASSUME NEW text \in Seq(Nat)
      PROVE  LET more == <<Zero, LetterX>> \o text
             IN  /\ more \in Seq(Nat) /\ SubSeq(more, 1, 2) = <<Zero, LetterX>>
                 /\ SubSeq(more, 3, Len(more)) = text
  <2>1. <<Zero, LetterX>> \in Seq(Nat) /\ Len(<<Zero, LetterX>>) = 2
    BY DEF Zero, LetterX
  <2>2. QED
    BY <2>1, Stripped, Zenon
<1>5. arg \in 0 .. INTMAX => /\ Converted(LetterD, arg) \in Seq(Nat)
                             /\ Exact(10, Converted(LetterD, arg), arg)
  BY <1>1, <1>2, Decimal
<1>6. ASSUME Wrapped(Low(arg)) = arg
      PROVE  /\ Converted(LetterX, arg) \in Seq(Nat)
             /\ Exact(16, Converted(LetterX, arg), arg)
             /\ Converted(LetterP, arg) \in Seq(Nat)
             /\ SubSeq(Converted(LetterP, arg), 1, 2) = <<Zero, LetterX>>
             /\ Exact(16, SubSeq(Converted(LetterP, arg), 3, Len(Converted(LetterP, arg))), arg)
  <2>1. Numeral(16, printHex[arg], arg) /\ printPointer[arg] = <<Zero, LetterX>> \o printHex[arg]
    BY Hexadecimal
  <2>2. printHex[arg] \in Seq(Nat) /\ Exact(16, printHex[arg], arg)
    BY <1>1, <2>1
  <2>3. QED
    BY <1>3, <1>4, <1>6, <2>1, <2>2
<1>7. QED
  BY <1>5, <1>6

\* Every number printf printed reads back as the number that was passed, for
\* every size of int and word: the digits are complete and in order, and what
\* a program sees goes wrong only for negative ints and words that are cut.
THEOREM NumbersReadBack == Spec => []ReadsBack
<1> DEFINE PInv ==
        \/ last = NoNumber
        \/ \E call \in Calls :
              /\ Single(call.fmt)
              /\ last = [conv |-> call.fmt[2], arg |-> call.args[1],
                         text |-> Formatted(call.fmt, call.args)]
<1>1. Init => PInv
  BY DEF Init
<1>2. PInv /\ [Next]_vars => PInv'
  <2> SUFFICES ASSUME PInv, [Next]_vars PROVE PInv'
    OBVIOUS
  <2>1. CASE \E call \in Calls : Printed(call.fmt, call.args)
    BY <2>1 DEF Printed
  <2>2. CASE last' = NoNumber
    BY <2>2
  <2>3. CASE last' = last
    BY <2>3
  <2>4. ~ Single(<<NoMemory>>)
    BY DEF Single
  <2> QED
    BY <2>1, <2>2, <2>3, <2>4 DEF Next, vars, printfVars, mallocGives, mallocRefuses,
                                  mallocNegative, printf, Printed
<1>3. PInv => ReadsBack
  <2>1. CASE last = NoNumber
    BY <2>1 DEF NoNumber, ReadsBack, NUL, LetterD, LetterX, LetterP
  <2>2. ASSUME NEW call \in Calls, Single(call.fmt),
               last = [conv |-> call.fmt[2], arg |-> call.args[1],
                       text |-> Formatted(call.fmt, call.args)]
        PROVE  ReadsBack
    <3> DEFINE fmt == call.fmt
               args == call.args
               arg == args[1]
               text == Formatted(fmt, args)
    <3>1. fmt \in Seq(Nat) /\ args \in Seq(Word) /\ args # <<>>
      BY <2>2, CallsAssumption
    <3>2. Head(args) = arg /\ arg \in Word
      BY <3>1, HeadTailProperties
    <3>3. last.conv = fmt[2] /\ last.arg = arg /\ last.text = text
      BY <2>2
    <3>4. Converted(fmt[2], arg) \in Seq(Nat) => text = Converted(fmt[2], arg)
      <4> HIDE DEF arg
      <4>1. QED
        BY <2>2, <3>1, <3>2, SingleStored
    <3> HIDE DEF fmt, args, arg, text
    <3>5. last.conv = LetterD /\ last.arg \in 0 .. INTMAX => Exact(10, last.text, last.arg)
      BY <3>2, <3>3, <3>4, NumbersExact
    <3>6. last.conv = LetterX /\ Wrapped(Low(last.arg)) = last.arg =>
              Exact(16, last.text, last.arg)
      BY <3>2, <3>3, <3>4, NumbersExact
    <3>7. last.conv = LetterP /\ Wrapped(Low(last.arg)) = last.arg =>
              /\ SubSeq(last.text, 1, 2) = <<Zero, LetterX>>
              /\ Exact(16, SubSeq(last.text, 3, Len(last.text)), last.arg)
      BY <3>2, <3>3, <3>4, NumbersExact
    <3>8. QED
      BY <3>5, <3>6, <3>7 DEF ReadsBack
  <2>3. QED
    BY <2>1, <2>2
<1> HIDE DEF PInv
<1>4. QED
  BY <1>1, <1>2, <1>3, PTL DEF Spec

-----------------------------------------------------------------------------
(* The shell that runs on this libc (module Shell), for every set of files *)
(* and lines and every room for path and PS1.  The memory of envvars holds *)
(* a string when its characters lie there with the first NUL behind them;  *)
(* a copy or an append that stays in its room makes the new string and     *)
(* leaves the other one.  Where a script stands is told by what is left of *)
(* its lines: the commands done since the shebang, the one being done and  *)
(* the rest are the lines of the file.                                     *)

\* The memory holds the string there.
HoldsText(e, at, s) ==
    /\ s \in Seq(STRING) /\ at \in Nat /\ at + Len(s) \in Cells
    /\ \A i \in 1 .. Len(s) : s[i] # EndMark /\ e[at + (i - 1)] = s[i]
    /\ e[at + Len(s)] = EndMark

\* path and PS1 hold what was exported, as long as no copy for path went
\* beyond its cells.
TypesOfExports == /\ DOMAIN exported = {"path", "ps1", "reach"}
                  /\ exported = [part \in DOMAIN exported |-> exported[part]]
                  /\ exported.path \in Seq(STRING)
                  /\ \A i \in 1 .. Len(exported.path) : exported.path[i] # EndMark
                  /\ IsValue(exported.ps1)
                  /\ exported.reach \in Nat /\ Len(exported.path) <= exported.reach
EnvInv ==
    /\ TypesOfExports
    /\ exported.reach < PATHCAP =>
           /\ HoldsText(env, Path, exported.path)
           /\ HoldsText(env, PS1, Letters[exported.ps1])

\* What is left of the script is its end.
IsRest == /\ Len(script) <= Len(source)
          /\ \A i \in 1 .. Len(script) :
                 script[i] = source[(Len(source) - Len(script)) + i]

Busy == {"runScript", "readCat"}

\* Where a script stands.
InScript ==
    \E first \in 1 .. Len(source) :
        /\ FirstShebang(first)
        /\ Len(did) >= 1
        /\ \A i \in 2 .. Len(did) :
               did[i].tokens = tokenize_input(source[first + (i - 1)])
        /\ pc = "script" => first + (Len(did) - 1) + Len(script) = Len(source)
        /\ pc \in Busy => /\ first + Len(did) + Len(script) = Len(source)
                          /\ tokens = tokenize_input(source[first + Len(did)])
        /\ pc = "prompt" => first + (Len(did) - 1) = Len(source)

ScriptInv ==
    /\ source \in Seq(AllLines) /\ script \in Seq(AllLines)
    /\ \E X : did \in Seq(X)
    /\ pc \in {"run", "runScript"} => \E line \in AllLines : tokens = tokenize_input(line)
    /\ pc \in {"gets", "run", "readScript"} => mode = "line" /\ did = <<>>
    /\ pc = "shebang" =>
           /\ IsRest /\ mode = "line" /\ Len(did) = 1
           /\ \A i \in 1 .. Len(source) - Len(script) : source[i] # Shebang
    /\ mode = "script" => IsRest /\ InScript
    /\ mode \in {"line", "script"}
    /\ pc \in {"script", "runScript"} => mode = "script"

ShellInv == EnvInv /\ ScriptInv

-----------------------------------------------------------------------------
(* Scripts.                                                                *)

\* One command more.
LEMMA DidMore ==
    ASSUME NEW X, NEW d \in Seq(X), NEW e
    PROVE  /\ \E Y : Append(d, e) \in Seq(Y)
           /\ Len(Append(d, e)) = Len(d) + 1 /\ Len(d) \in Nat
           /\ \A i \in 1 .. Len(d) : Append(d, e)[i] = d[i]
           /\ Append(d, e)[Len(d) + 1] = e
<1> DEFINE Y == X \cup {e}
<1>1. d \in Seq(Y) /\ e \in Y
  OBVIOUS
<1>2. Append(d, e) \in Seq(Y)
  BY <1>1
<1>3. QED
  BY <1>2

\* The words of a line.
LEMMA ShellSizes ==
    ASSUME ShellConstants
    PROVE  /\ PATHCAP \in Nat /\ PS1CAP \in Nat /\ SLACK \in Nat
           /\ AllLines \subseteq Seq(STRING) /\ Lines \subseteq AllLines
           /\ \A f \in DOMAIN Files : Files[f] \in Seq(AllLines)
           /\ EndMark \in STRING /\ Semicolon \in STRING /\ Semicolon # EndMark
           /\ \A w \in Values : IsValue(w)
           /\ IsValue("rootfs") /\ IsValue("sbush")
BY DEF ShellConstants, AllLines

\* A command of a script is done: the next line is the one behind it.
LEMMA CommandDone ==
    ASSUME ScriptInv, pc \in {"run", "runScript", "readCat"}, NEW what,
           Did(what), pc' = Back, UNCHANGED <<tokens, mode, script, source>>
    PROVE  ScriptInv'
<1> DEFINE e == [tokens |-> tokens, what |-> what]
<1>1. PICK X : did \in Seq(X)
  BY DEF ScriptInv
<1>2. did' = Append(did, e) /\ e.tokens = tokens
  BY DEF Did
<1> HIDE DEF e
<1>3. /\ \E Y : did' \in Seq(Y)
      /\ Len(did') = Len(did) + 1 /\ Len(did) \in Nat
      /\ \A i \in 1 .. Len(did) : did'[i] = did[i]
      /\ did'[Len(did) + 1] = e
  BY <1>1, <1>2, DidMore
<1>4. CASE mode = "line"
  <2>1. pc' = "prompt" /\ mode' = "line"
    BY <1>4 DEF Back
  <2> QED
    BY <1>3, <2>1, Zenon DEF ScriptInv
<1>5. CASE mode = "script"
  <2>1. pc' = "script" /\ mode' = "script" /\ pc \in Busy
    BY <1>5 DEF Back, ScriptInv, Busy
  <2>2. IsRest /\ InScript /\ source \in Seq(AllLines) /\ script \in Seq(AllLines)
    BY <1>5 DEF ScriptInv
  <2>3. IsRest'
    BY <2>2, Zenon DEF IsRest
  <2>4. PICK first \in 1 .. Len(source) :
            /\ FirstShebang(first)
            /\ Len(did) >= 1
            /\ \A i \in 2 .. Len(did) :
                   did[i].tokens = tokenize_input(source[first + (i - 1)])
            /\ first + Len(did) + Len(script) = Len(source)
            /\ tokens = tokenize_input(source[first + Len(did)])
    BY <2>1, <2>2, Zenon DEF InScript
  <2>5. FirstShebang(first)'
    BY <2>4, Zenon DEF FirstShebang
  <2>6. ASSUME NEW i \in 2 .. Len(did')
        PROVE  did'[i].tokens = tokenize_input(source[first + (i - 1)])
    <3>1. CASE i = Len(did) + 1
      <4>1. i - 1 = Len(did)
        BY <1>3, <3>1
      <4>2. did'[i].tokens = tokens
        BY <1>2, <1>3, <3>1
      <4> QED
        BY <2>4, <4>1, <4>2, Zenon
    <3>2. CASE i # Len(did) + 1
      <4>1. i \in 2 .. Len(did) /\ i \in 1 .. Len(did)
        BY <1>3, <3>2
      <4>2. did'[i] = did[i]
        BY <1>3, <4>1
      <4> QED
        BY <2>4, <4>1, <4>2, Zenon
    <3> QED
      BY <3>1, <3>2
  <2>7. /\ Len(did') >= 1
        /\ first + (Len(did') - 1) + Len(script) = Len(source)
    <3>1. Len(script) \in Nat /\ Len(source) \in Nat /\ Len(did) \in Nat
      BY <1>3, <2>2
    <3> QED
      BY <1>3, <2>4, <3>1
  <2>8. pc' # "prompt" /\ pc' \notin Busy
    BY <2>1 DEF Busy
  <2>9. InScript'
    <3>1. first \in 1 .. Len(source')
      BY Zenon
    <3>2. /\ \A i \in 2 .. Len(did') :
                 did'[i].tokens = tokenize_input(source'[first + (i - 1)])
          /\ first + (Len(did') - 1) + Len(script') = Len(source')
      BY <2>6, <2>7, Zenon
    <3> QED
      BY <2>5, <2>7, <2>8, <3>1, <3>2, Zenon DEF InScript
  <2>10. QED
    BY <1>3, <2>1, <2>2, <2>3, <2>9, Zenon DEF ScriptInv
<1>6. QED
  BY <1>4, <1>5 DEF ScriptInv

\* The shell stops, sleeps or reads a line.
LEMMA CommandEnds ==
    ASSUME ScriptInv, pc \in {"run", "runScript"}, NEW how,
           how \in {"readCat", "halted", "astray", "sleeps", "exited", "forked"}
                 \/ (how = "readScript" /\ pc = "run"),
           pc' = how, UNCHANGED <<tokens, mode, script, did, source>>
    PROVE  ScriptInv'
<1>1. CASE pc = "run"
  <2>1. mode = "line" /\ did = <<>>
    BY <1>1 DEF ScriptInv
  <2>2. pc' \notin {"shebang", "run", "runScript", "script", "gets"}
    OBVIOUS
  <2>3. mode' = "line" /\ did' = <<>>
    BY <2>1
  <2>4. /\ source' \in Seq(AllLines) /\ script' \in Seq(AllLines)
        /\ \E X : did' \in Seq(X)
    BY Zenon DEF ScriptInv
  <2>5. mode' # "script"
    BY <2>3
  <2> QED
    BY <2>2, <2>3, <2>4, <2>5, Zenon DEF ScriptInv
<1>2. CASE pc = "runScript"
  <2>1. pc' \in {"readCat", "halted", "astray", "sleeps", "exited", "forked"}
    BY <1>2
  <2>2. mode = "script" /\ IsRest /\ InScript
    BY <1>2, Zenon DEF ScriptInv
  <2>3. IsRest'
    BY <2>2, Zenon DEF IsRest
  <2>4. PICK first \in 1 .. Len(source) :
            /\ FirstShebang(first)
            /\ Len(did) >= 1
            /\ \A i \in 2 .. Len(did) :
                   did[i].tokens = tokenize_input(source[first + (i - 1)])
            /\ first + Len(did) + Len(script) = Len(source)
            /\ tokens = tokenize_input(source[first + Len(did)])
    <3>1. pc \in Busy
      BY <1>2 DEF Busy
    <3> QED
      BY <2>2, <3>1, Zenon DEF InScript
  <2>5. FirstShebang(first)'
    BY <2>4, Zenon DEF FirstShebang
  <2>6. pc' # "script" /\ pc' # "prompt"
    BY <2>1
  <2>7. InScript'
    <3>1. /\ first \in 1 .. Len(source')
          /\ Len(did') >= 1
          /\ \A i \in 2 .. Len(did') :
                 did'[i].tokens = tokenize_input(source'[first + (i - 1)])
          /\ first + Len(did') + Len(script') = Len(source')
          /\ tokens' = tokenize_input(source'[first + Len(did')])
      BY <2>4, Zenon
    <3> QED
      BY <2>5, <2>6, <3>1, Zenon DEF InScript
  <2>8. pc' \notin {"shebang", "run", "runScript", "script", "gets", "readScript"}
    BY <2>1
  <2>9. mode' = "script"
    BY <2>2
  <2>10. /\ source' \in Seq(AllLines) /\ script' \in Seq(AllLines)
         /\ \E X : did' \in Seq(X)
    BY Zenon DEF ScriptInv
  <2> QED
    BY <2>3, <2>7, <2>8, <2>9, <2>10, Zenon DEF ScriptInv
<1>3. QED
  BY <1>1, <1>2

\* A file is read as a script.
LEMMA ScriptRead ==
    ASSUME ScriptInv, pc \in {"run", "readScript"},
           NEW lines \in Seq(AllLines), ReadScript(lines)
    PROVE  ScriptInv'
<1> DEFINE e == [tokens |-> tokens, what |-> lines]
<1>1. PICK X : did \in Seq(X)
  BY DEF ScriptInv
<1>2. did' = Append(did, e)
  BY DEF Did, ReadScript
<1> HIDE DEF e
<1>3. /\ \E Y : did' \in Seq(Y)
      /\ Len(did') = Len(did) + 1
  BY <1>1, <1>2, DidMore
<1>4. did = <<>> /\ mode = "line"
  BY Zenon DEF ScriptInv
<1>5. Len(did') = 1
  <2>1. Len(<<>>) = 0
    OBVIOUS
  <2> QED
    BY <1>3, <1>4, <2>1
<1>6. /\ script' = lines /\ source' = lines /\ pc' = "shebang" /\ mode' = "line"
  BY <1>4 DEF ReadScript
<1>7. IsRest' /\ Len(source') - Len(script') = 0
  BY <1>6 DEF IsRest
<1>8. \A i \in 1 .. Len(source') - Len(script') : source'[i] # Shebang
  BY <1>7
<1>9. /\ pc' \notin {"run", "runScript", "gets", "readScript", "script"}
      /\ mode' # "script"
  BY <1>6
<1>10. QED
  BY <1>3, <1>5, <1>6, <1>7, <1>8, <1>9, Zenon DEF ScriptInv

\* The head of what is left, and the rest behind it.
LEMMA HeadOfRest ==
    ASSUME source \in Seq(AllLines), script \in Seq(AllLines), IsRest, script # <<>>,
           script' = Tail(script), source' = source
    PROVE  LET p == Len(source) - Len(script)
           IN  /\ p + 1 \in 1 .. Len(source) /\ Head(script) = source[p + 1]
               /\ Len(script') = Len(script) - 1 /\ Len(script) \in Nat
               /\ Len(source) \in Nat /\ p \in Nat
               /\ script' \in Seq(AllLines) /\ IsRest'
               /\ Head(script) \in AllLines
<1> DEFINE n == Len(script)
           m == Len(source)
           p == m - n
<1>1. /\ n \in Nat /\ m \in Nat /\ n <= m
      /\ \A i \in 1 .. n : script[i] = source[p + i]
  BY DEF IsRest
<1>2. n >= 1 /\ Head(script) = script[1] /\ Head(script) \in AllLines
  OBVIOUS
<1>3. /\ script' \in Seq(AllLines) /\ Len(script') = n - 1
      /\ \A i \in 1 .. n - 1 : script'[i] = script[i + 1]
  BY <1>2
<1> HIDE DEF n, m
<1>4. p \in Nat /\ p + 1 \in 1 .. m /\ Head(script) = source[p + 1]
  BY <1>1, <1>2
<1>5. IsRest'
  <2>1. Len(script') <= Len(source')
    BY <1>1, <1>2, <1>3 DEF m
  <2>2. ASSUME NEW i \in 1 .. Len(script')
        PROVE  script'[i] = source'[(Len(source') - Len(script')) + i]
    <3>1. i \in 1 .. n - 1 /\ i + 1 \in 1 .. n
      BY <1>1, <1>3
    <3>2. script'[i] = script[i + 1] /\ script[i + 1] = source[p + (i + 1)]
      BY <1>1, <1>3, <3>1
    <3>3. (Len(source') - Len(script')) + i = p + (i + 1)
      <4>1. Len(source') = m /\ Len(script') = n - 1
        BY <1>3 DEF m
      <4>2. (m - (n - 1)) + i = (m - n) + (i + 1)
        <5>1. m \in Int /\ n \in Int /\ i \in Int
          BY <1>1, <3>1
        <5> QED
          BY <5>1
      <4> QED
        BY <4>1, <4>2, Zenon
    <3> QED
      BY <3>2, <3>3
  <2> QED
    BY <2>1, <2>2 DEF IsRest
<1>6. QED
  BY <1>1, <1>2, <1>3, <1>4, <1>5 DEF n, m

\* The search for the shebang goes on, or is over.
LEMMA FindShebangOK == ASSUME ScriptInv, FindShebang PROVE ScriptInv'
<1> DEFINE p == Len(source) - Len(script)
<1>1. /\ pc = "shebang" /\ script # <<>> /\ script' = Tail(script) /\ source' = source
      /\ did' = did
      /\ source \in Seq(AllLines) /\ script \in Seq(AllLines)
      /\ IsRest /\ mode = "line" /\ Len(did) = 1
      /\ \A i \in 1 .. p : source[i] # Shebang
  BY Zenon DEF FindShebang, ScriptInv
<1>2. /\ p + 1 \in 1 .. Len(source) /\ Head(script) = source[p + 1]
      /\ Len(script') = Len(script) - 1 /\ Len(script) \in Nat
      /\ Len(source) \in Nat /\ p \in Nat
      /\ script' \in Seq(AllLines) /\ IsRest'
  BY <1>1, HeadOfRest
<1>3. \E X : did' \in Seq(X)
  BY <1>1, Zenon DEF ScriptInv
<1>4. source' \in Seq(AllLines)
  BY <1>1
<1>5. CASE Head(script) = Shebang
  <2>1. pc' = "script" /\ mode' = "script"
    BY <1>5, Zenon DEF FindShebang
  <2>a. PICK first \in 1 .. Len(source) : first = p + 1
    BY <1>2
  <2>2. first \in 1 .. Len(source')
    BY <1>1, <1>2
  <2>3. FirstShebang(first)'
    <3>1. source[first] = Shebang
      BY <1>2, <1>5, <2>a
    <3>2. first - 1 = p
      BY <1>2, <2>a
    <3>3. \A i \in 1 .. first - 1 : source[i] # Shebang
      BY <1>1, <3>2
    <3> QED
      BY <1>1, <3>1, <3>3, Zenon DEF FirstShebang
  <2>4. Len(did') = 1 /\ Len(did') >= 1
    BY <1>1
  <2>5. \A i \in 2 .. Len(did') :
            did'[i].tokens = tokenize_input(source'[first + (i - 1)])
    BY <2>4
  <2>6. first + (Len(did') - 1) + Len(script') = Len(source')
    <3> DEFINE m == Len(source)
               n == Len(script)
    <3>1. m \in Nat /\ n \in Nat
      BY <1>2
    <3>2. Len(did') = 1 /\ Len(script') = n - 1 /\ Len(source') = m
      BY <1>1, <1>2, <2>4
    <3> HIDE DEF m, n
    <3>3. ((m - n) + 1) + (1 - 1) + (n - 1) = m
      BY <3>1
    <3> QED
      BY <2>a, <3>2, <3>3 DEF m, n
  <2>7. pc' # "prompt" /\ pc' \notin Busy
    BY <2>1 DEF Busy
  <2>8. InScript'
    BY <2>2, <2>3, <2>4, <2>5, <2>6, <2>7, Zenon DEF InScript
  <2>9. pc' \notin {"run", "runScript", "gets", "readScript", "shebang"}
    BY <2>1
  <2> QED
    BY <1>2, <1>3, <1>4, <2>1, <2>8, <2>9, Zenon DEF ScriptInv
<1>6. CASE Head(script) # Shebang
  <2>1. pc' = "shebang" /\ mode' = "line"
    BY <1>6, Zenon DEF FindShebang
  <2>2. \A i \in 1 .. Len(source') - Len(script') : source'[i] # Shebang
    <3>1. Len(source') - Len(script') = p + 1
      <4> DEFINE m == Len(source)
                 n == Len(script)
      <4>1. m \in Nat /\ n \in Nat
        BY <1>2
      <4>2. Len(script') = n - 1 /\ Len(source') = m
        BY <1>1, <1>2
      <4> HIDE DEF m, n
      <4>3. m - (n - 1) = (m - n) + 1
        BY <4>1
      <4> QED
        BY <4>2, <4>3 DEF m, n
    <3>2. ASSUME NEW i \in 1 .. p + 1 PROVE source[i] # Shebang
      <4>1. i = p + 1 \/ i \in 1 .. p
        BY <1>2
      <4> QED
        BY <1>1, <1>2, <1>6, <4>1
    <3> QED
      BY <1>1, <3>1, <3>2
  <2>3. Len(did') = 1
    BY <1>1
  <2>4. /\ pc' \notin {"run", "runScript", "gets", "readScript", "script"}
        /\ mode' # "script"
    BY <2>1
  <2> QED
    BY <1>2, <1>3, <1>4, <2>1, <2>2, <2>3, <2>4, Zenon DEF ScriptInv
<1>7. QED
  BY <1>5, <1>6

\* The next line of the script.
LEMMA NextLineOK == ASSUME ScriptInv, NextLine PROVE ScriptInv'
<1> DEFINE p == Len(source) - Len(script)
<1>1. /\ pc = "script" /\ script # <<>> /\ script' = Tail(script) /\ source' = source
      /\ did' = did /\ pc' = "runScript" /\ mode' = mode /\ mode = "script"
      /\ tokens' = tokenize_input(Head(script))
      /\ source \in Seq(AllLines) /\ script \in Seq(AllLines)
      /\ IsRest /\ InScript
  BY Zenon DEF NextLine, ScriptInv
<1>2. /\ p + 1 \in 1 .. Len(source) /\ Head(script) = source[p + 1]
      /\ Len(script') = Len(script) - 1 /\ Len(script) \in Nat
      /\ Len(source) \in Nat /\ p \in Nat
      /\ script' \in Seq(AllLines) /\ IsRest'
      /\ Head(script) \in AllLines
  BY <1>1, HeadOfRest
<1>3. PICK first \in 1 .. Len(source) :
          /\ FirstShebang(first)
          /\ Len(did) >= 1
          /\ \A i \in 2 .. Len(did) :
                 did[i].tokens = tokenize_input(source[first + (i - 1)])
          /\ first + (Len(did) - 1) + Len(script) = Len(source)
  BY <1>1, Zenon DEF InScript
<1>4. (\E X : did' \in Seq(X)) /\ Len(did) \in Nat
  <2>1. PICK X : did \in Seq(X)
    BY DEF ScriptInv
  <2> QED
    BY <1>1, <2>1
<1>5. FirstShebang(first)'
  BY <1>1, <1>3, Zenon DEF FirstShebang
<1>6. /\ first + Len(did') + Len(script') = Len(source')
      /\ first + Len(did') = p + 1
  <2> DEFINE m == Len(source)
             n == Len(script)
             d == Len(did)
  <2>1. /\ m \in Nat /\ n \in Nat /\ d \in Nat /\ first \in Nat
        /\ first + (d - 1) + n = m
    BY <1>2, <1>3, <1>4
  <2>2. Len(did') = d /\ Len(script') = n - 1 /\ Len(source') = m
    BY <1>1, <1>2
  <2> HIDE DEF m, n, d
  <2>3. first + d + (n - 1) = m /\ first + d = (m - n) + 1
    BY <2>1
  <2> QED
    BY <2>2, <2>3 DEF m, n
<1>7. tokens' = tokenize_input(source'[first + Len(did')])
  <2>1. source[first + Len(did')] = Head(script)
    BY <1>2, <1>6
  <2> QED
    BY <1>1, <2>1, Zenon
<1>8. pc' # "prompt" /\ pc' # "script"
  BY <1>1
<1>9. InScript'
  <2>1. /\ first \in 1 .. Len(source') /\ Len(did') >= 1
        /\ \A i \in 2 .. Len(did') :
               did'[i].tokens = tokenize_input(source'[first + (i - 1)])
    BY <1>1, <1>3, Zenon
  <2> QED
    BY <1>5, <1>6, <1>7, <1>8, <2>1, Zenon DEF InScript
<1>10. \E line \in AllLines : tokens' = tokenize_input(line)
  BY <1>1, <1>2, Zenon
<1>11. /\ pc' \notin {"gets", "run", "readScript", "shebang"} /\ mode' = "script"
       /\ source' \in Seq(AllLines)
  BY <1>1
<1>12. QED
  BY <1>2, <1>4, <1>9, <1>10, <1>11, Zenon DEF ScriptInv

\* No line is left.
LEMMA ScriptEndsOK == ASSUME ScriptInv, ScriptEnds PROVE ScriptInv'
<1>1. /\ pc = "script" /\ script = <<>> /\ pc' = "prompt" /\ script' = script
      /\ source' = source /\ did' = did /\ mode' = mode /\ mode = "script"
      /\ source \in Seq(AllLines) /\ script \in Seq(AllLines)
      /\ IsRest /\ InScript /\ \E X : did \in Seq(X)
  BY Zenon DEF ScriptEnds, Ends, ScriptInv
<1>2. PICK first \in 1 .. Len(source) :
          /\ FirstShebang(first)
          /\ Len(did) >= 1
          /\ \A i \in 2 .. Len(did) :
                 did[i].tokens = tokenize_input(source[first + (i - 1)])
          /\ first + (Len(did) - 1) + Len(script) = Len(source)
  BY <1>1, Zenon DEF InScript
<1>3. first + (Len(did') - 1) = Len(source')
  <2>1. Len(script) = 0
    BY <1>1
  <2>2. Len(did) \in Nat
    BY <1>1
  <2>3. first + (Len(did) - 1) = Len(source)
    BY <1>2, <2>1, <2>2
  <2> QED
    BY <1>1, <2>3, Zenon
<1>4. FirstShebang(first)'
  BY <1>1, <1>2, Zenon DEF FirstShebang
<1>5. IsRest'
  BY <1>1, Zenon DEF IsRest
<1>6. pc' \notin {"script", "gets", "run", "readScript", "runScript", "shebang"}
  BY <1>1
<1>7. pc' \notin Busy
  BY <1>1 DEF Busy
<1>8. InScript'
  <2>1. /\ first \in 1 .. Len(source') /\ Len(did') >= 1
        /\ \A i \in 2 .. Len(did') :
               did'[i].tokens = tokenize_input(source'[first + (i - 1)])
    BY <1>1, <1>2, Zenon
  <2>2. pc' # "script"
    BY <1>1
  <2> QED
    BY <1>3, <1>4, <1>7, <2>1, <2>2, Zenon DEF InScript
<1>9. /\ source' \in Seq(AllLines) /\ script' \in Seq(AllLines)
      /\ mode' = "script" /\ \E X : did' \in Seq(X)
  BY <1>1, Zenon
<1>10. QED
  BY <1>5, <1>6, <1>8, <1>9, Zenon DEF ScriptInv

\* What is not a line of a script leaves nothing to be prompt.
LEMMA OutsideOK ==
    ASSUME source' \in Seq(AllLines), script' \in Seq(AllLines), NEW X, did' \in Seq(X),
           mode' = "line", pc' \notin {"shebang", "script", "runScript"},
           pc' = "run" => \E line \in AllLines : tokens' = tokenize_input(line),
           pc' \in {"gets", "run", "readScript"} => did' = <<>>
    PROVE  ScriptInv'
<1>1. mode' # "script"
  OBVIOUS
<1>2. pc' # "runScript" /\ pc' # "shebang" /\ pc' # "script"
  OBVIOUS
<1>3. QED
  BY <1>1, <1>2, Zenon DEF ScriptInv

-----------------------------------------------------------------------------
(* The memory of envvars.                                                  *)

\* A string ends at the first NUL.
LEMMA EndOfIs ==
    ASSUME NEW e, NEW at, NEW s, HoldsText(e, at, s), ShellConstants
    PROVE  EndOf(e, at) = at + Len(s)
<1> DEFINE n == Len(s)
           IsEnd(j) == /\ j >= at /\ e[j] = EndMark
                       /\ \A k \in at .. j - 1 : e[k] # EndMark
<1>1. /\ n \in Nat /\ at \in Nat /\ at + n \in Cells
      /\ \A i \in 1 .. n : s[i] # EndMark /\ e[at + (i - 1)] = s[i]
      /\ e[at + n] = EndMark
  BY DEF HoldsText
<1>2. Cells \subseteq Int
  BY ShellSizes DEF Cells
<1> HIDE DEF n
<1>3. \A k \in at .. (at + n) - 1 : e[k] # EndMark
  <2> TAKE k \in at .. (at + n) - 1
  <2>1. PICK i \in 1 .. n : k = at + (i - 1)
    <3>1. (k - at) + 1 \in 1 .. n /\ k = at + (((k - at) + 1) - 1)
      BY <1>1
    <3> QED
      BY <3>1
  <2> QED
    BY <1>1, <2>1, Zenon
<1>4. IsEnd(at + n)
  BY <1>1, <1>3
<1>5. ASSUME NEW j \in Cells, IsEnd(j) PROVE j = at + n
  <2>1. j \in Int /\ j >= at
    BY <1>2, <1>5
  <2>2. CASE j < at + n
    <3>1. j \in at .. (at + n) - 1
      BY <1>1, <2>1, <2>2
    <3> QED
      BY <1>3, <1>5, <3>1, Zenon
  <2>3. CASE j > at + n
    <3>1. at + n \in at .. j - 1
      BY <1>1, <2>1, <2>3
    <3> QED
      BY <1>1, <1>5, <3>1, Zenon
  <2> QED
    BY <1>1, <2>1, <2>2, <2>3
<1>6. EndOf(e, at) = CHOOSE j \in Cells : IsEnd(j)
  BY DEF EndOf
<1> HIDE DEF IsEnd
<1>7. (CHOOSE j \in Cells : IsEnd(j)) = at + n
  BY <1>1, <1>4, <1>5, Zenon
<1> QED
  BY <1>6, <1>7 DEF n

\* The string that is held is the string that is read.
LEMMA StringAtIs ==
    ASSUME NEW e, NEW at, NEW s, HoldsText(e, at, s), ShellConstants
    PROVE  TextAt(e, at) = s
<1> DEFINE n == Len(s)
<1>1. EndOf(e, at) - at = n
  <2>1. EndOf(e, at) = at + n
    BY EndOfIs
  <2>2. at \in Nat /\ n \in Nat
    BY DEF HoldsText
  <2> QED
    BY <2>1, <2>2
<1>2. \A i \in 1 .. n : e[at + i - 1] = s[i]
  <2>1. at \in Nat /\ \A i \in 1 .. n : e[at + (i - 1)] = s[i]
    BY DEF HoldsText
  <2>2. \A i \in 1 .. n : at + i - 1 = at + (i - 1)
    BY <2>1
  <2> QED
    BY <2>1, <2>2, Zenon
<1>3. s = [i \in 1 .. n |-> s[i]]
  BY DEF HoldsText
<1>4. TextAt(e, at) = [i \in 1 .. n |-> e[at + i - 1]]
  BY <1>1 DEF TextAt
<1> HIDE DEF n
<1> QED
  BY <1>2, <1>3, <1>4, Zenon

\* A copy puts the string there,
LEMMA CopyHolds ==
    ASSUME NEW e, NEW at \in Nat, NEW s \in Seq(STRING), at + Len(s) \in Cells,
           \A i \in 1 .. Len(s) : s[i] # EndMark, ShellConstants
    PROVE  HoldsText(strcpy1(e, at, s), at, s)
<1> DEFINE f == strcpy1(e, at, s)
           n == Len(s)
<1>1. /\ n \in Nat /\ \A j \in Cells : j \in Int
      /\ \A j \in at .. at + n : j \in Cells
  <2>1. n \in Nat /\ PATHCAP \in Nat /\ PS1CAP \in Nat /\ SLACK \in Nat
    BY ShellSizes
  <2> HIDE DEF n
  <2>2. at + n \in Cells
    BY DEF n
  <2> QED
    BY <2>1, <2>2 DEF Cells
<1>2. \A j \in Cells : f[j] = IF j \in at .. at + n - 1 THEN s[j - at + 1]
                             ELSE IF j = at + n THEN EndMark ELSE e[j]
  BY DEF strcpy1
<1> HIDE DEF f, n
<1>3. ASSUME NEW i \in 1 .. n PROVE f[at + (i - 1)] = s[i]
  <2> DEFINE j == at + (i - 1)
  <2>1. j \in at .. at + n - 1 /\ j \in at .. at + n /\ j - at + 1 = i
    BY <1>1
  <2> HIDE DEF j
  <2>2. f[j] = s[j - at + 1]
    BY <1>1, <1>2, <2>1
  <2> QED
    BY <2>1, <2>2 DEF j
<1>4. f[at + n] = EndMark
  <2>1. at + n \in Cells /\ at + n \notin at .. at + n - 1
    BY <1>1
  <2> QED
    BY <1>2, <2>1
<1> QED
  BY <1>1, <1>3, <1>4 DEF f, n, HoldsText

\* and leaves every string beside it.
LEMMA CopyKeeps ==
    ASSUME NEW e, NEW at \in Nat, NEW s \in Seq(STRING), NEW b, NEW t,
           HoldsText(e, b, t), b + Len(t) < at \/ at + Len(s) < b, ShellConstants
    PROVE  HoldsText(strcpy1(e, at, s), b, t)
<1> DEFINE f == strcpy1(e, at, s)
           n == Len(s)
           m == Len(t)
<1>1. /\ n \in Nat /\ m \in Nat /\ b \in Nat /\ b + m \in Cells
      /\ \A i \in 1 .. m : t[i] # EndMark /\ e[b + (i - 1)] = t[i]
      /\ e[b + m] = EndMark /\ t \in Seq(STRING)
      /\ b + m < at \/ at + n < b
  BY DEF HoldsText
<1>2. \A j \in Cells : f[j] = IF j \in at .. at + n - 1 THEN s[j - at + 1]
                             ELSE IF j = at + n THEN EndMark ELSE e[j]
  BY DEF strcpy1
<1> HIDE DEF f, n, m
<1>3. ASSUME NEW j \in b .. b + m PROVE f[j] = e[j]
  <2>1. j \notin at .. at + n - 1 /\ j # at + n
    BY <1>1
  <2>2. j \in Cells
    <3>1. PATHCAP \in Nat /\ PS1CAP \in Nat /\ SLACK \in Nat
      BY ShellSizes
    <3> QED
      BY <1>1, <3>1 DEF Cells
  <2> QED
    BY <1>2, <2>1, <2>2
<1>4. ASSUME NEW i \in 1 .. m PROVE t[i] # EndMark /\ f[b + (i - 1)] = t[i]
  <2>1. b + (i - 1) \in b .. b + m
    BY <1>1
  <2> QED
    BY <1>1, <1>3, <2>1, Zenon
<1>5. f[b + m] = EndMark
  <2>1. b + m \in b .. b + m
    BY <1>1
  <2> QED
    BY <1>1, <1>3, <2>1, Zenon
<1> QED
  BY <1>1, <1>4, <1>5 DEF f, n, m, HoldsText

\* What is in a string that is put together.
LEMMA Joins ==
    ASSUME NEW s \in Seq(STRING), NEW t \in Seq(STRING),
           \A i \in 1 .. Len(s) : s[i] # EndMark, \A i \in 1 .. Len(t) : t[i] # EndMark
    PROVE  /\ s \o t \in Seq(STRING) /\ Len(s \o t) = Len(s) + Len(t)
           /\ Len(s) \in Nat /\ Len(t) \in Nat
           /\ \A i \in 1 .. Len(s \o t) : (s \o t)[i] # EndMark
           /\ \A i \in 1 .. Len(s) : (s \o t)[i] = s[i]
           /\ \A i \in 1 .. Len(t) : (s \o t)[Len(s) + i] = t[i]
<1> DEFINE n == Len(s)
           m == Len(t)
<1>1. /\ s \o t \in Seq(STRING) /\ Len(s \o t) = n + m /\ n \in Nat /\ m \in Nat
      /\ \A i \in 1 .. n : (s \o t)[i] = s[i]
      /\ \A i \in 1 .. m : (s \o t)[n + i] = t[i]
  OBVIOUS
<1> HIDE DEF n, m
<1>2. ASSUME NEW i \in 1 .. n + m PROVE (s \o t)[i] # EndMark
  <2>1. CASE i \in 1 .. n
    BY <1>1, <2>1 DEF n
  <2>2. CASE i \notin 1 .. n
    <3>1. PICK k \in 1 .. m : i = n + k
      <4>1. i - n \in 1 .. m /\ i = n + (i - n)
        BY <1>1, <2>2
      <4> QED
        BY <4>1
    <3> QED
      BY <1>1, <3>1 DEF m
  <2> QED
    BY <2>1, <2>2
<1> QED
  BY <1>1, <1>2 DEF n, m

\* strcat puts the string behind the one that is there,
LEMMA CatHolds ==
    ASSUME NEW e, NEW at, NEW s, NEW t \in Seq(STRING), t # <<>>, NEW behind,
           HoldsText(e, at, s),
           \A i \in 1 .. Len(t) : t[i] # EndMark,
           at + (Len(s) + Len(t)) \in Cells, ShellConstants
    PROVE  HoldsText(strcat(e, at, t, behind), at, s \o t)
<1> DEFINE n == Len(s)
           m == Len(t)
           f == strcat(e, at, t, behind)
<1>1. /\ n \in Nat /\ m \in Nat /\ at \in Nat /\ at + n \in Cells
      /\ \A i \in 1 .. n : s[i] # EndMark /\ e[at + (i - 1)] = s[i]
      /\ s \in Seq(STRING)
  BY DEF HoldsText
<1>2. f = strcpy1(e, at + n, t)
  BY EndOfIs DEF strcat, Copied
<1>3. HoldsText(f, at + n, t)
  <2>1. at + n \in Nat /\ (at + n) + m = at + (n + m)
    BY <1>1
  <2>2. (at + n) + m \in Cells
    BY <2>1
  <2> HIDE DEF n
  <2> QED
    BY <1>2, <2>1, <2>2, CopyHolds
<1>4. \A j \in Cells : f[j] = IF j \in at + n .. at + n + m - 1 THEN t[j - (at + n) + 1]
                             ELSE IF j = at + n + m THEN EndMark ELSE e[j]
  BY <1>2 DEF strcpy1
<1>5. /\ s \o t \in Seq(STRING) /\ Len(s \o t) = n + m
      /\ \A i \in 1 .. n + m : (s \o t)[i] # EndMark
      /\ \A i \in 1 .. n : (s \o t)[i] = s[i]
      /\ \A i \in 1 .. m : (s \o t)[n + i] = t[i]
  BY <1>1, Joins
<1>6. /\ \A i \in 1 .. m : f[(at + n) + (i - 1)] = t[i]
      /\ f[(at + n) + m] = EndMark
  BY <1>3, Zenon DEF HoldsText
<1>c. at + (n + m) \in Cells
  OBVIOUS
<1> HIDE DEF f, n, m
<1>7. ASSUME NEW i \in 1 .. n + m PROVE f[at + (i - 1)] = (s \o t)[i]
  <2>1. CASE i \in 1 .. n
    <3>1. at + (i - 1) \in Cells
      <4>1. PATHCAP \in Nat /\ PS1CAP \in Nat /\ SLACK \in Nat
        BY ShellSizes
      <4> QED
        BY <1>1, <2>1, <4>1 DEF Cells
    <3>2. at + (i - 1) \notin at + n .. at + n + m - 1 /\ at + (i - 1) # at + n + m
      BY <1>1, <2>1
    <3>3. f[at + (i - 1)] = e[at + (i - 1)]
      BY <1>4, <3>1, <3>2
    <3> QED
      BY <1>1, <1>5, <2>1, <3>3
  <2>2. CASE i \notin 1 .. n
    <3>1. PICK k \in 1 .. m : i = n + k
      <4>1. i - n \in 1 .. m /\ i = n + (i - n)
        BY <1>1, <2>2
      <4> QED
        BY <4>1
    <3>2. at + (i - 1) = (at + n) + (k - 1)
      BY <1>1, <3>1
    <3> QED
      BY <1>5, <1>6, <3>1, <3>2, Zenon
  <2> QED
    BY <2>1, <2>2
<1>8. f[at + (n + m)] = EndMark
  <2>1. at + (n + m) = (at + n) + m
    BY <1>1
  <2> QED
    BY <1>6, <2>1, Zenon
<1>9. /\ s \o t \in Seq(STRING) /\ at \in Nat /\ at + Len(s \o t) \in Cells
      /\ f[at + Len(s \o t)] = EndMark
  BY <1>1, <1>5, <1>8, <1>c
<1>10. \A i \in 1 .. Len(s \o t) : (s \o t)[i] # EndMark /\ f[at + (i - 1)] = (s \o t)[i]
  BY <1>5, <1>7
<1> QED
  BY <1>9, <1>10, Zenon DEF HoldsText, f

\* appending the empty string leaves it, whatever is copied behind the NUL,
LEMMA EmptyCatHolds ==
    ASSUME NEW e, NEW at, NEW s, NEW behind \in Seq(STRING), HoldsText(e, at, s),
           ShellConstants
    PROVE  HoldsText(strcat(e, at, <<>>, behind), at, s)
<1> DEFINE n == Len(s)
           t == <<EndMark>> \o behind
           f == strcat(e, at, <<>>, behind)
<1>1. /\ n \in Nat /\ at \in Nat /\ at + n \in Cells
      /\ \A i \in 1 .. n : s[i] # EndMark /\ e[at + (i - 1)] = s[i]
      /\ s \in Seq(STRING)
  BY DEF HoldsText
<1>2. f = strcpy1(e, at + n, t)
  BY EndOfIs DEF strcat, Copied
<1>3. Len(t) \in Nat /\ Len(t) >= 1 /\ t[1] = EndMark
  OBVIOUS
<1>4. \A j \in Cells : f[j] = IF j \in at + n .. at + n + Len(t) - 1 THEN t[j - (at + n) + 1]
                             ELSE IF j = at + n + Len(t) THEN EndMark ELSE e[j]
  BY <1>2 DEF strcpy1
<1> HIDE DEF f, n, t
<1>5. f[at + n] = EndMark
  <2>1. at + n \in at + n .. at + n + Len(t) - 1 /\ (at + n) - (at + n) + 1 = 1
    BY <1>1, <1>3
  <2> QED
    BY <1>1, <1>3, <1>4, <2>1
<1>6. ASSUME NEW i \in 1 .. n PROVE f[at + (i - 1)] = s[i]
  <2>1. at + (i - 1) \in Cells
    <3>1. PATHCAP \in Nat /\ PS1CAP \in Nat /\ SLACK \in Nat
      BY ShellSizes
    <3> QED
      BY <1>1, <3>1 DEF Cells
  <2>2. /\ at + (i - 1) \notin at + n .. at + n + Len(t) - 1
        /\ at + (i - 1) # at + n + Len(t)
    BY <1>1, <1>3
  <2>3. f[at + (i - 1)] = e[at + (i - 1)]
    BY <1>4, <2>1, <2>2
  <2> QED
    BY <1>1, <2>3
<1>7. \A i \in 1 .. n : s[i] # EndMark /\ f[at + (i - 1)] = s[i]
  BY <1>1, <1>6
<1> QED
  BY <1>1, <1>5, <1>7, Zenon DEF HoldsText, f, n

\* and a copy that stays in front of a string leaves that one.
LEMMA CatKeeps ==
    ASSUME NEW e, NEW at, NEW s, NEW t \in Seq(STRING), HoldsText(e, at, s),
           NEW behind \in Seq(STRING), NEW b, NEW u, HoldsText(e, b, u),
           at + (Len(s) + Len(Copied(t, behind))) < b, ShellConstants
    PROVE  HoldsText(strcat(e, at, t, behind), b, u)
<1> DEFINE c == Copied(t, behind)
<1>0. c \in Seq(STRING)
  <2>1. <<EndMark>> \in Seq(STRING)
    BY ShellSizes
  <2>2. <<EndMark>> \o behind \in Seq(STRING)
    BY <2>1
  <2> QED
    BY <2>2 DEF Copied
<1>1. at \in Nat /\ Len(s) \in Nat /\ Len(c) \in Nat
  BY <1>0 DEF HoldsText
<1>3. strcat(e, at, t, behind) = strcpy1(e, at + Len(s), c)
  BY EndOfIs DEF strcat
<1> HIDE DEF c
<1>2. at + Len(s) \in Nat /\ (at + Len(s)) + Len(c) < b
  BY <1>1 DEF c
<1>4. HoldsText(strcpy1(e, at + Len(s), c), b, u)
  BY <1>0, <1>2, CopyKeeps
<1> QED
  BY <1>3, <1>4, Zenon

-----------------------------------------------------------------------------
(* The commands.                                                           *)

\* The words of a command are the words of its line.
LEMMA WordsOf ==
    ASSUME NEW line \in Seq(STRING), NEW i \in DOMAIN tokenize_input(line)
    PROVE  i \in 1 .. Len(line) /\ tokenize_input(line)[i] = line[i]
<1> DEFINE n == Len(line)
<1>0. n \in Nat
  OBVIOUS
<1>1. CASE line # <<>> /\ Last(line) = ""
  <2>1. tokenize_input(line) = SubSeq(line, 1, n - 1)
    BY <1>1 DEF tokenize_input, Front
  <2>2. n >= 1
    <3>1. line # <<>>
      BY <1>1
    <3> QED
      BY <3>1
  <2>3. 1 \in 1 .. n + 1 /\ n - 1 \in 0 .. n
    BY <1>0, <2>2
  <2>4. /\ DOMAIN SubSeq(line, 1, n - 1) = 1 .. n - 1
        /\ \A k \in 1 .. n - 1 : SubSeq(line, 1, n - 1)[k] = line[k]
    BY <2>3
  <2>5. i \in 1 .. n - 1
    BY <2>1, <2>4
  <2>6. i \in 1 .. n
    BY <1>0, <2>5
  <2> HIDE DEF n
  <2> QED
    BY <2>1, <2>4, <2>5, <2>6 DEF n
<1>2. CASE ~ (line # <<>> /\ Last(line) = "")
  <2>1. tokenize_input(line) = line
    BY <1>2 DEF tokenize_input
  <2> QED
    BY <2>1
<1> QED
  BY <1>1, <1>2

\* What is exported is a value, and so is the word behind an empty one.
LEMMA ValueIs ==
    ASSUME ShellConstants, ScriptInv, pc \in {"run", "runScript"},
           Arg(1) \in Exporting, Arg(3) # "NULL"
    PROVE  IsValue(Arg(3)) /\ Behind(Arg(3), Arg(4)) \in Seq(STRING)
<1>1. PICK line \in AllLines : tokens = tokenize_input(line)
  BY DEF ScriptInv
<1>2. line \in Seq(STRING)
  BY ShellSizes
<1>3. 1 \in DOMAIN tokens /\ 3 \in DOMAIN tokens
  BY DEF Arg, Exporting
<1>4. /\ 1 \in 1 .. Len(line) /\ 3 \in 1 .. Len(line)
      /\ tokens[1] = line[1] /\ tokens[3] = line[3]
  BY <1>1, <1>2, <1>3, WordsOf
<1>5. Len(line) >= 3 /\ line[1] \in Exporting /\ Arg(3) = line[3]
  BY <1>2, <1>3, <1>4 DEF Arg
<1>6. line \in ExportLines(3)
  BY <1>1, <1>5 DEF ExportLines
<1>7. IsValue(Arg(3))
  <2>1. line[3] \in Values
    BY <1>6, Zenon DEF Values
  <2> QED
    BY <1>5, <2>1, ShellSizes
<1>8. Behind(Arg(3), Arg(4)) \in Seq(STRING)
  <2>1. CASE Arg(3) # "" \/ Arg(4) = "NULL"
    <3>1. Behind(Arg(3), Arg(4)) = <<>>
      BY <2>1, Zenon DEF Behind
    <3>2. <<>> \in Seq(STRING)
      OBVIOUS
    <3> QED
      BY <3>1, <3>2
  <2>2. CASE Arg(3) = "" /\ Arg(4) # "NULL"
    <3>1. 4 \in DOMAIN tokens
      BY <2>2 DEF Arg
    <3>2. 4 \in 1 .. Len(line) /\ Arg(4) = line[4]
      BY <1>1, <1>2, <3>1, WordsOf DEF Arg
    <3>3. line \in {k \in ExportLines(4) : k[3] = ""}
      <4>1. Len(line) \in Nat /\ Len(line) >= 4
        BY <1>2, <3>2
      <4>2. line \in ExportLines(4)
        BY <1>1, <1>5, <4>1 DEF ExportLines
      <4> QED
        BY <1>5, <2>2, <4>2
    <3>4. line[4] \in Values
      BY <3>3, Zenon DEF Values
    <3>5. IsValue(Arg(4))
      BY <3>2, <3>4, ShellSizes
    <3>6. Behind(Arg(3), Arg(4)) = Letters[Arg(4)]
      BY <2>2 DEF Behind
    <3> QED
      BY <3>5, <3>6 DEF IsValue
  <2> QED
    BY <2>1, <2>2
<1> QED
  BY <1>7, <1>8

\* A value is exported.
ValueExported ==
    /\ Arg(1) \in Exporting /\ Arg(3) # "NULL"
    /\ Arg(2) \in PathNames \cup PS1Names
    /\ env' = setenv(env, Arg(2), Letters[Arg(3)], Behind(Arg(3), Arg(4)))
    /\ exported' = Exports(Arg(2), Arg(3), Behind(Arg(3), Arg(4)))
    /\ Did("export") /\ pc' = Back
    /\ UNCHANGED <<tokens, mode, script, prompt, source>>

\* What a command comes to.
Outcome == \/ \E what : Does(what)
           \/ \E how \in {"readCat", "halted", "astray", "sleeps"} : Ends(how)
           \/ ValueExported
LEMMA Commands == ASSUME execute_binaries PROVE Outcome
<1>1. CASE Cat
  BY <1>1 DEF Cat, Outcome
<1>2. CASE Sleep
  BY <1>2 DEF Sleep, Outcome
<1>3. CASE Export
  <2>1. CASE "NULL" \in {Arg(2), Arg(3)} /\ Arg(2) \in {"NULL"} \cup PathNames \cup PS1Names
    BY <1>3, <2>1 DEF Export, Outcome
  <2>2. CASE /\ ~ ("NULL" \in {Arg(2), Arg(3)} /\ Arg(2) \in {"NULL"} \cup PathNames \cup PS1Names)
             /\ Arg(2) \notin PathNames \cup PS1Names
    BY <1>3, <2>2 DEF Export, Outcome
  <2>3. CASE /\ ~ ("NULL" \in {Arg(2), Arg(3)} /\ Arg(2) \in {"NULL"} \cup PathNames \cup PS1Names)
             /\ Arg(2) \in PathNames \cup PS1Names
    <3>1. ValueExported
      BY <1>3, <2>3 DEF Export, ValueExported
    <3> QED
      BY <3>1 DEF Outcome
  <2> QED
    BY <2>1, <2>2, <2>3
<1>4. CASE Echo
  BY <1>4 DEF Echo, Outcome
<1>5. CASE Call
  BY <1>5 DEF Call, Outcome
<1>6. CASE Arg(1) = "NULL" /\ Ends("halted")
  BY <1>6 DEF Outcome
<1> QED
  BY <1>1, <1>2, <1>3, <1>4, <1>5, <1>6 DEF execute_binaries

\* A step that exports nothing keeps the memory,
LEMMA EnvStays == ASSUME EnvInv, UNCHANGED <<env, exported>> PROVE EnvInv'
<1>1. TypesOfExports'
  BY Zenon DEF EnvInv, TypesOfExports, IsValue
<1> QED
  BY <1>1, Zenon DEF EnvInv, HoldsText, Path, PS1

\* and so does an export, of a path
LEMMA PathEnv ==
    ASSUME ShellConstants, EnvInv, ScriptInv, pc \in {"run", "runScript"},
           ValueExported, Arg(2) \in PathNames
    PROVE  EnvInv'
<1> DEFINE value == Letters[Arg(3)]
           path == exported.path
           behind == Behind(Arg(3), Arg(4))
           one == path \o <<Semicolon>>
           two == one \o value
           end == Len(path) + 1 + Len(Copied(value, behind))
<1>1. IsValue(Arg(3)) /\ behind \in Seq(STRING)
  BY ValueIs DEF ValueExported
<1>2. /\ value \in Seq(STRING) /\ Len(value) \in Nat
      /\ \A i \in 1 .. Len(value) : value[i] # EndMark
  BY <1>1 DEF IsValue
<1>3. /\ DOMAIN exported = {"path", "ps1", "reach"}
      /\ exported = [part \in DOMAIN exported |-> exported[part]]
      /\ path \in Seq(STRING)
      /\ \A i \in 1 .. Len(path) : path[i] # EndMark
      /\ IsValue(exported.ps1)
      /\ exported.reach \in Nat /\ Len(path) <= exported.reach
  BY DEF EnvInv, TypesOfExports
<1>4. /\ exported.reach < PATHCAP =>
             HoldsText(env, Path, path) /\ HoldsText(env, PS1, Letters[exported.ps1])
      /\ PATHCAP \in Nat /\ PS1CAP \in Nat /\ SLACK \in Nat
      /\ Semicolon \in STRING /\ Semicolon # EndMark /\ EndMark \in STRING
  BY ShellSizes DEF EnvInv
<1>5. /\ Len(Copied(value, behind)) \in Nat
      /\ Len(value) <= Len(Copied(value, behind))
  BY <1>1, <1>2, <1>4 DEF Copied
<1>6. /\ env' = strcat(strcat(env, Path, <<Semicolon>>, <<>>), Path, value, behind)
      /\ exported' = [exported EXCEPT !.path = @ \o <<Semicolon>> \o value,
                                      !.reach = IF end > @ THEN end ELSE @]
  BY Zenon DEF ValueExported, setenv, Exports
<1> HIDE DEF value, behind, path
<1>7. /\ exported'.path = two /\ exported'.ps1 = exported.ps1
      /\ exported'.reach = IF end > exported.reach THEN end ELSE exported.reach
      /\ DOMAIN exported' = {"path", "ps1", "reach"}
      /\ exported' = [part \in DOMAIN exported' |-> exported'[part]]
  BY <1>3, <1>6 DEF path
<1>8. /\ <<Semicolon>> \in Seq(STRING) /\ Len(<<Semicolon>>) = 1 /\ <<Semicolon>> # <<>>
      /\ \A i \in 1 .. Len(<<Semicolon>>) : <<Semicolon>>[i] # EndMark
      /\ <<>> \in Seq(STRING)
  BY <1>4
<1>9. /\ one \in Seq(STRING) /\ Len(one) = Len(path) + 1 /\ Len(path) \in Nat
      /\ \A i \in 1 .. Len(one) : one[i] # EndMark
  BY <1>3, <1>8, Joins
<1>h. one = path \o <<Semicolon>>
  OBVIOUS
<1> HIDE DEF one
<1>10. /\ two \in Seq(STRING) /\ Len(two) = Len(one) + Len(value)
       /\ Len(value) \in Nat /\ Len(one) \in Nat
       /\ \A i \in 1 .. Len(two) : two[i] # EndMark
  BY <1>2, <1>9, Joins
<1>t. two = one \o value
  OBVIOUS
<1> HIDE DEF two
<1>11. /\ exported'.reach \in Nat /\ Len(two) <= exported'.reach
       /\ end <= exported'.reach /\ exported.reach <= exported'.reach
  BY <1>3, <1>5, <1>7, <1>9, <1>10
<1>12. TypesOfExports'
  <2>1. IsValue(exported.ps1)'
    BY <1>3, <1>7, Zenon DEF IsValue
  <2> QED
    BY <1>7, <1>10, <1>11, <2>1, Zenon DEF TypesOfExports
<1>13. ASSUME exported'.reach < PATHCAP
       PROVE  HoldsText(env', Path, two) /\ HoldsText(env', PS1, Letters[exported.ps1])
  <2> DEFINE e == strcat(env, Path, <<Semicolon>>, <<>>)
  <2>1. HoldsText(env, Path, path) /\ HoldsText(env, PS1, Letters[exported.ps1])
    BY <1>3, <1>4, <1>11, <1>13
  <2>2. Len(two) < PATHCAP /\ end < PATHCAP
    BY <1>4, <1>5, <1>9, <1>10, <1>11, <1>13
  <2>3. /\ Path + (Len(path) + Len(<<Semicolon>>)) \in Cells
        /\ Path + (Len(path) + Len(<<Semicolon>>)) < PS1
    BY <1>4, <1>8, <1>9, <1>10, <2>2 DEF Cells, Path, PS1
  <2>4. /\ Path + (Len(one) + Len(value)) \in Cells
        /\ Path + (Len(one) + Len(Copied(value, behind))) < PS1
    BY <1>4, <1>5, <1>9, <1>10, <2>2 DEF Cells, Path, PS1
  <2>5. HoldsText(e, Path, one)
    BY <1>8, <1>h, <2>1, <2>3, CatHolds
  <2>6. HoldsText(e, PS1, Letters[exported.ps1])
    <3>1. Copied(<<Semicolon>>, <<>>) = <<Semicolon>>
      BY <1>8 DEF Copied
    <3> QED
      BY <1>8, <2>1, <2>3, <3>1, CatKeeps
  <2> HIDE DEF e
  <2>7. HoldsText(strcat(e, Path, value, behind), Path, two)
    <3>1. CASE value # <<>>
      BY <1>2, <1>t, <2>4, <2>5, <3>1, CatHolds
    <3>2. CASE value = <<>>
      <4>1. two = one
        BY <1>9, <1>t, <3>2
      <4>2. HoldsText(strcat(e, Path, <<>>, behind), Path, one)
        BY <1>1, <2>5, EmptyCatHolds
      <4> QED
        BY <3>2, <4>1, <4>2
    <3> QED
      BY <3>1, <3>2
  <2>8. HoldsText(strcat(e, Path, value, behind), PS1, Letters[exported.ps1])
    BY <1>1, <1>2, <2>4, <2>5, <2>6, CatKeeps
  <2> QED
    BY <1>6, <2>7, <2>8 DEF e
<1>14. exported'.reach < PATHCAP =>
           /\ HoldsText(env', Path, exported'.path)
           /\ HoldsText(env', PS1, Letters[exported'.ps1])
  BY <1>7, <1>13, Zenon
<1> QED
  BY <1>12, <1>14, Zenon DEF EnvInv, HoldsText, PS1, Path

\* and of a prompt,
LEMMA PromptEnv ==
    ASSUME ShellConstants, EnvInv, ScriptInv, pc \in {"run", "runScript"},
           ValueExported, Arg(2) \notin PathNames
    PROVE  EnvInv'
<1> DEFINE value == Letters[Arg(3)]
           path == exported.path
<1>1. IsValue(Arg(3))
  BY ValueIs DEF ValueExported
<1>2. /\ value \in Seq(STRING) /\ Len(value) < PS1CAP + SLACK
      /\ \A i \in 1 .. Len(value) : value[i] # EndMark
  BY <1>1 DEF IsValue
<1>3. /\ DOMAIN exported = {"path", "ps1", "reach"}
      /\ exported = [part \in DOMAIN exported |-> exported[part]]
      /\ path \in Seq(STRING)
      /\ \A i \in 1 .. Len(path) : path[i] # EndMark
      /\ exported.reach \in Nat /\ Len(path) <= exported.reach
  BY DEF EnvInv, TypesOfExports
<1>4. /\ exported.reach < PATHCAP => HoldsText(env, Path, path)
      /\ PATHCAP \in Nat /\ PS1CAP \in Nat /\ SLACK \in Nat
  BY ShellSizes DEF EnvInv
<1>5. /\ env' = strcpy1(env, PS1, value)
      /\ exported' = [exported EXCEPT !.ps1 = Arg(3)]
  BY Zenon DEF ValueExported, setenv, Exports
<1> HIDE DEF value, path
<1>6. /\ exported'.path = path /\ exported'.ps1 = Arg(3)
      /\ exported'.reach = exported.reach
      /\ DOMAIN exported' = {"path", "ps1", "reach"}
      /\ exported' = [part \in DOMAIN exported' |-> exported'[part]]
  BY <1>3, <1>5 DEF path
<1>7. TypesOfExports'
  <2>1. IsValue(exported'.ps1)
    BY <1>1, <1>6
  <2> QED
    BY <1>3, <1>6, <2>1, Zenon DEF TypesOfExports, IsValue
<1>8. ASSUME exported.reach < PATHCAP
      PROVE  HoldsText(env', Path, path) /\ HoldsText(env', PS1, value)
  <2>1. Len(path) \in Nat /\ Len(path) < PATHCAP
    BY <1>3, <1>4, <1>8
  <2>2. /\ PS1 \in Nat /\ PS1 + Len(value) \in Cells /\ Path + Len(path) < PS1
    BY <1>2, <1>4, <2>1 DEF Cells, Path, PS1
  <2> QED
    BY <1>2, <1>4, <1>5, <1>8, <2>2, CopyHolds, CopyKeeps
<1>9. exported'.reach < PATHCAP =>
          /\ HoldsText(env', Path, exported'.path)
          /\ HoldsText(env', PS1, Letters[exported'.ps1])
  BY <1>6, <1>8, Zenon DEF value
<1> QED
  BY <1>7, <1>9, Zenon DEF EnvInv, HoldsText, PS1, Path

\* and where the script stands.
LEMMA OutcomeOK ==
    ASSUME ShellConstants, ShellInv, pc \in {"run", "runScript"}, Outcome
    PROVE  ShellInv'
<1>0. EnvInv /\ ScriptInv
  BY DEF ShellInv
<1>1. CASE \E what : Does(what)
  <2>1. PICK what : Does(what)
    BY <1>1
  <2>2. /\ Did(what) /\ pc' = Back /\ UNCHANGED <<tokens, mode, script, source>>
        /\ UNCHANGED <<env, exported>>
    BY <2>1 DEF Does
  <2>3. ScriptInv'
    BY <1>0, <2>2, CommandDone
  <2>4. EnvInv'
    BY <1>0, <2>2, EnvStays
  <2> QED
    BY <2>3, <2>4 DEF ShellInv
<1>2. CASE \E how \in {"readCat", "halted", "astray", "sleeps"} : Ends(how)
  <2>1. PICK how \in {"readCat", "halted", "astray", "sleeps"} : Ends(how)
    BY <1>2
  <2>2. /\ pc' = how /\ UNCHANGED <<tokens, mode, script, did, source>>
        /\ UNCHANGED <<env, exported>>
    BY <2>1 DEF Ends
  <2>3. ScriptInv'
    BY <1>0, <2>2, CommandEnds
  <2>4. EnvInv'
    BY <1>0, <2>2, EnvStays
  <2> QED
    BY <2>3, <2>4 DEF ShellInv
<1>3. CASE ValueExported
  <2>1. Did("export") /\ pc' = Back /\ UNCHANGED <<tokens, mode, script, source>>
    BY <1>3 DEF ValueExported
  <2>2. ScriptInv'
    BY <1>0, <2>1, CommandDone
  <2>3. EnvInv'
    BY <1>0, <1>3, PathEnv, PromptEnv
  <2> QED
    BY <2>2, <2>3 DEF ShellInv
<1> QED
  BY <1>1, <1>2, <1>3 DEF Outcome

\* The words main looks at first.
LEMMA RunLineOK == ASSUME ShellConstants, ShellInv, RunLine PROVE ShellInv'
<1>0. EnvInv /\ ScriptInv /\ pc = "run"
  BY DEF ShellInv, RunLine
<1>1. \/ Outcome
      \/ \E how \in {"exited", "forked", "astray", "readScript", "halted"} : Ends(how)
      \/ \E f \in DOMAIN Files : ReadScript(Files[f])
      \/ execute_binaries
  BY DEF RunLine, change_directory, Outcome
<1>2. CASE execute_binaries \/ Outcome
  BY <1>0, <1>2, Commands, OutcomeOK
<1>3. CASE \E how \in {"exited", "forked", "astray", "readScript", "halted"} : Ends(how)
  <2>1. PICK how \in {"exited", "forked", "astray", "readScript", "halted"} : Ends(how)
    BY <1>3
  <2>2. /\ pc' = how /\ UNCHANGED <<tokens, mode, script, did, source>>
        /\ UNCHANGED <<env, exported>>
    BY <2>1 DEF Ends
  <2>3. ScriptInv'
    BY <1>0, <2>2, CommandEnds
  <2>4. EnvInv'
    BY <1>0, <2>2, EnvStays
  <2> QED
    BY <2>3, <2>4 DEF ShellInv
<1>4. CASE \E f \in DOMAIN Files : ReadScript(Files[f])
  <2>1. PICK f \in DOMAIN Files : ReadScript(Files[f])
    BY <1>4
  <2>2. Files[f] \in Seq(AllLines)
    BY ShellSizes
  <2>3. ScriptInv'
    BY <1>0, <2>1, <2>2, ScriptRead
  <2>4. EnvInv'
    BY <1>0, <2>1, EnvStays DEF ReadScript
  <2> QED
    BY <2>3, <2>4 DEF ShellInv
<1> QED
  BY <1>1, <1>2, <1>3, <1>4

\* What is read in place of a missing file.
LEMMA ReadTypedOK ==
    ASSUME ShellConstants, ShellInv, NEW line \in Lines, ReadTyped(line)
    PROVE  ShellInv'
<1>0. EnvInv /\ ScriptInv /\ line \in AllLines
  BY ShellSizes DEF ShellInv
<1>1. CASE pc = "readCat" /\ Does(<<line>>)
  <2>1. /\ Did(<<line>>) /\ pc' = Back /\ UNCHANGED <<tokens, mode, script, source>>
        /\ UNCHANGED <<env, exported>>
    BY <1>1 DEF Does
  <2>2. ScriptInv'
    BY <1>0, <1>1, <2>1, CommandDone
  <2>3. EnvInv'
    BY <1>0, <2>1, EnvStays
  <2> QED
    BY <2>2, <2>3 DEF ShellInv
<1>2. CASE pc = "readScript" /\ ReadScript(IF line = <<"">> THEN <<>> ELSE <<line>>)
  <2>1. PICK lines \in Seq(AllLines) : ReadScript(lines)
    <3>1. /\ <<>> \in Seq(AllLines) /\ <<line>> \in Seq(AllLines)
      BY <1>0
    <3> QED
      BY <1>2, <3>1
  <2>2. ScriptInv'
    BY <1>0, <1>2, <2>1, ScriptRead
  <2>3. EnvInv'
    BY <1>0, <2>1, EnvStays DEF ReadScript
  <2> QED
    BY <2>2, <2>3 DEF ShellInv
<1> QED
  BY <1>1, <1>2 DEF ReadTyped

\* The prompt, a line that is typed, a stop: no script is run.
LEMMA PromptOK ==
    ASSUME ShellConstants, ShellInv,
           \/ ShowPrompt
           \/ NoShebang
           \/ \E line \in Lines : Gets(line)
    PROVE  ShellInv'
<1>0. /\ EnvInv /\ ScriptInv /\ script \in Seq(AllLines) /\ source \in Seq(AllLines)
      /\ \E X : did \in Seq(X)
  BY DEF ShellInv, ScriptInv
<1>1. UNCHANGED <<env, exported>>
  BY DEF ShowPrompt, NoShebang, Ends, Gets
<1>2. EnvInv'
  BY <1>0, <1>1, EnvStays
<1>3. CASE ShowPrompt
  <2>1. /\ pc' = "gets" /\ mode' = "line" /\ did' = <<>> /\ source' = <<>>
        /\ script' = script
    BY <1>3 DEF ShowPrompt
  <2>2. source' \in Seq(AllLines) /\ script' \in Seq(AllLines) /\ did' \in Seq({})
    BY <1>0, <2>1
  <2>3. ScriptInv'
    BY <2>1, <2>2, OutsideOK
  <2> QED
    BY <1>2, <2>3 DEF ShellInv
<1>4. CASE NoShebang
  <2>1. /\ pc' = "halted" /\ UNCHANGED <<tokens, mode, script, did, source>>
        /\ pc = "shebang"
    BY <1>4 DEF NoShebang, Ends
  <2>2. mode' = "line"
    BY <1>0, <2>1 DEF ScriptInv
  <2>3. PICK X : did \in Seq(X)
    BY <1>0
  <2>4. source' \in Seq(AllLines) /\ script' \in Seq(AllLines) /\ did' \in Seq(X)
    BY <1>0, <2>1, <2>3
  <2>5. ScriptInv'
    BY <2>1, <2>2, <2>4, OutsideOK
  <2> QED
    BY <1>2, <2>5 DEF ShellInv
<1>5. CASE \E line \in Lines : Gets(line)
  <2>1. PICK line \in Lines : Gets(line)
    BY <1>5
  <2>2. /\ tokens' = tokenize_input(line) /\ pc' \in {"prompt", "run"} /\ pc = "gets"
        /\ UNCHANGED <<mode, script, did, source>>
    BY <2>1 DEF Gets
  <2>3. mode' = "line" /\ did' = <<>> /\ did' \in Seq({}) /\ line \in AllLines
    BY <1>0, <2>2, ShellSizes DEF ScriptInv
  <2>4. source' \in Seq(AllLines) /\ script' \in Seq(AllLines)
    BY <1>0, <2>2
  <2>5. ScriptInv'
    BY <2>2, <2>3, <2>4, OutsideOK
  <2> QED
    BY <1>2, <2>5 DEF ShellInv
<1> QED
  BY <1>3, <1>4, <1>5

\* What a script does between its commands.
LEMMA ScriptStepOK ==
    ASSUME ShellInv, FindShebang \/ NextLine \/ ScriptEnds
    PROVE  ShellInv'
<1>1. EnvInv /\ ScriptInv
  BY DEF ShellInv
<1>2. UNCHANGED <<env, exported>>
  BY DEF FindShebang, NextLine, ScriptEnds, Ends
<1>3. EnvInv'
  BY <1>1, <1>2, EnvStays
<1>4. ScriptInv'
  BY <1>1, FindShebangOK, NextLineOK, ScriptEndsOK
<1> QED
  BY <1>3, <1>4 DEF ShellInv

\* A line of a script is a command.
LEMMA RunScriptLineOK ==
    ASSUME ShellConstants, ShellInv, RunScriptLine
    PROVE  ShellInv'
<1>1. pc = "runScript" /\ (Outcome \/ execute_binaries)
  BY DEF RunScriptLine, change_directory, Outcome
<1> QED
  BY <1>1, Commands, OutcomeOK

\* Both invariants hold at first,
LEMMA ShellInitially == ASSUME ShellConstants, ShellInit PROVE ShellInv
<1> DEFINE zero == [j \in Cells |-> EndMark]
           path == Letters["rootfs"]
           ps1 == Letters["sbush"]
           one == strcpy1(zero, Path, path)
<1>1. /\ exported = [path |-> path, ps1 |-> "sbush", reach |-> Len(path)] /\ env = strcpy1(one, PS1, ps1)
      /\ pc = "prompt" /\ tokens = <<>> /\ mode = "line" /\ script = <<>> /\ did = <<>>
      /\ source = <<>>
  BY DEF ShellInit
<1>2. /\ path \in Seq(STRING) /\ \A i \in 1 .. Len(path) : path[i] # EndMark
      /\ ps1 \in Seq(STRING) /\ \A i \in 1 .. Len(ps1) : ps1[i] # EndMark
      /\ Len(ps1) < PS1CAP + SLACK
      /\ IsValue("sbush")
  BY ShellSizes DEF IsValue
<1>3. PATHCAP \in Nat /\ PS1CAP \in Nat /\ SLACK \in Nat
  BY ShellSizes
<1> HIDE DEF path, ps1, zero
<1>4. TypesOfExports
  BY <1>1, <1>2 DEF TypesOfExports
<1>5. ASSUME Len(path) < PATHCAP
      PROVE  HoldsText(env, Path, path) /\ HoldsText(env, PS1, ps1)
  <2>1. /\ Path \in Nat /\ Path + Len(path) \in Cells /\ Path + Len(path) < PS1
        /\ PS1 \in Nat /\ PS1 + Len(ps1) \in Cells
    BY <1>2, <1>3, <1>5 DEF Path, PS1, Cells
  <2>2. HoldsText(one, Path, path)
    BY <1>2, <2>1, CopyHolds
  <2> HIDE DEF one
  <2> QED
    BY <1>1, <1>2, <2>1, <2>2, CopyHolds, CopyKeeps
<1>6. EnvInv
  <2>1. exported.reach = Len(path) /\ exported.path = path /\ exported.ps1 = "sbush"
    BY <1>1
  <2> QED
    BY <1>4, <1>5, <2>1 DEF EnvInv, ps1
<1>7. ScriptInv
  <2>1. <<>> \in Seq(AllLines) /\ <<>> \in Seq({})
    OBVIOUS
  <2> QED
    BY <1>1, <2>1 DEF ScriptInv
<1> QED
  BY <1>6, <1>7 DEF ShellInv

\* and every step keeps them.
LEMMA ShellInductive ==
    ASSUME ShellConstants, ShellInv, [ShellNext]_shellVars
    PROVE  ShellInv'
<1>1. CASE ShellStep
  BY <1>1, PromptOK, RunLineOK, ScriptStepOK, RunScriptLineOK DEF ShellStep
<1>2. CASE \E line \in Lines : Room(line) /\ (Gets(line) \/ ReadTyped(line))
  BY <1>2, PromptOK, ReadTypedOK
<1>3. CASE UNCHANGED shellVars
  <2>1. UNCHANGED <<env, exported>>
    BY <1>3 DEF shellVars
  <2>2. EnvInv'
    BY <2>1, EnvStays DEF ShellInv
  <2>3. /\ pc' = pc /\ tokens' = tokens /\ mode' = mode /\ script' = script
        /\ did' = did /\ source' = source
    BY <1>3 DEF shellVars
  <2>4. /\ IsRest' <=> IsRest
        /\ InScript' <=> InScript
        /\ source' \in Seq(AllLines) <=> source \in Seq(AllLines)
        /\ script' \in Seq(AllLines) <=> script \in Seq(AllLines)
    <3>1. \A first : FirstShebang(first)' <=> FirstShebang(first)
      BY <2>3, Zenon DEF FirstShebang
    <3> QED
      BY <2>3, <3>1, Zenon DEF IsRest, InScript
  <2>5. ScriptInv'
    BY <2>3, <2>4, Zenon DEF ScriptInv, ShellInv
  <2> QED
    BY <2>2, <2>5 DEF ShellInv
<1> QED
  BY <1>1, <1>2, <1>3 DEF ShellNext

\* path and PS1 are what was exported, for every file, line and size, as long
\* as what is exported fits (setenv, sbush.c:174-186).
THEOREM ExportsKept == ShellSpec => []EnvKept
<1>0. ShellConstants
  BY ShellAssumption
<1>1. ShellInit => ShellInv
  BY <1>0, ShellInitially
<1>2. ShellInv /\ [ShellNext]_shellVars => ShellInv'
  BY <1>0, ShellInductive
<1>3. ShellInv => EnvKept
  BY <1>0, StringAtIs DEF ShellInv, EnvInv, EnvKept
<1> QED
  BY <1>1, <1>2, <1>3, PTL DEF ShellSpec

\* A script is run from its first shebang to its end, each line once and in
\* order, for every script (execute_scripts, sbush.c:318-349).
THEOREM ScriptsRunInOrder == ShellSpec => []ScriptInOrder
<1>0. ShellConstants
  BY ShellAssumption
<1>1. ShellInit => ShellInv
  BY <1>0, ShellInitially
<1>2. ShellInv /\ [ShellNext]_shellVars => ShellInv'
  BY <1>0, ShellInductive
<1>3. ShellInv => ScriptInOrder
  BY Zenon DEF ShellInv, ScriptInv, InScript, ScriptInOrder
<1> QED
  BY <1>1, <1>2, <1>3, PTL DEF ShellSpec

\* How far a line is from its end: the stage it is at, and within a script
\* the lines that are left, each of them two steps.
Phase == CASE pc = "run" -> 2
           [] pc \in {"shebang", "script", "runScript"} -> 1
           [] OTHER -> 0
StepsLeft == 2 * Len(script) + (IF pc = "runScript" THEN 1 ELSE 0)

\* A step ends the line, or brings its end nearer.
GoesOn ==
    pc \notin Waiting \cup Stopped =>
        \/ pc' \in Waiting \cup Stopped
        \/ Phase' < Phase
        \/ Phase' = Phase /\ StepsLeft' < StepsLeft

LEMMA GoesOnOK == ASSUME ShellInv, ShellNext PROVE GoesOn
<1> SUFFICES ASSUME pc \notin Waiting \cup Stopped PROVE GoesOn
  BY DEF GoesOn
<1>1. /\ script \in Seq(AllLines) /\ Len(script) \in Nat
      /\ pc = "runScript" => mode = "script"
      /\ pc = "run" => mode = "line"
  BY DEF ShellInv, ScriptInv
<1>2. CASE ShowPrompt \/ NoShebang
  BY <1>2 DEF ShowPrompt, NoShebang, Ends, GoesOn, Waiting, Stopped
<1>3. CASE \E line \in Lines : Room(line) /\ (Gets(line) \/ ReadTyped(line))
  BY <1>3 DEF Gets, ReadTyped, Waiting
<1>4. CASE FindShebang \/ NextLine
  <2>1. /\ script # <<>> /\ script' = Tail(script)
        /\ \/ pc = "shebang" /\ pc' \in {"shebang", "script"}
           \/ pc = "script" /\ pc' = "runScript"
    BY <1>4 DEF FindShebang, NextLine
  <2>2. Len(script') = Len(script) - 1 /\ Len(script) > 0
    BY <1>1, <2>1
  <2>3. Phase' = Phase
    BY <2>1 DEF Phase
  <2>4. StepsLeft' < StepsLeft
    BY <1>1, <2>1, <2>2 DEF StepsLeft
  <2> QED
    BY <2>3, <2>4 DEF GoesOn
<1>5. CASE ScriptEnds
  BY <1>5 DEF ScriptEnds, Ends, GoesOn, Phase
<1>6. CASE RunLine
  <2>1. pc = "run" /\ Phase = 2
    BY <1>6 DEF RunLine, Phase
  <2>2. \/ Outcome
        \/ \E how \in {"exited", "forked", "astray", "readScript", "halted"} : Ends(how)
        \/ \E f \in DOMAIN Files : ReadScript(Files[f])
    BY <1>6, Commands DEF RunLine, change_directory, Outcome
  <2>3. pc' \in Waiting \cup Stopped \cup {"prompt", "shebang"}
    BY <1>1, <2>1, <2>2 DEF Outcome, Does, Ends, ValueExported, ReadScript, Back, Waiting, Stopped
  <2>4. pc' \in {"prompt", "shebang"} => Phase' < Phase
    BY <2>1 DEF Phase
  <2> QED
    BY <2>3, <2>4 DEF GoesOn
<1>7. CASE RunScriptLine
  <2>1. pc = "runScript" /\ Outcome
    BY <1>7, Commands DEF RunScriptLine, change_directory, Outcome
  <2>2. pc' \in Waiting \cup Stopped \/ (pc' = "script" /\ script' = script)
    BY <1>1, <2>1 DEF Outcome, Does, Ends, ValueExported, Back, Waiting, Stopped
  <2>3. pc' = "script" /\ script' = script => Phase' = Phase /\ StepsLeft' < StepsLeft
    BY <1>1, <2>1 DEF Phase, StepsLeft
  <2> QED
    BY <2>2, <2>3 DEF GoesOn
<1> QED
  BY <1>2, <1>3, <1>4, <1>5, <1>6, <1>7 DEF ShellNext, ShellStep

\* A line, and a script of any length, come to an end: every step of the shell
\* brings it nearer to the prompt, a read or a stop (main and execute_scripts,
\* sbush.c:318-349, 464-560).  What is left of EveryLineEnds is that the shell
\* goes on.
THEOREM LinesComeToAnEnd == ShellSpec => [][GoesOn]_shellVars
<1>0. ShellConstants
  BY ShellAssumption
<1>1. ShellInit => ShellInv
  BY <1>0, ShellInitially
<1>2. ShellInv /\ [ShellNext]_shellVars => ShellInv'
  BY <1>0, ShellInductive
<1>3. ShellInv /\ [ShellNext]_shellVars => [GoesOn]_shellVars
  BY GoesOnOK
<1> QED
  BY <1>1, <1>2, <1>3, PTL DEF ShellSpec
=============================================================================
