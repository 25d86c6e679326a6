-------------------------------- MODULE Libc --------------------------------
(***************************************************************************)
(* What libc keeps in the data of a program: the heap pointer of malloc    *)
(* (libc/malloc.c) and the buffer of printf (libc/printf.c).  A call is    *)
(* one step: a program has one thread.                                     *)
(*                                                                         *)
(* malloc adds its size to a variable it does not set for a multiple of    *)
(* ALIGN; the compiler may choose, and as built it is ALIGN always.        *)
(* printf's buffer is never emptied, and what is stored behind its end     *)
(* goes over other variables of the program: bound MAXTEXT.                *)
(*                                                                         *)
(* Glyphs are character codes; an argument is the word a program passes,   *)
(* of a string its address.                                                *)
(***************************************************************************)
EXTENDS Integers, Sequences, SequencesExt

CONSTANTS INTMAX,              \* the largest int
          WORDS,               \* how many words there are, and addresses
          ALIGN,               \* 8
          HEAP_START, HEAP_END,
          Sizes,               \* what malloc is asked for
          Calls,               \* what printf is called with: [fmt, args]
          StringAt,            \* the string at an address
          NoMemory,            \* malloc's message, one glyph for all of it
          MAXTEXT              \* bound: no printf begins with more text

ToInt(n) == IF n > INTMAX THEN n - 2 * (INTMAX + 1) ELSE n
Wrapped(p) == IF p < 0 THEN p + WORDS ELSE IF p >= WORDS THEN p - WORDS ELSE p
Word == 0 .. WORDS - 1

ASSUME LibcAssumption ==
    /\ INTMAX \in Nat
    /\ ALIGN \in 1 .. INTMAX
    /\ HEAP_START \in Nat /\ HEAP_END \in HEAP_START .. INTMAX - ALIGN
    /\ WORDS \in Nat /\ WORDS > HEAP_END + INTMAX + 1
    /\ Sizes \subseteq -INTMAX .. INTMAX

VARIABLES heap_ptr,
          blocks,        \* ghost: what malloc handed out, [at, size]
          read_buffer,   \* what is stored in it, buff_offset glyphs
          shown,         \* what the last write showed
          last           \* ghost: the last number printed, [conv, arg, text]

vars == <<heap_ptr, blocks, read_buffer, shown, last>>
printfVars == <<read_buffer, shown, last>>

-----------------------------------------------------------------------------
NUL == 0
Percent == 37
Zero == 48
LetterA == 65
LetterC == 99
LetterD == 100
LetterP == 112
LetterS == 115
LetterX == 120
NoNumber == [conv |-> NUL, arg |-> 0, text |-> <<>>]

\* Mutant: the letters begin at ten and not at zero.
HexGlyph_LetterOff(rem) == IF rem < 10 THEN Zero + rem ELSE LetterA + rem
HexGlyph(rem) == IF rem \div 10 < 1 THEN Zero + (rem % 10) ELSE LetterA + (rem % 10)

printHex[v \in Word] ==
    IF v \div 16 = 0 THEN <<HexGlyph(v % 16)>>
    ELSE Append(printHex[v \div 16], HexGlyph(v % 16))

printPointer[v \in Word] ==
    IF v \div 16 = 0 THEN <<Zero, LetterX, HexGlyph(v % 16)>>
    ELSE Append(printPointer[v \div 16], HexGlyph(v % 16))

\* The loop of printInt ends with the first quotient that is not positive,
\* and the remainder of a negative number is negative.
Digits[n \in 0 .. INTMAX] ==
    IF n \div 10 = 0 THEN <<Zero + n>>
    ELSE Append(Digits[n \div 10], Zero + (n % 10))
printInt(n) == IF n >= 0 THEN Digits[n] ELSE <<Zero - ((-n) % 10)>>

\* An int argument, and its extension to a word.
Low(arg) == ToInt(arg % (2 * (INTMAX + 1)))
Conversions == {LetterC, LetterS, LetterD, LetterX, LetterP}

\* A format that is one conversion has its argument.
Single(fmt) == Len(fmt) = 2 /\ fmt[1] = Percent /\ fmt[2] \in Conversions
ASSUME CallsAssumption ==
    \A call \in Calls :
        /\ call.fmt \in Seq(Nat) /\ call.args \in Seq(Word)
        /\ Single(call.fmt) => call.args # <<>>

Converted(conv, arg) ==
    CASE conv = LetterC -> <<arg>>
      [] conv = LetterS -> StringAt[arg]
      [] conv = LetterD -> printInt(Low(arg))
      [] conv = LetterX -> printHex[Wrapped(Low(arg))]
      [] conv = LetterP -> printPointer[Wrapped(Low(arg))]

\* The loop over the format: what is stored of it, and the arguments left.  A
\* letter after '%' that is no conversion is printed, and a second '%' counts
\* as the first.
Formatted(fmt, args) ==
    LET Converts(i) == i > 1 /\ fmt[i - 1] = Percent /\ fmt[i] \in Conversions
        after[i \in 0 .. Len(fmt)] ==
            IF i = 0 THEN [out |-> <<>>, args |-> args]
            ELSE IF Converts(i)
            THEN [out |-> after[i - 1].out \o Converted(fmt[i], Head(after[i - 1].args)),
                  args |-> Tail(after[i - 1].args)]
            ELSE IF fmt[i] = Percent THEN after[i - 1]
            ELSE [after[i - 1] EXCEPT !.out = Append(@, fmt[i])]
    IN  after[Len(fmt)].out

\* What a write shows of a buffer.  The blank each write of libc shows before it
\* by a write of its own (libc/write.c:8) is left out.
UpToNUL(text) ==
    SelectInSeq(text, LAMBDA c : c = NUL)
Visible(text) ==
    IF UpToNUL(text) = 0 THEN text ELSE SubSeq(text, 1, UpToNUL(text) - 1)

\* printf(fmt, args), called by the program or by malloc: it stores behind
\* what it stored before, and writes all of it.
Printed(fmt, args) ==
    /\ Len(read_buffer) <= MAXTEXT
    /\ read_buffer' = read_buffer \o Formatted(fmt, args)
    /\ shown' = Visible(read_buffer')
    /\ last' = IF Single(fmt)
               THEN [conv |-> fmt[2], arg |-> args[1], text |-> Formatted(fmt, args)]
               ELSE NoNumber

printf(call) == Printed(call.fmt, call.args) /\ UNCHANGED <<heap_ptr, blocks>>

-----------------------------------------------------------------------------
\* Mutant: a size that is no multiple is not rounded up.
Rounded_Down(size) == (size \div ALIGN) * ALIGN
\* a, as built.
Rounded(size) == ToInt(ALIGN + (size \div ALIGN) * ALIGN)

mallocNegative(size) ==
    /\ size < 0
    /\ Printed(<<NoMemory>>, <<>>)
    /\ UNCHANGED <<heap_ptr, blocks>>

mallocGives(size) ==
    /\ size >= 0
    /\ Wrapped(heap_ptr + Rounded(size)) <= HEAP_END
    /\ heap_ptr' = Wrapped(heap_ptr + Rounded(size))
    /\ blocks' = Append(blocks, [at |-> heap_ptr, size |-> size])
    /\ UNCHANGED printfVars

\* puts shows the message.
mallocRefuses(size) ==
    /\ size >= 0
    /\ Wrapped(heap_ptr + Rounded(size)) > HEAP_END
    /\ heap_ptr' = Wrapped(Wrapped(heap_ptr + Rounded(size)) - Rounded(size))
    /\ shown' = <<NoMemory>>
    /\ last' = NoNumber
    /\ UNCHANGED <<blocks, read_buffer>>

Init ==
    /\ heap_ptr = HEAP_START
    /\ blocks = <<>>
    /\ read_buffer = <<>>
    /\ shown = <<>>
    /\ last = NoNumber

Next ==
    \/ \E size \in Sizes :
           mallocNegative(size) \/ mallocGives(size) \/ mallocRefuses(size)
    \/ \E call \in Calls : printf(call)

Spec == Init /\ [][Next]_vars

-----------------------------------------------------------------------------
\* Types.
TypeOK ==
    /\ heap_ptr \in HEAP_START .. HEAP_END
    /\ blocks \in Seq([at : HEAP_START .. HEAP_END, size : 0 .. INTMAX])
    /\ read_buffer \in Seq(Int) /\ shown \in Seq(Int)

\* No block malloc handed out (malloc.c:49-64) reaches into another one or
\* out of the heap, whatever sizes were asked for and refused, those included
\* with which the rounding overflows.
BlocksApart ==
    \A i \in DOMAIN blocks :
        /\ blocks[i].at + blocks[i].size <= heap_ptr
        /\ \A j \in DOMAIN blocks :
               i < j => blocks[i].at + blocks[i].size <= blocks[j].at

\* A refusal (malloc.c:58-62) leaves no trace: a block begins where the one
\* before ends, up to the rounding.
NothingLost ==
    LET End(i) == blocks[i].at + blocks[i].size + ALIGN
    IN  /\ blocks = <<>> => heap_ptr = HEAP_START
        /\ \A i \in DOMAIN blocks :
               IF i = Len(blocks) THEN heap_ptr <= End(i) ELSE blocks[i + 1].at <= End(i)

\* A number that printf printed (printf.c:28-89, 165-194) reads back as the
\* number that was passed: not a negative int, and not a word that is cut to
\* an int and is then another one.
Worth(g) ==
    IF g \in Zero .. Zero + 9 THEN g - Zero
    ELSE IF g \in LetterA .. LetterA + 5 THEN g - LetterA + 10
    ELSE WORDS
Value(base, text) ==
    LET value[i \in 0 .. Len(text)] ==
            IF i = 0 THEN 0 ELSE value[i - 1] * base + Worth(text[i])
    IN  value[Len(text)]
Exact(base, text, n) ==
    /\ Value(base, text) = n
    /\ Len(text) > 1 => text[1] # Zero
ReadsBack ==
    /\ last.conv = LetterD /\ last.arg \in 0 .. INTMAX => Exact(10, last.text, last.arg)
    /\ last.conv = LetterX /\ Wrapped(Low(last.arg)) = last.arg =>
           Exact(16, last.text, last.arg)
    /\ last.conv = LetterP /\ Wrapped(Low(last.arg)) = last.arg =>
           /\ SubSeq(last.text, 1, 2) = <<Zero, LetterX>>
           /\ Exact(16, SubSeq(last.text, 3, Len(last.text)), last.arg)

\* A printf shows what it was asked to ("for(int i=0;i<buff_offset;i++)
\* { read_buffer[i] = '\0'; }", printf.c:158-160, would empty the buffer).
ShowsItsText ==
    [][\A call \in Calls :
          printf(call) => shown' = Visible(Formatted(call.fmt, call.args))]_vars
=============================================================================
