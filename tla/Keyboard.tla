------------------------------ MODULE Keyboard ------------------------------
(***************************************************************************)
(* Line input of sys/keyboard.c: readFromStdin, which a read(0, ...)       *)
(* system call runs, and keyboard_handler, which interrupts it.            *)
(*                                                                         *)
(* The handler runs with interrupts off, so each key is one atomic step.   *)
(* The reader opens itself to interrupts with sti and walks the shared     *)
(* buffer byte by byte, so a key may fall between any two of its steps.    *)
(* User code runs with interrupts on too: keys also arrive between reads.  *)
(*                                                                         *)
(* Nothing checks the bounds of scanBuffer.  In the built kernel the byte  *)
(* after it is the low byte of scanFlag and the bytes before it are        *)
(* padding, and that is where writes past either end go here.              *)
(***************************************************************************)
EXTENDS Integers, Sequences

CONSTANTS SCANBUF,     \* cells of scanBuffer (1024)
          Key,         \* the keys that are not modifiers and not Enter
          Char,        \* what a cell of the buffer may hold
          NUL, BLANK,  \* '\0' and ' '
          Plain,       \* usKeyboard: what each key stores
          Shifted,     \* what each key stores while shiftFlag is 1
          EchoOnly,    \* keys that, unshifted, only echo (Escape, Delete)
          BACKSPACE, COMMA, PERIOD

Cell     == 0 .. SCANBUF - 1
ShiftKey == {"left", "right"}

\* scanFlag after a character other than NUL was stored over it.
Garbage == 2

ASSUME KeyboardAssumption ==
    /\ SCANBUF \in Nat \ {0}
    /\ {BACKSPACE, COMMA, PERIOD} \subseteq Key
    /\ EchoOnly \subseteq Key
    /\ {NUL, BLANK} \subseteq Char
    /\ Plain \in [Key -> Char]
    /\ Shifted \in [Key -> Char]

VARIABLES shiftFlag, controlFlag,
          held,        \* ghost: the shift keys that are down
          scanFlag, scanLength, scanBuffer,
          pc,          \* where the reader is
          n,           \* index of the memset2 or memcpy2 loop it is in
          copyLen,     \* the length memcpy2 or memset2 was called with
          got,         \* the caller's buffer
          line,        \* ghost: the line as the user has typed and erased it
          spoiled      \* ghost: the line ran past an end of scanBuffer

modifiers == <<shiftFlag, controlFlag, held>>
shared    == <<scanFlag, scanLength, scanBuffer>>
ghosts    == <<line, spoiled>>
reader    == <<pc, n, copyLen, got>>

vars == <<modifiers, shared, ghosts, reader>>

Init == /\ shiftFlag = 0
        /\ controlFlag = 0
        /\ held = {}
        /\ scanFlag = 0
        /\ scanLength = 0
        /\ scanBuffer = [i \in Cell |-> NUL]
        /\ pc = "user"
        /\ n = 0
        /\ copyLen = 0
        /\ got = <<>>
        /\ line = <<>>
        /\ spoiled = FALSE

-----------------------------------------------------------------------------
(* keyboard_handler.  A key that only echoes changes nothing here and has  *)
(* no action: Tab, any key while Control is down and a read is going on,   *)
(* unshifted Escape and Delete, and every key while nothing is being read. *)

\* The handler runs whenever interrupts are on: always, until the machine
\* stops in a page fault.
Interruptible == pc # "stopped"

\* The scan state as one value, to follow a key that stores two characters.
Scan == [flag |-> scanFlag, len |-> scanLength, buf |-> scanBuffer,
         line |-> line, bad |-> spoiled]

SetScan(s) == /\ scanFlag' = s.flag
              /\ scanLength' = s.len
              /\ scanBuffer' = s.buf
              /\ line' = s.line
              /\ spoiled' = s.bad

\* scanBuffer[i] = c, wherever i points.
Store(s, i, c) ==
    [s EXCEPT !.buf  = IF i \in Cell THEN [@ EXCEPT ![i] = c] ELSE @,
              !.flag = IF i # SCANBUF THEN @ ELSE IF c = NUL THEN 0 ELSE Garbage,
              !.bad  = @ \/ i < 0 \/ (i = SCANBUF /\ c # NUL)]

\* Mutant: scanBuffer[++scanLength] = c;
Put_PreIncrement(s, c) ==
    IF s.flag = 1
    THEN [Store(s, s.len + 1, c) EXCEPT !.len = @ + 1, !.line = Append(@, c)]
    ELSE s

\* if(scanFlag == 1) scanBuffer[scanLength++] = c;
Put(s, c) ==
    IF s.flag = 1
    THEN [Store(s, s.len, c) EXCEPT !.len = @ + 1, !.line = Append(@, c)]
    ELSE s

ShiftDown(k) == /\ Interruptible
                /\ shiftFlag' = 1
                /\ held' = held \cup {k}
                /\ UNCHANGED <<controlFlag, shared, ghosts, reader>>

\* Only the release code of the left shift key, 0xAA, is looked for.
ShiftUp(k) == /\ Interruptible
              /\ k \in held
              /\ shiftFlag' = IF k = "left" THEN 0 ELSE shiftFlag
              /\ held' = held \ {k}
              /\ UNCHANGED <<controlFlag, shared, ghosts, reader>>

ControlKey(down) == /\ Interruptible
                    /\ controlFlag' = IF down THEN 1 ELSE 0
                    /\ UNCHANGED <<shiftFlag, held, shared, ghosts, reader>>

Enter == /\ Interruptible
         /\ scanFlag = 1
         /\ SetScan(Store([Scan EXCEPT !.flag = 0], scanLength, NUL))
         /\ UNCHANGED <<modifiers, reader>>

\* The case of the comma falls through into the one of the period.
ShiftedKey(k) ==
    /\ Interruptible
    /\ scanFlag = 1
    /\ shiftFlag = 1
    /\ LET once == Put(Scan, Shifted[k])
       IN  SetScan(IF k = COMMA THEN Put(once, Shifted[PERIOD]) ELSE once)
    /\ UNCHANGED <<modifiers, reader>>

PlainKey(k) ==
    /\ Interruptible
    /\ scanFlag = 1
    /\ shiftFlag = 0
    /\ controlFlag = 0
    /\ k \notin EchoOnly \cup {BACKSPACE}
    /\ SetScan(Put(Scan, Plain[k]))
    /\ UNCHANGED <<modifiers, reader>>

\* The guard scanLength >= 0 lets the length of an empty line drop to -1, where
\* the blank lands before the buffer; below 0 the key does nothing.
Backspace ==
    /\ Interruptible
    /\ scanFlag = 1
    /\ shiftFlag = 0
    /\ controlFlag = 0
    /\ scanLength >= 0
    /\ LET s == Store(Scan, scanLength - 1, BLANK)
       IN  SetScan([s EXCEPT !.len  = scanLength - 1,
                             !.line = IF @ = <<>> THEN @ ELSE SubSeq(@, 1, Len(@) - 1)])
    /\ UNCHANGED <<modifiers, reader>>

Handler == \/ \E k \in ShiftKey : ShiftDown(k) \/ ShiftUp(k)
           \/ \E down \in BOOLEAN : ControlKey(down)
           \/ Enter
           \/ \E k \in Key : ShiftedKey(k) \/ PlainKey(k)
           \/ Backspace
-----------------------------------------------------------------------------
(* readFromStdin, between the system call gate and the return to user mode.*)

\* read(0, ...): the gate turns interrupts off and sti turns them on again.
StartRead ==
    /\ pc = "user"
    /\ pc' = "clear"
    /\ n' = 0
    /\ got' = <<>>
    /\ UNCHANGED <<copyLen, modifiers, shared, ghosts>>

\* memset2(scanBuffer, '\0', 1024)
ClearByte ==
    /\ pc = "clear"
    /\ n \in Cell
    /\ scanBuffer' = [scanBuffer EXCEPT ![n] = NUL]
    /\ n' = n + 1
    /\ UNCHANGED <<pc, copyLen, got, modifiers, scanFlag, scanLength, ghosts>>

\* scanFlag = 1: from here on keys are stored.
Arm ==
    /\ pc = "clear"
    /\ n \notin Cell
    /\ scanFlag' = 1
    /\ pc' = "spin"
    /\ line' = <<>>
    /\ spoiled' = FALSE
    /\ UNCHANGED <<n, copyLen, got, modifiers, scanLength, scanBuffer>>

\* Mutant: an empty line is waited out.
SpinEnds_NotEmpty ==
    /\ pc = "spin"
    /\ scanFlag = 0
    /\ scanLength # 0
    /\ pc' = "copy"
    /\ n' = 0
    /\ copyLen' = scanLength
    /\ UNCHANGED <<got, modifiers, shared, ghosts>>

\* Mutant: the last character is taken for the newline.
SpinEnds_DropsLast ==
    /\ pc = "spin"
    /\ scanFlag = 0
    /\ pc' = "copy"
    /\ n' = 0
    /\ copyLen' = scanLength - 1
    /\ UNCHANGED <<got, modifiers, shared, ghosts>>

\* while(scanFlag != 0) ends; memcpy2 is called with the length of the line.
SpinEnds ==
    /\ pc = "spin"
    /\ scanFlag = 0
    /\ pc' = "copy"
    /\ n' = 0
    /\ copyLen' = scanLength
    /\ UNCHANGED <<got, modifiers, shared, ghosts>>

\* What a cell of scanBuffer, or the byte after it, reads as.
CellOrFlag(i) == IF i \in Cell THEN scanBuffer[i] ELSE NUL

CopyByte ==
    /\ pc = "copy"
    /\ n < copyLen
    /\ got' = Append(got, CellOrFlag(n))
    /\ n' = n + 1
    /\ UNCHANGED <<pc, copyLen, modifiers, shared, ghosts>>

\* memcpy2 compares i with an unsigned length: for a negative one it runs off
\* the mapped memory, and the page fault it takes stops the machine.
CopyRunsAway ==
    /\ pc = "copy"
    /\ copyLen < 0
    /\ pc' = "stopped"
    /\ UNCHANGED <<n, copyLen, got, modifiers, shared, ghosts>>

\* memcpy2 is done; memset2 is called with scanLength, which is read again.
CopyEnds ==
    /\ pc = "copy"
    /\ n = copyLen
    /\ pc' = "wipe"
    /\ n' = 0
    /\ copyLen' = scanLength
    /\ UNCHANGED <<got, modifiers, shared, ghosts>>

WipeByte ==
    /\ pc = "wipe"
    /\ n < copyLen
    /\ IF n \in Cell
       THEN /\ scanBuffer' = [scanBuffer EXCEPT ![n] = NUL]
            /\ UNCHANGED scanFlag
       ELSE /\ scanFlag' = 0
            /\ UNCHANGED scanBuffer
    /\ n' = n + 1
    /\ UNCHANGED <<pc, copyLen, got, modifiers, scanLength, ghosts>>

\* scanFlag = 0
Disarm ==
    /\ pc = "wipe"
    /\ n >= copyLen
    /\ scanFlag' = 0
    /\ pc' = "zero"
    /\ UNCHANGED <<n, copyLen, got, modifiers, scanLength, scanBuffer, ghosts>>

\* Mutant: the length is left for the next line.
FinishRead_KeepsLength ==
    /\ pc = "zero"
    /\ pc' = "user"
    /\ UNCHANGED <<n, copyLen, got, modifiers, shared, ghosts>>

\* scanLength = 0, cli, and the return to user mode.
FinishRead ==
    /\ pc = "zero"
    /\ scanLength' = 0
    /\ pc' = "user"
    /\ UNCHANGED <<n, copyLen, got, modifiers, scanFlag, scanBuffer, ghosts>>

\* The steps the reader takes on its own once it has been called.
ReaderStep == \/ ClearByte \/ Arm \/ SpinEnds \/ CopyByte \/ CopyRunsAway
              \/ CopyEnds \/ WipeByte \/ Disarm \/ FinishRead

Next == Handler \/ StartRead \/ ReaderStep

\* One processor runs the reader and nothing preempts it for good: the timer
\* handler never switches tasks, and a key interrupt returns.
Fairness == WF_vars(ReaderStep)

Spec == Init /\ [][Next]_vars /\ Fairness

-----------------------------------------------------------------------------
(* Properties.                                                             *)

TypeOK ==
    /\ shiftFlag \in {0, 1}
    /\ controlFlag \in {0, 1}
    /\ held \subseteq ShiftKey
    /\ scanFlag \in {0, 1, Garbage}
    /\ scanLength \in -1 .. SCANBUF + 1
    /\ scanBuffer \in [Cell -> Char]
    /\ pc \in {"user", "clear", "spin", "copy", "wipe", "zero", "stopped"}
    /\ n \in 0 .. SCANBUF + 1
    /\ copyLen \in -1 .. SCANBUF + 1
    /\ got \in Seq(Char)
    /\ line \in Seq(Char)
    /\ spoiled \in BOOLEAN

\* A read returns exactly what was typed since it began, no more and no less,
\* whatever keys fell between the steps of the reader, before it or after Enter,
\* unless that line ran past an end of scanBuffer.
DeliversLine == (pc \in {"wipe", "zero", "user"} /\ ~spoiled) => got = line

\* Keys change the buffer only while the reader waits for Enter: the handler
\* never races with the memset2, memcpy2 and memset2 of readFromStdin.
HandlerKeepsOff ==
    [][pc # "spin" /\ pc' = pc /\ n' = n => UNCHANGED <<scanFlag, scanLength, scanBuffer>>]_vars

\* No line leaves anything behind for the next: when a read begins, the length
\* it starts from is 0, whatever the last line did to it.
StartsFresh == pc \in {"user", "clear"} => scanFlag = 0 /\ scanLength = 0

\* The machine stops only after an empty line was erased once more and ended.
StopsOnlyWhenErased == pc = "stopped" => spoiled /\ scanLength = -1

\* scanFlag is overwritten, so that Enter no longer ends the read, only by a
\* line that is longer than the buffer, and the read it hangs is its own.
HangsOnlyWhenOverlong == scanFlag = Garbage => pc = "spin" /\ Len(line) > SCANBUF

\* A key counts as shifted only while a shift key is down: the table of
\* keyboard.c:78-81 has the code of both of them set the flag.
ShiftFollowsKeys == shiftFlag = 1 => held # {}

\* Once Enter has cleared scanFlag the read comes to an end, however many keys
\* follow: it returns to user mode, or stops the machine on a spoiled line.
EnterEndsRead == (pc = "spin" /\ scanFlag = 0) ~> (pc \in {"user", "stopped"})
=============================================================================
