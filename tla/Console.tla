------------------------------- MODULE Console -------------------------------
(***************************************************************************)
(* The text screen: kprintf, clearChar, clearScreen and doScroll of        *)
(* sys/kprintf.c, as sys_write, clearscreen and the echo of the keyboard   *)
(* handler use them.  x, y and vPointer are kept apart in the code; they   *)
(* are one record here, with pos for vPointer in cells.  NUL and space     *)
(* look the same: Blank.  No text of the repository has a '\r'.  A call is *)
(* one step.                                                               *)
(*                                                                         *)
(* rows and sound are ghosts: the lines a terminal of that width would     *)
(* hold, and whether nothing has happened yet that the code does not keep  *)
(* apart from them.                                                        *)
(***************************************************************************)
EXTENDS Integers, Sequences, SequencesExt

CONSTANTS Characters,  \* what a cell may show
          COLS,     \* cells of a row (80)
          BOTTOM,   \* the last row before scrolling (22)
          Texts,    \* what programs write
          Behinds,  \* what may lie behind the NUL of a text, up to the next
          Keys,     \* glyphs that are typed
          MAXPOS,   \* bound: no write begins beyond this cell
          MAXLINE   \* bound: no line that is typed is longer

Blank == " "
Newline == "\n"

ConsoleConstants ==
    /\ COLS \in Nat \ {0} /\ BOTTOM \in Nat /\ MAXPOS \in Nat
    /\ {Blank, Newline} \subseteq Characters
    /\ Texts \cup Behinds \subseteq Seq(Characters) /\ Keys \subseteq Characters
ASSUME ConsoleAssumption == ConsoleConstants

ROWS == BOTTOM + 3               \* 25 are visible, 23 are used

VARIABLES scr,    \* [cells, x, y, pos, rows, sound]
          typed,  \* scanLength while a line is read, else Idle
          said    \* ghost: the last line a program wrote, until a key is hit

screenVars == <<scr, typed, said>>
Idle == -2
ScreenCell == 0 .. MAXPOS + ROWS * COLS

\* Ghost: a terminal's lines after a glyph and after a new line.
Wrapped(rows) == IF Len(Last(rows)) = COLS THEN Append(rows, <<>>) ELSE rows
Kept(rows) == IF Len(rows) > ROWS THEN SubSeq(rows, Len(rows) - ROWS + 1, Len(rows))
              ELSE rows
WithGlyph(rows, c) ==
    LET w == Wrapped(rows) IN Kept(Append(Front(w), Append(Last(w), c)))
WithLine(rows) == Kept(Append(rows, <<>>))

\* Ghost: a glyph belongs on the rows in use, left of their edge.
printChar(s, c) ==
    [s EXCEPT !.cells[s.pos] = c, !.pos = @ + 1, !.x = @ + 1,
              !.rows = WithGlyph(@, c),
              !.sound = @ /\ s.x < COLS /\ s.y <= BOTTOM]

\* A new line moves by what is left of the row, even if that is negative.
newLine(s) ==
    [s EXCEPT !.pos = @ + (COLS - s.x), !.y = @ + 1, !.x = 0,
              !.rows = WithLine(@)]

\* Mutant: one row too few moves up.
doScroll_RowShort(s) ==
    [s EXCEPT !.cells = [p \in ScreenCell |->
                            IF p < BOTTOM * COLS THEN s.cells[p + COLS]
                            ELSE IF p \in (BOTTOM + 1) * COLS .. (BOTTOM + 2) * COLS - 1
                                 THEN Blank ELSE s.cells[p]],
              !.y = BOTTOM, !.pos = BOTTOM * COLS]

\* doScroll: the first rows move up, the row below them is cleared.
doScroll(s) ==
    [s EXCEPT !.cells = [p \in ScreenCell |->
                            IF p < (BOTTOM + 1) * COLS THEN s.cells[p + COLS]
                            ELSE IF p < (BOTTOM + 2) * COLS THEN Blank
                            ELSE s.cells[p]],
              !.y = BOTTOM, !.pos = BOTTOM * COLS]

\* Mutant: the wrap keeps the row.
Settle_SameRow(s) ==
    LET up == IF s.y > BOTTOM THEN doScroll([s EXCEPT !.x = 0]) ELSE s
    IN  IF up.x = COLS THEN [up EXCEPT !.x = 0] ELSE up

\* What kprintf does before every character of the format: scroll, wrap.
\* Ghost: after a wrap on the last row the next character is stored below it,
\* and the scroll that follows goes back to the begin of that row.
Settle(s) ==
    LET up == IF s.y > BOTTOM THEN doScroll([s EXCEPT !.x = 0]) ELSE s
    IN  IF up.x = COLS
        THEN [up EXCEPT !.x = 0, !.y = @ + 1, !.rows = Kept(Wrapped(@)),
                        !.sound = @ /\ up.y < BOTTOM]
        ELSE up

\* kprintf of one character of the format, or of one "%c".
kputc(s, c) == IF c = Newline THEN newLine(Settle(s)) ELSE printChar(Settle(s), c)

\* A character of a "%s": no scroll and no wrap, and the one after a new line
\* is printed whatever it is.
Raw(st) == st.next = "raw"
PutChar(st, c) ==
    IF Raw(st)
    THEN [next |-> "any",
          s |-> [printChar(st.s, c) EXCEPT !.sound = @ /\ c # Newline]]
    ELSE IF c = Newline THEN [next |-> "raw", s |-> newLine(st.s)]
    ELSE [next |-> "any", s |-> printChar(st.s, c)]

\* A text whose last new line is taken as one: the loop steps over it, prints
\* the NUL and goes on with what lies behind.
RunsOn(text) ==
    LET ends[i \in 0 .. Len(text)] == i > 0 /\ text[i] = Newline /\ ~ ends[i - 1]
    IN  ends[Len(text)]
StringOf(text, behind) ==
    IF RunsOn(text) THEN Append(text, Blank) \o behind ELSE text

\* kprintf of a "%s".
kputs(s, string) ==
    LET after[i \in 0 .. Len(string)] ==
            IF i = 0 THEN [next |-> "any", s |-> Settle(s)]
            ELSE PutChar(after[i - 1], string[i])
    IN  after[Len(string)].s

Prompted(text) == \E i \in DOMAIN text : text[i] = "@"

Cleared(cells) ==
    [p \in ScreenCell |-> IF p < (BOTTOM + 1) * COLS THEN Blank ELSE cells[p]]

ScreenInit ==
    /\ scr = [cells |-> [p \in ScreenCell |-> Blank], x |-> 0, y |-> 0, pos |-> 0,
              rows |-> <<<<>>>>, sound |-> TRUE]
    /\ typed = Idle
    /\ said = <<>>

\* sys_write: a text with '@' in it is a prompt and stays on its row.  Ghost: a
\* terminal shows nothing of what lies behind a text.
Write(text, behind) ==
    LET s == [kputs(scr, StringOf(text, behind)) EXCEPT
                 !.sound = @ /\ (RunsOn(text) => behind = <<>>)]
    IN
    /\ typed = Idle
    /\ scr.pos <= MAXPOS
    /\ scr' = IF Prompted(text) THEN s ELSE kputc(kputc(s, Blank), Newline)
    /\ said' = IF Prompted(text) THEN said ELSE text
    /\ typed' = typed

\* clear: clearScreen.
Clear ==
    /\ typed = Idle
    /\ scr' = [scr EXCEPT !.cells = Cleared(@), !.x = 0, !.y = 0, !.pos = 0,
                          !.rows = <<<<>>>>,
                          !.sound = \A p \in ScreenCell : Cleared(scr.cells)[p] = Blank]
    /\ said' = <<>>
    /\ typed' = typed

\* A program reads a line.
Read == typed = Idle /\ typed' = 0 /\ UNCHANGED <<scr, said>>

\* The handler echoes a key.
Echo(c) ==
    /\ typed \in -1 .. MAXLINE - 1
    /\ scr.pos <= MAXPOS
    /\ scr' = kputc(scr, c)
    /\ typed' = typed + 1
    /\ said' = <<>>

\* A control key is echoed as two glyphs and not stored.
EchoControl ==
    /\ typed \in -1 .. MAXLINE - 1
    /\ scr.pos <= MAXPOS
    /\ \E c, d \in Keys : scr' = kputc(kputc(scr, c), d)
    /\ said' = <<>>
    /\ typed' = typed

\* Tab is echoed whether or not a line is read, and not stored.
EchoTab ==
    /\ scr.pos <= MAXPOS
    /\ scr' = kputc(scr, Blank)
    /\ said' = <<>>
    /\ typed' = typed

\* clearChar.  Ghost: column 0 is where the code and a terminal part.
clearChar(s) ==
    [s EXCEPT !.x = IF s.x > 0 THEN s.x - 1 ELSE COLS,
              !.y = IF s.x > 0 THEN s.y ELSE s.y - 1,
              !.cells[s.pos - 1] = Blank, !.pos = @ - 1,
              !.rows = IF Last(@) = <<>> THEN @
                       ELSE Append(Front(@), Front(Last(@))),
              !.sound = @ /\ s.x > 0]

\* Backspace: one character more than was typed can be erased.
EchoBackspace ==
    /\ typed >= 0
    /\ scr.pos > 0
    /\ typed' = typed - 1
    /\ scr' = clearChar(scr)
    /\ said' = <<>>

\* Enter ends the line.
EchoEnter ==
    /\ typed >= 0
    /\ scr' = kputc(scr, Newline)
    /\ typed' = Idle
    /\ said' = <<>>

ScreenNext ==
    \/ \E text \in Texts, behind \in Behinds : Write(text, behind)
    \/ \E c \in Keys : Echo(c)
    \/ EchoControl \/ EchoTab \/ Clear \/ Read \/ EchoBackspace \/ EchoEnter

ScreenSpec == ScreenInit /\ [][ScreenNext]_screenVars

-----------------------------------------------------------------------------
\* Types; no step stores left of the screen.
ScreenTypeOK ==
    /\ scr.x \in Nat /\ scr.y \in -1 .. ROWS + Len(scr.rows)
    /\ scr.pos \in ScreenCell
    /\ typed \in Idle .. MAXLINE
    /\ scr.rows # <<>> /\ \A i \in DOMAIN scr.rows : Len(scr.rows[i]) <= COLS

\* x, y and vPointer are updated apart (kprintf.c:16-66, 150-186): they agree
\* as long as no string ran past a row and no erasure went past its begin.
CursorAgrees ==
    scr.sound => /\ scr.pos = scr.y * COLS + scr.x
                 /\ scr.x <= COLS /\ scr.y <= BOTTOM + 1

\* The screen (kprintf.c:42-66, 142-224) shows the lines a terminal would,
\* the current one at row y, and nothing below.
Line(s, r) ==
    LET i == Len(s.rows) - (s.y - r)
    IN  IF i \in DOMAIN s.rows THEN s.rows[i] ELSE <<>>
Shows(s, r) ==
    \A k \in 1 .. COLS :
        s.cells[r * COLS + k - 1] =
            IF k <= Len(Line(s, r)) THEN Line(s, r)[k] ELSE Blank
ScreenShowsText == scr.sound => \A r \in 0 .. ROWS - 1 : Shows(scr, r)

\* A text is still on the screen when the prompt is shown after it ("cat :
\* prints the content of file", README:43).
TextReadable ==
    \E p \in 0 .. ROWS * COLS - Len(said) :
        \A k \in DOMAIN said : scr.cells[p + k - 1] = said[k]

\* clear leaves nothing on the screen ("clear : to clear the screen",
\* README:39).
ClearBlanks ==
    [][Clear => \A p \in 0 .. ROWS * COLS - 1 : scr'.cells[p] = Blank]_screenVars
=============================================================================
