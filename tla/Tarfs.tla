-------------------------------- MODULE Tarfs --------------------------------
(***************************************************************************)
(* The root file system: the tar archive linked into the kernel, the walk  *)
(* of tarfs_init (sys/tarfs.c) that makes the table tarfs_fs of it at      *)
(* boot, and the second walk of getFileOffset (sys/dir.c) that execve      *)
(* makes every time.  One header per step at boot.                         *)
(*                                                                         *)
(* A name is its components: "a/b" is <<"a", "b">>, a name that ends in a  *)
(* slash ends in the empty component Nil, and the empty string is <<Nil>>. *)
(***************************************************************************)
EXTENDS Integers, Sequences, SequencesExt

CONSTANTS Archives,  \* the archives to consider: sequences of entries
          BLOCK,     \* bytes of a tar block (512)
          ENTRIES,   \* entries of tarfs_fs (100)
          INTMAX,    \* the largest int (2^31 - 1)
          NotFound   \* what getFileOffset answers at the end (999)

Nil == ""                     \* the component behind a final slash
DirFlag == 5
FileFlag == 0
Blank == <<Nil>>                \* the empty string
RootName == <<"rootfs", Nil>>

\* The name of an entry's directory: up to the last slash but the final one.
DirName(name) ==
    LET own == IF Last(name) = Nil THEN Front(name) ELSE name
    IN  Append(Front(own), Nil)

\* The number that digits denote.
Numeral(digits, base) ==
    LET Value[n \in 0 .. Len(digits)] ==
            IF n = 0 THEN 0 ELSE base * Value[n - 1] + digits[n]
    IN  Value[Len(digits)]

\* The size in the header of an entry, which is octal.
TrueSize(digits) == Numeral(digits, 8)

\* charToInt: the digits read in base ten.
charToInt(digits) == Numeral(digits, 10)

\* Any block, as the walks read it: a name where a header has its name (Blank
\* if the block begins with a zero), and the digits where a header has its
\* type and its size.
Block == [name : Seq(STRING) \ {<<>>}, flag : Nat, digits : Seq(0 .. 9)]

\* The header of a file or a directory, and the blocks of its contents.
Entry == [name : Seq(STRING), flag : {DirFlag, FileFlag}, digits : Seq(0 .. 7),
          data : Seq(Block)]

\* What tar makes of the list of find (Makefile:60): only the name of a
\* directory ends in a slash, a directory comes before what is in it, no name
\* comes twice, and no component is a dot.  The contents may be anything, but
\* digits in headers and contents make numbers that the cast to an int in
\* the walks keeps.
Made(a) ==
    /\ a \in Seq(Entry) \ {<<>>}
    /\ \A i \in DOMAIN a :
          /\ a[i].name \notin {<<>>, Blank}
          /\ Last(a[i].name) = Nil <=> a[i].flag = DirFlag
          /\ \A k \in DOMAIN a[i].name : a[i].name[k] \notin {".", ".."}
          /\ \A j \in DOMAIN a : a[j].name = a[i].name => j = i
          /\ \/ DirName(a[i].name) = Blank
             \/ \E j \in 1 .. i - 1 : a[j].name = DirName(a[i].name)
          /\ Len(a[i].data) = (TrueSize(a[i].digits) + BLOCK - 1) \div BLOCK
          /\ charToInt(a[i].digits) <= INTMAX
          /\ \A k \in DOMAIN a[i].data : charToInt(a[i].data[k].digits) <= INTMAX

ASSUME TarfsAssumption ==
    /\ BLOCK \in Nat \ {0}
    /\ ENTRIES \in Nat \ {0}
    /\ \A a \in Archives : Made(a) /\ Len(a) + 1 < ENTRIES

VARIABLES archive,   \* the archive that is linked in
          temp,      \* the offset of the next header to read
          table,     \* tarfs_fs: its entry i is table[i + 1]
          machine    \* "boots", "runs", or how it ended

-----------------------------------------------------------------------------
(* What the archive holds (POSIX ustar, made by tar in the Makefile).      *)

\* Where the header of entry i is: behind the entries before it.
At(i) ==
    LET Before[j \in 0 .. Len(archive)] ==
            IF j = 0 THEN 0
            ELSE Before[j - 1] + BLOCK * (1 + Len(archive[j].data))
    IN  Before[i - 1]

\* The entry that has its header or a block of its contents at an offset.
Holding(offset) ==
    {i \in DOMAIN archive :
        \E k \in 0 .. Len(archive[i].data) : offset = At(i) + BLOCK * k}

\* The zeros that tar puts behind the last entry.
ZeroBlock == [name |-> Blank, flag |-> FileFlag, digits |-> <<>>]

\* The block at an offset, read as a header.  What lies behind the archive
\* reads as zeros.
HeaderAt(offset) ==
    IF Holding(offset) = {} THEN ZeroBlock
    ELSE LET i == CHOOSE i \in Holding(offset) : TRUE
             k == (offset - At(i)) \div BLOCK
         IN  IF k = 0 THEN archive[i] ELSE archive[i].data[k]

-----------------------------------------------------------------------------
\* Mutant: the power of eight already grows with the first digit.
decimalSize_Shifted(digits) ==
    LET Sum[v \in 0 .. charToInt(digits)] ==
            IF v = 0 THEN 0 ELSE (v % 10) + 8 * Sum[v \div 10]
    IN  8 * Sum[charToInt(digits)]

\* The loop that turns the base ten number back into what its digits say in
\* base eight, lowest digit first.  Each digit comes from the number cut to an
\* int, which is the number itself (Made).
decimalSize(digits) ==
    LET Sum[v \in 0 .. charToInt(digits)] ==
            IF v = 0 THEN 0 ELSE (v % 10) + 8 * Sum[v \div 10]
    IN  Sum[charToInt(digits)]

\* How far it is from a header to the next.
Step(size) ==
    IF size = 0 THEN BLOCK
    ELSE IF size % BLOCK = 0 THEN size + BLOCK
         ELSE size + (BLOCK - (size % BLOCK)) + BLOCK

\* s with t appended (strcat): one of the two meets the other at a slash.
strcat(s, t) ==
    Front(s) \o <<IF Last(s) = Nil THEN Head(t) ELSE Last(s)>> \o Tail(t)

\* Where an entry of that name is in the table, or 0.
Named(name) == SelectInSeq(table, LAMBDA e : e.name = name)

\* getPar: the index of the entry named like the directory; it searches the
\* whole table, the entries not yet made included.
getPar(name, flag) ==
    LET i == Named(IF flag = FileFlag THEN Append(Front(name), Nil) ELSE DirName(name))
    IN  IF i = 0 THEN ENTRIES ELSE i - 1

RootNode == [name |-> RootName, size |-> 0, flagType |-> DirFlag,
             headerAddress |-> 0, par |-> ENTRIES]

TarInit ==
    /\ archive \in Archives
    /\ temp = 0
    /\ table = <<RootNode>>
    /\ machine = "boots"

\* tarfs_init: one header.
ReadHeader ==
    /\ machine = "boots"
    /\ LET h == HeaderAt(temp)
           name == strcat(RootName, h.name)
           size == decimalSize(h.digits)
       IN  /\ h.name # Blank
           /\ table' = Append(table, [name |-> name, size |-> size,
                                      flagType |-> h.flag,
                                      headerAddress |-> temp,
                                      par |-> getPar(name, h.flag)])
           /\ temp' = temp + Step(size)
    /\ UNCHANGED <<archive, machine>>

\* tarfs_init: the end of the archive.
WalkEnds ==
    /\ machine = "boots"
    /\ HeaderAt(temp).name = Blank
    /\ machine' = "runs"
    /\ UNCHANGED <<archive, temp, table>>

\* Mutant: the header is taken for the contents.
getFileOffset_Header(filename) ==
    LET From[t \in Nat] ==
            LET h == HeaderAt(t)
            IN  IF h.name = Blank THEN NotFound
                ELSE IF h.name = filename THEN t
                     ELSE From[t + Step(decimalSize(h.digits))]
    IN  From[BLOCK]

\* getFileOffset: where the contents of the file begin.  The walk goes on
\* from one block after the first header, as if that had no contents: it
\* takes the contents for headers.  strcmp answers 0 or -1, so that >= 0 is
\* equality.
getFileOffset(filename) ==
    LET From[t \in Nat] ==
            LET h == HeaderAt(t)
            IN  IF h.name = Blank THEN NotFound
                ELSE IF h.name = filename THEN t + BLOCK
                     ELSE From[t + Step(decimalSize(h.digits))]
    IN  From[BLOCK]

\* Entry i of tarfs_fs; those past the last are zero.
Fs(i) ==
    IF i + 1 \in DOMAIN table THEN table[i + 1]
    ELSE [name |-> Blank, size |-> 0, flagType |-> 0, headerAddress |-> 0,
          par |-> 0]
=============================================================================
