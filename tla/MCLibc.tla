------------------------------- MODULE MCLibc -------------------------------
\* ints of 8 bits, words of 16.
EXTENDS Libc

Number(conv, n) == [fmt |-> <<Percent, conv>>, args |-> <<n>>]
MCNumbers == {0, 9, 10, 15, 16, 47, 100, 127, 128, 171, 255, 256, 32895, 65408, 65535}
\* Every number; a text with a string; a character that ends strings; letters
\* that are no conversion; two '%'.
MCCalls ==
    {Number(conv, n) : conv \in {LetterD, LetterX, LetterP}, n \in MCNumbers}
    \cup {[fmt |-> <<33, Percent, LetterS>>, args |-> <<7>>],
          [fmt |-> <<Percent, LetterC>>, args |-> <<NUL>>],
          [fmt |-> <<Percent, 117, 33>>, args |-> <<>>],
          [fmt |-> <<Percent, Percent, LetterD, Percent>>, args |-> <<5>>]}
MCStringAt == [a \in {7} |-> <<33, 34>>]
MCSizes == {-1, 0, 7, 8, 30, 127}
=============================================================================
