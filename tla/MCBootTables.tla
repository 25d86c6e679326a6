----------------------------- MODULE MCBootTables -----------------------------
\* Memory around the last page whose entry is cleared, and more than is mapped
\* there.  It is clear, or stale entries point to one frame: in every table, in
\* some, or behind the cleared entries only; or they point anywhere.
EXTENDS BootTables

MCMaxes == {16, 24, 30, 31, 32, 36}

Stale(To(_, _)) == [f \in Frame |-> [i \in Index |-> To(f, i)]]

MCLeftovers ==
    {Clear}
    \cup {Stale(LAMBDA f, i : p) : p \in {0, 9, 12, 20}}
    \cup {Stale(LAMBDA f, i : IF f % 2 = 0 THEN p ELSE None) : p \in {9, 12}}
    \cup {Stale(LAMBDA f, i : IF i < CLEARED THEN None ELSE p) : p \in {12, 20}}
    \cup {Stale(LAMBDA f, i : (k * f + 5 * i) % FRAMES) : k \in {3, 7}}
\* Memory beyond the 2 GB that VIRTUAL can reach, and clear.
MCBigMaxes == {40}
MCNoLeftovers == {Clear}
===============================================================================
