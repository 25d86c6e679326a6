--------------------------- MODULE MCDemandPaging ---------------------------
(***************************************************************************)
(* Pages of two bytes and tables of two entries.  The image lies at 2 to   *)
(* 7, the heap at 8 to 15, the stack may grow from 28 down to 24 (two      *)
(* pages), while three pages are promised.                                 *)
(***************************************************************************)
EXTENDS DemandPaging

Seg(v, m) == [vaddr |-> v, memsz |-> m]

\* One segment with neither end on a page; two segments, the first of which
\* ends on a page, so that the byte at its end lies in a page of its own.
MCImages == { <<Seg(3, 2)>>, <<Seg(2, 2), Seg(6, 1)>> }
=============================================================================
