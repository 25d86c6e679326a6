---------------------------- MODULE MCPhysMemory ----------------------------
(***************************************************************************)
(* A machine of nine frames of four bytes: three bitmap words of three     *)
(* bits, of which findFreePage scans two.                                  *)
(***************************************************************************)
EXTENDS PhysMemory

RAM(b, l) == [base |-> b, length |-> l, type |-> 1]
Device(b, l) == [base |-> b, length |-> l, type |-> 2]

\* One region; a low and a high region in either order, the lower one
\* longer, so that only the sum of the maxima reaches the top; ends inside
\* a frame; a hole of device memory; an empty entry; a region that starts
\* beyond the scanned words; and one that ends below the last of them.
MCSMaps ==
    { <<RAM(0, 24)>>,
      <<RAM(0, 10), Device(10, 6), RAM(16, 20)>>,
      <<RAM(20, 12), RAM(0, 16)>>,
      <<RAM(0, 18), RAM(18, 4), RAM(20, 0)>>,
      <<RAM(28, 8), RAM(0, 3)>>,
      <<RAM(0, 13)>> }

MCPhysFrees == {0, 8}
=============================================================================
