------------------------------ MODULE MCProcess ------------------------------
(***************************************************************************)
(* The boot thread, the shell and room for three forks, with one pid less  *)
(* than task structures would need so that the pids run out; a table with  *)
(* one entry for getfd to give, so that open is soon refused.              *)
(***************************************************************************)
EXTENDS Process, TLC

Symmetry == Permutations(Task \ {Boot, First})
=============================================================================
