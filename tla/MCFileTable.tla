----------------------------- MODULE MCFileTable -----------------------------
(***************************************************************************)
(* One task, two files and a table with two entries for getfd to give: it  *)
(* fills up, with the same file twice or with two files.                   *)
(***************************************************************************)
EXTENDS FileTable
=============================================================================
