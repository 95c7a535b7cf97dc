------------------------------ MODULE MCCache ------------------------------
(***************************************************************************)
(* Both caches, two lines that share a row, and FIFOs of two commands.     *)
(***************************************************************************)
EXTENDS Cache
=============================================================================
