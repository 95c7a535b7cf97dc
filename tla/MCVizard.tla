------------------------------ MODULE MCVizard ------------------------------
(***************************************************************************)
(* Four pictures and four keys before their numbers come round, one of     *)
(* them a space, and a receive queue of two that three keys overflow.      *)
(***************************************************************************)
EXTENDS Vizard
=============================================================================
