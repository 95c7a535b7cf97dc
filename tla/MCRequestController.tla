------------------------ MODULE MCRequestController ------------------------
(* Small instances of RequestController for TLC. *)
EXTENDS RequestControllerProofs
=============================================================================
