----------------------------- MODULE MCCPUMIPS ------------------------------
(* All well-formed programs of MainSize instructions from a small set.      *)
EXTENDS CPUMIPSProofs

MCInstructions ==
  {Plain, Jump(1), Cause({})}
  \cup {Branch(a) : a \in Main}
  \cup {Status(e, Sources) : e \in BOOLEAN}

AllPrograms == {p \in [Main -> MCInstructions] : WellFormed(p)}
=============================================================================
