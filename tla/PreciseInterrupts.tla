------------------------- MODULE PreciseInterrupts --------------------------
(***************************************************************************)
(* What a program may assume of the CPU: it executes one instruction after *)
(* the other, a branch taking effect after its delay slot, and the handler *)
(* is entered between two of them, never between a branch and its delay    *)
(* slot and never from the handler itself.  EPC is where the program would *)
(* have gone on, so the return executes nothing twice and skips nothing.   *)
(***************************************************************************)
EXTENDS Instructions

VARIABLES
  program,  \* the main program
  pc,       \* the instruction executed next
  npc,      \* the one after it
  epc       \* where the handler returns to

vars == <<program, pc, npc, epc>>

Init ==
  /\ WellFormed(program)
  /\ pc = 0 /\ npc = PC_BOOT
  /\ epc = 0

Execute ==
  /\ pc' = npc
  /\ \E taken \in Decisions(Inst(program, pc)) :
       npc' = Target(Inst(program, pc), taken, npc, epc)
  /\ UNCHANGED <<program, epc>>

ExecuteAndInterrupt ==
  /\ pc \in Main
  /\ ~CouldBranch(program[pc])
  /\ epc' = npc
  /\ pc' = PC_ISR /\ npc' = PC_ISR + 1
  /\ UNCHANGED program

Next == Execute \/ ExecuteAndInterrupt

Spec == Init /\ [][Next]_vars
=============================================================================
