---------------------------- MODULE Instructions ----------------------------
(***************************************************************************)
(* The instructions the control flow of the CPU depends on, and the        *)
(* programs it runs: a main program in 1..MainSize and the handler at      *)
(* PC_ISR.  An address counts instructions, so PC+4 is pc + 1.  Address 0  *)
(* holds the nop that the reset puts into the pipeline registers.          *)
(***************************************************************************)
EXTENDS Naturals

CONSTANTS
  MainSize,  \* instructions of the main program; PC_BOOT is 1
  PC_ISR,    \* address of the handler
  Sources    \* interrupt sources

ASSUME AddressAssumption ==
  /\ MainSize \in Nat \ {0}
  /\ PC_ISR \in Nat /\ PC_ISR > MainSize

PC_BOOT == 1
Main == PC_BOOT..MainSize
Handler == PC_ISR..(PC_ISR + 3)

\* Everything that is neither a branch nor an mtc0.
Plain == [op |-> "plain"]
Branch(a) == [op |-> "branch", to |-> a]   \* taken or not
Jump(a) == [op |-> "jump", to |-> a]
Return == [op |-> "jr"]                    \* jr to the address mfc0 read in EPC
Status(e, m) == [op |-> "status", ie |-> e, im |-> m]  \* mtc0 Status
Cause(k) == [op |-> "cause", keep |-> k]   \* mtc0 Cause
Acknowledge == [op |-> "ack"]              \* mtc0 Cause, keeping all but one
EnableAgain == [op |-> "enable"]           \* mtc0 Status, of Status or IM_GLOBAL

MainInstructions ==
  {Plain}
  \cup {Branch(a) : a \in Main} \cup {Jump(a) : a \in Main}
  \cup {Status(e, m) : e \in BOOLEAN, m \in SUBSET Sources}
  \cup {Cause(k) : k \in SUBSET Sources}

CouldBranch(i) == i.op \in {"branch", "jump", "jr"}
IsMTC0(i) == i.op \in {"status", "cause", "ack", "enable"}

\* A branch has a delay slot, which holds no branch, and the main program does
\* not run off its end.
WellFormed(p) ==
  /\ p \in [Main -> MainInstructions]
  /\ \A a \in Main : CouldBranch(p[a]) =>
       /\ a + 1 \in Main /\ ~CouldBranch(p[a + 1])
       /\ p[a].to # MainSize
  /\ MainSize - 1 \in Main /\ p[MainSize - 1].op = "jump"

\* _isr: stash and dispatch, done_cause, and the return with its delay slot.
HandlerCode(k) ==
  IF k = 0 THEN Plain
  ELSE IF k = 1 THEN Acknowledge
  ELSE IF k = 2 THEN Return
  ELSE EnableAgain

Inst(p, pc) ==
  IF pc \in Main THEN p[pc]
  ELSE IF pc \in Handler THEN HandlerCode(pc - PC_ISR)
  ELSE Plain

\* What may be decided about a branch while i is executed, and the address
\* that follows next then; resume is where an interrupted program goes on.
Decisions(i) == {t \in BOOLEAN : i.op # "branch" => t = CouldBranch(i)}

Target(i, taken, next, resume) ==
  IF ~taken THEN next + 1
  ELSE IF i.op = "jr" THEN resume
  ELSE i.to
=============================================================================
