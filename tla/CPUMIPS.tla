------------------------------ MODULE CPUMIPS -------------------------------
(***************************************************************************)
(* The three stages of the CPU and the interrupt logic of COP0, one step a *)
(* clock edge.  F fetches from REG_PC; DX holds the instruction of PC_DX,  *)
(* decides branches and writes COP0; what MW does cannot be seen here.     *)
(*                                                                         *)
(* An interrupt replaces the address fetched next by PC_ISR.  The address  *)
(* it replaced waits in REG_PCNEXT for the edge that ends the cycle after, *)
(* when COP0 takes it for EPC; the instruction in F still executes.        *)
(***************************************************************************)
EXTENDS Instructions

CONSTANT Programs  \* the main programs considered

ASSUME ProgramAssumption == \A p \in Programs : WellFormed(p)

VARIABLES
  program,     \* contents of the instruction memory
  REG_PC, REG_PCNEXT, PC_DX,
  WAS_BRANCH, WAS_ISR,
  ie, im,      \* Status: global enable, enabled sources
  ip,          \* Cause: pending sources
  epc,
  asked        \* history: the global enable the main program wrote last

cop0 == <<ie, im, ip, epc>>
vars == <<program, REG_PC, REG_PCNEXT, PC_DX, WAS_BRANCH, WAS_ISR, cop0, asked>>

INST_F == Inst(program, REG_PC)
INST_DX == Inst(program, PC_DX)

intr_request == ie /\ im \cap ip # {}

\* Without the refusal of an mtc0: it writes COP0 at the edge that has to save
\* the address replaced.
Bug_DuringMTC0 ==
  /\ intr_request
  /\ ~CouldBranch(INST_F)
  /\ ~WAS_BRANCH
  /\ ~WAS_ISR

\* Without the refusal of a branch: its target is forgotten.
Bug_BeforeDelaySlot ==
  /\ intr_request
  /\ ~IsMTC0(INST_F)
  /\ ~WAS_BRANCH
  /\ ~WAS_ISR

\* Global enable is still set in the first cycle of the handler.
Bug_Twice ==
  /\ intr_request
  /\ ~CouldBranch(INST_F)
  /\ ~IsMTC0(INST_F)
  /\ ~WAS_BRANCH

\* Refusing delay slots too, a loop of two instructions is never interrupted.
Bug_NotInDelaySlot ==
  /\ intr_request
  /\ ~CouldBranch(INST_F) /\ ~CouldBranch(INST_DX)
  /\ ~IsMTC0(INST_F)
  /\ ~WAS_BRANCH
  /\ ~WAS_ISR

DO_ISR ==
  /\ intr_request
  /\ ~CouldBranch(INST_F)
  /\ ~IsMTC0(INST_F)
  /\ ~WAS_BRANCH
  /\ ~WAS_ISR

\* When nothing stalls: the target of the branch in DX, or PC4.
MUX_PCNEXT(DoBranch) == Target(INST_DX, DoBranch, REG_PC, epc)

\* REG_PCNEXT in a stall, when MUX_PCNEXT is REG_PC.
StalledPCNEXT == REG_PCNEXT

COP0_we == IsMTC0(INST_DX)
intr_handled == WAS_ISR

\* Status and EPC at an edge that is not stalled.
WriteStatus ==
  LET i == INST_DX IN
  /\ ie' = IF COP0_we
           THEN IF i.op = "status" THEN i.ie ELSE IF i.op = "enable" THEN TRUE ELSE ie
           ELSE ie /\ ~intr_handled
  /\ im' = IF i.op = "status" THEN i.im ELSE im
  /\ epc' = IF intr_handled /\ ~COP0_we THEN REG_PCNEXT ELSE epc
  /\ asked' = IF i.op = "status" THEN i.ie ELSE asked

\* Cause: what is raised stays until a write clears it.  The handler clears
\* the source it served, one of the enabled ones, if there is one.
WriteCause(raised) ==
  LET next_ip == ip \cup raised
      served == INST_DX.op = "ack" /\ ip \cap im # {}
  IN
  \/ INST_DX.op = "cause" /\ ip' = next_ip \cap INST_DX.keep
  \/ served /\ \E s \in ip \cap im : ip' = next_ip \ {s}
  \/ INST_DX.op # "cause" /\ ~served /\ ip' = next_ip

Stall(raised) ==
  /\ ip' = ip \cup raised
  /\ REG_PCNEXT' = StalledPCNEXT
  /\ UNCHANGED <<program, REG_PC, PC_DX, WAS_BRANCH, WAS_ISR,
                 ie, im, epc, asked>>

Advance(raised) ==
  /\ \E DoBranch \in Decisions(INST_DX) :
       /\ REG_PCNEXT' = MUX_PCNEXT(DoBranch)
       /\ REG_PC' = IF DO_ISR THEN PC_ISR ELSE MUX_PCNEXT(DoBranch)
       /\ WAS_BRANCH' = DoBranch
  /\ WAS_ISR' = DO_ISR
  /\ PC_DX' = REG_PC
  /\ WriteStatus
  /\ WriteCause(raised)
  /\ UNCHANGED program

Init ==
  /\ program \in Programs
  /\ PC_DX = 0 /\ REG_PC = PC_BOOT /\ REG_PCNEXT = PC_BOOT
  /\ WAS_BRANCH = FALSE /\ WAS_ISR = FALSE
  /\ ie = FALSE /\ im = {} /\ ip = {} /\ epc = 0
  /\ asked = FALSE

Next == \E raised \in SUBSET Sources : Stall(raised) \/ Advance(raised)

Spec == Init /\ [][Next]_vars

\* The memories end every stall.
FairSpec == Spec /\ WF_vars(\E raised \in SUBSET Sources : Advance(raised))
-----------------------------------------------------------------------------
TypeOK ==
  /\ program \in Programs
  /\ REG_PC \in Main \cup Handler
  /\ REG_PCNEXT \in Main \cup Handler
  /\ PC_DX \in {0} \cup Main \cup Handler
  /\ WAS_BRANCH \in BOOLEAN /\ WAS_ISR \in BOOLEAN
  /\ ie \in BOOLEAN /\ im \subseteq Sources /\ ip \subseteq Sources
  /\ epc \in {0} \cup Main
  /\ asked \in BOOLEAN

\* The pipeline executes its programs as the interface promises.  The
\* instruction in F is the one that executes after the one in DX, unless the
\* interrupt is about to take its place.
Precise == INSTANCE PreciseInterrupts WITH
  pc <- PC_DX, npc <- IF WAS_ISR THEN REG_PCNEXT ELSE REG_PC
PreciseSpec == Precise!Spec

\* The handler runs with interrupts off until the delay slot of its return:
\* a second interrupt would overwrite EPC and the two registers it may use.
HandlerRunsAlone == PC_DX \in Handler => ~ie /\ ~WAS_ISR /\ epc \in Main

\* A main program that has switched interrupts off runs with them off: the
\* handler does not bring them back.
DisableHolds == PC_DX \in Main /\ ~asked => ~ie

\* A program spends no more than a while in the handler, however often
\* interrupts are raised.
HandlerReturns == []<>(PC_DX \in Main)

\* A program that does not write COP0 in its delay slots does not hold off an
\* interrupt that stays requested.
QuietDelaySlots == \A a \in Main : CouldBranch(program[a]) => ~IsMTC0(program[a + 1])
RequestTaken == intr_request /\ QuietDelaySlots ~> (WAS_ISR \/ ~intr_request)

\* Why the pipeline is precise: what may be in F next to what is in DX.
FlowFromReset ==
  PC_DX = 0 => REG_PC = PC_BOOT /\ ~WAS_ISR /\ ~ie

FlowInMain ==
  PC_DX \in Main =>
    IF WAS_ISR
    THEN /\ REG_PC = PC_ISR /\ REG_PCNEXT \in Main \ {MainSize}
         /\ ~CouldBranch(INST_DX) /\ ~IsMTC0(INST_DX)
    ELSE /\ REG_PC \in Main
         /\ CouldBranch(INST_DX) => REG_PC = PC_DX + 1
         /\ REG_PC = MainSize => PC_DX = MainSize - 1

FlowInHandler ==
  PC_DX \in Handler =>
    /\ ~ie /\ ~WAS_ISR /\ epc \in Main \ {MainSize}
    /\ REG_PC = IF PC_DX = PC_ISR + 3 THEN epc ELSE PC_DX + 1

IInv == TypeOK /\ FlowFromReset /\ FlowInMain /\ FlowInHandler
=============================================================================
