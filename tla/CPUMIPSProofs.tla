--------------------------- MODULE CPUMIPSProofs ----------------------------
(***************************************************************************)
(* The pipeline of CPUMIPS executes every program as PreciseInterrupts     *)
(* promises, and the handler runs alone.  Both follow from IInv, which     *)
(* says what may be in F next to what is in DX.                            *)
(***************************************************************************)
EXTENDS CPUMIPS, TLAPS

USE AddressAssumption, ProgramAssumption

\* What the fields of an instruction of the main program may be.
LEMMA InstructionFields ==
  ASSUME NEW i \in MainInstructions
  PROVE  /\ i.op \in {"plain", "branch", "jump", "status", "cause"}
         /\ i.op \in {"branch", "jump"} => i.to \in Main
         /\ i.op = "status" => i.ie \in BOOLEAN /\ i.im \subseteq Sources
<1>1. CASE i = Plain
  BY <1>1 DEF Plain
<1>2. CASE i \in {Branch(a) : a \in Main} \cup {Jump(a) : a \in Main}
  BY <1>2 DEF Branch, Jump
<1>3. CASE i \in {Status(e, m) : e \in BOOLEAN, m \in SUBSET Sources}
  BY <1>3 DEF Status
<1>4. CASE i \in {Cause(k) : k \in SUBSET Sources}
  BY <1>4 DEF Cause
<1> QED
  BY <1>1, <1>2, <1>3, <1>4 DEF MainInstructions

\* The main program, at the addresses the pipeline may fetch.
LEMMA MainProgram ==
  ASSUME program \in Programs, NEW a \in Main
  PROVE  LET i == Inst(program, a) IN
         /\ i \in MainInstructions
         /\ CouldBranch(i) <=> i.op \in {"branch", "jump"}
         /\ CouldBranch(i) => /\ a + 1 \in Main
                              /\ ~CouldBranch(Inst(program, a + 1))
                              /\ i.to \in Main \ {MainSize}
         /\ a = MainSize - 1 => i.op = "jump"
         /\ MainSize - 1 \in Main
<1> DEFINE i == Inst(program, a)
<1>1. WellFormed(program)
  OBVIOUS
<1>2. i = program[a] /\ i \in MainInstructions
  BY <1>1 DEF WellFormed, Inst
<1>3. CouldBranch(i) <=> i.op \in {"branch", "jump"}
  BY <1>2, InstructionFields DEF CouldBranch
<1>4. ASSUME CouldBranch(i)
      PROVE  /\ a + 1 \in Main
             /\ ~CouldBranch(Inst(program, a + 1))
             /\ i.to \in Main \ {MainSize}
  BY <1>1, <1>2, <1>3, <1>4, InstructionFields DEF WellFormed, Inst
<1> QED
  BY <1>1, <1>2, <1>3, <1>4 DEF WellFormed

\* The handler, and where it lies.
LEMMA HandlerProgram ==
  /\ Main \cap Handler = {} /\ 0 \notin Main \cup Handler
  /\ Handler = {PC_ISR, PC_ISR + 1, PC_ISR + 2, PC_ISR + 3}
  /\ Inst(program, 0).op = "plain"
  /\ Inst(program, PC_ISR).op = "plain"
  /\ Inst(program, PC_ISR + 1).op = "ack"
  /\ Inst(program, PC_ISR + 2).op = "jr"
  /\ Inst(program, PC_ISR + 3).op = "enable"
<1>1. Main \cap Handler = {} /\ 0 \notin Main \cup Handler
  BY DEF Main, Handler, PC_BOOT
<1>2. Handler = {PC_ISR, PC_ISR + 1, PC_ISR + 2, PC_ISR + 3}
  BY DEF Handler
<1>3. \A k \in 0..3 : Inst(program, PC_ISR + k) = HandlerCode(k)
  <2> SUFFICES ASSUME NEW k \in 0..3 PROVE Inst(program, PC_ISR + k) = HandlerCode(k)
    OBVIOUS
  <2>1. PC_ISR + k \in Handler /\ PC_ISR + k \notin Main /\ (PC_ISR + k) - PC_ISR = k
    BY DEF Main, Handler, PC_BOOT
  <2> QED
    BY <2>1 DEF Inst
<1>4. Inst(program, 0) = Plain
  BY <1>1 DEF Inst
<1>5. PC_ISR + 0 = PC_ISR
  OBVIOUS
<1> QED
  BY <1>1, <1>2, <1>3, <1>4, <1>5
     DEF HandlerCode, Plain, Acknowledge, Return, EnableAgain

\* What the main program may fetch next, while it has not been interrupted.
LEMMA NextInMain ==
  ASSUME TypeOK, FlowInMain, PC_DX \in Main, ~WAS_ISR,
         NEW taken \in Decisions(INST_DX)
  PROVE  /\ MUX_PCNEXT(taken) \in Main
         /\ MUX_PCNEXT(taken) = MainSize => REG_PC = MainSize - 1
         /\ CouldBranch(INST_F) => MUX_PCNEXT(taken) = REG_PC + 1
<1>1. /\ REG_PC \in Main
      /\ CouldBranch(INST_DX) => REG_PC = PC_DX + 1
      /\ REG_PC = MainSize => PC_DX = MainSize - 1
      /\ program \in Programs
  BY DEF FlowInMain, TypeOK
<1>2. /\ INST_DX \in MainInstructions
      /\ CouldBranch(INST_DX) <=> INST_DX.op \in {"branch", "jump"}
      /\ CouldBranch(INST_DX) => /\ ~CouldBranch(Inst(program, PC_DX + 1))
                                 /\ INST_DX.to \in Main \ {MainSize}
      /\ PC_DX = MainSize - 1 => INST_DX.op = "jump"
  BY <1>1, MainProgram DEF INST_DX
<1>3. CASE ~CouldBranch(INST_DX)
  <2>1. taken = FALSE
    BY <1>2, <1>3 DEF Decisions
  <2>2. MUX_PCNEXT(taken) = REG_PC + 1
    BY <2>1 DEF MUX_PCNEXT, Target
  <2>3. REG_PC # MainSize
    BY <1>1, <1>2, <1>3
  <2> QED
    BY <1>1, <2>2, <2>3 DEF Main, PC_BOOT
<1>4. CASE CouldBranch(INST_DX)
  <2>1. ~CouldBranch(INST_F)
    BY <1>1, <1>2, <1>4 DEF INST_F
  <2>2. CASE taken = TRUE
    <3>1. MUX_PCNEXT(taken) = INST_DX.to
      BY <1>2, <1>4, <2>2 DEF MUX_PCNEXT, Target
    <3> QED
      BY <1>2, <1>4, <2>1, <3>1
  <2>3. CASE taken = FALSE
    <3>1. MUX_PCNEXT(taken) = REG_PC + 1
      BY <2>3 DEF MUX_PCNEXT, Target
    <3>2. INST_DX.op = "branch"
      BY <1>2, <1>4, <2>3 DEF Decisions
    <3>3. REG_PC # MainSize
      BY <1>1, <1>2, <3>2
    <3> QED
      BY <1>1, <2>1, <3>1, <3>3 DEF Main, PC_BOOT
  <2> QED
    BY <1>4, <2>2, <2>3 DEF Decisions
<1> QED
  BY <1>3, <1>4

\* An edge that is not stalled: the values that do not depend on the case.
LEMMA Edge ==
  ASSUME IInv, NEW raised \in SUBSET Sources, Advance(raised)
  PROVE  /\ program' = program /\ PC_DX' = REG_PC
         /\ WAS_ISR' = DO_ISR /\ DO_ISR \in BOOLEAN
         /\ WAS_BRANCH' \in BOOLEAN
         /\ ip' \subseteq Sources
         /\ asked' = IF INST_DX.op = "status" THEN INST_DX.ie ELSE asked
         /\ im' = IF INST_DX.op = "status" THEN INST_DX.im ELSE im
<1>1. DO_ISR \in BOOLEAN
  BY Zenon DEF DO_ISR
<1>2. WAS_BRANCH' \in BOOLEAN
  BY DEF Advance, Decisions, CouldBranch
<1>3. ip' \subseteq Sources
  BY DEF Advance, WriteCause, IInv, TypeOK
<1> QED
  BY <1>1, <1>2, <1>3 DEF Advance, WriteStatus

\* The first edge after a reset.
LEMMA ResetEdge ==
  ASSUME IInv, NEW raised \in SUBSET Sources, Advance(raised), PC_DX = 0
  PROVE  /\ REG_PC = 1 /\ ~WAS_ISR /\ ~DO_ISR
         /\ REG_PC' = 2 /\ REG_PCNEXT' = 2 /\ 2 \in Main
         /\ \E taken \in Decisions(INST_DX) : 2 = MUX_PCNEXT(taken)
         /\ ie' = FALSE /\ epc' = epc
         /\ INST_DX.op = "plain"
<1>1. REG_PC = 1 /\ WAS_ISR = FALSE /\ ie = FALSE /\ program \in Programs
  BY DEF IInv, TypeOK, FlowFromReset, PC_BOOT
<1>2. ~DO_ISR
  BY <1>1 DEF DO_ISR, intr_request
<1>3. INST_DX.op = "plain"
  BY HandlerProgram DEF INST_DX
<1>4. ~CouldBranch(INST_DX) /\ ~COP0_we
  BY <1>3 DEF CouldBranch, IsMTC0, COP0_we
<1>5. 1 \in Main /\ MainSize - 1 \in Main
  BY <1>1, MainProgram DEF Main, PC_BOOT
<1>6. 2 \in Main
  BY <1>5 DEF Main, PC_BOOT
<1>7. \A taken \in Decisions(INST_DX) : MUX_PCNEXT(taken) = 2
  BY <1>1, <1>3, <1>4 DEF Decisions, MUX_PCNEXT, Target
<1>8. \E taken \in Decisions(INST_DX) : TRUE
  BY DEF Advance
<1>9. REG_PC' = 2 /\ REG_PCNEXT' = 2
  BY <1>2, <1>7 DEF Advance
<1>10. ie' = FALSE /\ epc' = epc
  BY <1>1, <1>4 DEF Advance, WriteStatus, intr_handled
<1> QED
  BY <1>1, <1>2, <1>3, <1>6, <1>7, <1>8, <1>9, <1>10

\* The edge at which COP0 takes the address that was replaced.
LEMMA EntryEdge ==
  ASSUME IInv, NEW raised \in SUBSET Sources, Advance(raised),
         PC_DX \in Main, WAS_ISR
  PROVE  /\ REG_PC = PC_ISR /\ ~DO_ISR
         /\ REG_PC' = PC_ISR + 1 /\ REG_PCNEXT' = PC_ISR + 1
         /\ ie' = FALSE /\ epc' = REG_PCNEXT
         /\ REG_PCNEXT \in Main \ {MainSize}
         /\ ~CouldBranch(INST_DX) /\ INST_DX.op # "status"
<1>1. /\ REG_PC = PC_ISR /\ REG_PCNEXT \in Main \ {MainSize}
      /\ ~CouldBranch(INST_DX) /\ ~IsMTC0(INST_DX)
  BY DEF IInv, FlowInMain
<1>2. ~DO_ISR
  BY DEF DO_ISR
<1>3. INST_DX.op \notin {"branch", "status"} /\ ~COP0_we
  BY <1>1 DEF CouldBranch, IsMTC0, COP0_we
<1>4. \A taken \in Decisions(INST_DX) : MUX_PCNEXT(taken) = PC_ISR + 1
  BY <1>1, <1>3 DEF Decisions, MUX_PCNEXT, Target
<1>5. REG_PC' = PC_ISR + 1 /\ REG_PCNEXT' = PC_ISR + 1
  BY <1>2, <1>4 DEF Advance
<1>6. ie' = FALSE /\ epc' = REG_PCNEXT
  BY <1>3 DEF Advance, WriteStatus, intr_handled
<1> QED
  BY <1>1, <1>2, <1>3, <1>5, <1>6

\* An edge of the main program: an interrupt is only let in where the address
\* it replaces can be returned to.
LEMMA MainEdge ==
  ASSUME IInv, NEW raised \in SUBSET Sources, Advance(raised),
         PC_DX \in Main, ~WAS_ISR
  PROVE  /\ REG_PC \in Main /\ REG_PCNEXT' \in Main
         /\ \E taken \in Decisions(INST_DX) : REG_PCNEXT' = MUX_PCNEXT(taken)
         /\ REG_PC' = IF DO_ISR THEN PC_ISR ELSE REG_PCNEXT'
         /\ REG_PCNEXT' = MainSize => REG_PC = MainSize - 1
         /\ CouldBranch(INST_F) => REG_PCNEXT' = REG_PC + 1
         /\ DO_ISR => /\ REG_PCNEXT' # MainSize
                      /\ ~CouldBranch(INST_F) /\ ~IsMTC0(INST_F)
         /\ ie' \in BOOLEAN /\ epc' = epc
<1>1. REG_PC \in Main /\ program \in Programs /\ ie \in BOOLEAN
  BY DEF IInv, TypeOK, FlowInMain
<1>2. PICK taken \in Decisions(INST_DX) :
        /\ REG_PCNEXT' = MUX_PCNEXT(taken)
        /\ REG_PC' = IF DO_ISR THEN PC_ISR ELSE MUX_PCNEXT(taken)
  BY DEF Advance
<1>3. /\ MUX_PCNEXT(taken) \in Main
      /\ MUX_PCNEXT(taken) = MainSize => REG_PC = MainSize - 1
      /\ CouldBranch(INST_F) => MUX_PCNEXT(taken) = REG_PC + 1
  BY NextInMain DEF IInv
<1>4. ASSUME DO_ISR
      PROVE  REG_PCNEXT' # MainSize /\ ~CouldBranch(INST_F) /\ ~IsMTC0(INST_F)
  <2>1. ~CouldBranch(INST_F) /\ ~IsMTC0(INST_F)
    BY <1>4 DEF DO_ISR
  <2>2. REG_PC # MainSize - 1
    BY <1>1, <2>1, MainProgram DEF INST_F
  <2> QED
    BY <1>2, <1>3, <2>1, <2>2
<1>5. epc' = epc
  BY DEF Advance, WriteStatus, intr_handled
<1>6. ie' \in BOOLEAN
  <2>1. INST_DX.op = "status" => INST_DX.ie \in BOOLEAN
    BY <1>1, MainProgram, InstructionFields DEF INST_DX
  <2> QED
    BY <1>1, <2>1 DEF Advance, WriteStatus, intr_handled
<1> QED
  BY <1>1, <1>2, <1>3, <1>4, <1>5, <1>6

\* The handler executes straight to its return, which goes back to EPC.
LEMMA HandlerEdge ==
  ASSUME IInv, NEW raised \in SUBSET Sources, Advance(raised), PC_DX \in Handler
  PROVE  /\ ~WAS_ISR /\ ~DO_ISR
         /\ epc \in Main \ {MainSize} /\ epc' = epc
         /\ REG_PC = IF PC_DX = PC_ISR + 3 THEN epc ELSE PC_DX + 1
         /\ REG_PC' = IF PC_DX = PC_ISR + 2 THEN epc ELSE REG_PC + 1
         /\ REG_PCNEXT' = REG_PC'
         /\ \E taken \in Decisions(INST_DX) : REG_PCNEXT' = MUX_PCNEXT(taken)
         /\ ie' = (PC_DX = PC_ISR + 3)
         /\ INST_DX.op # "status"
<1>1. /\ WAS_ISR = FALSE /\ ie = FALSE /\ epc \in Main \ {MainSize}
      /\ REG_PC = IF PC_DX = PC_ISR + 3 THEN epc ELSE PC_DX + 1
  BY DEF IInv, TypeOK, FlowInHandler
<1>2. ~DO_ISR
  BY <1>1 DEF DO_ISR, intr_request
<1>3. PC_DX \in {PC_ISR, PC_ISR + 1, PC_ISR + 2, PC_ISR + 3}
  BY HandlerProgram
<1>4. /\ INST_DX.op \in {"plain", "ack", "jr", "enable"}
      /\ INST_DX.op = "jr" <=> PC_DX = PC_ISR + 2
      /\ INST_DX.op = "enable" <=> PC_DX = PC_ISR + 3
  BY <1>3, HandlerProgram DEF INST_DX
<1>5. CouldBranch(INST_DX) <=> PC_DX = PC_ISR + 2
  BY <1>4 DEF CouldBranch
<1>6. \A taken \in Decisions(INST_DX) :
        MUX_PCNEXT(taken) = IF PC_DX = PC_ISR + 2 THEN epc ELSE REG_PC + 1
  BY <1>4, <1>5 DEF Decisions, MUX_PCNEXT, Target, CouldBranch
<1>7. PICK taken \in Decisions(INST_DX) :
        /\ REG_PCNEXT' = MUX_PCNEXT(taken)
        /\ REG_PC' = IF DO_ISR THEN PC_ISR ELSE MUX_PCNEXT(taken)
  BY DEF Advance
<1>8. epc' = epc
  BY <1>1 DEF Advance, WriteStatus, intr_handled
<1>9. ie' = (PC_DX = PC_ISR + 3)
  <2>1. CASE INST_DX.op = "enable"
    BY <1>4, <2>1 DEF Advance, WriteStatus, COP0_we, IsMTC0
  <2>2. CASE INST_DX.op # "enable"
    <3>1. ie' = FALSE
      BY <1>1, <1>4, <2>2 DEF Advance, WriteStatus
    <3> QED
      BY <1>4, <2>2, <3>1
  <2> QED
    BY <2>1, <2>2
<1> QED
  BY <1>1, <1>2, <1>4, <1>6, <1>7, <1>8, <1>9

\* What is in F next to what is in DX, one edge later.
LEMMA FlowStep ==
  ASSUME IInv, NEW raised \in SUBSET Sources, Advance(raised)
  PROVE  (FlowFromReset /\ FlowInMain /\ FlowInHandler)'
<1>0. /\ program' = program /\ PC_DX' = REG_PC /\ WAS_ISR' = DO_ISR
      /\ program \in Programs /\ PC_DX \in {0} \cup Main \cup Handler
      /\ INST_DX' = INST_F
  BY Edge DEF IInv, TypeOK, INST_DX, INST_F
<1>1. CASE PC_DX = 0
  <2>0. 2 \in Main => 1 \in Main
    BY DEF Main, PC_BOOT
  <2>1. /\ PC_DX' = 1 /\ REG_PC' = 2 /\ ~WAS_ISR' /\ 1 \in Main /\ 2 \in Main
    BY <1>0, <1>1, <2>0, ResetEdge
  <2>2. PC_DX' # 0 /\ PC_DX' \notin Handler
    BY <2>1, HandlerProgram
  <2>3. REG_PC' = MainSize => PC_DX' = MainSize - 1
    BY <2>1
  <2> QED
    BY <2>1, <2>2, <2>3 DEF FlowFromReset, FlowInMain, FlowInHandler
<1>2. CASE PC_DX \in Main /\ WAS_ISR
  <2>1. /\ PC_DX' = PC_ISR /\ REG_PC' = PC_ISR + 1 /\ ~WAS_ISR' /\ ~ie'
        /\ epc' \in Main \ {MainSize}
    BY <1>0, <1>2, EntryEdge
  <2>2. PC_DX' # 0 /\ PC_DX' \notin Main /\ PC_DX' # PC_ISR + 3
    BY <2>1, HandlerProgram
  <2> QED
    BY <2>1, <2>2 DEF FlowFromReset, FlowInMain, FlowInHandler
<1>3. CASE PC_DX \in Main /\ ~WAS_ISR
  <2>1. /\ PC_DX' \in Main /\ REG_PCNEXT' \in Main
        /\ REG_PC' = IF DO_ISR THEN PC_ISR ELSE REG_PCNEXT'
        /\ REG_PCNEXT' = MainSize => PC_DX' = MainSize - 1
        /\ CouldBranch(INST_DX)' => REG_PCNEXT' = PC_DX' + 1
        /\ DO_ISR => /\ REG_PCNEXT' # MainSize
                     /\ ~CouldBranch(INST_DX)' /\ ~IsMTC0(INST_DX)'
    BY <1>0, <1>3, MainEdge DEF CouldBranch, IsMTC0
  <2>2. PC_DX' # 0 /\ PC_DX' \notin Handler
    BY <2>1, HandlerProgram
  <2> QED
    BY <1>0, <2>1, <2>2 DEF FlowFromReset, FlowInMain, FlowInHandler
<1>4. CASE PC_DX \in Handler
  <2>1. /\ ~WAS_ISR' /\ epc' = epc /\ epc \in Main \ {MainSize}
        /\ REG_PC = IF PC_DX = PC_ISR + 3 THEN epc ELSE PC_DX + 1
        /\ REG_PC' = IF PC_DX = PC_ISR + 2 THEN epc ELSE REG_PC + 1
        /\ ie' = (PC_DX = PC_ISR + 3)
    BY <1>0, <1>4, HandlerEdge
  <2>2. CASE PC_DX = PC_ISR + 3
    <3>1. PC_DX' \in Main /\ REG_PC' = PC_DX' + 1 /\ PC_DX' # MainSize
      BY <1>0, <2>1, <2>2
    <3>2. PC_DX' # 0 /\ PC_DX' \notin Handler
      BY <3>1, HandlerProgram
    <3>3. \A a \in Main \ {MainSize} :
            a + 1 \in Main /\ (a + 1 = MainSize => a = MainSize - 1)
      BY DEF Main, PC_BOOT
    <3>4. REG_PC' \in Main /\ (REG_PC' = MainSize => PC_DX' = MainSize - 1)
      BY <3>1, <3>3
    <3> QED
      BY <2>1, <3>1, <3>2, <3>3, <3>4 DEF FlowFromReset, FlowInMain, FlowInHandler
  <2>3. CASE PC_DX # PC_ISR + 3
    <3>1. PC_DX \in {PC_ISR, PC_ISR + 1, PC_ISR + 2}
      BY <1>4, <2>3, HandlerProgram
    <3>a. PC_DX' = PC_DX + 1 /\ ~ie'
      BY <1>0, <2>1, <2>3
    <3>b. PC_DX + 1 \in {PC_ISR + 1, PC_ISR + 2, PC_ISR + 3}
      BY <3>1
    <3>2. /\ PC_DX' = PC_DX + 1 /\ ~ie'
          /\ PC_DX' \in {PC_ISR + 1, PC_ISR + 2, PC_ISR + 3}
      BY <3>a, <3>b
    <3>3. PC_DX' # 0 /\ PC_DX' \notin Main
      BY <3>2, HandlerProgram
    <3>4. REG_PC' = IF PC_DX' = PC_ISR + 3 THEN epc' ELSE PC_DX' + 1
      BY <1>0, <2>1, <3>1, <3>2
    <3> QED
      BY <2>1, <3>2, <3>3, <3>4 DEF FlowFromReset, FlowInMain, FlowInHandler
  <2> QED
    BY <2>2, <2>3
<1> QED
  BY <1>0, <1>1, <1>2, <1>3, <1>4

\* Every register stays among its values.
LEMMA TypeStep ==
  ASSUME IInv, NEW raised \in SUBSET Sources, Advance(raised)
  PROVE  TypeOK'
<1>0. /\ program' = program /\ PC_DX' = REG_PC
      /\ WAS_ISR' \in BOOLEAN /\ WAS_BRANCH' \in BOOLEAN /\ ip' \subseteq Sources
      /\ program \in Programs /\ PC_DX \in {0} \cup Main \cup Handler
      /\ REG_PC \in Main \cup Handler
  BY Edge DEF IInv, TypeOK
<1>1. asked' \in BOOLEAN /\ im' \subseteq Sources
  <2>1. CASE INST_DX.op = "status"
    <3>1. PC_DX \in Main
      BY <1>0, <2>1, ResetEdge, HandlerEdge
    <3>2. INST_DX.ie \in BOOLEAN /\ INST_DX.im \subseteq Sources
      BY <1>0, <2>1, <3>1, MainProgram, InstructionFields DEF INST_DX
    <3> QED
      BY <2>1, <3>2, Edge
  <2>2. CASE INST_DX.op # "status"
    BY <2>2, Edge DEF IInv, TypeOK
  <2> QED
    BY <2>1, <2>2
<1>2. /\ REG_PC' \in Main \cup Handler /\ REG_PCNEXT' \in Main \cup Handler
      /\ ie' \in BOOLEAN /\ epc' \in {0} \cup Main
  <2>0. epc \in {0} \cup Main
    BY DEF IInv, TypeOK
  <2>1. CASE PC_DX = 0
    BY <2>0, <2>1, ResetEdge
  <2>2. CASE PC_DX \in Main /\ WAS_ISR
    BY <2>2, EntryEdge, HandlerProgram
  <2>3. CASE PC_DX \in Main /\ ~WAS_ISR
    BY <2>0, <2>3, MainEdge, HandlerProgram
  <2>4. CASE PC_DX \in Handler
    <3>1. /\ epc \in Main \ {MainSize} /\ epc' = epc
          /\ REG_PC = IF PC_DX = PC_ISR + 3 THEN epc ELSE PC_DX + 1
          /\ REG_PC' = IF PC_DX = PC_ISR + 2 THEN epc ELSE REG_PC + 1
          /\ REG_PCNEXT' = REG_PC'
          /\ ie' = (PC_DX = PC_ISR + 3)
      BY <2>4, HandlerEdge
    <3>2. epc + 1 \in Main
      BY <3>1 DEF Main, PC_BOOT
    <3>3. PC_DX \in {PC_ISR, PC_ISR + 1, PC_ISR + 2, PC_ISR + 3}
      BY <2>4, HandlerProgram
    <3>4. REG_PC' \in Main \cup Handler
      BY <3>1, <3>2, <3>3, HandlerProgram
    <3> QED
      BY <3>1, <3>4
  <2> QED
    BY <1>0, <2>1, <2>2, <2>3, <2>4
<1> QED
  BY <1>0, <1>1, <1>2 DEF TypeOK

\* The inductive invariant: what flows through F and DX.
THEOREM InductiveInvariant == Spec => []IInv
<1>1. Init => IInv
  <2> SUFFICES ASSUME Init PROVE IInv
    OBVIOUS
  <2>1. PC_BOOT \in Main
    BY DEF Main, PC_BOOT
  <2>2. TypeOK
    BY <2>1 DEF Init, TypeOK
  <2>3. 0 \notin Main \cup Handler
    BY HandlerProgram
  <2> QED
    BY <2>2, <2>3 DEF Init, IInv, FlowFromReset, FlowInMain, FlowInHandler
<1>2. IInv /\ [Next]_vars => IInv'
  <2> SUFFICES ASSUME IInv, [Next]_vars PROVE IInv'
    OBVIOUS
  <2>1. CASE UNCHANGED vars
    BY <2>1 DEF IInv, TypeOK, FlowFromReset, FlowInMain, FlowInHandler,
                INST_DX, CouldBranch, IsMTC0, vars, cop0
  <2>2. ASSUME NEW raised \in SUBSET Sources, Stall(raised) PROVE IInv'
    BY <2>2 DEF IInv, TypeOK, FlowFromReset, FlowInMain, FlowInHandler,
                INST_DX, CouldBranch, IsMTC0, Stall, StalledPCNEXT
  <2>3. ASSUME NEW raised \in SUBSET Sources, Advance(raised) PROVE IInv'
    BY <2>3, FlowStep, TypeStep DEF IInv
  <2> QED
    BY <2>1, <2>2, <2>3 DEF Next
<1> QED
  BY <1>1, <1>2, PTL DEF Spec

\* The handler is never interrupted and always has a place in the main program
\* to return to.
THEOREM Alone == Spec => []HandlerRunsAlone
<1>1. IInv => HandlerRunsAlone
  BY DEF IInv, FlowInHandler, HandlerRunsAlone
<1> QED
  BY <1>1, InductiveInvariant, PTL

\* Every program is executed as the interface promises: each step of the
\* pipeline executes one instruction of the program, enters the handler between
\* two, or changes nothing a program can see.
THEOREM Refinement == Spec => PreciseSpec
<1>1. Init => Precise!Init
  <2>1. \A p \in Programs : Precise!WellFormed(p)
    BY DEF WellFormed, Precise!WellFormed, Main, Precise!Main, PC_BOOT,
           Precise!PC_BOOT, CouldBranch, Precise!CouldBranch, MainInstructions,
           Precise!MainInstructions, Plain, Precise!Plain, Branch, Precise!Branch,
           Jump, Precise!Jump, Status, Precise!Status, Cause, Precise!Cause
  <2> QED
    BY <2>1 DEF Init, Precise!Init, PC_BOOT, Precise!PC_BOOT
<1>2. IInv /\ [Next]_vars => [Precise!Next]_Precise!vars
  <2> SUFFICES ASSUME IInv, [Next]_vars PROVE [Precise!Next]_Precise!vars
    OBVIOUS
  <2>1. CASE UNCHANGED vars
    BY <2>1 DEF Precise!vars, vars, cop0
  <2>2. ASSUME NEW raised \in SUBSET Sources, Stall(raised)
        PROVE  UNCHANGED Precise!vars
    BY <2>2 DEF Precise!vars, Stall, StalledPCNEXT
  <2>3. ASSUME NEW raised \in SUBSET Sources, Advance(raised)
        PROVE  Precise!Next
    <3>0. /\ program' = program /\ PC_DX' = REG_PC /\ WAS_ISR' = DO_ISR
          /\ PC_DX \in {0} \cup Main \cup Handler
      BY <2>3, Edge DEF IInv, TypeOK
    <3>a. /\ Precise!Main = Main
          /\ Precise!Inst(program, PC_DX) = INST_DX
      BY DEF INST_DX, Inst, Precise!Inst, Main, Precise!Main, Handler,
             Precise!Handler, PC_BOOT, Precise!PC_BOOT, HandlerCode,
             Precise!HandlerCode, Plain, Precise!Plain, Acknowledge,
             Precise!Acknowledge, Return, Precise!Return, EnableAgain,
             Precise!EnableAgain
    <3>1. CASE PC_DX \in Main /\ WAS_ISR
      <4>1. /\ REG_PC = PC_ISR /\ REG_PC' = PC_ISR + 1 /\ ~WAS_ISR'
            /\ epc' = REG_PCNEXT /\ ~CouldBranch(INST_DX)
        BY <2>3, <3>0, <3>1, EntryEdge
      <4>2. INST_DX = program[PC_DX]
        BY <3>1 DEF INST_DX, Inst
      <4> QED
        BY <3>0, <3>a, <3>1, <4>1, <4>2
           DEF Precise!Next, Precise!ExecuteAndInterrupt, CouldBranch,
               Precise!CouldBranch
    <3>2. ASSUME ~WAS_ISR, epc' = epc,
                 REG_PC' = IF DO_ISR THEN PC_ISR ELSE REG_PCNEXT',
                 \E taken \in Decisions(INST_DX) : REG_PCNEXT' = MUX_PCNEXT(taken)
          PROVE  Precise!Next
      <4>1. PICK taken \in Decisions(INST_DX) : REG_PCNEXT' = MUX_PCNEXT(taken)
        BY <3>2
      <4>2. /\ taken \in Precise!Decisions(INST_DX)
            /\ MUX_PCNEXT(taken) = Precise!Target(INST_DX, taken, REG_PC, epc)
        BY <4>1 DEF Decisions, Precise!Decisions, CouldBranch, Precise!CouldBranch,
                    MUX_PCNEXT, Target, Precise!Target
      <4>3. (IF WAS_ISR' THEN REG_PCNEXT' ELSE REG_PC') = REG_PCNEXT'
        BY <3>0, <3>2
      <4> QED
        BY <3>0, <3>a, <3>2, <4>1, <4>2, <4>3 DEF Precise!Next, Precise!Execute
    <3>3. CASE PC_DX = 0
      BY <2>3, <3>2, <3>3, ResetEdge
    <3>4. CASE PC_DX \in Main /\ ~WAS_ISR
      BY <2>3, <3>2, <3>4, MainEdge
    <3>5. CASE PC_DX \in Handler
      BY <2>3, <3>2, <3>5, HandlerEdge
    <3> QED
      BY <3>0, <3>1, <3>3, <3>4, <3>5
  <2> QED
    BY <2>1, <2>2, <2>3 DEF Next
<1> QED
  BY <1>1, <1>2, InductiveInvariant, PTL DEF Spec, PreciseSpec, Precise!Spec
=============================================================================
