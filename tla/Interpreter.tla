---------------------------- MODULE Interpreter ----------------------------
(***************************************************************************)
(* The interpreter with which Vizard runs an application's interrupt       *)
(* handler (tool/vizard/src/vizard_mips.c), in step with the hardware's    *)
(* Datapath on the same instructions, to say on which programs the two     *)
(* agree.                                                                  *)
(*                                                                         *)
(* cpu is the VizardMips structure, whose shared memory is the structure   *)
(* of the application in the host's byte order, lowest byte first; hw is   *)
(* the state of the Datapath, whose memory has the highest byte first.     *)
(* The handler is any sequence of instructions, Fetched[k] the k-th's      *)
(* choice.                                                                 *)
(***************************************************************************)
EXTENDS Datapath

CONSTANTS
  Fetched,        \* Fetched[k]: the instructions the k-th step may execute
  Devices,        \* what a device register, or a word of the image, may hold
  RegisterValues, \* the registers the handlers before may have left
  Causes,         \* the cause bits an interrupt may raise
  Fields,         \* the fields of the shared structure: [at, bytes, value]
  ISR_VECTOR, RETURN, MAX_STEPS,
  MaxCount        \* bound: no interrupt after so many instructions

\* An instruction's fields; the registers it names are there.
Instruction ==
  {i \in [op : 0..63, rs : 0..31, rt : 0..31, rd : 0..31, sh : 0..(WordBits - 1), fn : 0..63,
          imm : 0..(Wide(2) - 1), target : 0..(Power[JumpBits] - 1)] :
     /\ i.op # 16 => i.rs \in Registers
     /\ i.op # 1 => i.rt \in Registers
     /\ i.op = 0 => i.rd \in Registers}

ASSUME InterpreterAssumption ==
  /\ MAX_STEPS \in Nat \ {0}
  /\ {RETURN, ISR_VECTOR} \subseteq Word /\ Devices \subseteq Word /\ Causes \subseteq Word
  /\ RegisterValues \subseteq {r \in [Registers -> Word] : r[0] = 0}
  /\ \A k \in 1..MAX_STEPS : Fetched[k] \subseteq Instruction

\* The structure's fields are aligned and do not overlap.
ASSUME FieldsAssumption ==
  /\ Fields \subseteq [at : Nat, bytes : {1, 2, 4}, value : Nat]
  /\ \A f \in Fields : f.at % f.bytes = 0 /\ f.at + f.bytes <= SM_BYTES
  /\ \A f, g \in Fields : f # g => f.at + f.bytes <= g.at \/ g.at + g.bytes <= f.at

VARIABLES
  cpu,      \* the interpreter's registers, memory and faulted
  hw,       \* the hardware's
  running,  \* inside vizard_mips_interrupt
  steps,    \* its loop counter
  same      \* "yes" while the handler did nothing on which the two differ

handlerVars == <<cpu, hw, running, steps, same>>

-----------------------------------------------------------------------------
(* The interpreter.                                                        *)

Nothing == [ok |-> FALSE, value |-> 0]

is_mmio(a) == Within(a, MMIO_BASE, MMIO_BYTES)
sm_ptr(a, size) == Within(a, SM_BASE, SM_BYTES) /\ a - SM_BASE + size <= SM_BYTES
InImage(a, size) == a >= ROM_BASE /\ a - ROM_BASE + size <= ROM_BYTES

\* There is no lwl, lwr, swl or swr, so that size is never 0.
mem_read(c, a, size, io) ==
  IF is_mmio(a) THEN [ok |-> size \in {1, 4}, value |-> io]
  ELSE IF a % size # 0 THEN Nothing
  ELSE IF InImage(a, size) THEN [ok |-> TRUE, value |-> io % Wide(size)]
  ELSE IF ~sm_ptr(a, size) THEN Nothing
  ELSE LET part(k) == IF k < size THEN c.sm[a + k] * Wide(k) ELSE 0
       IN  [ok |-> TRUE, value |-> part(0) + part(1) + part(2) + part(3)]

mem_write(c, a, size, v) ==
  IF is_mmio(a) THEN [ok |-> size = 4, sm |-> c.sm]
  ELSE IF a % size # 0 \/ ~sm_ptr(a, size) THEN [ok |-> FALSE, sm |-> c.sm]
  ELSE [ok |-> TRUE,
        sm |-> [x \in DOMAIN c.sm |->
                  IF x \in a..(a + size - 1) THEN (v \div Wide(x - a)) % Wide(1) ELSE c.sm[x]]]

cop0_reg ==
  [n \in {9, 11, 12, 13, 14} |->
     CASE n = 9 -> "count" [] n = 11 -> "compare" [] n = 12 -> "status"
       [] n = 13 -> "cause" [] n = 14 -> "epc"]

\* The instructions step knows; it returns false on the others.
Known(i) ==
  CASE i.op = 0 -> i.fn \in {0, 2, 3, 4, 6, 7, 8, 9, 42, 43} \cup 32..39
    [] i.op = 1 -> i.rt \in {0, 1}
    [] i.op = 16 -> i.rs \in {0, 4} /\ i.rd \in DOMAIN cop0_reg
    [] OTHER -> i.op \in 2..15 \cup {32, 33, 35, 36, 37, 40, 41, 43}

Taken(c, i) ==
  LET s == c.reg[i.rs]
      negative == s >= Wide(4) \div 2
  IN  CASE i.op = 1 -> (i.rt = 0) = negative
        [] i.op = 4 -> s = c.reg[i.rt]
        [] i.op = 5 -> s # c.reg[i.rt]
        [] i.op = 6 -> negative \/ s = 0
        [] i.op = 7 -> ~negative /\ s # 0
        [] OTHER -> FALSE

\* What an instruction without memory puts in a register.
Computed(c, i) ==
  LET s == c.reg[i.rs]
      t == c.reg[i.rt]
      simm == SExt(i.imm, 2)
      less(x, y) == IF x < y THEN 1 ELSE 0
      shift == IF i.fn < 4 THEN i.sh ELSE Shamt(s)
  IN  CASE i.op = 3 \/ (i.op = 0 /\ i.fn = 9) -> Plus(c.pc, 8)
        [] i.op = 0 /\ i.fn \in {0, 4} -> (t * Power[shift]) % Wide(4)
        [] i.op = 0 /\ i.fn \in {2, 6} -> ShiftRight(t, shift)
        [] i.op = 0 /\ i.fn \in {3, 7} -> ShiftArithmetic(t, shift)
        [] i.op = 0 /\ i.fn \in {32, 33} -> Plus(s, t)
        [] i.op = 0 /\ i.fn \in {34, 35} -> Minus(s, t)
        [] i.op = 0 /\ i.fn = 36 -> And(s, t)
        [] i.op = 0 /\ i.fn = 37 -> Or(s, t)
        [] i.op = 0 /\ i.fn = 38 -> Xor(s, t)
        [] i.op = 0 /\ i.fn = 39 -> Inverted(Or(s, t))
        [] i.op = 0 /\ i.fn = 42 -> less(Signed(s, 4), Signed(t, 4))
        [] i.op = 0 /\ i.fn = 43 -> less(s, t)
        [] i.op \in {8, 9} -> Plus(s, simm)
        [] i.op = 10 -> less(Signed(s, 4), Signed(simm, 4))
        [] i.op = 11 -> less(s, simm)
        [] i.op = 12 -> And(s, i.imm)
        [] i.op = 13 -> Or(s, i.imm)
        [] i.op = 14 -> Xor(s, i.imm)
        [] i.op = 15 -> (i.imm * Wide(2)) % Wide(4)
        [] i.op = 16 -> c[cop0_reg[i.rd]]

Destination(i) ==
  CASE i.op = 0 -> IF i.fn = 8 THEN 0 ELSE i.rd
    [] i.op = 3 -> RA
    [] i.op \in 8..15 \/ (i.op = 16 /\ i.rs = 0) -> i.rt
    [] OTHER -> 0

Cop0Written(c, i) ==
  LET v == c.reg[i.rt]
      pending_interrupts == And(c.cause, IM_POSSIBLE)
      value == IF i.rd = 13 THEN Or(And(v, Inverted(IM_POSSIBLE)), And(pending_interrupts, v)) ELSE v
  IN  [c EXCEPT ![cop0_reg[i.rd]] = value]

\* Mutant: branch targets counted from npc instead of pc.
Bug_FromNext(c, i) ==
  LET after == Plus(c.npc, 4)
  IN  CASE i.op \in {2, 3} -> (after - (after % Power[JumpBits + 2])) + i.target * 4
        [] i.op = 0 /\ i.fn \in {8, 9} -> c.reg[i.rs]
        [] Taken(c, i) -> Plus(after, (SExt(i.imm, 2) * 4) % Wide(4))
        [] OTHER -> after

\* Where npc goes: a branch or a jump takes effect after the next instruction.
NextPC(c, i) ==
  LET after == Plus(c.pc, 4)
  IN  CASE i.op \in {2, 3} -> (after - (after % Power[JumpBits + 2])) + i.target * 4
        [] i.op = 0 /\ i.fn \in {8, 9} -> c.reg[i.rs]
        [] Taken(c, i) -> Plus(after, (SExt(i.imm, 2) * 4) % Wide(4))
        [] OTHER -> Plus(c.npc, 4)

Put(c, r, v) == IF r = 0 THEN c ELSE [c EXCEPT !.reg[r] = v]

\* lb and lh keep the low byte or half of what mem_read gives and extend its
\* sign; lbu and lhu keep all of it.
SizeOf(i) == CASE i.op \in {32, 36, 40} -> 1 [] i.op \in {33, 37, 41} -> 2 [] OTHER -> 4
Extended(i, v) == IF i.op \in {32, 33} THEN SExt(v % Wide(SizeOf(i)), SizeOf(i)) ELSE v

\* step: [ok, cpu], the structure as an instruction leaves it.  One that
\* returns false has moved pc, npc and count all the same.
step(before, i, io) ==
  LET c == [before EXCEPT !.count = Plus(@, 1)]
      moved == [c EXCEPT !.pc = c.npc, !.npc = Plus(c.npc, 4)]
      address == Plus(c.reg[i.rs], SExt(i.imm, 2))
      read == mem_read(c, address, SizeOf(i), io)
      written == mem_write(c, address, SizeOf(i), c.reg[i.rt])
  IN  CASE ~Known(i) -> [ok |-> FALSE, cpu |-> moved]
        [] Known(i) /\ isMLoad(i) ->
             [ok |-> read.ok, cpu |-> IF read.ok THEN Put(moved, i.rt, Extended(i, read.value)) ELSE moved]
        [] Known(i) /\ isMStore(i) -> [ok |-> written.ok, cpu |-> [moved EXCEPT !.sm = written.sm]]
        [] Known(i) /\ isCopWrite(i) -> [ok |-> TRUE, cpu |-> Cop0Written(moved, i)]
        [] OTHER -> [ok |-> TRUE,
                     cpu |-> IF Destination(i) = 0 THEN [moved EXCEPT !.npc = NextPC(c, i)]
                             ELSE Put([moved EXCEPT !.npc = NextPC(c, i)], Destination(i), Computed(c, i))]

-----------------------------------------------------------------------------
(* What a program must not do for the two to agree.                        *)

\* The next instruction's registers must not be the ones of a load just before.
UsesLoaded(i) == hw.load.reg # 0 /\ hw.load.reg \in {SRC1(i), SRC2(i)}

\* A field of the structure is read and written as a whole, a device's
\* register as a word or by its lowest byte, which must be all it holds; the
\* image is not data.
Address(i) == Plus(cpu.reg[i.rs], SExt(i.imm, 2))
WholeField(i) == \E f \in Fields : Address(i) = SM_BASE + f.at /\ SizeOf(i) = f.bytes
OneByte(i, io) == isMLoad(i) /\ SizeOf(i) = 1 /\ Address(i) % 4 = 3 /\ io < Wide(1)
WholeWord(i) == SizeOf(i) = 4 /\ Address(i) % 4 = 0
Portable(i, io) ==
  isMemory(i) => WholeField(i) \/ (is_mmio(Address(i)) /\ (WholeWord(i) \/ OneByte(i, io)))

\* The counter counts instructions, and mtc0 can set EPC.
OnlyHere(i) == (isCopRead(i) /\ i.rd = 9) \/ (isCopWrite(i) /\ i.rd = 14)

\* Writing Compare clears the timer's bit of Cause in the hardware only, until
\* the handler clears the bit itself.
StillSame(i, io) ==
  IF same = "no" \/ UsesLoaded(i) \/ ~Portable(i, io) \/ OnlyHere(i) THEN "no"
  ELSE IF isCopWrite(i) /\ i.rd = 11 THEN IF And(cpu.cause, IM_TIMER) # 0 THEN "but timer" ELSE same
  ELSE IF same = "but timer" /\ isCopRead(i) /\ i.rd = 13 THEN "no"
  ELSE IF isCopWrite(i) /\ i.rd = 13 /\ And(cpu.reg[i.rt], IM_TIMER) = 0 THEN "yes"
  ELSE same

-----------------------------------------------------------------------------
(* vizard_mips_interrupt, step by step.                                    *)

Shared == SM_BASE..(SM_BASE + SM_BYTES - 1)
\* The k-th byte of a field is the one at this place of its value: the host
\* stores the low byte first, the hardware the high one.
LowFirst(f, k) == k
HighFirst(f, k) == f.bytes - 1 - k
Place(order, f, k) == IF order = "low" THEN LowFirst(f, k) ELSE HighFirst(f, k)

Layout(order) ==
  [x \in Shared |->
     IF \E f \in Fields : x - SM_BASE \in f.at..(f.at + f.bytes - 1)
     THEN LET f == CHOOSE f \in Fields : x - SM_BASE \in f.at..(f.at + f.bytes - 1)
          IN  (f.value \div Wide(Place(order, f, x - SM_BASE - f.at))) % Wide(1)
     ELSE 0]

\* Between two interrupts: the registers hold what the handlers before left.
HandlerInit ==
  /\ \E r \in RegisterValues :
       /\ cpu = [reg |-> r, pc |-> RETURN, npc |-> Plus(RETURN, 4), count |-> 0, compare |-> 0,
                 status |-> IM_GLOBAL, cause |-> 0, epc |-> RETURN, faulted |-> FALSE, sm |-> Layout("low")]
       /\ hw = [reg |-> r, load |-> NoLoad, pc |-> RETURN, npc |-> Plus(RETURN, 4), compare |-> 0,
                status |-> IM_GLOBAL, cause |-> 0, epc |-> RETURN, sm |-> Layout("high")]
  /\ running = FALSE
  /\ steps = 0
  /\ same = "yes"

\* The hardware enters a handler with the interrupt's bit in Cause, the
\* interrupted address in EPC and interrupts disabled.
Entered(h, causes) ==
  [h EXCEPT !.cause = Or(@, causes), !.epc = RETURN, !.status = And(@, Inverted(IM_GLOBAL)),
            !.pc = ISR_VECTOR, !.npc = Plus(ISR_VECTOR, 4)]

Interrupt ==
  /\ ~running
  /\ ~cpu.faulted
  /\ cpu.count < MaxCount
  /\ \E causes \in Causes :
       /\ cpu' = Entered(cpu, causes)
       /\ hw' = Entered([hw EXCEPT !.reg = Held(hw), !.load = NoLoad], causes)
  /\ running' = TRUE
  /\ steps' = 0
  /\ UNCHANGED same

Return ==
  /\ running
  /\ steps < MAX_STEPS
  /\ cpu.pc = RETURN
  /\ running' = FALSE
  /\ UNCHANGED <<cpu, hw, steps, same>>

\* An instruction is fetched where mem_read can read a word: only the image
\* is what the hardware would fetch.
Fetchable == mem_read(cpu, cpu.pc, 4, 0).ok

Execute ==
  /\ running
  /\ steps < MAX_STEPS
  /\ cpu.pc # RETURN
  /\ steps' = steps + 1
  /\ IF Fetchable
     THEN \E i \in Fetched[steps + 1] : \E io \in (IF isMLoad(i) THEN Devices ELSE {0}) :
            LET done == step(cpu, i, io)
            IN  /\ cpu' = [done.cpu EXCEPT !.faulted = ~done.ok]
                /\ hw' = StageDX(hw, i, io)
                /\ same' = IF done.ok /\ InImage(cpu.pc, 4) THEN StillSame(i, io) ELSE "no"
                /\ running' = done.ok
     ELSE /\ cpu' = [cpu EXCEPT !.faulted = TRUE]
          /\ running' = FALSE
          /\ same' = "no"
          /\ UNCHANGED hw

\* Mutant: a loop without the limit, the handler branching to itself.
Bug_NoLimit == running /\ steps = MAX_STEPS /\ UNCHANGED handlerVars

\* The handler did not return within MAX_STEPS instructions.
GiveUp ==
  /\ running
  /\ steps = MAX_STEPS
  /\ cpu' = [cpu EXCEPT !.faulted = TRUE]
  /\ running' = FALSE
  /\ UNCHANGED <<hw, steps, same>>

Handling == Return \/ Execute \/ GiveUp
HandlerNext == Interrupt \/ Handling

\* The call runs to its end: it is ordinary code of one thread.
HandlerSpec == HandlerInit /\ [][HandlerNext]_handlerVars /\ WF_handlerVars(Handling)

-----------------------------------------------------------------------------
(* What the two have in common.                                            *)

ValueOf(order, sm, f) ==
  LET part(k) == IF k < f.bytes THEN sm[SM_BASE + f.at + k] * Wide(Place(order, f, k)) ELSE 0
  IN  part(0) + part(1) + part(2) + part(3)

\* Whatever the handler, as long as it does nothing on which the two differ,
\* the interpreter has the registers, the branch targets, Status, Cause,
\* Compare and EPC of the hardware and every field of the shared structure has
\* the hardware's value, in the other byte order: the instructions, the delay
\* slots and the interrupt bits of Cause are read alike.
SameAsHardware ==
  same # "no" =>
    /\ cpu.reg = Held(hw)
    /\ <<cpu.pc, cpu.npc>> = <<hw.pc, hw.npc>>
    /\ <<cpu.status, cpu.compare, cpu.epc>> = <<hw.status, hw.compare, hw.epc>>
    /\ IF same = "yes" THEN cpu.cause = hw.cause
       ELSE And(cpu.cause, Inverted(IM_TIMER)) = And(hw.cause, Inverted(IM_TIMER))
    /\ \A f \in Fields : ValueOf("low", cpu.sm, f) = ValueOf("high", hw.sm, f)

\* An interrupt is over after at most MAX_STEPS instructions, whatever the
\* handler, so that the window goes on answering.
InterruptEnds == running ~> ~running
=============================================================================
