------------------------------ MODULE Datapath ------------------------------
(***************************************************************************)
(* What one instruction does in the CPU: the decoder (InstructionControl,  *)
(* ALUdec), the ALU, the comparator of branches, the byte lanes of loads   *)
(* and stores, the register file and the writes of COP0.  The pipeline is  *)
(* seen as the two addresses pc and npc, for a branch takes effect after   *)
(* the next instruction, and as the load that is not written back yet: a   *)
(* loaded value is not forwarded, so the next instruction reads the        *)
(* register as it was.                                                     *)
(*                                                                         *)
(* A word has 4*ByteBits bits.  An instruction is a record of its fields.  *)
(***************************************************************************)
EXTENDS Integers

CONSTANTS
  ByteBits,       \* bits of a byte (8)
  JumpBits,       \* bits of a jump's target field (26)
  Registers,      \* registers in use; 0 is one of them
  RA,             \* the register a jump and link writes (31)
  SM_BASE, SM_BYTES, ROM_BASE, ROM_BYTES, MMIO_BASE, MMIO_BYTES,
  IM_GLOBAL, IM_TIMER, IM_POSSIBLE

ASSUME BitsAssumption ==
  ByteBits \in Nat \ {0} /\ JumpBits \in Nat /\ JumpBits + 2 <= 4 * ByteBits

\* A word wraps, so there are no more powers of two than its bits.
WordBits == 4 * ByteBits
Power[i \in 0..WordBits] == IF i = 0 THEN 1 ELSE 2 * Power[i - 1]
Wide(n) == Power[n * ByteBits]
Byte == 0..(Wide(1) - 1)
Word == 0..(Wide(4) - 1)

ASSUME RegistersAssumption ==
  /\ Registers \subseteq Nat /\ {0, RA} \subseteq Registers
  /\ {IM_GLOBAL, IM_TIMER, IM_POSSIBLE} \subseteq Word

Inverted(a) == Wide(4) - 1 - a
Plus(a, b) == (a + b) % Wide(4)
Minus(a, b) == (a + Wide(4) - b) % Wide(4)
Bit(a, k) == (a \div Power[k]) % 2

\* The word with these bits, and the bitwise operators.
Number(bits) ==
  LET sum[k \in 0..WordBits] ==
        IF k = 0 THEN 0 ELSE sum[k - 1] + bits[k - 1] * Power[k - 1]
  IN  sum[WordBits]
And(a, b) == Number([k \in 0..(WordBits - 1) |-> Bit(a, k) * Bit(b, k)])
Or(a, b) == Number([k \in 0..(WordBits - 1) |-> IF Bit(a, k) + Bit(b, k) > 0 THEN 1 ELSE 0])
Xor(a, b) == Number([k \in 0..(WordBits - 1) |-> (Bit(a, k) + Bit(b, k)) % 2])

Signed(a, n) == IF a < Wide(n) \div 2 THEN a ELSE a - Wide(n)
SExt(a, n) == IF a < Wide(n) \div 2 THEN a ELSE a + Wide(4) - Wide(n)
Shamt(a) == a % WordBits
ShiftRight(a, k) == a \div Power[k]
ShiftArithmetic(a, k) == IF a < Wide(4) \div 2 THEN ShiftRight(a, k) ELSE Inverted(ShiftRight(Inverted(a), k))

Within(a, base, bytes) == a \in base..(base + bytes - 1)

\* The memories lie apart, and no instruction is the last one of the region that
\* a jump can reach (2^28 bytes; the image is at its beginning).
ASSUME MapAssumption ==
  /\ {SM_BASE, SM_BYTES, ROM_BASE, ROM_BYTES, MMIO_BASE, MMIO_BYTES} \subseteq Nat
  /\ \A a \in SM_BASE..(SM_BASE + SM_BYTES - 1) :
       ~Within(a, MMIO_BASE, MMIO_BYTES) /\ ~Within(a, ROM_BASE, ROM_BYTES)
  /\ MMIO_BASE % 4 = 0 /\ MMIO_BYTES % 4 = 0
  /\ ROM_BASE + ROM_BYTES < Wide(4)
  /\ (ROM_BASE % Power[JumpBits + 2]) + ROM_BYTES < Power[JumpBits + 2]

-----------------------------------------------------------------------------
(* The decoder.                                                            *)

isRType(i) == i.op = 0
isJType(i) == i.op \div 2 = 1
isCType(i) == i.op = 16
isMemory(i) == i.op \div 16 = 2
isMStore(i) == i.op \div 8 = 5
isMLoad(i) == i.op \div 8 = 4
isMSigned(i) == i.op \div 2 = 16
isIComp(i) == i.op \div 8 = 1
isISigned(i) == i.op \div 4 = 2 \/ isMemory(i)
isCopRead(i) == isCType(i) /\ i.rs = 0
isCopWrite(i) == isCType(i) /\ i.rs = 4
isRShift(i) == isRType(i) /\ i.fn \div 8 = 0
isRShiftI(i) == isRShift(i) /\ Bit(i.fn, 2) = 0
isROther(i) == isRType(i) /\ i.fn \div 16 = 2
isRJump(i) == isRType(i) /\ i.fn \div 2 = 4
isJump(i) == isJType(i) \/ isRJump(i)
isBSimple(i) == i.op \div 4 = 1
isBranchZr(i) == i.op = 1
isBranch(i) == isBranchZr(i) \/ isBSimple(i)
isBranch0(i) == isBranchZr(i) \/ i.op \div 2 = 3
isBLink(i) == isBranchZr(i) /\ Bit(i.rt, 4) = 1
isLink(i) == (isJType(i) /\ i.op % 2 = 1) \/ (isRJump(i) /\ i.fn % 2 = 1) \/ isBLink(i)

SRC1(i) == IF isJType(i) \/ isRShiftI(i) THEN 0 ELSE i.rs
SRC2(i) ==
  IF ~isBranch0(i) /\ (isROther(i) \/ i.op \div 2 = 2 \/ isRShift(i) \/ isMStore(i) \/ isCopWrite(i))
  THEN i.rt ELSE 0

DestReg(i) ==
  IF isJump(i) \/ isBranch(i) THEN IF ~isLink(i) THEN 0 ELSE IF isRJump(i) THEN i.rd ELSE RA
  ELSE IF isRType(i) THEN i.rd
  ELSE IF isMLoad(i) \/ isIComp(i) \/ isCopRead(i) THEN i.rt ELSE 0

CmpOp(i) ==
  IF isBSimple(i) THEN i.op % 8
  ELSE IF isBranchZr(i) THEN 1 + (i.rt % 2)
  ELSE IF isJump(i) THEN 3 ELSE 0

\* Bytes of an access; 0 is the shift of lwl, lwr, swl and swr.
AccessBytes(i) == CASE i.op % 4 = 3 -> 4 [] i.op % 4 = 1 -> 2 [] i.op % 4 = 0 -> 1 [] OTHER -> 0

-----------------------------------------------------------------------------
(* The ALU and the comparator.                                             *)

ALUOp(i) ==
  CASE isRType(i) /\ i.fn \in {0, 4} -> "SLL"
    [] isRType(i) /\ i.fn \in {2, 6} -> "SRL"
    [] isRType(i) /\ i.fn \in {3, 7} -> "SRA"
    [] (isRType(i) /\ i.fn \in {32, 33}) \/ isMemory(i) \/ i.op \in {8, 9} -> "ADDU"
    [] isRType(i) /\ i.fn \in {34, 35} -> "SUBU"
    [] (isRType(i) /\ i.fn = 36) \/ i.op = 12 -> "AND"
    [] (isRType(i) /\ i.fn = 37) \/ i.op = 13 -> "OR"
    [] (isRType(i) /\ i.fn = 38) \/ i.op = 14 -> "XOR"
    [] isRType(i) /\ i.fn = 39 -> "NOR"
    [] (isRType(i) /\ i.fn = 42) \/ i.op = 10 -> "SLT"
    [] (isRType(i) /\ i.fn = 43) \/ i.op = 11 -> "SLTU"
    [] i.op = 15 -> "LUI"
    [] OTHER -> "XXX"

ALU(op, A, B) ==
  LET truth(b) == IF b THEN 1 ELSE 0
  IN  CASE op = "ADDU" -> Plus(A, B)
        [] op = "SUBU" -> Minus(A, B)
        [] op = "SLT" -> truth(Signed(A, 4) < Signed(B, 4))
        [] op = "SLTU" -> truth(A < B)
        [] op = "AND" -> And(A, B)
        [] op = "OR" -> Or(A, B)
        [] op = "XOR" -> Xor(A, B)
        [] op = "NOR" -> And(Inverted(A), Inverted(B))
        [] op = "LUI" -> (B * Wide(2)) % Wide(4)
        [] op = "SLL" -> (B * Power[Shamt(A)]) % Wide(4)
        [] op = "SRL" -> ShiftRight(B, Shamt(A))
        [] op = "SRA" -> ShiftArithmetic(B, Shamt(A))
        [] OTHER -> 0

BranchCMP(op, A, B) ==
  LET a == Signed(A, 4)
      b == Signed(B, 4)
  IN  CASE op = 4 -> a = b [] op = 5 -> a # b [] op = 1 -> a < b [] op = 7 -> a > b
        [] op = 2 -> a >= b [] op = 6 -> a <= b [] op = 0 -> FALSE [] op = 3 -> TRUE

-----------------------------------------------------------------------------
(* Loads, stores and COP0.  sm is the shared memory by bytes, io what the   *)
(* addressed I/O register holds; other addresses read as 0.                 *)

\* The bytes of a big-endian access, none when it is misaligned.
Lanes(a, n) == IF n # 0 /\ a % n = 0 THEN [k \in 0..(n - 1) |-> a + k] ELSE [k \in {} |-> 0]

ByteAt(sm, io, a) ==
  IF Within(a, SM_BASE, SM_BYTES) THEN sm[a]
  ELSE IF Within(a, MMIO_BASE, MMIO_BYTES) THEN (io \div Wide(3 - (a % 4))) % Wide(1)
  ELSE 0

ByteAccess4(sm, io, a, n) ==
  LET lanes == Lanes(a, n)
      part(k) == IF k \in DOMAIN lanes THEN ByteAt(sm, io, lanes[k]) * Wide(n - 1 - k) ELSE 0
  IN  part(0) + part(1) + part(2) + part(3)

Written(sm, a, n, v) ==
  LET lanes == Lanes(a, n)
  IN  [x \in DOMAIN sm |->
         IF \E k \in DOMAIN lanes : lanes[k] = x THEN (v \div Wide(n - 1 - (x - a))) % Wide(1) ELSE sm[x]]

\* mfc0; Count counts cycles and is not modelled.
CopRead(h, n) ==
  CASE n = 11 -> h.compare [] n = 12 -> h.status [] n = 13 -> h.cause [] n = 14 -> h.epc [] OTHER -> 0

CopWritten(h, n, v) ==
  CASE n = 11 -> [h EXCEPT !.compare = v, !.cause = And(@, Inverted(IM_TIMER))]
    [] n = 12 -> [h EXCEPT !.status = v]
    [] n = 13 -> [h EXCEPT !.cause = Or(And(v, Inverted(IM_POSSIBLE)), And(And(@, v), IM_POSSIBLE))]
    [] OTHER -> h

\* A load that waits to be written back reaches the registers as the next
\* instruction leaves StageDX.
NoLoad == [reg |-> 0, val |-> 0]
Held(h) == IF h.load.reg = 0 THEN h.reg ELSE [h.reg EXCEPT ![h.load.reg] = h.load.val]

R1(h, i) == h.reg[SRC1(i)]
R2(h, i) == h.reg[SRC2(i)]
SIMMED(i) == SExt(i.imm, 2)

ALUResult(h, i) ==
  ALU(ALUOp(i),
      IF isRShiftI(i) THEN i.sh ELSE R1(h, i),
      IF isMemory(i) \/ isIComp(i) THEN IF isISigned(i) THEN SIMMED(i) ELSE i.imm ELSE R2(h, i))

takeBranch(h, i) == BranchCMP(CmpOp(i), R1(h, i), R2(h, i))

\* A jump stays in the region of its own address.
PCBranch(h, i) ==
  IF isRJump(i) THEN R1(h, i)
  ELSE IF isJump(i) THEN h.pc - (h.pc % Power[JumpBits + 2]) + i.target * 4
  ELSE Plus(Plus(h.pc, 4), (SIMMED(i) * 4) % Wide(4))

WriteReg(h, i) == IF isBLink(i) /\ ~takeBranch(h, i) THEN 0 ELSE DestReg(i)

RegWValue(h, i) ==
  IF isLink(i) THEN Plus(h.pc, 8) ELSE IF isCopRead(i) THEN CopRead(h, i.rd) ELSE ALUResult(h, i)

ValExtract(h, i, io) ==
  LET n == AccessBytes(i)
      loaded == ByteAccess4(h.sm, io, ALUResult(h, i), n)
  IN  IF isMSigned(i) /\ n \in {1, 2} THEN SExt(loaded, n) ELSE loaded

StageDX(h, i, io) ==
  LET dest == WriteReg(h, i)
      stepped == [h EXCEPT
        !.pc = h.npc,
        !.npc = IF isJump(i) \/ takeBranch(h, i) THEN PCBranch(h, i) ELSE Plus(h.npc, 4),
        !.reg = IF isMLoad(i) \/ dest = 0 THEN Held(h) ELSE [Held(h) EXCEPT ![dest] = RegWValue(h, i)],
        !.load = IF ~isMLoad(i) \/ dest = 0 THEN NoLoad ELSE [reg |-> dest, val |-> ValExtract(h, i, io)],
        !.sm = IF isMStore(i) THEN Written(h.sm, ALUResult(h, i), AccessBytes(i), R2(h, i)) ELSE h.sm]
  IN  IF isCopWrite(i) THEN CopWritten(stepped, i.rd, R2(h, i)) ELSE stepped
=============================================================================
