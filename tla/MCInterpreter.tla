--------------------------- MODULE MCInterpreter ---------------------------
(***************************************************************************)
(* Handlers of at most four instructions over 8-bit words (2-bit bytes)    *)
(* and four registers, each with any instruction the interpreter knows and *)
(* some it does not; the last two only use what the first two did.         *)
(***************************************************************************)
EXTENDS Interpreter

I(op, rs, rt, rd, sh, fn, imm, target) ==
  [op |-> op, rs |-> rs, rt |-> rt, rd |-> rd, sh |-> sh, fn |-> fn, imm |-> imm, target |-> target]
R(fn, rs, rt, rd, sh) == I(0, rs, rt, rd, sh, fn, 0, 0)
M(op, rs, rt, imm) == I(op, rs, rt, 0, 0, 0, imm, 0)
C(rs, rt, rd) == I(16, rs, rt, rd, 0, 0, 0, 0)
J(op, target) == I(op, 0, 0, 0, 0, 0, 0, target)

nop == R(0, 0, 0, 0, 0)
Shifts == {R(fn, 0, 2, 1, sh) : fn \in {0, 2, 3}, sh \in {1, 7}} \cup {R(fn, 1, 2, 2, 0) : fn \in {4, 6, 7}}
Arithmetics == {R(fn, 1, 2, 1, 0) : fn \in 32..39 \cup {42, 43}}
Immediates == {M(op, 1, 2, imm) : op \in 8..15, imm \in {3, 9}}
Jumps == {R(8, 1, 0, 0, 0), R(9, 1, 0, 3, 0), R(9, 3, 0, 3, 0), J(2, 3), J(3, 12)}
Branches == {M(op, 1, 2, 15) : op \in 4..7} \cup {M(1, 1, rt, 2) : rt \in {0, 1, 16}}
Loads == {M(op, 1, 1, 0) : op \in {32, 33, 34, 35, 36, 37}} \cup {M(op, 1, 2, 3) : op \in {32, 36}}
         \cup {M(op, 1, 2, 4) : op \in {33, 37}}
Stores == {M(op, 1, 2, 0) : op \in {40, 41, 43}} \cup {M(41, 1, 2, 4), M(43, 1, 2, 4), M(40, 1, 2, 3)}
Cop0 == {C(0, 1, rd) : rd \in {9, 11, 12, 13, 14}} \cup {C(4, 2, rd) : rd \in {11, 12, 13, 14}} \cup {C(16, 0, 0)}

All == {nop} \cup Shifts \cup Arithmetics \cup Immediates \cup Jumps \cup Branches \cup Loads \cup Stores \cup Cop0
Uses == {nop, R(33, 1, 2, 1, 0), R(8, 1, 0, 0, 0), M(4, 1, 2, 15), J(3, 3), M(35, 1, 2, 0), M(43, 1, 1, 0), C(0, 1, 13)}

Handlers == <<All, All, Uses, Uses>>
Values == {[r \in 0..3 |-> IF r = 0 THEN 0 ELSE IF r = 1 THEN a ELSE IF r = 2 THEN b ELSE 240] :
             a \in {64, 128, 131, 240, 255}, b \in {5, 144}}
Structure == {[at |-> 0, bytes |-> 4, value |-> 27], [at |-> 4, bytes |-> 2, value |-> 9]}
=============================================================================
