----------------------------- MODULE Arithmetic -----------------------------
(***************************************************************************)
(* Multiplication on a processor that has no multiply instruction: the     *)
(* loops and the unrolled additions of mutmath.c, in words of WordBits bits*)
(* whose halves have HalfBits (32 and 16 in the program).  A loop is a     *)
(* recursive function of the number of its turns.                          *)
(***************************************************************************)
EXTENDS Integers

CONSTANTS WordBits, HalfBits

ASSUME WidthAssumption ==
  WordBits \in Nat /\ HalfBits \in Nat \ {0} /\ 2 * HalfBits <= WordBits

\* 1 << i, and the numbers of values that words and their halves have.
Power[i \in Nat] == IF i = 0 THEN 1 ELSE 2 * Power[i - 1]
Word == Power[WordBits]
Half == Power[HalfBits]

Bit(n, i) == (n \div Power[i]) % 2
ShiftLeft(n, i) == (n * Power[i]) % Word

\* A word read as a number with a sign.
Signed(n) == IF n >= Word \div 2 THEN n - Word ELSE n
Unsigned(n) == n % Word
Magnitude(n) == IF n < 0 THEN -n ELSE n

Bug_Sum(n, m, turns) ==
  LET sum[i \in 0..turns] ==
        IF i = 0 THEN 0
        ELSE (sum[i - 1] + Bit(m, i - 1) * n * Power[i - 1]) % Half
  IN sum[turns]
\* The sum of n shifted by the position of every bit that m has among the
\* first "turns".
Sum(n, m, turns) ==
  LET sum[i \in 0..turns] ==
        IF i = 0 THEN 0
        ELSE (sum[i - 1] + Bit(m, i - 1) * ShiftLeft(n, i - 1)) % Word
  IN sum[turns]

\* The turns of "while (bb) { ...; bb >>= 1; }": the width of bb.
Width(bb) ==
  LET width[i \in 0..WordBits] ==
        IF i = 0 THEN 0 ELSE IF bb >= Power[i - 1] THEN i ELSE width[i - 1]
  IN width[WordBits]

mul32u32u(a, b) == Sum(a, b, Width(b))
mul16u32u(m1, m2) == Sum(m1, m2, HalfBits)
sqr16u32u(x) == Sum(x, x, HalfBits)

\* No value is returned by a statement: the one of the call before the end of
\* the function is still in the register results are returned in.
sqr32u32u(n) == mul32u32u(n, n)

\* The repeated addition of the smaller factor's number of times.
mut_mul32u_naive(n, m) ==
  LET prod[i \in 0..(Half - 1)] ==
        IF i = 0 THEN 0 ELSE (prod[i - 1] + (IF n < m THEN m ELSE n)) % Word
  IN prod[IF n < m THEN n ELSE m]

\* (r ^ mask) - mask with the sign's mask: r or, for factors of different
\* signs, its complement and one.
WithSign(r, m1, m2) ==
  Signed(IF (m1 < 0) # (m2 < 0) THEN (Word - 1 - r + 1) % Word ELSE r)
mut_mul32s_branchless(m1, m2) ==
  WithSign(Sum(Magnitude(m1), Magnitude(m2), HalfBits), m1, m2)
times(aa, bb) ==
  LET r == Sum(Magnitude(aa), Magnitude(bb), Width(Magnitude(bb)))
  IN IF (aa < 0) # (bb < 0) THEN -Signed(r) ELSE Signed(r)

\* Matrices of n by n are stored in row-major order.  The identity and the one
\* whose rows count up from 0.
generate_matrices(n) ==
  [A |-> [e \in 0..(n * n - 1) |-> IF e \div n = e % n THEN 1 ELSE 0],
   B |-> [e \in 0..(n * n - 1) |-> e % n]]

Added(a, b) == Signed(Unsigned(a + b))

\* Row i of A times column j of B.
Entry(A, B, n, i, j) ==
  LET s[k \in 0..n] ==
        IF k = 0 THEN 0
        ELSE Added(s[k - 1], times(A[i * n + k - 1], B[(k - 1) * n + j]))
  IN s[n]

\* S = AB, and the sum of the entries of S.
mmult(A, B, n) ==
  LET S == [e \in 0..(n * n - 1) |-> Entry(A, B, n, e \div n, e % n)]
      sum[e \in 0..(n * n)] == IF e = 0 THEN 0 ELSE Added(sum[e - 1], S[e - 1])
  IN  [S |-> S, sum |-> Unsigned(sum[n * n])]
-----------------------------------------------------------------------------
(* Properties *)

\* Every way to multiply gives the product of the factors, which is what
\* check_mutmath.c prints for a few pairs (lines 33-79).
ProductOf(n, m) ==
  /\ mul16u32u(n, m) = n * m
  /\ mul32u32u(n, m) = n * m
  /\ mut_mul32u_naive(n, m) = n * m
  /\ sqr16u32u(n) = n * n /\ sqr32u32u(n) = n * n
SignedProductOf(n, m) == mut_mul32s_branchless(n, m) = n * m /\ times(n, m) = n * m

\* The sum mmult prints is that of the columns of A times the rows of B.
MatrixProductOf(A, B) ==
  LET Column(k) == A[k] + A[2 + k]
      Row(k) == B[2 * k] + B[2 * k + 1]
  IN  mmult(A, B, 2).sum = Unsigned(Column(0) * Row(0) + Column(1) * Row(1))

\* The factors the functions take: half a word, without and with a sign.
Halves == 0..(Half - 1)
SignedHalves == -(Half \div 2)..(Half \div 2 - 1)
Matrices(entries) == [0..3 -> entries]

\* The multiplications of mutmath.c agree for all their factors, and so does
\* the product of matrices mmult.c computes, here for the entries with which
\* its products are the largest.
AllProducts ==
  /\ \A n, m \in Halves : ProductOf(n, m)
  /\ \A n, m \in SignedHalves : SignedProductOf(n, m)
  /\ \A A, B \in Matrices({-(Half \div 2), -1, Half \div 2 - 1}) : MatrixProductOf(A, B)
=============================================================================
