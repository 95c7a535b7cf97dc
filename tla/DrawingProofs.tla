--------------------------- MODULE DrawingProofs ----------------------------
(***************************************************************************)
(* What the shapes, the multiplications and the command lists do, for every*)
(* value of the constants: the pixels of a line are the nearest to the line*)
(* between its two points and it arrives at the second one; each way to    *)
(* multiply gives the product, for words of every width; every list of     *)
(* commands is taken apart into the commands it was put together from; the *)
(* program, its prototypes, the emulator and the engines draw the same     *)
(* lines, rectangles and ellipses but for the cases named.                 *)
(***************************************************************************)
EXTENDS Renderers, NumberLemmas, SequenceTheorems

\* One turn adds negB, or negB and errA, to the error.
LEMMA ErrorStep ==
  ASSUME NEW e \in Int, NEW h \in Int, NEW n \in Int, NEW A \in Int,
         NEW k \in Int, NEW j \in Int, e = h + n * k + A * j
  PROVE  /\ e + n = h + n * (k + 1) + A * j
         /\ e + n + A = h + n * (k + 1) + A * (j + 1)
<1>1. n * (k + 1) = n * k + n
  OBVIOUS
<1>2. A * (j + 1) = A * j + A
  OBVIOUS
<1>3. n * k \in Int /\ A * j \in Int
  OBVIOUS
<1>. QED
  BY <1>1, <1>2, <1>3

\* A multiple of A between -A and A is zero times A.
LEMMA SmallMultiple ==
  ASSUME NEW A \in Int, NEW z \in Int, A > 0, -A < A * z, A * z < A
  PROVE  z = 0
<1>1. CASE z >= 1
  <2>1. A * z = A + A * (z - 1)
    OBVIOUS
  <2>2. A * (z - 1) >= 0
    BY <1>1
  <2>. QED
    BY <2>1, <2>2
<1>2. CASE z <= -1
  <2>1. A * z = -A + A * (z + 1)
    OBVIOUS
  <2>2. A * (z + 1) <= 0
    BY <1>2
  <2>. QED
    BY <2>1, <2>2
<1>. QED
  BY <1>1, <1>2

\* A product with the sign of b's steps.
LEMMA SignedDistance ==
  ASSUME NEW o \in {1, -1}, NEW d \in Int
  PROVE  o * d \in Int /\ o * d = (IF o = 1 THEN d ELSE -d)
<1>1. CASE o = 1
  BY <1>1
<1>2. CASE o = -1
  BY <1>2
<1>. QED
  BY <1>1, <1>2

\* Two ends of which the second is not before the first in a, nor farther
\* away in b.
LEMMA EndsOf ==
  ASSUME NEW s, a0(s) \in Int, b0(s) \in Int, a1(s) \in Int, b1(s) \in Int,
         a0(s) <= a1(s), Distance(b0(s), b1(s)) <= a1(s) - a0(s)
  PROVE  /\ a0(s) \in Int /\ b0(s) \in Int /\ a1(s) \in Int /\ b1(s) \in Int
         /\ errA(s) \in Int /\ errA(s) >= 0
         /\ negB(s) \in Int /\ negB(s) <= 0 /\ -errA(s) <= negB(s)
         /\ \/ offB(s) = 1 /\ b1(s) - b0(s) = -negB(s)
            \/ offB(s) = -1 /\ b0(s) - b1(s) = -negB(s)
BY DEF offB, negB, errA, Distance, Larger, Smaller

\* The line after turning and flipping: it runs upwards in a, and b is no
\* farther apart than a.
LEMMA Ends ==
  ASSUME NEW s \in Shapes
  PROVE  /\ a0(s) \in Int /\ b0(s) \in Int /\ a1(s) \in Int /\ b1(s) \in Int
         /\ errA(s) \in Int /\ errA(s) >= 0
         /\ negB(s) \in Int /\ negB(s) <= 0 /\ -errA(s) <= negB(s)
         /\ \/ offB(s) = 1 /\ b1(s) - b0(s) = -negB(s)
            \/ offB(s) = -1 /\ b0(s) - b1(s) = -negB(s)
<1>1. s.x0 \in Int /\ s.y0 \in Int /\ s.x1 \in Int /\ s.y1 \in Int
  BY ShapesAssumption DEF AllShapes
<1>2. CASE spin(s) /\ flip(s)
  <2>1. a0(s) = s.y1 /\ b0(s) = s.x1 /\ a1(s) = s.y0 /\ b1(s) = s.x0
    BY <1>2 DEF a0, b0, a1, b1, First, Last
  <2>2. s.y1 <= s.y0 /\ Distance(s.x1, s.x0) <= s.y0 - s.y1
    BY <1>1, <1>2 DEF spin, flip, Distance, Larger, Smaller
  <2>. QED
    BY <1>1, <2>1, <2>2, EndsOf
<1>3. CASE spin(s) /\ ~flip(s)
  <2>1. a0(s) = s.y0 /\ b0(s) = s.x0 /\ a1(s) = s.y1 /\ b1(s) = s.x1
    BY <1>3 DEF a0, b0, a1, b1, First, Last
  <2>2. s.y0 <= s.y1 /\ Distance(s.x0, s.x1) <= s.y1 - s.y0
    BY <1>1, <1>3 DEF spin, flip, Distance, Larger, Smaller
  <2>. QED
    BY <1>1, <2>1, <2>2, EndsOf
<1>4. CASE ~spin(s) /\ flip(s)
  <2>1. a0(s) = s.x1 /\ b0(s) = s.y1 /\ a1(s) = s.x0 /\ b1(s) = s.y0
    BY <1>4 DEF a0, b0, a1, b1, First, Last
  <2>2. s.x1 <= s.x0 /\ Distance(s.y1, s.y0) <= s.x0 - s.x1
    BY <1>1, <1>4 DEF spin, flip, Distance, Larger, Smaller
  <2>. QED
    BY <1>1, <2>1, <2>2, EndsOf
<1>5. CASE ~spin(s) /\ ~flip(s)
  <2>1. a0(s) = s.x0 /\ b0(s) = s.y0 /\ a1(s) = s.x1 /\ b1(s) = s.y1
    BY <1>5 DEF a0, b0, a1, b1, First, Last
  <2>2. s.x0 <= s.x1 /\ Distance(s.y0, s.y1) <= s.x1 - s.x0
    BY <1>1, <1>5 DEF spin, flip, Distance, Larger, Smaller
  <2>. QED
    BY <1>1, <2>1, <2>2, EndsOf
<1>. QED
  BY <1>2, <1>3, <1>4, <1>5
-----------------------------------------------------------------------------
IInv == LoopKinds /\ LineInv

\* The invariant of the loops holds at first, is inductive, and puts the pixels of a
\* line at the nearest places.
LEMMA InitIInv == Init => IInv
BY DEF Init, IInv, LoopKinds, LineInv, Idle

\* The first values of the loop.
LEMMA Prepared ==
  ASSUME NEW s \in Shapes, s.op = "LINE", shape' = s, loop' = LinePrepare(s)
  PROVE  LineInv'
<1>. DEFINE A == errA(s)
<1>1. A \in Int /\ A >= 0 /\ a1(s) = a0(s) + A /\ a0(s) \in Int /\ b0(s) \in Int
      /\ negB(s) \in Int /\ offB(s) \in Int
  BY Ends DEF errA
<1>2. /\ A \div 2 \in Int /\ 0 <= A \div 2 /\ (A = 0 \/ A \div 2 < A)
  BY <1>1
<1>3. /\ loop'.a = a0(s) /\ loop'.b = b0(s) /\ loop'.error = A \div 2
  BY DEF LinePrepare
<1>4. Steps' = 0
  BY <1>1, <1>3 DEF Steps
<1>5. negB(s) * (loop'.a - a0(s)) = 0 /\ A * Steps' = 0
  BY <1>1, <1>3, <1>4
<1>6. /\ errA(shape)' = A /\ negB(shape)' = negB(s) /\ a0(shape)' = a0(s)
      /\ a1(shape)' = a1(s) /\ b0(shape)' = b0(s)
  OBVIOUS
<1>7. loop'.error = errA(shape)' \div 2 + negB(shape)' * (loop'.a - a0(shape)')
                    + errA(shape)' * Steps'
  BY <1>1, <1>2, <1>3, <1>5, <1>6
<1>. HIDE DEF A
<1>. QED
  BY <1>1, <1>2, <1>3, <1>6, <1>7 DEF LineInv

\* A turn of the loop.
LEMMA Turned ==
  ASSUME IInv, loop.at = "LINE", loop.a <= a1(shape), shape' = shape,
         loop' = LineTurn(shape, loop)
  PROVE  LineInv'
<1>. DEFINE A == errA(shape)  n == negB(shape)  k == loop.a - a0(shape)
            down == loop.error + n < 0
<1>0. shape \in Shapes /\ loop.a \in Int /\ loop.b \in Int
  BY DEF IInv, LineInv
<1>1. /\ shape \in Shapes /\ shape.op = "LINE"
      /\ loop = [at |-> "LINE", a |-> loop.a, b |-> loop.b, error |-> loop.error]
      /\ loop.a \in Int /\ loop.b \in Int /\ loop.error \in Int
      /\ a0(shape) <= loop.a
      /\ loop.error = A \div 2 + n * k + A * Steps
      /\ 0 <= loop.error /\ (A = 0 \/ loop.error < A)
  BY DEF IInv, LineInv, LoopKinds, Idle
<1>2. /\ a0(shape) \in Int /\ b0(shape) \in Int /\ a1(shape) \in Int
      /\ A \in Int /\ A >= 0 /\ n \in Int /\ n <= 0 /\ -A <= n
      /\ offB(shape) \in {1, -1}
  BY <1>1, Ends
<1>3. Steps \in Int /\ k \in Int /\ A \div 2 \in Int
  <2>1. loop.b - b0(shape) \in Int /\ k \in Int
    BY <1>0, <1>2
  <2>2. Steps \in Int
    BY <1>2, <2>1, SignedDistance DEF Steps
  <2>. QED
    BY <1>2, <2>1, <2>2
<1>4. /\ loop.error + n = A \div 2 + n * (k + 1) + A * Steps
      /\ loop.error + n + A = A \div 2 + n * (k + 1) + A * (Steps + 1)
  <2>1. A \in Int /\ n \in Int /\ k \in Int /\ A \div 2 \in Int /\ Steps \in Int
        /\ loop.error \in Int /\ loop.error = A \div 2 + n * k + A * Steps
    BY <1>1, <1>2, <1>3
  <2>. HIDE DEF A, n, k
  <2>. QED
    BY <2>1, ErrorStep
<1>5. /\ loop'.at = "LINE" /\ loop'.a = loop.a + 1
      /\ loop'.b = (IF down THEN loop.b + offB(shape) ELSE loop.b)
      /\ loop'.error = loop.error + n + (IF down THEN A ELSE 0)
  BY <1>1 DEF LineTurn
<1>6. Steps' = IF down THEN Steps + 1 ELSE Steps
  <2>1. offB(shape)' = offB(shape) /\ b0(shape)' = b0(shape)
    OBVIOUS
  <2>2. CASE offB(shape) = 1
    BY <1>1, <1>2, <1>5, <2>1, <2>2 DEF Steps
  <2>3. CASE offB(shape) = -1
    BY <1>1, <1>2, <1>5, <2>1, <2>3 DEF Steps
  <2>. QED
    BY <1>2, <2>2, <2>3
<1>7. loop'.a - a0(shape) = k + 1
  BY <1>1, <1>2, <1>5
<1>8. loop'.error = A \div 2 + n * (loop'.a - a0(shape)) + A * Steps'
  <2>1. CASE down
    BY <1>1, <1>2, <1>4, <1>5, <1>6, <1>7, <2>1
  <2>2. CASE ~down
    BY <1>1, <1>2, <1>4, <1>5, <1>6, <1>7, <2>2
  <2>. QED
    BY <2>1, <2>2
<1>9. 0 <= loop'.error /\ (A = 0 \/ loop'.error < A) /\ loop'.error \in Int
  BY <1>1, <1>2, <1>5
<1>10. /\ loop'.a \in Int /\ loop'.b \in Int
       /\ a0(shape) <= loop'.a /\ loop'.a <= a1(shape) + 1 /\ loop'.a # a0(shape)
  BY <1>1, <1>2, <1>5
<1>. QED
  BY <1>1, <1>8, <1>9, <1>10 DEF LineInv

\* The steps of the other loops leave no line behind.
LEMMA NotALine == ASSUME loop'.at # "LINE" PROVE LineInv'
BY DEF LineInv

LEMMA NextIInv == IInv /\ [Next]_vars => IInv'
<1>. SUFFICES ASSUME IInv, [Next]_vars PROVE IInv'
  OBVIOUS
<1>1. CASE dd_fill
  BY <1>1 DEF dd_fill, IInv, LoopKinds, LineInv, Idle
<1>2. ASSUME NEW s \in Shapes, dd_shape(s) PROVE IInv'
  <2>1. s.op \in {"LINE", "ELIP", "RECT"}
    BY ShapesAssumption DEF AllShapes
  <2>2. CASE s.op = "LINE"
    <3>1. shape' = s /\ loop' = LinePrepare(s)
      BY <1>2, <2>2 DEF dd_shape
    <3>2. LineInv'
      BY <2>2, <3>1, Prepared
    <3>. QED
      BY <3>1, <3>2 DEF IInv, LoopKinds, LinePrepare
  <2>3. CASE s.op = "RECT"
    BY <1>2, <2>3 DEF dd_shape, IInv, LoopKinds, LineInv, RectPrepare
  <2>4. CASE s.op = "ELIP"
    <3>1. loop' = EllipsePrepare(s)
      BY <1>2, <2>4 DEF dd_shape
    <3>. QED
      BY <3>1 DEF EllipsePrepare, IInv, LoopKinds, LineInv
  <2>. QED
    BY <2>1, <2>2, <2>3, <2>4
<1>3. CASE swline
  <2>1. CASE loop.a <= a1(shape)
    <3>1. loop' = LineTurn(shape, loop) /\ shape' = shape /\ loop.at = "LINE"
      BY <1>3, <2>1 DEF swline
    <3>2. LineInv'
      BY <2>1, <3>1, Turned
    <3>3. loop = [at |-> "LINE", a |-> loop.a, b |-> loop.b, error |-> loop.error]
      BY <3>1 DEF IInv, LoopKinds, Idle
    <3>4. LoopKinds'
      BY <3>1, <3>3 DEF LineTurn, LoopKinds
    <3>. QED
      BY <3>2, <3>4 DEF IInv
  <2>2. CASE ~(loop.a <= a1(shape))
    BY <1>3, <2>2 DEF swline, IInv, LoopKinds, LineInv, Idle
  <2>. QED
    BY <2>1, <2>2
<1>4. CASE swelip
  <2>1. loop.at \in {"A", "B"}
    BY <1>4 DEF swelip
  <2>2. loop = [at |-> loop.at, x |-> loop.x, y |-> loop.y, AAy |-> loop.AAy,
                BBx |-> loop.BBx, BB2 |-> loop.BB2, dd |-> loop.dd]
    BY <2>1 DEF IInv, LoopKinds, Idle
  <2>3. CASE loop' = LoopA(shape, loop)
    BY <2>1, <2>2, <2>3 DEF LoopA, IInv, LoopKinds, LineInv
  <2>4. CASE loop' = LoopB(shape, loop)
    BY <2>1, <2>2, <2>4 DEF LoopB, IInv, LoopKinds, LineInv
  <2>. QED
    BY <1>4, <2>3, <2>4 DEF swelip
<1>5. CASE swelip_ends
  <2>1. CASE loop.at = "A" /\ loop' = PrepareB(shape, loop)
    <3>1. loop = [at |-> loop.at, x |-> loop.x, y |-> loop.y, AAy |-> loop.AAy,
                  BBx |-> loop.BBx, BB2 |-> loop.BB2, dd |-> loop.dd]
      BY <2>1 DEF IInv, LoopKinds, Idle
    <3>. QED
      BY <2>1, <3>1 DEF PrepareB, IInv, LoopKinds, LineInv
  <2>2. CASE loop' = Idle
    BY <2>2 DEF Idle, IInv, LoopKinds, LineInv
  <2>. QED
    BY <1>5, <2>1, <2>2 DEF swelip_ends
<1>6. CASE swrect
  <2>1. loop = [at |-> "RECT", Y |-> loop.Y]
    BY <1>6 DEF swrect, IInv, LoopKinds, Idle
  <2>. QED
    BY <1>6, <2>1 DEF swrect, IInv, LoopKinds, LineInv, Idle
<1>7. CASE UNCHANGED vars
  BY <1>7 DEF vars, IInv, LoopKinds, LineInv, Steps
<1>. QED
  BY <1>1, <1>2, <1>3, <1>4, <1>5, <1>6, <1>7 DEF Next

LEMMA IInvNearest == IInv => LineIsNearest
<1>. SUFFICES ASSUME IInv, loop.at = "LINE", loop.a <= a1(shape)
     PROVE  /\ 2 * Magnitude(errA(shape) * Steps + negB(shape) * (loop.a - a0(shape)))
                  <= errA(shape)
            /\ loop.a = a1(shape) => loop.b = b1(shape)
  BY DEF LineIsNearest
<1>. DEFINE A == errA(shape)  n == negB(shape)  k == loop.a - a0(shape)
            D == A * Steps + n * k
<1>0. shape \in Shapes /\ loop.a \in Int /\ loop.b \in Int
  BY DEF IInv, LineInv
<1>1. /\ shape \in Shapes /\ loop.a \in Int /\ loop.b \in Int /\ loop.error \in Int
      /\ loop.error = A \div 2 + n * k + A * Steps
      /\ 0 <= loop.error /\ (A = 0 \/ loop.error < A)
      /\ loop.a = a0(shape) => loop.b = b0(shape)
  BY DEF IInv, LineInv
<1>2. /\ a0(shape) \in Int /\ b0(shape) \in Int /\ a1(shape) \in Int /\ b1(shape) \in Int
      /\ A \in Int /\ A >= 0 /\ n \in Int /\ n <= 0 /\ -A <= n
      /\ a1(shape) = a0(shape) + A
      /\ \/ offB(shape) = 1 /\ b1(shape) - b0(shape) = -n
         \/ offB(shape) = -1 /\ b0(shape) - b1(shape) = -n
  BY <1>1, Ends DEF errA
<1>3. Steps \in Int /\ k \in Int /\ D \in Int /\ loop.error = A \div 2 + D
  <2>1. loop.b - b0(shape) \in Int /\ k \in Int /\ offB(shape) \in {1, -1}
    BY <1>0, <1>2
  <2>2. Steps \in Int
    BY <2>1, SignedDistance DEF Steps
  <2>3. A \in Int /\ n \in Int
    BY <1>2
  <2>4. A * Steps \in Int /\ n * k \in Int /\ A \div 2 \in Int
    <3>. HIDE DEF A, n, k
    <3>. QED
      BY <2>1, <2>2, <2>3
  <2>5. D \in Int /\ A \div 2 + n * k + A * Steps = A \div 2 + D
    BY <2>4
  <2>. QED
    BY <1>1, <2>1, <2>2, <2>5
<1>4. CASE A = 0
  <2>1. n = 0 /\ D = 0
    BY <1>2, <1>3, <1>4
  <2>2. a1(shape) = a0(shape) /\ b1(shape) = b0(shape)
    BY <1>2, <1>4, <2>1
  <2>3. loop.a = a1(shape) => loop.b = b1(shape)
    BY <1>1, <2>2
  <2>. QED
    BY <1>4, <2>1, <2>3 DEF Magnitude
<1>5. CASE A > 0
  <2>1. 2 * Magnitude(D) <= A
    <3>1. A - 1 <= 2 * (A \div 2) /\ 2 * (A \div 2) <= A
      BY <1>2
    <3>. HIDE DEF D, A
    <3>. QED
      BY <1>1, <1>2, <1>3, <1>5, <3>1 DEF Magnitude
  <2>2. ASSUME loop.a = a1(shape) PROVE loop.b = b1(shape)
    <3>1. k = A
      BY <1>1, <1>2, <2>2
    <3>2. D = A * (Steps + n)
      BY <1>2, <1>3, <3>1
    <3>3. -A < D /\ D < A
      <4>. HIDE DEF D, A
      <4>. QED
        BY <1>2, <1>3, <1>5, <2>1 DEF Magnitude
    <3>4. Steps + n = 0
      <4>. HIDE DEF D, A, n
      <4>. QED
        BY <1>2, <1>3, <1>5, <3>2, <3>3, SmallMultiple
    <3>5. loop.b - b0(shape) \in Int /\ offB(shape) \in {1, -1} /\ n \in Int
          /\ loop.b \in Int /\ b0(shape) \in Int /\ b1(shape) \in Int
      BY <1>0, <1>2
    <3>6. Steps = IF offB(shape) = 1 THEN loop.b - b0(shape) ELSE -(loop.b - b0(shape))
      BY <3>5, SignedDistance DEF Steps
    <3>7. b1(shape) - b0(shape) = IF offB(shape) = 1 THEN -n ELSE n
      BY <1>2
    <3>8. Steps \in Int /\ Steps = -n
      <4>1. Steps \in Int
        BY <1>3
      <4>. HIDE DEF n
      <4>. QED
        BY <3>4, <3>5, <4>1
    <3>. HIDE DEF n
    <3>. QED
      BY <3>5, <3>6, <3>7, <3>8
  <2>. QED
    BY <2>1, <2>2
<1>. QED
  BY <1>2, <1>4, <1>5

\* The error of swline keeps its meaning through every line.
THEOREM ErrorMeaning == Spec => []LineInv
<1>1. Spec => []IInv
  BY InitIInv, NextIInv, PTL DEF Spec
<1>2. IInv => LineInv
  BY DEF IInv
<1>. QED
  BY <1>1, <1>2, PTL

\* Every pixel of a line is the nearest of its column or row, and the line
\* arrives, whatever its end points are.
THEOREM NearestPixels == Spec => []LineIsNearest
<1>1. Spec => []IInv
  BY InitIInv, NextIInv, PTL DEF Spec
<1>. QED
  BY <1>1, IInvNearest, PTL
-----------------------------------------------------------------------------
(* Powers of two *)

\* The powers are what their recursion says, and there are such numbers.
LEMMA Powers ==
  /\ \A i \in Nat : Power[i] \in Nat \ {0}
  /\ Power[0] = 1
  /\ \A i \in Nat : Power[i + 1] = 2 * Power[i]
<1> DEFINE Step == [k \in Nat |-> [x \in Nat \ {0} |-> 2 * x]]
           IsPower(f) == f = [i \in Nat |-> IF i = 0 THEN 1 ELSE 2 * f[i - 1]]
<1>1. PICK f \in [Nat -> Nat \ {0}] : Iterates(f, 1, Step)
  <2>1. 1 \in Nat \ {0} /\ Step \in [Nat -> [Nat \ {0} -> Nat \ {0}]] OBVIOUS
  <2> HIDE DEF Step
  <2> QED BY <2>1, Iteration
<1>2. IsPower(f)
  <2>1. ASSUME NEW i \in Nat PROVE f[i] = IF i = 0 THEN 1 ELSE 2 * f[i - 1]
    <3>1. f[i] = IF i = 0 THEN 1 ELSE Step[i][f[i - 1]]
      <4> HIDE DEF Step
      <4> QED BY <1>1 DEF Iterates
    <3>2. i # 0 => f[i - 1] \in Nat \ {0} OBVIOUS
    <3> QED BY <3>1, <3>2
  <2> QED BY <2>1, Zenon
<1>3. Power = CHOOSE g : IsPower(g)
  BY DEF Power
<1>4. IsPower(Power)
  <2> HIDE DEF IsPower
  <2> QED BY <1>2, <1>3
<1>5. ASSUME NEW i \in Nat PROVE Power[i] = IF i = 0 THEN 1 ELSE 2 * Power[i - 1]
  BY <1>4
<1> DEFINE S == {i \in Nat : Power[i] \in Nat \ {0}}
<1>6. \A i \in Nat : i \in S
  <2>1. 0 \in S BY <1>5
  <2>2. ASSUME NEW i \in Nat, i \in S PROVE i + 1 \in S
    BY <1>5, <2>2
  <2> HIDE DEF S
  <2> QED BY <2>1, <2>2, Inductive
<1>7. ASSUME NEW i \in Nat PROVE Power[i + 1] = 2 * Power[i]
  <2>1. i + 1 \in Nat /\ i + 1 # 0 /\ (i + 1) - 1 = i OBVIOUS
  <2> QED BY <1>5, <2>1
<1> QED BY <1>5, <1>6, <1>7

\* They grow.
LEMMA PowersGrow ==
  ASSUME NEW i \in Nat, NEW j \in Nat
  PROVE  Power[i + j] = Power[i] * Power[j] /\ (i <= j => Power[i] <= Power[j])
<1>1. ASSUME NEW k \in Nat PROVE \A l \in Nat : Power[k + l] = Power[k] * Power[l]
  <2> DEFINE S == {l \in Nat : Power[k + l] = Power[k] * Power[l]}
  <2>1. 0 \in S
    <3>1. k + 0 = k /\ Power[k] \in Nat /\ Power[0] = 1 BY Powers
    <3> QED BY <3>1
  <2>2. ASSUME NEW n \in Nat, n \in S PROVE n + 1 \in S
    <3>1. k + (n + 1) = (k + n) + 1 /\ k + n \in Nat OBVIOUS
    <3>2. Power[k + (n + 1)] = 2 * Power[k + n] BY <3>1, Powers
    <3>3. PICK p \in Nat : p = Power[k] BY Powers
    <3>4. PICK q \in Nat : q = Power[n] BY Powers
    <3>5. Power[k + n] = p * q BY <2>2, <3>3, <3>4
    <3>6. Power[n + 1] = 2 * q BY <3>4, Powers
    <3>7. 2 * (p * q) = p * (2 * q) OBVIOUS
    <3>8. Power[k + (n + 1)] = Power[k] * Power[n + 1]
      BY <3>2, <3>3, <3>5, <3>6, <3>7, Zenon
    <3> QED BY <3>8
  <2> HIDE DEF S
  <2>3. \A n \in Nat : n \in S BY <2>1, <2>2, Inductive
  <2> QED BY <2>3 DEF S
<1>2. ASSUME i <= j PROVE Power[i] <= Power[j]
  <2>1. PICK d \in Nat : j = i + d
    <3>1. PICK d \in Nat : d = j - i BY <1>2
    <3>2. j = i + d BY <3>1
    <3> QED BY <3>2
  <2>2. PICK p \in Nat : p = Power[i] BY Powers
  <2>3. PICK q \in Nat : q = Power[d] /\ q >= 1 BY Powers
  <2>4. p * q >= p BY <2>3
  <2>5. Power[j] = p * q BY <2>1, <2>2, <2>3, <1>1
  <2> QED BY <2>2, <2>4, <2>5
<1> QED BY <1>1, <1>2

\* A word holds the product of two halves, and half of a half, with a sign, is
\* whole.
LEMMA Widths ==
  /\ Word \in Nat \ {0} /\ Half \in Nat \ {0}
  /\ Half * Half <= Word
  /\ \E h \in Nat \ {0} : Half = 2 * h /\ Half \div 2 = h
  /\ \E w \in Nat \ {0} : Word = 2 * w /\ Word \div 2 = w /\ 2 <= w
<1> USE WidthAssumption DEF Word, Half
<1>1. Word \in Nat \ {0} /\ Half \in Nat \ {0}
  BY Powers
<1>2. Half * Half <= Word
  <2>1. HalfBits + HalfBits \in Nat /\ HalfBits + HalfBits <= WordBits /\ HalfBits \in Nat OBVIOUS
  <2>2. Power[HalfBits + HalfBits] = Power[HalfBits] * Power[HalfBits]
    BY <2>1, PowersGrow
  <2>3. Power[HalfBits + HalfBits] <= Power[WordBits]
    BY <2>1, PowersGrow
  <2> QED BY <2>2, <2>3
<1>3. ASSUME NEW b \in Nat, b >= 1
      PROVE  \E h \in Nat \ {0} :
               Power[b] = 2 * h /\ Power[b] \div 2 = h /\ h = Power[b - 1]
  <2>1. PICK h \in Nat \ {0} : h = Power[b - 1] BY <1>3, Powers
  <2>2. b = (b - 1) + 1 /\ b - 1 \in Nat BY <1>3
  <2>3. Power[b] = 2 * h BY <2>1, <2>2, Powers
  <2>4. (2 * h) \div 2 = h OBVIOUS
  <2> QED BY <2>1, <2>3, <2>4
<1>4. \E h \in Nat \ {0} : Half = 2 * h /\ Half \div 2 = h
  <2>1. HalfBits \in Nat /\ HalfBits >= 1 OBVIOUS
  <2> QED BY <2>1, <1>3, Zenon
<1>5. \E w \in Nat \ {0} : Word = 2 * w /\ Word \div 2 = w /\ 2 <= w
  <2>1. PICK w \in Nat \ {0} : Word = 2 * w /\ Word \div 2 = w /\ w = Power[WordBits - 1]
    <3>1. WordBits \in Nat /\ WordBits >= 1 OBVIOUS
    <3> QED BY <3>1, <1>3, Zenon
  <2>2. 2 <= w
    <3>1. Power[1] <= Power[WordBits - 1] /\ Power[1] = 2
      <4>1. 1 <= WordBits - 1 /\ WordBits - 1 \in Nat /\ 0 + 1 = 1 OBVIOUS
      <4>2. Power[0 + 1] = 2 * Power[0] BY Powers
      <4> QED BY <4>1, <4>2, PowersGrow, Powers
    <3> QED BY <2>1, <3>1
  <2> QED BY <2>1, <2>2
<1> QED BY <1>1, <1>2, <1>4, <1>5
-----------------------------------------------------------------------------
(* Sums of shifted factors *)

\* Two loops that start alike and whose turns do are alike.
LEMMA SameLoop ==
  ASSUME NEW n \in Nat, NEW f, NEW g, f[0] = g[0],
         \A k \in Nat : k < n /\ f[k] = g[k] => f[k + 1] = g[k + 1]
  PROVE  \A k \in 0..n : f[k] = g[k]
<1> DEFINE S == {k \in Nat : k <= n => f[k] = g[k]}
<1>1. 0 \in S OBVIOUS
<1>2. ASSUME NEW k \in Nat, k \in S PROVE k + 1 \in S
  <2>1. k + 1 <= n => k < n /\ k <= n OBVIOUS
  <2> QED BY <2>1, <1>2
<1> HIDE DEF S
<1>3. \A k \in Nat : k \in S BY <1>1, <1>2, Inductive
<1> QED BY <1>3 DEF S

\* A number has one more bit than its half.
LEMMA OneMoreBit ==
  ASSUME NEW m \in Nat, NEW p \in Nat \ {0}
  PROVE  /\ (m \div p) % 2 \in {0, 1}
         /\ m % (2 * p) = (m % p) + ((m \div p) % 2) * p
<1>1. PICK q \in Nat, r \in 0..(p - 1) : m = p * q + r
  BY Quotient
<1>2. m \div p = q /\ m % p = r
  BY <1>1, RemainderOf, QuotientOf, Zenon
<1>3. PICK h \in Nat, b \in 0..(2 - 1) : q = 2 * h + b
  <2>1. 2 \in Nat \ {0} OBVIOUS
  <2> QED BY <2>1, Quotient, Zenon
<1>4. q % 2 = b /\ b \in {0, 1}
  BY <1>3
<1>5. p * (2 * h + b) = (2 * p) * h + b * p
  OBVIOUS
<1>6. m = (2 * p) * h + (b * p + r)
  <2>1. p * q = (2 * p) * h + b * p BY <1>3, <1>5, Zenon
  <2>2. (2 * p) * h \in Nat /\ b * p \in Nat /\ p * q \in Nat BY <1>4
  <2> QED BY <1>1, <2>1, <2>2
<1>7. b * p + r \in 0..(2 * p - 1) /\ 2 * p \in Nat \ {0}
  <2>1. CASE b = 0 BY <2>1
  <2>2. CASE b = 1 BY <2>2
  <2> QED BY <2>1, <2>2, <1>4
<1>8. m % (2 * p) = b * p + r
  BY <1>6, <1>7, RemainderOf, Zenon
<1>9. b * p + r = r + b * p
  <2>1. b * p \in Nat BY <1>4
  <2> QED BY <2>1
<1> QED BY <1>2, <1>4, <1>8, <1>9, Zenon

\* The sum of the shifts of n for the bits of m among the first is the product
\* with the number these bits are.
LEMMA SumIs ==
  ASSUME NEW n \in Nat, NEW m \in Nat, NEW turns \in Nat
  PROVE  Sum(n, m, turns) = (n * (m % Power[turns])) % Word
<1> DEFINE g == [i \in 0..turns |-> (n * (m % Power[i])) % Word]
           IsSum(f) == f = [i \in 0..turns |->
             IF i = 0 THEN 0
             ELSE (f[i - 1] + Bit(m, i - 1) * ShiftLeft(n, i - 1)) % Word]
           sum == CHOOSE f : IsSum(f)
<1>1. Sum(n, m, turns) = sum[turns]
  BY DEF Sum
<1>2. Word \in Nat \ {0} BY Widths
<1>3. g[0] = 0
  <2>1. m % 1 = 0 /\ n * 0 = 0 /\ 0 % Word = 0 BY <1>2
  <2>2. g[0] = (n * (m % Power[0])) % Word OBVIOUS
  <2> QED BY <2>1, <2>2, Powers, Zenon
<1>4. ASSUME NEW k \in Nat, k < turns
      PROVE  g[k + 1] = (g[k] + Bit(m, k) * ShiftLeft(n, k)) % Word
  <2>1. g[k + 1] = (n * (m % Power[k + 1])) % Word /\ g[k] = (n * (m % Power[k])) % Word
    BY <1>4
  <2>2. PICK p \in Nat \ {0} : p = Power[k] BY Powers
  <2>3. Power[k + 1] = 2 * p BY <2>2, Powers
  <2>4. PICK b \in {0, 1} : b = (m \div p) % 2 /\ m % (2 * p) = (m % p) + b * p
    BY OneMoreBit
  <2>5. PICK x \in Nat : x = m % p BY Remainder
  <2>6. (((n * x) % Word) + b * ((n * p) % Word)) % Word = (n * (x + b * p)) % Word
    <3>1. PICK u \in Nat : u = n * x OBVIOUS
    <3>2. PICK v \in Nat : v = n * p
      <4>1. n * p \in Nat OBVIOUS
      <4> QED BY <4>1
    <3>3. PICK w \in Nat \ {0} : w = Word BY <1>2
    <3>4. PICK y \in Nat : y = v % w BY Remainder
    <3>5. PICK z \in 0..(w - 1) : z = u % w BY Remainder
    <3>6. CASE b = 0
      <4>1. n * (x + 0 * p) = u BY <3>1
      <4>2. z + 0 * y = w * 0 + z /\ 0 \in Nat BY <3>4, <3>5
      <4>3. (z + 0 * y) % w = z BY <4>2, RemainderOf, Zenon
      <4> QED BY <3>1, <3>2, <3>3, <3>4, <3>5, <3>6, <4>1, <4>3, Zenon
    <3>7. CASE b = 1
      <4>1. n * (x + 1 * p) = u + v BY <3>1, <3>2
      <4>2. (z + y) % w = (u + y) % w BY <3>5, RemainderOfSum
      <4>3. (y + u) % w = (v + u) % w BY <3>4, RemainderOfSum
      <4>4. u + y = y + u /\ v + u = u + v /\ z + 1 * y = z + y OBVIOUS
      <4> QED BY <3>1, <3>2, <3>3, <3>4, <3>5, <3>7, <4>1, <4>2, <4>3, <4>4, Zenon
    <3> HIDE DEF g, sum
    <3> QED BY <3>6, <3>7
  <2>7. Bit(m, k) = b /\ ShiftLeft(n, k) = (n * p) % Word
    BY <2>2, <2>4, Zenon DEF Bit, ShiftLeft
  <2> HIDE DEF g
  <2> QED BY <2>1, <2>2, <2>3, <2>4, <2>5, <2>6, <2>7, Zenon
<1>5. IsSum(g)
  <2>1. ASSUME NEW i \in 0..turns
        PROVE  g[i] = IF i = 0 THEN 0
                      ELSE (g[i - 1] + Bit(m, i - 1) * ShiftLeft(n, i - 1)) % Word
    <3>1. CASE i = 0 BY <3>1, <1>3
    <3>2. CASE i # 0
      <4>1. i - 1 \in Nat /\ i - 1 < turns /\ (i - 1) + 1 = i BY <3>2
      <4> HIDE DEF g
      <4>2. g[(i - 1) + 1] = (g[i - 1] + Bit(m, i - 1) * ShiftLeft(n, i - 1)) % Word
        BY <1>4, <4>1
      <4> QED BY <4>1, <4>2, <3>2, Zenon
    <3> QED BY <3>1, <3>2
  <2> QED BY <2>1, Zenon
<1>6. IsSum(sum)
  <2> HIDE DEF IsSum, g
  <2> QED BY <1>5
<1>7. sum[0] = 0 /\ \A k \in Nat : k < turns =>
        sum[k + 1] = (sum[k] + Bit(m, k) * ShiftLeft(n, k)) % Word
  <2> HIDE DEF sum
  <2>1. ASSUME NEW i \in 0..turns
        PROVE  sum[i] = IF i = 0 THEN 0
                        ELSE (sum[i - 1] + Bit(m, i - 1) * ShiftLeft(n, i - 1)) % Word
    BY <1>6, Zenon
  <2>2. ASSUME NEW k \in Nat, k < turns
        PROVE sum[k + 1] = (sum[k] + Bit(m, k) * ShiftLeft(n, k)) % Word
    <3>1. k + 1 \in 0..turns /\ k + 1 # 0 /\ (k + 1) - 1 = k BY <2>2
    <3> QED BY <3>1, <2>1
  <2>3. 0 \in 0..turns OBVIOUS
  <2> QED BY <2>1, <2>2, <2>3
<1> HIDE DEF sum, g
<1>8. sum[turns] = g[turns]
  <2>1. \A k \in 0..turns : sum[k] = g[k] BY <1>3, <1>4, <1>7, SameLoop
  <2> QED BY <2>1
<1>9. g[turns] = (n * (m % Power[turns])) % Word BY DEF g
<1> QED BY <1>1, <1>8, <1>9

\* Products do not pass that of the largest factors.
LEMMA LargestProduct ==
  ASSUME NEW n \in Nat, NEW m \in Nat, NEW h \in Nat, n < h, m < h
  PROVE  n * m \in Nat /\ n * m < h * h
<1>1. n * m \in Nat
  OBVIOUS
<1>2. PICK d \in Nat : h = n + 1 + d
  <2>1. PICK d \in Nat : d = h - n - 1 OBVIOUS
  <2> QED BY <2>1
<1>3. PICK e \in Nat : h = m + 1 + e
  <2>1. PICK e \in Nat : e = h - m - 1 OBVIOUS
  <2> QED BY <2>1
<1>4. (n + 1 + d) * h = n * h + h + d * h
  OBVIOUS
<1>5. n * h = n * m + n + n * e
  <2>1. n * (m + 1 + e) = n * m + n + n * e OBVIOUS
  <2> QED BY <1>3, <2>1, Zenon
<1>6. n * e \in Nat /\ d * h \in Nat /\ h * h \in Nat /\ n * h \in Nat
  OBVIOUS
<1>7. h * h = n * h + h + d * h
  BY <1>2, <1>4, Zenon
<1> QED BY <1>1, <1>5, <1>6, <1>7

\* The sum is the product if the turns reach every bit of a factor and a word
\* holds it.
LEMMA SumIsProduct ==
  ASSUME NEW n \in Nat, NEW m \in Nat, NEW turns \in Nat, m < Power[turns], n * m < Word
  PROVE  Sum(n, m, turns) = n * m
<1>1. PICK p \in Nat \ {0} : p = Power[turns] BY Powers
<1>2. PICK w \in Nat \ {0} : w = Word BY Widths
<1>3. m % p = m
  <2>1. p * 0 + m = m /\ m \in 0..(p - 1) /\ 0 \in Nat BY <1>1
  <2> QED BY <2>1, RemainderOf, Zenon
<1>4. (n * m) % w = n * m
  <2>1. n * m \in Nat OBVIOUS
  <2>2. w * 0 + n * m = n * m /\ n * m \in 0..(w - 1) /\ 0 \in Nat BY <1>2, <2>1
  <2> QED BY <2>2, RemainderOf, Zenon
<1>5. Sum(n, m, turns) = (n * (m % Power[turns])) % Word
  BY SumIs
<1> QED BY <1>1, <1>2, <1>3, <1>4, <1>5, Zenon

\* The loop of mul32u32u passes every bit of its factor.
LEMMA WidthReaches ==
  ASSUME NEW b \in Nat
  PROVE  Width(b) \in Nat /\ (b < Word => b < Power[Width(b)])
<1> DEFINE IsWidth(f) == f = [i \in 0..WordBits |->
             IF i = 0 THEN 0 ELSE IF b >= Power[i - 1] THEN i ELSE f[i - 1]]
           width == CHOOSE f : IsWidth(f)
           Step == [k \in Nat |-> [x \in Nat |-> IF b >= Power[k - 1] THEN k ELSE x]]
<1>0. WordBits \in Nat BY WidthAssumption
<1>1. Width(b) = width[WordBits]
  BY DEF Width
<1>2. PICK g \in [0..WordBits -> Nat] : FirstOf(g, WordBits, 0, Step)
  <2>1. 0 \in Nat /\ Step \in [Nat -> [Nat -> Nat]] OBVIOUS
  <2> HIDE DEF Step
  <2> QED BY <1>0, <2>1, FirstTurns
<1>3. IsWidth(g)
  <2>1. ASSUME NEW i \in 0..WordBits
        PROVE  g[i] = IF i = 0 THEN 0 ELSE IF b >= Power[i - 1] THEN i ELSE g[i - 1]
    <3>1. g[i] = IF i = 0 THEN 0 ELSE Step[i][g[i - 1]]
      <4> HIDE DEF Step
      <4> QED BY <1>2 DEF FirstOf
    <3>2. CASE i = 0 BY <3>1, <3>2
    <3>3. CASE i # 0
      <4>1. i - 1 \in 0..WordBits /\ i \in Nat BY <1>0, <3>3
      <4>2. g[i - 1] \in Nat BY <4>1
      <4>3. Step[i][g[i - 1]] = IF b >= Power[i - 1] THEN i ELSE g[i - 1] BY <4>1, <4>2
      <4> QED BY <3>1, <3>3, <4>3
    <3> QED BY <3>2, <3>3
  <2> QED BY <2>1, Zenon
<1>4. IsWidth(width)
  <2> HIDE DEF IsWidth
  <2> QED BY <1>3
<1>5. ASSUME NEW i \in 0..WordBits
      PROVE  width[i] = IF i = 0 THEN 0 ELSE IF b >= Power[i - 1] THEN i ELSE width[i - 1]
  <2> HIDE DEF width
  <2> QED BY <1>4, Zenon
<1> HIDE DEF width
<1> DEFINE S == {i \in Nat : i <= WordBits =>
                   width[i] \in Nat /\ (b < Power[i] => b < Power[width[i]])}
<1>6. 0 \in S
  <2>1. 0 \in 0..WordBits BY <1>0
  <2> QED BY <2>1, <1>5
<1>7. ASSUME NEW i \in Nat, i \in S PROVE i + 1 \in S
  <2> SUFFICES ASSUME i + 1 <= WordBits
               PROVE  width[i + 1] \in Nat /\ (b < Power[i + 1] => b < Power[width[i + 1]])
    OBVIOUS
  <2>1. i + 1 \in 0..WordBits /\ i + 1 # 0 /\ (i + 1) - 1 = i /\ i <= WordBits BY <1>0
  <2>2. width[i + 1] = IF b >= Power[i] THEN i + 1 ELSE width[i]
    BY <1>5, <2>1
  <2>3. PICK p \in Nat : p = Power[i] BY Powers
  <2> QED BY <1>7, <2>1, <2>2, <2>3
<1> HIDE DEF S
<1>8. WordBits \in S BY <1>0, <1>6, <1>7, Inductive
<1>9. WordBits <= WordBits BY <1>0
<1> QED BY <1>1, <1>8, <1>9 DEF S, Word

\* Adding one factor as often as the other one says is the product, too.
LEMMA NaiveIsProduct ==
  ASSUME NEW n \in Halves, NEW m \in Halves
  PROVE  mut_mul32u_naive(n, m) = n * m
<1> DEFINE large == IF n < m THEN m ELSE n
           small == IF n < m THEN n ELSE m
           IsProd(f) == f = [i \in 0..(Half - 1) |->
             IF i = 0 THEN 0 ELSE (f[i - 1] + (IF n < m THEN m ELSE n)) % Word]
           prod == CHOOSE f : IsProd(f)
           g == [i \in 0..(Half - 1) |-> large * i]
<1>1. PICK h \in Nat \ {0} : h = Half BY Widths
<1>2. PICK w \in Nat \ {0} : w = Word /\ h * h <= w BY <1>1, Widths
<1>3. n \in Nat /\ m \in Nat /\ n < h /\ m < h BY <1>1 DEF Halves
<1>4. PICK a \in Nat : a = large /\ a < h BY <1>3
<1>5. mut_mul32u_naive(n, m) = prod[small]
  BY DEF mut_mul32u_naive
<1>6. ASSUME NEW k \in Nat, k + 1 < h
      PROVE  g[k + 1] = (g[k] + a) % w
  <2>1. a * (k + 1) \in Nat /\ a * (k + 1) < h * h
    <3>1. k + 1 \in Nat OBVIOUS
    <3> QED BY <1>4, <1>6, <3>1, LargestProduct
  <2>2. a * (k + 1) = a * k + a OBVIOUS
  <2>3. w * 0 + a * (k + 1) = a * (k + 1) /\ a * (k + 1) \in 0..(w - 1) /\ 0 \in Nat
    <3>1. h * h \in Nat OBVIOUS
    <3> QED BY <1>2, <2>1, <3>1
  <2>4. (a * (k + 1)) % w = a * (k + 1) BY <2>3, RemainderOf, Zenon
  <2>5. g[k + 1] = large * (k + 1) /\ g[k] = large * k
    <3>1. k \in 0..(Half - 1) /\ k + 1 \in 0..(Half - 1) BY <1>1, <1>6
    <3> HIDE DEF large
    <3> QED BY <3>1
  <2> HIDE DEF g, large
  <2> QED BY <1>4, <2>2, <2>4, <2>5, Zenon
<1>7. IsProd(g)
  <2>1. ASSUME NEW i \in 0..(Half - 1)
        PROVE  g[i] = IF i = 0 THEN 0 ELSE (g[i - 1] + large) % Word
    <3>1. CASE i = 0
      <4>1. large * 0 = 0 BY <1>3
      <4>2. g[i] = large * i OBVIOUS
      <4> QED BY <3>1, <4>1, <4>2, Zenon
    <3>2. CASE i # 0
      <4>1. i - 1 \in Nat /\ (i - 1) + 1 < h /\ (i - 1) + 1 = i BY <3>2, <1>1
      <4> HIDE DEF g, large
      <4>2. g[(i - 1) + 1] = (g[i - 1] + a) % w BY <1>6, <4>1
      <4> QED BY <1>2, <1>4, <3>2, <4>1, <4>2, Zenon
    <3> QED BY <3>1, <3>2
  <2> QED BY <2>1, Zenon
<1>8. IsProd(prod)
  <2> HIDE DEF IsProd, g
  <2> QED BY <1>7
<1> HIDE DEF prod
<1>9. ASSUME NEW i \in 0..(Half - 1)
      PROVE  prod[i] = IF i = 0 THEN 0 ELSE (prod[i - 1] + large) % Word
  BY <1>8, Zenon
<1> HIDE DEF large
<1>10. \A k \in 0..(h - 1) : prod[k] = g[k]
  <2>1. prod[0] = 0
    <3>1. 0 \in 0..(Half - 1) BY <1>1
    <3> QED BY <3>1, <1>9
  <2>2. g[0] = 0
    <3>1. 0 \in 0..(Half - 1) /\ a * 0 = 0 BY <1>1, <1>4
    <3> QED BY <3>1, <1>4
  <2>3. ASSUME NEW k \in Nat, k < h - 1, prod[k] = g[k] PROVE prod[k + 1] = g[k + 1]
    <3>1. k + 1 \in 0..(Half - 1) /\ k + 1 # 0 /\ (k + 1) - 1 = k /\ k + 1 < h BY <1>1, <2>3
    <3>2. prod[k + 1] = (prod[k] + large) % Word BY <3>1, <1>9
    <3>3. g[k + 1] = (g[k] + a) % w
      <4> HIDE DEF g
      <4> QED BY <3>1, <1>6
    <3> HIDE DEF g
    <3> QED BY <1>2, <1>4, <2>3, <3>2, <3>3, Zenon
  <2>4. h - 1 \in Nat OBVIOUS
  <2> HIDE DEF g
  <2> QED BY <2>1, <2>2, <2>3, <2>4, SameLoop
<1>11. small \in 0..(h - 1) /\ small \in 0..(Half - 1) BY <1>1, <1>3
<1>12. prod[small] = large * small
  <2>1. prod[small] = g[small]
    <3> HIDE DEF small, g
    <3> QED BY <1>10, <1>11
  <2>2. g[small] = large * small
    <3> HIDE DEF small
    <3> QED BY <1>11
  <2> QED BY <2>1, <2>2
<1>13. large * small = n * m
  <2>1. m * n = n * m BY <1>3
  <2>2. CASE n < m
    <3>1. large = m /\ small = n BY <2>2 DEF large, small
    <3> QED BY <2>1, <3>1, Zenon
  <2>3. CASE ~(n < m)
    <3>1. large = n /\ small = m BY <2>3 DEF large, small
    <3> QED BY <3>1, Zenon
  <2> QED BY <2>2, <2>3
<1> QED BY <1>5, <1>12, <1>13, Zenon

\* A factor is less than the power of its width, and than a word.
LEMMA HalfFits ==
  HalfBits \in Nat /\ Half = Power[HalfBits] /\ Half <= Word
<1>1. PICK h \in Nat \ {0} : h = Half BY Widths
<1>2. h * h >= h BY <1>1
<1>3. Half <= Word
  <2>1. PICK w \in Nat : w = Word /\ h * h <= w BY <1>1, Widths
  <2>2. h * h \in Nat OBVIOUS
  <2> QED BY <1>1, <1>2, <2>1, <2>2
<1> QED BY <1>3, WidthAssumption DEF Half

\* Factors without a sign.
LEMMA UnsignedProducts ==
  ASSUME NEW n \in Halves, NEW m \in Halves
  PROVE  ProductOf(n, m)
<1>1. PICK h \in Nat \ {0} : h = Half BY Widths
<1>2. PICK w \in Nat \ {0} : w = Word /\ h * h <= w BY <1>1, Widths
<1>3. n \in Nat /\ m \in Nat /\ n < h /\ m < h BY <1>1 DEF Halves
<1>4. ASSUME NEW a \in Nat, NEW b \in Nat, a < h, b < h
      PROVE  Sum(a, b, HalfBits) = a * b /\ mul32u32u(a, b) = a * b
  <2>1. a * b \in Nat /\ a * b < h * h BY <1>4, LargestProduct
  <2>2. a * b < Word
    <3>1. h * h \in Nat OBVIOUS
    <3> QED BY <1>2, <2>1, <3>1
  <2>3. b < Power[HalfBits] /\ b < Word /\ HalfBits \in Nat
    <3>1. h <= w BY HalfFits, <1>1, <1>2
    <3>2. b < w BY <1>4, <3>1
    <3> QED BY <1>1, <1>2, <1>4, <3>2, HalfFits
  <2>4. Width(b) \in Nat /\ b < Power[Width(b)] BY <2>3, WidthReaches
  <2>5. Sum(a, b, HalfBits) = a * b BY <2>2, <2>3, SumIsProduct
  <2>6. Sum(a, b, Width(b)) = a * b BY <2>2, <2>4, SumIsProduct
  <2> QED BY <2>5, <2>6 DEF mul32u32u
<1>5. mul16u32u(n, m) = n * m /\ mul32u32u(n, m) = n * m
  BY <1>3, <1>4 DEF mul16u32u
<1>6. sqr16u32u(n) = n * n /\ sqr32u32u(n) = n * n
  BY <1>3, <1>4 DEF sqr16u32u, sqr32u32u
<1> QED BY <1>5, <1>6, NaiveIsProduct DEF ProductOf

\* Factors with a sign: the product of their magnitudes is less than half a
\* word, and gets the sign.
LEMMA SignedProducts ==
  ASSUME NEW n \in SignedHalves, NEW m \in SignedHalves
  PROVE  SignedProductOf(n, m) /\ n \in Int /\ m \in Int
<1>1. PICK h \in Nat \ {0} : Half = 2 * h /\ Half \div 2 = h BY Widths
<1>2. PICK w \in Nat \ {0} : Word = 2 * w /\ Word \div 2 = w BY Widths
<1>3. h * h \in Nat /\ h * h < w
  <2>1. (2 * h) * (2 * h) = 4 * (h * h) OBVIOUS
  <2>2. (2 * h) * (2 * h) <= 2 * w BY <1>1, <1>2, Widths
  <2>3. h * h \in Nat /\ h * h >= 1 OBVIOUS
  <2> QED BY <2>1, <2>2, <2>3
<1>4. /\ n \in Int /\ m \in Int /\ Magnitude(n) \in 0..h /\ Magnitude(m) \in 0..h
  BY <1>1 DEF SignedHalves, Magnitude
<1>5. PICK a \in Nat : a = Magnitude(n) /\ a <= h BY <1>4
<1>6. PICK b \in Nat : b = Magnitude(m) /\ b <= h BY <1>4
<1>7. PICK r \in Nat : r = a * b /\ r < w
  <2>1. a * b \in Nat /\ h * h \in Nat OBVIOUS
  <2>2. PICK d \in Nat : h = a + d
    <3>1. PICK d \in Nat : d = h - a BY <1>5
    <3> QED BY <1>5, <3>1
  <2>3. PICK e \in Nat : h = b + e
    <3>1. PICK e \in Nat : e = h - b BY <1>6
    <3> QED BY <1>6, <3>1
  <2>4. (a + d) * (b + e) = a * b + a * e + d * b + d * e OBVIOUS
  <2>5. a * e \in Nat /\ d * b \in Nat /\ d * e \in Nat OBVIOUS
  <2>6. h * h = a * b + a * e + d * b + d * e BY <2>2, <2>3, <2>4, Zenon
  <2> QED BY <1>3, <2>1, <2>5, <2>6
<1>8. Sum(a, b, HalfBits) = r /\ Sum(a, b, Width(b)) = r
  <2>1. r < Word BY <1>2, <1>7
  <2>2. b < Half /\ b < Word
    <3>1. b < Half BY <1>1, <1>6
    <3>2. Half \in Nat /\ Word \in Nat BY Widths
    <3> QED BY <3>1, <3>2, HalfFits
  <2>3. Width(b) \in Nat /\ b < Power[Width(b)] BY <2>2, WidthReaches
  <2>4. Sum(a, b, HalfBits) = a * b BY <1>7, <2>1, <2>2, HalfFits, SumIsProduct
  <2>5. Sum(a, b, Width(b)) = a * b BY <1>7, <2>1, <2>3, SumIsProduct
  <2> QED BY <1>7, <2>4, <2>5
<1>9. n * m = IF (n < 0) # (m < 0) THEN -r ELSE r
  <2>1. CASE n < 0 /\ m < 0
    <3>1. a = -n /\ b = -m BY <1>5, <1>6, <2>1 DEF Magnitude
    <3>2. (-n) * (-m) = n * m BY <1>4
    <3> QED BY <1>7, <2>1, <3>1, <3>2, Zenon
  <2>2. CASE n < 0 /\ ~ (m < 0)
    <3>1. a = -n /\ b = m BY <1>5, <1>6, <2>2 DEF Magnitude
    <3>2. n * m = -((-n) * m) BY <1>4
    <3> QED BY <1>7, <2>2, <3>1, <3>2, Zenon
  <2>3. CASE ~ (n < 0) /\ m < 0
    <3>1. a = n /\ b = -m BY <1>5, <1>6, <2>3 DEF Magnitude
    <3>2. n * m = -(n * (-m)) BY <1>4
    <3> QED BY <1>7, <2>3, <3>1, <3>2, Zenon
  <2>4. CASE ~ (n < 0) /\ ~ (m < 0)
    <3>1. a = n /\ b = m BY <1>5, <1>6, <2>4 DEF Magnitude
    <3>2. (n < 0) = (m < 0) BY <1>4, <2>4
    <3>3. (IF (n < 0) # (m < 0) THEN -r ELSE r) = r BY <3>2, Zenon
    <3> QED BY <1>7, <3>1, <3>3, Zenon
  <2> QED BY <2>1, <2>2, <2>3, <2>4
<1>10. Signed(r) = r
  BY <1>2, <1>7 DEF Signed
<1>11. times(n, m) = n * m
  BY <1>5, <1>6, <1>8, <1>9, <1>10, Zenon DEF times
<1>12. mut_mul32s_branchless(n, m) = n * m
  <2>1. mut_mul32s_branchless(n, m)
          = Signed(IF (n < 0) # (m < 0) THEN (Word - 1 - r + 1) % Word ELSE r)
    BY <1>5, <1>6, <1>8, Zenon DEF mut_mul32s_branchless, WithSign
  <2>2. Signed((Word - 1 - r + 1) % Word) = -r
    <3>1. PICK v \in Nat \ {0} : v = Word /\ v = 2 * w /\ v \div 2 = w BY <1>2, Widths
    <3>2. CASE r = 0
      <4>1. v - 1 - r + 1 = v * 1 + 0 /\ 1 \in Nat /\ 0 \in 0..(v - 1) BY <3>1, <3>2
      <4>2. (v - 1 - r + 1) % v = 0 BY <4>1, RemainderOf, Zenon
      <4>3. Signed(0) = 0 BY <1>2 DEF Signed
      <4>4. -r = 0
        <5>1. PICK q \in Int : q = -r /\ q + r = 0 OBVIOUS
        <5>2. q = 0
          <6>1. q + r = 0 BY <5>1
          <6> QED BY <3>2, <6>1
        <5> QED BY <5>1, <5>2, Zenon
      <4> QED BY <3>1, <4>2, <4>3, <4>4, Zenon
    <3>3. CASE r # 0
      <4>1. PICK u \in 0..(v - 1) : u = v - r /\ u >= w BY <1>7, <3>1, <3>3
      <4>2. v - 1 - r + 1 = v * 0 + u /\ 0 \in Nat BY <4>1, <3>1
      <4>3. (v - 1 - r + 1) % v = u BY <4>2, RemainderOf, Zenon
      <4>4. Signed(u) = -r BY <4>1, <3>1 DEF Signed
      <4> QED BY <3>1, <4>3, <4>4, Zenon
    <3> QED BY <3>2, <3>3
  <2>3. CASE (n < 0) = (m < 0)
    <3>1. mut_mul32s_branchless(n, m) = Signed(r) /\ n * m = r BY <1>9, <2>1, <2>3, Zenon
    <3> QED BY <1>10, <3>1, Zenon
  <2>4. CASE (n < 0) # (m < 0)
    <3>1. mut_mul32s_branchless(n, m) = Signed((Word - 1 - r + 1) % Word) /\ n * m = -r
      BY <1>9, <2>1, <2>4, Zenon
    <3> QED BY <2>2, <3>1, Zenon
  <2> QED BY <2>3, <2>4
<1> QED BY <1>4, <1>11, <1>12 DEF SignedProductOf
-----------------------------------------------------------------------------
(* The product of matrices *)

\* A word with a sign counts in a sum of words as it does without.
LEMMA SignInSum ==
  ASSUME NEW x \in Int, NEW y \in Int
  PROVE  Signed(Unsigned(x)) \in Int /\ Unsigned(Signed(Unsigned(x)) + y) = Unsigned(x + y)
<1>1. PICK w \in Nat \ {0} : w = Word BY Widths
<1>2. PICK q \in Int, u \in 0..(w - 1) : x = w * q + u /\ u = x % w
  <2>1. x \div w \in Int /\ x % w \in 0..(w - 1) /\ x = w * (x \div w) + (x % w)
    OBVIOUS
  <2>2. PICK q \in Int : q = x \div w BY <2>1
  <2>3. PICK u \in 0..(w - 1) : u = x % w BY <2>1
  <2>4. x = w * q + u BY <2>1, <2>2, <2>3, Zenon
  <2> QED BY <2>2, <2>3, <2>4
<1>3. PICK p \in Int, v \in 0..(w - 1) : x + y = w * p + v /\ v = (x + y) % w
  <2>1. (x + y) \div w \in Int /\ (x + y) % w \in 0..(w - 1)
        /\ x + y = w * ((x + y) \div w) + ((x + y) % w)
    <3>1. PICK z \in Int : z = x + y OBVIOUS
    <3>2. z \div w \in Int /\ z % w \in 0..(w - 1) /\ z = w * (z \div w) + (z % w)
      OBVIOUS
    <3> QED BY <3>1, <3>2, Zenon
  <2>2. PICK p \in Int : p = (x + y) \div w BY <2>1
  <2>3. PICK v \in 0..(w - 1) : v = (x + y) % w BY <2>1
  <2>4. x + y = w * p + v BY <2>1, <2>2, <2>3, Zenon
  <2> QED BY <2>2, <2>3, <2>4
<1>4. \A k \in Int : (w * k + v) % w = v
  OBVIOUS
<1>5. Unsigned(x) = u /\ Unsigned(x + y) = v
  BY <1>1, <1>2, <1>3, Zenon DEF Unsigned
<1>6. CASE Signed(u) = u
  <2>1. u + y = w * (p - q) + v
    <3>1. w * (p - q) = w * p - w * q OBVIOUS
    <3>2. w * p \in Int /\ w * q \in Int OBVIOUS
    <3> QED BY <1>2, <1>3, <3>1, <3>2
  <2>2. (u + y) % w = v
    <3>1. p - q \in Int OBVIOUS
    <3> QED BY <1>4, <2>1, <3>1, Zenon
  <2>3. u \in Int OBVIOUS
  <2> QED BY <1>1, <1>5, <1>6, <2>2, <2>3, Zenon DEF Unsigned
<1>7. CASE Signed(u) = u - w
  <2>1. (u - w) + y = w * (p - q - 1) + v
    <3>1. w * (p - q - 1) = w * p - w * q - w OBVIOUS
    <3>2. w * p \in Int /\ w * q \in Int OBVIOUS
    <3> QED BY <1>2, <1>3, <3>1, <3>2
  <2>2. ((u - w) + y) % w = v
    <3>1. p - q - 1 \in Int OBVIOUS
    <3> QED BY <1>4, <2>1, <3>1, Zenon
  <2>3. u - w \in Int OBVIOUS
  <2> QED BY <1>1, <1>5, <1>7, <2>2, <2>3, Zenon DEF Unsigned
<1> QED BY <1>1, <1>6, <1>7, Zenon DEF Signed

\* An entry of the product of matrices of two by two.
LEMMA EntryIs ==
  ASSUME NEW A, NEW B, NEW i \in 0..1, NEW j \in 0..1
  PROVE  Entry(A, B, 2, i, j)
           = Added(Added(0, times(A[2 * i], B[j])), times(A[2 * i + 1], B[2 + j]))
<1> DEFINE term(k) == times(A[i * 2 + k - 1], B[(k - 1) * 2 + j])
           IsS(f) == f = [k \in 0..2 |-> IF k = 0 THEN 0 ELSE Added(f[k - 1], term(k))]
           s == CHOOSE f : IsS(f)
           g == [k \in 0..2 |-> IF k = 0 THEN 0 ELSE IF k = 1 THEN Added(0, term(1))
                                 ELSE Added(Added(0, term(1)), term(2))]
<1>1. Entry(A, B, 2, i, j) = s[2]
  BY DEF Entry
<1>2. term(1) = times(A[2 * i], B[j]) /\ term(2) = times(A[2 * i + 1], B[2 + j])
  <2>1. i * 2 + 1 - 1 = 2 * i /\ (1 - 1) * 2 + j = j OBVIOUS
  <2>2. i * 2 + 2 - 1 = 2 * i + 1 /\ (2 - 1) * 2 + j = 2 + j OBVIOUS
  <2> QED BY <2>1, <2>2, Zenon
<1> HIDE DEF term
<1>3. IsS(g)
  <2>1. ASSUME NEW k \in 0..2
        PROVE  g[k] = IF k = 0 THEN 0 ELSE Added(g[k - 1], term(k))
    <3>1. CASE k = 0 BY <3>1
    <3>2. CASE k = 1 BY <3>2
    <3>3. CASE k = 2 BY <3>3
    <3> QED BY <3>1, <3>2, <3>3
  <2> QED BY <2>1, Zenon
<1>4. IsS(s)
  <2> HIDE DEF IsS, g
  <2> QED BY <1>3
<1> HIDE DEF s
<1>5. ASSUME NEW k \in 0..2
      PROVE  s[k] = IF k = 0 THEN 0 ELSE Added(s[k - 1], term(k))
  BY <1>4, Zenon
<1>6. s[0] = 0 /\ s[1] = Added(s[0], term(1)) /\ s[2] = Added(s[1], term(2))
  BY <1>5
<1> QED BY <1>1, <1>2, <1>6, Zenon

\* The sum of the entries of matrices of two by two.
LEMMA MatrixSumIs ==
  ASSUME NEW A, NEW B
  PROVE  mmult(A, B, 2).sum
           = Unsigned(Added(Added(Added(Added(0, Entry(A, B, 2, 0, 0)), Entry(A, B, 2, 0, 1)),
                                  Entry(A, B, 2, 1, 0)), Entry(A, B, 2, 1, 1)))
<1> DEFINE S == [e \in 0..(2 * 2 - 1) |-> Entry(A, B, 2, e \div 2, e % 2)]
           IsSum(f) == f = [e \in 0..(2 * 2) |-> IF e = 0 THEN 0 ELSE Added(f[e - 1], S[e - 1])]
           sum == CHOOSE f : IsSum(f)
           g == [e \in 0..(2 * 2) |->
                  IF e = 0 THEN 0 ELSE IF e = 1 THEN Added(0, S[0])
                  ELSE IF e = 2 THEN Added(Added(0, S[0]), S[1])
                  ELSE IF e = 3 THEN Added(Added(Added(0, S[0]), S[1]), S[2])
                  ELSE Added(Added(Added(Added(0, S[0]), S[1]), S[2]), S[3])]
<1>1. mmult(A, B, 2).sum = Unsigned(sum[2 * 2])
  BY DEF mmult
<1>2. /\ S[0] = Entry(A, B, 2, 0, 0) /\ S[1] = Entry(A, B, 2, 0, 1)
      /\ S[2] = Entry(A, B, 2, 1, 0) /\ S[3] = Entry(A, B, 2, 1, 1)
  <2>1. /\ 0 \div 2 = 0 /\ 0 % 2 = 0 /\ 1 \div 2 = 0 /\ 1 % 2 = 1
        /\ 2 \div 2 = 1 /\ 2 % 2 = 0 /\ 3 \div 2 = 1 /\ 3 % 2 = 1
    OBVIOUS
  <2>2. ASSUME NEW e \in 0..3 PROVE S[e] = Entry(A, B, 2, e \div 2, e % 2)
    OBVIOUS
  <2> HIDE DEF S
  <2>3. 0 \in 0..3 /\ 1 \in 0..3 /\ 2 \in 0..3 /\ 3 \in 0..3 OBVIOUS
  <2> QED BY <2>1, <2>2, <2>3, Zenon
<1> HIDE DEF S
<1>3. IsSum(g)
  <2>1. ASSUME NEW e \in 0..(2 * 2)
        PROVE  g[e] = IF e = 0 THEN 0 ELSE Added(g[e - 1], S[e - 1])
    <3>1. e \in {0, 1, 2, 3, 4} OBVIOUS
    <3>2. CASE e = 0 BY <3>2
    <3>3. CASE e = 1 BY <3>3
    <3>4. CASE e = 2 BY <3>4
    <3>5. CASE e = 3 BY <3>5
    <3>6. CASE e = 4 BY <3>6
    <3> QED BY <3>1, <3>2, <3>3, <3>4, <3>5, <3>6
  <2> QED BY <2>1, Zenon
<1>4. IsSum(sum)
  <2> HIDE DEF IsSum, g
  <2> QED BY <1>3
<1> HIDE DEF sum
<1>5. ASSUME NEW e \in 0..(2 * 2)
      PROVE  sum[e] = IF e = 0 THEN 0 ELSE Added(sum[e - 1], S[e - 1])
  BY <1>4, Zenon
<1>6. /\ sum[0] = 0 /\ sum[1] = Added(sum[0], S[0]) /\ sum[2] = Added(sum[1], S[1])
      /\ sum[3] = Added(sum[2], S[2]) /\ sum[4] = Added(sum[3], S[3])
  BY <1>5
<1>7. 2 * 2 = 4 OBVIOUS
<1> QED BY <1>1, <1>2, <1>6, <1>7, Zenon

\* Sums of words with a sign are right up to a word.
LEMMA AddedInSum ==
  ASSUME NEW a \in Int, NEW b \in Int, NEW y \in Int
  PROVE  Added(a, b) \in Int /\ Unsigned(Added(a, b) + y) = Unsigned(a + b + y)
<1>1. PICK x \in Int : x = a + b
  OBVIOUS
<1>2. Signed(Unsigned(x)) \in Int /\ Unsigned(Signed(Unsigned(x)) + y) = Unsigned(x + y)
  BY SignInSum
<1> QED BY <1>1, <1>2, Zenon DEF Added

\* The entries of a product of matrices of two by two in a sum.
LEMMA EntryInSum ==
  ASSUME NEW p \in Int, NEW q \in Int, NEW y \in Int
  PROVE  /\ Added(Added(0, p), q) \in Int
         /\ Unsigned(Added(Added(0, p), q) + y) = Unsigned(p + q + y)
<1>1. Added(0, p) \in Int /\ \A z \in Int : Unsigned(Added(0, p) + z) = Unsigned(0 + p + z)
  <2>1. 0 \in Int OBVIOUS
  <2>2. ASSUME NEW z \in Int
        PROVE Added(0, p) \in Int /\ Unsigned(Added(0, p) + z) = Unsigned(0 + p + z)
    BY <2>1, AddedInSum
  <2> QED BY <2>1, <2>2
<1>2. PICK a \in Int : a = Added(0, p) BY <1>1
<1>3. Added(a, q) \in Int /\ Unsigned(Added(a, q) + y) = Unsigned(a + q + y)
  BY AddedInSum
<1>4. Unsigned(a + (q + y)) = Unsigned(0 + p + (q + y))
  <2>1. q + y \in Int OBVIOUS
  <2> QED BY <1>1, <1>2, <2>1, Zenon
<1>5. a + q + y = a + (q + y) /\ 0 + p + (q + y) = p + q + y
  OBVIOUS
<1> QED BY <1>2, <1>3, <1>4, <1>5, Zenon

\* The sum of four numbers.
LEMMA FourInSum ==
  ASSUME NEW a \in Int, NEW b \in Int, NEW c \in Int, NEW d \in Int
  PROVE  Unsigned(Added(Added(Added(Added(0, a), b), c), d)) = Unsigned(a + b + c + d)
<1>1. PICK u \in Int : u = Added(Added(0, a), b)
  <2>1. 0 \in Int OBVIOUS
  <2>2. Added(Added(0, a), b) \in Int BY <2>1, EntryInSum
  <2> QED BY <2>2
<1>2. PICK v \in Int : v = Added(u, c)
  <2>1. 0 \in Int OBVIOUS
  <2> QED BY <2>1, AddedInSum
<1>3. PICK w \in Int : w = Added(v, d)
  <2>1. 0 \in Int OBVIOUS
  <2> QED BY <2>1, AddedInSum
<1>4. Unsigned(w + 0) = Unsigned(v + d + 0)
  <2>1. 0 \in Int OBVIOUS
  <2>2. Unsigned(Added(v, d) + 0) = Unsigned(v + d + 0) BY <2>1, AddedInSum
  <2> QED BY <1>3, <2>2, Zenon
<1>5. Unsigned(v + d) = Unsigned(u + c + d)
  <2>1. Unsigned(Added(u, c) + d) = Unsigned(u + c + d) BY AddedInSum
  <2> QED BY <1>2, <2>1, Zenon
<1>6. Unsigned(u + (c + d)) = Unsigned(a + b + (c + d))
  <2>1. PICK y \in Int : y = c + d OBVIOUS
  <2>2. Unsigned(Added(Added(0, a), b) + y) = Unsigned(a + b + y) BY EntryInSum
  <2> QED BY <1>1, <2>1, <2>2, Zenon
<1>7. /\ w + 0 = w /\ v + d + 0 = v + d /\ u + c + d = u + (c + d)
      /\ a + b + (c + d) = a + b + c + d
  OBVIOUS
<1> QED BY <1>1, <1>2, <1>3, <1>4, <1>5, <1>6, <1>7, Zenon

\* Eight products of columns and rows.
LEMMA ColumnsTimesRows ==
  ASSUME NEW a \in Int, NEW b \in Int, NEW c \in Int, NEW d \in Int,
         NEW e \in Int, NEW f \in Int, NEW g \in Int, NEW h \in Int
  PROVE  (a * e + b * g) + (a * f + b * h) + (c * e + d * g) + (c * f + d * h)
           = (a + c) * (e + f) + (b + d) * (g + h)
<1>1. (a + c) * (e + f) = a * e + a * f + c * e + c * f
  OBVIOUS
<1>2. (b + d) * (g + h) = b * g + b * h + d * g + d * h
  OBVIOUS
<1>3. /\ a * e \in Int /\ a * f \in Int /\ c * e \in Int /\ c * f \in Int
      /\ b * g \in Int /\ b * h \in Int /\ d * g \in Int /\ d * h \in Int
  OBVIOUS
<1> QED BY <1>1, <1>2, <1>3

\* An entry of the product of matrices of two by two whose entries are half a
\* word with a sign.
LEMMA EntryProducts ==
  ASSUME NEW A \in Matrices(SignedHalves), NEW B \in Matrices(SignedHalves),
         NEW i \in 0..1, NEW j \in 0..1
  PROVE  /\ Entry(A, B, 2, i, j) \in Int
         /\ A[2 * i] * B[j] + A[2 * i + 1] * B[2 + j] \in Int
         /\ \A z \in Int : Unsigned(Entry(A, B, 2, i, j) + z)
                           = Unsigned(A[2 * i] * B[j] + A[2 * i + 1] * B[2 + j] + z)
<1>1. A[2 * i] \in SignedHalves /\ A[2 * i + 1] \in SignedHalves
      /\ B[j] \in SignedHalves /\ B[2 + j] \in SignedHalves
  BY DEF Matrices
<1>2. PICK x, y, u, v \in SignedHalves :
        x = A[2 * i] /\ y = A[2 * i + 1] /\ u = B[j] /\ v = B[2 + j]
  BY <1>1
<1>3. \A c, d \in SignedHalves : times(c, d) = c * d /\ c \in Int /\ d \in Int
  BY SignedProducts DEF SignedProductOf
<1>4. PICK p \in Int : p = x * u /\ p = times(x, u)
  <2>1. x \in Int /\ u \in Int BY <1>3
  <2>2. x * u \in Int BY <2>1
  <2> QED BY <2>2, <1>3
<1>5. PICK q \in Int : q = y * v /\ q = times(y, v)
  <2>1. y \in Int /\ v \in Int BY <1>3
  <2>2. y * v \in Int BY <2>1
  <2> QED BY <2>2, <1>3
<1>6. Entry(A, B, 2, i, j) = Added(Added(0, p), q)
  <2>1. times(A[2 * i], B[j]) = p /\ times(A[2 * i + 1], B[2 + j]) = q
    BY <1>2, <1>4, <1>5, Zenon
  <2>2. Entry(A, B, 2, i, j)
          = Added(Added(0, times(A[2 * i], B[j])), times(A[2 * i + 1], B[2 + j]))
    BY EntryIs
  <2> QED BY <2>1, <2>2, Zenon
<1>7. p + q \in Int /\ p + q = A[2 * i] * B[j] + A[2 * i + 1] * B[2 + j]
  <2>1. p + q \in Int OBVIOUS
  <2> QED BY <2>1, <1>2, <1>4, <1>5, Zenon
<1>8. ASSUME NEW z \in Int
      PROVE  Unsigned(Added(Added(0, p), q) + z) = Unsigned(p + q + z)
  BY EntryInSum
<1>9. Added(Added(0, p), q) \in Int
  <2>1. 0 \in Int OBVIOUS
  <2> QED BY <2>1, EntryInSum
<1> QED BY <1>6, <1>7, <1>8, <1>9, Zenon

\* The sum mmult prints for matrices of two by two whose entries are half a word
\* with a sign is the one of their product.
THEOREM MatrixProducts ==
  ASSUME NEW A \in Matrices(SignedHalves), NEW B \in Matrices(SignedHalves)
  PROVE  MatrixProductOf(A, B)
<1>1. \A k \in 0..3 : A[k] \in Int /\ B[k] \in Int
  <2>1. \A x \in SignedHalves : x \in Int BY SignedProducts
  <2> QED BY <2>1 DEF Matrices
<1>3. PICK p0, p1, p2, p3 \in Int : p0 = A[0] /\ p1 = A[1] /\ p2 = A[2] /\ p3 = A[3]
  BY <1>1
<1>4. PICK q0, q1, q2, q3 \in Int : q0 = B[0] /\ q1 = B[1] /\ q2 = B[2] /\ q3 = B[3]
  BY <1>1
<1> DEFINE s00 == p0 * q0 + p1 * q2
           s01 == p0 * q1 + p1 * q3
           s10 == p2 * q0 + p3 * q2
           s11 == p2 * q1 + p3 * q3
<1>5. 2 * 0 = 0 /\ 2 * 0 + 1 = 1 /\ 2 + 0 = 2 /\ 2 + 1 = 3 /\ 2 * 1 = 2 /\ 2 * 1 + 1 = 3
      /\ 0 \in 0..1 /\ 1 \in 0..1
  OBVIOUS
<1> DEFINE Is(e, s) == e \in Int /\ s \in Int /\ \A z \in Int : Unsigned(e + z) = Unsigned(s + z)
<1>6. Is(Entry(A, B, 2, 0, 0), s00)
  <2>1. Is(Entry(A, B, 2, 0, 0), A[2 * 0] * B[0] + A[2 * 0 + 1] * B[2 + 0])
    BY <1>5, EntryProducts
  <2> HIDE DEF Is
  <2> QED BY <1>3, <1>4, <1>5, <2>1, Zenon
<1>7. Is(Entry(A, B, 2, 0, 1), s01)
  <2>1. Is(Entry(A, B, 2, 0, 1), A[2 * 0] * B[1] + A[2 * 0 + 1] * B[2 + 1])
    BY <1>5, EntryProducts
  <2> HIDE DEF Is
  <2> QED BY <1>3, <1>4, <1>5, <2>1, Zenon
<1>8. Is(Entry(A, B, 2, 1, 0), s10)
  <2>1. Is(Entry(A, B, 2, 1, 0), A[2 * 1] * B[0] + A[2 * 1 + 1] * B[2 + 0])
    BY <1>5, EntryProducts
  <2> HIDE DEF Is
  <2> QED BY <1>3, <1>4, <1>5, <2>1, Zenon
<1>9. Is(Entry(A, B, 2, 1, 1), s11)
  <2>1. Is(Entry(A, B, 2, 1, 1), A[2 * 1] * B[1] + A[2 * 1 + 1] * B[2 + 1])
    BY <1>5, EntryProducts
  <2> HIDE DEF Is
  <2> QED BY <1>3, <1>4, <1>5, <2>1, Zenon
<1>10. s00 + s01 + s10 + s11 = (p0 + p2) * (q0 + q1) + (p1 + p3) * (q2 + q3)
  BY ColumnsTimesRows
<1> HIDE DEF s00, s01, s10, s11
<1>11. PICK c00, c01, c10, c11 \in Int : c00 = s00 /\ c01 = s01 /\ c10 = s10 /\ c11 = s11
  BY <1>6, <1>7, <1>8, <1>9
<1>12. PICK e00, e01, e10, e11 \in Int :
        /\ e00 = Entry(A, B, 2, 0, 0) /\ e01 = Entry(A, B, 2, 0, 1)
        /\ e10 = Entry(A, B, 2, 1, 0) /\ e11 = Entry(A, B, 2, 1, 1)
  BY <1>6, <1>7, <1>8, <1>9
<1>13. \A z \in Int : /\ Unsigned(e00 + z) = Unsigned(c00 + z)
                     /\ Unsigned(e01 + z) = Unsigned(c01 + z)
                     /\ Unsigned(e10 + z) = Unsigned(c10 + z)
                     /\ Unsigned(e11 + z) = Unsigned(c11 + z)
  BY <1>6, <1>7, <1>8, <1>9, <1>11, <1>12, Zenon
<1> HIDE DEF Is
<1>14. Unsigned(e00 + e01 + e10 + e11) = Unsigned(c00 + c01 + c10 + c11)
  <2>1. /\ e01 + e10 + e11 \in Int /\ c00 + e10 + e11 \in Int
        /\ c00 + c01 + e11 \in Int /\ c00 + c01 + c10 \in Int
    OBVIOUS
  <2>2. /\ Unsigned(e00 + (e01 + e10 + e11)) = Unsigned(c00 + (e01 + e10 + e11))
        /\ Unsigned(e01 + (c00 + e10 + e11)) = Unsigned(c01 + (c00 + e10 + e11))
        /\ Unsigned(e10 + (c00 + c01 + e11)) = Unsigned(c10 + (c00 + c01 + e11))
        /\ Unsigned(e11 + (c00 + c01 + c10)) = Unsigned(c11 + (c00 + c01 + c10))
    BY <1>13, <2>1, Zenon
  <2>3. /\ e00 + (e01 + e10 + e11) = e00 + e01 + e10 + e11
        /\ c00 + (e01 + e10 + e11) = e01 + (c00 + e10 + e11)
        /\ c01 + (c00 + e10 + e11) = e10 + (c00 + c01 + e11)
        /\ c10 + (c00 + c01 + e11) = e11 + (c00 + c01 + c10)
        /\ c11 + (c00 + c01 + c10) = c00 + c01 + c10 + c11
    OBVIOUS
  <2> QED BY <2>2, <2>3, Zenon
<1>15. mmult(A, B, 2).sum = Unsigned(e00 + e01 + e10 + e11)
  <2>1. Unsigned(Added(Added(Added(Added(0, e00), e01), e10), e11)) = Unsigned(e00 + e01 + e10 + e11)
    BY FourInSum
  <2> QED BY <1>12, <2>1, MatrixSumIs, Zenon
<1>16. mmult(A, B, 2).sum = Unsigned((p0 + p2) * (q0 + q1) + (p1 + p3) * (q2 + q3))
  BY <1>10, <1>11, <1>14, <1>15, Zenon
<1> QED BY <1>3, <1>4, <1>5, <1>16, Zenon DEF MatrixProductOf

\* Every way to multiply of the programs is the product, for all factors of half
\* a word and words of every width; so the words of swelip are products.
THEOREM Products == AllProducts /\ (Spec => []ProductsAgree)
<1>1. \A n, m \in Halves : ProductOf(n, m)
  BY UnsignedProducts
<1>2. \A n, m \in SignedHalves : SignedProductOf(n, m)
  BY SignedProducts
<1>3. Matrices({-(Half \div 2), -1, Half \div 2 - 1}) \subseteq Matrices(SignedHalves)
  <2>1. PICK h \in Nat \ {0} : Half = 2 * h /\ Half \div 2 = h BY Widths
  <2>2. {-(Half \div 2), -1, Half \div 2 - 1} \subseteq SignedHalves
    BY <2>1 DEF SignedHalves
  <2> QED BY <2>2 DEF Matrices
<1>4. \A A, B \in Matrices({-(Half \div 2), -1, Half \div 2 - 1}) : MatrixProductOf(A, B)
  BY <1>3, MatrixProducts
<1>5. AllProducts
  BY <1>1, <1>2, <1>4 DEF AllProducts
<1>6. ProductsAgree
  BY <1>5 DEF ProductsAgree
<1>7. []ProductsAgree
  BY <1>6, PTL
<1> QED BY <1>5, <1>7
-----------------------------------------------------------------------------
(* The words of a command *)

\* The words of the commands, and of points.
LEMMA WordsTyped ==
  /\ null_pnt \in CommandWords /\ null_xrgb32 \in CommandWords /\ CMD_STOP \in CommandWords
  /\ \A op \in DOMAIN GOP, rgb \in Rests : CMD_orgb28(op, rgb) \in CommandWords
  /\ \A x, y \in Coordinates :
       /\ CMD_pnt(x, y) \in CommandWords /\ CMD_pnt(x, y) # null_pnt
       /\ CMD_pnt(x, y).rest = <<x, y>>
<1>1. ASSUME NEW op \in DOMAIN GOP, NEW rgb \in Rests
      PROVE  CMD_orgb28(op, rgb) \in CommandWords
  <2>1. GOP[op] \in 0..15 BY DEF GOP
  <2> QED BY <2>1 DEF CMD_orgb28, CommandWords
<1>2. <<0, 0>> \in Rests /\ <<257, 842>> \in Rests
  BY DEF Rests
<1>3. CMD_STOP \in CommandWords
  <2>1. "STOP" \in DOMAIN GOP BY DEF GOP
  <2> QED BY <1>1, <1>2, <2>1 DEF CMD_STOP
<1>4. ASSUME NEW x \in Coordinates, NEW y \in Coordinates
      PROVE  /\ CMD_pnt(x, y) \in CommandWords /\ CMD_pnt(x, y) # null_pnt
             /\ CMD_pnt(x, y).rest = <<x, y>>
  <2>1. x \in Nat /\ y \in Nat /\ x % Fields = x /\ y % Fields = y
    BY FieldsAssumption DEF Coordinates
  <2>2. CMD_pnt(x, y) = [hi |-> 0, rest |-> <<x, y>>]
    BY <2>1, Zenon DEF CMD_pnt
  <2> QED BY <2>1, <2>2 DEF CommandWords, Rests, null_pnt
<1>5. null_pnt \in CommandWords /\ null_xrgb32 \in CommandWords
  BY <1>2 DEF null_pnt, null_xrgb32, CommandWords
<1> QED BY <1>1, <1>3, <1>4, <1>5

\* The opcode is read as it was written.
LEMMA OpcodeRead ==
  \A op \in DOMAIN GOP, rgb \in Rests :
    OpcodeOf(CMD_orgb28(op, rgb)) = op /\ CMD_orgb28(op, rgb).rest = rgb
    /\ CMD_orgb28(op, rgb).hi # 15
<1> TAKE op \in DOMAIN GOP, rgb \in Rests
<1>1. CMD_orgb28(op, rgb).hi = GOP[op] /\ CMD_orgb28(op, rgb).rest = rgb
  BY DEF CMD_orgb28
<1>2. \A o \in DOMAIN GOP : GOP[o] = GOP[op] => o = op
  BY DEF GOP
<1>3. GOP[op] # 15
  BY DEF GOP
<1>4. OpcodeOf(CMD_orgb28(op, rgb)) = CHOOSE o \in DOMAIN GOP : GOP[o] = GOP[op]
  BY <1>1, Zenon DEF OpcodeOf
<1> QED BY <1>1, <1>2, <1>3, <1>4

\* A word is appended unless it stands for an absent one.
LEMMA GivenTo ==
  ASSUME NEW b \in Seq(CommandWords), NEW w \in CommandWords, NEW null
  PROVE  b \o Given(w, null) = IF w = null THEN b ELSE Append(b, w)
<1>1. CASE w = null
  <2>1. Given(w, null) = <<>> BY <1>1, Zenon DEF Given
  <2>2. b \o <<>> = b BY ConcatEmptySeq
  <2> QED BY <1>1, <2>1, <2>2, Zenon
<1>2. CASE w # null
  <2>1. Given(w, null) = <<w>> BY <1>2, Zenon DEF Given
  <2>2. b \o <<w>> = Append(b, w) BY AppendIsConcat
  <2> QED BY <1>2, <2>1, <2>2, Zenon
<1> QED BY <1>1, <1>2

\* Two sequences of which the first is the beginning of the second.
Begins(a, b) ==
  Len(a) \in Nat /\ Len(b) \in Nat /\ Len(a) <= Len(b) /\ \A i \in 1..Len(a) : b[i] = a[i]

\* A sequence is the beginning of the one with a word appended.
LEMMA AppendedTo ==
  ASSUME NEW b \in Seq(CommandWords), NEW w \in CommandWords
  PROVE  /\ Append(b, w) \in Seq(CommandWords) /\ Len(Append(b, w)) = Len(b) + 1
         /\ Append(b, w)[Len(b) + 1] = w
         /\ Begins(b, Append(b, w))
<1>1. Len(b) \in Nat BY LenProperties
<1>2. /\ Append(b, w) \in Seq(CommandWords) /\ Len(Append(b, w)) = Len(b) + 1
      /\ \A i \in 1..Len(b) : Append(b, w)[i] = b[i]
      /\ Append(b, w)[Len(b) + 1] = w
  BY AppendProperties
<1> QED BY <1>1, <1>2 DEF Begins

\* Beginnings of beginnings.
LEMMA BeginsOf ==
  ASSUME NEW a, NEW b, NEW c, Begins(a, b), Begins(b, c)
  PROVE  Begins(a, c)
BY DEF Begins

\* How many words a command has: the opcode, two points and a fill color, if
\* that one is not taken for an absent one.
Size(c) == IF c.op = "FILL" THEN 1 ELSE IF c.op = "LINE" \/ Lost(c) THEN 3 ELSE 4

\* The words that follow the q words before them are those of a command.
Holds(words, q, c) ==
  /\ words[q + 1] = CMD_orgb28(c.op, c.rgb)
  /\ c.op # "FILL" => /\ words[q + 2] = CMD_pnt(c.x0, c.y0)
                      /\ words[q + 3] = CMD_pnt(c.x1, c.y1)
  /\ c.op \in {"ELIP", "RECT"} /\ ~ Lost(c) => words[q + 4] = c.fill

\* What the macros append to a list.
LEMMA Appended ==
  ASSUME NEW b \in Seq(CommandWords), NEW c \in Commands
  PROVE  /\ hwq(b, c) \in Seq(CommandWords)
         /\ Size(c) \in 1..4 /\ Len(hwq(b, c)) = Len(b) + Size(c)
         /\ Begins(b, hwq(b, c)) /\ Holds(hwq(b, c), Len(b), c)
<1>0. Len(b) \in Nat BY LenProperties
<1>1. c.op \in {"FILL", "LINE", "ELIP", "RECT"} /\ c.rgb \in Rests /\ c.op \in DOMAIN GOP
  BY DEF Commands, GOP
<1>2. PICK w \in CommandWords : w = CMD_orgb28(c.op, c.rgb)
  BY <1>1, WordsTyped
<1> DEFINE list1 == Append(b, w)
<1>3. list1 \in Seq(CommandWords) /\ Len(list1) = Len(b) + 1 /\ list1[Len(b) + 1] = w /\ Begins(b, list1)
  BY AppendedTo
<1>4. b \o <<w>> = list1
  BY AppendIsConcat
<1> HIDE DEF list1
<1>5. CASE c.op = "FILL"
  <2>1. hwq(b, c) = b \o <<w>> \o Given(null_pnt, null_pnt) \o Given(null_pnt, null_pnt)
                      \o Given(null_xrgb32, null_xrgb32)
    BY <1>2, <1>5, Zenon DEF hwq, hw_OpRGB_PP_S
  <2>2. list1 \o Given(null_pnt, null_pnt) = list1 /\ list1 \o Given(null_xrgb32, null_xrgb32) = list1
    BY <1>3, WordsTyped, GivenTo
  <2>3. hwq(b, c) = list1
    BY <1>4, <2>1, <2>2, Zenon
  <2> QED BY <1>2, <1>3, <1>5, <2>3 DEF Size, Holds
<1>6. CASE c.op # "FILL"
  <2>1. c.x0 \in Coordinates /\ c.y0 \in Coordinates /\ c.x1 \in Coordinates /\ c.y1 \in Coordinates
    BY <1>6 DEF Commands
  <2>2. PICK p \in CommandWords : p = CMD_pnt(c.x0, c.y0) /\ p # null_pnt
    BY <2>1, WordsTyped
  <2>3. PICK q \in CommandWords : q = CMD_pnt(c.x1, c.y1) /\ q # null_pnt
    BY <2>1, WordsTyped
  <2> DEFINE list2 == Append(list1, p)
             list3 == Append(list2, q)
  <2>4. /\ list2 \in Seq(CommandWords) /\ Len(list2) = Len(list1) + 1
        /\ list2[Len(list1) + 1] = p /\ Begins(list1, list2)
    BY <1>3, AppendedTo
  <2>5. list1 \o Given(p, null_pnt) = list2
    BY <1>3, <2>2, GivenTo
  <2> HIDE DEF list2
  <2>6. /\ list3 \in Seq(CommandWords) /\ Len(list3) = Len(list2) + 1
        /\ list3[Len(list2) + 1] = q /\ Begins(list2, list3)
    BY <2>4, AppendedTo
  <2>7. list2 \o Given(q, null_pnt) = list3
    BY <2>3, <2>4, GivenTo
  <2> HIDE DEF list3
  <2>8. /\ Len(list3) = Len(b) + 3 /\ Begins(b, list3)
        /\ list3[Len(b) + 1] = w /\ list3[Len(b) + 2] = p /\ list3[Len(b) + 3] = q
    <3>1. Begins(list1, list3) BY <2>4, <2>6, BeginsOf
    <3>2. Begins(b, list3) BY <1>3, <3>1, BeginsOf
    <3>3. Len(list1) = Len(b) + 1 /\ Len(list2) = Len(b) + 2 /\ Len(list3) = Len(b) + 3
      BY <1>0, <1>3, <2>4, <2>6
    <3>4. Len(b) + 1 \in 1..Len(list1) /\ Len(b) + 2 \in 1..Len(list2) BY <1>0, <3>3
    <3>5. list3[Len(b) + 1] = w BY <1>3, <3>1, <3>4 DEF Begins
    <3>6. list3[Len(b) + 2] = p
      <4>1. list2[Len(b) + 2] = p BY <1>0, <2>4, <3>3
      <4> QED BY <4>1, <2>6, <3>4 DEF Begins
    <3>7. list3[Len(b) + 3] = q BY <1>0, <2>6, <3>3
    <3> QED BY <3>2, <3>3, <3>5, <3>6, <3>7
  <2>9. CASE c.op = "LINE"
    <3>1. hwq(b, c) = b \o <<w>> \o Given(p, null_pnt) \o Given(q, null_pnt)
                        \o Given(null_xrgb32, null_xrgb32)
      BY <1>2, <2>2, <2>3, <2>9, <1>6, Zenon DEF hwq, hw_OpRGB_PP_S
    <3>2. list3 \o Given(null_xrgb32, null_xrgb32) = list3
      BY <2>6, WordsTyped, GivenTo
    <3>3. hwq(b, c) = list3
      BY <1>4, <2>5, <2>7, <3>1, <3>2, Zenon
    <3> QED BY <1>2, <2>2, <2>3, <2>6, <2>8, <2>9, <3>3 DEF Size, Holds
  <2>10. CASE c.op # "LINE"
    <3>1. c.op \in {"ELIP", "RECT"} /\ c.fill \in CommandWords
      BY <1>6, <2>10 DEF Commands
    <3>2. hwq(b, c) = b \o <<w>> \o Given(p, null_pnt) \o Given(q, null_pnt)
                        \o Given(c.fill, null_xrgb32)
      BY <1>2, <2>2, <2>3, <2>10, <1>6, Zenon DEF hwq, hw_OpRGB_PP_S, CMD_xrgb32
    <3>3. hwq(b, c) = IF c.fill = null_xrgb32 THEN list3 ELSE Append(list3, c.fill)
      <4>1. list3 \o Given(c.fill, null_xrgb32)
              = IF c.fill = null_xrgb32 THEN list3 ELSE Append(list3, c.fill)
        BY <2>6, <3>1, GivenTo
      <4> QED BY <1>4, <2>5, <2>7, <3>2, <4>1, Zenon
    <3>4. CASE c.fill = null_xrgb32
      <4>1. hwq(b, c) = list3 /\ Lost(c) BY <3>1, <3>3, <3>4 DEF Lost
      <4> QED BY <1>2, <2>2, <2>3, <2>6, <2>8, <1>6, <4>1 DEF Size, Holds
    <3>5. CASE c.fill # null_xrgb32
      <4>1. hwq(b, c) = Append(list3, c.fill) /\ ~ Lost(c) BY <3>1, <3>3, <3>5 DEF Lost
      <4>2. /\ Append(list3, c.fill) \in Seq(CommandWords) /\ Len(Append(list3, c.fill)) = Len(list3) + 1
            /\ Append(list3, c.fill)[Len(list3) + 1] = c.fill /\ Begins(list3, Append(list3, c.fill))
        BY <2>6, <3>1, AppendedTo
      <4> DEFINE list4 == Append(list3, c.fill)
      <4>3. Begins(b, list4) BY <2>8, <4>2, BeginsOf
      <4>4. Len(list4) = Len(b) + 4 /\ list4[Len(b) + 4] = c.fill BY <1>0, <2>8, <4>2
      <4>5. list4[Len(b) + 1] = w /\ list4[Len(b) + 2] = p /\ list4[Len(b) + 3] = q
        <5>1. Len(b) + 1 \in 1..Len(list3) /\ Len(b) + 2 \in 1..Len(list3) /\ Len(b) + 3 \in 1..Len(list3)
          BY <1>0, <2>8
        <5> HIDE DEF list4
        <5>2. Begins(list3, list4) BY <4>2 DEF list4
        <5> QED BY <5>1, <5>2, <2>8 DEF Begins
      <4>6. Size(c) = 4 BY <1>6, <2>10, <4>1 DEF Size
      <4>7. Holds(list4, Len(b), c)
        <5> HIDE DEF list4
        <5> QED BY <1>2, <2>2, <2>3, <4>4, <4>5 DEF Holds
      <4> QED BY <4>1, <4>2, <4>3, <4>4, <4>6, <4>7
    <3> QED BY <3>4, <3>5
  <2> QED BY <2>9, <2>10
<1> QED BY <1>5, <1>6
-----------------------------------------------------------------------------
(* A list of commands *)

\* The words of the first commands, for every number of them.
IsList(cs, f) == f = [i \in 0..Len(cs) |-> IF i = 0 THEN <<>> ELSE hwq(f[i - 1], cs[i])]
WordsOf(cs) == CHOOSE f : IsList(cs, f)

\* They are what the macros append one after the other.
LEMMA ListIs ==
  ASSUME NEW cs \in Seq(Commands)
  PROVE  /\ Written(cs) = Append(WordsOf(cs)[Len(cs)], CMD_STOP)
         /\ WordsOf(cs)[0] = <<>>
         /\ \A k \in 0..Len(cs) : WordsOf(cs)[k] \in Seq(CommandWords)
         /\ \A k \in 0..(Len(cs) - 1) :
              /\ cs[k + 1] \in Commands
              /\ WordsOf(cs)[k + 1] = hwq(WordsOf(cs)[k], cs[k + 1])
<1> DEFINE X == Seq(CommandWords)
           Step == [k \in Nat |-> [b \in X |-> IF k \in 1..Len(cs) THEN hwq(b, cs[k]) ELSE b]]
<1>1. Len(cs) \in Nat BY LenProperties
<1>2. \A k \in 1..Len(cs) : cs[k] \in Commands BY ElementOfSeq
<1>3. <<>> \in X /\ Step \in [Nat -> [X -> X]]
  <2>1. <<>> \in X BY EmptySeq
  <2>2. ASSUME NEW k \in Nat, NEW b \in X
        PROVE  (IF k \in 1..Len(cs) THEN hwq(b, cs[k]) ELSE b) \in X
    BY <1>2, Appended
  <2> HIDE DEF X
  <2> QED BY <2>1, <2>2
<1>4. PICK g \in [0..Len(cs) -> X] : FirstOf(g, Len(cs), <<>>, Step)
  <2> HIDE DEF X, Step
  <2> QED BY <1>1, <1>3, FirstTurns
<1>5. IsList(cs, g)
  <2>1. ASSUME NEW i \in 0..Len(cs)
        PROVE  g[i] = IF i = 0 THEN <<>> ELSE hwq(g[i - 1], cs[i])
    <3>1. g[i] = IF i = 0 THEN <<>> ELSE Step[i][g[i - 1]]
      <4> HIDE DEF Step
      <4> QED BY <1>4 DEF FirstOf
    <3>2. CASE i = 0 BY <3>1, <3>2
    <3>3. CASE i # 0
      <4>1. i \in Nat /\ i \in 1..Len(cs) /\ i - 1 \in 0..Len(cs) BY <1>1, <3>3
      <4>2. g[i - 1] \in X
        <5> HIDE DEF X
        <5> QED BY <4>1
      <4>3. Step[i][g[i - 1]] = hwq(g[i - 1], cs[i])
        <5> HIDE DEF X
        <5> QED BY <4>1, <4>2
      <4> QED BY <3>1, <3>3, <4>3
    <3> QED BY <3>2, <3>3
  <2>2. g = [i \in 0..Len(cs) |-> IF i = 0 THEN <<>> ELSE hwq(g[i - 1], cs[i])]
    <3> HIDE DEF X, Step
    <3> QED BY <2>1, Zenon
  <2> QED BY <2>2 DEF IsList
<1>6. IsList(cs, WordsOf(cs))
  BY <1>5, Zenon DEF WordsOf
<1> DEFINE L == WordsOf(cs)
<1> HIDE DEF L, X, Step
<1>7. ASSUME NEW i \in 0..Len(cs)
      PROVE  L[i] = IF i = 0 THEN <<>> ELSE hwq(L[i - 1], cs[i])
  BY <1>6, Zenon DEF L, IsList
<1>8. L[0] = <<>> BY <1>1, <1>7
<1>9. ASSUME NEW k \in 0..(Len(cs) - 1)
      PROVE  cs[k + 1] \in Commands /\ L[k + 1] = hwq(L[k], cs[k + 1])
  <2>1. k + 1 \in 0..Len(cs) /\ k + 1 \in 1..Len(cs) /\ k + 1 # 0 /\ (k + 1) - 1 = k BY <1>1
  <2>2. L[k + 1] = hwq(L[(k + 1) - 1], cs[k + 1]) BY <1>7, <2>1, Zenon
  <2> QED BY <1>2, <2>1, <2>2, Zenon
<1>10. ASSUME NEW k \in 0..Len(cs) PROVE L[k] \in X
  <2> DEFINE S == {n \in Nat : n <= Len(cs) => L[n] \in X}
  <2>1. 0 \in S BY <1>3, <1>8
  <2>2. ASSUME NEW n \in Nat, n \in S PROVE n + 1 \in S
    <3> SUFFICES ASSUME n + 1 <= Len(cs) PROVE L[n + 1] \in X OBVIOUS
    <3>1. n \in 0..(Len(cs) - 1) /\ n <= Len(cs) BY <1>1
    <3>2. L[n] \in X BY <2>2, <3>1
    <3>3. cs[n + 1] \in Commands /\ L[n + 1] = hwq(L[n], cs[n + 1]) BY <1>9, <3>1
    <3> QED BY <3>2, <3>3, Appended DEF X
  <2> HIDE DEF S
  <2>3. k \in S BY <1>1, <2>1, <2>2, Inductive
  <2> QED BY <1>1, <2>3 DEF S
<1>11. Written(cs) = Append(L[Len(cs)], CMD_STOP)
  BY Zenon DEF Written, L, WordsOf, IsList, hwq_stop
<1> QED BY <1>8, <1>9, <1>10, <1>11 DEF L, X

\* The words of the first commands are the beginning of those of all; a command
\* has at least one.
LEMMA ListBegins ==
  ASSUME NEW cs \in Seq(Commands), NEW k \in 0..Len(cs)
  PROVE  /\ Begins(WordsOf(cs)[k], WordsOf(cs)[Len(cs)])
         /\ Len(WordsOf(cs)[k]) \in Nat /\ k <= Len(WordsOf(cs)[k])
<1> DEFINE L == WordsOf(cs)
           n == Len(cs)
           S == {d \in Nat : d <= n => /\ Begins(L[n - d], L[n])}
           T == {j \in Nat : j <= n => j <= Len(L[j])}
<1>1. n \in Nat BY LenProperties
<1>2. \A j \in 0..n : L[j] \in Seq(CommandWords) /\ Len(L[j]) \in Nat
  <2>1. \A j \in 0..n : L[j] \in Seq(CommandWords) BY ListIs
  <2> HIDE DEF L, n
  <2> QED BY <2>1, LenProperties
<1>3. ASSUME NEW j \in 0..(n - 1)
      PROVE  Begins(L[j], L[j + 1]) /\ Len(L[j + 1]) >= Len(L[j]) + 1
  <2>1. j \in 0..n /\ j + 1 \in 0..n BY <1>1
  <2>2. cs[j + 1] \in Commands /\ L[j + 1] = hwq(L[j], cs[j + 1]) BY ListIs
  <2>3. L[j] \in Seq(CommandWords) BY <1>2, <2>1
  <2> HIDE DEF L, n
  <2>4. Begins(L[j], L[j + 1]) /\ Size(cs[j + 1]) \in 1..4
        /\ Len(L[j + 1]) = Len(L[j]) + Size(cs[j + 1])
    BY <2>2, <2>3, Appended
  <2> QED BY <1>2, <2>1, <2>4
<1> HIDE DEF L, n
<1>4. 0 \in S
  <2>1. n - 0 = n /\ n \in 0..n BY <1>1
  <2>2. Begins(L[n], L[n]) BY <1>2, <2>1 DEF Begins
  <2> QED BY <2>1, <2>2
<1>5. ASSUME NEW d \in Nat, d \in S PROVE d + 1 \in S
  <2> SUFFICES ASSUME d + 1 <= n PROVE Begins(L[n - (d + 1)], L[n]) OBVIOUS
  <2>1. n - (d + 1) \in 0..(n - 1) /\ (n - (d + 1)) + 1 = n - d /\ d <= n BY <1>1
  <2>2. Begins(L[n - (d + 1)], L[(n - (d + 1)) + 1]) BY <1>3, <2>1
  <2>3. Begins(L[n - d], L[n]) BY <1>5, <2>1
  <2> QED BY <2>1, <2>2, <2>3, BeginsOf
<1>6. 0 \in T
  <2>1. 0 \in 0..n BY <1>1
  <2> QED BY <1>2, <2>1
<1>7. ASSUME NEW j \in Nat, j \in T PROVE j + 1 \in T
  <2> SUFFICES ASSUME j + 1 <= n PROVE j + 1 <= Len(L[j + 1]) OBVIOUS
  <2>1. j \in 0..(n - 1) /\ j <= n /\ j + 1 \in 0..n /\ j \in 0..n BY <1>1
  <2>2. Len(L[j + 1]) >= Len(L[j]) + 1 BY <1>3, <2>1
  <2>3. Len(L[j]) \in Nat /\ Len(L[j + 1]) \in Nat BY <1>2, <2>1
  <2> QED BY <1>7, <2>1, <2>2, <2>3
<1> HIDE DEF S, T
<1>8. \A d \in Nat : d \in S BY <1>4, <1>5, Inductive
<1>9. \A j \in Nat : j \in T BY <1>6, <1>7, Inductive
<1>10. k \in Nat /\ n - k \in Nat /\ n - (n - k) = k /\ n - k <= n /\ k <= n /\ k \in 0..n
  BY <1>1 DEF n
<1>11. Begins(L[k], L[n])
  <2>1. n - k \in S BY <1>8, <1>10
  <2> QED BY <1>10, <2>1 DEF S
<1>12. k <= Len(L[k])
  BY <1>9, <1>10 DEF T
<1> QED BY <1>2, <1>10, <1>11, <1>12 DEF L, n

\* Where the words of a command are in the list, and what follows them: the
\* opcode of the next command or of the end.
LEMMA CommandAt ==
  ASSUME NEW cs \in Seq(Commands), NEW k \in 0..(Len(cs) - 1)
  PROVE  LET words == Written(cs)
             q == Len(WordsOf(cs)[k])
             r == Len(WordsOf(cs)[k + 1])
             c == cs[k + 1]
         IN /\ c \in Commands /\ q \in Nat /\ Size(c) \in 1..4 /\ r = q + Size(c)
            /\ r < Len(words)
            /\ Holds(words, q, c)
            /\ words[r + 1].hi # 15
<1> DEFINE L == WordsOf(cs)
           n == Len(cs)
           words == Written(cs)
           q == Len(L[k])
           r == Len(L[k + 1])
           c == cs[k + 1]
<1>1. n \in Nat BY LenProperties
<1>2. k \in 0..n /\ k + 1 \in 0..n /\ n \in 0..n BY <1>1
<1>3. c \in Commands /\ L[k + 1] = hwq(L[k], c) BY ListIs
<1>4. L[k] \in Seq(CommandWords) /\ L[n] \in Seq(CommandWords) BY <1>2, ListIs
<1>5. words = Append(L[n], CMD_STOP) BY ListIs
<1>6. Begins(L[k + 1], L[n])
  BY <1>2, ListBegins
<1> HIDE DEF L, n, words, c
<1>7. q \in Nat BY <1>4, LenProperties
<1>8. /\ Size(c) \in 1..4 /\ r = q + Size(c) /\ Begins(L[k], L[k + 1]) /\ Holds(L[k + 1], q, c)
  BY <1>3, <1>4, Appended
<1>9. /\ Len(words) = Len(L[n]) + 1 /\ words[Len(L[n]) + 1] = CMD_STOP /\ Begins(L[n], words)
  BY <1>4, <1>5, AppendedTo, WordsTyped
<1>10. Begins(L[k + 1], words)
  BY <1>6, <1>9, BeginsOf
<1>11. r < Len(words) /\ r <= Len(L[n]) /\ Len(L[n]) \in Nat
  BY <1>6, <1>9 DEF Begins
<1>12. Holds(words, q, c)
  <2>1. \A i \in 1..r : words[i] = L[k + 1][i] BY <1>10 DEF Begins
  <2> HIDE DEF q, r
  <2>2. q + 1 \in 1..r BY <1>7, <1>8
  <2>3. words[q + 1] = L[k + 1][q + 1] BY <2>1, <2>2
  <2>4. ASSUME c.op # "FILL"
        PROVE  words[q + 2] = L[k + 1][q + 2] /\ words[q + 3] = L[k + 1][q + 3]
    <3>1. Size(c) >= 3 BY <1>8, <2>4 DEF Size
    <3>2. q + 2 \in 1..r /\ q + 3 \in 1..r BY <1>7, <1>8, <3>1
    <3> QED BY <2>1, <3>2
  <2>5. ASSUME c.op \in {"ELIP", "RECT"}, ~ Lost(c)
        PROVE  words[q + 4] = L[k + 1][q + 4]
    <3>1. Size(c) = 4 BY <2>5 DEF Size
    <3>2. q + 4 \in 1..r BY <1>7, <1>8, <3>1
    <3> QED BY <2>1, <3>2
  <2> QED BY <1>8, <2>3, <2>4, <2>5 DEF Holds
<1>13. words[r + 1].hi # 15
  <2>1. CASE k + 1 = n
    <3>1. words[r + 1] = CMD_STOP BY <1>9, <2>1
    <3> QED BY <3>1 DEF CMD_STOP, CMD_orgb28, GOP
  <2>2. CASE k + 1 # n
    <3>1. k + 1 \in 0..(n - 1) /\ (k + 1) + 1 \in 0..n BY <1>1, <1>2, <2>2
    <3> DEFINE d == cs[(k + 1) + 1]
    <3>2. d \in Commands /\ L[(k + 1) + 1] = hwq(L[k + 1], d) BY <3>1, ListIs DEF L, n
    <3>3. L[k + 1] \in Seq(CommandWords) BY <1>2, ListIs DEF L, n
    <3> HIDE DEF d
    <3>4. /\ Size(d) \in 1..4 /\ Len(L[(k + 1) + 1]) = r + Size(d)
          /\ L[(k + 1) + 1][r + 1] = CMD_orgb28(d.op, d.rgb)
      BY <3>2, <3>3, Appended DEF Holds
    <3>5. Begins(L[(k + 1) + 1], words)
      <4>1. Begins(L[(k + 1) + 1], L[n]) BY <3>1, ListBegins DEF L, n
      <4> QED BY <4>1, <1>9, BeginsOf
    <3>6. r \in Nat BY <1>7, <1>8
    <3>7. words[r + 1] = CMD_orgb28(d.op, d.rgb)
      <4> HIDE DEF r
      <4>1. r + 1 \in 1..Len(L[(k + 1) + 1]) BY <3>4, <3>6
      <4> QED BY <3>4, <3>5, <4>1 DEF Begins
    <3>8. d.op \in DOMAIN GOP /\ d.rgb \in Rests BY <3>2 DEF Commands, GOP
    <3> QED BY <3>7, <3>8, OpcodeRead
  <2> QED BY <2>1, <2>2
<1> QED BY <1>3, <1>7, <1>8, <1>11, <1>12, <1>13 DEF L, words, c
-----------------------------------------------------------------------------
(* The turns of vizard_gpu_submit *)

\* Whatever may be read from the words, and the states of the loop.
Drawn(words) == {Read(words, i, op) : i \in Nat, op \in {"FILL", "LINE", "ELIP", "RECT", "STOP", "BAD"}}
SubmitStates(words) ==
  [index : Nat, drawn : Seq(Drawn(words)), state : {"ON", "DONE", "FAULT"}]
IsSubmit(words, f) ==
  f = [n \in 0..(Len(words) + 1) |->
         IF n = 0 THEN [index |-> 1, drawn |-> <<>>, state |-> "ON"]
         ELSE SubmitStep(words, f[n - 1])]
SubmitOf(words) == CHOOSE f : IsSubmit(words, f)

\* A turn leads to a state.
LEMMA SubmitStepTyped ==
  ASSUME NEW words, NEW p \in SubmitStates(words)
  PROVE  SubmitStep(words, p) \in SubmitStates(words)
<1> DEFINE op == OpcodeOf(words[p.index])
<1>1. p.index \in Nat /\ p.drawn \in Seq(Drawn(words))
  BY DEF SubmitStates
<1>2. op \in {"FILL", "LINE", "ELIP", "RECT", "STOP", "BAD"}
  <2>1. CASE \E o \in DOMAIN GOP : GOP[o] = words[p.index].hi
    <3>1. op \in DOMAIN GOP BY <2>1 DEF OpcodeOf
    <3> QED BY <3>1 DEF GOP
  <2>2. CASE ~ \E o \in DOMAIN GOP : GOP[o] = words[p.index].hi
    BY <2>2, Zenon DEF OpcodeOf
  <2> QED BY <2>1, <2>2
<1> HIDE DEF op
<1>3. Trailing(op) \in Nat
  BY DEF Trailing
<1>4. [p EXCEPT !.state = "FAULT"] \in SubmitStates(words)
      /\ [p EXCEPT !.state = "DONE"] \in SubmitStates(words)
  BY DEF SubmitStates
<1>5. Append(p.drawn, Read(words, p.index, op)) \in Seq(Drawn(words))
  <2>1. Read(words, p.index, op) \in Drawn(words) BY <1>1, <1>2 DEF Drawn
  <2> QED BY <1>1, <2>1, AppendProperties
<1>6. [index |-> p.index + 1 + Trailing(op),
       drawn |-> Append(p.drawn, Read(words, p.index, op)), state |-> "ON"]
        \in SubmitStates(words)
  BY <1>1, <1>3, <1>5 DEF SubmitStates
<1>7. SubmitStep(words, p) \in
        {p, [p EXCEPT !.state = "FAULT"], [p EXCEPT !.state = "DONE"],
         [index |-> p.index + 1 + Trailing(op),
          drawn |-> Append(p.drawn, Read(words, p.index, op)), state |-> "ON"]}
  BY Zenon DEF SubmitStep, op
<1> QED BY <1>4, <1>6, <1>7

\* The loop is these turns.
LEMMA SubmitIs ==
  ASSUME NEW words, Len(words) \in Nat
  PROVE  LET at == SubmitOf(words)
         IN /\ Submit(words) = at[Len(words) + 1]
            /\ at[0] = [index |-> 1, drawn |-> <<>>, state |-> "ON"]
            /\ \A k \in 0..Len(words) : at[k + 1] = SubmitStep(words, at[k])
            /\ \A k \in 0..(Len(words) + 1) : at[k] \in SubmitStates(words)
<1> DEFINE X == SubmitStates(words)
           n == Len(words) + 1
           start == [index |-> 1, drawn |-> <<>>, state |-> "ON"]
           Step == [k \in Nat |-> [p \in X |-> SubmitStep(words, p)]]
           at == SubmitOf(words)
<1>1. n \in Nat OBVIOUS
<1>2. start \in X /\ Step \in [Nat -> [X -> X]]
  <2>1. start \in X
    <3>1. <<>> \in Seq(Drawn(words)) BY EmptySeq
    <3> QED BY <3>1 DEF SubmitStates
  <2>2. \A p \in X : SubmitStep(words, p) \in X BY SubmitStepTyped
  <2> HIDE DEF X, start
  <2> QED BY <2>1, <2>2
<1>3. PICK g \in [0..n -> X] : FirstOf(g, n, start, Step)
  <2> HIDE DEF X, Step, start, n
  <2> QED BY <1>1, <1>2, FirstTurns
<1>4. IsSubmit(words, g)
  <2>1. ASSUME NEW i \in 0..n
        PROVE  g[i] = IF i = 0 THEN start ELSE SubmitStep(words, g[i - 1])
    <3>1. g[i] = IF i = 0 THEN start ELSE Step[i][g[i - 1]]
      <4> HIDE DEF Step, start, n
      <4> QED BY <1>3 DEF FirstOf
    <3>2. CASE i = 0
      <4> HIDE DEF start
      <4> QED BY <3>1, <3>2
    <3>3. CASE i # 0
      <4>1. i \in Nat /\ i - 1 \in 0..n BY <1>1, <3>3
      <4>2. g[i - 1] \in X
        <5> HIDE DEF X, n
        <5> QED BY <4>1
      <4>3. Step[i][g[i - 1]] = SubmitStep(words, g[i - 1])
        <5> HIDE DEF X, n
        <5> QED BY <4>1, <4>2
      <4> HIDE DEF start
      <4> QED BY <3>1, <3>3, <4>3
    <3> QED BY <3>2, <3>3
  <2>2. g = [i \in 0..n |-> IF i = 0 THEN start ELSE SubmitStep(words, g[i - 1])]
    <3> HIDE DEF X, Step, start
    <3> QED BY <2>1, Zenon
  <2> QED BY <2>2, Zenon DEF IsSubmit
<1>5. IsSubmit(words, at)
  BY <1>4, Zenon DEF SubmitOf
<1> HIDE DEF at, X, Step
<1>6. ASSUME NEW i \in 0..n
      PROVE  at[i] = IF i = 0 THEN start ELSE SubmitStep(words, at[i - 1])
  <2> HIDE DEF start
  <2>1. at = [k \in 0..n |-> IF k = 0 THEN start ELSE SubmitStep(words, at[k - 1])]
    BY <1>5, Zenon DEF IsSubmit, start
  <2> HIDE DEF n
  <2> QED BY <2>1, Zenon
<1>7. at[0] = start BY <1>1, <1>6
<1>8. ASSUME NEW k \in 0..Len(words) PROVE at[k + 1] = SubmitStep(words, at[k])
  <2>1. k + 1 \in 0..n /\ k + 1 # 0 /\ (k + 1) - 1 = k OBVIOUS
  <2> HIDE DEF start, n
  <2> QED BY <1>6, <2>1
<1>9. ASSUME NEW k \in 0..n PROVE at[k] \in X
  <2> DEFINE S == {j \in Nat : j <= n => at[j] \in X}
  <2> HIDE DEF start
  <2>1. 0 \in S BY <1>2, <1>7
  <2>2. ASSUME NEW j \in Nat, j \in S PROVE j + 1 \in S
    <3> SUFFICES ASSUME j + 1 <= n PROVE at[j + 1] \in X OBVIOUS
    <3>1. j \in 0..Len(words) /\ j <= n OBVIOUS
    <3>2. at[j] \in X BY <2>2, <3>1
    <3>3. at[j + 1] = SubmitStep(words, at[j]) BY <1>8, <3>1
    <3> QED BY <3>2, <3>3, SubmitStepTyped DEF X
  <2> HIDE DEF S
  <2>3. k \in S BY <1>1, <2>1, <2>2, Inductive
  <2> QED BY <1>1, <2>3 DEF S
<1>10. Submit(words) = at[n]
  BY Zenon DEF Submit, at, SubmitOf, IsSubmit
<1> QED BY <1>7, <1>8, <1>9, <1>10 DEF at, X

\* A loop that has ended stays so.
LEMMA SubmitEnds ==
  ASSUME NEW words, Len(words) \in Nat, NEW m \in 0..(Len(words) + 1),
         SubmitOf(words)[m].state # "ON"
  PROVE  Submit(words) = SubmitOf(words)[m]
<1> DEFINE at == SubmitOf(words)
           n == Len(words) + 1
           S == {d \in Nat : m + d <= n => at[m + d] = at[m]}
<1>1. n \in Nat /\ m \in Nat /\ m <= n OBVIOUS
<1>2. /\ Submit(words) = at[n]
      /\ \A k \in 0..Len(words) : at[k + 1] = SubmitStep(words, at[k])
  BY SubmitIs
<1> HIDE DEF at
<1>3. 0 \in S BY <1>1
<1>4. ASSUME NEW d \in Nat, d \in S PROVE d + 1 \in S
  <2> SUFFICES ASSUME m + (d + 1) <= n PROVE at[m + (d + 1)] = at[m] OBVIOUS
  <2>1. m + d \in 0..Len(words) /\ m + (d + 1) = (m + d) + 1 /\ m + d <= n BY <1>1
  <2>2. at[m + d] = at[m] BY <1>4, <2>1
  <2>3. at[(m + d) + 1] = SubmitStep(words, at[m]) BY <1>2, <2>1, <2>2
  <2>4. at[m].state # "ON" BY DEF at
  <2>5. SubmitStep(words, at[m]) = at[m] BY <2>4, Zenon DEF SubmitStep
  <2> QED BY <2>1, <2>3, <2>5
<1> HIDE DEF S
<1>5. n - m \in Nat /\ m + (n - m) = n BY <1>1
<1>6. n - m \in S BY <1>3, <1>4, <1>5, Inductive
<1> QED BY <1>1, <1>2, <1>5, <1>6 DEF S, at

\* A command is read as it was written, but for a fill color without a word: the
\* opcode that follows is read instead.
LEMMA CommandRead ==
  ASSUME NEW cs \in Seq(Commands), NEW k \in 0..(Len(cs) - 1)
  PROVE  LET words == Written(cs)
             q == Len(WordsOf(cs)[k])
             c == cs[k + 1]
         IN /\ OpcodeOf(words[q + 1]) = c.op /\ c.op \in {"FILL", "LINE", "ELIP", "RECT"}
            /\ Size(c) = IF Lost(c) THEN Trailing(c.op) ELSE 1 + Trailing(c.op)
            /\ Read(words, q + 1, c.op) = c <=> ~ Lost(c)
<1> DEFINE words == Written(cs)
           q == Len(WordsOf(cs)[k])
           r == Len(WordsOf(cs)[k + 1])
           c == cs[k + 1]
<1>1. /\ c \in Commands /\ q \in Nat /\ Size(c) \in 1..4 /\ r = q + Size(c)
      /\ Holds(words, q, c) /\ words[r + 1].hi # 15
  BY CommandAt
<1> HIDE DEF words, q, r, c
<1>2. c.op \in {"FILL", "LINE", "ELIP", "RECT"} /\ c.op \in DOMAIN GOP /\ c.rgb \in Rests
  BY <1>1 DEF Commands, GOP
<1>3. OpcodeOf(words[q + 1]) = c.op /\ words[q + 1].rest = c.rgb
  BY <1>1, <1>2, OpcodeRead DEF Holds
<1>4. Size(c) = IF Lost(c) THEN Trailing(c.op) ELSE 1 + Trailing(c.op)
  BY <1>2 DEF Size, Trailing, Lost
<1>5. CASE c.op = "FILL"
  <2>1. Read(words, q + 1, c.op) = Fill(c.rgb) BY <1>3, <1>5, Zenon DEF Read
  <2>2. c = Fill(c.rgb) BY <1>1, <1>5 DEF Commands, Fill
  <2>3. ~ Lost(c) BY <1>5 DEF Lost
  <2> QED BY <1>2, <1>3, <1>4, <2>1, <2>2, <2>3 DEF words, q, c
<1>6. CASE c.op # "FILL"
  <2>1. c.x0 \in Coordinates /\ c.y0 \in Coordinates /\ c.x1 \in Coordinates /\ c.y1 \in Coordinates
    BY <1>1, <1>6 DEF Commands
  <2>2. words[q + 2].rest = <<c.x0, c.y0>> /\ words[q + 3].rest = <<c.x1, c.y1>>
    BY <1>1, <1>6, <2>1, WordsTyped DEF Holds
  <2>3. q + 1 + 1 = q + 2 /\ q + 1 + 2 = q + 3 /\ q + 1 + 3 = q + 4 BY <1>1
  <2>4. CASE c.op = "LINE"
    <3>1. Read(words, q + 1, c.op) = Line(c.rgb, <<c.x0, c.y0>>, <<c.x1, c.y1>>)
      BY <1>3, <1>6, <2>2, <2>3, <2>4, Zenon DEF Read
    <3>2. c = Line(c.rgb, <<c.x0, c.y0>>, <<c.x1, c.y1>>)
      BY <1>1, <2>4 DEF Commands, Line
    <3>3. ~ Lost(c) BY <2>4 DEF Lost
    <3> QED BY <1>2, <1>3, <1>4, <3>1, <3>2, <3>3 DEF words, q, c
  <2>5. CASE c.op # "LINE"
    <3>1. Read(words, q + 1, c.op)
            = Filled(c.op, c.rgb, <<c.x0, c.y0>>, <<c.x1, c.y1>>, words[q + 4])
      BY <1>3, <1>6, <2>2, <2>3, <2>5, Zenon DEF Read
    <3>2. c = Filled(c.op, c.rgb, <<c.x0, c.y0>>, <<c.x1, c.y1>>, c.fill)
      BY <1>1, <1>6, <2>5 DEF Commands, Filled
    <3>3. c.op \in {"ELIP", "RECT"} BY <1>2, <1>6, <2>5
    <3>4. CASE Lost(c)
      <4>1. Size(c) = 3 BY <1>6, <3>4 DEF Size
      <4>2. words[q + 4].hi # 15
        <5>1. r + 1 = q + 4 BY <1>1, <4>1
        <5> QED BY <1>1, <5>1
      <4>3. c.fill.hi = 15 BY <3>4 DEF Lost, null_xrgb32
      <4>4. Read(words, q + 1, c.op).fill = words[q + 4] BY <3>1 DEF Filled
      <4>5. Read(words, q + 1, c.op) # c BY <4>2, <4>3, <4>4
      <4> QED BY <1>2, <1>3, <1>4, <3>4, <4>5 DEF words, q, c
    <3>5. CASE ~ Lost(c)
      <4>1. words[q + 4] = c.fill BY <1>1, <3>3, <3>5 DEF Holds
      <4>2. Read(words, q + 1, c.op) = c BY <3>1, <3>2, <4>1
      <4> QED BY <1>2, <1>3, <1>4, <3>5, <4>2 DEF words, q, c
    <3> QED BY <3>4, <3>5
  <2> QED BY <2>4, <2>5
<1> QED BY <1>5, <1>6

\* A turn of vizard_gpu_submit at the first word of a command.
LEMMA SubmitTurn ==
  ASSUME NEW cs \in Seq(Commands), NEW k \in 0..(Len(cs) - 1),
         NEW p \in SubmitStates(Written(cs)),
         p.state = "ON", p.index = Len(WordsOf(cs)[k]) + 1
  PROVE  LET next == SubmitStep(Written(cs), p)
         IN /\ ~ Lost(cs[k + 1]) =>
                 next = [index |-> Len(WordsOf(cs)[k + 1]) + 1,
                         drawn |-> Append(p.drawn, cs[k + 1]), state |-> "ON"]
            /\ Lost(cs[k + 1]) =>
                 \/ next.state = "FAULT"
                 \/ \E d : d # cs[k + 1] /\ next.drawn = Append(p.drawn, d)
<1> DEFINE words == Written(cs)
           q == Len(WordsOf(cs)[k])
           r == Len(WordsOf(cs)[k + 1])
           c == cs[k + 1]
           d == Read(words, q + 1, c.op)
           next == SubmitStep(words, p)
<1>1. /\ c \in Commands /\ q \in Nat /\ Size(c) \in 1..4 /\ r = q + Size(c) /\ r < Len(words)
  BY CommandAt
<1>2. /\ OpcodeOf(words[q + 1]) = c.op /\ c.op \in {"FILL", "LINE", "ELIP", "RECT"}
      /\ Size(c) = IF Lost(c) THEN Trailing(c.op) ELSE 1 + Trailing(c.op)
      /\ d = c <=> ~ Lost(c)
  BY CommandRead
<1>3. p.state = "ON" /\ p.index = q + 1
  OBVIOUS
<1>4. Len(words) \in Nat
  <2>1. Len(cs) \in 0..Len(cs) /\ WordsOf(cs)[Len(cs)] \in Seq(CommandWords)
    <3>1. Len(cs) \in Nat BY LenProperties
    <3>2. Len(cs) \in 0..Len(cs) BY <3>1
    <3> QED BY <3>2, ListIs
  <2>2. words = Append(WordsOf(cs)[Len(cs)], CMD_STOP) BY ListIs
  <2>3. words \in Seq(CommandWords) BY <2>1, <2>2, AppendedTo, WordsTyped
  <2> HIDE DEF words
  <2> QED BY <2>3, LenProperties
<1> HIDE DEF words, q, r, c, d
<1>5. Trailing(c.op) \in Nat /\ Size(c) \in Nat BY <1>1 DEF Trailing
<1>6. next = IF q + 1 + Trailing(c.op) > Len(words) THEN [p EXCEPT !.state = "FAULT"]
             ELSE [index |-> q + 1 + 1 + Trailing(c.op), drawn |-> Append(p.drawn, d),
                   state |-> "ON"]
  <2>1. ~ (q + 1 > Len(words)) BY <1>1, <1>4, <1>5
  <2>2. c.op # "STOP" /\ c.op # "BAD" BY <1>2
  <2> QED BY <1>2, <1>3, <2>1, <2>2, Zenon DEF SubmitStep, d
<1> HIDE DEF next
<1>7. CASE ~ Lost(c)
  <2>1. Size(c) = 1 + Trailing(c.op) /\ d = c BY <1>2, <1>7
  <2>2. q + 1 + Trailing(c.op) = r /\ q + 1 + 1 + Trailing(c.op) = r + 1
        /\ ~ (q + 1 + Trailing(c.op) > Len(words))
    BY <1>1, <1>4, <1>5, <2>1
  <2>3. next = [index |-> r + 1, drawn |-> Append(p.drawn, c), state |-> "ON"]
    BY <1>6, <2>1, <2>2, Zenon
  <2> QED BY <1>7, <2>3, Zenon DEF words, r, c, next
<1>8. CASE Lost(c)
  <2>1. d # c BY <1>2, <1>8
  <2>2. next.state = "FAULT" \/ next.drawn = Append(p.drawn, d)
    <3>1. CASE q + 1 + Trailing(c.op) > Len(words)
      <4>1. next = [p EXCEPT !.state = "FAULT"] BY <1>6, <3>1, Zenon
      <4>2. [p EXCEPT !.state = "FAULT"].state = "FAULT" BY DEF SubmitStates
      <4> QED BY <4>1, <4>2
    <3>2. CASE ~ (q + 1 + Trailing(c.op) > Len(words))
      <4>1. next = [index |-> q + 1 + 1 + Trailing(c.op), drawn |-> Append(p.drawn, d),
                    state |-> "ON"]
        BY <1>6, <3>2, Zenon
      <4> QED BY <4>1
    <3> QED BY <3>1, <3>2
  <2> QED BY <1>8, <2>1, <2>2, Zenon DEF words, c, next
<1> QED BY <1>7, <1>8

\* The words of a list are a sequence.
LEMMA WrittenTyped ==
  ASSUME NEW cs \in Seq(Commands)
  PROVE  /\ Len(cs) \in Nat /\ Len(Written(cs)) \in Nat
         /\ Len(WordsOf(cs)[Len(cs)]) \in Nat
         /\ Len(Written(cs)) = Len(WordsOf(cs)[Len(cs)]) + 1
         /\ Written(cs)[Len(Written(cs))] = CMD_STOP
         /\ Len(cs) < Len(Written(cs))
<1>1. Len(cs) \in Nat BY LenProperties
<1>2. Len(cs) \in 0..Len(cs) BY <1>1
<1> DEFINE b == WordsOf(cs)[Len(cs)]
<1>3. b \in Seq(CommandWords) /\ Written(cs) = Append(b, CMD_STOP) BY <1>2, ListIs
<1>4. Len(cs) <= Len(b) BY <1>2, ListBegins
<1> HIDE DEF b
<1>5. Len(b) \in Nat BY <1>3, LenProperties
<1>6. Len(Written(cs)) = Len(b) + 1 /\ Written(cs)[Len(b) + 1] = CMD_STOP
  BY <1>3, AppendedTo, WordsTyped
<1> QED BY <1>1, <1>4, <1>5, <1>6 DEF b

\* As long as no command has a fill color without a word, what has been drawn
\* is what was written, and the next word is the opcode of the next command.
LEMMA ReadSoFar ==
  ASSUME NEW cs \in Seq(Commands), NEW k \in 0..Len(cs), \A i \in 1..k : ~ Lost(cs[i])
  PROVE  LET p == SubmitOf(Written(cs))[k]
         IN /\ p \in SubmitStates(Written(cs))
            /\ p.state = "ON" /\ p.index = Len(WordsOf(cs)[k]) + 1
            /\ Len(p.drawn) = k /\ \A i \in 1..k : p.drawn[i] = cs[i]
<1> DEFINE words == Written(cs)
           at == SubmitOf(words)
           L == WordsOf(cs)
           D == Drawn(words)
           S == {j \in Nat : j <= k =>
                   /\ at[j].state = "ON" /\ at[j].index = Len(L[j]) + 1
                   /\ Len(at[j].drawn) = j /\ \A i \in 1..j : at[j].drawn[i] = cs[i]}
<1>1. Len(cs) \in Nat /\ Len(words) \in Nat /\ Len(cs) < Len(words) BY WrittenTyped
<1>2. k \in Nat /\ k <= Len(cs) BY <1>1
<1>3. /\ at[0] = [index |-> 1, drawn |-> <<>>, state |-> "ON"]
      /\ \A j \in 0..Len(words) : at[j + 1] = SubmitStep(words, at[j])
      /\ \A j \in 0..(Len(words) + 1) : at[j] \in SubmitStates(words)
  <2> HIDE DEF words
  <2> QED BY <1>1, SubmitIs
<1>4. Len(L[0]) = 0
  <2>1. L[0] = <<>> BY ListIs
  <2> HIDE DEF L
  <2> QED BY <2>1
<1>5. \A j \in 0..(k - 1) :
        LET p == at[j]
        IN p.state = "ON" /\ p.index = Len(L[j]) + 1 =>
             at[j + 1] = [index |-> Len(L[j + 1]) + 1, drawn |-> Append(p.drawn, cs[j + 1]),
                          state |-> "ON"]
  <2> SUFFICES ASSUME NEW j \in 0..(k - 1), at[j].state = "ON", at[j].index = Len(L[j]) + 1
               PROVE  at[j + 1] = [index |-> Len(L[j + 1]) + 1,
                                   drawn |-> Append(at[j].drawn, cs[j + 1]), state |-> "ON"]
    BY Zenon
  <2>1. j \in 0..(Len(cs) - 1) /\ j \in 0..Len(words) /\ j \in 0..(Len(words) + 1)
        /\ j + 1 \in 1..k
    BY <1>1, <1>2
  <2>2. at[j] \in SubmitStates(words) /\ at[j + 1] = SubmitStep(words, at[j]) BY <1>3, <2>1
  <2>3. ~ Lost(cs[j + 1]) BY <2>1
  <2>4. SubmitStep(words, at[j])
          = [index |-> Len(L[j + 1]) + 1, drawn |-> Append(at[j].drawn, cs[j + 1]), state |-> "ON"]
    <3> DEFINE p == at[j]
    <3>1. p \in SubmitStates(Written(cs)) /\ p.state = "ON" /\ p.index = Len(WordsOf(cs)[j]) + 1
      BY <2>2
    <3> HIDE DEF p
    <3>2. SubmitStep(Written(cs), p)
            = [index |-> Len(WordsOf(cs)[j + 1]) + 1, drawn |-> Append(p.drawn, cs[j + 1]),
               state |-> "ON"]
      BY <2>1, <2>3, <3>1, SubmitTurn
    <3> QED BY <3>2 DEF p
  <2> QED BY <2>2, <2>4
<1>6. 0 \in S BY <1>3, <1>4
<1>7. ASSUME NEW j \in Nat, j \in S PROVE j + 1 \in S
  <2> SUFFICES ASSUME j + 1 <= k
               PROVE  /\ at[j + 1].state = "ON" /\ at[j + 1].index = Len(L[j + 1]) + 1
                      /\ Len(at[j + 1].drawn) = j + 1
                      /\ \A i \in 1..(j + 1) : at[j + 1].drawn[i] = cs[i]
    OBVIOUS
  <2>1. j \in 0..(k - 1) /\ j <= k /\ j \in 0..(Len(words) + 1) /\ j + 1 \in 1..Len(cs)
        /\ j + 1 \in 0..(Len(words) + 1)
    BY <1>1, <1>2
  <2> HIDE DEF at, L, words
  <2>2. /\ at[j].state = "ON" /\ at[j].index = Len(L[j]) + 1
        /\ Len(at[j].drawn) = j /\ \A i \in 1..j : at[j].drawn[i] = cs[i]
    BY <1>7, <2>1
  <2>3. at[j + 1] = [index |-> Len(L[j + 1]) + 1, drawn |-> Append(at[j].drawn, cs[j + 1]),
                     state |-> "ON"]
    BY <1>5, <2>1, <2>2
  <2>4. at[j].drawn \in Seq(D)
    BY <1>3, <2>1 DEF SubmitStates
  <2>5. at[j + 1].drawn = Append(at[j].drawn, cs[j + 1]) BY <2>3
  <2>6. cs[j + 1] \in Commands BY <2>1, ElementOfSeq
  <2> DEFINE T == D \union Commands
  <2>7. at[j].drawn \in Seq(T) /\ cs[j + 1] \in T
    <3>1. D \subseteq T OBVIOUS
    <3> HIDE DEF D, T
    <3>2. at[j].drawn \in Seq(T) BY <2>4, <3>1, SeqMonotonic
    <3> QED BY <3>2, <2>6 DEF T
  <2> HIDE DEF T, D
  <2>8. /\ Len(at[j + 1].drawn) = j + 1 /\ at[j + 1].drawn[j + 1] = cs[j + 1]
        /\ \A i \in 1..j : at[j + 1].drawn[i] = at[j].drawn[i]
    BY <2>2, <2>5, <2>7, AppendProperties
  <2> QED BY <2>2, <2>3, <2>8
<1> HIDE DEF S
<1>8. k \in S BY <1>2, <1>6, <1>7, Inductive
<1>9. k \in 0..(Len(words) + 1) BY <1>1, <1>2
<1>10. at[k] \in SubmitStates(words) BY <1>3, <1>9
<1> QED BY <1>2, <1>8, <1>10 DEF S

\* A list without such a color is drawn to its end.
LEMMA AllRead ==
  ASSUME NEW cs \in Seq(Commands), \A i \in 1..Len(cs) : ~ Lost(cs[i])
  PROVE  Submit(Written(cs)).drawn = cs /\ Submit(Written(cs)).state = "DONE"
<1> DEFINE words == Written(cs)
           n == Len(cs)
           p == SubmitOf(words)[n]
<1>1. /\ n \in Nat /\ Len(words) \in Nat /\ n < Len(words) /\ words[Len(words)] = CMD_STOP
      /\ Len(words) = Len(WordsOf(cs)[n]) + 1
  BY WrittenTyped
<1>2. n \in 0..n /\ n \in 0..Len(words) /\ n + 1 \in 0..(Len(words) + 1) BY <1>1
<1>3. /\ p \in SubmitStates(words) /\ p.state = "ON" /\ p.index = Len(words)
      /\ Len(p.drawn) = n /\ \A i \in 1..n : p.drawn[i] = cs[i]
  <2>1. /\ p \in SubmitStates(words) /\ p.state = "ON" /\ p.index = Len(WordsOf(cs)[n]) + 1
        /\ Len(p.drawn) = n /\ \A i \in 1..n : p.drawn[i] = cs[i]
    BY <1>2, ReadSoFar
  <2> QED BY <1>1, <2>1
<1>4. SubmitOf(words)[n + 1] = SubmitStep(words, p)
  <2> HIDE DEF words, n
  <2> QED BY <1>1, <1>2, SubmitIs DEF p
<1>5. OpcodeOf(CMD_STOP) = "STOP"
  <2>1. "STOP" \in DOMAIN GOP /\ <<0, 0>> \in Rests BY DEF GOP, Rests
  <2> QED BY <2>1, OpcodeRead DEF CMD_STOP
<1> HIDE DEF words, p
<1>6. SubmitStep(words, p) = [p EXCEPT !.state = "DONE"]
  <2>1. ~ (Len(words) > Len(words)) BY <1>1
  <2> QED BY <1>1, <1>3, <1>5, <2>1, Zenon DEF SubmitStep
<1>7. SubmitStep(words, p).drawn = p.drawn /\ SubmitStep(words, p).state = "DONE"
  BY <1>3, <1>6 DEF SubmitStates
<1>8. Submit(words) = SubmitStep(words, p)
  <2>1. SubmitOf(words)[n + 1].state # "ON" BY <1>4, <1>7
  <2> HIDE DEF n
  <2> QED BY <1>1, <1>2, <1>4, <2>1, SubmitEnds
<1>9. p.drawn = cs
  <2> DEFINE T == Drawn(words) \union Commands
  <2>1. p.drawn \in Seq(Drawn(words)) BY <1>3 DEF SubmitStates
  <2>2. Drawn(words) \subseteq T /\ Commands \subseteq T OBVIOUS
  <2> HIDE DEF T
  <2>3. p.drawn \in Seq(T) /\ cs \in Seq(T) BY <2>1, <2>2, SeqMonotonic
  <2> QED BY <1>3, <2>3, SeqEqual
<1> QED BY <1>7, <1>8, <1>9 DEF words

\* What has been drawn stays drawn.
LEMMA DrawnStays ==
  ASSUME NEW words, Len(words) \in Nat, NEW m \in 0..(Len(words) + 1)
  PROVE  Begins(SubmitOf(words)[m].drawn, Submit(words).drawn)
<1> DEFINE at == SubmitOf(words)
           n == Len(words) + 1
           S == {d \in Nat : m + d <= n => Begins(at[m].drawn, at[m + d].drawn)}
<1>1. n \in Nat /\ m \in Nat /\ m <= n OBVIOUS
<1>2. /\ Submit(words) = at[n]
      /\ \A k \in 0..Len(words) : at[k + 1] = SubmitStep(words, at[k])
      /\ \A k \in 0..n : at[k] \in SubmitStates(words)
  BY SubmitIs
<1> HIDE DEF at
<1>3. ASSUME NEW p \in SubmitStates(words)
      PROVE  Begins(p.drawn, p.drawn) /\ Begins(p.drawn, SubmitStep(words, p).drawn)
  <2> DEFINE op == OpcodeOf(words[p.index])
             D == Drawn(words) \union {Read(words, p.index, op)}
  <2>1. p.drawn \in Seq(D)
    <3>1. p.drawn \in Seq(Drawn(words)) /\ Drawn(words) \subseteq D BY DEF SubmitStates
    <3> HIDE DEF D
    <3> QED BY <3>1, SeqMonotonic
  <2>2. Read(words, p.index, op) \in D OBVIOUS
  <2> HIDE DEF D, op
  <2>3. Len(p.drawn) \in Nat BY <2>1, LenProperties
  <2>4. Begins(p.drawn, p.drawn) BY <2>3 DEF Begins
  <2>5. Begins(p.drawn, Append(p.drawn, Read(words, p.index, op)))
    <3>1. /\ Len(Append(p.drawn, Read(words, p.index, op))) = Len(p.drawn) + 1
          /\ \A i \in 1..Len(p.drawn) :
               Append(p.drawn, Read(words, p.index, op))[i] = p.drawn[i]
      BY <2>1, <2>2, AppendProperties
    <3> QED BY <2>3, <3>1 DEF Begins
  <2>6. SubmitStep(words, p) \in
          {p, [p EXCEPT !.state = "FAULT"], [p EXCEPT !.state = "DONE"],
           [index |-> p.index + 1 + Trailing(op),
            drawn |-> Append(p.drawn, Read(words, p.index, op)), state |-> "ON"]}
    BY Zenon DEF SubmitStep, op
  <2>7. SubmitStep(words, p).drawn \in {p.drawn, Append(p.drawn, Read(words, p.index, op))}
    BY <2>6 DEF SubmitStates
  <2> QED BY <2>4, <2>5, <2>7
<1>4. 0 \in S
  <2>1. m + 0 = m /\ m \in 0..n BY <1>1
  <2> QED BY <1>2, <1>3, <2>1
<1>5. ASSUME NEW d \in Nat, d \in S PROVE d + 1 \in S
  <2> SUFFICES ASSUME m + (d + 1) <= n PROVE Begins(at[m].drawn, at[m + (d + 1)].drawn) OBVIOUS
  <2>1. m + d \in 0..Len(words) /\ m + (d + 1) = (m + d) + 1 /\ m + d <= n /\ m + d \in 0..n
    BY <1>1
  <2>2. Begins(at[m].drawn, at[m + d].drawn) BY <1>5, <2>1
  <2>3. Begins(at[m + d].drawn, at[(m + d) + 1].drawn) BY <1>2, <1>3, <2>1
  <2>4. Begins(at[m].drawn, at[(m + d) + 1].drawn) BY <2>2, <2>3, BeginsOf
  <2> QED BY <2>1, <2>4
<1> HIDE DEF S
<1>6. n - m \in Nat /\ m + (n - m) = n BY <1>1
<1>7. n - m \in S BY <1>4, <1>5, <1>6, Inductive
<1> QED BY <1>1, <1>2, <1>6, <1>7 DEF S, at

\* A list with such a color is refused or something else is drawn: what follows
\* is taken for the color.
LEMMA LostSpoils ==
  ASSUME NEW cs \in Seq(Commands), \E i \in 1..Len(cs) : Lost(cs[i])
  PROVE  ~ (Submit(Written(cs)).drawn = cs /\ Submit(Written(cs)).state = "DONE")
<1> DEFINE words == Written(cs)
           n == Len(cs)
           I == {i \in 1..n : Lost(cs[i])}
<1>1. n \in Nat /\ Len(words) \in Nat /\ n < Len(words) BY WrittenTyped
<1>2. PICK i \in I : \A j \in I : i <= j
  <2>1. I \in SUBSET Nat /\ I # {} BY <1>1
  <2> HIDE DEF I
  <2> QED BY <2>1, LeastNumber
<1> DEFINE k == i - 1
           p == SubmitOf(words)[k]
<1>3. /\ k \in 0..(n - 1) /\ k \in 0..n /\ k \in 0..Len(words) /\ k + 1 \in 0..(Len(words) + 1)
      /\ k + 1 = i /\ Lost(cs[k + 1])
  BY <1>1, <1>2
<1>4. \A j \in 1..k : ~ Lost(cs[j])
  BY <1>1, <1>2
<1> HIDE DEF k, I
<1>5. /\ p \in SubmitStates(words) /\ p.state = "ON" /\ p.index = Len(WordsOf(cs)[k]) + 1
      /\ Len(p.drawn) = k
  BY <1>3, <1>4, ReadSoFar
<1> DEFINE next == SubmitStep(words, p)
<1>6. SubmitOf(words)[k + 1] = next
  <2> HIDE DEF words, n
  <2> QED BY <1>1, <1>3, SubmitIs DEF p
<1>7. next.state = "FAULT" \/ \E d : d # cs[k + 1] /\ next.drawn = Append(p.drawn, d)
  <2> HIDE DEF p
  <2> QED BY <1>3, <1>5, SubmitTurn
<1> HIDE DEF p, words, next, n
<1>8. CASE next.state = "FAULT"
  <2>1. SubmitOf(words)[k + 1].state # "ON" BY <1>6, <1>8
  <2>2. Submit(words) = next BY <1>1, <1>3, <1>6, <2>1, SubmitEnds
  <2> QED BY <1>8, <2>2 DEF words
<1>9. CASE \E d : d # cs[k + 1] /\ next.drawn = Append(p.drawn, d)
  <2>1. PICK d : d # cs[k + 1] /\ next.drawn = Append(p.drawn, d) BY <1>9
  <2> DEFINE D == Drawn(words) \union {d}
  <2>2. p.drawn \in Seq(D) /\ d \in D
    <3>1. p.drawn \in Seq(Drawn(words)) /\ Drawn(words) \subseteq D BY <1>5 DEF SubmitStates
    <3> HIDE DEF D
    <3>2. p.drawn \in Seq(D) BY <3>1, SeqMonotonic
    <3> QED BY <3>2 DEF D
  <2> HIDE DEF D
  <2>3. Len(next.drawn) = k + 1 /\ next.drawn[k + 1] = d
    BY <1>5, <2>1, <2>2, AppendProperties
  <2>4. Begins(next.drawn, Submit(words).drawn)
    BY <1>1, <1>3, <1>6, DrawnStays
  <2>5. Submit(words).drawn[k + 1] = d
    <3>1. k + 1 \in 1..(k + 1) BY <1>3
    <3> QED BY <2>3, <2>4, <3>1 DEF Begins
  <2>6. Submit(words).drawn # cs BY <2>1, <2>5
  <2> QED BY <2>6 DEF words
<1> QED BY <1>7, <1>8, <1>9
-----------------------------------------------------------------------------
(* The turns of vizard_gpu_stream_word_count *)

CountStates == [index : Nat, state : {"ON", "NO", "END"}]
IsCount(words, max, f) ==
  f = [i \in 0..max |-> IF i = 0 THEN [index |-> 0, state |-> "ON"]
                        ELSE CountStep(words, max, f[i - 1])]
CountOf(words, max) == CHOOSE f : IsCount(words, max, f)

\* The loop is its turns.
LEMMA CountIs ==
  ASSUME NEW words, NEW max \in Nat
  PROVE  LET at == CountOf(words, max)
         IN /\ WordCount(words, max) = (IF at[max].state = "END" THEN at[max].index ELSE 0)
            /\ at[0] = [index |-> 0, state |-> "ON"]
            /\ \A k \in 0..(max - 1) : at[k + 1] = CountStep(words, max, at[k])
<1> DEFINE X == CountStates
           start == [index |-> 0, state |-> "ON"]
           Step == [k \in Nat |-> [p \in X |-> CountStep(words, max, p)]]
           at == CountOf(words, max)
<1>1. start \in X BY DEF CountStates
<1>2. ASSUME NEW p \in X PROVE CountStep(words, max, p) \in X
  <2> DEFINE op == OpcodeOf(words[p.index + 1])
             after == p.index + 1
             ends == words[after] = CMD_STOP
  <2>1. p.index \in Nat /\ after \in Nat /\ after + Trailing(op) \in Nat
    BY DEF CountStates, Trailing
  <2>2. CountStep(words, max, p) \in
          {p, [index |-> p.index, state |-> "NO"], [index |-> after, state |-> "NO"],
           [index |-> after, state |-> IF ends THEN "END" ELSE "NO"],
           [index |-> after + Trailing(op), state |-> "ON"]}
    BY Zenon DEF CountStep
  <2> HIDE DEF after, op, ends
  <2> QED BY <2>1, <2>2 DEF CountStates
<1>3. Step \in [Nat -> [X -> X]]
  <2> HIDE DEF X
  <2> QED BY <1>2
<1>4. PICK g \in [0..max -> X] : FirstOf(g, max, start, Step)
  <2> HIDE DEF X, Step, start
  <2> QED BY <1>1, <1>3, FirstTurns
<1>5. IsCount(words, max, g)
  <2>1. ASSUME NEW i \in 0..max
        PROVE  g[i] = IF i = 0 THEN start ELSE CountStep(words, max, g[i - 1])
    <3>1. g[i] = IF i = 0 THEN start ELSE Step[i][g[i - 1]]
      <4> HIDE DEF Step, start
      <4> QED BY <1>4 DEF FirstOf
    <3>2. CASE i = 0
      <4> HIDE DEF start
      <4> QED BY <3>1, <3>2
    <3>3. CASE i # 0
      <4>1. i \in Nat /\ i - 1 \in 0..max BY <3>3
      <4>2. g[i - 1] \in X
        <5> HIDE DEF X
        <5> QED BY <4>1
      <4>3. Step[i][g[i - 1]] = CountStep(words, max, g[i - 1])
        <5> HIDE DEF X
        <5> QED BY <4>1, <4>2
      <4> HIDE DEF start
      <4> QED BY <3>1, <3>3, <4>3
    <3> QED BY <3>2, <3>3
  <2>2. g = [i \in 0..max |-> IF i = 0 THEN start ELSE CountStep(words, max, g[i - 1])]
    <3> HIDE DEF X, Step, start
    <3> QED BY <2>1, Zenon
  <2> QED BY <2>2, Zenon DEF IsCount
<1>6. IsCount(words, max, at)
  BY <1>5, Zenon DEF CountOf
<1> HIDE DEF at, X, Step
<1>7. ASSUME NEW i \in 0..max
      PROVE  at[i] = IF i = 0 THEN start ELSE CountStep(words, max, at[i - 1])
  <2> HIDE DEF start
  <2>1. at = [k \in 0..max |-> IF k = 0 THEN start ELSE CountStep(words, max, at[k - 1])]
    BY <1>6, Zenon DEF IsCount, start
  <2> QED BY <2>1, Zenon
<1>8. at[0] = start BY <1>7
<1>9. ASSUME NEW k \in 0..(max - 1) PROVE at[k + 1] = CountStep(words, max, at[k])
  <2>1. k + 1 \in 0..max /\ k + 1 # 0 /\ (k + 1) - 1 = k OBVIOUS
  <2> HIDE DEF start
  <2> QED BY <1>7, <2>1
<1>10. WordCount(words, max) = (IF at[max].state = "END" THEN at[max].index ELSE 0)
  BY Zenon DEF WordCount, at, CountOf, IsCount
<1> QED BY <1>8, <1>9, <1>10 DEF at

\* Of a list without a fill color that has no word it finds the end.
LEMMA AllCounted ==
  ASSUME NEW cs \in Seq(Commands), \A i \in 1..Len(cs) : ~ Lost(cs[i])
  PROVE  WordCount(Written(cs), Len(Written(cs))) = Len(Written(cs))
<1> DEFINE words == Written(cs)
           max == Len(words)
           n == Len(cs)
           L == WordsOf(cs)
           at == CountOf(words, max)
           S == {j \in Nat : j <= n => at[j] = [index |-> Len(L[j]), state |-> "ON"]}
           T == {d \in Nat : n + 1 + d <= max => at[n + 1 + d] = [index |-> max, state |-> "END"]}
<1>1. n \in Nat /\ max \in Nat /\ n < max /\ words[max] = CMD_STOP /\ max = Len(L[n]) + 1
      /\ Len(L[n]) \in Nat
  BY WrittenTyped
<1>2. /\ WordCount(words, max) = (IF at[max].state = "END" THEN at[max].index ELSE 0)
      /\ at[0] = [index |-> 0, state |-> "ON"]
      /\ \A k \in 0..(max - 1) : at[k + 1] = CountStep(words, max, at[k])
  <2> HIDE DEF words, max
  <2> QED BY <1>1, CountIs
<1>3. Len(L[0]) = 0
  <2>1. L[0] = <<>> BY ListIs
  <2> HIDE DEF L
  <2> QED BY <2>1
<1> HIDE DEF at
<1>4. ASSUME NEW j \in 0..(n - 1)
      PROVE  CountStep(words, max, [index |-> Len(L[j]), state |-> "ON"])
               = [index |-> Len(L[j + 1]), state |-> "ON"]
  <2> DEFINE q == Len(L[j])
             r == Len(L[j + 1])
             c == cs[j + 1]
  <2>1. q \in Nat /\ Size(c) \in 1..4 /\ r = q + Size(c) /\ r < max BY CommandAt
  <2>2. OpcodeOf(words[q + 1]) = c.op /\ c.op \in {"FILL", "LINE", "ELIP", "RECT"}
        /\ Size(c) = IF Lost(c) THEN Trailing(c.op) ELSE 1 + Trailing(c.op)
    BY CommandRead
  <2>3. ~ Lost(c)
    <3>1. j + 1 \in 1..n BY <1>1
    <3> QED BY <3>1
  <2> HIDE DEF words, max, q, r, c
  <2>4. Trailing(c.op) \in Nat BY DEF Trailing
  <2>5. q + 1 + Trailing(c.op) = r /\ ~ (q >= max) /\ ~ (r > max) BY <1>1, <2>1, <2>2, <2>3, <2>4
  <2>6. c.op # "STOP" /\ c.op # "BAD" BY <2>2
  <2> DEFINE p == [index |-> q, state |-> "ON"]
  <2>7. p.index = q /\ p.state = "ON" OBVIOUS
  <2> HIDE DEF p
  <2>8. CountStep(words, max, p) = [index |-> r, state |-> "ON"]
    BY <2>2, <2>5, <2>6, <2>7, Zenon DEF CountStep
  <2> QED BY <2>8 DEF p, q, r
<1> HIDE DEF words, L
<1>5. 0 \in S
  BY <1>2, <1>3
<1>6. ASSUME NEW j \in Nat, j \in S PROVE j + 1 \in S
  <2> SUFFICES ASSUME j + 1 <= n PROVE at[j + 1] = [index |-> Len(L[j + 1]), state |-> "ON"]
    OBVIOUS
  <2>1. j \in 0..(n - 1) /\ j <= n /\ j \in 0..(max - 1) BY <1>1
  <2>2. at[j] = [index |-> Len(L[j]), state |-> "ON"] BY <1>6, <2>1
  <2> QED BY <1>2, <1>4, <2>1, <2>2
<1> HIDE DEF S
<1>7. n \in S BY <1>1, <1>5, <1>6, Inductive
<1>8. 0 \in T
  <2> SUFFICES at[n + 1] = [index |-> max, state |-> "END"] BY <1>1
  <2>1. at[n] = [index |-> Len(L[n]), state |-> "ON"] BY <1>1, <1>7 DEF S
  <2>2. n \in 0..(max - 1) BY <1>1
  <2> DEFINE p == [index |-> Len(L[n]), state |-> "ON"]
  <2>3. p.index = Len(L[n]) /\ p.index + 1 = max /\ p.state = "ON" /\ ~ (p.index >= max)
    BY <1>1
  <2>4. at[n + 1] = CountStep(words, max, p) BY <1>2, <2>1, <2>2
  <2>5. OpcodeOf(CMD_STOP) = "STOP"
    <3>1. "STOP" \in DOMAIN GOP /\ <<0, 0>> \in Rests BY DEF GOP, Rests
    <3> QED BY <3>1, OpcodeRead DEF CMD_STOP
  <2> HIDE DEF p, max
  <2>6. CountStep(words, max, p) = [index |-> max, state |-> "END"]
    BY <1>1, <2>3, <2>5, Zenon DEF CountStep
  <2> QED BY <2>4, <2>6
<1>9. ASSUME NEW d \in Nat, d \in T PROVE d + 1 \in T
  <2> SUFFICES ASSUME n + 1 + (d + 1) <= max
               PROVE  at[n + 1 + (d + 1)] = [index |-> max, state |-> "END"]
    OBVIOUS
  <2>1. n + 1 + d \in 0..(max - 1) /\ n + 1 + d <= max /\ n + 1 + (d + 1) = (n + 1 + d) + 1
    BY <1>1
  <2> DEFINE p == [index |-> max, state |-> "END"]
  <2>2. at[n + 1 + d] = p BY <1>9, <2>1
  <2>3. at[(n + 1 + d) + 1] = CountStep(words, max, p) BY <1>2, <2>1, <2>2
  <2>4. p.state # "ON" OBVIOUS
  <2> HIDE DEF p
  <2>5. CountStep(words, max, p) = p BY <2>4, Zenon DEF CountStep
  <2> QED BY <2>1, <2>3, <2>5 DEF p
<1> HIDE DEF T
<1>10. PICK d \in Nat : n + 1 + d = max
  <2>1. \A a, b \in Nat : a < b => \E d \in Nat : a + 1 + d = b
    <3> SUFFICES ASSUME NEW a \in Nat, NEW b \in Nat, a < b
                 PROVE  \E d \in Nat : a + 1 + d = b
      OBVIOUS
    <3>1. b - (a + 1) \in Nat /\ a + 1 + (b - (a + 1)) = b OBVIOUS
    <3> QED BY <3>1
  <2> QED BY <1>1, <2>1
<1>11. d \in T BY <1>8, <1>9, Inductive
<1>12. at[max] = [index |-> max, state |-> "END"] BY <1>1, <1>10, <1>11 DEF T
<1> QED BY <1>2, <1>12 DEF words
-----------------------------------------------------------------------------
\* Every list of commands that the macros put together is taken apart into these
\* commands, and its end is found, unless it has a fill color whose word is not
\* written; then it never is.
THEOREM AnyListDecodes == \A cs \in Seq(Commands) : Decodes(cs)
<1> TAKE cs \in Seq(Commands)
<1>1. CASE \E i \in 1..Len(cs) : Lost(cs[i])
  BY <1>1, LostSpoils, Zenon DEF Decodes
<1>2. CASE ~ \E i \in 1..Len(cs) : Lost(cs[i])
  <2>1. \A i \in 1..Len(cs) : ~ Lost(cs[i]) BY <1>2
  <2>2. /\ Submit(Written(cs)).drawn = cs /\ Submit(Written(cs)).state = "DONE"
        /\ WordCount(Written(cs), Len(Written(cs))) = Len(Written(cs))
    BY <2>1, AllRead, AllCounted
  <2> QED BY <1>2, <2>2, Zenon DEF Decodes
<1> QED BY <1>1, <1>2

\* The list that holds a shape's command, alone or with others, is such a list
\* (ListsDecode).
THEOREM ListsRead == Spec => []ListsDecode
<1> DEFINE SInv == shape \in Shapes \union {NoShape}
<1>1. Init => SInv
  BY DEF Init
<1>2. SInv /\ [Next]_vars => SInv'
  BY DEF Next, vars, dd_fill, dd_shape, swline, swelip, swelip_ends, swrect
<1>3. SInv => ListsDecode
  <2> SUFFICES ASSUME SInv, Finished({"LINE", "RECT", "ELIP"}), NEW fill \in Fills, NEW c \in Others
               PROVE  LET d == CommandFor(shape, fill)
                      IN Decodes(<<d>>) /\ Decodes(<<c, d>>) /\ Decodes(<<d, c>>)
    BY Zenon DEF ListsDecode
  <2> DEFINE s == shape
             d == CommandFor(s, fill)
  <2>1. s \in Shapes /\ s.op \in {"LINE", "RECT", "ELIP"}
    <3>1. s.op \in {"LINE", "RECT", "ELIP"} BY DEF Finished
    <3>2. NoShape.op = "NONE" BY DEF NoShape
    <3> QED BY <3>1, <3>2
  <2>2. s.x0 \in Coordinates /\ s.y0 \in Coordinates /\ s.x1 \in Coordinates /\ s.y1 \in Coordinates
    BY <2>1, CommandAssumption
  <2>3. c \in Commands /\ fill \in CommandWords BY CommandAssumption
  <2>4. Red \in Rests BY DEF Red, Rests
  <2>5. d \in Commands
    <3> HIDE DEF s
    <3>1. CASE s.op = "LINE"
      <4>1. d = Line(Red, <<s.x0, s.y0>>, <<s.x1, s.y1>>) BY <3>1, Zenon DEF CommandFor
      <4>2. Line(Red, <<s.x0, s.y0>>, <<s.x1, s.y1>>) \in Commands
        BY <2>2, <2>4 DEF Line, Commands
      <4> QED BY <4>1, <4>2
    <3>2. CASE s.op # "LINE"
      <4>1. d = Filled(s.op, Red, <<s.x0, s.y0>>, <<s.x1, s.y1>>, fill)
        BY <3>2, Zenon DEF CommandFor
      <4>2. Filled(s.op, Red, <<s.x0, s.y0>>, <<s.x1, s.y1>>, fill) \in Commands
        BY <2>1, <2>2, <2>3, <2>4, <3>2 DEF Filled, Commands
      <4> QED BY <4>1, <4>2
    <3> QED BY <3>1, <3>2
  <2> HIDE DEF d
  <2>6. <<d>> \in Seq(Commands) /\ <<c, d>> \in Seq(Commands) /\ <<d, c>> \in Seq(Commands)
    BY <2>3, <2>5
  <2> QED BY <2>6, AnyListDecodes DEF d
<1> QED BY <1>1, <1>2, <1>3, PTL DEF Spec
-----------------------------------------------------------------------------
(* Lines *)

\* The pixel of column k, counted from the lower end, is j steps away in b: the
\* nearest to the line, and of two equally near ones the first or, as Vizard
\* draws it, the second.
Nearest(A, n, k, j) ==
  IF A = 0 THEN j = 0 ELSE -A <= 2 * (A * j - n * k) /\ 2 * (A * j - n * k) < A
NearestLast(A, n, k, j) ==
  IF A = 0 THEN j = 0 ELSE -A < 2 * (A * j - n * k) /\ 2 * (A * j - n * k) <= A

\* What the error then is.
Stands(A, n, k, j, e) == Nearest(A, n, k, j) /\ e \in Int /\ e = A \div 2 + A * j - n * k

\* The point that is k columns and j steps away from the first.
PointAt(s, k, j) ==
  IF spin(s) THEN <<b0(s) + offB(s) * j, a0(s) + k>> ELSE <<a0(s) + k, b0(s) + offB(s) * j>>

\* The first m pixels of a line.
LinePoints(s, m) ==
  {p \in Int \X Int : \E k \in 0..(m - 1), j \in Int :
     p = PointAt(s, k, j) /\ Nearest(errA(s), -negB(s), k, j)}

\* There is one such pixel in a column.
LEMMA OneNearest ==
  ASSUME NEW A \in Nat, NEW n \in Nat, NEW k \in Nat, NEW i \in Int, NEW j \in Int,
         \/ Nearest(A, n, k, i) /\ Nearest(A, n, k, j)
         \/ NearestLast(A, n, k, i) /\ NearestLast(A, n, k, j)
  PROVE  i = j
<1>1. CASE A = 0 BY <1>1 DEF Nearest, NearestLast
<1>2. CASE A # 0
  <2>1. A * (i - j) = A * i - A * j OBVIOUS
  <2>2. A * i \in Int /\ A * j \in Int /\ n * k \in Int OBVIOUS
  <2>3. -A < A * i - A * j /\ A * i - A * j < A
    BY <1>2, <2>2 DEF Nearest, NearestLast
  <2>4. i - j = 0
    <3>1. i - j \in Int /\ A > 0 BY <1>2
    <3> QED BY <3>1, <2>1, <2>3, SmallMultiple
  <2> QED BY <2>4
<1> QED BY <1>1, <1>2

\* A turn of a line's loop, in swline, its prototypes and the line engine.
LEMMA NextNearest ==
  ASSUME NEW A \in Nat, NEW n \in Nat, n <= A, NEW k \in Nat, k < A, NEW j \in Int,
         NEW e \in Int, Stands(A, n, k, j, e)
  PROVE  IF e - n < 0 THEN Stands(A, n, k + 1, j + 1, e - n + A)
                      ELSE Stands(A, n, k + 1, j, e - n)
<1>1. PICK u \in Int : u = A * j OBVIOUS
<1>2. PICK v \in Int : v = n * k OBVIOUS
<1>3. A * (j + 1) = u + A /\ n * (k + 1) = v + n BY <1>1, <1>2
<1>4. A # 0 /\ A > 0 OBVIOUS
<1>5. -A <= 2 * (u - v) /\ 2 * (u - v) < A /\ e = A \div 2 + u - v
  BY <1>1, <1>2, <1>4, Zenon DEF Nearest, Stands
<1>6. PICK h \in Nat : h = A \div 2 /\ 2 * h <= A /\ A <= 2 * h + 1 OBVIOUS
<1>7. CASE e - n < 0
  <2>1. -A <= 2 * ((u + A) - (v + n)) /\ 2 * ((u + A) - (v + n)) < A
        /\ e - n + A = A \div 2 + (u + A) - (v + n)
    BY <1>5, <1>6, <1>7
  <2> QED BY <1>3, <1>4, <1>7, <2>1 DEF Nearest, Stands
<1>8. CASE ~ (e - n < 0)
  <2>1. -A <= 2 * (u - (v + n)) /\ 2 * (u - (v + n)) < A
        /\ e - n = A \div 2 + u - (v + n)
    BY <1>5, <1>6, <1>8
  <2> QED BY <1>1, <1>3, <1>4, <1>8, <2>1 DEF Nearest, Stands
<1> QED BY <1>7, <1>8

\* Such a loop, its b and its error given as functions of the number of turns,
\* and what b then is.
IsLoop(A, n, b, off, f, g) ==
  /\ f[0] = b /\ g[0] = A \div 2
  /\ \A i \in 0..(A - 1) :
       IF g[i] - n < 0 THEN f[i + 1] = f[i] + off /\ g[i + 1] = g[i] - n + A
                       ELSE f[i + 1] = f[i] /\ g[i + 1] = g[i] - n
AlwaysNearest(A, n, b, off, f) ==
  \A i \in 0..A : \E j \in Int : Nearest(A, n, i, j) /\ f[i] = b + off * j

\* Every column of a loop is at the nearest pixel.
LEMMA AllNearest ==
  ASSUME NEW A \in Nat, NEW n \in Nat, n <= A, NEW b \in Int, NEW off \in {1, -1},
         NEW f, NEW g, IsLoop(A, n, b, off, f, g)
  PROVE  AlwaysNearest(A, n, b, off, f)
<1> DEFINE S == {i \in Nat : i <= A => \E j \in Int : Stands(A, n, i, j, g[i]) /\ f[i] = b + off * j}
<1>0. /\ f[0] = b /\ g[0] = A \div 2
      /\ \A i \in 0..(A - 1) :
           IF g[i] - n < 0 THEN f[i + 1] = f[i] + off /\ g[i + 1] = g[i] - n + A
                           ELSE f[i + 1] = f[i] /\ g[i + 1] = g[i] - n
  BY Zenon DEF IsLoop
<1>1. 0 \in S
  <2>1. A * 0 = 0 /\ n * 0 = 0 /\ off * 0 = 0 /\ A \div 2 \in Int OBVIOUS
  <2>2. Stands(A, n, 0, 0, g[0]) BY <1>0, <2>1 DEF Nearest, Stands
  <2>3. 0 \in Nat /\ 0 \in Int /\ f[0] = b + off * 0 BY <1>0, <2>1
  <2> QED BY <2>2, <2>3
<1>2. ASSUME NEW i \in Nat, i \in S PROVE i + 1 \in S
  <2> SUFFICES ASSUME i + 1 <= A
               PROVE  \E j \in Int : Stands(A, n, i + 1, j, g[i + 1]) /\ f[i + 1] = b + off * j
    OBVIOUS
  <2>1. PICK j \in Int : Stands(A, n, i, j, g[i]) /\ f[i] = b + off * j BY <1>2
  <2>2. i \in 0..(A - 1) /\ i < A OBVIOUS
  <2>3. PICK e \in Int : e = g[i] BY <2>1 DEF Stands
  <2>4. IF e - n < 0 THEN Stands(A, n, i + 1, j + 1, e - n + A)
                     ELSE Stands(A, n, i + 1, j, e - n)
    <3> HIDE DEF S
    <3> QED BY <2>1, <2>2, <2>3, NextNearest
  <2>5. IF e - n < 0 THEN f[i + 1] = f[i] + off /\ g[i + 1] = e - n + A
                     ELSE f[i + 1] = f[i] /\ g[i + 1] = e - n
    BY <1>0, <2>2, <2>3
  <2>6. (b + off * j) + off = b + off * (j + 1) /\ j + 1 \in Int OBVIOUS
  <2> HIDE DEF S
  <2>7. CASE e - n < 0
    <3>1. f[i + 1] = b + off * (j + 1) BY <2>1, <2>5, <2>6, <2>7, Zenon
    <3>2. Stands(A, n, i + 1, j + 1, g[i + 1]) BY <2>4, <2>5, <2>7, Zenon
    <3> QED BY <2>6, <3>1, <3>2, Zenon
  <2>8. CASE ~ (e - n < 0)
    <3>1. f[i + 1] = b + off * j BY <2>1, <2>5, <2>8, Zenon
    <3>2. Stands(A, n, i + 1, j, g[i + 1]) BY <2>4, <2>5, <2>8, Zenon
    <3> QED BY <3>1, <3>2, Zenon
  <2> QED BY <2>7, <2>8
<1> HIDE DEF S
<1>3. \A i \in Nat : i \in S BY <1>1, <1>2, Inductive
<1>4. \A i \in 0..A : \E j \in Int : Stands(A, n, i, j, g[i]) /\ f[i] = b + off * j
  BY <1>3 DEF S
<1> QED BY <1>4, Zenon DEF Stands, AlwaysNearest

\* The turns of swline.
LineTurns(s) ==
  CHOOSE f : f = [i \in 0..errA(s) |-> IF i = 0 THEN LinePrepare(s) ELSE LineTurn(s, f[i - 1])]

\* The turns of a line are what their recursion says.
LEMMA TurnsOfLine ==
  ASSUME NEW s \in Shapes
  PROVE  /\ LineTurns(s)[0] = LinePrepare(s)
         /\ \A i \in 0..(errA(s) - 1) : LineTurns(s)[i + 1] = LineTurn(s, LineTurns(s)[i])
         /\ \A i \in 0..errA(s) : LineTurns(s)[i] \in [at : {"LINE"}, a : Int, b : Int, error : Int]
<1> DEFINE A == errA(s)
           X == [at : {"LINE"}, a : Int, b : Int, error : Int]
           Is(f) == f = [i \in 0..A |-> IF i = 0 THEN LinePrepare(s) ELSE LineTurn(s, f[i - 1])]
           Step == [k \in Nat |-> [l \in X |-> LineTurn(s, l)]]
           t == LineTurns(s)
<1>1. A \in Nat /\ negB(s) \in Int /\ offB(s) \in Int /\ a0(s) \in Int /\ b0(s) \in Int
  BY Ends
<1>2. LinePrepare(s) \in X
  BY <1>1 DEF LinePrepare
<1>3. ASSUME NEW l \in X PROVE LineTurn(s, l) \in X
  <2>1. l = [at |-> "LINE", a |-> l.a, b |-> l.b, error |-> l.error]
        /\ l.a \in Int /\ l.b \in Int /\ l.error \in Int
    OBVIOUS
  <2> HIDE DEF A
  <2>2. l.a + 1 \in Int /\ l.b + offB(s) \in Int /\ l.error + negB(s) + A \in Int
        /\ l.error + negB(s) + 0 \in Int
    BY <1>1, <2>1
  <2>3. CASE l.error + negB(s) < 0
    <3>1. LineTurn(s, l) = [at |-> "LINE", a |-> l.a + 1, b |-> l.b + offB(s),
                            error |-> l.error + negB(s) + A]
      <4>1. LineTurn(s, l) = [l EXCEPT !.a = l.a + 1, !.b = l.b + offB(s),
                                       !.error = l.error + negB(s) + A]
        BY <2>3, Zenon DEF LineTurn, A
      <4> QED BY <2>1, <4>1
    <3> QED BY <2>2, <3>1
  <2>4. CASE ~ (l.error + negB(s) < 0)
    <3>1. LineTurn(s, l) = [at |-> "LINE", a |-> l.a + 1, b |-> l.b,
                            error |-> l.error + negB(s) + 0]
      <4>1. LineTurn(s, l) = [l EXCEPT !.a = l.a + 1, !.b = l.b,
                                       !.error = l.error + negB(s) + 0]
        BY <2>4, Zenon DEF LineTurn, A
      <4> QED BY <2>1, <4>1
    <3> QED BY <2>1, <2>2, <3>1
  <2> QED BY <2>3, <2>4
<1>4. Step \in [Nat -> [X -> X]] BY <1>3
<1> HIDE DEF A, X
<1>5. PICK f \in [0..A -> X] : FirstOf(f, A, LinePrepare(s), Step)
  <2> HIDE DEF Step
  <2> QED BY <1>1, <1>2, <1>4, FirstTurns
<1>6. Is(f)
  <2>1. ASSUME NEW i \in 0..A
        PROVE  f[i] = IF i = 0 THEN LinePrepare(s) ELSE LineTurn(s, f[i - 1])
    <3>1. f[i] = IF i = 0 THEN LinePrepare(s) ELSE Step[i][f[i - 1]]
      <4> HIDE DEF Step
      <4> QED BY <1>5 DEF FirstOf
    <3>2. CASE i = 0 BY <3>1, <3>2
    <3>3. CASE i # 0
      <4>1. i - 1 \in 0..A /\ i \in Nat BY <1>1, <3>3
      <4>2. f[i - 1] \in X BY <4>1
      <4>3. Step[i][f[i - 1]] = LineTurn(s, f[i - 1]) BY <4>1, <4>2
      <4> HIDE DEF Step
      <4> QED BY <3>1, <3>3, <4>3, Zenon
    <3> QED BY <3>2, <3>3
  <2>2. f = [i \in 0..A |-> IF i = 0 THEN LinePrepare(s) ELSE LineTurn(s, f[i - 1])]
    <3>1. f = [i \in 0..A |-> f[i]] OBVIOUS
    <3> QED BY <2>1, <3>1, Zenon
  <2> QED BY <2>2
<1>7. Is(t)
  <2>1. t = CHOOSE g : Is(g) BY DEF LineTurns, A
  <2> HIDE DEF Is, t
  <2> QED BY <1>6, <2>1
<1> HIDE DEF t
<1>8. \A i \in 0..A : t[i] = IF i = 0 THEN LinePrepare(s) ELSE LineTurn(s, t[i - 1])
  BY <1>7, Zenon
<1>9. t[0] = LinePrepare(s) BY <1>1, <1>8
<1>10. ASSUME NEW i \in 0..(A - 1) PROVE t[i + 1] = LineTurn(s, t[i])
  <2>1. i + 1 \in 0..A /\ i + 1 # 0 /\ (i + 1) - 1 = i BY <1>1
  <2>2. t[i + 1] = LineTurn(s, t[(i + 1) - 1]) BY <1>8, <2>1
  <2> QED BY <2>1, <2>2, Zenon
<1>11. \A i \in 0..A : t[i] \in X
  <2> DEFINE S == {i \in Nat : i <= A => t[i] \in X}
  <2>1. 0 \in S BY <1>2, <1>9
  <2>2. ASSUME NEW i \in Nat, i \in S PROVE i + 1 \in S
    <3>1. CASE i + 1 <= A
      <4>1. i <= A /\ i \in 0..(A - 1) BY <3>1, <1>1
      <4>2. t[i] \in X BY <2>2, <4>1
      <4>3. t[i + 1] \in X BY <1>3, <1>10, <4>1, <4>2
      <4> QED BY <4>3
    <3>2. CASE ~ (i + 1 <= A) BY <3>2
    <3> QED BY <3>1, <3>2
  <2> HIDE DEF S
  <2>3. \A i \in Nat : i \in S BY <2>1, <2>2, Inductive
  <2> QED BY <2>3, <1>1 DEF S
<1> QED BY <1>9, <1>10, <1>11 DEF A, X, t

\* The line's numbers.
LEMMA LineNumbers ==
  ASSUME NEW s \in Shapes
  PROVE  /\ a0(s) \in Int /\ b0(s) \in Int /\ a1(s) \in Int /\ b1(s) \in Int
         /\ errA(s) \in Nat /\ -negB(s) \in Nat /\ -negB(s) <= errA(s)
         /\ offB(s) \in {1, -1} /\ a1(s) = a0(s) + errA(s)
         /\ negB(s) \in Int /\ -negB(s) = Distance(b0(s), b1(s))
         /\ b1(s) = b0(s) + offB(s) * (-negB(s))
<1>1. /\ a0(s) \in Int /\ b0(s) \in Int /\ a1(s) \in Int /\ b1(s) \in Int
      /\ errA(s) \in Nat /\ -negB(s) \in Nat /\ -negB(s) <= errA(s)
      /\ offB(s) \in {1, -1} /\ negB(s) \in Int
      /\ IF offB(s) = 1 THEN b1(s) - b0(s) = -negB(s) ELSE b0(s) - b1(s) = -negB(s)
  BY Ends
<1>2. a1(s) = a0(s) + errA(s) BY <1>1 DEF errA
<1>3. -negB(s) = Distance(b0(s), b1(s))
  <2>1. \A d \in Int : -(-d) = d OBVIOUS
  <2>2. Distance(b0(s), b1(s)) \in Int BY <1>1 DEF Distance, Larger, Smaller
  <2> QED BY <2>1, <2>2 DEF negB
<1>4. b1(s) = b0(s) + offB(s) * (-negB(s))
  <2>1. PICK d \in Nat : d = -negB(s) BY <1>1
  <2>2. CASE offB(s) = 1
    <3>1. 1 * d = d /\ b1(s) - b0(s) = d BY <1>1, <2>1, <2>2
    <3> QED BY <1>1, <2>1, <2>2, <3>1
  <2>3. CASE offB(s) = -1
    <3>1. (-1) * d = -d /\ b0(s) - b1(s) = d BY <1>1, <2>1, <2>3
    <3> QED BY <1>1, <2>1, <2>3, <3>1
  <2> QED BY <1>1, <2>2, <2>3
<1> QED BY <1>1, <1>2, <1>3, <1>4

\* The points of a loop whose b is always the nearest.
LEMMA PointsOf ==
  ASSUME NEW s \in Shapes, NEW f,
         AlwaysNearest(errA(s), -negB(s), b0(s), offB(s), f)
  PROVE  {IF spin(s) THEN <<f[i], a0(s) + i>> ELSE <<a0(s) + i, f[i]>> : i \in 0..errA(s)}
           = LinePoints(s, errA(s) + 1)
<1> DEFINE A == errA(s)
           n == -negB(s)
           P(i) == IF spin(s) THEN <<f[i], a0(s) + i>> ELSE <<a0(s) + i, f[i]>>
<1>1. A \in Nat /\ n \in Nat /\ a0(s) \in Int /\ b0(s) \in Int /\ offB(s) \in Int
  BY LineNumbers
<1>2. 0..((A + 1) - 1) = 0..A BY <1>1
<1>3. ASSUME NEW i \in 0..A PROVE P(i) \in LinePoints(s, A + 1)
  <2>1. PICK j \in Int : Nearest(A, n, i, j) /\ f[i] = b0(s) + offB(s) * j
    BY DEF AlwaysNearest
  <2>2. P(i) = PointAt(s, i, j) BY <2>1, Zenon DEF PointAt
  <2>3. f[i] \in Int /\ a0(s) + i \in Int
    <3>1. b0(s) + offB(s) * j \in Int BY <1>1
    <3> QED BY <3>1, <2>1, <1>1
  <2>4. P(i) \in Int \X Int BY <2>3
  <2> HIDE DEF A, n, P
  <2> QED BY <1>2, <2>1, <2>2, <2>4 DEF LinePoints, A, n
<1>4. ASSUME NEW p \in LinePoints(s, A + 1) PROVE \E i \in 0..A : p = P(i)
  <2>1. PICK k \in 0..A, j \in Int : p = PointAt(s, k, j) /\ Nearest(A, n, k, j)
    BY <1>2 DEF LinePoints
  <2>2. PICK i \in Int : Nearest(A, n, k, i) /\ f[k] = b0(s) + offB(s) * i
    BY DEF AlwaysNearest
  <2>3. i = j
    <3> HIDE DEF A, n
    <3> QED BY <1>1, <2>1, <2>2, OneNearest
  <2>4. p = P(k) BY <2>1, <2>2, <2>3, Zenon DEF PointAt
  <2> QED BY <2>4
<1> HIDE DEF A, P
<1>5. {P(i) : i \in 0..A} = LinePoints(s, A + 1)
  BY <1>3, <1>4
<1> QED BY <1>5 DEF A, P

\* swline's pixels are the nearest of every column.
LEMMA LoopDraws ==
  ASSUME NEW s \in Shapes
  PROVE  LineOfLoop(s) = LinePoints(s, errA(s) + 1)
<1> DEFINE A == errA(s)
           n == -negB(s)
           t == LineTurns(s)
           f == [i \in 0..A |-> t[i].b]
           g == [i \in 0..A |-> t[i].error]
           P(i) == IF spin(s) THEN <<f[i], a0(s) + i>> ELSE <<a0(s) + i, f[i]>>
<1>1. /\ A \in Nat /\ n \in Nat /\ n <= A /\ a0(s) \in Int /\ b0(s) \in Int
      /\ offB(s) \in {1, -1} /\ negB(s) \in Int
  BY LineNumbers
<1>2. /\ t[0] = LinePrepare(s)
      /\ \A i \in 0..(A - 1) : t[i + 1] = LineTurn(s, t[i])
      /\ \A i \in 0..A : t[i] \in [at : {"LINE"}, a : Int, b : Int, error : Int]
  BY TurnsOfLine
<1> HIDE DEF t
<1>3. f[0] = b0(s) /\ g[0] = A \div 2
  BY <1>1, <1>2 DEF LinePrepare
<1>4. ASSUME NEW i \in 0..(A - 1)
      PROVE  /\ IF g[i] - n < 0 THEN f[i + 1] = f[i] + offB(s) /\ g[i + 1] = g[i] - n + A
                                ELSE f[i + 1] = f[i] /\ g[i + 1] = g[i] - n
             /\ t[i + 1].a = t[i].a + 1
  <2>1. i \in 0..A /\ i + 1 \in 0..A BY <1>1
  <2>2. f[i] = t[i].b /\ g[i] = t[i].error /\ f[i + 1] = t[i + 1].b /\ g[i + 1] = t[i + 1].error
    BY <2>1
  <2>3. PICK l \in [at : {"LINE"}, a : Int, b : Int, error : Int] : l = t[i] BY <1>2, <2>1
  <2>4. t[i + 1] = LineTurn(s, l) BY <1>2, <2>3
  <2> HIDE DEF f, g
  <2>5. \A e \in Int : e - n = e + negB(s) /\ e + negB(s) + 0 = e - n BY <1>1
  <2>6. /\ LineTurn(s, l).a = l.a + 1
        /\ LineTurn(s, l).b = IF l.error + negB(s) < 0 THEN l.b + offB(s) ELSE l.b
        /\ LineTurn(s, l).error = l.error + negB(s) + (IF l.error + negB(s) < 0 THEN A ELSE 0)
    BY DEF LineTurn
  <2>7. PICK e \in Int : e = l.error OBVIOUS
  <2> QED BY <2>2, <2>3, <2>4, <2>5, <2>6, <2>7
<1>5. \A i \in 0..A : t[i].a = a0(s) + i
  <2> DEFINE S == {i \in Nat : i <= A => t[i].a = a0(s) + i}
  <2>1. 0 \in S BY <1>1, <1>2 DEF LinePrepare
  <2>2. ASSUME NEW i \in Nat, i \in S PROVE i + 1 \in S
    <3>1. CASE i + 1 <= A
      <4>1. i \in 0..(A - 1) /\ i <= A BY <1>1, <3>1
      <4>2. t[i + 1].a = t[i].a + 1 BY <4>1, <1>4
      <4>3. t[i].a = a0(s) + i BY <4>1, <2>2
      <4>4. t[i + 1].a = a0(s) + (i + 1) BY <1>1, <4>2, <4>3
      <4> QED BY <4>4
    <3>2. CASE ~ (i + 1 <= A) BY <3>2
    <3> QED BY <3>1, <3>2
  <2> HIDE DEF S
  <2>3. \A i \in Nat : i \in S BY <2>1, <2>2, Inductive
  <2> QED BY <2>3, <1>1 DEF S
<1>6. \A i \in 0..A : f[i] = t[i].b OBVIOUS
<1> HIDE DEF f, g
<1>7. AlwaysNearest(A, n, b0(s), offB(s), f)
  <2>1. IsLoop(A, n, b0(s), offB(s), f, g)
    BY <1>3, <1>4, Zenon DEF IsLoop
  <2> HIDE DEF A, n
  <2> QED BY <1>1, <2>1, AllNearest
<1>8. {P(i) : i \in 0..A} = LinePoints(s, A + 1)
  BY <1>7, PointsOf
<1>9. LineOfLoop(s)
        = {IF spin(s) THEN <<t[i].b, t[i].a>> ELSE <<t[i].a, t[i].b>> : i \in 0..A}
  BY Zenon DEF LineOfLoop, t, LineTurns
<1>10. \A i \in 0..A : P(i) = IF spin(s) THEN <<t[i].b, t[i].a>> ELSE <<t[i].a, t[i].b>>
  BY <1>5, <1>6, Zenon
<1> HIDE DEF P, A
<1>11. LineOfLoop(s) = {P(i) : i \in 0..A} BY <1>9, <1>10
<1> QED BY <1>8, <1>11 DEF A

\* One step of a prototype of swline.
WalkStep(p, n, off, A) ==
  LET e == p.error - n
  IN IF e < 0 THEN [b |-> p.b + off, error |-> e + A] ELSE [b |-> p.b, error |-> e]

\* It walks over the nearest points.
WalksNearest(from, to, b, toB, A, n, off) ==
  \E f : /\ AlwaysNearest(A, n, b, off, f)
         /\ Walk(from, to, b, toB) = {<<from + i, f[i]>> : i \in 0..A}

\* The prototypes of swline walk the same way.
LEMMA WalkIs ==
  ASSUME NEW from \in Int, NEW to \in Int, from <= to, NEW b \in Int, NEW toB \in Int,
         Distance(b, toB) <= to - from
  PROVE  WalksNearest(from, to, b, toB, to - from, Distance(b, toB), IF b < toB THEN 1 ELSE -1)
<1> DEFINE A == to - from
           n == Distance(b, toB)
           off == IF b < toB THEN 1 ELSE -1
           X == [b : Int, error : Int]
           base == [b |-> b, error |-> A \div 2]
           Is(h) == h = [a \in from..to |-> IF a = from THEN base ELSE WalkStep(h[a - 1], n, off, A)]
           Step == [a \in Int |-> [p \in X |-> WalkStep(p, n, off, A)]]
           at == CHOOSE h : Is(h)
           f == [i \in 0..A |-> at[from + i].b]
           g == [i \in 0..A |-> at[from + i].error]
<1>1. A \in Nat /\ n \in Nat /\ n <= A /\ off \in {1, -1}
  BY DEF Distance, Larger, Smaller
<1>2. base \in X BY <1>1
<1>3. \A p \in X : WalkStep(p, n, off, A) \in X
  <2> HIDE DEF A, n, off
  <2> QED BY <1>1 DEF WalkStep
<1>4. Walk(from, to, b, toB) = {<<a, at[a].b>> : a \in from..to}
  BY Zenon DEF Walk, WalkStep
<1> HIDE DEF A, n, off, base, X
<1>5. PICK h \in [from..to -> X] : FromTo(h, from, to, base, Step)
  <2>1. Step \in [Int -> [X -> X]] BY <1>3
  <2> HIDE DEF Step
  <2> QED BY <1>2, <2>1, RangeTurns
<1>6. Is(h)
  <2>1. ASSUME NEW a \in from..to
        PROVE  h[a] = IF a = from THEN base ELSE WalkStep(h[a - 1], n, off, A)
    <3>1. h[a] = IF a = from THEN base ELSE Step[a][h[a - 1]]
      <4> HIDE DEF Step
      <4> QED BY <1>5 DEF FromTo
    <3>2. CASE a = from BY <3>1, <3>2
    <3>3. CASE a # from
      <4>1. a - 1 \in from..to /\ a \in Int BY <3>3
      <4>2. h[a - 1] \in X BY <4>1
      <4>3. Step[a][h[a - 1]] = WalkStep(h[a - 1], n, off, A) BY <4>1, <4>2
      <4> HIDE DEF Step
      <4> QED BY <3>1, <3>3, <4>3, Zenon
    <3> QED BY <3>2, <3>3
  <2>2. h = [a \in from..to |-> h[a]] OBVIOUS
  <2> QED BY <2>1, <2>2, Zenon
<1>7. Is(at)
  <2> HIDE DEF Is
  <2> QED BY <1>6
<1> HIDE DEF at
<1>8. \A a \in from..to : at[a] = IF a = from THEN base ELSE WalkStep(at[a - 1], n, off, A)
  BY <1>7, Zenon
<1>9. at[from] = base BY <1>8
<1>10. ASSUME NEW a \in from..(to - 1) PROVE at[a + 1] = WalkStep(at[a], n, off, A)
  <2>1. a + 1 \in from..to /\ a + 1 # from /\ (a + 1) - 1 = a OBVIOUS
  <2>2. at[a + 1] = WalkStep(at[(a + 1) - 1], n, off, A) BY <1>8, <2>1, Zenon
  <2> QED BY <2>1, <2>2, Zenon
<1>11. IsLoop(A, n, b, off, f, g)
  <2>1. f[0] = b /\ g[0] = A \div 2
    <3>1. 0 \in 0..A /\ from + 0 = from BY <1>1
    <3> QED BY <3>1, <1>9 DEF base
  <2>2. ASSUME NEW i \in 0..(A - 1)
        PROVE  IF g[i] - n < 0 THEN f[i + 1] = f[i] + off /\ g[i + 1] = g[i] - n + A
                               ELSE f[i + 1] = f[i] /\ g[i + 1] = g[i] - n
    <3>1. i \in 0..A /\ i + 1 \in 0..A /\ from + (i + 1) = (from + i) + 1
          /\ from + i \in from..(to - 1)
      BY <1>1 DEF A
    <3>2. f[i] = at[from + i].b /\ g[i] = at[from + i].error
          /\ f[i + 1] = at[from + (i + 1)].b /\ g[i + 1] = at[from + (i + 1)].error
      BY <3>1
    <3>3. at[from + (i + 1)] = WalkStep(at[from + i], n, off, A) BY <1>10, <3>1
    <3> DEFINE p == at[from + i]
    <3>4. /\ WalkStep(p, n, off, A).b = IF p.error - n < 0 THEN p.b + off ELSE p.b
          /\ WalkStep(p, n, off, A).error
               = IF p.error - n < 0 THEN p.error - n + A ELSE p.error - n
      BY DEF WalkStep
    <3> HIDE DEF f, g, p
    <3>5. f[i] = p.b /\ g[i] = p.error /\ f[i + 1] = WalkStep(p, n, off, A).b
          /\ g[i + 1] = WalkStep(p, n, off, A).error
      BY <3>2, <3>3 DEF p
    <3> QED BY <3>4, <3>5, Zenon
  <2> HIDE DEF f, g
  <2> QED BY <2>1, <2>2, Zenon DEF IsLoop
<1>12. Walk(from, to, b, toB) = {<<from + i, f[i]>> : i \in 0..A}
  <2> DEFINE Q(a) == <<a, at[a].b>>
             R(i) == <<from + i, f[i]>>
  <2>1. ASSUME NEW a \in from..to PROVE \E i \in 0..A : Q(a) = R(i)
    <3>1. a - from \in 0..A /\ from + (a - from) = a BY DEF A
    <3> QED BY <3>1
  <2>2. ASSUME NEW i \in 0..A PROVE \E a \in from..to : Q(a) = R(i)
    <3>1. from + i \in from..to BY DEF A
    <3> QED BY <3>1
  <2>3. {Q(a) : a \in from..to} = {R(i) : i \in 0..A}
    <3> HIDE DEF Q, R
    <3> QED BY <2>1, <2>2
  <2> QED BY <2>3, <1>4
<1>13. AlwaysNearest(A, n, b, off, f)
  <2> HIDE DEF f, g
  <2> QED BY <1>1, <1>11, AllNearest
<1> HIDE DEF f
<1>14. WalksNearest(from, to, b, toB, A, n, off)
  BY <1>12, <1>13, Zenon DEF WalksNearest
<1> QED BY <1>14 DEF A, n, off

\* Walking along the line, turned back if it was turned, draws it.
LEMMA WalkDraws ==
  ASSUME NEW s \in Shapes
  PROVE  (IF spin(s) THEN Transposed(Walk(a0(s), a1(s), b0(s), b1(s)))
                     ELSE Walk(a0(s), a1(s), b0(s), b1(s)))
           = LinePoints(s, errA(s) + 1)
<1> DEFINE A == errA(s)
           W == Walk(a0(s), a1(s), b0(s), b1(s))
<1>1. /\ A \in Nat /\ a0(s) \in Int /\ b0(s) \in Int /\ a1(s) \in Int /\ b1(s) \in Int
      /\ a1(s) = a0(s) + A /\ a1(s) - a0(s) = A /\ a0(s) <= a1(s)
      /\ -negB(s) = Distance(b0(s), b1(s)) /\ -negB(s) <= A
      /\ offB(s) = IF b0(s) < b1(s) THEN 1 ELSE -1
  <2>1. offB(s) = IF b0(s) < b1(s) THEN 1 ELSE -1
    BY LineNumbers DEF offB
  <2> HIDE DEF A
  <2> QED BY <2>1, LineNumbers DEF A
<1>2. PICK f : /\ AlwaysNearest(A, -negB(s), b0(s), offB(s), f)
               /\ W = {<<a0(s) + i, f[i]>> : i \in 0..A}
  <2>1. Distance(b0(s), b1(s)) <= a1(s) - a0(s) BY <1>1
  <2>2. WalksNearest(a0(s), a1(s), b0(s), b1(s), a1(s) - a0(s), Distance(b0(s), b1(s)),
                     IF b0(s) < b1(s) THEN 1 ELSE -1)
    BY <1>1, <2>1, WalkIs
  <2> HIDE DEF A, W
  <2>3. WalksNearest(a0(s), a1(s), b0(s), b1(s), A, -negB(s), offB(s))
    BY <1>1, <2>2, Zenon
  <2> QED BY <2>3, Zenon DEF WalksNearest, W
<1>3. {IF spin(s) THEN <<f[i], a0(s) + i>> ELSE <<a0(s) + i, f[i]>> : i \in 0..A}
        = LinePoints(s, A + 1)
  BY <1>2, PointsOf
<1> HIDE DEF A, W
<1>4. CASE spin(s)
  <2> DEFINE Q(i) == <<a0(s) + i, f[i]>>
             R(i) == <<f[i], a0(s) + i>>
  <2>1. \A i \in 0..A : R(i) = <<Q(i)[2], Q(i)[1]>> OBVIOUS
  <2>2. W = {Q(i) : i \in 0..A} BY <1>2
  <2> HIDE DEF Q, R
  <2>3. {<<p[2], p[1]>> : p \in W} = {R(i) : i \in 0..A} BY <2>1, <2>2
  <2>4. {R(i) : i \in 0..A} = LinePoints(s, A + 1) BY <1>3, <1>4 DEF R
  <2> QED BY <1>4, <2>3, <2>4, Zenon DEF A, W, Transposed
<1>5. CASE ~ spin(s)
  <2>1. W = LinePoints(s, A + 1)
    <3>1. {IF spin(s) THEN <<f[i], a0(s) + i>> ELSE <<a0(s) + i, f[i]>> : i \in 0..A}
            = {<<a0(s) + i, f[i]>> : i \in 0..A}
      BY <1>5, Zenon
    <3> QED BY <3>1, <1>2, <1>3, Zenon
  <2> QED BY <1>5, <2>1, Zenon DEF A, W
<1> QED BY <1>4, <1>5

\* The prototypes of le.c that take every line draw swline's; the others do for
\* those that run from left to right and are less steep than the diagonal.
LEMMA Prototypes ==
  ASSUME NEW s \in Shapes
  PROVE  /\ line_FULL(s) = LinePoints(s, errA(s) + 1)
         /\ line_ORIG(s) = LinePoints(s, errA(s) + 1)
         /\ s.x0 <= s.x1 /\ ~ spin(s) =>
              /\ line_UI32(s) = LinePoints(s, errA(s) + 1)
              /\ line_MINI(s) = LinePoints(s, errA(s) + 1)
              /\ s.y0 = s.y1 => line_FLAT(s) = LinePoints(s, errA(s) + 1)
<1> DEFINE L == LinePoints(s, errA(s) + 1)
           W == Walk(a0(s), a1(s), b0(s), b1(s))
<1>1. s.x0 \in Nat /\ s.y0 \in Nat /\ s.x1 \in Nat /\ s.y1 \in Nat
  BY ShapesAssumption DEF AllShapes
<1>2. L = IF spin(s) THEN Transposed(W) ELSE W
  BY WalkDraws, Zenon
<1>3. line_FULL(s) = IF spin(s) THEN Transposed(W) ELSE W
  <2>1. CASE spin(s)
    <3>1. CASE s.y1 < s.y0
      <4>1. a0(s) = s.y1 /\ b0(s) = s.x1 /\ a1(s) = s.y0 /\ b1(s) = s.x0
        BY <2>1, <3>1 DEF a0, b0, a1, b1, First, Last, flip
      <4>2. s.y0 > s.y1 BY <3>1, <1>1
      <4>3. line_FULL(s) = Transposed(Walk(s.y1, s.y0, s.x1, s.x0))
        BY <2>1, <4>2 DEF line_FULL, spin
      <4> QED BY <2>1, <4>1, <4>3
    <3>2. CASE ~ (s.y1 < s.y0)
      <4>1. a0(s) = s.y0 /\ b0(s) = s.x0 /\ a1(s) = s.y1 /\ b1(s) = s.x1
        BY <2>1, <3>2 DEF a0, b0, a1, b1, First, Last, flip
      <4>2. ~ (s.y0 > s.y1) BY <3>2, <1>1
      <4>3. line_FULL(s) = Transposed(Walk(s.y0, s.y1, s.x0, s.x1))
        BY <2>1, <4>2 DEF line_FULL, spin
      <4> QED BY <2>1, <4>1, <4>3
    <3> QED BY <3>1, <3>2
  <2>2. CASE ~ spin(s)
    <3>1. CASE s.x1 < s.x0
      <4>1. a0(s) = s.x1 /\ b0(s) = s.y1 /\ a1(s) = s.x0 /\ b1(s) = s.y0
        BY <2>2, <3>1 DEF a0, b0, a1, b1, First, Last, flip
      <4>2. s.x0 > s.x1 BY <3>1, <1>1
      <4>3. line_FULL(s) = Walk(s.x1, s.x0, s.y1, s.y0)
        BY <2>2, <4>2 DEF line_FULL, spin
      <4> QED BY <2>2, <4>1, <4>3
    <3>2. CASE ~ (s.x1 < s.x0)
      <4>1. a0(s) = s.x0 /\ b0(s) = s.y0 /\ a1(s) = s.x1 /\ b1(s) = s.y1
        BY <2>2, <3>2 DEF a0, b0, a1, b1, First, Last, flip
      <4>2. ~ (s.x0 > s.x1) BY <3>2, <1>1
      <4>3. line_FULL(s) = Walk(s.x0, s.x1, s.y0, s.y1)
        BY <2>2, <4>2 DEF line_FULL, spin
      <4> QED BY <2>2, <4>1, <4>3
    <3> QED BY <3>1, <3>2
  <2> QED BY <2>1, <2>2
<1>4. (Magnitude(s.y1 - s.y0) > Magnitude(s.x1 - s.x0)) <=> spin(s)
  BY <1>1 DEF spin, Magnitude, Distance, Larger, Smaller
<1>5. line_ORIG(s) = IF spin(s) THEN Transposed(W) ELSE W
  <2> DEFINE t == IF spin(s) THEN [s EXCEPT !.x0 = s.y0, !.y0 = s.x0, !.x1 = s.y1, !.y1 = s.x1]
                             ELSE s
             u == IF t.x0 > t.x1 THEN [t EXCEPT !.x0 = t.x1, !.x1 = t.x0, !.y0 = t.y1, !.y1 = t.y0]
                                 ELSE t
  <2>1. line_ORIG(s) = IF spin(s) THEN Transposed(Walk(u.x0, u.x1, u.y0, u.y1))
                                  ELSE Walk(u.x0, u.x1, u.y0, u.y1)
    <3>1. CASE spin(s)
      <4>1. Magnitude(s.y1 - s.y0) > Magnitude(s.x1 - s.x0) BY <3>1, <1>4
      <4> QED BY <3>1, <4>1 DEF line_ORIG
    <3>2. CASE ~ spin(s)
      <4>1. ~ (Magnitude(s.y1 - s.y0) > Magnitude(s.x1 - s.x0)) BY <3>2, <1>4
      <4> QED BY <3>2, <4>1 DEF line_ORIG
    <3> QED BY <3>1, <3>2
  <2>2. /\ t.x0 = (IF spin(s) THEN s.y0 ELSE s.x0) /\ t.x1 = (IF spin(s) THEN s.y1 ELSE s.x1)
        /\ t.y0 = (IF spin(s) THEN s.x0 ELSE s.y0) /\ t.y1 = (IF spin(s) THEN s.x1 ELSE s.y1)
        /\ t = [op |-> t.op, x0 |-> t.x0, y0 |-> t.y0, x1 |-> t.x1, y1 |-> t.y1, fill |-> t.fill]
    BY ShapesAssumption DEF AllShapes
  <2>3. (t.x0 > t.x1) <=> flip(s)
    <3> HIDE DEF t
    <3> QED BY <1>1, <2>2 DEF flip
  <2>4. /\ u.x0 = (IF flip(s) THEN t.x1 ELSE t.x0) /\ u.x1 = (IF flip(s) THEN t.x0 ELSE t.x1)
        /\ u.y0 = (IF flip(s) THEN t.y1 ELSE t.y0) /\ u.y1 = (IF flip(s) THEN t.y0 ELSE t.y1)
    <3> HIDE DEF t
    <3>1. CASE flip(s) BY <3>1, <2>2, <2>3
    <3>2. CASE ~ flip(s) BY <3>2, <2>3
    <3> QED BY <3>1, <3>2
  <2> HIDE DEF t, u
  <2>5. u.x0 = a0(s) /\ u.x1 = a1(s) /\ u.y0 = b0(s) /\ u.y1 = b1(s)
    BY <2>2, <2>4 DEF a0, b0, a1, b1, First, Last
  <2> QED BY <2>1, <2>5
<1>6. ASSUME s.x0 <= s.x1, ~ spin(s)
      PROVE  /\ a0(s) = s.x0 /\ b0(s) = s.y0 /\ a1(s) = s.x1 /\ b1(s) = s.y1
             /\ line_UI32(s) = L /\ line_MINI(s) = L
  <2>1. ~ flip(s) BY <1>1, <1>6 DEF flip
  <2>2. a0(s) = s.x0 /\ b0(s) = s.y0 /\ a1(s) = s.x1 /\ b1(s) = s.y1
    BY <2>1, <1>6 DEF a0, b0, a1, b1, First, Last
  <2> HIDE DEF L
  <2> QED BY <1>2, <1>6, <2>2, Zenon DEF line_UI32, line_MINI
<1>7. ASSUME s.x0 <= s.x1, ~ spin(s), s.y0 = s.y1
      PROVE  line_FLAT(s) = L
  <2>1. a0(s) = s.x0 /\ b0(s) = s.y0 /\ a1(s) = s.x1 /\ b1(s) = s.y1 BY <1>6, <1>7
  <2>2. -negB(s) = 0
    <3>1. -negB(s) = Distance(s.y0, s.y0) BY <2>1, <1>7, LineNumbers
    <3> QED BY <3>1, <1>1 DEF Distance, Larger, Smaller
  <2>3. errA(s) = s.x1 - s.x0 /\ errA(s) \in Nat BY <2>1, LineNumbers DEF errA
  <2>4. \A k \in 0..errA(s), j \in Int : Nearest(errA(s), 0, k, j) <=> j = 0
    <3> SUFFICES ASSUME NEW k \in 0..errA(s), NEW j \in Int
                 PROVE  Nearest(errA(s), 0, k, j) <=> j = 0
      OBVIOUS
    <3>1. k \in Nat /\ 0 * k = 0 /\ errA(s) * 0 = 0 BY <2>3
    <3>2. Nearest(errA(s), 0, k, 0) BY <2>3, <3>1 DEF Nearest
    <3> QED BY <2>3, <3>1, <3>2, OneNearest
  <2>5. \A k \in 0..errA(s) : PointAt(s, k, 0) = <<s.x0 + k, s.y0>>
    <3>1. s.y0 + offB(s) * 0 = s.y0 BY <1>1, LineNumbers
    <3> QED BY <1>7, <2>1, <3>1, Zenon DEF PointAt
  <2>6. ASSUME NEW p \in L PROVE p \in line_FLAT(s)
    <3>1. PICK k \in 0..errA(s), j \in Int : p = PointAt(s, k, j) /\ Nearest(errA(s), -negB(s), k, j)
      <4>1. (errA(s) + 1) - 1 = errA(s) BY <2>3
      <4> QED BY <4>1 DEF LinePoints
    <3>2. j = 0 BY <2>2, <2>4, <3>1
    <3>3. p = <<s.x0 + k, s.y0>> BY <2>5, <3>1, <3>2
    <3>4. s.x0 + k \in s.x0..s.x1 BY <1>1, <2>3
    <3> QED BY <3>3, <3>4 DEF line_FLAT
  <2>7. ASSUME NEW x \in s.x0..s.x1 PROVE <<x, s.y0>> \in L
    <3>1. x - s.x0 \in 0..errA(s) /\ s.x0 + (x - s.x0) = x /\ (errA(s) + 1) - 1 = errA(s)
      BY <1>1, <2>3
    <3>2. PointAt(s, x - s.x0, 0) = <<x, s.y0>> BY <2>5, <3>1
    <3>3. Nearest(errA(s), -negB(s), x - s.x0, 0) BY <2>2, <2>4, <3>1
    <3>4. <<x, s.y0>> \in Int \X Int /\ 0 \in Int BY <1>1
    <3> QED BY <3>1, <3>2, <3>3, <3>4, Zenon DEF LinePoints
  <2> HIDE DEF L
  <2> QED BY <2>6, <2>7 DEF line_FLAT
<1> HIDE DEF W, L
<1> QED BY <1>2, <1>3, <1>5, <1>6, <1>7, Zenon DEF L
-----------------------------------------------------------------------------
(* Lines drawn by Vizard *)

Sign(m, n) == IF m < n THEN 1 ELSE -1

\* Where Vizard stands after k steps in the longer and j in the shorter
\* coordinate, and its error.
VizardAt(s, A, n, k, j) ==
  IF spin(s)
  THEN [x |-> s.x0 + Sign(s.x0, s.x1) * j, y |-> s.y0 + Sign(s.y0, s.y1) * k,
        error |-> n * (k + 1) - A * (j + 1)]
  ELSE [x |-> s.x0 + Sign(s.x0, s.x1) * k, y |-> s.y0 + Sign(s.y0, s.y1) * j,
        error |-> A * (j + 1) - n * (k + 1)]

\* The longer side of a line and the shorter one.
LEMMA Sides ==
  ASSUME NEW s \in Shapes
  PROVE  /\ s.x0 \in Nat /\ s.y0 \in Nat /\ s.x1 \in Nat /\ s.y1 \in Nat
         /\ Distance(s.x0, s.x1) = IF spin(s) THEN -negB(s) ELSE errA(s)
         /\ Distance(s.y0, s.y1) = IF spin(s) THEN errA(s) ELSE -negB(s)
         /\ a0(s) = (IF spin(s) THEN (IF flip(s) THEN s.y1 ELSE s.y0)
                                ELSE (IF flip(s) THEN s.x1 ELSE s.x0))
         /\ b0(s) = (IF spin(s) THEN (IF flip(s) THEN s.x1 ELSE s.x0)
                                ELSE (IF flip(s) THEN s.y1 ELSE s.y0))
         /\ a1(s) = (IF spin(s) THEN (IF flip(s) THEN s.y0 ELSE s.y1)
                                ELSE (IF flip(s) THEN s.x0 ELSE s.x1))
         /\ b1(s) = (IF spin(s) THEN (IF flip(s) THEN s.x0 ELSE s.x1)
                                ELSE (IF flip(s) THEN s.y0 ELSE s.y1))
         /\ flip(s) <=> IF spin(s) THEN s.y1 < s.y0 ELSE s.x1 < s.x0
<1>1. s.x0 \in Nat /\ s.y0 \in Nat /\ s.x1 \in Nat /\ s.y1 \in Nat
  BY ShapesAssumption DEF AllShapes
<1>2. /\ a0(s) = (IF spin(s) THEN (IF flip(s) THEN s.y1 ELSE s.y0)
                             ELSE (IF flip(s) THEN s.x1 ELSE s.x0))
      /\ b0(s) = (IF spin(s) THEN (IF flip(s) THEN s.x1 ELSE s.x0)
                             ELSE (IF flip(s) THEN s.y1 ELSE s.y0))
      /\ a1(s) = (IF spin(s) THEN (IF flip(s) THEN s.y0 ELSE s.y1)
                             ELSE (IF flip(s) THEN s.x0 ELSE s.x1))
      /\ b1(s) = (IF spin(s) THEN (IF flip(s) THEN s.x0 ELSE s.x1)
                             ELSE (IF flip(s) THEN s.y0 ELSE s.y1))
  BY DEF a0, b0, a1, b1, First, Last
<1>3. flip(s) <=> IF spin(s) THEN s.y1 < s.y0 ELSE s.x1 < s.x0
  BY DEF flip
<1>4. errA(s) = a1(s) - a0(s) /\ -negB(s) = Distance(b0(s), b1(s))
  BY LineNumbers DEF errA
<1>5. errA(s) = IF spin(s) THEN Distance(s.y0, s.y1) ELSE Distance(s.x0, s.x1)
  BY <1>1, <1>2, <1>3, <1>4 DEF Distance, Larger, Smaller
<1>6. -negB(s) = IF spin(s) THEN Distance(s.x0, s.x1) ELSE Distance(s.y0, s.y1)
  BY <1>1, <1>2, <1>4 DEF Distance, Larger, Smaller
<1> QED BY <1>1, <1>2, <1>3, <1>5, <1>6

\* A step takes Vizard one pixel along the longer coordinate, to the nearest
\* pixel.
LEMMA VizardSteps ==
  ASSUME NEW s \in Shapes, NEW A \in Nat, NEW n \in Nat, n <= A, NEW k \in Nat, k < A,
         NEW j \in Int, NearestLast(A, n, k, j),
         Distance(s.x0, s.x1) = (IF spin(s) THEN n ELSE A),
         Distance(s.y0, s.y1) = (IF spin(s) THEN A ELSE n)
  PROVE  \E i \in Int :
           /\ NearestLast(A, n, k + 1, i)
           /\ draw_step(VizardAt(s, A, n, k, j), Distance(s.x0, s.x1), -Distance(s.y0, s.y1),
                        Sign(s.x0, s.x1), Sign(s.y0, s.y1))
                = VizardAt(s, A, n, k + 1, i)
<1> DEFINE sx == Sign(s.x0, s.x1)
           sy == Sign(s.y0, s.y1)
           dx == Distance(s.x0, s.x1)
           dy == -Distance(s.y0, s.y1)
           p == VizardAt(s, A, n, k, j)
           q == draw_step(p, dx, dy, sx, sy)
<1>1. PICK u \in Int : u = A * j OBVIOUS
<1>2. PICK v \in Int : v = n * k OBVIOUS
<1>3. /\ A * (j + 1) = u + A /\ n * (k + 1) = v + n
      /\ A * ((j + 1) + 1) = u + 2 * A /\ n * ((k + 1) + 1) = v + 2 * n
  BY <1>1, <1>2
<1>4. A # 0 /\ -A < 2 * (u - v) /\ 2 * (u - v) <= A
  BY <1>1, <1>2 DEF NearestLast
<1>5. /\ s.x0 \in Int /\ s.y0 \in Int /\ sx \in {1, -1} /\ sy \in {1, -1}
      /\ sx \in Int /\ sy \in Int
  BY Sides DEF Sign
<1>6. /\ sx * (j + 1) = sx * j + sx /\ sx * (k + 1) = sx * k + sx
      /\ sy * (j + 1) = sy * j + sy /\ sy * (k + 1) = sy * k + sy
      /\ sx * j \in Int /\ sx * k \in Int /\ sy * j \in Int /\ sy * k \in Int
  BY <1>5
<1>12. /\ s.x0 + sx * (j + 1) = (s.x0 + sx * j) + sx /\ s.x0 + sx * (k + 1) = (s.x0 + sx * k) + sx
       /\ s.y0 + sy * (j + 1) = (s.y0 + sy * j) + sy /\ s.y0 + sy * (k + 1) = (s.y0 + sy * k) + sy
       /\ s.x0 + sx * j = (s.x0 + sx * j) + 0 /\ s.y0 + sy * j = (s.y0 + sy * j) + 0
  <2>1. ASSUME NEW c \in Int, NEW t \in {1, -1}, NEW i \in Int
        PROVE  c + t * (i + 1) = (c + t * i) + t
    <3>1. CASE t = 1 BY <3>1
    <3>2. CASE t = -1
      <4>1. (-1) * (i + 1) = -i - 1 /\ (-1) * i = -i OBVIOUS
      <4>2. c + (-i - 1) = (c + (-i)) + (-1) OBVIOUS
      <4> QED BY <3>2, <4>1, <4>2, Zenon
    <3> QED BY <3>1, <3>2
  <2>2. \A c, d \in Int : c + d = (c + d) + 0 OBVIOUS
  <2>3. j \in Int /\ k \in Int OBVIOUS
  <2> HIDE DEF sx, sy
  <2>4. s.x0 + sx * (j + 1) = (s.x0 + sx * j) + sx BY <1>5, <2>1, <2>3, ZenonT(40)
  <2>5. s.x0 + sx * (k + 1) = (s.x0 + sx * k) + sx BY <1>5, <2>1, <2>3, ZenonT(40)
  <2>6. s.y0 + sy * (j + 1) = (s.y0 + sy * j) + sy BY <1>5, <2>1, <2>3, ZenonT(40)
  <2>7. s.y0 + sy * (k + 1) = (s.y0 + sy * k) + sy BY <1>5, <2>1, <2>3, ZenonT(40)
  <2>8. s.x0 + sx * j = (s.x0 + sx * j) + 0 BY <1>5, <1>6, <2>2, Zenon
  <2>9. s.y0 + sy * j = (s.y0 + sy * j) + 0 BY <1>5, <1>6, <2>2, Zenon
  <2> QED BY <2>4, <2>5, <2>6, <2>7, <2>8, <2>9, Zenon
<1>7. q = [x |-> p.x + (IF 2 * p.error >= dy THEN sx ELSE 0),
           y |-> p.y + (IF 2 * p.error <= dx THEN sy ELSE 0),
           error |-> p.error + (IF 2 * p.error >= dy THEN dy ELSE 0)
                             + (IF 2 * p.error <= dx THEN dx ELSE 0)]
  BY Zenon DEF draw_step
<1> DEFINE more == 2 * (u - v - n) <= -A
           i == IF more THEN j + 1 ELSE j
           r == VizardAt(s, A, n, k + 1, i)
<1>8. i \in Int OBVIOUS
<1>9. NearestLast(A, n, k + 1, i)
  <2>1. CASE more
    <3>1. -A < 2 * ((u + A) - (v + n)) /\ 2 * ((u + A) - (v + n)) <= A BY <1>4, <2>1
    <3> QED BY <1>3, <1>4, <2>1, <3>1 DEF NearestLast
  <2>2. CASE ~ more
    <3>1. -A < 2 * (u - (v + n)) /\ 2 * (u - (v + n)) <= A BY <1>4, <2>2
    <3> QED BY <1>1, <1>3, <1>4, <2>2, <3>1 DEF NearestLast
  <2> QED BY <2>1, <2>2
<1>10. q = r
  <2>1. CASE spin(s)
    <3>1. p = [x |-> s.x0 + sx * j, y |-> s.y0 + sy * k, error |-> (v + n) - (u + A)]
      BY <1>3, <2>1 DEF VizardAt
    <3>2. dx = n /\ dy = -A BY <2>1
    <3>3. 2 * ((v + n) - (u + A)) <= n /\ (2 * ((v + n) - (u + A)) >= -A <=> more) BY <1>4
    <3> HIDE DEF p, q, dx, dy, more, r, sx, sy
    <3>4. q = [x |-> (s.x0 + sx * j) + (IF more THEN sx ELSE 0), y |-> (s.y0 + sy * k) + sy,
               error |-> ((v + n) - (u + A)) + (IF more THEN -A ELSE 0) + n]
      BY <1>7, <3>1, <3>2, <3>3
    <3>5. CASE more
      <4>1. r = [x |-> s.x0 + sx * (j + 1), y |-> s.y0 + sy * (k + 1),
                 error |-> (v + 2 * n) - (u + 2 * A)]
        BY <1>3, <2>1, <3>5, Zenon DEF VizardAt, r, sx, sy
      <4>2. (v + 2 * n) - (u + 2 * A) = ((v + n) - (u + A)) + (-A) + n
        OBVIOUS
      <4> QED BY <1>12, <3>4, <3>5, <4>1, <4>2, Zenon
    <3>6. CASE ~ more
      <4>1. r = [x |-> s.x0 + sx * j, y |-> s.y0 + sy * (k + 1),
                 error |-> (v + 2 * n) - (u + A)]
        BY <1>3, <2>1, <3>6, Zenon DEF VizardAt, r, sx, sy
      <4>2. (v + 2 * n) - (u + A) = ((v + n) - (u + A)) + 0 + n
        OBVIOUS
      <4> QED BY <1>12, <3>4, <3>6, <4>1, <4>2, Zenon
    <3> QED BY <3>5, <3>6
  <2>2. CASE ~ spin(s)
    <3>1. p = [x |-> s.x0 + sx * k, y |-> s.y0 + sy * j, error |-> (u + A) - (v + n)]
      BY <1>3, <2>2 DEF VizardAt
    <3>2. dx = A /\ dy = -n BY <2>2
    <3>3. 2 * ((u + A) - (v + n)) >= -n /\ (2 * ((u + A) - (v + n)) <= A <=> more) BY <1>4
    <3> HIDE DEF p, q, dx, dy, more, r, sx, sy
    <3>4. q = [x |-> (s.x0 + sx * k) + sx, y |-> (s.y0 + sy * j) + (IF more THEN sy ELSE 0),
               error |-> ((u + A) - (v + n)) + (-n) + (IF more THEN A ELSE 0)]
      BY <1>7, <3>1, <3>2, <3>3
    <3>5. CASE more
      <4>1. r = [x |-> s.x0 + sx * (k + 1), y |-> s.y0 + sy * (j + 1),
                 error |-> (u + 2 * A) - (v + 2 * n)]
        BY <1>3, <2>2, <3>5, Zenon DEF VizardAt, r, sx, sy
      <4>2. (u + 2 * A) - (v + 2 * n) = ((u + A) - (v + n)) + (-n) + A
        OBVIOUS
      <4> QED BY <1>12, <3>4, <3>5, <4>1, <4>2, Zenon
    <3>6. CASE ~ more
      <4>1. r = [x |-> s.x0 + sx * (k + 1), y |-> s.y0 + sy * j,
                 error |-> (u + A) - (v + 2 * n)]
        BY <1>3, <2>2, <3>6, Zenon DEF VizardAt, r, sx, sy
      <4>2. (u + A) - (v + 2 * n) = ((u + A) - (v + n)) + (-n) + 0
        OBVIOUS
      <4> QED BY <1>12, <3>4, <3>6, <4>1, <4>2, Zenon
    <3> QED BY <3>5, <3>6
  <2> QED BY <2>1, <2>2
<1> HIDE DEF i, q
<1> QED BY <1>8, <1>9, <1>10 DEF q

\* A coordinate reaches the other end with the last step.
LEMMA Reaches ==
  ASSUME NEW c \in Nat, NEW d \in Nat, NEW k \in Nat, k <= Distance(c, d)
  PROVE  c + Sign(c, d) * k = d <=> k = Distance(c, d)
<1>1. CASE c < d
  <2>1. Sign(c, d) * k = k /\ Distance(c, d) = d - c
    BY <1>1 DEF Sign, Distance, Larger, Smaller
  <2> QED BY <2>1
<1>2. CASE ~ (c < d)
  <2>1. Sign(c, d) * k = -k /\ Distance(c, d) = c - d
    BY <1>2 DEF Sign, Distance, Larger, Smaller
  <2> QED BY <2>1
<1> QED BY <1>1, <1>2

\* Vizard is at the end after as many steps as the longer side has.
LEMMA VizardArrives ==
  ASSUME NEW s \in Shapes, NEW A \in Nat, NEW n \in Nat, n <= A, NEW k \in 0..A,
         NEW j \in Int, NearestLast(A, n, k, j),
         Distance(s.x0, s.x1) = (IF spin(s) THEN n ELSE A),
         Distance(s.y0, s.y1) = (IF spin(s) THEN A ELSE n)
  PROVE  /\ k = A => j = n
         /\ VizardAt(s, A, n, k, j).x = s.x1 /\ VizardAt(s, A, n, k, j).y = s.y1 <=> k = A
<1>1. s.x0 \in Nat /\ s.y0 \in Nat /\ s.x1 \in Nat /\ s.y1 \in Nat BY Sides
<1>2. ASSUME k = A PROVE j = n
  <2>1. NearestLast(A, n, A, n)
    <3>1. A * n - n * A = 0 OBVIOUS
    <3> QED BY <3>1 DEF NearestLast
  <2> QED BY <1>2, <2>1, OneNearest
<1>3. /\ VizardAt(s, A, n, k, j).x = s.x0 + Sign(s.x0, s.x1) * (IF spin(s) THEN j ELSE k)
      /\ VizardAt(s, A, n, k, j).y = s.y0 + Sign(s.y0, s.y1) * (IF spin(s) THEN k ELSE j)
  BY DEF VizardAt
<1>4. CASE spin(s)
  <2>1. s.y0 + Sign(s.y0, s.y1) * k = s.y1 <=> k = A BY <1>1, <1>4, Reaches
  <2>2. k = A => s.x0 + Sign(s.x0, s.x1) * j = s.x1 BY <1>1, <1>2, <1>4, Reaches
  <2> QED BY <1>2, <1>3, <1>4, <2>1, <2>2, Zenon
<1>5. CASE ~ spin(s)
  <2>1. s.x0 + Sign(s.x0, s.x1) * k = s.x1 <=> k = A BY <1>1, <1>5, Reaches
  <2>2. k = A => s.y0 + Sign(s.y0, s.y1) * j = s.y1 BY <1>1, <1>2, <1>5, Reaches
  <2> QED BY <1>2, <1>3, <1>5, <2>1, <2>2, Zenon
<1> QED BY <1>4, <1>5

VizardPoints(s) ==
  {p \in Int \X Int : \E k \in 0..errA(s), j \in Int :
     /\ NearestLast(errA(s), -negB(s), k, j)
     /\ p = <<VizardAt(s, errA(s), -negB(s), k, j).x, VizardAt(s, errA(s), -negB(s), k, j).y>>}

\* The pixels Vizard draws.
LEMMA VizardDraws ==
  ASSUME NEW s \in Shapes
  PROVE  draw_line(s) = VizardPoints(s)
<1> DEFINE A == errA(s)
           n == -negB(s)
           dx == Distance(s.x0, s.x1)
           dy == -Distance(s.y0, s.y1)
           sx == Sign(s.x0, s.x1)
           sy == Sign(s.y0, s.y1)
           X == [x : Int, y : Int, error : Int]
           base == [x |-> s.x0, y |-> s.y0, error |-> dx + dy]
           T(p) == IF p.x = s.x1 /\ p.y = s.y1 THEN p ELSE draw_step(p, dx, dy, sx, sy)
           N == dx - dy
           Is(h) == h = [i \in 0..N |-> IF i = 0 THEN base ELSE T(h[i - 1])]
           Step == [k \in Nat |-> [p \in X |-> T(p)]]
           at == CHOOSE h : Is(h)
<1>1. /\ A \in Nat /\ n \in Nat /\ n <= A
      /\ s.x0 \in Nat /\ s.y0 \in Nat /\ s.x1 \in Nat /\ s.y1 \in Nat
      /\ dx = (IF spin(s) THEN n ELSE A) /\ Distance(s.y0, s.y1) = (IF spin(s) THEN A ELSE n)
  BY LineNumbers, Sides
<1>2. dx \in Int /\ dy \in Int /\ sx \in Int /\ sy \in Int /\ N = A + n
  BY <1>1 DEF Sign
<1>3. base \in X BY <1>1, <1>2
<1>4. ASSUME NEW p \in X PROVE T(p) \in X
  <2>1. draw_step(p, dx, dy, sx, sy) \in X
    <3> HIDE DEF dx, dy, sx, sy
    <3> QED BY <1>2 DEF draw_step
  <2> HIDE DEF X, dx, dy, sx, sy
  <2> QED BY <2>1
<1>5. draw_line(s) = {<<at[i].x, at[i].y>> : i \in 0..N}
  BY Zenon DEF draw_line, Sign
<1> HIDE DEF T, X, base, N
<1>6. PICK h \in [0..N -> X] : FirstOf(h, N, base, Step)
  <2>1. Step \in [Nat -> [X -> X]] BY <1>4
  <2>2. N \in Nat BY <1>1, <1>2
  <2> HIDE DEF Step
  <2> QED BY <1>3, <2>1, <2>2, FirstTurns
<1>7. Is(h)
  <2>1. ASSUME NEW i \in 0..N
        PROVE  h[i] = IF i = 0 THEN base ELSE T(h[i - 1])
    <3>1. h[i] = IF i = 0 THEN base ELSE Step[i][h[i - 1]]
      <4> HIDE DEF Step
      <4> QED BY <1>6 DEF FirstOf
    <3>2. CASE i = 0 BY <3>1, <3>2
    <3>3. CASE i # 0
      <4>1. i - 1 \in 0..N /\ i \in Nat BY <1>1, <1>2, <3>3
      <4>2. h[i - 1] \in X BY <4>1
      <4>3. Step[i][h[i - 1]] = T(h[i - 1]) BY <4>1, <4>2
      <4> HIDE DEF Step
      <4> QED BY <3>1, <3>3, <4>3, Zenon
    <3> QED BY <3>2, <3>3
  <2>2. h = [i \in 0..N |-> h[i]] OBVIOUS
  <2> QED BY <2>1, <2>2, Zenon
<1>8. Is(at)
  <2> HIDE DEF Is
  <2> QED BY <1>7
<1> HIDE DEF at
<1>9. \A i \in 0..N : at[i] = IF i = 0 THEN base ELSE T(at[i - 1])
  BY <1>8, Zenon
<1> DEFINE V(k, j) == VizardAt(s, A, n, k, j)
           Good(i) == \E k \in 0..A, j \in Int :
                        /\ k = (IF i <= A THEN i ELSE A) /\ NearestLast(A, n, k, j) /\ at[i] = V(k, j)
           S == {i \in Nat : i <= N => Good(i)}
<1>10. 0 \in S
  <2>1. at[0] = base BY <1>1, <1>2, <1>9
  <2>2. base = V(0, 0)
    <3>1. /\ A * (0 + 1) = A /\ n * (0 + 1) = n
          /\ s.x0 + sx * 0 = s.x0 /\ s.y0 + sy * 0 = s.y0
      BY <1>1, <1>2
    <3>2. dx + dy = IF spin(s) THEN n - A ELSE A - n BY <1>1
    <3> HIDE DEF A, n, dx, dy
    <3> QED BY <3>1, <3>2 DEF VizardAt, base
  <2>3. NearestLast(A, n, 0, 0)
    <3>1. A * 0 = 0 /\ n * 0 = 0 BY <1>1
    <3> QED BY <1>1, <3>1 DEF NearestLast
  <2>4. 0 \in 0..A /\ 0 \in Int /\ 0 = (IF 0 <= A THEN 0 ELSE A) BY <1>1
  <2> HIDE DEF V, A, n
  <2>5. Good(0) BY <2>1, <2>2, <2>3, <2>4, Zenon
  <2> QED BY <2>5
<1>11. ASSUME NEW i \in Nat, i \in S PROVE i + 1 \in S
  <2> SUFFICES ASSUME i + 1 <= N PROVE Good(i + 1) OBVIOUS
  <2>0. N \in Nat /\ i <= N /\ i + 1 \in 0..N /\ i + 1 # 0 /\ (i + 1) - 1 = i BY <1>1, <1>2
  <2>1. Good(i) BY <1>11, <2>0
  <2>2. PICK k \in 0..A, j \in Int :
          k = (IF i <= A THEN i ELSE A) /\ NearestLast(A, n, k, j) /\ at[i] = V(k, j)
    BY <2>1
  <2>3. at[i + 1] = T(at[i]) BY <1>9, <2>0, Zenon
  <2>4. k = A => j = n
    <3> HIDE DEF A, n
    <3> QED BY <1>1, <2>2, VizardArrives
  <2>5. V(k, j).x = s.x1 /\ V(k, j).y = s.y1 <=> k = A
    <3> HIDE DEF A, n
    <3> QED BY <1>1, <2>2, VizardArrives
  <2> HIDE DEF S, A, n, dx, dy, sx, sy
  <2>6. CASE k = A
    <3>1. at[i + 1] = V(k, j)
      <4> HIDE DEF V
      <4> QED BY <2>2, <2>3, <2>5, <2>6, Zenon DEF T
    <3>2. k = (IF i + 1 <= A THEN i + 1 ELSE A) BY <1>1, <2>2, <2>6
    <3> QED BY <2>2, <3>1, <3>2, Zenon
  <2>7. CASE k # A
    <3>1. k = i /\ k < A /\ k \in Nat BY <1>1, <2>2, <2>7
    <3>2. at[i + 1] = draw_step(V(k, j), dx, dy, sx, sy)
      <4> HIDE DEF V
      <4> QED BY <2>2, <2>3, <2>5, <2>7, Zenon DEF T
    <3>3. PICK l \in Int : NearestLast(A, n, k + 1, l) /\ draw_step(V(k, j), dx, dy, sx, sy) = V(k + 1, l)
      BY <1>1, <2>2, <3>1, VizardSteps DEF dx, dy, sx, sy
    <3>4. k + 1 \in 0..A /\ k + 1 = (IF i + 1 <= A THEN i + 1 ELSE A) BY <1>1, <3>1
    <3> HIDE DEF V
    <3> QED BY <3>2, <3>3, <3>4, Zenon
  <2> QED BY <2>6, <2>7
<1> HIDE DEF S
<1>12. \A i \in Nat : i \in S BY <1>10, <1>11, Inductive
<1> HIDE DEF V, A, n
<1>13. \A i \in 0..N : Good(i)
  <2>1. \A i \in 0..N : i \in Nat /\ i <= N BY <1>1, <1>2
  <2> HIDE DEF Good
  <2> QED BY <1>12, <2>1 DEF S
<1>14. ASSUME NEW i \in 0..N PROVE <<at[i].x, at[i].y>> \in VizardPoints(s)
  <2>1. PICK k \in 0..A, j \in Int : NearestLast(A, n, k, j) /\ at[i] = V(k, j)
    BY <1>13
  <2>2. V(k, j).x \in Int /\ V(k, j).y \in Int
    <3>1. s.x0 + sx * k \in Int /\ s.x0 + sx * j \in Int /\ s.y0 + sy * k \in Int /\ s.y0 + sy * j \in Int
      BY <1>1, <1>2, SMTT(30)
    <3> QED BY <3>1 DEF V, VizardAt
  <2> QED BY <2>1, <2>2 DEF VizardPoints, V, A, n
<1>15. ASSUME NEW p \in VizardPoints(s) PROVE \E i \in 0..N : p = <<at[i].x, at[i].y>>
  <2>1. PICK k \in 0..A, j \in Int : NearestLast(A, n, k, j) /\ p = <<V(k, j).x, V(k, j).y>>
    BY DEF VizardPoints, V, A, n
  <2>2. k \in 0..N /\ k <= A BY <1>1, <1>2
  <2>3. PICK i \in Int : NearestLast(A, n, k, i) /\ at[k] = V(k, i)
    BY <1>13, <2>2
  <2>4. i = j BY <1>1, <2>1, <2>3, OneNearest
  <2> QED BY <2>1, <2>2, <2>3, <2>4
<1> HIDE DEF N
<1> QED BY <1>5, <1>14, <1>15

\* The nearest pixels are between the ends.
LEMMA StepsInside ==
  ASSUME NEW A \in Nat, NEW n \in Nat, n <= A, NEW k \in 0..A, NEW j \in Int, Nearest(A, n, k, j)
  PROVE  j \in 0..n
<1>1. CASE A = 0 BY <1>1 DEF Nearest
<1>2. CASE A # 0
  <2>1. -A <= 2 * (A * j - n * k) /\ 2 * (A * j - n * k) < A
    BY <1>2 DEF Nearest
  <2>2. PICK u \in Int : u = A * j OBVIOUS
  <2>3. PICK v \in Nat : v = n * k OBVIOUS
  <2>4. ~ (j <= -1)
    <3>1. ASSUME j <= -1 PROVE FALSE
      <4>1. u = A * (j + 1) - A /\ A * (j + 1) <= 0 BY <3>1, <2>2
      <4> QED BY <2>1, <2>2, <2>3, <4>1, <1>2
    <3> QED BY <3>1
  <2>5. ~ (j >= n + 1)
    <3>1. ASSUME j >= n + 1 PROVE FALSE
      <4>1. PICK d \in Nat : j = n + 1 + d
        <5>1. j - (n + 1) \in Nat BY <3>1
        <5> QED BY <5>1
      <4>2. PICK e \in Nat : A = k + e
        <5>1. A - k \in Nat OBVIOUS
        <5> QED BY <5>1
      <4>3. A * (n + 1 + d) = A * n + A + A * d /\ A * d \in Nat OBVIOUS
      <4>4. n * (k + e) = n * k + n * e /\ n * e \in Nat /\ A * n = n * A OBVIOUS
      <4>5. u >= v + A
        <5>1. PICK x \in Nat : x = A * d BY <4>3
        <5>2. PICK y \in Nat : y = n * e BY <4>4
        <5>3. PICK z \in Nat : z = A * n OBVIOUS
        <5>4. u = z + A + x BY <2>2, <4>1, <4>3, <5>1, <5>3, Zenon
        <5>5. z = v + y BY <2>3, <4>2, <4>4, <5>2, <5>3, Zenon
        <5> QED BY <5>4, <5>5
      <4> QED BY <2>1, <2>2, <2>3, <4>5, <1>2
    <3> QED BY <3>1
  <2> QED BY <2>4, <2>5
<1> QED BY <1>1, <1>2

\* So is the line in the frame.
LEMMA LineInside ==
  ASSUME NEW s \in Shapes, s.op = "LINE", NEW k \in 0..errA(s), NEW j \in Int,
         Nearest(errA(s), -negB(s), k, j)
  PROVE  PointAt(s, k, j) \in Pixels
<1>1. /\ errA(s) \in Nat /\ -negB(s) \in Nat /\ -negB(s) <= errA(s)
      /\ a0(s) \in Int /\ b0(s) \in Int /\ a1(s) \in Int /\ b1(s) \in Int /\ offB(s) \in {1, -1}
      /\ a1(s) = a0(s) + errA(s) /\ b1(s) = b0(s) + offB(s) * (-negB(s))
  BY LineNumbers
<1>2. j \in 0..(-negB(s)) BY <1>1, StepsInside
<1>3. /\ s.x0 \in Nat /\ s.y0 \in Nat /\ s.x1 \in Nat /\ s.y1 \in Nat
      /\ s.x0 < Columns /\ s.y0 < Rows /\ s.x1 < Columns /\ s.y1 < Rows
      /\ Columns \in Nat /\ Rows \in Nat
  BY Sides, InsideAssumption, FrameAssumption
<1>4. PICK n \in Nat : n = -negB(s) BY <1>1
<1>5. offB(s) * j = (IF offB(s) = 1 THEN j ELSE -j)
      /\ offB(s) * n = (IF offB(s) = 1 THEN n ELSE -n)
  BY <1>1, SignedDistance
<1>6. \/ b0(s) <= b0(s) + offB(s) * j /\ b0(s) + offB(s) * j <= b1(s)
      \/ b1(s) <= b0(s) + offB(s) * j /\ b0(s) + offB(s) * j <= b0(s)
  <2>1. PICK w \in Int : w = offB(s) * j /\ w = (IF offB(s) = 1 THEN j ELSE -j) BY <1>1, <1>5
  <2>2. b1(s) = b0(s) + (IF offB(s) = 1 THEN n ELSE -n) BY <1>1, <1>4, <1>5
  <2> QED BY <1>1, <1>2, <1>4, <2>1, <2>2
<1>7. a0(s) <= a0(s) + k /\ a0(s) + k <= a1(s) BY <1>1
<1>8. b0(s) + offB(s) * j \in Int BY <1>1
<1> DEFINE a == a0(s) + k
           b == b0(s) + offB(s) * j
<1>9. a \in Int /\ b \in Int BY <1>1, <1>8
<1> HIDE DEF a, b
<1>10. /\ a0(s) <= a /\ a <= a1(s)
       /\ \/ b0(s) <= b /\ b <= b1(s)
          \/ b1(s) <= b /\ b <= b0(s)
  BY <1>6, <1>7, Zenon DEF a, b
<1>11. CASE spin(s)
  <2>1. b \in 0..(Columns - 1) /\ a \in 0..(Rows - 1)
    BY <1>3, <1>9, <1>10, <1>11, Sides
  <2> QED BY <1>11, <2>1 DEF PointAt, Pixels, a, b
<1>12. CASE ~ spin(s)
  <2>1. a \in 0..(Columns - 1) /\ b \in 0..(Rows - 1)
    BY <1>3, <1>9, <1>10, <1>12, Sides
  <2> QED BY <1>12, <2>1 DEF PointAt, Pixels, a, b
<1> QED BY <1>11, <1>12

\* A pixel and the next are equally near where a line has a tie, and only there.
LEMMA TieAt ==
  ASSUME NEW s \in Shapes, NEW k \in 0..errA(s), NEW j \in Int
  PROVE  /\ ~ Tie(s) => (Nearest(errA(s), -negB(s), k, j) <=> NearestLast(errA(s), -negB(s), k, j))
         /\ (2 * k * (-negB(s)) + errA(s)) = (2 * errA(s)) * (j + 1) /\ errA(s) # 0
              => Nearest(errA(s), -negB(s), k, j) /\ ~ NearestLast(errA(s), -negB(s), k, j)
<1> DEFINE A == errA(s)
           n == -negB(s)
<1>1. A \in Nat /\ n \in Nat /\ n = Distance(b0(s), b1(s)) BY LineNumbers
<1>2. PICK u \in Int : u = A * j BY <1>1
<1>3. k \in Nat BY <1>1
<1>4. PICK v \in Nat : v = n * k BY <1>1, <1>3
<1>5. 2 * k * n = 2 * v /\ (2 * A) * (j + 1) = 2 * u + 2 * A /\ (2 * A) * j = 2 * u
  <2>1. 2 * k * n = 2 * (n * k) BY <1>1, <1>3
  <2>2. (2 * A) * (j + 1) = 2 * (A * j) + 2 * A /\ (2 * A) * j = 2 * (A * j) BY <1>1
  <2> QED BY <1>2, <1>4, <2>1, <2>2, Zenon
<1> HIDE DEF A, n
<1>6. CASE A = 0 BY <1>6 DEF Nearest, NearestLast, A
<1>7. CASE A # 0
  <2>1. /\ Nearest(A, n, k, j) <=> -A <= 2 * (u - v) /\ 2 * (u - v) < A
        /\ NearestLast(A, n, k, j) <=> -A < 2 * (u - v) /\ 2 * (u - v) <= A
    BY <1>2, <1>4, <1>7, Zenon DEF Nearest, NearestLast
  <2>2. ASSUME ~ (Nearest(A, n, k, j) <=> NearestLast(A, n, k, j)) PROVE Tie(s)
    <3>1. 2 * v + A = 2 * u \/ 2 * v + A = 2 * u + 2 * A
      BY <1>1, <2>1, <2>2
    <3>2. PICK q \in Int : 2 * k * n + A = (2 * A) * q
      <4>1. CASE 2 * v + A = 2 * u
        <5>1. 2 * k * n + A = (2 * A) * j BY <1>5, <4>1, Zenon
        <5> QED BY <5>1
      <4>2. CASE 2 * v + A = 2 * u + 2 * A
        <5>1. 2 * k * n + A = (2 * A) * (j + 1) BY <1>5, <4>2, Zenon
        <5>2. j + 1 \in Int OBVIOUS
        <5> QED BY <5>1, <5>2
      <4> QED BY <3>1, <4>1, <4>2
    <3>3. (2 * k * n + A) % (2 * A) = 0
      <4>1. 2 * v + A \in Nat /\ 2 * A \in Nat \ {0} BY <1>1, <1>7
      <4>2. 2 * v + A = (2 * A) * q BY <1>5, <3>2, Zenon
      <4>3. q \in Nat
        <5>1. ASSUME q <= -1 PROVE FALSE
          <6>1. (2 * A) * q = (2 * A) * (q + 1) - 2 * A /\ (2 * A) * (q + 1) <= 0
            BY <1>1, <5>1
          <6>2. (2 * A) * q < 0 BY <1>1, <1>7, <6>1
          <6> QED BY <4>1, <4>2, <6>2
        <5> QED BY <5>1
      <4>4. ((2 * A) * q + 0) % (2 * A) = 0
        <5>1. 0 \in 0..(2 * A - 1) BY <1>1, <1>7
        <5> QED BY <4>1, <4>3, <5>1, RemainderOf
      <4>5. (2 * A) * q + 0 = 2 * k * n + A
        <5>1. (2 * A) * q \in Int BY <1>1
        <5>2. (2 * A) * q + 0 = (2 * A) * q BY <5>1
        <5> QED BY <5>2, <3>2
      <4> QED BY <4>4, <4>5
    <3>4. k \in 1..A
      <4>1. ASSUME k = 0 PROVE FALSE
        <5>1. v = 0 BY <1>1, <1>4, <4>1
        <5>2. CASE j <= -1
          <6>1. u = A * (j + 1) - A /\ A * (j + 1) <= 0 BY <1>1, <1>2, <5>2
          <6> QED BY <1>1, <1>7, <3>1, <5>1, <6>1
        <5>3. CASE j = 0 BY <1>1, <1>2, <1>7, <3>1, <5>1, <5>3
        <5>4. CASE j >= 1
          <6>1. u = A * (j - 1) + A /\ A * (j - 1) >= 0 BY <1>1, <1>2, <5>4
          <6> QED BY <1>1, <1>7, <3>1, <5>1, <6>1
        <5> QED BY <5>2, <5>3, <5>4
      <4> QED BY <1>1, <4>1 DEF A
    <3> QED BY <1>1, <3>3, <3>4 DEF Tie, A
  <2>3. ASSUME 2 * k * n + A = (2 * A) * (j + 1)
        PROVE  Nearest(A, n, k, j) /\ ~ NearestLast(A, n, k, j)
    <3>1. 2 * v + A = 2 * u + 2 * A BY <1>5, <2>3, Zenon
    <3> QED BY <1>1, <1>7, <2>1, <3>1
  <2> QED BY <2>2, <2>3 DEF A, n
<1> QED BY <1>6, <1>7

VizardPoint(s, k, j) ==
  <<VizardAt(s, errA(s), -negB(s), k, j).x, VizardAt(s, errA(s), -negB(s), k, j).y>>

\* From the lower end, Vizard stands where swline does.
LEMMA FromLower ==
  ASSUME NEW s \in Shapes, ~ flip(s), NEW k \in 0..errA(s), NEW j \in 0..(-negB(s))
  PROVE  VizardPoint(s, k, j) = PointAt(s, k, j)
<1>1. /\ errA(s) \in Nat /\ -negB(s) \in Nat
      /\ s.x0 \in Nat /\ s.y0 \in Nat /\ s.x1 \in Nat /\ s.y1 \in Nat
      /\ Distance(s.x0, s.x1) = IF spin(s) THEN -negB(s) ELSE errA(s)
      /\ Distance(s.y0, s.y1) = IF spin(s) THEN errA(s) ELSE -negB(s)
  BY LineNumbers, Sides
<1>2. VizardPoint(s, k, j)
        = IF spin(s) THEN <<s.x0 + Sign(s.x0, s.x1) * j, s.y0 + Sign(s.y0, s.y1) * k>>
                     ELSE <<s.x0 + Sign(s.x0, s.x1) * k, s.y0 + Sign(s.y0, s.y1) * j>>
  BY DEF VizardPoint, VizardAt
<1>3. \A c, d \in Nat, l \in Nat : c <= d /\ l <= Distance(c, d) => c + Sign(c, d) * l = c + l
  <2> SUFFICES ASSUME NEW c \in Nat, NEW d \in Nat, NEW l \in Nat, c <= d, l <= Distance(c, d)
               PROVE  c + Sign(c, d) * l = c + l
    OBVIOUS
  <2>1. CASE c < d
    <3>1. Sign(c, d) * l = l BY <2>1 DEF Sign
    <3> QED BY <3>1
  <2>2. CASE c = d
    <3>1. l = 0 BY <2>2 DEF Distance, Larger, Smaller
    <3>2. Sign(c, d) * 0 = 0 BY DEF Sign
    <3> QED BY <3>1, <3>2
  <2> QED BY <2>1, <2>2
<1>4. k \in Nat /\ j \in Nat /\ k <= errA(s) /\ j <= -negB(s) BY <1>1
<1>5. CASE spin(s)
  <2>1. a0(s) = s.y0 /\ b0(s) = s.x0 /\ b1(s) = s.x1 /\ s.y0 <= s.y1
    BY <1>1, <1>5, Sides
  <2>2. s.y0 + Sign(s.y0, s.y1) * k = s.y0 + k BY <1>1, <1>3, <1>4, <1>5, <2>1
  <2>3. offB(s) = Sign(s.x0, s.x1) BY <1>1, <2>1 DEF offB, Sign
  <2> QED BY <1>2, <1>5, <2>1, <2>2, <2>3, Zenon DEF PointAt
<1>6. CASE ~ spin(s)
  <2>1. a0(s) = s.x0 /\ b0(s) = s.y0 /\ b1(s) = s.y1 /\ s.x0 <= s.x1
    BY <1>1, <1>6, Sides
  <2>2. s.x0 + Sign(s.x0, s.x1) * k = s.x0 + k BY <1>1, <1>3, <1>4, <1>6, <2>1
  <2>3. offB(s) = Sign(s.y0, s.y1) BY <1>1, <2>1 DEF offB, Sign
  <2> QED BY <1>2, <1>6, <2>1, <2>2, <2>3, Zenon DEF PointAt
<1> QED BY <1>5, <1>6

\* From the upper end, it stands where swline does as many steps before its end.
LEMMA FromUpper ==
  ASSUME NEW s \in Shapes, flip(s), NEW k \in 0..errA(s), NEW j \in 0..(-negB(s))
  PROVE  VizardPoint(s, k, j) = PointAt(s, errA(s) - k, (-negB(s)) - j)
<1>1. /\ errA(s) \in Nat /\ -negB(s) \in Nat
      /\ s.x0 \in Nat /\ s.y0 \in Nat /\ s.x1 \in Nat /\ s.y1 \in Nat
      /\ Distance(s.x0, s.x1) = IF spin(s) THEN -negB(s) ELSE errA(s)
      /\ Distance(s.y0, s.y1) = IF spin(s) THEN errA(s) ELSE -negB(s)
  BY LineNumbers, Sides
<1>2. VizardPoint(s, k, j)
        = IF spin(s) THEN <<s.x0 + Sign(s.x0, s.x1) * j, s.y0 + Sign(s.y0, s.y1) * k>>
                     ELSE <<s.x0 + Sign(s.x0, s.x1) * k, s.y0 + Sign(s.y0, s.y1) * j>>
  BY DEF VizardPoint, VizardAt
<1>3. k \in Nat /\ j \in Nat /\ k <= errA(s) /\ j <= -negB(s) BY <1>1
<1>4. \A c, d \in Nat, l \in Nat : d < c /\ l <= Distance(c, d) => c + Sign(c, d) * l = d + (Distance(c, d) - l)
  <2> SUFFICES ASSUME NEW c \in Nat, NEW d \in Nat, NEW l \in Nat, d < c
               PROVE  c + Sign(c, d) * l = d + (Distance(c, d) - l)
    OBVIOUS
  <2>1. Sign(c, d) * l = -l /\ Distance(c, d) = c - d BY DEF Sign, Distance, Larger, Smaller
  <2> QED BY <2>1
<1>5. \A c, d \in Nat, l \in Nat : l <= Distance(c, d) =>
        c + Sign(c, d) * l = d + (IF c > d THEN 1 ELSE -1) * (Distance(c, d) - l)
  <2> SUFFICES ASSUME NEW c \in Nat, NEW d \in Nat, NEW l \in Nat, l <= Distance(c, d)
               PROVE  c + Sign(c, d) * l = d + (IF c > d THEN 1 ELSE -1) * (Distance(c, d) - l)
    OBVIOUS
  <2>1. CASE d < c
    <3>1. 1 * (Distance(c, d) - l) = Distance(c, d) - l BY <2>1 DEF Distance, Larger, Smaller
    <3>2. c + Sign(c, d) * l = d + (Distance(c, d) - l) BY <1>4, <2>1
    <3>3. c > d BY <2>1
    <3> QED BY <3>1, <3>2, <3>3
  <2>2. CASE c <= d
    <3>1. Distance(c, d) = d - c BY <2>2 DEF Distance, Larger, Smaller
    <3>2. (-1) * (Distance(c, d) - l) = l - (d - c) BY <2>2, <3>1
    <3>3. c + Sign(c, d) * l = c + l
      <4>1. CASE c < d
        <5>1. Sign(c, d) * l = l BY <4>1 DEF Sign
        <5> QED BY <5>1
      <4>2. CASE c = d
        <5>1. l = 0 /\ Sign(c, d) * 0 = 0 BY <4>2, <3>1 DEF Sign
        <5> QED BY <5>1
      <4> QED BY <2>2, <4>1, <4>2
    <3>4. ~ (c > d) BY <2>2
    <3>5. d + (l - (d - c)) = c + l OBVIOUS
    <3> QED BY <3>2, <3>3, <3>4, <3>5
  <2> QED BY <2>1, <2>2
<1>6. CASE spin(s)
  <2>1. a0(s) = s.y1 /\ b0(s) = s.x1 /\ b1(s) = s.x0 /\ s.y1 < s.y0
    BY <1>1, <1>6, Sides
  <2>2. s.y0 + Sign(s.y0, s.y1) * k = s.y1 + (errA(s) - k) BY <1>1, <1>3, <1>4, <1>6, <2>1
  <2>3. s.x0 + Sign(s.x0, s.x1) * j = s.x1 + offB(s) * ((-negB(s)) - j)
    <3>1. offB(s) = IF s.x0 > s.x1 THEN 1 ELSE -1 BY <2>1 DEF offB
    <3>2. Distance(s.x0, s.x1) = -negB(s) BY <1>1, <1>6
    <3>3. j <= Distance(s.x0, s.x1) BY <1>3, <3>2
    <3>4. s.x0 + Sign(s.x0, s.x1) * j
            = s.x1 + (IF s.x0 > s.x1 THEN 1 ELSE -1) * (Distance(s.x0, s.x1) - j)
      BY <1>1, <1>3, <1>5, <3>3, ZenonT(40)
    <3> QED BY <3>1, <3>2, <3>4, Zenon
  <2> QED BY <1>2, <1>6, <2>1, <2>2, <2>3, Zenon DEF PointAt
<1>7. CASE ~ spin(s)
  <2>1. a0(s) = s.x1 /\ b0(s) = s.y1 /\ b1(s) = s.y0 /\ s.x1 < s.x0
    BY <1>1, <1>7, Sides
  <2>2. s.x0 + Sign(s.x0, s.x1) * k = s.x1 + (errA(s) - k) BY <1>1, <1>3, <1>4, <1>7, <2>1
  <2>3. s.y0 + Sign(s.y0, s.y1) * j = s.y1 + offB(s) * ((-negB(s)) - j)
    <3>1. offB(s) = IF s.y0 > s.y1 THEN 1 ELSE -1 BY <2>1 DEF offB
    <3>2. Distance(s.y0, s.y1) = -negB(s) BY <1>1, <1>7
    <3>3. j <= Distance(s.y0, s.y1) BY <1>3, <3>2
    <3>4. s.y0 + Sign(s.y0, s.y1) * j
            = s.y1 + (IF s.y0 > s.y1 THEN 1 ELSE -1) * (Distance(s.y0, s.y1) - j)
      BY <1>1, <1>3, <1>5, <3>3, ZenonT(40)
    <3> QED BY <3>1, <3>2, <3>4, Zenon
  <2> QED BY <1>2, <1>7, <2>1, <2>2, <2>3, Zenon DEF PointAt
<1> QED BY <1>6, <1>7

\* Seen from the other end, the second of two equally near pixels is the first.
LEMMA Mirrored ==
  ASSUME NEW A \in Nat, NEW n \in Nat, n <= A, NEW k \in 0..A, NEW j \in Int
  PROVE  NearestLast(A, n, k, j) <=> Nearest(A, n, A - k, n - j)
<1>1. PICK u \in Int : u = A * j OBVIOUS
<1>2. PICK v \in Int : v = n * k OBVIOUS
<1>3. A * (n - j) - n * (A - k) = v - u
  <2>1. A * (n - j) = A * n - A * j /\ n * (A - k) = A * n - n * k /\ A * n \in Int OBVIOUS
  <2> QED BY <1>1, <1>2, <2>1
<1>4. NearestLast(A, n, k, j) <=> IF A = 0 THEN j = 0 ELSE -A < 2 * (u - v) /\ 2 * (u - v) <= A
  BY <1>1, <1>2, Zenon DEF NearestLast
<1>5. Nearest(A, n, A - k, n - j)
        <=> IF A = 0 THEN n - j = 0 ELSE -A <= 2 * (v - u) /\ 2 * (v - u) < A
  BY <1>3, Zenon DEF Nearest
<1>6. CASE A = 0
  <2>1. n = 0 /\ (n - j = 0 <=> j = 0) BY <1>6
  <2> QED BY <1>4, <1>5, <1>6, <2>1
<1>7. CASE A # 0 BY <1>4, <1>5, <1>7
<1> QED BY <1>6, <1>7

\* Pixels of two lines, of which one is inside the frame.
LEMMA SamePixels ==
  ASSUME NEW P, NEW Q, P \subseteq Pixels
  PROVE  LinePixels(P) = LinePixels(Q) => P \subseteq Q
<1> SUFFICES ASSUME LinePixels(P) = LinePixels(Q), NEW p \in P PROVE p \in Q
  OBVIOUS
<1>1. p \in Pixels OBVIOUS
<1>2. LinePixels(P)[p] = "EDGE" BY <1>1 DEF LinePixels
<1>3. LinePixels(Q)[p] = IF p \in Q THEN "EDGE" ELSE "NONE" BY <1>1 DEF LinePixels
<1> QED BY <1>2, <1>3

\* Vizard draws what swline does, but for the lines it draws upwards that have a
\* tie.
LEMMA VizardLines ==
  ASSUME NEW s \in Shapes, s.op = "LINE"
  PROVE  LinePixels(LinePoints(s, errA(s) + 1)) = LinePixels(draw_line(s))
           <=> ~ (Tie(s) /\ ~ flip(s))
<1> DEFINE A == errA(s)
           n == -negB(s)
           L == LinePoints(s, A + 1)
           V == VizardPoints(s)
<1>1. A \in Nat /\ n \in Nat /\ n <= A /\ (A + 1) - 1 = A BY LineNumbers
<1>2. \A p : p \in L <=> \E k \in 0..A, j \in Int : p = PointAt(s, k, j) /\ Nearest(A, n, k, j)
  <2>1. ASSUME NEW k \in 0..A, NEW j \in Int, Nearest(A, n, k, j) PROVE PointAt(s, k, j) \in Int \X Int
    BY LineInside, <2>1, FrameAssumption DEF Pixels
  <2>2. \A p : p \in L <=> p \in Int \X Int /\ \E k \in 0..A, j \in Int : p = PointAt(s, k, j) /\ Nearest(A, n, k, j)
    BY <1>1, Zenon DEF LinePoints
  <2> HIDE DEF A, n, L
  <2> QED BY <2>1, <2>2
<1>3. L \subseteq Pixels
  <2> HIDE DEF L
  <2> QED BY <1>2, LineInside
<1>4. \A p \in V : \E k \in 0..A, j \in Int : p = VizardPoint(s, k, j) /\ NearestLast(A, n, k, j)
  BY Zenon DEF VizardPoints, VizardPoint
<1>5. ASSUME NEW k \in 0..A, NEW j \in Int, NearestLast(A, n, k, j) PROVE VizardPoint(s, k, j) \in V
  <2>1. s.x0 \in Int /\ s.y0 \in Int /\ Sign(s.x0, s.x1) \in Int /\ Sign(s.y0, s.y1) \in Int /\ k \in Int
    BY Sides, <1>1 DEF Sign
  <2>2. /\ s.x0 + Sign(s.x0, s.x1) * j \in Int /\ s.y0 + Sign(s.y0, s.y1) * k \in Int
        /\ s.x0 + Sign(s.x0, s.x1) * k \in Int /\ s.y0 + Sign(s.y0, s.y1) * j \in Int
    BY <2>1
  <2>3. VizardPoint(s, k, j)
        = IF spin(s) THEN <<s.x0 + Sign(s.x0, s.x1) * j, s.y0 + Sign(s.y0, s.y1) * k>>
                     ELSE <<s.x0 + Sign(s.x0, s.x1) * k, s.y0 + Sign(s.y0, s.y1) * j>>
    BY DEF VizardPoint, VizardAt
  <2>4. VizardPoint(s, k, j) \in Int \X Int
    <3>1. CASE spin(s)
      <4>1. VizardPoint(s, k, j) = <<s.x0 + Sign(s.x0, s.x1) * j, s.y0 + Sign(s.y0, s.y1) * k>>
        BY <2>3, <3>1, Zenon
      <4> QED BY <2>2, <4>1
    <3>2. CASE ~ spin(s)
      <4>1. VizardPoint(s, k, j) = <<s.x0 + Sign(s.x0, s.x1) * k, s.y0 + Sign(s.y0, s.y1) * j>>
        BY <2>3, <3>2, Zenon
      <4> QED BY <2>2, <4>1
    <3> QED BY <3>1, <3>2
  <2> QED BY <1>5, <2>4, Zenon DEF VizardPoints, VizardPoint
<1>6. ASSUME NEW k \in 0..A, NEW j \in Int
      PROVE  /\ Nearest(A, n, k, j) => j \in 0..n
             /\ NearestLast(A, n, k, j) <=> Nearest(A, n, A - k, n - j)
             /\ NearestLast(A, n, k, j) => j \in 0..n
             /\ A - k \in 0..A /\ n - j \in Int /\ A - (A - k) = k /\ n - (n - j) = j
  <2> HIDE DEF A, n
  <2>1. A - k \in 0..A /\ n - j \in Int /\ A - (A - k) = k /\ n - (n - j) = j BY <1>1
  <2>2. Nearest(A, n, k, j) => j \in 0..n BY <1>1, StepsInside
  <2>3. NearestLast(A, n, k, j) <=> Nearest(A, n, A - k, n - j) BY <1>1, Mirrored
  <2>4. Nearest(A, n, A - k, n - j) => n - j \in 0..n BY <1>1, <2>1, StepsInside
  <2>5. n - j \in 0..n => j \in 0..n BY <1>1
  <2> QED BY <2>1, <2>2, <2>3, <2>4, <2>5
<1> HIDE DEF L, V
<1>7. CASE flip(s)
  <2>1. ASSUME NEW k \in 0..A, NEW j \in 0..n
        PROVE  VizardPoint(s, k, j) = PointAt(s, A - k, n - j)
    BY <1>7, FromUpper
  <2> HIDE DEF A, n
  <2>2. L = V
    <3>1. ASSUME NEW p \in L PROVE p \in V
      <4>1. PICK k \in 0..A, j \in Int : p = PointAt(s, k, j) /\ Nearest(A, n, k, j) BY <1>2
      <4>2. j \in 0..n /\ A - k \in 0..A /\ n - j \in Int /\ A - (A - k) = k /\ n - (n - j) = j
        BY <1>6, <4>1
      <4>3. NearestLast(A, n, A - k, n - j) BY <1>6, <4>1, <4>2
      <4>4. n - j \in 0..n BY <1>1, <4>2
      <4>5. VizardPoint(s, A - k, n - j) = PointAt(s, A - (A - k), n - (n - j)) BY <2>1, <4>2, <4>4
      <4>6. p = VizardPoint(s, A - k, n - j) BY <4>1, <4>2, <4>5, Zenon
      <4> QED BY <1>5, <4>2, <4>3, <4>6, Zenon
    <3>2. ASSUME NEW p \in V PROVE p \in L
      <4>1. PICK k \in 0..A, j \in Int : p = VizardPoint(s, k, j) /\ NearestLast(A, n, k, j) BY <1>4
      <4>2. /\ j \in 0..n /\ A - k \in 0..A /\ n - j \in Int /\ Nearest(A, n, A - k, n - j)
        BY <1>6, <4>1
      <4> QED BY <1>2, <2>1, <4>1, <4>2, Zenon
    <3> QED BY <3>1, <3>2
  <2>3. draw_line(s) = L BY <2>2, VizardDraws DEF V
  <2> QED BY <1>7, <2>3 DEF L, A
<1>8. CASE ~ flip(s)
  <2>1. ASSUME NEW k \in 0..A, NEW j \in 0..n PROVE VizardPoint(s, k, j) = PointAt(s, k, j)
    BY <1>8, FromLower
  <2>2. CASE ~ Tie(s)
    <3>1. \A k \in 0..A, j \in Int : Nearest(A, n, k, j) <=> NearestLast(A, n, k, j)
      BY <2>2, TieAt
    <3> HIDE DEF A, n
    <3>2. L = V
      <4>1. ASSUME NEW p \in L PROVE p \in V
        <5>1. PICK k \in 0..A, j \in Int : p = PointAt(s, k, j) /\ Nearest(A, n, k, j) BY <1>2
        <5>2. j \in 0..n /\ NearestLast(A, n, k, j) BY <1>6, <3>1, <5>1
        <5> QED BY <1>5, <2>1, <5>1, <5>2
      <4>2. ASSUME NEW p \in V PROVE p \in L
        <5>1. PICK k \in 0..A, j \in Int : p = VizardPoint(s, k, j) /\ NearestLast(A, n, k, j) BY <1>4
        <5>2. j \in 0..n /\ Nearest(A, n, k, j) BY <1>6, <3>1, <5>1
        <5> QED BY <1>2, <2>1, <5>1, <5>2
      <4> QED BY <4>1, <4>2
    <3>3. draw_line(s) = L BY <3>2, VizardDraws DEF V
    <3> QED BY <2>2, <3>3 DEF L, A
  <2>3. CASE Tie(s)
    <3>1. PICK k \in 1..A : (2 * k * n + A) % (2 * A) = 0
      BY <2>3, LineNumbers DEF Tie
    <3>2. A # 0 /\ k \in 0..A /\ k \in Nat /\ 2 * A \in Nat \ {0} BY <1>1, <3>1
    <3>3. PICK q \in Nat : 2 * k * n + A = (2 * A) * q
      <4>1. PICK m \in Nat : m = 2 * k * n + A
        <5>1. 2 * k * n + A \in Nat BY <1>1, <3>2
        <5> QED BY <5>1
      <4> HIDE DEF A, n
      <4>2. PICK q \in Nat : m = (2 * A) * q + (m % (2 * A)) BY <3>2, Division
      <4>3. m % (2 * A) = 0 BY <3>1, <4>1, Zenon
      <4>4. (2 * A) * q \in Nat BY <1>1, <3>2
      <4>5. (2 * A) * q + 0 = (2 * A) * q BY <4>4
      <4>6. 2 * k * n + A = (2 * A) * q BY <4>1, <4>2, <4>3, <4>5, Zenon
      <4> QED BY <4>6, Zenon
    <3> DEFINE j == q - 1
    <3>4. j \in Int /\ j + 1 = q OBVIOUS
    <3> HIDE DEF j
    <3>5. Nearest(A, n, k, j) /\ ~ NearestLast(A, n, k, j)
      BY <3>2, <3>3, <3>4, TieAt
    <3> HIDE DEF A, n
    <3>6. j \in 0..n BY <1>6, <3>2, <3>4, <3>5
    <3> DEFINE p == PointAt(s, k, j)
    <3>7. p \in L BY <1>2, <3>2, <3>4, <3>5
    <3>8. ASSUME p \in V PROVE FALSE
      <4>1. PICK l \in 0..A, i \in Int : p = VizardPoint(s, l, i) /\ NearestLast(A, n, l, i)
        BY <1>4, <3>8
      <4>2. i \in 0..n /\ l \in Nat /\ k \in Nat BY <1>1, <1>6, <3>2, <4>1
      <4>3. PointAt(s, l, i) = PointAt(s, k, j) BY <2>1, <4>1, <4>2
      <4>4. a0(s) + l = a0(s) + k /\ b0(s) + offB(s) * i = b0(s) + offB(s) * j
        <5>1. CASE spin(s) BY <4>3, <5>1 DEF PointAt
        <5>2. CASE ~ spin(s) BY <4>3, <5>2 DEF PointAt
        <5> QED BY <5>1, <5>2
      <4>5. l = k
        <5>1. a0(s) \in Int BY LineNumbers
        <5> QED BY <4>2, <4>4, <5>1
      <4>6. i = j
        <5>1. b0(s) \in Int /\ offB(s) \in {1, -1} BY LineNumbers
        <5>2. CASE offB(s) = 1 BY <3>4, <4>4, <5>1, <5>2
        <5>3. CASE offB(s) = -1 BY <3>4, <4>4, <5>1, <5>3
        <5> QED BY <5>1, <5>2, <5>3
      <4> QED BY <3>5, <4>1, <4>5, <4>6
    <3>9. LinePixels(L) # LinePixels(V) BY <1>3, <3>7, <3>8, SamePixels
    <3> QED BY <1>8, <2>3, <3>9, VizardDraws DEF L, V, A
  <2> QED BY <2>2, <2>3
<1> QED BY <1>7, <1>8
-----------------------------------------------------------------------------
(* Rectangles *)

\* The rows of a rectangle above row Y.
RectRows(s, Y) == [p \in Pixels |-> IF p[2] < Y THEN draw_rect(s)[p] ELSE "NONE"]

\* What a rectangle's loops compute with.
LEMMA RectNumbers ==
  ASSUME NEW s \in Shapes
  PROVE  /\ s.x0 \in Nat /\ s.y0 \in Nat /\ s.x1 \in Nat /\ s.y1 \in Nat
         /\ s.fill \in {"FILL", "NONE"}
         /\ Columns \in Nat /\ Rows \in Nat
         /\ s.op # "ELIP" => s.x0 < Columns /\ s.y0 < Rows /\ s.x1 < Columns /\ s.y1 < Rows
BY ShapesAssumption, InsideAssumption, FrameAssumption DEF AllShapes

\* Before the first row nothing is drawn, and after the last all of it.
LEMMA RectEnds ==
  ASSUME NEW s \in Shapes
  PROVE  /\ RectRows(s, Smaller(s.y0, s.y1)) = swfill_unroll
         /\ \A Y \in Int : Y > Larger(s.y0, s.y1) => RectRows(s, Y) = draw_rect(s)
<1> DEFINE top == Smaller(s.y0, s.y1)
           bottom == Larger(s.y0, s.y1)
<1>1. top \in Int /\ bottom \in Int /\ top <= bottom
  BY RectNumbers DEF Smaller, Larger
<1>2. \A p \in Pixels : p[1] \in Int /\ p[2] \in Int
  BY FrameAssumption DEF Pixels
<1>3. \A p \in Pixels : p[2] \notin top..bottom => draw_rect(s)[p] = "NONE"
  BY DEF draw_rect
<1> HIDE DEF top, bottom
<1>4. RectRows(s, top) = swfill_unroll
  BY <1>1, <1>2, <1>3 DEF RectRows, swfill_unroll
<1>5. ASSUME NEW Y \in Int, Y > bottom PROVE RectRows(s, Y) = draw_rect(s)
  <2>1. draw_rect(s) = [p \in Pixels |-> draw_rect(s)[p]] BY DEF draw_rect
  <2>2. ASSUME NEW p \in Pixels
        PROVE  (IF p[2] < Y THEN draw_rect(s)[p] ELSE "NONE") = draw_rect(s)[p]
    BY <1>1, <1>2, <1>3, <1>5
  <2> QED BY <2>1, <2>2, Zenon DEF RectRows
<1> QED BY <1>4, <1>5 DEF top, bottom

\* A turn of swrect draws the next row.
LEMMA RectTurn ==
  ASSUME NEW s \in Shapes, NEW Y \in Smaller(s.y0, s.y1)..Larger(s.y0, s.y1)
  PROVE  swslr(RectRows(s, Y), Y, Smaller(s.x0, s.x1), Larger(s.x0, s.x1),
               IF Y \in {s.y0, s.y1} THEN "EDGE" ELSE s.fill)
           = RectRows(s, Y + 1)
<1> DEFINE left == Smaller(s.x0, s.x1)
           right == Larger(s.x0, s.x1)
           top == Smaller(s.y0, s.y1)
           bottom == Larger(s.y0, s.y1)
           color == IF Y \in {s.y0, s.y1} THEN "EDGE" ELSE s.fill
<1>1. Y \in Int /\ (Y \in {s.y0, s.y1} <=> Y \in {top, bottom}) /\ s.fill \in {"FILL", "NONE"}
  BY RectNumbers DEF Smaller, Larger
<1>2. \A p \in Pixels : p[1] \in Int /\ p[2] \in Int
  BY FrameAssumption DEF Pixels
<1>3. \A p \in Pixels :
        draw_rect(s)[p] = IF p[1] \notin left..right \/ p[2] \notin top..bottom THEN "NONE"
                          ELSE IF p[1] \in {left, right} \/ p[2] \in {top, bottom} THEN "EDGE"
                          ELSE s.fill
  BY DEF draw_rect
<1>4. Y \in top..bottom OBVIOUS
<1> HIDE DEF left, right, top, bottom
<1>5. color = IF Y \in {top, bottom} THEN "EDGE" ELSE s.fill BY <1>1
<1> HIDE DEF color
<1>6. ASSUME NEW p \in Pixels
      PROVE  (IF p[2] # Y \/ p[1] \notin left..right THEN RectRows(s, Y)[p]
              ELSE IF p[1] \in {left, right} THEN "EDGE"
              ELSE IF color # "NONE" THEN color ELSE RectRows(s, Y)[p])
             = (IF p[2] < Y + 1 THEN draw_rect(s)[p] ELSE "NONE")
  <2>1. RectRows(s, Y)[p] = IF p[2] < Y THEN draw_rect(s)[p] ELSE "NONE" BY DEF RectRows
  <2>2. CASE p[2] # Y
    <3>1. p[2] < Y <=> p[2] < Y + 1 BY <1>1, <1>2, <2>2
    <3> QED BY <2>1, <2>2, <3>1
  <2>3. CASE p[2] = Y
    <3>1. ~ (p[2] < Y) /\ p[2] < Y + 1 BY <1>1, <2>3
    <3> QED BY <1>1, <1>3, <1>4, <1>5, <2>1, <2>3, <3>1
  <2> QED BY <2>2, <2>3
<1>7. swslr(RectRows(s, Y), Y, left, right, color) = RectRows(s, Y + 1)
  BY <1>6, Zenon DEF swslr, RectRows
<1> QED BY <1>7 DEF left, right, color

\* The engine's rectangle: a row is a side if it is the first one given, or the
\* lower one.
EngineRect(s) ==
  LET left == Smaller(s.x0, s.x1)   right == Larger(s.x0, s.x1)
      top == Smaller(s.y0, s.y1)    bottom == Larger(s.y0, s.y1)
  IN [p \in Pixels |->
        IF p[1] \notin left..right \/ p[2] \notin top..bottom THEN "NONE"
        ELSE IF p[1] \in {left, right} \/ p[2] \in {s.y0, bottom} THEN "EDGE"
        ELSE s.fill]

\* The rectangle engine draws all its rows.
LEMMA EngineDrawsRect ==
  ASSUME NEW s \in Shapes
  PROVE  RectangleEngine(s) = EngineRect(s)
<1> DEFINE left == Smaller(s.x0, s.x1)
           right == Larger(s.x0, s.x1)
           top == Smaller(s.y0, s.y1)
           bottom == Larger(s.y0, s.y1)
           side(yy) == IF yy = s.y0 \/ yy >= bottom THEN "EDGE" ELSE s.fill
           row(f, yy) == swslr(f, yy, left, right, side(yy))
           X == [Pixels -> Colors]
           Is(h) == h = [yy \in (top - 1)..bottom |->
                          IF yy < top THEN swfill_unroll ELSE row(h[yy - 1], yy)]
           part(yy) == [p \in Pixels |-> IF p[2] <= yy THEN EngineRect(s)[p] ELSE "NONE"]
           g == [yy \in (top - 1)..bottom |-> part(yy)]
           f == CHOOSE h : Is(h)
<1>1. /\ s.x0 \in Nat /\ s.y0 \in Nat /\ s.x1 \in Nat /\ s.y1 \in Nat
      /\ s.fill \in {"FILL", "NONE"}
      /\ left \in Nat /\ right \in Nat /\ left <= right
      /\ top \in Nat /\ bottom \in Nat /\ top <= bottom /\ s.y0 \in {top, bottom}
  BY RectNumbers DEF Smaller, Larger
<1>2. \A p \in Pixels : p[1] \in Int /\ p[2] \in Int
  BY FrameAssumption DEF Pixels
<1>3. RectangleEngine(s) = f[bottom]
  <2>1. Smaller(s.x0, s.x1) < Larger(s.x0, s.x1) \/ s.x0 = s.x1
    BY <1>1 DEF Smaller, Larger
  <2> QED BY <1>1, Zenon DEF RectangleEngine, ScanLine
<1>4. \A p \in Pixels :
        EngineRect(s)[p] = IF p[1] \notin left..right \/ p[2] \notin top..bottom THEN "NONE"
                           ELSE IF p[1] \in {left, right} \/ p[2] \in {s.y0, bottom} THEN "EDGE"
                           ELSE s.fill
  BY DEF EngineRect
<1> HIDE DEF left, right, top, bottom
<1>5. g[top - 1] = swfill_unroll
  <2>1. top - 1 \in (top - 1)..bottom BY <1>1
  <2>2. part(top - 1) = swfill_unroll
    <3>1. \A p \in Pixels : (IF p[2] <= top - 1 THEN EngineRect(s)[p] ELSE "NONE") = "NONE"
      BY <1>1, <1>2, <1>4
    <3> QED BY <3>1, Zenon DEF swfill_unroll
  <2> QED BY <2>1, <2>2
<1>6. ASSUME NEW yy \in top..bottom PROVE g[yy] = row(g[yy - 1], yy)
  <2>1. yy \in (top - 1)..bottom /\ yy - 1 \in (top - 1)..bottom /\ yy \in Int BY <1>1
  <2>2. g[yy] = part(yy) /\ g[yy - 1] = part(yy - 1) BY <2>1
  <2> DEFINE color == side(yy)
             e == part(yy - 1)
  <2>3. color = IF yy \in {s.y0, bottom} THEN "EDGE" ELSE s.fill BY <1>1
  <2>4. \A p \in Pixels : e[p] = IF p[2] <= yy - 1 THEN EngineRect(s)[p] ELSE "NONE"
    OBVIOUS
  <2> HIDE DEF color, e
  <2>5. ASSUME NEW p \in Pixels
        PROVE  (IF p[2] # yy \/ p[1] \notin left..right THEN e[p]
                ELSE IF p[1] \in {left, right} THEN "EDGE"
                ELSE IF color # "NONE" THEN color ELSE e[p])
               = (IF p[2] <= yy THEN EngineRect(s)[p] ELSE "NONE")
    <3>1. CASE p[2] # yy
      <4>1. p[2] <= yy - 1 <=> p[2] <= yy BY <1>2, <2>1, <3>1
      <4> QED BY <2>4, <3>1, <4>1
    <3>2. CASE p[2] = yy
      <4>1. ~ (p[2] <= yy - 1) /\ p[2] <= yy BY <2>1, <3>2
      <4> QED BY <1>1, <1>4, <2>1, <2>3, <2>4, <3>2, <4>1
    <3> QED BY <3>1, <3>2
  <2>6. swslr(e, yy, left, right, color) = part(yy)
    BY <2>5, Zenon DEF swslr
  <2> HIDE DEF g
  <2> QED BY <2>2, <2>6 DEF color, e
<1>7. Is(g)
  <2>1. ASSUME NEW yy \in (top - 1)..bottom
        PROVE  g[yy] = IF yy < top THEN swfill_unroll ELSE row(g[yy - 1], yy)
    <3> HIDE DEF g, row
    <3>1. CASE yy < top
      <4>1. yy = top - 1 BY <1>1, <3>1
      <4> QED BY <1>5, <3>1, <4>1
    <3>2. CASE ~ (yy < top)
      <4>1. yy \in top..bottom BY <1>1, <3>2
      <4> QED BY <1>6, <3>2, <4>1
    <3> QED BY <3>1, <3>2
  <2> HIDE DEF row, part
  <2> QED BY <2>1, Zenon
<1>8. Is(f)
  <2> HIDE DEF Is, g
  <2> QED BY <1>7
<1> HIDE DEF f, g, row
<1>9. \A yy \in (top - 1)..bottom :
        f[yy] = IF yy < top THEN swfill_unroll ELSE row(f[yy - 1], yy)
  BY <1>8, Zenon
<1> DEFINE S == {yy \in Int : f[yy] = g[yy]}
<1>10. top - 1 \in S
  <2>1. top - 1 \in (top - 1)..bottom /\ top - 1 < top /\ top - 1 \in Int BY <1>1
  <2> QED BY <1>5, <1>9, <2>1
<1>11. ASSUME NEW yy \in (top - 1)..(bottom - 1), yy \in S PROVE yy + 1 \in S
  <2>1. yy + 1 \in (top - 1)..bottom /\ ~ (yy + 1 < top) /\ (yy + 1) - 1 = yy
        /\ yy + 1 \in top..bottom /\ yy + 1 \in Int
    BY <1>1
  <2>2. f[yy + 1] = row(f[(yy + 1) - 1], yy + 1) BY <1>9, <2>1, Zenon
  <2>3. g[yy + 1] = row(g[(yy + 1) - 1], yy + 1) BY <1>6, <2>1, Zenon
  <2>4. f[yy] = g[yy] BY <1>11
  <2> QED BY <2>1, <2>2, <2>3, <2>4
<1> HIDE DEF S
<1>12. \A yy \in (top - 1)..bottom : yy \in S
  <2>1. top - 1 \in Int /\ bottom \in Int BY <1>1
  <2> QED BY <2>1, <1>10, <1>11, RangeInductive
<1>13. f[bottom] = g[bottom]
  <2>1. bottom \in (top - 1)..bottom BY <1>1
  <2> QED BY <2>1, <1>12 DEF S
<1>14. g[bottom] = EngineRect(s)
  <2>1. bottom \in (top - 1)..bottom BY <1>1
  <2>2. g[bottom] = part(bottom) BY <2>1 DEF g
  <2>3. \A p \in Pixels : (IF p[2] <= bottom THEN EngineRect(s)[p] ELSE "NONE") = EngineRect(s)[p]
    BY <1>1, <1>2, <1>4
  <2>4. EngineRect(s) = [p \in Pixels |-> EngineRect(s)[p]] BY DEF EngineRect
  <2> QED BY <2>2, <2>3, <2>4, Zenon
<1> QED BY <1>3, <1>13, <1>14

\* The engine draws the upper side of a rectangle given with its lower side
\* first as if it were inside.
LEMMA EngineRectangles ==
  ASSUME NEW s \in Shapes, s.op = "RECT"
  PROVE  draw_rect(s) = RectangleEngine(s) <=> (s.y0 <= s.y1 \/ Distance(s.x0, s.x1) < 2)
<1> DEFINE left == Smaller(s.x0, s.x1)
           right == Larger(s.x0, s.x1)
           top == Smaller(s.y0, s.y1)
           bottom == Larger(s.y0, s.y1)
<1>1. /\ s.x0 \in Nat /\ s.y0 \in Nat /\ s.x1 \in Nat /\ s.y1 \in Nat
      /\ s.fill \in {"FILL", "NONE"}
      /\ left \in Nat /\ right \in Nat /\ left <= right /\ right < Columns
      /\ top \in Nat /\ bottom \in Nat /\ top <= bottom /\ bottom < Rows
      /\ s.y0 <= s.y1 => s.y0 = top
      /\ ~ (s.y0 <= s.y1) => s.y0 = bottom /\ top # bottom
      /\ Distance(s.x0, s.x1) = right - left
  BY RectNumbers DEF Smaller, Larger, Distance
<1>2. \A p \in Pixels : p[1] \in Int /\ p[2] \in Int
  BY FrameAssumption DEF Pixels
<1>3. \A p \in Pixels :
        /\ EngineRect(s)[p] = IF p[1] \notin left..right \/ p[2] \notin top..bottom THEN "NONE"
                              ELSE IF p[1] \in {left, right} \/ p[2] \in {s.y0, bottom} THEN "EDGE"
                              ELSE s.fill
        /\ draw_rect(s)[p] = IF p[1] \notin left..right \/ p[2] \notin top..bottom THEN "NONE"
                             ELSE IF p[1] \in {left, right} \/ p[2] \in {top, bottom} THEN "EDGE"
                             ELSE s.fill
  BY DEF EngineRect, draw_rect
<1>4. EngineRect(s) = [p \in Pixels |-> EngineRect(s)[p]] /\ draw_rect(s) = [p \in Pixels |-> draw_rect(s)[p]]
  BY DEF EngineRect, draw_rect
<1> HIDE DEF left, right, top, bottom
<1>5. CASE s.y0 <= s.y1
  <2>1. \A p \in Pixels : EngineRect(s)[p] = draw_rect(s)[p] BY <1>1, <1>3, <1>5
  <2>2. EngineRect(s) = draw_rect(s) BY <2>1, <1>4, Zenon
  <2> QED BY <2>2, <1>5, EngineDrawsRect
<1>6. CASE ~ (s.y0 <= s.y1) /\ Distance(s.x0, s.x1) < 2
  <2>1. \A x \in left..right : x \in {left, right} BY <1>1, <1>6
  <2>2. \A p \in Pixels : EngineRect(s)[p] = draw_rect(s)[p] BY <1>3, <2>1
  <2>3. EngineRect(s) = draw_rect(s) BY <2>2, <1>4, Zenon
  <2> QED BY <2>3, <1>6, EngineDrawsRect
<1>7. CASE ~ (s.y0 <= s.y1) /\ ~ (Distance(s.x0, s.x1) < 2)
  <2> DEFINE p == <<left + 1, top>>
  <2>1. /\ left + 1 \in left..right /\ left + 1 \notin {left, right} /\ top \in top..bottom
        /\ top \notin {s.y0, bottom}
        /\ left + 1 \in 0..(Columns - 1) /\ top \in 0..(Rows - 1)
    BY <1>1, <1>7, FrameAssumption
  <2>2. p \in Pixels /\ p[1] = left + 1 /\ p[2] = top BY <2>1 DEF Pixels
  <2> HIDE DEF p
  <2>3. EngineRect(s)[p] = s.fill /\ draw_rect(s)[p] = "EDGE" BY <1>3, <2>1, <2>2
  <2>4. EngineRect(s) # draw_rect(s) BY <1>1, <2>3
  <2> QED BY <2>4, <1>7, EngineDrawsRect
<1> QED BY <1>5, <1>6, <1>7
-----------------------------------------------------------------------------
(* Ellipses: the loops *)

\* Products are words.
LEMMA ProductTyped ==
  ASSUME NEW n \in Nat, NEW m \in Nat
  PROVE  mul32u32u(n, m) \in 0..(Word - 1) /\ mul32u32u(n, m) \in Nat
<1>1. Width(m) \in Nat BY WidthReaches
<1>2. mul32u32u(n, m) = (n * (m % Power[Width(m)])) % Word
  BY <1>1, SumIs DEF mul32u32u
<1>3. PICK p \in Nat \ {0} : p = Power[Width(m)] BY <1>1, Powers
<1>4. PICK r \in Nat : r = m % p BY Remainder
<1>5. n * r \in Nat OBVIOUS
<1>6. Word \in Nat \ {0} BY Widths
<1>7. (n * r) % Word \in 0..(Word - 1) BY <1>5, <1>6, Remainder
<1>8. mul32u32u(n, m) \in 0..(Word - 1) BY <1>2, <1>3, <1>4, <1>7
<1>9. 0..(Word - 1) \subseteq Nat BY <1>6
<1> QED BY <1>8, <1>9

EllipseStates ==
  [at : {"A", "B"}, x : Nat, y : Nat, AAy : Int, BBx : Int, BB2 : Int, dd : Int]

\* The radii.
LEMMA Radii ==
  ASSUME NEW s \in Shapes
  PROVE  /\ s.x0 \in Nat /\ s.y0 \in Nat /\ s.x1 \in Nat /\ s.y1 \in Nat
         /\ s.fill \in {"FILL", "NONE"}
         /\ AA(s) \in Nat /\ BB(s) \in Nat /\ stopper(s) \in Nat /\ Turns(s) \in Nat
         /\ Turns(s) = s.x1 + s.y1 + 3
<1>1. /\ s.x0 \in Nat /\ s.y0 \in Nat /\ s.x1 \in Nat /\ s.y1 \in Nat
      /\ s.fill \in {"FILL", "NONE"}
  BY ShapesAssumption DEF AllShapes
<1>2. Word \in Nat \ {0} BY Widths
<1>3. AA(s) \in Nat /\ BB(s) \in Nat
  BY <1>1, <1>2, ProductTyped DEF AA, BB, sqr32u32u
<1>4. stopper(s) \in Nat
  <2>1. AA(s) \div 2 + BB(s) \in Nat BY <1>3
  <2> QED BY <1>2, <2>1, Remainder DEF stopper
<1> QED BY <1>1, <1>3, <1>4 DEF Turns

\* Where an ellipse starts is typed.
LEMMA Prepares ==
  ASSUME NEW s \in Shapes
  PROVE  EllipsePrepare(s) \in EllipseStates
<1>1. s.y1 \in Nat /\ AA(s) \in Nat /\ BB(s) \in Nat /\ Word \in Nat \ {0} BY Radii, Widths
<1>2. mul32u32u(AA(s), s.y1) \in Int
  <2>1. mul32u32u(AA(s), s.y1) \in Nat BY <1>1, ProductTyped
  <2> QED BY <2>1
<1>3. \A n \in Int : n % Word \in Int BY <1>1
<1>4. (3 * BB(s)) % Word \in Int /\ (BB(s) - mul32u32u(AA(s), s.y1) + AA(s) \div 4) % Word \in Int
  BY <1>1, <1>2, <1>3
<1> QED BY <1>1, <1>2, <1>4 DEF EllipsePrepare, EllipseStates

\* A state of the loop, taken apart.
LEMMA StateParts ==
  ASSUME NEW l \in EllipseStates
  PROVE  /\ l.at \in {"A", "B"} /\ l.x \in Nat /\ l.y \in Nat
         /\ l.AAy \in Int /\ l.BBx \in Int /\ l.BB2 \in Int /\ l.dd \in Int
         /\ l = [at |-> l.at, x |-> l.x, y |-> l.y, AAy |-> l.AAy, BBx |-> l.BBx,
                 BB2 |-> l.BB2, dd |-> l.dd]
BY DEF EllipseStates

\* What the turns do to the coordinates and the products.
LEMMA TurnA ==
  ASSUME NEW s \in Shapes, NEW l \in EllipseStates, l.at = "A", l.y > 0
  PROVE  /\ LoopA(s, l) \in EllipseStates /\ LoopA(s, l).at = "A"
         /\ LoopA(s, l).x = l.x + 1
         /\ LoopA(s, l).y = IF Signed(l.dd) >= 0 THEN l.y - 1 ELSE l.y
         /\ LoopA(s, l).AAy = IF Signed(l.dd) >= 0 THEN (l.AAy - AA(s)) % Word ELSE l.AAy
         /\ LoopA(s, l).BBx = (l.BBx + BB(s)) % Word
         /\ LoopA(s, l).BB2 = (l.BB2 + 2 * BB(s)) % Word
         /\ LoopA(s, l).dd = (l.dd + (IF Signed(l.dd) >= 0 THEN 2 * (AA(s) - l.AAy) ELSE 0) + l.BB2) % Word
<1> DEFINE in == Signed(l.dd) >= 0
           y == IF in THEN l.y - 1 ELSE l.y
           AAy == IF in THEN (l.AAy - AA(s)) % Word ELSE l.AAy
           dd == (l.dd + (IF in THEN 2 * (AA(s) - l.AAy) ELSE 0) + l.BB2) % Word
           BBx == (l.BBx + BB(s)) % Word
           BB2 == (l.BB2 + 2 * BB(s)) % Word
<1>1. AA(s) \in Nat /\ BB(s) \in Nat /\ Word \in Nat \ {0} BY Radii, Widths
<1>2. \A n \in Int : n % Word \in Int BY <1>1
<1>3. LoopA(s, l) = [at |-> "A", x |-> l.x + 1, y |-> y, AAy |-> AAy, BBx |-> BBx,
                     BB2 |-> BB2, dd |-> dd]
  <2>1. LoopA(s, l) = [l EXCEPT !.y = y, !.AAy = AAy, !.dd = dd, !.x = l.x + 1, !.BBx = BBx,
                                !.BB2 = BB2]
    BY Zenon DEF LoopA
  <2> HIDE DEF y, AAy, dd, BBx, BB2
  <2> QED BY <2>1, StateParts
<1>4. y \in Nat /\ AAy \in Int /\ BBx \in Int /\ BB2 \in Int /\ dd \in Int /\ l.x + 1 \in Nat
  <2>1. l.y \in Nat /\ l.x \in Nat /\ l.AAy \in Int /\ l.BBx \in Int /\ l.BB2 \in Int /\ l.dd \in Int
    BY StateParts
  <2>2. l.AAy - AA(s) \in Int /\ l.BBx + BB(s) \in Int /\ l.BB2 + 2 * BB(s) \in Int
        /\ l.dd + (IF in THEN 2 * (AA(s) - l.AAy) ELSE 0) + l.BB2 \in Int
    BY <1>1, <2>1
  <2>3. y \in Nat BY <2>1
  <2> QED BY <1>2, <2>1, <2>2, <2>3
<1> HIDE DEF y, AAy, dd, BBx, BB2, in
<1>5. LoopA(s, l) \in EllipseStates BY <1>3, <1>4 DEF EllipseStates
<1>6. /\ LoopA(s, l).at = "A" /\ LoopA(s, l).x = l.x + 1 /\ LoopA(s, l).y = y
      /\ LoopA(s, l).AAy = AAy /\ LoopA(s, l).BBx = BBx /\ LoopA(s, l).BB2 = BB2
      /\ LoopA(s, l).dd = dd
  BY <1>3
<1> QED BY <1>5, <1>6, Zenon DEF y, AAy, dd, BBx, BB2, in

\* What prepares the second loop of an ellipse.
LEMMA TurnToB ==
  ASSUME NEW s \in Shapes, NEW l \in EllipseStates
  PROVE  /\ PrepareB(s, l) \in EllipseStates /\ PrepareB(s, l).at = "B"
         /\ PrepareB(s, l).x = l.x /\ PrepareB(s, l).y = l.y
         /\ PrepareB(s, l).AAy = l.AAy /\ PrepareB(s, l).BB2 = (l.BB2 - BB(s)) % Word
         /\ PrepareB(s, l).dd
              = (mul32u32u(BB(s), (sqr32u32u(l.x) + l.x) % Word) + BB(s) \div 4
                 + mul32u32u(AA(s), sqr32u32u((l.y - 1) % Word))
                 - mul32u32u(AA(s), BB(s))) % Word
<1> DEFINE dd == (mul32u32u(BB(s), (sqr32u32u(l.x) + l.x) % Word) + BB(s) \div 4
                  + mul32u32u(AA(s), sqr32u32u((l.y - 1) % Word))
                  - mul32u32u(AA(s), BB(s))) % Word
           BB2 == (l.BB2 - BB(s)) % Word
<1>1. AA(s) \in Nat /\ BB(s) \in Nat /\ Word \in Nat \ {0} BY Radii, Widths
<1>2. \A n \in Int : n % Word \in Nat BY <1>1
<1>3. PrepareB(s, l) = [at |-> "B", x |-> l.x, y |-> l.y, AAy |-> l.AAy, BBx |-> l.BBx,
                        BB2 |-> BB2, dd |-> dd]
  <2>1. PrepareB(s, l) = [l EXCEPT !.at = "B", !.BB2 = BB2, !.dd = dd]
    BY Zenon DEF PrepareB
  <2> HIDE DEF dd, BB2
  <2> QED BY <2>1, StateParts, ZenonT(40)
<1>4. l.y \in Nat /\ l.x \in Nat /\ l.AAy \in Int /\ l.BBx \in Int /\ l.BB2 \in Int
  BY StateParts
<1>5. BB2 \in Int
  <2>1. l.BB2 - BB(s) \in Int BY <1>1, <1>4
  <2> QED BY <1>2, <2>1
<1>6. dd \in Int
  <2>1. \A n, m \in Nat : mul32u32u(n, m) \in Nat BY <1>1, ProductTyped
  <2>2. sqr32u32u(l.x) \in Nat BY <1>4, <2>1 DEF sqr32u32u
  <2>3. (sqr32u32u(l.x) + l.x) % Word \in Nat /\ (l.y - 1) % Word \in Nat BY <1>2, <1>4, <2>2
  <2>4. sqr32u32u((l.y - 1) % Word) \in Nat BY <2>1, <2>3 DEF sqr32u32u
  <2>5. /\ mul32u32u(BB(s), (sqr32u32u(l.x) + l.x) % Word) \in Nat
        /\ mul32u32u(AA(s), sqr32u32u((l.y - 1) % Word)) \in Nat
        /\ mul32u32u(AA(s), BB(s)) \in Nat /\ BB(s) \div 4 \in Nat
    <3>1. BB(s) \div 4 \in Nat BY <1>1
    <3> QED BY <1>1, <2>1, <2>3, <2>4, <3>1, Zenon
  <2>6. \A a, b, c, d \in Nat : (a + b + c - d) % Word \in Int BY <1>2
  <2> QED BY <2>5, <2>6, Zenon
<1> HIDE DEF dd, BB2
<1>7. PrepareB(s, l) \in EllipseStates BY <1>3, <1>4, <1>5, <1>6 DEF EllipseStates
<1>8. /\ PrepareB(s, l).at = "B" /\ PrepareB(s, l).x = l.x /\ PrepareB(s, l).y = l.y
      /\ PrepareB(s, l).AAy = l.AAy /\ PrepareB(s, l).BB2 = BB2 /\ PrepareB(s, l).dd = dd
  BY <1>3
<1> QED BY <1>7, <1>8, Zenon DEF dd, BB2

\* A turn of the second loop.
LEMMA TurnB ==
  ASSUME NEW s \in Shapes, NEW l \in EllipseStates, l.at = "B", l.y > 0
  PROVE  /\ LoopB(s, l) \in EllipseStates /\ LoopB(s, l).at = "B"
         /\ LoopB(s, l).x = (IF Signed(l.dd) < 0 THEN l.x + 1 ELSE l.x)
         /\ LoopB(s, l).y = l.y - 1
         /\ LoopB(s, l).AAy = (l.AAy - AA(s)) % Word
         /\ LoopB(s, l).BB2 = IF Signed(l.dd) < 0 THEN (l.BB2 + 2 * BB(s)) % Word ELSE l.BB2
         /\ LoopB(s, l).dd = (l.dd + (IF Signed(l.dd) < 0 THEN l.BB2 ELSE 0) + 3 * AA(s) - 2 * l.AAy) % Word
<1> DEFINE out == Signed(l.dd) < 0
           x == IF out THEN l.x + 1 ELSE l.x
           BB2 == IF out THEN (l.BB2 + 2 * BB(s)) % Word ELSE l.BB2
           dd == (l.dd + (IF out THEN l.BB2 ELSE 0) + 3 * AA(s) - 2 * l.AAy) % Word
           AAy == (l.AAy - AA(s)) % Word
<1>1. AA(s) \in Nat /\ BB(s) \in Nat /\ Word \in Nat \ {0} BY Radii, Widths
<1>2. \A n \in Int : n % Word \in Int BY <1>1
<1>3. LoopB(s, l) = [at |-> "B", x |-> x, y |-> l.y - 1, AAy |-> AAy, BBx |-> l.BBx,
                     BB2 |-> BB2, dd |-> dd]
  <2>1. LoopB(s, l) = [l EXCEPT !.x = x, !.BB2 = BB2, !.dd = dd, !.y = l.y - 1, !.AAy = AAy]
    BY Zenon DEF LoopB
  <2>2. l = [at |-> "B", x |-> l.x, y |-> l.y, AAy |-> l.AAy, BBx |-> l.BBx, BB2 |-> l.BB2,
             dd |-> l.dd]
    BY StateParts
  <2> HIDE DEF x, AAy, dd, BB2
  <2> QED BY <2>1, <2>2
<1>4. x \in Nat /\ AAy \in Int /\ BB2 \in Int /\ dd \in Int /\ l.y - 1 \in Nat /\ l.BBx \in Int
  <2>1. l.y \in Nat /\ l.x \in Nat /\ l.AAy \in Int /\ l.BBx \in Int /\ l.BB2 \in Int /\ l.dd \in Int
    BY StateParts
  <2>2. l.AAy - AA(s) \in Int /\ l.BB2 + 2 * BB(s) \in Int
        /\ l.dd + (IF out THEN l.BB2 ELSE 0) + 3 * AA(s) - 2 * l.AAy \in Int
    BY <1>1, <2>1
  <2>3. x \in Nat /\ l.y - 1 \in Nat BY <2>1
  <2> QED BY <1>2, <2>1, <2>2, <2>3
<1> HIDE DEF x, AAy, dd, BB2, out
<1>5. LoopB(s, l) \in EllipseStates BY <1>3, <1>4 DEF EllipseStates
<1>6. /\ LoopB(s, l).at = "B" /\ LoopB(s, l).x = x /\ LoopB(s, l).y = l.y - 1
      /\ LoopB(s, l).AAy = AAy /\ LoopB(s, l).BB2 = BB2
      /\ LoopB(s, l).dd = dd
  BY <1>3
<1> QED BY <1>5, <1>6, Zenon DEF x, AAy, dd, BB2, out

\* A turn in either loop, or none.
LEMMA TurnTyped ==
  ASSUME NEW s \in Shapes, NEW form, NEW l \in EllipseStates
  PROVE  Turn(form, s, l) \in EllipseStates
<1>1. l.at \in {"A", "B"} /\ l.y \in Nat BY StateParts
<1>2. CASE GoesA(form, s, l)
  <2>1. l.at = "A" /\ l.y > 0 BY <1>2 DEF GoesA, InLoopA
  <2>2. LoopA(s, l) \in EllipseStates BY <2>1, TurnA
  <2> QED BY <1>2, <2>2 DEF Turn
<1>3. CASE ~ GoesA(form, s, l) /\ l.at = "A"
  <2>1. PrepareB(s, l) \in EllipseStates BY TurnToB
  <2> QED BY <1>3, <2>1 DEF Turn
<1>4. CASE ~ GoesA(form, s, l) /\ l.at = "B" /\ GoesB(form, s, l)
  <2>1. l.y > 0 BY <1>4 DEF GoesB, InLoopB
  <2>2. LoopB(s, l) \in EllipseStates BY <1>4, <2>1, TurnB
  <2> QED BY <1>4, <2>2 DEF Turn
<1>5. CASE ~ GoesA(form, s, l) /\ l.at = "B" /\ ~ GoesB(form, s, l)
  BY <1>5 DEF Turn
<1> QED BY <1>1, <1>2, <1>3, <1>4, <1>5

\* What an ellipse is turn by turn.
LEMMA EllipseIs ==
  ASSUME NEW s \in Shapes, NEW form
  PROVE  /\ EllipseTurns(form, s)[0] = EllipsePrepare(s)
         /\ \A i \in 1..Turns(s) :
              EllipseTurns(form, s)[i] = Turn(form, s, EllipseTurns(form, s)[i - 1])
         /\ \A i \in 0..Turns(s) : EllipseTurns(form, s)[i] \in EllipseStates
<1> DEFINE n == Turns(s)
           base == EllipsePrepare(s)
           next(l) == Turn(form, s, l)
           step == [k \in Nat |-> [l \in EllipseStates |-> next(l)]]
           Is(h) == h = [i \in 0..n |-> IF i = 0 THEN base ELSE next(h[i - 1])]
           f == CHOOSE h : Is(h)
<1>1. n \in Nat /\ base \in EllipseStates BY Radii, Prepares
<1>2. step \in [Nat -> [EllipseStates -> EllipseStates]] BY TurnTyped
<1>3. \A l \in EllipseStates : next(l) \in EllipseStates BY TurnTyped
<1>4. EllipseTurns(form, s) = f BY DEF EllipseTurns
<1> HIDE DEF n, base, next
<1>5. \A k \in Nat, l \in EllipseStates : step[k][l] = next(l) OBVIOUS
<1> HIDE DEF step
<1>6. PICK g \in [0..n -> EllipseStates] : FirstOf(g, n, base, step)
  BY <1>1, <1>2, FirstTurns
<1>7. Is(g)
  <2>1. ASSUME NEW i \in 0..n PROVE g[i] = IF i = 0 THEN base ELSE next(g[i - 1])
    <3>1. g[i] = IF i = 0 THEN base ELSE step[i][g[i - 1]] BY <1>6 DEF FirstOf
    <3>2. CASE i = 0 BY <3>1, <3>2
    <3>3. CASE i # 0
      <4>1. i \in Nat /\ i - 1 \in 0..n BY <1>1, <3>3
      <4>2. g[i - 1] \in EllipseStates BY <4>1
      <4> QED BY <1>5, <3>1, <3>3, <4>1, <4>2
    <3> QED BY <3>2, <3>3
  <2>2. g = [i \in 0..n |-> g[i]] OBVIOUS
  <2> QED BY <2>1, <2>2, Zenon
<1>8. Is(f)
  <2> HIDE DEF Is
  <2> QED BY <1>7
<1> HIDE DEF f
<1>9. \A i \in 0..n : f[i] = IF i = 0 THEN base ELSE next(f[i - 1])
  BY <1>8, Zenon
<1>10. f[0] = base /\ \A i \in 1..n : f[i] = next(f[i - 1])
  <2>1. 0 \in 0..n /\ \A i \in 1..n : i \in 0..n /\ i # 0 BY <1>1
  <2> QED BY <1>9, <2>1
<1> DEFINE S == {i \in Int : f[i] \in EllipseStates}
<1>11. 0 \in S BY <1>1, <1>10
<1>12. ASSUME NEW i \in 0..(n - 1), i \in S PROVE i + 1 \in S
  <2>1. i + 1 \in 1..n /\ (i + 1) - 1 = i /\ i + 1 \in Int BY <1>1
  <2>2. f[i + 1] = next(f[i]) BY <1>10, <2>1
  <2>3. f[i] \in EllipseStates BY <1>12
  <2> QED BY <1>3, <2>1, <2>2, <2>3
<1> HIDE DEF S
<1>13. \A i \in 0..n : i \in S
  <2>1. n \in Int /\ 0 \in Int BY <1>1
  <2> QED BY <2>1, <1>11, <1>12, RangeInductive
<1>14. \A i \in 0..n : f[i] \in EllipseStates BY <1>13 DEF S
<1> QED BY <1>4, <1>10, <1>14, Zenon DEF n, base, next
-----------------------------------------------------------------------------
(* Ellipses: the frames *)

\* What a pixel becomes when the rows of a turn are painted.
PixelOf(f, s, x, y, p) ==
  IF p[2] \notin {s.y0 - y, s.y0 + y} \/ p[1] \notin (s.x0 - x)..(s.x0 + x) THEN f[p]
  ELSE IF p[1] \in {s.x0 - x, s.x0 + x} THEN "EDGE"
  ELSE IF s.fill # "NONE" THEN s.fill ELSE f[p]

\* The rows of a turn, and those Vizard paints for it, hold the same pixels.
LEMMA FourWay ==
  ASSUME NEW f, NEW s \in Shapes, NEW x \in Nat, NEW y \in Nat
  PROVE  /\ swslr_4way(f, s, x, y) = [p \in Pixels |-> PixelOf(f, s, x, y, p)]
         /\ draw_ellipse_scanlines(f, s, x, y) = [p \in Pixels |-> PixelOf(f, s, x, y, p)]
<1> DEFINE L == s.x0 - x
           R == s.x0 + x
           row(e, Y, p) == IF p[2] # Y \/ p[1] \notin L..R THEN e[p]
                           ELSE IF p[1] \in {L, R} THEN "EDGE"
                           ELSE IF s.fill # "NONE" THEN s.fill ELSE e[p]
           upper == [p \in Pixels |-> row(f, s.y0 - y, p)]
           both == [p \in Pixels |-> row(upper, s.y0 + y, p)]
<1>1. swslr_4way(f, s, x, y) = both BY DEF swslr_4way, swslr
<1>2. draw_ellipse_scanlines(f, s, x, y) = IF y # 0 THEN both ELSE upper
  BY DEF draw_ellipse_scanlines, swslr
<1>3. s.x0 \in Nat /\ s.y0 \in Nat BY Radii
<1>4. ASSUME NEW p \in Pixels
      PROVE  /\ row(upper, s.y0 + y, p) = PixelOf(f, s, x, y, p)
             /\ y = 0 => row(f, s.y0 - y, p) = PixelOf(f, s, x, y, p)
  <2>1. upper[p] = row(f, s.y0 - y, p) OBVIOUS
  <2> HIDE DEF upper, L, R
  <2>2. CASE p[2] = s.y0 + y BY <1>3, <2>1, <2>2 DEF PixelOf, L, R
  <2>3. CASE p[2] # s.y0 + y BY <1>3, <2>1, <2>3 DEF PixelOf, L, R
  <2> QED BY <2>2, <2>3
<1> HIDE DEF row, L, R
<1>5. both = [p \in Pixels |-> PixelOf(f, s, x, y, p)]
  <2> HIDE DEF upper
  <2> QED BY <1>4, Zenon
<1>6. CASE y = 0
  <2>1. upper = [p \in Pixels |-> PixelOf(f, s, x, y, p)] BY <1>4, <1>6, Zenon
  <2> QED BY <1>1, <1>2, <1>5, <1>6, <2>1, Zenon
<1>7. CASE y # 0 BY <1>1, <1>2, <1>5, <1>7, Zenon
<1> QED BY <1>6, <1>7

\* Painting the same rows again changes nothing.
LEMMA PaintedAgain ==
  ASSUME NEW f, NEW s \in Shapes, NEW x \in Nat, NEW y \in Nat
  PROVE  swslr_4way(swslr_4way(f, s, x, y), s, x, y) = swslr_4way(f, s, x, y)
<1> DEFINE g == swslr_4way(f, s, x, y)
<1>1. g = [p \in Pixels |-> PixelOf(f, s, x, y, p)] BY FourWay
<1>2. swslr_4way(g, s, x, y) = [p \in Pixels |-> PixelOf(g, s, x, y, p)] BY FourWay
<1> HIDE DEF g
<1>3. ASSUME NEW p \in Pixels PROVE PixelOf(g, s, x, y, p) = PixelOf(f, s, x, y, p)
  <2>1. g[p] = PixelOf(f, s, x, y, p) BY <1>1
  <2> QED BY <2>1 DEF PixelOf
<1>4. swslr_4way(g, s, x, y) = g BY <1>1, <1>2, <1>3, Zenon
<1> QED BY <1>4 DEF g

\* The frames of an ellipse, one for every turn.
FramesBy(form, s, f) ==
  f = [i \in -1..Turns(s) |->
         IF i = -1 THEN swfill_unroll
         ELSE swslr_4way(f[i - 1], s, EllipseTurns(form, s)[i].x, EllipseTurns(form, s)[i].y)]
Frames(form, s) == CHOOSE f : FramesBy(form, s, f)

\* The frames of the turns are what their recursion says, and Vizard's last one is
\* the program's.
LEMMA FramesAre ==
  ASSUME NEW s \in Shapes, NEW form
  PROVE  /\ Painted(form, s) = Frames(form, s)[Turns(s)]
         /\ form = "PROGRAM" => draw_ellipse(s) = Frames(form, s)[Turns(s)]
         /\ Frames(form, s)[-1] = swfill_unroll
         /\ \A i \in 0..Turns(s) :
              Frames(form, s)[i] = swslr_4way(Frames(form, s)[i - 1], s,
                                              EllipseTurns(form, s)[i].x, EllipseTurns(form, s)[i].y)
         /\ \A i \in -1..Turns(s) : Frames(form, s)[i] \in [Pixels -> Colors]
<1> DEFINE n == Turns(s)
           l == EllipseTurns(form, s)
           X == [Pixels -> Colors]
           row(e, i) == swslr_4way(e, s, l[i].x, l[i].y)
           scan(e, i) == draw_ellipse_scanlines(e, s, l[i].x, l[i].y)
           step == [i \in Int |-> [e \in X |-> IF i \in 0..n THEN row(e, i) ELSE e]]
           Is(h) == h = [i \in -1..n |-> IF i = -1 THEN swfill_unroll ELSE row(h[i - 1], i)]
           Scans(h) == h = [i \in -1..n |-> IF i = -1 THEN swfill_unroll ELSE scan(h[i - 1], i)]
           f == CHOOSE h : Is(h)
           d == CHOOSE h : Scans(h)
<1>1. n \in Nat BY Radii
<1>2. \A i \in 0..n : l[i].x \in Nat /\ l[i].y \in Nat BY EllipseIs, StateParts
<1>3. Painted(form, s) = f[n] BY DEF Painted
<1>4. form = "PROGRAM" => draw_ellipse(s) = d[n] BY DEF draw_ellipse
<1>5. Frames(form, s) = f BY DEF Frames, FramesBy
<1>6. \A i \in 0..n : \A e \in X : row(e, i) \in X
  <2> SUFFICES ASSUME NEW i \in 0..n, NEW e \in X PROVE row(e, i) \in X OBVIOUS
  <2>1. l[i].x \in Nat /\ l[i].y \in Nat BY <1>2
  <2>2. PICK x \in Nat, y \in Nat : x = l[i].x /\ y = l[i].y BY <2>1
  <2>3. swslr_4way(e, s, x, y) = [p \in Pixels |-> PixelOf(e, s, x, y, p)] BY FourWay
  <2>4. \A p \in Pixels : PixelOf(e, s, x, y, p) \in Colors
    BY Radii DEF PixelOf, Colors
  <2>5. swslr_4way(e, s, x, y) \in X BY <2>3, <2>4
  <2> QED BY <2>2, <2>5
<1>7. \A i \in 0..n : \A e : row(e, i) = scan(e, i)
  <2> SUFFICES ASSUME NEW i \in 0..n, NEW e PROVE row(e, i) = scan(e, i) OBVIOUS
  <2>1. l[i].x \in Nat /\ l[i].y \in Nat BY <1>2
  <2>2. PICK x \in Nat, y \in Nat : x = l[i].x /\ y = l[i].y BY <2>1
  <2>3. swslr_4way(e, s, x, y) = draw_ellipse_scanlines(e, s, x, y)
    <3>1. swslr_4way(e, s, x, y) = [p \in Pixels |-> PixelOf(e, s, x, y, p)] BY FourWay
    <3>2. draw_ellipse_scanlines(e, s, x, y) = [p \in Pixels |-> PixelOf(e, s, x, y, p)]
      BY FourWay
    <3> QED BY <3>1, <3>2, Zenon
  <2> QED BY <2>2, <2>3, Zenon
<1>8. swfill_unroll \in X BY DEF swfill_unroll, Colors
<1> HIDE DEF n, l, X, row, scan
<1>9. step \in [Int -> [X -> X]] BY <1>6
<1>10. \A i \in 0..n : \A e \in X : step[i][e] = row(e, i) BY <1>1
<1> HIDE DEF step
<1>11. PICK g \in [-1..n -> X] : FromTo(g, -1, n, swfill_unroll, step)
  <2>1. -1 \in Int /\ n \in Int /\ -1 <= n BY <1>1
  <2> QED BY <1>8, <1>9, <2>1, RangeTurns
<1>12. ASSUME NEW i \in -1..n
       PROVE  g[i] = IF i = -1 THEN swfill_unroll ELSE row(g[i - 1], i)
  <2>1. g[i] = IF i = -1 THEN swfill_unroll ELSE step[i][g[i - 1]] BY <1>11 DEF FromTo
  <2>2. CASE i = -1 BY <2>1, <2>2
  <2>3. CASE i # -1
    <3>1. i \in 0..n /\ i - 1 \in -1..n BY <1>1, <2>3
    <3>2. g[i - 1] \in X BY <3>1
    <3> QED BY <1>10, <2>1, <2>3, <3>1, <3>2
  <2> QED BY <2>2, <2>3
<1>13. g = [i \in -1..n |-> g[i]] OBVIOUS
<1>14. Is(g) BY <1>12, <1>13, Zenon
<1>15. Scans(g)
  <2>1. ASSUME NEW i \in -1..n
        PROVE  g[i] = IF i = -1 THEN swfill_unroll ELSE scan(g[i - 1], i)
    <3>1. CASE i = -1 BY <1>12, <3>1
    <3>2. CASE i # -1
      <4>1. i \in 0..n BY <1>1, <3>2
      <4> QED BY <1>7, <1>12, <3>2, <4>1
    <3> QED BY <3>1, <3>2
  <2> QED BY <1>13, <2>1, Zenon
<1>16. Is(f) /\ Scans(d)
  <2> HIDE DEF Is, Scans
  <2> QED BY <1>14, <1>15
<1> HIDE DEF f, d
<1>17. \A i \in -1..n : f[i] = IF i = -1 THEN swfill_unroll ELSE row(f[i - 1], i)
  BY <1>16, Zenon
<1>18. \A i \in -1..n : d[i] = IF i = -1 THEN swfill_unroll ELSE scan(d[i - 1], i)
  BY <1>16, Zenon
<1>19. /\ f[-1] = swfill_unroll /\ d[-1] = swfill_unroll
       /\ \A i \in 0..n : f[i] = row(f[i - 1], i) /\ d[i] = row(d[i - 1], i)
  <2>1. -1 \in -1..n BY <1>1
  <2>2. \A i \in 0..n : i \in -1..n /\ i # -1 BY <1>1
  <2> QED BY <1>7, <1>17, <1>18, <2>1, <2>2
<1> DEFINE S == {i \in Int : f[i] \in X /\ f[i] = d[i]}
<1>20. -1 \in S BY <1>8, <1>19
<1>21. ASSUME NEW i \in -1..(n - 1), i \in S PROVE i + 1 \in S
  <2>1. i + 1 \in 0..n /\ (i + 1) - 1 = i /\ i + 1 \in Int BY <1>1
  <2>2. f[i + 1] = row(f[i], i + 1) /\ d[i + 1] = row(d[i], i + 1) BY <1>19, <2>1
  <2>3. f[i] \in X /\ f[i] = d[i] BY <1>21
  <2> QED BY <1>6, <2>1, <2>2, <2>3
<1> HIDE DEF S
<1>22. \A i \in -1..n : i \in S
  <2>1. n \in Int /\ -1 \in Int BY <1>1
  <2> QED BY <2>1, <1>20, <1>21, RangeInductive
<1>23. \A i \in -1..n : f[i] \in X /\ f[i] = d[i] BY <1>22 DEF S
<1>24. f[n] = d[n]
  <2>1. n \in -1..n BY <1>1
  <2> QED BY <1>23, <2>1
<1> QED BY <1>3, <1>4, <1>5, <1>19, <1>23, <1>24, Zenon DEF n, l, X, row
-----------------------------------------------------------------------------
(* Ellipses: where the loops end *)

Ended(s, l) == l.at = "B" /\ ~ InLoopB(s, l)

\* Where the coordinates are after so many turns.
Bounds(s, l, i) ==
  /\ l.x <= s.x1 + 1 /\ l.y <= s.y1
  /\ IF l.at = "A" THEN l.x = i ELSE i + l.y <= s.x1 + s.y1 + 2

\* A turn stays in the bounds, and is the engine's too until the loops end.
LEMMA TurnBounds ==
  ASSUME NEW s \in Shapes, NEW l \in EllipseStates, NEW i \in Nat, NEW k,
         k = Turn("PROGRAM", s, l)
  PROVE  /\ Ended(s, l) => k = l
         /\ ~ Ended(s, l) =>
              /\ Turn("ENGINE", s, l) = k
              /\ k.x \in {l.x, l.x + 1} /\ k.y \in {l.y, l.y - 1}
              /\ Bounds(s, l, i) => Bounds(s, k, i + 1)
<1>1. l.at \in {"A", "B"} /\ l.y \in Nat /\ l.x \in Nat BY StateParts
<1>2. s.x1 \in Nat /\ s.y1 \in Nat BY Radii
<1>3. CASE InLoopA(s, l)
  <2>1. l.at = "A" /\ l.y > 0 /\ l.x <= s.x1 BY <1>3 DEF InLoopA
  <2>2. k = LoopA(s, l) /\ Turn("ENGINE", s, l) = LoopA(s, l) BY <1>3 DEF Turn, GoesA
  <2>3. k.at = "A" /\ k.x = l.x + 1 /\ k.y \in {l.y, l.y - 1} BY <2>1, <2>2, TurnA
  <2>4. Bounds(s, l, i) => Bounds(s, k, i + 1) BY <1>1, <1>2, <2>1, <2>3 DEF Bounds
  <2>5. ~ Ended(s, l) BY <2>1 DEF Ended
  <2> QED BY <2>2, <2>3, <2>4, <2>5
<1>4. CASE ~ InLoopA(s, l) /\ l.at = "A"
  <2>1. k = PrepareB(s, l) /\ Turn("ENGINE", s, l) = PrepareB(s, l) BY <1>4 DEF Turn, GoesA
  <2>2. k.at = "B" /\ k.x = l.x /\ k.y = l.y BY <2>1, TurnToB
  <2>3. Bounds(s, l, i) => Bounds(s, k, i + 1) BY <1>1, <1>2, <1>4, <2>2 DEF Bounds
  <2>4. ~ Ended(s, l) BY <1>4 DEF Ended
  <2> QED BY <2>1, <2>2, <2>3, <2>4
<1>5. CASE l.at = "B" /\ InLoopB(s, l)
  <2>1. l.y > 0 /\ l.x <= s.x1 BY <1>5 DEF InLoopB
  <2>2. ~ InLoopA(s, l) BY <1>5 DEF InLoopA
  <2>3. k = LoopB(s, l) /\ Turn("ENGINE", s, l) = LoopB(s, l)
    BY <1>5, <2>1, <2>2 DEF Turn, GoesA, GoesB
  <2>4. k.at = "B" /\ k.y = l.y - 1 /\ k.x \in {l.x, l.x + 1} BY <1>5, <2>1, <2>3, TurnB
  <2>5. Bounds(s, l, i) => Bounds(s, k, i + 1) BY <1>1, <1>2, <1>5, <2>1, <2>4 DEF Bounds
  <2>6. ~ Ended(s, l) BY <1>5 DEF Ended
  <2> QED BY <2>3, <2>4, <2>5, <2>6
<1>6. CASE l.at = "B" /\ ~ InLoopB(s, l)
  <2>1. ~ InLoopA(s, l) BY <1>6 DEF InLoopA
  <2>2. k = l BY <1>6, <2>1 DEF Turn, GoesA, GoesB
  <2> QED BY <1>6, <2>2 DEF Ended
<1> QED BY <1>1, <1>3, <1>4, <1>5, <1>6

\* The turn at which the program's loops have ended.
IsStop(s, n) ==
  /\ n \in 0..Turns(s) /\ Ended(s, EllipseTurns("PROGRAM", s)[n])
  /\ \A j \in 0..(n - 1) : ~ Ended(s, EllipseTurns("PROGRAM", s)[j])
StopOf(s) == CHOOSE n : IsStop(s, n)

\* The bounds hold up to where the loops end.
LEMMA BoundsBefore ==
  ASSUME NEW s \in Shapes, NEW n \in 0..Turns(s),
         \A j \in 0..(n - 1) : ~ Ended(s, EllipseTurns("PROGRAM", s)[j])
  PROVE  \A i \in 0..n : Bounds(s, EllipseTurns("PROGRAM", s)[i], i)
<1> DEFINE l == EllipseTurns("PROGRAM", s)
           S == {i \in Nat : Bounds(s, l[i], i)}
<1>1. n \in Nat /\ n <= Turns(s) /\ Turns(s) \in Nat BY Radii
<1>2. 0 \in S
  <2>1. l[0] = EllipsePrepare(s) BY EllipseIs
  <2>2. l[0].at = "A" /\ l[0].x = 0 /\ l[0].y = s.y1 BY <2>1 DEF EllipsePrepare
  <2> QED BY <2>2, Radii DEF Bounds
<1>3. ASSUME NEW i \in 0..(n - 1), i \in S PROVE i + 1 \in S
  <2>1. i + 1 \in 1..Turns(s) /\ (i + 1) - 1 = i /\ i \in 0..Turns(s) /\ i \in Nat /\ i + 1 \in Nat
    BY <1>1
  <2>2. l[i + 1] = Turn("PROGRAM", s, l[i]) /\ l[i] \in EllipseStates BY <2>1, EllipseIs
  <2>3. ~ Ended(s, l[i]) /\ Bounds(s, l[i], i) BY <1>3
  <2> HIDE DEF l
  <2>4. Bounds(s, l[i + 1], i + 1) BY <2>1, <2>2, <2>3, TurnBounds
  <2> QED BY <2>1, <2>4
<1> HIDE DEF S
<1>4. \A i \in 0..n : i \in S
  <2>1. n \in Int /\ 0 \in Int BY <1>1
  <2> QED BY <2>1, <1>2, <1>3, RangeInductive
<1> QED BY <1>4 DEF S

\* The loops end, within the turns there are.
LEMMA StopIs ==
  ASSUME NEW s \in Shapes
  PROVE  IsStop(s, StopOf(s))
<1> DEFINE l == EllipseTurns("PROGRAM", s)
           T == {n \in Nat : n <= Turns(s) /\ Ended(s, l[n])}
<1>1. Turns(s) \in Nat /\ Turns(s) = s.x1 + s.y1 + 3 /\ s.x1 \in Nat /\ s.y1 \in Nat BY Radii
<1>2. T # {}
  <2> SUFFICES ASSUME T = {} PROVE FALSE OBVIOUS
  <2>1. \A j \in 0..(Turns(s) - 1) : ~ Ended(s, l[j]) BY <1>1
  <2>2. Turns(s) \in 0..Turns(s) BY <1>1
  <2>3. \A i \in 0..Turns(s) : Bounds(s, l[i], i) BY <2>1, <2>2, BoundsBefore
  <2>4. l[Turns(s)] \in EllipseStates BY <2>2, EllipseIs
  <2>5. PICK k \in EllipseStates : k = l[Turns(s)] BY <2>4
  <2>6. Bounds(s, k, Turns(s)) BY <2>2, <2>3, <2>5
  <2>7. k.x \in Nat /\ k.y \in Nat BY StateParts
  <2> QED BY <1>1, <2>6, <2>7 DEF Bounds
<1> HIDE DEF l
<1>3. PICK n \in T : \A m \in T : n <= m
  <2>1. T \in SUBSET Nat OBVIOUS
  <2> QED BY <1>2, <2>1, LeastNumber
<1>4. IsStop(s, n)
  <2>1. n \in 0..Turns(s) /\ Ended(s, l[n]) BY <1>1, <1>3
  <2>2. ASSUME NEW j \in 0..(n - 1) PROVE ~ Ended(s, l[j])
    <3>1. j \in Nat /\ j <= Turns(s) /\ ~ (n <= j) BY <1>1, <2>1
    <3> QED BY <1>3, <3>1
  <2> QED BY <2>1, <2>2 DEF IsStop, l
<1> QED BY <1>4 DEF StopOf

\* Before it the engine's loops do the same; after it nothing changes.
LEMMA AtStop ==
  ASSUME NEW s \in Shapes, NEW n, n = StopOf(s)
  PROVE  /\ n \in 0..Turns(s) /\ Ended(s, EllipseTurns("PROGRAM", s)[n])
         /\ \A i \in 0..n : Bounds(s, EllipseTurns("PROGRAM", s)[i], i)
         /\ \A i \in 0..(n - 1) : ~ Ended(s, EllipseTurns("PROGRAM", s)[i])
         /\ \A i \in 0..n : EllipseTurns("ENGINE", s)[i] = EllipseTurns("PROGRAM", s)[i]
         /\ \A i \in -1..n : Frames("ENGINE", s)[i] = Frames("PROGRAM", s)[i]
         /\ \A i \in n..Turns(s) : Frames("PROGRAM", s)[i] = Frames("PROGRAM", s)[n]
<1> DEFINE l == EllipseTurns("PROGRAM", s)
           e == EllipseTurns("ENGINE", s)
           f == Frames("PROGRAM", s)
           g == Frames("ENGINE", s)
           N == Turns(s)
<1>1. n \in 0..N /\ Ended(s, l[n]) /\ \A j \in 0..(n - 1) : ~ Ended(s, l[j])
  BY StopIs DEF IsStop
<1>2. \A i \in 0..n : Bounds(s, l[i], i) BY <1>1, BoundsBefore
<1>3. N \in Nat /\ n \in Nat /\ n <= N BY <1>1, Radii
<1>4. /\ l[0] = EllipsePrepare(s) /\ e[0] = EllipsePrepare(s)
      /\ \A i \in 1..N : l[i] = Turn("PROGRAM", s, l[i - 1]) /\ e[i] = Turn("ENGINE", s, e[i - 1])
      /\ \A i \in 0..N : l[i] \in EllipseStates
  BY EllipseIs
<1>5. /\ f[-1] = swfill_unroll /\ g[-1] = swfill_unroll
      /\ \A i \in 0..N : /\ f[i] = swslr_4way(f[i - 1], s, l[i].x, l[i].y)
                         /\ g[i] = swslr_4way(g[i - 1], s, e[i].x, e[i].y)
  BY FramesAre
<1> HIDE DEF l, e, f, g, N
<1>6. \A i \in 0..n : e[i] = l[i]
  <2> DEFINE S == {i \in Nat : e[i] = l[i]}
  <2>1. 0 \in S BY <1>4
  <2>2. ASSUME NEW i \in 0..(n - 1), i \in S PROVE i + 1 \in S
    <3>1. i + 1 \in 1..N /\ (i + 1) - 1 = i /\ i \in 0..N /\ i \in Nat /\ i + 1 \in Nat BY <1>3
    <3>2. l[i + 1] = Turn("PROGRAM", s, l[i]) /\ e[i + 1] = Turn("ENGINE", s, e[i]) BY <1>4, <3>1
    <3>3. l[i] \in EllipseStates /\ ~ Ended(s, l[i]) BY <1>1, <1>4, <3>1
    <3>4. Turn("ENGINE", s, l[i]) = l[i + 1] BY <3>1, <3>2, <3>3, TurnBounds
    <3> QED BY <2>2, <3>1, <3>2, <3>4
  <2> HIDE DEF S
  <2>3. \A i \in 0..n : i \in S
    <3>1. n \in Int /\ 0 \in Int BY <1>3
    <3> QED BY <3>1, <2>1, <2>2, RangeInductive
  <2> QED BY <2>3 DEF S
<1>7. \A i \in -1..n : g[i] = f[i]
  <2> DEFINE S == {i \in Int : g[i] = f[i]}
  <2>1. -1 \in S BY <1>5
  <2>2. ASSUME NEW i \in -1..(n - 1), i \in S PROVE i + 1 \in S
    <3>1. i + 1 \in 0..N /\ i + 1 \in 0..n /\ (i + 1) - 1 = i /\ i + 1 \in Int BY <1>3
    <3>2. g[i] = f[i] BY <2>2
    <3>3. e[i + 1] = l[i + 1] BY <1>6, <3>1
    <3>4. g[i + 1] = f[i + 1] BY <1>5, <3>1, <3>2, <3>3
    <3> QED BY <3>1, <3>4
  <2> HIDE DEF S
  <2>3. \A i \in -1..n : i \in S
    <3>1. n \in Int /\ -1 \in Int BY <1>3
    <3> QED BY <3>1, <2>1, <2>2, RangeInductive
  <2> QED BY <2>3 DEF S
<1>8. \A i \in n..N : f[i] = f[n]
  <2> DEFINE S == {i \in Nat : l[i] = l[n] /\ f[i] = f[n]}
  <2>1. n \in S BY <1>3
  <2>2. ASSUME NEW i \in n..(N - 1), i \in S PROVE i + 1 \in S
    <3>1. /\ i + 1 \in 1..N /\ i + 1 \in 0..N /\ (i + 1) - 1 = i /\ i \in 0..N /\ i \in Nat
          /\ i + 1 \in Nat /\ n \in 0..N
      BY <1>3
    <3>2. l[i] = l[n] /\ f[i] = f[n] BY <2>2
    <3>3. l[i + 1] = Turn("PROGRAM", s, l[n]) /\ l[n] \in EllipseStates BY <1>4, <3>1, <3>2
    <3>4. l[i + 1] = l[n] BY <1>1, <3>1, <3>3, TurnBounds
    <3>5. PICK x \in Nat, y \in Nat : x = l[n].x /\ y = l[n].y BY <3>3, StateParts
    <3>6. f[n] = swslr_4way(f[n - 1], s, x, y) BY <1>5, <3>1, <3>5
    <3>7. f[i + 1] = swslr_4way(f[n], s, x, y) BY <1>5, <3>1, <3>2, <3>4, <3>5
    <3>8. f[i + 1] = f[n] BY <3>6, <3>7, PaintedAgain
    <3> QED BY <3>1, <3>4, <3>8
  <2> HIDE DEF S
  <2>3. \A i \in n..N : i \in S
    <3>1. n \in Int /\ N \in Int BY <1>3
    <3> QED BY <3>1, <2>1, <2>2, RangeInductive
  <2> QED BY <2>3 DEF S
<1> QED BY <1>1, <1>2, <1>6, <1>7, <1>8, Zenon DEF l, e, f, g, N
-----------------------------------------------------------------------------
(* Ellipses: rows *)

\* Where an ellipse is.
LEMMA Inside ==
  ASSUME NEW s \in Shapes, s.op = "ELIP"
  PROVE  /\ s.x0 < Columns /\ s.y0 < Rows /\ s.x1 + 2 <= s.x0 /\ s.y1 <= s.y0
         /\ s.y0 + s.y1 < Rows /\ Columns \in Nat /\ Rows \in Nat
BY InsideAssumption, FrameAssumption

\* The rows less than y away from the centre are empty, and the others have an
\* edge.
RowsFrom(s, f, y) ==
  /\ \A p \in Pixels : p[2] \in (s.y0 - y + 1)..(s.y0 + y - 1) => f[p] = "NONE"
  /\ \A Y \in (s.y0 - s.y1)..(s.y0 + s.y1) :
       Y \notin (s.y0 - y + 1)..(s.y0 + y - 1) =>
         \E X \in 0..(Columns - 1) : f[<<X, Y>>] = "EDGE"

WholeRows(s, f) ==
  \A Y \in (s.y0 - s.y1)..(s.y0 + s.y1) : \E X \in 0..(Columns - 1) : f[<<X, Y>>] = "EDGE"

\* The first pixel of the rows painted at a turn.
LEMMA LeftEdge ==
  ASSUME NEW s \in Shapes, s.op = "ELIP", NEW f, NEW x \in Nat, NEW y \in Nat,
         x <= s.x1 + 2, y <= s.y1, NEW Y \in {s.y0 - y, s.y0 + y}
  PROVE  /\ s.x0 - x \in 0..(Columns - 1) /\ <<s.x0 - x, Y>> \in Pixels
         /\ swslr_4way(f, s, x, y)[<<s.x0 - x, Y>>] = "EDGE"
<1> DEFINE p == <<s.x0 - x, Y>>
<1>1. s.x0 \in Nat /\ s.y0 \in Nat /\ s.x1 \in Nat /\ s.y1 \in Nat BY Radii
<1>2. s.x0 - x \in 0..(Columns - 1) /\ Y \in 0..(Rows - 1) BY <1>1, Inside
<1>3. p \in Pixels /\ p[1] = s.x0 - x /\ p[2] = Y BY <1>2 DEF Pixels
<1> HIDE DEF p
<1>4. swslr_4way(f, s, x, y)[p] = PixelOf(f, s, x, y, p) BY <1>3, FourWay
<1>5. s.x0 - x \in (s.x0 - x)..(s.x0 + x) BY <1>1
<1>6. PixelOf(f, s, x, y, p) = "EDGE" BY <1>3, <1>5 DEF PixelOf
<1> QED BY <1>2, <1>3, <1>4, <1>6 DEF p

\* What is painted stays painted.
LEMMA PaintStays ==
  ASSUME NEW f, NEW s \in Shapes, NEW x \in Nat, NEW y \in Nat, NEW p \in Pixels,
         f[p] # "NONE"
  PROVE  swslr_4way(f, s, x, y)[p] # "NONE"
<1>1. swslr_4way(f, s, x, y)[p] = PixelOf(f, s, x, y, p) BY FourWay
<1> QED BY <1>1 DEF PixelOf

\* A turn leaves the rows from y outwards painted.
LEMMA RowsTurn ==
  ASSUME NEW s \in Shapes, s.op = "ELIP", NEW f, NEW x \in Nat, NEW y \in Nat, NEW k \in Nat,
         x <= s.x1 + 2, k <= s.y1, k \in {y, y - 1}, RowsFrom(s, f, y)
  PROVE  RowsFrom(s, swslr_4way(f, s, x, k), k)
<1> DEFINE g == swslr_4way(f, s, x, k)
<1>1. s.x0 \in Nat /\ s.y0 \in Nat /\ s.x1 \in Nat /\ s.y1 \in Nat BY Radii
<1>2. \A p \in Pixels : p[1] \in Int /\ p[2] \in Int BY FrameAssumption DEF Pixels
<1>3. \A p \in Pixels : g[p] = PixelOf(f, s, x, k, p) BY FourWay
<1> HIDE DEF g
<1>4. ASSUME NEW p \in Pixels, p[2] \notin {s.y0 - k, s.y0 + k} PROVE g[p] = f[p]
  BY <1>3, <1>4 DEF PixelOf
<1>5. ASSUME NEW p \in Pixels, p[2] \in (s.y0 - k + 1)..(s.y0 + k - 1) PROVE g[p] = "NONE"
  <2>1. p[2] \notin {s.y0 - k, s.y0 + k} /\ p[2] \in (s.y0 - y + 1)..(s.y0 + y - 1)
    BY <1>1, <1>5
  <2> QED BY <1>4, <2>1 DEF RowsFrom
<1>6. ASSUME NEW Y \in (s.y0 - s.y1)..(s.y0 + s.y1), Y \notin (s.y0 - k + 1)..(s.y0 + k - 1)
      PROVE  \E X \in 0..(Columns - 1) : g[<<X, Y>>] = "EDGE"
  <2>1. CASE Y \in {s.y0 - k, s.y0 + k}
    <3>1. s.x0 - x \in 0..(Columns - 1) /\ g[<<s.x0 - x, Y>>] = "EDGE"
      BY <2>1, LeftEdge DEF g
    <3> QED BY <3>1
  <2>2. CASE Y \notin {s.y0 - k, s.y0 + k}
    <3>1. Y \notin (s.y0 - y + 1)..(s.y0 + y - 1) BY <1>1, <1>6, <2>2
    <3>2. PICK X \in 0..(Columns - 1) : f[<<X, Y>>] = "EDGE" BY <3>1 DEF RowsFrom
    <3>3. <<X, Y>> \in Pixels /\ <<X, Y>>[2] = Y BY <1>1, Inside DEF Pixels
    <3>4. g[<<X, Y>>] = f[<<X, Y>>] BY <1>4, <2>2, <3>3
    <3> QED BY <3>2, <3>4
  <2> QED BY <2>1, <2>2
<1>7. RowsFrom(s, g, k) BY <1>5, <1>6 DEF RowsFrom
<1> QED BY <1>7 DEF g

\* So they are where the loops end.
LEMMA RowsAtStop ==
  ASSUME NEW s \in Shapes, s.op = "ELIP"
  PROVE  RowsFrom(s, Frames("PROGRAM", s)[StopOf(s)], EllipseTurns("PROGRAM", s)[StopOf(s)].y)
<1> DEFINE l == EllipseTurns("PROGRAM", s)
           f == Frames("PROGRAM", s)
           n == StopOf(s)
           N == Turns(s)
           S == {i \in Nat : RowsFrom(s, f[i], l[i].y)}
<1>1. s.x0 \in Nat /\ s.y0 \in Nat /\ s.x1 \in Nat /\ s.y1 \in Nat /\ N \in Nat BY Radii
<1>2. /\ n \in 0..N /\ \A i \in 0..n : Bounds(s, l[i], i)
      /\ \A i \in 0..(n - 1) : ~ Ended(s, l[i])
  BY AtStop
<1>3. /\ l[0] = EllipsePrepare(s) /\ \A i \in 1..N : l[i] = Turn("PROGRAM", s, l[i - 1])
      /\ \A i \in 0..N : l[i] \in EllipseStates
  BY EllipseIs
<1>4. f[-1] = swfill_unroll /\ \A i \in 0..N : f[i] = swslr_4way(f[i - 1], s, l[i].x, l[i].y)
  BY FramesAre
<1> HIDE DEF l, f, n, N
<1>5. 0 \in S
  <2>1. RowsFrom(s, swfill_unroll, s.y1 + 1)
    <3>1. \A p \in Pixels : swfill_unroll[p] = "NONE" BY DEF swfill_unroll
    <3>2. \A Y \in (s.y0 - s.y1)..(s.y0 + s.y1) :
            Y \in (s.y0 - (s.y1 + 1) + 1)..(s.y0 + (s.y1 + 1) - 1)
      BY <1>1
    <3> QED BY <3>1, <3>2 DEF RowsFrom
  <2>2. l[0].x = 0 /\ l[0].y = s.y1 BY <1>3 DEF EllipsePrepare
  <2>3. f[0] = swslr_4way(swfill_unroll, s, 0, s.y1)
    <3>1. 0 \in 0..N /\ 0 - 1 = -1 BY <1>1
    <3> QED BY <1>4, <2>2, <3>1
  <2>4. RowsFrom(s, swslr_4way(swfill_unroll, s, 0, s.y1), s.y1)
    <3>1. s.y1 + 1 \in Nat /\ s.y1 \in {s.y1 + 1, (s.y1 + 1) - 1} /\ 0 \in Nat /\ 0 <= s.x1 + 2
          /\ s.y1 <= s.y1
      BY <1>1
    <3> QED BY <1>1, <2>1, <3>1, RowsTurn
  <2> QED BY <2>2, <2>3, <2>4
<1>6. ASSUME NEW i \in 0..(n - 1), i \in S PROVE i + 1 \in S
  <2>1. /\ i + 1 \in 1..N /\ i + 1 \in 0..N /\ i + 1 \in 0..n /\ (i + 1) - 1 = i /\ i \in 0..N
        /\ i \in Nat /\ i + 1 \in Nat
    BY <1>1, <1>2
  <2>2. PICK a, b \in EllipseStates : a = l[i] /\ b = l[i + 1] BY <1>3, <2>1
  <2>3. b = Turn("PROGRAM", s, a) /\ ~ Ended(s, a) BY <1>2, <1>3, <2>1, <2>2
  <2>4. b.x \in {a.x, a.x + 1} /\ b.y \in {a.y, a.y - 1} BY <2>1, <2>3, TurnBounds
  <2>5. a.x \in Nat /\ a.y \in Nat /\ b.x \in Nat /\ b.y \in Nat BY StateParts
  <2>6. b.x <= s.x1 + 2 /\ b.y <= s.y1
    <3>1. Bounds(s, b, i + 1) BY <1>2, <2>1, <2>2
    <3> QED BY <1>1, <2>5, <3>1 DEF Bounds
  <2>7. RowsFrom(s, f[i], a.y) BY <1>6, <2>2
  <2>8. RowsFrom(s, swslr_4way(f[i], s, b.x, b.y), b.y) BY <2>4, <2>5, <2>6, <2>7, RowsTurn
  <2>9. f[i + 1] = swslr_4way(f[i], s, b.x, b.y) BY <1>4, <2>1, <2>2
  <2> QED BY <2>1, <2>2, <2>8, <2>9
<1> HIDE DEF S
<1>7. \A i \in 0..n : i \in S
  <2>1. n \in Int /\ 0 \in Int BY <1>2
  <2> QED BY <2>1, <1>5, <1>6, RangeInductive
<1>8. n \in S
  <2>1. n \in 0..n BY <1>1, <1>2
  <2> QED BY <1>7, <2>1
<1> QED BY <1>8 DEF S, l, f, n

\* An ellipse is whole if y has come down to the row of the centre.
LEMMA WholeIs ==
  ASSUME NEW s \in Shapes, s.op = "ELIP"
  PROVE  WholeRows(s, Frames("PROGRAM", s)[StopOf(s)])
           <=> EllipseTurns("PROGRAM", s)[StopOf(s)].y = 0
<1>1. s.x0 \in Nat /\ s.y0 \in Nat /\ s.x1 \in Nat /\ s.y1 \in Nat /\ Turns(s) \in Nat BY Radii
<1>2. PICK f : f = Frames("PROGRAM", s)[StopOf(s)] OBVIOUS
<1>3. PICK l \in EllipseStates : l = EllipseTurns("PROGRAM", s)[StopOf(s)]
  BY AtStop, EllipseIs
<1>4. RowsFrom(s, f, l.y) BY <1>2, <1>3, RowsAtStop
<1>5. l.y \in Nat /\ l.y <= s.y1
  <2>1. StopOf(s) \in 0..StopOf(s) BY <1>1, AtStop
  <2>2. Bounds(s, l, StopOf(s)) BY <1>3, <2>1, AtStop
  <2> QED BY <2>2, StateParts DEF Bounds
<1>6. CASE l.y = 0
  <2>1. \A Y \in (s.y0 - s.y1)..(s.y0 + s.y1) : Y \notin (s.y0 - l.y + 1)..(s.y0 + l.y - 1)
    BY <1>1, <1>6
  <2>2. WholeRows(s, f) BY <1>4, <2>1 DEF RowsFrom, WholeRows
  <2> QED BY <1>2, <1>3, <1>6, <2>2
<1>7. CASE l.y # 0
  <2>1. s.y0 \in (s.y0 - l.y + 1)..(s.y0 + l.y - 1) /\ s.y0 \in (s.y0 - s.y1)..(s.y0 + s.y1)
    BY <1>1, <1>5, <1>7
  <2>2. ASSUME NEW X \in 0..(Columns - 1) PROVE f[<<X, s.y0>>] = "NONE"
    <3>1. s.y0 \in 0..(Rows - 1) BY <1>1, Inside
    <3>2. <<X, s.y0>> \in Pixels /\ <<X, s.y0>>[2] = s.y0 BY <3>1 DEF Pixels
    <3> QED BY <1>4, <2>1, <3>2 DEF RowsFrom
  <2>3. ~ WholeRows(s, f) BY <2>1, <2>2 DEF WholeRows
  <2> QED BY <1>2, <1>3, <1>7, <2>3
<1> QED BY <1>6, <1>7

\* The engine draws the ellipses that are whole as the program does.
LEMMA EngineEllipses ==
  ASSUME NEW s \in Shapes, s.op = "ELIP"
  PROVE  Painted("PROGRAM", s) = ElipseEngine(s)
           <=> WholeRows(s, Painted("PROGRAM", s))
<1> DEFINE l == EllipseTurns("PROGRAM", s)
           e == EllipseTurns("ENGINE", s)
           f == Frames("PROGRAM", s)
           g == Frames("ENGINE", s)
           n == StopOf(s)
           N == Turns(s)
<1>1. /\ s.x0 \in Nat /\ s.y0 \in Nat /\ s.x1 \in Nat /\ s.y1 \in Nat /\ N \in Nat
      /\ N = s.x1 + s.y1 + 3
  BY Radii
<1>2. /\ n \in 0..N /\ Ended(s, l[n]) /\ \A i \in 0..n : Bounds(s, l[i], i)
      /\ \A i \in 0..n : e[i] = l[i]
      /\ \A i \in -1..n : g[i] = f[i]
      /\ \A i \in n..N : f[i] = f[n]
  BY AtStop
<1>3. /\ \A i \in 1..N : e[i] = Turn("ENGINE", s, e[i - 1])
      /\ \A i \in 0..N : l[i] \in EllipseStates /\ e[i] \in EllipseStates
  BY EllipseIs
<1>4. /\ Painted("PROGRAM", s) = f[N] /\ ElipseEngine(s) = g[N]
      /\ \A i \in 0..N : g[i] = swslr_4way(g[i - 1], s, e[i].x, e[i].y)
  BY FramesAre DEF ElipseEngine
<1>5. WholeRows(s, f[n]) <=> l[n].y = 0 BY WholeIs
<1>6. RowsFrom(s, f[n], l[n].y) BY RowsAtStop
<1> HIDE DEF l, e, f, g, n, N
<1>7. f[N] = f[n] /\ g[n] = f[n] /\ e[n] = l[n] /\ Bounds(s, l[n], n)
  <2>1. n \in 0..n /\ n \in -1..n /\ N \in n..N BY <1>1, <1>2
  <2> QED BY <1>2, <2>1
<1>8. PICK a \in EllipseStates : a = l[n] BY <1>2, <1>3
<1>9. a.at = "B" /\ a.x \in Nat /\ a.y \in Nat /\ a.x <= s.x1 + 1 /\ a.y <= s.y1
      /\ n + a.y <= s.x1 + s.y1 + 2
  BY <1>2, <1>7, <1>8, StateParts DEF Ended, Bounds
<1>10. ~ GoesA("ENGINE", s, a) BY <1>9 DEF GoesA, InLoopA
<1>11. CASE a.y = 0
  <2>1. Turn("ENGINE", s, a) = a BY <1>9, <1>10, <1>11 DEF Turn, GoesB
  <2>2. \A i \in n..N : e[i] = a /\ g[i] = g[n]
    <3> DEFINE S == {i \in Nat : e[i] = a /\ g[i] = g[n]}
    <3>1. n \in S BY <1>2, <1>7, <1>8
    <3>2. ASSUME NEW i \in n..(N - 1), i \in S PROVE i + 1 \in S
      <4>1. /\ i + 1 \in 1..N /\ i + 1 \in 0..N /\ (i + 1) - 1 = i /\ i + 1 \in Nat /\ n \in 0..N
        BY <1>1, <1>2
      <4>2. e[i] = a /\ g[i] = g[n] BY <3>2
      <4>3. e[i + 1] = a BY <1>3, <2>1, <4>1, <4>2
      <4>4. g[n] = swslr_4way(g[n - 1], s, a.x, a.y) BY <1>4, <1>7, <1>8, <4>1
      <4>5. g[i + 1] = swslr_4way(g[n], s, a.x, a.y) BY <1>4, <4>1, <4>2, <4>3
      <4>6. g[i + 1] = g[n] BY <1>9, <4>4, <4>5, PaintedAgain
      <4> QED BY <4>1, <4>3, <4>6
    <3> HIDE DEF S
    <3>3. \A i \in n..N : i \in S
      <4>1. n \in Int /\ N \in Int BY <1>1, <1>2
      <4> QED BY <4>1, <3>1, <3>2, RangeInductive
    <3> QED BY <3>3 DEF S
  <2>3. g[N] = f[N]
    <3>1. N \in n..N BY <1>1, <1>2
    <3> QED BY <1>7, <2>2, <3>1
  <2> QED BY <1>4, <1>5, <1>7, <1>8, <1>11, <2>3
<1>12. CASE a.y > 0
  <2>1. n + 1 \in 1..N /\ n + 1 \in 0..N /\ (n + 1) - 1 = n /\ n \in Nat BY <1>1, <1>2, <1>9, <1>12
  <2>2. Turn("ENGINE", s, a) = LoopB(s, a) BY <1>9, <1>10, <1>12 DEF Turn, GoesB
  <2>3. e[n + 1] = LoopB(s, a) BY <1>3, <1>7, <1>8, <2>1, <2>2
  <2>4. PICK x \in Nat, y \in Nat :
          x = e[n + 1].x /\ y = e[n + 1].y /\ x <= s.x1 + 2 /\ y = a.y - 1
    BY <1>1, <1>9, <1>12, <2>3, TurnB
  <2>5. g[n + 1] = swslr_4way(g[n], s, x, y) BY <1>4, <2>1, <2>4
  <2> DEFINE q == <<s.x0 - x, s.y0 - y>>
  <2>6. q \in Pixels /\ g[n + 1][q] = "EDGE"
    <3>1. s.y0 - y \in {s.y0 - y, s.y0 + y} /\ y <= s.y1 BY <1>1, <1>9, <2>4
    <3>2. PICK Y \in {s.y0 - y, s.y0 + y} : Y = s.y0 - y BY <3>1
    <3>3. <<s.x0 - x, Y>> \in Pixels /\ swslr_4way(g[n], s, x, y)[<<s.x0 - x, Y>>] = "EDGE"
      BY <2>4, <3>1, LeftEdge, ZenonT(40)
    <3> QED BY <2>5, <3>2, <3>3
  <2>7. f[n][q] = "NONE"
    <3>1. q[2] = s.y0 - y OBVIOUS
    <3>2. s.y0 - y \in (s.y0 - a.y + 1)..(s.y0 + a.y - 1) BY <1>1, <1>9, <1>12, <2>4
    <3> HIDE DEF q
    <3> QED BY <1>6, <1>8, <2>6, <3>1, <3>2 DEF RowsFrom
  <2> HIDE DEF q
  <2>8. \A i \in (n + 1)..N : g[i][q] # "NONE"
    <3> DEFINE S == {i \in Nat : g[i][q] # "NONE"}
    <3>1. n + 1 \in S BY <2>1, <2>6
    <3>2. ASSUME NEW i \in (n + 1)..(N - 1), i \in S PROVE i + 1 \in S
      <4>1. i + 1 \in 0..N /\ (i + 1) - 1 = i /\ i + 1 \in Nat BY <1>1, <2>1
      <4>2. PICK c \in Nat, d \in Nat : c = e[i + 1].x /\ d = e[i + 1].y
        BY <1>3, <4>1, StateParts
      <4>3. g[i + 1] = swslr_4way(g[i], s, c, d) BY <1>4, <4>1, <4>2
      <4>4. g[i][q] # "NONE" BY <3>2
      <4>5. g[i + 1][q] # "NONE" BY <2>6, <4>3, <4>4, PaintStays
      <4> QED BY <4>1, <4>5
    <3> HIDE DEF S
    <3>3. \A i \in (n + 1)..N : i \in S
      <4>1. n + 1 \in Int /\ N \in Int BY <1>1, <2>1
      <4> QED BY <4>1, <3>1, <3>2, RangeInductive
    <3> QED BY <3>3 DEF S
  <2>9. g[N] # f[N]
    <3>1. N \in (n + 1)..N BY <1>1, <2>1
    <3> QED BY <1>7, <2>7, <2>8, <3>1
  <2>10. a.y # 0 BY <1>9, <1>12
  <2> QED BY <1>4, <1>5, <1>7, <1>8, <2>9, <2>10
<1> QED BY <1>9, <1>11, <1>12
-----------------------------------------------------------------------------
(* Circles: numbers *)

\* Remainders of numbers with a sign.
LEMMA SignedRemainder ==
  ASSUME NEW a \in Int, NEW b \in Int, NEW k \in Nat \ {0}
  PROVE  ((a % k) + b) % k = (a + b) % k
<1>1. PICK q \in Int, r \in 0..(k - 1) : a = k * q + r /\ r = a % k
  <2>1. a \div k \in Int /\ a % k \in 0..(k - 1) /\ a = k * (a \div k) + (a % k) OBVIOUS
  <2> QED BY <2>1
<1>2. PICK p \in Int, t \in 0..(k - 1) : r + b = k * p + t /\ t = (r + b) % k
  <2>1. PICK c \in Int : c = r + b OBVIOUS
  <2>2. c \div k \in Int /\ c % k \in 0..(k - 1) /\ c = k * (c \div k) + (c % k) OBVIOUS
  <2> QED BY <2>1, <2>2
<1>3. a + b = k * (q + p) + t /\ q + p \in Int BY <1>1, <1>2
<1>4. (k * (q + p) + t) % k = t
  <2>1. PICK m \in Int : m = q + p BY <1>3
  <2>2. (k * m + t) % k = t OBVIOUS
  <2> QED BY <2>1, <2>2
<1> QED BY <1>1, <1>2, <1>3, <1>4

\* A number is what its word stands for if it is less than half the words.
LEMMA SignedOf ==
  ASSUME NEW z \in Int, -(Word \div 2) <= z, z < Word \div 2
  PROVE  Signed(z % Word) = z
<1>1. PICK h \in Nat : Word = 2 * h /\ h > 0
  <2>1. WordBits \in Nat /\ WordBits # 0 /\ WordBits - 1 \in Nat BY WidthAssumption
  <2>2. Word = 2 * Power[WordBits - 1] BY <2>1, Powers DEF Word
  <2>3. Power[WordBits - 1] \in Nat \ {0} BY <2>1, Powers
  <2> QED BY <2>2, <2>3
<1>2. Word \div 2 = h BY <1>1
<1>3. CASE z >= 0
  <2>1. z % Word = z BY <1>1, <1>2, <1>3
  <2> QED BY <1>2, <1>3, <2>1 DEF Signed
<1>4. CASE z < 0
  <2>1. z + Word \in Nat /\ z + Word < Word /\ z + Word >= h BY <1>1, <1>2, <1>4
  <2>2. z % Word = z + Word BY <1>1, <2>1
  <2> QED BY <1>1, <1>2, <2>1, <2>2 DEF Signed
<1> QED BY <1>3, <1>4

\* R times m, as an operator: R is the square of a radius.
Mult(R, m) == R * m

\* What is compared of a circle fits in half the words.
Fits(R, r) == R \in Nat \ {0} /\ r \in Nat \ {0} /\ R = r * r /\ Mult(R, 4 * r + 3) <= Word

\* Small multiples.
LEMMA MultIs ==
  ASSUME NEW R \in Int
  PROVE  /\ Mult(R, 0) = 0 /\ Mult(R, 1) = R /\ Mult(R, 2) = 2 * R /\ Mult(R, 3) = 3 * R
         /\ \A m \in Int : Mult(R, m) \in Int
BY DEF Mult

\* More times a number is no less.
LEMMA MultGrows ==
  ASSUME NEW R \in Nat, NEW m \in Int, NEW n \in Int, m <= n
  PROVE  Mult(R, m) <= Mult(R, n)
<1>1. PICK d \in Nat : n = m + d
  <2>1. PICK d \in Nat : d = n - m OBVIOUS
  <2> QED BY <2>1
<1>2. R * d >= 0 OBVIOUS
<1>3. R * (m + d) = R * m + R * d OBVIOUS
<1>4. R * m \in Int /\ R * d \in Int OBVIOUS
<1>5. R * m <= R * (m + d) BY <1>2, <1>3, <1>4
<1> QED BY <1>1, <1>5 DEF Mult

\* Small multiples of the square are words.
LEMMA FitsIs ==
  ASSUME NEW R, NEW r, Fits(R, r)
  PROVE  /\ \A m \in 0..(4 * r + 2) :
              Mult(R, m) \in Nat /\ Mult(R, m) < Word /\ Mult(R, m) % Word = Mult(R, m)
         /\ R < Word /\ r <= R /\ R + r < Word /\ R + r \in Nat
         /\ Word \in Nat \ {0} /\ R \in Nat \ {0} /\ r \in Nat \ {0}
<1>1. /\ R \in Nat \ {0} /\ r \in Nat \ {0} /\ Mult(R, 4 * r + 3) <= Word
      /\ Word \in Nat \ {0}
  BY Widths DEF Fits
<1>2. ASSUME NEW m \in 0..(4 * r + 2)
      PROVE  Mult(R, m) \in Nat /\ Mult(R, m) < Word /\ Mult(R, m) % Word = Mult(R, m)
  <2>1. m \in Int /\ m + 1 \in Int /\ 4 * r + 3 \in Int /\ m + 1 <= 4 * r + 3 /\ 0 <= m /\ R >= 0
    BY <1>1
  <2>2. Mult(R, m + 1) <= Mult(R, 4 * r + 3) /\ Mult(R, 0) <= Mult(R, m)
    <3>1. R \in Nat /\ 0 \in Int BY <1>1
    <3> QED BY <2>1, <3>1, MultGrows
  <2>3. Mult(R, m) + Mult(R, 1) = Mult(R, m + 1) BY <1>1, <2>1 DEF Mult
  <2>4. Mult(R, 1) = R /\ Mult(R, 0) = 0 /\ Mult(R, m) \in Int /\ Mult(R, m + 1) \in Int
        /\ Mult(R, 4 * r + 3) \in Int
    <3>1. R \in Int BY <1>1
    <3>2. Mult(R, 1) = R /\ Mult(R, 0) = 0 /\ \A k \in Int : Mult(R, k) \in Int BY <3>1, MultIs
    <3> QED BY <2>1, <3>2
  <2>5. Mult(R, m) \in Nat /\ Mult(R, m) < Word BY <1>1, <2>2, <2>3, <2>4
  <2> QED BY <1>1, <2>5
<1>3. r <= R
  <2>1. r * r >= r BY <1>1
  <2> QED BY <2>1 DEF Fits
<1>4. R < Word /\ 2 * R < Word
  <2>1. 1 \in 0..(4 * r + 2) /\ 2 \in 0..(4 * r + 2) BY <1>1
  <2>2. Mult(R, 1) = R /\ Mult(R, 2) = 2 * R BY <1>1, MultIs
  <2> QED BY <1>2, <2>1, <2>2
<1> QED BY <1>1, <1>2, <1>3, <1>4

\* The error term of a circle: the square times a number, and a rest.
Delta(R, d) == (Mult(R, d) + R \div 4) % Word

\* Adding a multiple to the error term.
LEMMA DeltaStep ==
  ASSUME NEW R \in Nat, NEW d \in Int, NEW k \in Int
  PROVE  (Delta(R, d) + Mult(R, k)) % Word = Delta(R, d + k) /\ Delta(R, d) \in Int
<1>1. Word \in Nat \ {0} BY Widths
<1>2. PICK q \in Nat : q = R \div 4 OBVIOUS
<1>3. Mult(R, d) \in Int /\ Mult(R, k) \in Int /\ Mult(R, d) + Mult(R, k) = Mult(R, d + k)
  BY DEF Mult
<1>4. PICK a, b \in Int : a = Mult(R, d) /\ b = Mult(R, k) BY <1>3
<1>5. a + q \in Int /\ (a + q) + b = (a + b) + q OBVIOUS
<1>6. (((a + q) % Word) + b) % Word = ((a + q) + b) % Word BY <1>1, <1>5, SignedRemainder
<1>7. Delta(R, d) = (a + q) % Word /\ Delta(R, d + k) = ((a + b) + q) % Word
  BY <1>2, <1>3, <1>4 DEF Delta
<1>8. (a + q) % Word \in Int BY <1>1, <1>5
<1> QED BY <1>4, <1>5, <1>6, <1>7, <1>8

\* The error term of a circle has the sign of its number.
LEMMA DeltaSign ==
  ASSUME NEW R, NEW r, Fits(R, r), NEW d \in Int, -(2 * r) <= d, d <= 2 * r
  PROVE  (Signed(Delta(R, d)) >= 0 <=> d >= 0) /\ (Signed(Delta(R, d)) < 0 <=> d < 0)
<1>1. R \in Nat \ {0} /\ r \in Nat \ {0} BY FitsIs
<1>2. PICK w \in Nat \ {0} : Word = 2 * w /\ Word \div 2 = w BY Widths
<1>3. PICK q \in Nat : q = R \div 4 /\ q < R /\ 2 * q < R BY <1>1
<1>4. PICK a \in Int : a = Mult(R, d) BY <1>1, MultIs
<1>5. PICK m \in Nat : m = Mult(R, 2 * r) /\ 2 * m + 3 * R <= 2 * w
  <2>1. 2 * r \in Int /\ 4 * r \in Int /\ 2 * r \in 0..(4 * r + 2) BY <1>1
  <2>2. Mult(R, 2 * r) \in Nat BY <2>1, FitsIs
  <2>3. Mult(R, 2 * r) + Mult(R, 2 * r) = Mult(R, 2 * r + 2 * r)
        /\ Mult(R, 4 * r) + Mult(R, 3) = Mult(R, 4 * r + 3)
    BY <1>1, <2>1 DEF Mult
  <2>4. 2 * r + 2 * r = 4 * r BY <1>1
  <2>5. Mult(R, 3) = 3 * R BY <1>1, MultIs
  <2>6. Mult(R, 4 * r + 3) <= 2 * w BY <1>2 DEF Fits
  <2> QED BY <1>1, <2>2, <2>3, <2>4, <2>5, <2>6
<1>6. -m <= a /\ a <= m
  <2>1. 2 * r \in Int /\ -(2 * r) \in Int /\ 0 - 2 * r = -(2 * r) /\ R >= 0 BY <1>1
  <2>2. Mult(R, -(2 * r)) <= a /\ a <= m
    <3>1. R \in Nat BY <1>1
    <3> QED BY <1>4, <1>5, <2>1, <3>1, MultGrows
  <2>3. Mult(R, -(2 * r)) = -Mult(R, 2 * r) BY <1>1, <2>1 DEF Mult
  <2> QED BY <1>4, <1>5, <2>2, <2>3
<1>7. a + q \in Int /\ -(Word \div 2) <= a + q /\ a + q < Word \div 2
  BY <1>1, <1>2, <1>3, <1>5, <1>6
<1>8. Signed((a + q) % Word) = a + q BY <1>7, SignedOf
<1>9. Signed(Delta(R, d)) = a + q BY <1>3, <1>4, <1>8 DEF Delta
<1>10. d >= 0 => a >= 0
  <2>1. d >= 0 => Mult(R, 0) <= Mult(R, d)
    <3>1. R \in Nat /\ 0 \in Int BY <1>1
    <3> QED BY <3>1, MultGrows
  <2>2. Mult(R, 0) = 0 BY <1>1, MultIs
  <2> QED BY <1>4, <2>1, <2>2
<1>11. d < 0 => a + q < 0
  <2>1. -1 \in Int /\ (d < 0 => d <= -1) OBVIOUS
  <2>2. d < 0 => Mult(R, d) <= Mult(R, -1)
    <3>1. R \in Nat BY <1>1
    <3> QED BY <2>1, <3>1, MultGrows
  <2>3. Mult(R, -1) = -R BY <1>1 DEF Mult
  <2> QED BY <1>1, <1>3, <1>4, <2>2, <2>3
<1> QED BY <1>3, <1>9, <1>10, <1>11
-----------------------------------------------------------------------------
(* Circles: the loops *)

\* A product of swelip is the product, of what fits in a word.
LEMMA ProductIs ==
  ASSUME NEW n \in Nat, NEW m \in Nat, m < Word
  PROVE  mul32u32u(n, m) = Mult(n, m) % Word
<1>1. Width(m) \in Nat /\ m < Power[Width(m)] BY WidthReaches
<1>2. PICK p \in Nat \ {0} : p = Power[Width(m)] BY <1>1, Powers
<1>3. m % p = m BY <1>1, <1>2
<1>4. mul32u32u(n, m) = (n * (m % Power[Width(m)])) % Word
  BY <1>1, SumIs DEF mul32u32u
<1> QED BY <1>2, <1>3, <1>4 DEF Mult

\* The numbers of a circle fit.
LEMMA CircleNumbers ==
  ASSUME NEW s \in Shapes, s.op = "ELIP", s.x1 = s.y1, s.x1 > 0
  PROVE  Fits(AA(s), s.x1) /\ BB(s) = AA(s) /\ stopper(s) = AA(s) \div 2 + AA(s)
<1>1. PICK r \in Nat \ {0} : r = s.x1 BY Radii
<1>2. PICK R \in Nat \ {0} : R = r * r
  <2>1. r * r \in Nat \ {0} OBVIOUS
  <2> QED BY <2>1
<1>3. Fits(R, r)
  <2>1. (s.x1 * s.x1) * (4 * s.x1 + 3) <= Word BY InsideAssumption
  <2>2. Mult(R, 4 * r + 3) <= Word BY <1>1, <1>2, <2>1 DEF Mult
  <2> QED BY <1>2, <2>2 DEF Fits
<1>4. r < Word /\ R < Word /\ R + r < Word /\ Word \in Nat \ {0} BY <1>3, FitsIs
<1>5. AA(s) = R
  <2>1. mul32u32u(r, r) = Mult(r, r) % Word BY <1>4, ProductIs
  <2>2. Mult(r, r) = R BY <1>2 DEF Mult
  <2>3. R % Word = R BY <1>4
  <2> QED BY <1>1, <2>1, <2>2, <2>3 DEF AA, sqr32u32u
<1>6. BB(s) = R BY <1>5 DEF AA, BB
<1>7. stopper(s) = R \div 2 + R
  <2>1. Mult(R, 2) < Word
    <3>1. 2 \in 0..(4 * r + 2) OBVIOUS
    <3> QED BY <1>3, <3>1, FitsIs
  <2>2. Mult(R, 2) = 2 * R BY MultIs
  <2>3. R \div 2 + R \in Nat /\ R \div 2 + R < Word
    <3>1. R \div 2 \in Nat /\ R \div 2 <= R OBVIOUS
    <3>2. PICK h \in Nat : h = R \div 2 /\ h <= R BY <3>1
    <3> QED BY <1>4, <2>1, <2>2, <3>2
  <2>4. (R \div 2 + R) % Word = R \div 2 + R BY <1>4, <2>3
  <2> QED BY <1>5, <1>6, <2>4 DEF stopper
<1> QED BY <1>1, <1>3, <1>5, <1>6, <1>7

\* The error term is an integer.
LEMMA DeltaTyped == ASSUME NEW R \in Nat, NEW d \in Int PROVE Delta(R, d) \in Int
<1>1. (Delta(R, d) + Mult(R, 0)) % Word = Delta(R, d + 0) /\ Delta(R, d) \in Int
  <2>1. 0 \in Int OBVIOUS
  <2> QED BY <2>1, DeltaStep
<1> QED BY <1>1

\* How far a point is off the circle.
Off(r, x, y) == x * x + y * y - r * r

\* What loop A and loop B are of a circle.
CircleA(R, r, l) ==
  /\ l.at = "A" /\ l.x <= l.y /\ l.y <= r
  /\ l.AAy = Mult(R, l.y) /\ l.BBx = Mult(R, l.x) /\ l.BB2 = Mult(R, 2 * l.x + 3)
  /\ -l.y <= Off(r, l.x, l.y) /\ Off(r, l.x, l.y) <= l.y - 1
  /\ l.dd = Delta(R, Off(r, l.x, l.y) + 2 * l.x + 1 - l.y)

CircleB(R, r, l) ==
  /\ l.at = "B" /\ l.x <= r /\ l.y <= r /\ l.y <= l.x + 1
  /\ l.AAy = Mult(R, l.y) /\ l.BB2 = Mult(R, 2 * l.x + 2)
  /\ -l.x - 1 <= Off(r, l.x, l.y) /\ Off(r, l.x, l.y) <= l.x
  /\ l.y > 0 => l.dd = Delta(R, Off(r, l.x, l.y) + l.x - 2 * l.y + 1)

\* Its loop A ends as the comment says.
LEMMA GuardIs ==
  ASSUME NEW R, NEW r, Fits(R, r), NEW x \in Nat, NEW y \in Nat, x <= y, y <= r
  PROVE  /\ (Mult(R, y) - Mult(R, x)) % Word > R \div 2 + R <=> y - x >= 2
         /\ Mult(R, y) - R \div 2 > Mult(R, x) + R <=> y - x >= 2
<1>1. R \in Nat \ {0} /\ r \in Nat \ {0} BY FitsIs
<1>2. PICK k \in Nat : k = y - x
  <2>1. y - x \in Nat OBVIOUS
  <2> QED BY <2>1
<1>3. Mult(R, y) - Mult(R, x) = Mult(R, k) BY <1>1, <1>2 DEF Mult
<1>4. Mult(R, k) \in Nat /\ Mult(R, k) % Word = Mult(R, k)
  <2>1. k \in 0..(4 * r + 2) BY <1>1, <1>2
  <2> QED BY <2>1, FitsIs
<1>5. Mult(R, y) \in Int /\ Mult(R, x) \in Int
  <2>1. R \in Int BY <1>1
  <2>2. \A m \in Int : Mult(R, m) \in Int BY <2>1, MultIs
  <2> QED BY <2>2
<1>6. Mult(R, k) > R \div 2 + R <=> k >= 2
  <2>1. R \in Int /\ R \in Nat BY <1>1
  <2>2. Mult(R, 1) = R /\ Mult(R, 2) = 2 * R BY <2>1, MultIs
  <2>3. k >= 2 => Mult(R, 2) <= Mult(R, k) BY <2>1, MultGrows
  <2>4. k <= 1 => Mult(R, k) <= Mult(R, 1) BY <2>1, MultGrows
  <2> QED BY <1>1, <1>4, <2>2, <2>3, <2>4
<1>7. (Mult(R, y) - Mult(R, x)) % Word = Mult(R, k) BY <1>3, <1>4
<1>8. Mult(R, y) - R \div 2 > Mult(R, x) + R <=> Mult(R, k) > R \div 2 + R
  <2>1. PICK a \in Int : a = Mult(R, y) BY <1>5
  <2>2. PICK b \in Int : b = Mult(R, x) BY <1>5
  <2>3. PICK h \in Int : h = R \div 2 BY <1>1
  <2>4. a - h > b + R <=> a - b > h + R BY <1>1
  <2> QED BY <1>3, <2>1, <2>2, <2>3, <2>4
<1> QED BY <1>2, <1>6, <1>7, <1>8

\* A turn of loop A.
LEMMA CircleTurnA ==
  ASSUME NEW s \in Shapes, NEW R, NEW r, R = AA(s), r = s.x1, Fits(R, r), BB(s) = R,
         NEW l \in EllipseStates, CircleA(R, r, l), l.y - l.x >= 2
  PROVE  CircleA(R, r, LoopA(s, l))
<1> DEFINE k == LoopA(s, l)
<1>1. R \in Nat \ {0} /\ r \in Nat \ {0} /\ Word \in Nat \ {0} BY FitsIs
<1>2. PICK x \in Nat, y \in Nat : x = l.x /\ y = l.y BY StateParts
<1>3. PICK e \in Int : e = Off(r, x, y) BY <1>1 DEF Off
<1>4. /\ l.at = "A" /\ x <= y /\ y <= r /\ y - x >= 2 /\ y > 0
      /\ l.AAy = Mult(R, y) /\ l.BBx = Mult(R, x) /\ l.BB2 = Mult(R, 2 * x + 3)
      /\ -y <= e /\ e <= y - 1 /\ l.dd = Delta(R, e + 2 * x + 1 - y)
  BY <1>2, <1>3 DEF CircleA
<1>5. PICK d \in Int : d = e + 2 * x + 1 - y OBVIOUS
<1>6. /\ k.at = "A" /\ k.x = x + 1
      /\ k.y = IF Signed(l.dd) >= 0 THEN y - 1 ELSE y
      /\ k.AAy = IF Signed(l.dd) >= 0 THEN (l.AAy - R) % Word ELSE l.AAy
      /\ k.BBx = (l.BBx + R) % Word
      /\ k.BB2 = (l.BB2 + 2 * R) % Word
      /\ k.dd = (l.dd + (IF Signed(l.dd) >= 0 THEN 2 * (R - l.AAy) ELSE 0) + l.BB2) % Word
  BY <1>2, <1>4, TurnA
<1>7. Signed(l.dd) >= 0 <=> d >= 0
  <2>1. -(2 * r) <= d /\ d <= 2 * r BY <1>1, <1>4, <1>5
  <2> QED BY <1>4, <1>5, <2>1, DeltaSign
<1>8. k.BBx = Mult(R, k.x)
  <2>1. Mult(R, x) + R = Mult(R, x + 1) BY <1>1 DEF Mult
  <2>2. x + 1 \in 0..(4 * r + 2) BY <1>1, <1>4
  <2>3. Mult(R, x + 1) % Word = Mult(R, x + 1) BY <2>2, FitsIs
  <2> QED BY <1>4, <1>6, <2>1, <2>3
<1>9. k.BB2 = Mult(R, 2 * k.x + 3)
  <2>1. Mult(R, 2 * x + 3) + 2 * R = Mult(R, 2 * x + 5) BY <1>1 DEF Mult
  <2>2. 2 * x + 5 \in 0..(4 * r + 2) /\ 2 * (x + 1) + 3 = 2 * x + 5 BY <1>1, <1>4
  <2>3. Mult(R, 2 * x + 5) % Word = Mult(R, 2 * x + 5) BY <2>2, FitsIs
  <2> QED BY <1>4, <1>6, <2>1, <2>2, <2>3
<1>10. CASE d >= 0
  <2>1. k.y = y - 1 /\ k.AAy = (Mult(R, y) - R) % Word
        /\ k.dd = (Delta(R, d) + 2 * (R - Mult(R, y)) + Mult(R, 2 * x + 3)) % Word
    BY <1>4, <1>5, <1>6, <1>7, <1>10
  <2>2. k.AAy = Mult(R, y - 1)
    <3>1. Mult(R, y) - R = Mult(R, y - 1) BY <1>1 DEF Mult
    <3>2. y - 1 \in 0..(4 * r + 2) BY <1>1, <1>4
    <3>3. Mult(R, y - 1) % Word = Mult(R, y - 1) BY <3>2, FitsIs
    <3> QED BY <2>1, <3>1, <3>3
  <2>3. k.dd = Delta(R, d + (2 * x - 2 * y + 5))
    <3>1. 2 * (R - Mult(R, y)) + Mult(R, 2 * x + 3) = Mult(R, 2 * x - 2 * y + 5)
      BY <1>1 DEF Mult
    <3>2. Delta(R, d) \in Int /\ 2 * x - 2 * y + 5 \in Int /\ R \in Nat
      <4>1. R \in Nat BY <1>1
      <4> QED BY <4>1, DeltaTyped
    <3>3. (Delta(R, d) + Mult(R, 2 * x - 2 * y + 5)) % Word = Delta(R, d + (2 * x - 2 * y + 5))
      BY <3>2, DeltaStep, ZenonT(40)
    <3>4. R - Mult(R, y) \in Int /\ Mult(R, 2 * x + 3) \in Int BY <1>1 DEF Mult
    <3>5. PICK a, b, c \in Int :
            a = Delta(R, d) /\ b = 2 * (R - Mult(R, y)) /\ c = Mult(R, 2 * x + 3)
      BY <3>2, <3>4
    <3>6. (a + b) + c = a + (b + c) OBVIOUS
    <3> QED BY <2>1, <3>1, <3>3, <3>5, <3>6
  <2>4. Off(r, x + 1, y - 1) = e + 2 * x - 2 * y + 2
    <3>1. Off(r, x + 1, y - 1) = Off(r, x, y) + 2 * x - 2 * y + 2 BY <1>1 DEF Off
    <3> QED BY <1>3, <3>1
  <2>5. d + (2 * x - 2 * y + 5) = (e + 2 * x - 2 * y + 2) + 2 * (x + 1) + 1 - (y - 1)
    BY <1>5
  <2>6. /\ x + 1 <= y - 1 /\ y - 1 <= r /\ -(y - 1) <= e + 2 * x - 2 * y + 2
        /\ e + 2 * x - 2 * y + 2 <= (y - 1) - 1
    BY <1>1, <1>4, <1>5, <1>10
  <2> HIDE DEF k
  <2>7. CircleA(R, r, k)
    BY <1>6, <1>8, <1>9, <2>1, <2>2, <2>3, <2>4, <2>5, <2>6 DEF CircleA
  <2> QED BY <2>7 DEF k
<1>11. CASE d < 0
  <2>1. k.y = y /\ k.AAy = Mult(R, y)
        /\ k.dd = (Delta(R, d) + 0 + Mult(R, 2 * x + 3)) % Word
    BY <1>4, <1>5, <1>6, <1>7, <1>11
  <2>2. k.dd = Delta(R, d + (2 * x + 3))
    <3>1. Delta(R, d) \in Int /\ 2 * x + 3 \in Int /\ R \in Nat
      <4>1. R \in Nat BY <1>1
      <4> QED BY <4>1, DeltaTyped
    <3>2. (Delta(R, d) + Mult(R, 2 * x + 3)) % Word = Delta(R, d + (2 * x + 3))
      BY <3>1, DeltaStep
    <3>3. Delta(R, d) + 0 = Delta(R, d) BY <3>1
    <3> QED BY <2>1, <3>2, <3>3
  <2>3. Off(r, x + 1, y) = e + 2 * x + 1
    <3>1. Off(r, x + 1, y) = Off(r, x, y) + 2 * x + 1 BY <1>1 DEF Off
    <3> QED BY <1>3, <3>1
  <2>4. d + (2 * x + 3) = (e + 2 * x + 1) + 2 * (x + 1) + 1 - y BY <1>5
  <2>5. x + 1 <= y /\ -y <= e + 2 * x + 1 /\ e + 2 * x + 1 <= y - 1
    BY <1>1, <1>4, <1>5, <1>11
  <2> HIDE DEF k
  <2>6. CircleA(R, r, k)
    BY <1>4, <1>6, <1>8, <1>9, <2>1, <2>2, <2>3, <2>4, <2>5 DEF CircleA
  <2> QED BY <2>6 DEF k
<1> QED BY <1>10, <1>11

\* From loop A to loop B.
LEMMA CircleToB ==
  ASSUME NEW s \in Shapes, NEW R, NEW r, R = AA(s), r = s.x1, Fits(R, r), BB(s) = R,
         NEW l \in EllipseStates, CircleA(R, r, l), l.y - l.x <= 1
  PROVE  CircleB(R, r, PrepareB(s, l))
<1> DEFINE k == PrepareB(s, l)
<1>1. /\ R \in Nat \ {0} /\ r \in Nat \ {0} /\ Word \in Nat \ {0} /\ R \in Nat /\ r \in Nat
      /\ R < Word /\ R + r < Word /\ r <= R
  BY FitsIs
<1>10. R = r * r BY DEF Fits
<1>11. Word \in Nat \ {0} BY <1>1
<1>2. PICK x \in Nat, y \in Nat : x = l.x /\ y = l.y BY StateParts
<1>3. PICK e \in Int : e = Off(r, x, y) BY <1>1 DEF Off
<1>4. /\ x <= y /\ y <= r /\ y - x <= 1
      /\ l.AAy = Mult(R, y) /\ l.BB2 = Mult(R, 2 * x + 3)
      /\ -y <= e /\ e <= y - 1
  BY <1>2, <1>3 DEF CircleA
<1>5. /\ k.at = "B" /\ k.x = x /\ k.y = y /\ k.AAy = l.AAy
      /\ k.BB2 = (l.BB2 - R) % Word
      /\ k.dd = (mul32u32u(R, (sqr32u32u(x) + x) % Word) + R \div 4
                 + mul32u32u(R, sqr32u32u((y - 1) % Word)) - mul32u32u(R, R)) % Word
  BY <1>2, TurnToB
<1>6. k.BB2 = Mult(R, 2 * x + 2)
  <2>1. Mult(R, 2 * x + 3) - R = Mult(R, 2 * x + 2) BY <1>1 DEF Mult
  <2>2. 2 * x + 2 \in 0..(4 * r + 2) BY <1>1, <1>4
  <2>3. Mult(R, 2 * x + 2) % Word = Mult(R, 2 * x + 2) BY <2>2, FitsIs
  <2> QED BY <1>4, <1>5, <2>1, <2>3
<1>7. ASSUME y > 0 PROVE k.dd = Delta(R, e + x - 2 * y + 1)
  <2>1. ASSUME NEW n \in Nat, n <= r PROVE sqr32u32u(n) = n * n /\ n * n <= R /\ n * n \in Nat
    <3>1. n * n <= r * r /\ n * n \in Nat
      <4>1. PICK m \in Nat : r = n + m
        <5>1. PICK m \in Nat : m = r - n /\ r \in Nat BY <1>1, <2>1
        <5> QED BY <5>1
      <4>2. n * m \in Nat /\ m * m \in Nat /\ n * n \in Nat OBVIOUS
      <4>3. (n + m) * (n + m) = n * n + 2 * (n * m) + m * m OBVIOUS
      <4> QED BY <4>1, <4>2, <4>3
    <3>2. mul32u32u(n, n) = Mult(n, n) % Word
      <4>1. n < Word BY <1>1, <2>1
      <4> QED BY <4>1, ProductIs
    <3>5. n * n <= R BY <1>10, <3>1, Zenon
    <3>3. PICK q \in Nat : q = n * n /\ q < Word
      <4>1. PICK q \in Nat : q = n * n BY <3>1
      <4>2. q <= R BY <3>5, <4>1, Zenon
      <4> QED BY <1>1, <4>1, <4>2
    <3>4. q % Word = q BY <1>11, <3>3
    <3> QED BY <3>1, <3>2, <3>3, <3>4, <3>5 DEF sqr32u32u, Mult
  <2>2. PICK u \in Nat : u = x * x + x /\ u < Word /\ sqr32u32u(x) + x = u
    <3>1. x <= r BY <1>1, <1>4
    <3>2. PICK q \in Nat : q = x * x /\ q <= R /\ sqr32u32u(x) = q BY <2>1, <3>1
    <3> QED BY <1>1, <3>1, <3>2
  <2>3. PICK v \in Nat : v = (y - 1) * (y - 1) /\ v < Word /\ sqr32u32u((y - 1) % Word) = v
    <3>1. PICK m \in Nat : m = y - 1 /\ m <= r /\ m < Word BY <1>1, <1>4, <1>7
    <3>2. m % Word = m BY <1>11, <3>1
    <3>3. PICK q \in Nat : q = m * m /\ q <= R /\ sqr32u32u(m) = q BY <2>1, <3>1
    <3> QED BY <1>1, <3>1, <3>2, <3>3
  <2>4. u % Word = u BY <1>1, <2>2
  <2>5. /\ mul32u32u(R, u) = Mult(R, u) % Word /\ mul32u32u(R, v) = Mult(R, v) % Word
        /\ mul32u32u(R, R) = Mult(R, R) % Word
    BY <1>1, <2>2, <2>3, ProductIs
  <2>6. PICK a, b, c \in Int : a = Mult(R, u) /\ b = Mult(R, v) /\ c = Mult(R, R)
    BY <1>1 DEF Mult
  <2>7. PICK q \in Nat : q = R \div 4 BY <1>1
  <2>8. k.dd = ((a % Word) + q + (b % Word) - (c % Word)) % Word
    BY <1>5, <2>2, <2>3, <2>4, <2>5, <2>6, <2>7
  <2>9. ((a % Word) + q + (b % Word) - (c % Word)) % Word = (a + b - c + q) % Word
    <3>1. PICK cq \in Int : c = Word * cq + (c % Word) /\ c % Word \in Int
      <4>1. c \div Word \in Int /\ c = Word * (c \div Word) + (c % Word) /\ c % Word \in Int
        BY <1>11
      <4> QED BY <4>1
    <3>2. a % Word \in Int /\ b % Word \in Int BY <1>1
    <3>3. PICK ra, rb, rc \in Int : ra = a % Word /\ rb = b % Word /\ rc = c % Word BY <3>1, <3>2
    <3>4. ((a % Word) + (q + rb - rc)) % Word = (a + (q + rb - rc)) % Word
      <4>1. PICK z \in Int : z = q + rb - rc OBVIOUS
      <4>2. Word \in Nat \ {0} BY <1>1
      <4>3. ((a % Word) + z) % Word = (a + z) % Word BY <4>2, SignedRemainder
      <4> QED BY <4>1, <4>3
    <3>5. ((b % Word) + (a + q - rc)) % Word = (b + (a + q - rc)) % Word
      <4>1. PICK z \in Int : z = a + q - rc OBVIOUS
      <4>2. Word \in Nat \ {0} BY <1>1
      <4>3. ((b % Word) + z) % Word = (b + z) % Word BY <4>2, SignedRemainder
      <4> QED BY <4>1, <4>3
    <3>6. (((a + b - c + q) + Word * cq) % Word) = (a + b - c + q) % Word
      <4>1. PICK z \in Int : z = a + b - c + q OBVIOUS
      <4>2. (z + Word * cq) % Word = z % Word
        <5>1. PICK p \in Int, t \in 0..(Word - 1) : z = Word * p + t /\ t = z % Word
          <6>1. z \div Word \in Int /\ z = Word * (z \div Word) + (z % Word)
                /\ z % Word \in 0..(Word - 1)
            BY <1>11
          <6> QED BY <6>1
        <5>2. PICK g \in Int : g = p + cq OBVIOUS
        <5>3. z + Word * cq = Word * g + t BY <1>1, <5>1, <5>2
        <5>4. (Word * g + t) % Word = t BY <1>11
        <5> QED BY <5>1, <5>3, <5>4
      <4> QED BY <4>1, <4>2
    <3>7. (a % Word) + q + (b % Word) - (c % Word) = (a % Word) + (q + rb - rc) BY <3>3
    <3>8. a + (q + rb - rc) = (b % Word) + (a + q - rc) BY <3>3
    <3>9. b + (a + q - rc) = (a + b - c + q) + Word * cq
      <4>1. PICK w \in Int : w = Word * cq BY <1>11
      <4>2. c = w + rc BY <3>1, <3>3, <4>1
      <4> QED BY <4>1, <4>2
    <3> QED BY <3>4, <3>5, <3>6, <3>7, <3>8, <3>9
  <2>10. a + b - c = Mult(R, e + x - 2 * y + 1)
    <3>1. u + v - R = e + x - 2 * y + 1 BY <1>1, <1>10, <1>3, <2>2, <2>3 DEF Off
    <3>2. Mult(R, u) + Mult(R, v) - Mult(R, R) = Mult(R, u + v - R) BY <1>1 DEF Mult
    <3> QED BY <2>6, <3>1, <3>2
  <2> QED BY <2>7, <2>8, <2>9, <2>10 DEF Delta
<1>8. x <= r /\ y <= x + 1 /\ -x - 1 <= e /\ e <= x BY <1>1, <1>4
<1> HIDE DEF k
<1>9. CircleB(R, r, k) BY <1>1, <1>3, <1>4, <1>5, <1>6, <1>7, <1>8 DEF CircleB
<1> QED BY <1>9 DEF k

\* A turn of loop B.
LEMMA CircleTurnB ==
  ASSUME NEW s \in Shapes, NEW R, NEW r, R = AA(s), r = s.x1, Fits(R, r), BB(s) = R,
         NEW l \in EllipseStates, CircleB(R, r, l), l.y > 0
  PROVE  CircleB(R, r, LoopB(s, l))
<1> DEFINE k == LoopB(s, l)
<1>1. R \in Nat \ {0} /\ r \in Nat \ {0} /\ Word \in Nat \ {0} /\ R \in Nat /\ r \in Nat BY FitsIs
<1>2. PICK x \in Nat, y \in Nat : x = l.x /\ y = l.y BY StateParts
<1>3. PICK e \in Int : e = Off(r, x, y) BY <1>1 DEF Off
<1>4. PICK d \in Int : d = e + x - 2 * y + 1 OBVIOUS
<1>5. /\ l.at = "B" /\ x <= r /\ y <= r /\ y <= x + 1 /\ y > 0
      /\ l.AAy = Mult(R, y) /\ l.BB2 = Mult(R, 2 * x + 2)
      /\ -x - 1 <= e /\ e <= x /\ l.dd = Delta(R, d)
  BY <1>2, <1>3, <1>4 DEF CircleB
<1>6. /\ k.at = "B" /\ k.y = y - 1
      /\ k.x = (IF Signed(l.dd) < 0 THEN x + 1 ELSE x)
      /\ k.AAy = (l.AAy - R) % Word
      /\ k.BB2 = IF Signed(l.dd) < 0 THEN (l.BB2 + 2 * R) % Word ELSE l.BB2
      /\ k.dd = (l.dd + (IF Signed(l.dd) < 0 THEN l.BB2 ELSE 0) + 3 * R - 2 * l.AAy) % Word
  BY <1>2, <1>5, TurnB
<1>7. Signed(l.dd) < 0 <=> d < 0
  <2>1. -(2 * r) <= d /\ d <= 2 * r BY <1>1, <1>4, <1>5
  <2> QED BY <1>5, <2>1, DeltaSign
<1>8. k.AAy = Mult(R, y - 1)
  <2>1. Mult(R, y) - R = Mult(R, y - 1) BY <1>1 DEF Mult
  <2>2. y - 1 \in 0..(4 * r + 2) BY <1>1, <1>5
  <2>3. Mult(R, y - 1) % Word = Mult(R, y - 1) BY <2>2, FitsIs
  <2> QED BY <1>5, <1>6, <2>1, <2>3
<1>9. Delta(R, d) \in Int BY <1>1, DeltaTyped
<1>10. CASE d >= 0
  <2>1. /\ k.x = x /\ k.BB2 = Mult(R, 2 * x + 2)
        /\ k.dd = (Delta(R, d) + 0 + 3 * R - 2 * Mult(R, y)) % Word
    BY <1>4, <1>5, <1>6, <1>7, <1>10
  <2>2. k.dd = Delta(R, d + (3 - 2 * y))
    <3>1. 3 * R - 2 * Mult(R, y) = Mult(R, 3 - 2 * y) BY <1>1 DEF Mult
    <3>2. (Delta(R, d) + Mult(R, 3 - 2 * y)) % Word = Delta(R, d + (3 - 2 * y))
      <4>1. 3 - 2 * y \in Int OBVIOUS
      <4> QED BY <1>1, <4>1, DeltaStep
    <3>3. PICK a, b, c \in Int : a = Delta(R, d) /\ b = 3 * R /\ c = 2 * Mult(R, y)
      BY <1>1, <1>9 DEF Mult
    <3>4. a + 0 + b - c = a + (b - c) OBVIOUS
    <3> QED BY <2>1, <3>1, <3>2, <3>3, <3>4
  <2>3. Off(r, x, y - 1) = e - 2 * y + 1
    <3>1. Off(r, x, y - 1) = Off(r, x, y) - 2 * y + 1 BY <1>1 DEF Off
    <3> QED BY <1>3, <3>1
  <2>4. d + (3 - 2 * y) = (e - 2 * y + 1) + x - 2 * (y - 1) + 1 BY <1>4
  <2>5. y - 1 <= r /\ y - 1 <= x + 1 /\ -x - 1 <= e - 2 * y + 1 /\ e - 2 * y + 1 <= x
    BY <1>1, <1>4, <1>5, <1>10
  <2> HIDE DEF k
  <2>6. CircleB(R, r, k)
    BY <1>5, <1>6, <1>8, <2>1, <2>2, <2>3, <2>4, <2>5 DEF CircleB
  <2> QED BY <2>6 DEF k
<1>11. CASE d < 0
  <2>1. /\ k.x = x + 1 /\ k.BB2 = (Mult(R, 2 * x + 2) + 2 * R) % Word
        /\ k.dd = (Delta(R, d) + Mult(R, 2 * x + 2) + 3 * R - 2 * Mult(R, y)) % Word
    BY <1>4, <1>5, <1>6, <1>7, <1>11
  <2>2. Off(r, x + 1, y - 1) = e + 2 * x - 2 * y + 2
    <3>1. Off(r, x + 1, y - 1) = Off(r, x, y) + 2 * x - 2 * y + 2 BY <1>1 DEF Off
    <3> QED BY <1>3, <3>1
  <2>3. x + 1 <= r
    <3> SUFFICES ASSUME x = r PROVE FALSE BY <1>1, <1>5
    <3>1. PICK m \in Nat : m = y - 1 BY <1>5
    <3>2. Off(r, r + 1, m) = 2 * r + 1 + m * m BY <1>1 DEF Off
    <3>3. m * m >= 0 /\ m * m \in Int OBVIOUS
    <3>4. Off(r, r + 1, m) <= r BY <1>1, <1>4, <1>11, <2>2, <3>1
    <3> QED BY <1>1, <3>2, <3>3, <3>4
  <2>4. k.BB2 = Mult(R, 2 * x + 4)
    <3>1. Mult(R, 2 * x + 2) + 2 * R = Mult(R, 2 * x + 4) BY <1>1 DEF Mult
    <3>2. 2 * x + 4 \in 0..(4 * r + 2) BY <1>1, <2>3
    <3>3. Mult(R, 2 * x + 4) % Word = Mult(R, 2 * x + 4) BY <3>2, FitsIs
    <3> QED BY <2>1, <3>1, <3>3
  <2>5. k.dd = Delta(R, d + (2 * x - 2 * y + 5))
    <3>1. Mult(R, 2 * x + 2) + 3 * R - 2 * Mult(R, y) = Mult(R, 2 * x - 2 * y + 5)
      BY <1>1 DEF Mult
    <3>2. (Delta(R, d) + Mult(R, 2 * x - 2 * y + 5)) % Word = Delta(R, d + (2 * x - 2 * y + 5))
      <4>1. 2 * x - 2 * y + 5 \in Int OBVIOUS
      <4> QED BY <1>1, <4>1, DeltaStep
    <3>3. PICK a, b, c, g \in Int :
            a = Delta(R, d) /\ b = 3 * R /\ c = 2 * Mult(R, y) /\ g = Mult(R, 2 * x + 2)
      BY <1>1, <1>9 DEF Mult
    <3>4. a + g + b - c = a + (g + b - c) OBVIOUS
    <3> QED BY <2>1, <3>1, <3>2, <3>3, <3>4
  <2>6. d + (2 * x - 2 * y + 5) = (e + 2 * x - 2 * y + 2) + (x + 1) - 2 * (y - 1) + 1
        /\ 2 * (x + 1) + 2 = 2 * x + 4
    BY <1>4
  <2>7. /\ y - 1 <= r /\ y - 1 <= (x + 1) + 1
        /\ -(x + 1) - 1 <= e + 2 * x - 2 * y + 2 /\ e + 2 * x - 2 * y + 2 <= x + 1
    BY <1>1, <1>4, <1>5, <1>11
  <2> HIDE DEF k
  <2>8. CircleB(R, r, k)
    BY <1>6, <1>8, <2>1, <2>2, <2>3, <2>4, <2>5, <2>6, <2>7 DEF CircleB
  <2> QED BY <2>8 DEF k
<1> QED BY <1>10, <1>11

\* What the loops are of any circle.
IsCircle(s, l) ==
  IF s.x1 = 0 THEN l.y = 0 ELSE CircleA(AA(s), s.x1, l) \/ CircleB(AA(s), s.x1, l)

\* A turn keeps the loops of a circle on it, whose comparison does not wrap; where
\* they end, y is zero.
LEMMA CircleTurn ==
  ASSUME NEW s \in Shapes, s.op = "ELIP", s.x1 = s.y1, NEW l \in EllipseStates, IsCircle(s, l)
  PROVE  /\ IsCircle(s, Turn("PROGRAM", s, l))
         /\ Turn("COMMENT", s, l) = Turn("PROGRAM", s, l)
         /\ Ended(s, l) => l.y = 0
<1>1. l.at \in {"A", "B"} /\ l.y \in Nat /\ l.x \in Nat /\ s.x1 \in Nat BY StateParts, Radii
<1>2. CASE l.y = 0
  <2>1. ~ InLoopA(s, l) /\ ~ InLoopB(s, l) /\ ~ GoesA("COMMENT", s, l)
    BY <1>2 DEF InLoopA, InLoopB, GoesA
  <2>2. Turn("PROGRAM", s, l) = (IF l.at = "A" THEN PrepareB(s, l) ELSE l)
        /\ Turn("COMMENT", s, l) = (IF l.at = "A" THEN PrepareB(s, l) ELSE l)
    BY <2>1 DEF Turn, GoesA, GoesB
  <2>3. IsCircle(s, Turn("PROGRAM", s, l))
    <3>1. CASE l.at = "B" BY <2>2, <3>1
    <3>2. CASE l.at = "A" /\ s.x1 = 0
      <4>1. PrepareB(s, l).y = 0 BY <1>2, TurnToB
      <4> QED BY <2>2, <3>2, <4>1 DEF IsCircle
    <3>3. CASE l.at = "A" /\ s.x1 # 0
      <4>1. CircleA(AA(s), s.x1, l) BY <3>3 DEF IsCircle, CircleB
      <4>2. s.x1 > 0 BY <1>1, <3>3
      <4>3. Fits(AA(s), s.x1) /\ BB(s) = AA(s) BY <4>2, CircleNumbers
      <4>4. l.y - l.x <= 1 BY <1>1, <1>2
      <4>5. CircleB(AA(s), s.x1, PrepareB(s, l)) BY <4>1, <4>3, <4>4, CircleToB
      <4> QED BY <2>2, <3>3, <4>5 DEF IsCircle
    <3> QED BY <1>1, <3>1, <3>2, <3>3
  <2> QED BY <1>2, <2>2, <2>3
<1>3. CASE l.y > 0
  <2>1. s.x1 # 0 /\ s.x1 > 0 BY <1>1, <1>3 DEF IsCircle
  <2>2. Fits(AA(s), s.x1) /\ BB(s) = AA(s) /\ stopper(s) = AA(s) \div 2 + AA(s)
    BY <2>1, CircleNumbers
  <2>3. PICK R, r : R = AA(s) /\ r = s.x1 OBVIOUS
  <2>4. Fits(R, r) /\ BB(s) = R /\ stopper(s) = R \div 2 + R BY <2>2, <2>3
  <2>5. CASE CircleA(R, r, l)
    <3>1. l.at = "A" /\ l.x <= l.y /\ l.y <= r /\ l.AAy = Mult(R, l.y) /\ l.BBx = Mult(R, l.x)
          /\ l.x <= s.x1
      BY <1>1, <2>3, <2>5 DEF CircleA
    <3>2. /\ (Mult(R, l.y) - Mult(R, l.x)) % Word > R \div 2 + R <=> l.y - l.x >= 2
          /\ Mult(R, l.y) - R \div 2 > Mult(R, l.x) + R <=> l.y - l.x >= 2
      BY <1>1, <2>4, <3>1, GuardIs
    <3>3. InLoopA(s, l) <=> l.y - l.x >= 2 BY <1>3, <2>4, <3>1, <3>2 DEF InLoopA
    <3>4. GoesA("COMMENT", s, l) <=> l.y - l.x >= 2
      BY <1>3, <2>3, <2>4, <3>1, <3>2 DEF GoesA
    <3>5. ~ Ended(s, l) BY <3>1 DEF Ended
    <3>6. CASE l.y - l.x >= 2
      <4>1. Turn("PROGRAM", s, l) = LoopA(s, l) /\ Turn("COMMENT", s, l) = LoopA(s, l)
        BY <3>3, <3>4, <3>6 DEF Turn, GoesA
      <4>2. CircleA(R, r, LoopA(s, l)) BY <2>3, <2>4, <2>5, <3>6, CircleTurnA
      <4> QED BY <2>1, <2>3, <3>5, <4>1, <4>2 DEF IsCircle
    <3>7. CASE ~ (l.y - l.x >= 2)
      <4>1. Turn("PROGRAM", s, l) = PrepareB(s, l) /\ Turn("COMMENT", s, l) = PrepareB(s, l)
        BY <3>1, <3>3, <3>4, <3>7 DEF Turn, GoesA
      <4>2. l.y - l.x <= 1 BY <1>1, <3>7
      <4>3. CircleB(R, r, PrepareB(s, l)) BY <2>3, <2>4, <2>5, <4>2, CircleToB
      <4> QED BY <2>1, <2>3, <3>5, <4>1, <4>3 DEF IsCircle
    <3> QED BY <3>6, <3>7
  <2>6. CASE CircleB(R, r, l)
    <3>1. l.at = "B" /\ l.x <= s.x1 BY <2>3, <2>6 DEF CircleB
    <3>2. InLoopB(s, l) /\ ~ InLoopA(s, l) /\ ~ GoesA("COMMENT", s, l) /\ ~ Ended(s, l)
      BY <1>3, <3>1 DEF InLoopA, InLoopB, GoesA, Ended
    <3>3. Turn("PROGRAM", s, l) = LoopB(s, l) /\ Turn("COMMENT", s, l) = LoopB(s, l)
      BY <3>1, <3>2 DEF Turn, GoesA, GoesB
    <3>4. CircleB(R, r, LoopB(s, l)) BY <1>3, <2>3, <2>4, <2>6, CircleTurnB
    <3> QED BY <2>1, <2>3, <3>2, <3>3, <3>4 DEF IsCircle
  <2> QED BY <2>1, <2>3, <2>5, <2>6 DEF IsCircle
<1> QED BY <1>1, <1>2, <1>3

\* A circle is whole, and drawn as the comments say.
LEMMA CirclesAre ==
  ASSUME NEW s \in Shapes, s.op = "ELIP", s.x1 = s.y1
  PROVE  /\ EllipseTurns("PROGRAM", s)[StopOf(s)].y = 0
         /\ Painted("COMMENT", s) = Painted("PROGRAM", s)
<1> DEFINE l == EllipseTurns("PROGRAM", s)
           e == EllipseTurns("COMMENT", s)
           f == Frames("PROGRAM", s)
           g == Frames("COMMENT", s)
           n == StopOf(s)
           N == Turns(s)
<1>1. s.x1 \in Nat /\ s.y1 \in Nat /\ N \in Nat BY Radii
<1>2. n \in 0..N /\ Ended(s, l[n]) BY AtStop
<1>3. /\ l[0] = EllipsePrepare(s) /\ e[0] = EllipsePrepare(s)
      /\ \A i \in 1..N : l[i] = Turn("PROGRAM", s, l[i - 1]) /\ e[i] = Turn("COMMENT", s, e[i - 1])
      /\ \A i \in 0..N : l[i] \in EllipseStates
  BY EllipseIs
<1>4. /\ Painted("PROGRAM", s) = f[N] /\ Painted("COMMENT", s) = g[N]
      /\ f[-1] = swfill_unroll /\ g[-1] = swfill_unroll
      /\ \A i \in 0..N : /\ f[i] = swslr_4way(f[i - 1], s, l[i].x, l[i].y)
                         /\ g[i] = swslr_4way(g[i - 1], s, e[i].x, e[i].y)
  BY FramesAre
<1> HIDE DEF l, e, f, g, n, N
<1>5. IsCircle(s, EllipsePrepare(s))
  <2>1. CASE s.x1 = 0 BY <2>1 DEF IsCircle, EllipsePrepare
  <2>2. CASE s.x1 # 0
    <3>1. Fits(AA(s), s.x1) /\ BB(s) = AA(s)
      <4>1. s.x1 > 0 BY <1>1, <2>2
      <4> QED BY <4>1, CircleNumbers
    <3>2. PICK R, r : R = AA(s) /\ r = s.x1 OBVIOUS
    <3>3. /\ R \in Nat \ {0} /\ r \in Nat \ {0} /\ R \in Nat /\ Word \in Nat \ {0} /\ r < Word
          /\ Fits(R, r)
      BY <3>1, <3>2, FitsIs
    <3> DEFINE k == EllipsePrepare(s)
    <3>4. /\ k.at = "A" /\ k.x = 0 /\ k.y = r /\ k.AAy = mul32u32u(R, r) /\ k.BBx = 0
          /\ k.BB2 = (3 * R) % Word
          /\ k.dd = (R - mul32u32u(R, r) + R \div 4) % Word
      BY <3>1, <3>2 DEF EllipsePrepare
    <3>5. mul32u32u(R, r) = Mult(R, r)
      <4>1. mul32u32u(R, r) = Mult(R, r) % Word BY <3>3, ProductIs
      <4>2. r \in 0..(4 * r + 2) BY <3>3
      <4> QED BY <3>3, <4>1, <4>2, FitsIs
    <3>6. (3 * R) % Word = Mult(R, 2 * 0 + 3)
      <4>1. 3 \in 0..(4 * r + 2) /\ 2 * 0 + 3 = 3 BY <3>3
      <4>2. Mult(R, 3) % Word = Mult(R, 3) BY <3>3, <4>1, FitsIs
      <4>3. Mult(R, 3) = 3 * R BY <3>3, MultIs
      <4> QED BY <4>1, <4>2, <4>3
    <3>7. Mult(R, 0) = 0 BY <3>3, MultIs
    <3>8. Off(r, 0, r) = 0 BY <3>3 DEF Off
    <3>9. k.dd = Delta(R, 0 + 2 * 0 + 1 - r)
      <4>1. R - Mult(R, r) = Mult(R, 0 + 2 * 0 + 1 - r) BY <3>3 DEF Mult
      <4> QED BY <3>4, <3>5, <4>1 DEF Delta
    <3> HIDE DEF k
    <3>10. CircleA(R, r, k)
      BY <3>3, <3>4, <3>5, <3>6, <3>7, <3>8, <3>9 DEF CircleA
    <3> QED BY <2>2, <3>2, <3>10 DEF IsCircle, k
  <2> QED BY <2>1, <2>2
<1>6. \A i \in 0..N : IsCircle(s, l[i]) /\ e[i] = l[i]
  <2> DEFINE S == {i \in Nat : IsCircle(s, l[i]) /\ e[i] = l[i]}
  <2>1. 0 \in S BY <1>3, <1>5
  <2>2. ASSUME NEW i \in 0..(N - 1), i \in S PROVE i + 1 \in S
    <3>1. i + 1 \in 1..N /\ (i + 1) - 1 = i /\ i \in 0..N /\ i + 1 \in Nat BY <1>1
    <3>2. l[i + 1] = Turn("PROGRAM", s, l[i]) /\ e[i + 1] = Turn("COMMENT", s, e[i])
      BY <1>3, <3>1
    <3>3. l[i] \in EllipseStates /\ IsCircle(s, l[i]) /\ e[i] = l[i] BY <1>3, <2>2, <3>1
    <3>4. IsCircle(s, l[i + 1]) /\ e[i + 1] = l[i + 1] BY <3>2, <3>3, CircleTurn
    <3> QED BY <3>1, <3>4
  <2> HIDE DEF S
  <2>3. \A i \in 0..N : i \in S
    <3>1. N \in Int /\ 0 \in Int BY <1>1
    <3> QED BY <3>1, <2>1, <2>2, RangeInductive
  <2> QED BY <2>3 DEF S
<1>7. \A i \in -1..N : g[i] = f[i]
  <2> DEFINE S == {i \in Int : g[i] = f[i]}
  <2>1. -1 \in S BY <1>4
  <2>2. ASSUME NEW i \in -1..(N - 1), i \in S PROVE i + 1 \in S
    <3>1. i + 1 \in 0..N /\ (i + 1) - 1 = i /\ i + 1 \in Int BY <1>1
    <3>2. g[i] = f[i] BY <2>2
    <3>3. e[i + 1] = l[i + 1] BY <1>6, <3>1
    <3>4. g[i + 1] = f[i + 1] BY <1>4, <3>1, <3>2, <3>3
    <3> QED BY <3>1, <3>4
  <2> HIDE DEF S
  <2>3. \A i \in -1..N : i \in S
    <3>1. N \in Int /\ -1 \in Int BY <1>1
    <3> QED BY <3>1, <2>1, <2>2, RangeInductive
  <2> QED BY <2>3 DEF S
<1>8. l[n].y = 0
  <2>1. l[n] \in EllipseStates /\ IsCircle(s, l[n]) BY <1>2, <1>3, <1>6
  <2> QED BY <1>2, <2>1, CircleTurn
<1>9. g[N] = f[N]
  <2>1. N \in -1..N BY <1>1
  <2> QED BY <1>7, <2>1
<1> QED BY <1>4, <1>8, <1>9 DEF l, n
-----------------------------------------------------------------------------
(* The frame while a shape is drawn *)

\* What a frame holds when a shape is finished.
DrawnFrame(s) ==
  IF s.op = "LINE" THEN LinePixels(LinePoints(s, errA(s) + 1))
  ELSE IF s.op = "RECT" THEN draw_rect(s)
  ELSE Painted("PROGRAM", s)

\* What it holds after so many turns of the loop of a shape.
LineFrame ==
  loop.at = "LINE" => frame = LinePixels(LinePoints(shape, loop.a - a0(shape)))
RectFrame ==
  loop.at = "RECT" =>
    /\ shape \in Shapes /\ shape.op = "RECT"
    /\ loop.Y \in Smaller(shape.y0, shape.y1)..(Larger(shape.y0, shape.y1) + 1)
    /\ frame = RectRows(shape, loop.Y)
EllipseFrame ==
  loop.at \in {"A", "B"} =>
    /\ shape \in Shapes /\ shape.op = "ELIP"
    /\ \E i \in 0..StopOf(shape) :
         loop = EllipseTurns("PROGRAM", shape)[i] /\ frame = Frames("PROGRAM", shape)[i]
IdleFrame ==
  /\ shape \in Shapes \union {NoShape}
  /\ shape = NoShape => loop = Idle /\ frame = swfill_unroll
  /\ loop = Idle /\ shape # NoShape => frame = DrawnFrame(shape)

FrameInv == LineFrame /\ RectFrame /\ EllipseFrame /\ IdleFrame

\* The point swline paints next.
LEMMA LinePoint ==
  ASSUME IInv, loop.at = "LINE", loop.a <= a1(shape)
  PROVE  /\ shape \in Shapes /\ shape.op = "LINE"
         /\ \E k \in 0..errA(shape), j \in Int :
              /\ k = loop.a - a0(shape) /\ Nearest(errA(shape), -negB(shape), k, j)
              /\ PointAt(shape, k, j) = IF spin(shape) THEN <<loop.b, loop.a>> ELSE <<loop.a, loop.b>>
<1>1. /\ shape \in Shapes /\ shape.op = "LINE"
      /\ loop.a \in Int /\ loop.b \in Int /\ loop.error \in Int
      /\ a0(shape) <= loop.a /\ 0 <= loop.error
      /\ errA(shape) = 0 \/ loop.error < errA(shape)
      /\ loop.a = a0(shape) => loop.b = b0(shape)
      /\ loop.error = errA(shape) \div 2 + negB(shape) * (loop.a - a0(shape))
                       + errA(shape) * Steps
  BY DEF IInv, LineInv
<1>2. PICK A, n, k, j :
        A = errA(shape) /\ n = -negB(shape) /\ k = loop.a - a0(shape) /\ j = Steps
  OBVIOUS
<1>3. /\ A \in Nat /\ n \in Nat /\ a0(shape) \in Int /\ b0(shape) \in Int
      /\ offB(shape) \in {1, -1} /\ negB(shape) \in Int /\ negB(shape) = -n
      /\ a1(shape) = a0(shape) + A
  BY <1>1, <1>2, LineNumbers
<1>4. k \in 0..A BY <1>1, <1>2, <1>3
<1>5. j \in Int /\ b0(shape) + offB(shape) * j = loop.b
  <2>1. PICK d \in Int : d = loop.b - b0(shape) BY <1>1, <1>3
  <2>2. j = offB(shape) * d BY <1>2, <2>1 DEF Steps
  <2>3. b0(shape) + d = loop.b BY <1>1, <1>3, <2>1
  <2>4. offB(shape) * j = d /\ j \in Int
    <3>1. CASE offB(shape) = 1 BY <2>2, <3>1
    <3>2. CASE offB(shape) = -1 BY <2>2, <3>2
    <3> QED BY <1>3, <3>1, <3>2
  <2> QED BY <2>3, <2>4
<1>6. Nearest(A, n, k, j)
  <2>1. CASE A = 0
    <3>1. loop.a = a0(shape)
      <4>1. k = 0 BY <1>3, <1>4, <2>1
      <4>2. loop.a - a0(shape) = 0 BY <1>2, <4>1
      <4>3. loop.a \in Int /\ a0(shape) \in Int BY <1>1, <1>3, Zenon
      <4> QED BY <4>2, <4>3
    <3>2. loop.b - b0(shape) = 0 BY <1>1, <1>3, <3>1
    <3>3. j = 0 BY <1>2, <1>3, <3>2 DEF Steps
    <3> QED BY <2>1, <3>3 DEF Nearest
  <2>2. CASE A # 0
    <3>1. PICK u \in Int : u = A * j BY <1>3, <1>5
    <3>2. PICK v \in Int : v = n * k BY <1>3, <1>4
    <3>3. negB(shape) * k = -v
      <4>1. PICK b \in Int : b = negB(shape) /\ b = -n BY <1>3
      <4>2. PICK c \in Int : c = k BY <1>4
      <4>3. (-n) * c = -(n * c) BY <1>3
      <4> QED BY <3>2, <4>1, <4>2, <4>3
    <3>4. loop.error = A \div 2 - v + u
      <4>1. loop.error = A \div 2 + negB(shape) * k + A * j BY <1>1, <1>2, Zenon
      <4>2. PICK h \in Int : h = A \div 2 BY <1>3
      <4>3. h + (-v) + u = h - v + u OBVIOUS
      <4> QED BY <3>1, <3>3, <4>1, <4>2, <4>3
    <3>5. PICK h \in Nat : h = A \div 2 /\ 2 * h <= A /\ A <= 2 * h + 1 BY <1>3
    <3>6. 0 <= h - v + u /\ h - v + u < A BY <1>1, <1>2, <2>2, <3>4, <3>5
    <3>7. -A <= 2 * (u - v) /\ 2 * (u - v) < A BY <1>3, <3>5, <3>6
    <3> QED BY <2>2, <3>1, <3>2, <3>7 DEF Nearest
  <2> QED BY <2>1, <2>2
<1>7. a0(shape) + k = loop.a BY <1>1, <1>2, <1>3
<1>8. PointAt(shape, k, j) = IF spin(shape) THEN <<loop.b, loop.a>> ELSE <<loop.a, loop.b>>
  BY <1>5, <1>7 DEF PointAt
<1> QED BY <1>1, <1>2, <1>4, <1>5, <1>6, <1>8

\* One more pixel of a line.
LEMMA OneMorePixel ==
  ASSUME NEW s \in Shapes, NEW k \in 0..errA(s), NEW j \in Int,
         Nearest(errA(s), -negB(s), k, j), NEW X, NEW Y, <<X, Y>> = PointAt(s, k, j)
  PROVE  swpixl(LinePixels(LinePoints(s, k)), X, Y) = LinePixels(LinePoints(s, k + 1))
<1>1. /\ errA(s) \in Nat /\ -negB(s) \in Nat /\ a0(s) \in Int /\ b0(s) \in Int
      /\ offB(s) \in {1, -1} /\ k \in Nat
  BY LineNumbers
<1>2. PointAt(s, k, j) \in Int \X Int
  <2>1. offB(s) * j \in Int BY <1>1
  <2> QED BY <1>1, <2>1 DEF PointAt
<1> DEFINE L(m) == LinePoints(s, m)
<1>3. L(k + 1) = L(k) \union {<<X, Y>>}
  <2>1. ASSUME NEW p \in L(k + 1) PROVE p \in L(k) \union {<<X, Y>>}
    <3>1. PICK c \in 0..((k + 1) - 1), i \in Int :
            p = PointAt(s, c, i) /\ Nearest(errA(s), -negB(s), c, i)
      BY <2>1 DEF LinePoints
    <3>2. CASE c = k
      <4>1. i = j BY <1>1, <3>1, <3>2, OneNearest
      <4> QED BY <3>1, <3>2, <4>1
    <3>3. CASE c # k
      <4>1. c \in 0..(k - 1) BY <1>1, <3>3
      <4>2. p \in Int \X Int BY <2>1 DEF LinePoints
      <4> QED BY <3>1, <4>1, <4>2 DEF LinePoints
    <3> QED BY <3>2, <3>3
  <2>2. ASSUME NEW p \in L(k) PROVE p \in L(k + 1)
    <3>1. \A c \in 0..(k - 1) : c \in 0..((k + 1) - 1) BY <1>1
    <3> QED BY <2>2, <3>1 DEF LinePoints
  <2>3. <<X, Y>> \in L(k + 1)
    <3>1. k \in 0..((k + 1) - 1) BY <1>1
    <3> QED BY <1>2, <3>1 DEF LinePoints
  <2> HIDE DEF L
  <2> QED BY <2>1, <2>2, <2>3
<1> HIDE DEF L
<1>4. \A p \in Pixels :
        (IF p = <<X, Y>> THEN "EDGE" ELSE LinePixels(L(k))[p])
          = (IF p \in L(k + 1) THEN "EDGE" ELSE "NONE")
  BY <1>3 DEF LinePixels
<1>5. swpixl(LinePixels(L(k)), X, Y) = LinePixels(L(k + 1))
  <2>1. LinePixels(L(k + 1)) = [p \in Pixels |-> IF p \in L(k + 1) THEN "EDGE" ELSE "NONE"]
    BY DEF LinePixels
  <2>2. swpixl(LinePixels(L(k)), X, Y)
          = [p \in Pixels |-> IF p = <<X, Y>> THEN "EDGE" ELSE LinePixels(L(k))[p]]
    BY DEF swpixl
  <2> QED BY <1>4, <2>1, <2>2, Zenon
<1> QED BY <1>5 DEF L

\* The frame invariant holds at first.
LEMMA InitFrame == Init => FrameInv
BY DEF Init, FrameInv, LineFrame, RectFrame, EllipseFrame, IdleFrame, Idle, NoShape

\* A shape and the absent one differ.
LEMMA ShapeIs ==
  ASSUME NEW s \in Shapes
  PROVE  s # NoShape /\ s.op \in {"LINE", "ELIP", "RECT"}
<1>1. s.op \in {"LINE", "ELIP", "RECT"} BY ShapesAssumption DEF AllShapes
<1>2. NoShape.op = "NONE" BY DEF NoShape
<1> QED BY <1>1, <1>2

\* Each action keeps the frame invariant: clearing the frame,
LEMMA FrameFill ==
  ASSUME FrameInv, dd_fill
  PROVE  FrameInv'
BY DEF dd_fill, FrameInv, LineFrame, RectFrame, EllipseFrame, IdleFrame, Idle

\* beginning a shape,
LEMMA FrameBegin ==
  ASSUME FrameInv, NEW s \in Shapes, dd_shape(s)
  PROVE  FrameInv'
<1>1. loop = Idle /\ shape' = s /\ frame = swfill_unroll
  BY DEF dd_shape, FrameInv, IdleFrame
<1>2. s # NoShape /\ s.op \in {"LINE", "ELIP", "RECT"} BY ShapeIs
<1>3. CASE s.op = "LINE"
  <2>1. loop' = LinePrepare(s) /\ frame' = frame BY <1>3 DEF dd_shape
  <2>2. loop'.at = "LINE" /\ loop'.a = a0(s) BY <2>1 DEF LinePrepare
  <2>3. a0(s) - a0(s) = 0
    <3>1. a0(s) \in Int BY LineNumbers
    <3> QED BY <3>1
  <2>4. LinePixels(LinePoints(s, 0)) = swfill_unroll
    <3>1. LinePoints(s, 0) = {} BY DEF LinePoints
    <3> QED BY <3>1 DEF LinePixels, swfill_unroll
  <2> QED BY <1>1, <1>2, <2>1, <2>2, <2>3, <2>4
          DEF FrameInv, LineFrame, RectFrame, EllipseFrame, IdleFrame, Idle
<1>4. CASE s.op = "RECT"
  <2>1. loop' = RectPrepare(s) /\ frame' = frame BY <1>4 DEF dd_shape
  <2>2. loop'.at = "RECT" /\ loop'.Y = Smaller(s.y0, s.y1) BY <2>1 DEF RectPrepare
  <2>3. Smaller(s.y0, s.y1) \in Smaller(s.y0, s.y1)..(Larger(s.y0, s.y1) + 1)
    BY RectNumbers DEF Smaller, Larger
  <2>4. RectRows(s, Smaller(s.y0, s.y1)) = swfill_unroll BY RectEnds
  <2> QED BY <1>1, <1>2, <1>4, <2>1, <2>2, <2>3, <2>4
          DEF FrameInv, LineFrame, RectFrame, EllipseFrame, IdleFrame, Idle
<1>5. CASE s.op = "ELIP"
  <2>1. loop' = EllipsePrepare(s) /\ frame' = swslr_4way(frame, s, 0, s.y1)
    BY <1>5 DEF dd_shape
  <2>2. loop'.at = "A" /\ loop'.x = 0 /\ loop'.y = s.y1 BY <2>1 DEF EllipsePrepare
  <2>3. EllipseTurns("PROGRAM", s)[0] = EllipsePrepare(s) BY EllipseIs
  <2>4. Frames("PROGRAM", s)[0] = swslr_4way(swfill_unroll, s, 0, s.y1)
    <3>1. 0 \in 0..Turns(s) /\ 0 - 1 = -1 BY Radii
    <3>2. Frames("PROGRAM", s)[0] = swslr_4way(Frames("PROGRAM", s)[-1], s,
            EllipseTurns("PROGRAM", s)[0].x, EllipseTurns("PROGRAM", s)[0].y)
      BY <3>1, FramesAre
    <3>3. Frames("PROGRAM", s)[-1] = swfill_unroll BY FramesAre
    <3> QED BY <2>1, <2>2, <2>3, <3>2, <3>3
  <2>5. 0 \in 0..StopOf(s) BY AtStop
  <2>6. loop' = EllipseTurns("PROGRAM", s)[0] /\ frame' = Frames("PROGRAM", s)[0]
    BY <1>1, <2>1, <2>3, <2>4
  <2>7. EllipseFrame' BY <1>1, <1>5, <2>5, <2>6 DEF EllipseFrame
  <2>8. loop' # Idle BY <2>2 DEF Idle
  <2> QED BY <1>1, <1>2, <2>2, <2>7, <2>8 DEF FrameInv, LineFrame, RectFrame, IdleFrame
<1> QED BY <1>2, <1>3, <1>4, <1>5

\* a pixel of a line, or its end,
LEMMA FrameLine ==
  ASSUME IInv, FrameInv, swline
  PROVE  FrameInv'
<1>1. loop.at = "LINE" /\ shape' = shape /\ loop # Idle BY DEF swline, Idle
<1>2. frame = LinePixels(LinePoints(shape, loop.a - a0(shape)))
  BY <1>1 DEF FrameInv, LineFrame
<1>3. shape \in Shapes /\ shape.op = "LINE" /\ shape # NoShape
  BY <1>1, ShapeIs DEF IInv, LineInv
<1>4. CASE loop.a <= a1(shape)
  <2>1. PICK k \in 0..errA(shape), j \in Int :
          /\ k = loop.a - a0(shape) /\ Nearest(errA(shape), -negB(shape), k, j)
          /\ PointAt(shape, k, j) = IF spin(shape) THEN <<loop.b, loop.a>> ELSE <<loop.a, loop.b>>
    BY <1>1, <1>4, LinePoint
  <2>2. loop' = LineTurn(shape, loop)
        /\ frame' = IF spin(shape) THEN swpixl(frame, loop.b, loop.a)
                                   ELSE swpixl(frame, loop.a, loop.b)
    BY <1>4 DEF swline
  <2>3. frame' = LinePixels(LinePoints(shape, k + 1))
    <3>1. CASE spin(shape)
      <4>1. <<loop.b, loop.a>> = PointAt(shape, k, j) BY <2>1, <3>1
      <4>2. swpixl(LinePixels(LinePoints(shape, k)), loop.b, loop.a)
              = LinePixels(LinePoints(shape, k + 1))
        BY <1>3, <2>1, <4>1, OneMorePixel
      <4> QED BY <1>2, <2>1, <2>2, <3>1, <4>2
    <3>2. CASE ~ spin(shape)
      <4>1. <<loop.a, loop.b>> = PointAt(shape, k, j) BY <2>1, <3>2
      <4>2. swpixl(LinePixels(LinePoints(shape, k)), loop.a, loop.b)
              = LinePixels(LinePoints(shape, k + 1))
        BY <1>3, <2>1, <4>1, OneMorePixel
      <4> QED BY <1>2, <2>1, <2>2, <3>2, <4>2
    <3> QED BY <3>1, <3>2
  <2>4. loop'.at = "LINE" /\ loop'.a = loop.a + 1
    <3>1. loop = [at |-> "LINE", a |-> loop.a, b |-> loop.b, error |-> loop.error]
      BY <1>1 DEF IInv, LoopKinds, Idle
    <3> QED BY <2>2, <3>1 DEF LineTurn
  <2>5. loop'.a - a0(shape) = k + 1
    <3>1. loop.a \in Int /\ a0(shape) \in Int
      <4>1. loop.a \in Int BY <1>1, Zenon DEF IInv, LineInv
      <4>2. a0(shape) \in Int BY <1>3, LineNumbers
      <4> QED BY <4>1, <4>2
    <3> QED BY <2>1, <2>4, <3>1
  <2>6. LineFrame' BY <1>1, <2>3, <2>4, <2>5 DEF LineFrame
  <2>7. loop' # Idle BY <2>4 DEF Idle
  <2> QED BY <1>1, <1>3, <2>4, <2>6, <2>7 DEF FrameInv, RectFrame, EllipseFrame, IdleFrame
<1>5. CASE ~ (loop.a <= a1(shape))
  <2>1. loop' = Idle /\ frame' = frame BY <1>5 DEF swline
  <2>2. loop.a - a0(shape) = errA(shape) + 1
    <3>1. loop.a \in Int /\ loop.a <= a1(shape) + 1 BY <1>1, Zenon DEF IInv, LineInv
    <3>2. a0(shape) \in Int /\ errA(shape) \in Nat /\ a1(shape) = a0(shape) + errA(shape)
      BY <1>3, LineNumbers
    <3> QED BY <1>5, <3>1, <3>2
  <2>3. frame' = DrawnFrame(shape) BY <1>2, <1>3, <2>1, <2>2 DEF DrawnFrame
  <2> QED BY <1>1, <1>3, <2>1, <2>3
          DEF FrameInv, LineFrame, RectFrame, EllipseFrame, IdleFrame, Idle
<1> QED BY <1>4, <1>5

\* a row of a rectangle, or its end,
LEMMA FrameRect ==
  ASSUME IInv, FrameInv, swrect
  PROVE  FrameInv'
<1>1. loop.at = "RECT" /\ shape' = shape BY DEF swrect
<1>2. /\ shape \in Shapes /\ shape.op = "RECT" /\ shape # NoShape
      /\ loop.Y \in Smaller(shape.y0, shape.y1)..(Larger(shape.y0, shape.y1) + 1)
      /\ frame = RectRows(shape, loop.Y)
  BY <1>1, ShapeIs DEF FrameInv, RectFrame
<1>3. PICK top, bottom \in Int :
        top = Smaller(shape.y0, shape.y1) /\ bottom = Larger(shape.y0, shape.y1)
  BY <1>2, RectNumbers DEF Smaller, Larger
<1>4. loop.Y \in Int /\ top <= loop.Y /\ loop.Y <= bottom + 1 BY <1>2, <1>3
<1>5. CASE loop.Y <= bottom
  <2>1. frame' = RectRow(shape, loop.Y) /\ loop' = [loop EXCEPT !.Y = loop.Y + 1]
    BY <1>3, <1>5 DEF swrect
  <2>2. loop.Y \in top..bottom BY <1>4, <1>5
  <2>3. frame' = RectRows(shape, loop.Y + 1)
    BY <1>2, <1>3, <2>1, <2>2, RectTurn DEF RectRow
  <2>4. loop'.at = "RECT" /\ loop'.Y = loop.Y + 1
    <3>1. loop = [at |-> "RECT", Y |-> loop.Y] BY <1>1 DEF IInv, LoopKinds, Idle
    <3> QED BY <2>1, <3>1
  <2>5. loop.Y + 1 \in top..(bottom + 1) BY <1>4, <1>5
  <2>6. RectFrame' BY <1>1, <1>2, <1>3, <2>3, <2>4, <2>5 DEF RectFrame
  <2>7. loop' # Idle BY <2>4 DEF Idle
  <2> QED BY <1>1, <1>2, <2>4, <2>6, <2>7 DEF FrameInv, LineFrame, EllipseFrame, IdleFrame
<1>6. CASE ~ (loop.Y <= bottom)
  <2>1. loop' = Idle /\ frame' = frame BY <1>3, <1>6 DEF swrect
  <2>2. loop.Y > bottom BY <1>4, <1>6
  <2>3. RectRows(shape, loop.Y) = draw_rect(shape) BY <1>2, <1>3, <1>4, <2>2, RectEnds
  <2>4. frame' = DrawnFrame(shape) BY <1>2, <2>1, <2>3 DEF DrawnFrame
  <2> QED BY <1>1, <1>2, <2>1, <2>4
          DEF FrameInv, LineFrame, RectFrame, EllipseFrame, IdleFrame, Idle
<1> QED BY <1>5, <1>6

\* The steps of an ellipse's loops.
LEMMA EllipseStep ==
  ASSUME FrameInv, loop.at \in {"A", "B"}, ~ Ended(shape, loop), shape' = shape,
         loop' = Turn("PROGRAM", shape, loop),
         \/ frame' = swslr_4way(frame, shape, loop'.x, loop'.y)
         \/ /\ loop.at = "A" /\ ~ InLoopA(shape, loop)
            /\ frame' = frame
  PROVE  FrameInv'
<1>1. PICK s \in Shapes : s = shape /\ s.op = "ELIP" BY DEF FrameInv, EllipseFrame
<1>2. PICK i \in 0..StopOf(s) :
        loop = EllipseTurns("PROGRAM", s)[i] /\ frame = Frames("PROGRAM", s)[i]
  BY <1>1 DEF FrameInv, EllipseFrame
<1>3. PICK n : n = StopOf(s) OBVIOUS
<1>4. n \in 0..Turns(s) /\ Ended(s, EllipseTurns("PROGRAM", s)[n]) /\ Turns(s) \in Nat
  BY <1>3, AtStop, Radii
<1>5. i # n BY <1>1, <1>2, <1>4
<1>6. /\ i + 1 \in 0..n /\ i + 1 \in 1..Turns(s) /\ i + 1 \in 0..Turns(s) /\ i \in 0..Turns(s)
      /\ (i + 1) - 1 = i
  BY <1>2, <1>3, <1>4, <1>5
<1>7. loop' = EllipseTurns("PROGRAM", s)[i + 1] /\ loop' \in EllipseStates
      /\ loop \in EllipseStates
  BY <1>1, <1>2, <1>6, EllipseIs
<1>8. PICK l, k \in EllipseStates : l = loop /\ k = loop' BY <1>7
<1>9. k.x \in Nat /\ k.y \in Nat /\ k.at \in {"A", "B"} BY StateParts
<1>10. Frames("PROGRAM", s)[i + 1] = swslr_4way(frame, s, k.x, k.y)
  BY <1>2, <1>6, <1>7, <1>8, FramesAre
<1>11. frame' = Frames("PROGRAM", s)[i + 1]
  <2>1. CASE frame' = swslr_4way(frame, shape, loop'.x, loop'.y)
    BY <1>1, <1>8, <1>10, <2>1
  <2>2. CASE loop.at = "A" /\ ~ InLoopA(shape, loop) /\ frame' = frame
    <3>1. k = PrepareB(s, l) BY <1>1, <1>8, <2>2 DEF Turn, GoesA
    <3>2. k.x = l.x /\ k.y = l.y BY <3>1, TurnToB
    <3>3. frame = swslr_4way(Frames("PROGRAM", s)[i - 1], s, l.x, l.y)
      BY <1>2, <1>6, <1>8, FramesAre
    <3>4. l.x \in Nat /\ l.y \in Nat BY StateParts
    <3>5. swslr_4way(frame, s, l.x, l.y) = frame BY <3>3, <3>4, PaintedAgain
    <3> QED BY <1>10, <2>2, <3>2, <3>5
  <2> QED BY <2>1, <2>2
<1>12. EllipseFrame' BY <1>1, <1>3, <1>6, <1>7, <1>11 DEF EllipseFrame
<1>13. loop'.at \in {"A", "B"} /\ loop' # Idle BY <1>8, <1>9 DEF Idle
<1>14. shape # NoShape BY <1>1, ShapeIs
<1> QED BY <1>1, <1>12, <1>13, <1>14 DEF FrameInv, LineFrame, RectFrame, IdleFrame

\* rows of an ellipse,
LEMMA FrameEllipse ==
  ASSUME FrameInv, swelip
  PROVE  FrameInv'
<1>1. /\ loop.at \in {"A", "B"} /\ shape' = shape
      /\ frame' = swslr_4way(frame, shape, loop'.x, loop'.y)
  BY DEF swelip
<1>2. loop' = Turn("PROGRAM", shape, loop) /\ ~ Ended(shape, loop)
  <2>1. CASE InLoopA(shape, loop) /\ loop' = LoopA(shape, loop)
    BY <2>1 DEF Turn, GoesA, Ended, InLoopA
  <2>2. CASE InLoopB(shape, loop) /\ loop' = LoopB(shape, loop)
    BY <2>2 DEF Turn, GoesA, GoesB, Ended, InLoopA, InLoopB
  <2> QED BY <2>1, <2>2 DEF swelip
<1> QED BY <1>1, <1>2, EllipseStep

\* and the end of one of its loops.
LEMMA FrameEllipseEnds ==
  ASSUME FrameInv, swelip_ends
  PROVE  FrameInv'
<1>1. shape' = shape /\ frame' = frame BY DEF swelip_ends
<1>2. CASE loop.at = "A" /\ ~ InLoopA(shape, loop) /\ loop' = PrepareB(shape, loop)
  <2>1. loop' = Turn("PROGRAM", shape, loop) /\ ~ Ended(shape, loop)
    BY <1>2 DEF Turn, GoesA, Ended
  <2> QED BY <1>1, <1>2, <2>1, EllipseStep
<1>3. CASE loop.at = "B" /\ ~ InLoopB(shape, loop) /\ loop' = Idle
  <2>1. PICK s \in Shapes : s = shape /\ s.op = "ELIP" BY <1>3 DEF FrameInv, EllipseFrame
  <2>2. PICK i \in 0..StopOf(s) :
          loop = EllipseTurns("PROGRAM", s)[i] /\ frame = Frames("PROGRAM", s)[i]
    BY <1>3, <2>1 DEF FrameInv, EllipseFrame
  <2>3. PICK n : n = StopOf(s) OBVIOUS
  <2>4. /\ n \in 0..Turns(s) /\ Turns(s) \in Nat
        /\ \A m \in 0..(n - 1) : ~ Ended(s, EllipseTurns("PROGRAM", s)[m])
        /\ \A m \in n..Turns(s) : Frames("PROGRAM", s)[m] = Frames("PROGRAM", s)[n]
    BY <2>3, AtStop, Radii
  <2>5. i = n
    <3>1. Ended(s, EllipseTurns("PROGRAM", s)[i]) BY <1>3, <2>1, <2>2 DEF Ended
    <3>2. i \notin 0..(n - 1) BY <2>4, <3>1
    <3> QED BY <2>2, <2>3, <2>4, <3>2
  <2>6. frame = Frames("PROGRAM", s)[Turns(s)]
    <3>1. Turns(s) \in n..Turns(s) BY <2>4
    <3> QED BY <2>2, <2>4, <2>5, <3>1
  <2>7. frame = DrawnFrame(s) BY <2>1, <2>6, FramesAre DEF DrawnFrame
  <2>8. shape # NoShape BY <2>1, ShapeIs
  <2> QED BY <1>1, <1>3, <2>1, <2>7, <2>8
          DEF FrameInv, LineFrame, RectFrame, EllipseFrame, IdleFrame, Idle
<1> QED BY <1>2, <1>3 DEF swelip_ends

\* So the frame invariant is inductive.
LEMMA NextFrame == IInv /\ FrameInv /\ [Next]_vars => FrameInv'
<1> SUFFICES ASSUME IInv, FrameInv, [Next]_vars PROVE FrameInv' OBVIOUS
<1>1. CASE dd_fill BY <1>1, FrameFill
<1>2. CASE \E s \in Shapes : dd_shape(s) BY <1>2, FrameBegin
<1>3. CASE swline BY <1>3, FrameLine
<1>4. CASE swelip BY <1>4, FrameEllipse
<1>5. CASE swelip_ends BY <1>5, FrameEllipseEnds
<1>6. CASE swrect BY <1>6, FrameRect
<1>7. CASE UNCHANGED vars
  BY <1>7 DEF vars, FrameInv, LineFrame, RectFrame, EllipseFrame, IdleFrame
<1> QED BY <1>1, <1>2, <1>3, <1>4, <1>5, <1>6, <1>7 DEF Next

\* A finished shape is one, and the frame is what it comes to.
LEMMA FinishedIs ==
  ASSUME FrameInv, Finished({"LINE", "RECT", "ELIP"})
  PROVE  shape \in Shapes /\ frame = DrawnFrame(shape)
<1>1. loop = Idle /\ shape.op \in {"LINE", "RECT", "ELIP"} BY DEF Finished
<1>2. shape # NoShape BY <1>1 DEF NoShape
<1> QED BY <1>1, <1>2 DEF FrameInv, IdleFrame

\* What is drawn is what Vizard draws,
LEMMA FrameVizard == FrameInv => VizardAgrees
<1> SUFFICES ASSUME FrameInv, Finished({"LINE", "RECT", "ELIP"})
    PROVE  frame = Vizard(shape) <=> ~(shape.op = "LINE" /\ Tie(shape) /\ ~flip(shape))
  BY DEF VizardAgrees
<1>1. PICK s \in Shapes : s = shape /\ frame = DrawnFrame(s) BY FinishedIs
<1>2. s.op \in {"LINE", "ELIP", "RECT"} BY ShapeIs
<1>3. CASE s.op = "LINE"
  <2>1. frame = LinePixels(LinePoints(s, errA(s) + 1)) BY <1>1, <1>3 DEF DrawnFrame
  <2>2. Vizard(s) = LinePixels(draw_line(s)) BY <1>3 DEF Vizard
  <2>3. LinePixels(LinePoints(s, errA(s) + 1)) = LinePixels(draw_line(s))
          <=> ~ (Tie(s) /\ ~ flip(s))
    BY <1>3, VizardLines
  <2> QED BY <1>1, <1>3, <2>1, <2>2, <2>3
<1>4. CASE s.op = "RECT"
  <2>1. frame = draw_rect(s) /\ Vizard(s) = draw_rect(s)
    BY <1>1, <1>4 DEF DrawnFrame, Vizard
  <2> QED BY <1>1, <1>4, <2>1
<1>5. CASE s.op = "ELIP"
  <2>1. frame = Painted("PROGRAM", s) /\ Vizard(s) = draw_ellipse(s)
    BY <1>1, <1>5 DEF DrawnFrame, Vizard
  <2>2. Painted("PROGRAM", s) = draw_ellipse(s) BY FramesAre
  <2> QED BY <1>1, <1>5, <2>1, <2>2
<1> QED BY <1>2, <1>3, <1>4, <1>5

\* what the prototypes do,
LEMMA FramePrototypes == FrameInv => PrototypesAgree
<1> SUFFICES ASSUME FrameInv, Finished({"LINE"}), NEW i \in DOMAIN style_name
    PROVE  LET name == style_name[i] IN
           \/ frame = LinePixels(style_ptr(name, shape))
           \/ /\ name \in {"UI32", "MINI", "FLAT"}
              /\ shape.x0 > shape.x1 \/ spin(shape) \/ (name = "FLAT" /\ shape.y0 # shape.y1)
  BY DEF PrototypesAgree
<1>1. PICK s \in Shapes : s = shape /\ frame = DrawnFrame(s) /\ s.op = "LINE"
  <2>1. Finished({"LINE", "RECT", "ELIP"}) /\ shape.op = "LINE" BY DEF Finished
  <2> QED BY <2>1, FinishedIs
<1>2. PICK points : points = LinePoints(s, errA(s) + 1) OBVIOUS
<1>3. frame = LinePixels(points) BY <1>1, <1>2 DEF DrawnFrame
<1>4. /\ LineOfLoop(s) = points /\ line_FULL(s) = points /\ line_ORIG(s) = points
      /\ s.x0 <= s.x1 /\ ~ spin(s) =>
           /\ line_UI32(s) = points /\ line_MINI(s) = points
           /\ s.y0 = s.y1 => line_FLAT(s) = points
  BY <1>2, LoopDraws, Prototypes
<1>5. PICK name : name = style_name[i] OBVIOUS
<1>6. name \in {"LIVE", "UI32", "MINI", "FLAT", "FULL", "ORIG"}
  BY <1>5 DEF style_name
<1>7. s.x0 \in Nat /\ s.x1 \in Nat BY ShapesAssumption DEF AllShapes
<1>8. CASE name = "LIVE" BY <1>1, <1>3, <1>4, <1>5, <1>8 DEF style_ptr
<1>9. CASE name = "FULL" BY <1>1, <1>3, <1>4, <1>5, <1>9 DEF style_ptr
<1>10. CASE name = "ORIG" BY <1>1, <1>3, <1>4, <1>5, <1>10 DEF style_ptr
<1>11. CASE name = "UI32" BY <1>1, <1>3, <1>4, <1>5, <1>7, <1>11 DEF style_ptr
<1>12. CASE name = "MINI" BY <1>1, <1>3, <1>4, <1>5, <1>7, <1>12 DEF style_ptr
<1>13. CASE name = "FLAT" BY <1>1, <1>3, <1>4, <1>5, <1>7, <1>13 DEF style_ptr
<1> QED BY <1>6, <1>8, <1>9, <1>10, <1>11, <1>12, <1>13

\* and what the engines do, but for the cases named.
LEMMA FrameHardware == FrameInv => HardwareAgrees
<1> SUFFICES ASSUME FrameInv, Finished({"LINE", "RECT", "ELIP"})
    PROVE  frame = Hardware(shape) <=>
             CASE shape.op = "LINE" -> TRUE
               [] shape.op = "RECT" ->
                    shape.y0 <= shape.y1 \/ Distance(shape.x0, shape.x1) < 2
               [] shape.op = "ELIP" -> RowsComplete
  BY DEF HardwareAgrees
<1>1. PICK s \in Shapes : s = shape /\ frame = DrawnFrame(s) BY FinishedIs
<1>2. s.op \in {"LINE", "ELIP", "RECT"} BY ShapeIs
<1>3. CASE s.op = "LINE"
  <2>1. frame = LinePixels(LinePoints(s, errA(s) + 1)) BY <1>1, <1>3 DEF DrawnFrame
  <2>2. Hardware(s) = LinePixels(LineOfLoop(s)) BY <1>3 DEF Hardware
  <2>3. frame = Hardware(s) BY <2>1, <2>2, LoopDraws
  <2> QED BY <1>1, <1>3, <2>3
<1>4. CASE s.op = "RECT"
  <2>1. frame = draw_rect(s) /\ Hardware(s) = RectangleEngine(s)
    BY <1>1, <1>4 DEF DrawnFrame, Hardware
  <2>2. frame = Hardware(s) <=> (s.y0 <= s.y1 \/ Distance(s.x0, s.x1) < 2)
    BY <1>4, <2>1, EngineRectangles
  <2> QED BY <1>1, <1>4, <2>2
<1>5. CASE s.op = "ELIP"
  <2>1. frame = Painted("PROGRAM", s) /\ Hardware(s) = ElipseEngine(s)
    BY <1>1, <1>5 DEF DrawnFrame, Hardware
  <2>2. frame = Hardware(s) <=> WholeRows(s, frame)
    BY <1>5, <2>1, EngineEllipses
  <2>3. WholeRows(s, frame) <=> RowsComplete BY <1>1 DEF WholeRows, RowsComplete
  <2> QED BY <1>1, <1>5, <2>2, <2>3
<1> QED BY <1>2, <1>3, <1>4, <1>5

\* A circle is whole and as commented.
LEMMA FrameCircles == FrameInv => CirclesAsCommented
<1> SUFFICES ASSUME FrameInv, Finished({"ELIP"}), shape.x1 = shape.y1
    PROVE  RowsComplete /\ frame = Painted("COMMENT", shape)
  BY DEF CirclesAsCommented
<1>1. PICK s \in Shapes : s = shape /\ frame = DrawnFrame(s) /\ s.op = "ELIP"
  <2>1. Finished({"LINE", "RECT", "ELIP"}) /\ shape.op = "ELIP" BY DEF Finished
  <2> QED BY <2>1, FinishedIs
<1>2. frame = Painted("PROGRAM", s) BY <1>1 DEF DrawnFrame
<1>3. /\ EllipseTurns("PROGRAM", s)[StopOf(s)].y = 0
      /\ Painted("COMMENT", s) = Painted("PROGRAM", s)
  BY <1>1, CirclesAre
<1>4. PICK n : n = StopOf(s) OBVIOUS
<1>5. Frames("PROGRAM", s)[Turns(s)] = Frames("PROGRAM", s)[n]
  <2>1. n \in 0..Turns(s) /\ Turns(s) \in Nat BY <1>4, AtStop, Radii
  <2>2. Turns(s) \in n..Turns(s) BY <2>1
  <2> QED BY <1>4, <2>2, AtStop
<1>6. frame = Frames("PROGRAM", s)[n] BY <1>2, <1>5, FramesAre
<1>7. WholeRows(s, frame) BY <1>1, <1>3, <1>4, <1>6, WholeIs
<1> QED BY <1>1, <1>2, <1>3, <1>7 DEF WholeRows, RowsComplete

\* The frame invariant holds in every state.
LEMMA FramesFollow == Spec => []FrameInv
<1>1. Init => IInv /\ FrameInv BY InitIInv, InitFrame
<1>2. (IInv /\ FrameInv) /\ [Next]_vars => (IInv /\ FrameInv)'
  BY NextIInv, NextFrame
<1> QED BY <1>1, <1>2, PTL DEF Spec

\* The program, the prototypes of le.c, Vizard and the engines draw every shape
\* alike, but for lines with a tie that run upwards (Vizard), rectangles given
\* with the lower side first and ellipses that swelip leaves incomplete (the
\* engines): graphics.c:114-300, le.c, vizard_gpu.c:60-176 and the engines.
THEOREM ShapesAgree == Spec => []RenderersAgree
<1>1. FrameInv => RenderersAgree
  BY FrameVizard, FramePrototypes, FrameHardware DEF RenderersAgree
<1> QED BY <1>1, FramesFollow, PTL

\* Every circle of a radius the words allow is drawn whole, and as the comments
\* of swelip say: the unsigned comparison of its loop A (graphics.c:221, 233)
\* does not wrap.
THEOREM CirclesWhole == Spec => []CirclesAsCommented
BY FrameCircles, FramesFollow, PTL
=============================================================================
