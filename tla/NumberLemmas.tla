---------------------------- MODULE NumberLemmas ----------------------------
(***************************************************************************)
(* Lemmas on numbers that the proofs about several components need:        *)
(* remainders; induction, for properties given as the set of the numbers   *)
(* that have them; and what a recursive function of a number is, which the *)
(* loops of the program are of the number of their turns.                  *)
(***************************************************************************)
EXTENDS Integers, FiniteSetTheorems, TLAPS

(* Remainders *)

\* A remainder is less than the divisor.
LEMMA Remainder ==
  ASSUME NEW n \in Nat, NEW k \in Nat \ {0}
  PROVE  n % k \in 0..(k - 1)
OBVIOUS

\* A number is the divisor times a quotient, and the remainder.
LEMMA Division ==
  ASSUME NEW n \in Nat, NEW k \in Nat \ {0}
  PROVE  n % k \in 0..(k - 1) /\ \E q \in Nat : n = k * q + (n % k)
<1>1. n = k * (n \div k) + (n % k)
  OBVIOUS
<1>2. n \div k \in Nat
  OBVIOUS
<1>3. n % k \in 0..(k - 1)
  BY Remainder
<1>4. \E q \in Nat : n = k * q + (n % k)
  <2> WITNESS n \div k \in Nat
  <2> QED
    BY <1>1
<1> QED
  BY <1>3, <1>4

\* A number divided, without naming the quotient.
LEMMA Quotient ==
  ASSUME NEW n \in Nat, NEW k \in Nat \ {0}
  PROVE  \E q \in Nat, r \in 0..(k - 1) : n = k * q + r
<1>1. PICK q \in Nat : n = k * q + (n % k) BY Division
<1>2. PICK r \in 0..(k - 1) : r = n % k BY Division
<1> QED BY <1>1, <1>2

\* The remainder of a number given in parts.
LEMMA RemainderOf ==
  ASSUME NEW k \in Nat \ {0}, NEW q \in Nat, NEW r \in 0..(k - 1)
  PROVE  (k * q + r) % k = r
OBVIOUS

\* Its quotient.
LEMMA QuotientOf ==
  ASSUME NEW k \in Nat \ {0}, NEW q \in Nat, NEW r \in 0..(k - 1)
  PROVE  (k * q + r) \div k = q
OBVIOUS

\* Taking the remainder of a summand first changes nothing.
LEMMA RemainderOfSum ==
  ASSUME NEW n \in Nat, NEW m \in Nat, NEW k \in Nat \ {0}
  PROVE  ((n % k) + m) % k = (n + m) % k
<1>1. PICK q \in Nat : n = k * q + (n % k)
  BY Division
<1>2. PICK r \in 0..(k - 1) : n % k = r
  BY Remainder
<1>3. PICK p \in Nat : r + m = k * p + ((r + m) % k)
  <2>1. r + m \in Nat
    OBVIOUS
  <2> QED
    BY <2>1, Division
<1>4. PICK s \in 0..(k - 1) : (r + m) % k = s
  BY Remainder
<1>5. n = k * q + r
  BY <1>1, <1>2, Zenon
<1>6. r + m = k * p + s
  BY <1>3, <1>4, Zenon
<1>7. n + m = k * (q + p) + s /\ q + p \in Nat
  BY <1>5, <1>6
<1>8. (k * (q + p) + s) % k = s
  BY <1>7, RemainderOf
<1>9. (n + m) % k = s
  BY <1>7, <1>8
<1> QED
  BY <1>2, <1>4, <1>9

\* Fewer than k numbers in a row have different remainders.
LEMMA RemaindersDiffer ==
  ASSUME NEW n \in Nat, NEW m \in Nat, NEW k \in Nat \ {0}, n < m, m < n + k
  PROVE  n % k # m % k
<1> SUFFICES ASSUME n % k = m % k PROVE FALSE
  OBVIOUS
<1>1. PICK q \in Nat : n = k * q + (n % k)
  BY Division
<1>2. PICK p \in Nat : m = k * p + (m % k)
  BY Division
<1>3. PICK r \in 0..(k - 1) : n % k = r
  BY Remainder
<1>4. m - n = k * (p - q) /\ p - q \in Int
  BY <1>1, <1>2, <1>3
<1>5. CASE p - q >= 1
  <2>1. k * (p - q) >= k
    BY <1>4, <1>5
  <2> QED
    BY <1>4, <2>1
<1>6. CASE p - q <= 0
  <2>1. k * (p - q) <= 0
    BY <1>4, <1>6
  <2> QED
    BY <1>4, <2>1
<1> QED
  BY <1>4, <1>5, <1>6
-----------------------------------------------------------------------------
(* Induction *)

\* A set of numbers that is not empty has a least one: the intervals from 0 to
\* its numbers are finite sets, and those are well-founded.
LEMMA LeastNumber ==
  ASSUME NEW S \in SUBSET Nat, S # {}
  PROVE  \E n \in S : \A m \in S : n <= m
<1> DEFINE T == {0..n : n \in S}
<1>1. IsWellFoundedOn(StrictSubsetOrdering(Nat), FiniteSubsetsOf(Nat))
  BY FS_StrictSubsetOrderingWellFounded
<1>2. T \subseteq FiniteSubsetsOf(Nat)
  <2>1. ASSUME NEW n \in S PROVE IsFiniteSet(0..n) /\ 0..n \subseteq Nat
    BY FS_Interval
  <2> QED BY <2>1 DEF FiniteSubsetsOf
<1>3. T # {} OBVIOUS
<1> HIDE DEF T
<1>4. \E x \in T : \A y \in T : <<y, x>> \notin StrictSubsetOrdering(Nat)
  BY <1>1, <1>2, <1>3, WFMin
<1>5. PICK n \in S : \A y \in T : <<y, 0..n>> \notin StrictSubsetOrdering(Nat)
  BY <1>4 DEF T
<1>6. ASSUME NEW m \in S, ~ (n <= m) PROVE FALSE
  <2>1. 0..m \in T BY DEF T
  <2>2. 0..m \subseteq 0..n /\ 0..m # 0..n
    <3>1. n \in 0..n /\ n \notin 0..m BY <1>6
    <3> QED BY <3>1, <1>6
  <2>3. <<0..m, 0..n>> \in StrictSubsetOrdering(Nat)
    BY <2>2 DEF StrictSubsetOrdering
  <2> QED BY <2>1, <2>3, <1>5
<1> QED BY <1>6

\* What holds of 0 and of n + 1 if it holds of n holds of every number.
LEMMA Inductive ==
  ASSUME NEW S, 0 \in S, \A n \in Nat : n \in S => n + 1 \in S
  PROVE  \A n \in Nat : n \in S
<1> SUFFICES ASSUME NEW k \in Nat, k \notin S PROVE FALSE OBVIOUS
<1>1. PICK n \in Nat \ S : \A m \in Nat \ S : n <= m
  <2>1. Nat \ S # {} OBVIOUS
  <2> QED BY <2>1, LeastNumber, Zenon
<1>2. n - 1 \in Nat /\ n - 1 \in S
  BY <1>1
<1> QED BY <1>2, <1>1

\* The first n turns of a loop, as a function of their number.
FirstOf(f, n, base, step) ==
  f = [k \in 0..n |-> IF k = 0 THEN base ELSE step[k][f[k - 1]]]

\* A loop of m turns has one more.
LEMMA OneMoreTurn ==
  ASSUME NEW X, NEW base \in X, NEW step \in [Nat -> [X -> X]], NEW m \in Nat,
         NEW f \in [0..m -> X], FirstOf(f, m, base, step)
  PROVE  \E g \in [0..(m + 1) -> X] :
            FirstOf(g, m + 1, base, step) /\ \A k \in 0..m : g[k] = f[k]
<1> DEFINE g == [k \in 0..(m + 1) |-> IF k \in 0..m THEN f[k] ELSE step[m + 1][f[m]]]
<1>1. step[m + 1][f[m]] \in X /\ f[0] = base
  <2>1. f[m] \in X /\ step[m + 1] \in [X -> X] OBVIOUS
  <2>2. 0 \in 0..m OBVIOUS
  <2> QED BY <2>1, <2>2 DEF FirstOf
<1>2. g \in [0..(m + 1) -> X]
  BY <1>1
<1>3. ASSUME NEW k \in 0..(m + 1)
      PROVE  g[k] = IF k = 0 THEN base ELSE step[k][g[k - 1]]
  <2>1. CASE k = 0
    <3>1. 0 \in 0..m OBVIOUS
    <3> QED BY <2>1, <3>1, <1>1
  <2>2. CASE k = m + 1
    <3>1. k \notin 0..m /\ k - 1 = m /\ m \in 0..m /\ m \in 0..(m + 1) /\ k # 0 BY <2>2
    <3>2. g[k] = step[m + 1][f[m]] BY <3>1
    <3>3. g[m] = f[m] BY <3>1
    <3> QED BY <3>1, <3>2, <3>3, <2>2, Zenon
  <2>3. CASE k # 0 /\ k # m + 1
    <3>1. k \in 0..m /\ k - 1 \in 0..m /\ k - 1 \in 0..(m + 1) BY <2>3
    <3>2. g[k] = f[k] /\ g[k - 1] = f[k - 1] BY <3>1
    <3>3. f[k] = step[k][f[k - 1]] BY <3>1, <2>3 DEF FirstOf
    <3> QED BY <3>2, <3>3, <2>3
  <2> QED BY <2>1, <2>2, <2>3
<1>4. g = [k \in 0..(m + 1) |-> IF k = 0 THEN base ELSE step[k][g[k - 1]]]
  BY <1>3, Zenon
<1>5. \A k \in 0..m : g[k] = f[k]
  OBVIOUS
<1> HIDE DEF g
<1> QED BY <1>2, <1>4, <1>5 DEF FirstOf

\* There is a loop of every number of turns.
LEMMA FirstTurns ==
  ASSUME NEW X, NEW base \in X, NEW step \in [Nat -> [X -> X]], NEW n \in Nat
  PROVE  \E f \in [0..n -> X] : FirstOf(f, n, base, step)
<1> DEFINE S == {m \in Nat : \E f \in [0..m -> X] : FirstOf(f, m, base, step)}
<1>1. 0 \in S
  <2> DEFINE f == [k \in 0..0 |-> base]
  <2>1. f \in [0..0 -> X] OBVIOUS
  <2>2. f = [k \in 0..0 |-> IF k = 0 THEN base ELSE step[k][f[k - 1]]]
    OBVIOUS
  <2> HIDE DEF f
  <2> QED BY <2>1, <2>2 DEF FirstOf
<1>2. ASSUME NEW m \in Nat, m \in S PROVE m + 1 \in S
  <2>1. PICK f \in [0..m -> X] : FirstOf(f, m, base, step)
    BY <1>2
  <2>2. \E g \in [0..(m + 1) -> X] : FirstOf(g, m + 1, base, step)
    BY <2>1, OneMoreTurn
  <2> QED BY <2>2
<1> HIDE DEF S
<1>3. n \in S BY <1>1, <1>2, Inductive
<1> QED BY <1>3 DEF S

\* Loops of different lengths agree on the turns they share.
LEMMA SameTurns ==
  ASSUME NEW base, NEW step, NEW m \in Nat, NEW n \in Nat, NEW f, NEW g,
         FirstOf(f, m, base, step), FirstOf(g, n, base, step)
  PROVE  \A k \in Nat : k <= m /\ k <= n => f[k] = g[k]
<1> DEFINE S == {k \in Nat : k <= m /\ k <= n => f[k] = g[k]}
<1>1. 0 \in S
  BY DEF FirstOf
<1>2. ASSUME NEW k \in Nat, k \in S PROVE k + 1 \in S
  <2>1. CASE k + 1 <= m /\ k + 1 <= n
    <3>1. f[k] = g[k] BY <2>1, <1>2
    <3>2. k + 1 \in 0..m /\ k + 1 \in 0..n /\ k + 1 # 0 /\ (k + 1) - 1 = k BY <2>1
    <3>3. f[k + 1] = step[k + 1][f[k]] /\ g[k + 1] = step[k + 1][g[k]]
      BY <3>2 DEF FirstOf
    <3> QED BY <3>1, <3>3
  <2> QED BY <2>1
<1> HIDE DEF S
<1>3. \A k \in Nat : k \in S BY <1>1, <1>2, Inductive
<1> QED BY <1>3 DEF S

\* A function of every number of turns.
Iterates(f, base, step) ==
  f = [k \in Nat |-> IF k = 0 THEN base ELSE step[k][f[k - 1]]]

\* There is one for every value before the first turn and every step.
LEMMA Iteration ==
  ASSUME NEW X, NEW base \in X, NEW step \in [Nat -> [X -> X]]
  PROVE  \E f \in [Nat -> X] : Iterates(f, base, step)
<1> DEFINE part(n) == CHOOSE f \in [0..n -> X] : FirstOf(f, n, base, step)
           g == [k \in Nat |-> part(k)[k]]
<1>1. ASSUME NEW n \in Nat PROVE part(n) \in [0..n -> X] /\ FirstOf(part(n), n, base, step)
  BY FirstTurns, Zenon
<1> HIDE DEF part
<1>2. g \in [Nat -> X]
  BY <1>1
<1>3. ASSUME NEW k \in Nat
      PROVE  g[k] = IF k = 0 THEN base ELSE step[k][g[k - 1]]
  <2>1. CASE k = 0
    BY <2>1, <1>1 DEF FirstOf
  <2>2. CASE k # 0
    <3>1. k - 1 \in Nat /\ k \in 0..k /\ k - 1 <= k /\ k - 1 <= k - 1 BY <2>2
    <3>2. part(k)[k] = step[k][part(k)[k - 1]]
      BY <1>1, <3>1, <2>2 DEF FirstOf
    <3>3. FirstOf(part(k), k, base, step) /\ FirstOf(part(k - 1), k - 1, base, step)
      BY <1>1, <3>1, Zenon
    <3>4. part(k)[k - 1] = part(k - 1)[k - 1]
      BY <3>1, <3>3, SameTurns
    <3> QED BY <2>2, <3>1, <3>2, <3>4, Zenon
  <2> QED BY <2>1, <2>2
<1>4. g = [k \in Nat |-> IF k = 0 THEN base ELSE step[k][g[k - 1]]]
  BY <1>3, Zenon
<1> HIDE DEF g
<1> QED BY <1>2, <1>4 DEF Iterates
-----------------------------------------------------------------------------
(* Loops that count from one number to another *)

\* Induction from one number to another.
LEMMA RangeInductive ==
  ASSUME NEW S, NEW lo \in Int, NEW hi \in Int, lo \in S,
         \A i \in lo..(hi - 1) : i \in S => i + 1 \in S
  PROVE  \A i \in lo..hi : i \in S
<1> DEFINE T == {k \in Nat : lo + k <= hi => lo + k \in S}
<1>1. 0 \in T OBVIOUS
<1>2. ASSUME NEW k \in Nat, k \in T PROVE k + 1 \in T
  <2> SUFFICES ASSUME lo + (k + 1) <= hi PROVE lo + (k + 1) \in S OBVIOUS
  <2>1. lo + k \in lo..(hi - 1) /\ lo + k <= hi /\ lo + (k + 1) = (lo + k) + 1 OBVIOUS
  <2> QED BY <1>2, <2>1
<1> HIDE DEF T
<1>3. \A k \in Nat : k \in T BY <1>1, <1>2, Inductive
<1> SUFFICES ASSUME NEW i \in lo..hi PROVE i \in S OBVIOUS
<1>4. i - lo \in Nat /\ lo + (i - lo) = i /\ lo + (i - lo) <= hi OBVIOUS
<1>5. i - lo \in T BY <1>3, <1>4
<1> QED BY <1>4, <1>5 DEF T

\* The turns from one number to another, as a function of the number.
FromTo(f, lo, hi, base, step) ==
  f = [i \in lo..hi |-> IF i = lo THEN base ELSE step[i][f[i - 1]]]

\* There are such turns.
LEMMA RangeTurns ==
  ASSUME NEW X, NEW base \in X, NEW step \in [Int -> [X -> X]],
         NEW lo \in Int, NEW hi \in Int, lo <= hi
  PROVE  \E f \in [lo..hi -> X] : FromTo(f, lo, hi, base, step)
<1> DEFINE n == hi - lo
           late == [k \in Nat |-> step[lo + k]]
<1>1. n \in Nat /\ late \in [Nat -> [X -> X]] OBVIOUS
<1> HIDE DEF late
<1>2. PICK g \in [0..n -> X] : FirstOf(g, n, base, late)
  BY <1>1, FirstTurns
<1> DEFINE f == [i \in lo..hi |-> g[i - lo]]
<1>3. \A i \in lo..hi : i - lo \in 0..n OBVIOUS
<1>4. f \in [lo..hi -> X] BY <1>3
<1>5. ASSUME NEW i \in lo..hi PROVE f[i] = IF i = lo THEN base ELSE step[i][f[i - 1]]
  <2>1. f[i] = IF i - lo = 0 THEN base ELSE late[i - lo][g[(i - lo) - 1]]
    BY <1>2, <1>3 DEF FirstOf
  <2>2. CASE i = lo BY <2>1, <2>2
  <2>3. CASE i # lo
    <3>1. /\ i - 1 \in lo..hi /\ i - lo # 0 /\ (i - lo) - 1 = (i - 1) - lo
          /\ i - lo \in Nat /\ lo + (i - lo) = i
      BY <2>3
    <3>2. f[i - 1] = g[(i - lo) - 1] BY <3>1
    <3>3. late[i - lo] = step[i] BY <3>1 DEF late
    <3> QED BY <2>1, <2>3, <3>1, <3>2, <3>3, Zenon
  <2> QED BY <2>2, <2>3
<1>6. f = [i \in lo..hi |-> IF i = lo THEN base ELSE step[i][f[i - 1]]]
  BY <1>5, Zenon
<1> HIDE DEF f
<1> QED BY <1>4, <1>6 DEF FromTo
=============================================================================
