---------------------------- MODULE SerialProofs ----------------------------
(***************************************************************************)
(* Programs at the serial line.  The ring buffer of the serial driver is a *)
(* queue, for every size, number of characters and interrupt latency.  The *)
(* console's transfers leave in memory what their printed result says, and *)
(* its commands write, dump and show what they were told, for every width  *)
(* of a byte, memory, table of inputs and numbers typed.                   *)
(***************************************************************************)
EXTENDS SerialDriver, Console, NumberLemmas, SequenceTheorems

(* The console. *)

(* Words and addresses *)

\* The values of one to four bytes, each that many times those before; a word
\* is whole words of addresses.
LEMMA Widths ==
  /\ Wide(0) = 1 /\ Wide(1) = ByteValues /\ Wide(1) \in Nat \ {0, 1}
  /\ Wide(2) = Wide(1) * Wide(1) /\ Wide(2) \in Nat \ {0}
  /\ Wide(3) = Wide(2) * Wide(1) /\ Wide(3) \in Nat \ {0}
  /\ Wide(4) = Wide(3) * Wide(1) /\ Wide(4) \in Nat \ {0}
  /\ Wide(1) <= Wide(2) /\ Wide(2) <= Wide(4)
  /\ \E q \in Nat \ {0} : Wide(4) = 4 * q
<1>1. PICK h \in Nat \ {0} : ByteValues = 2 * h
  <2>1. ByteValues \div 2 \in Nat \ {0} /\ ByteValues = 2 * (ByteValues \div 2)
    BY ByteAssumption
  <2> QED BY <2>1
<1>2. ByteValues \in Nat \ {0, 1}
  BY <1>1
<1>3. /\ Wide(0) = 1 /\ Wide(1) = ByteValues /\ Wide(2) = ByteValues * ByteValues
      /\ Wide(3) = ByteValues * ByteValues * ByteValues
      /\ Wide(4) = ByteValues * ByteValues * ByteValues * ByteValues
  BY DEF Wide
<1>4. ASSUME NEW n \in Nat \ {0} PROVE n * ByteValues \in Nat \ {0} /\ n <= n * ByteValues
  BY <1>2
<1>5. /\ Wide(1) \in Nat \ {0, 1} /\ Wide(2) \in Nat \ {0} /\ Wide(3) \in Nat \ {0} /\ Wide(4) \in Nat \ {0}
      /\ Wide(1) <= Wide(2) /\ Wide(2) <= Wide(3) /\ Wide(3) <= Wide(4)
  BY <1>2, <1>3, <1>4
<1>6. \E q \in Nat \ {0} : Wide(4) = 4 * q
  <2>1. 4 * (h * h * ByteValues * ByteValues) = Wide(4)
    BY <1>1, <1>3
  <2>2. h * h * ByteValues * ByteValues \in Nat
    BY <1>2
  <2>3. PICK q \in Nat : q = h * h * ByteValues * ByteValues
    BY <2>2
  <2> QED BY <2>1, <2>3, <1>5
<1> QED BY <1>3, <1>5, <1>6

\* What is a word.
LEMMA InWord ==
  /\ Word \subseteq Nat /\ 0 \in Word /\ KILLR \in Word
  /\ \A n \in Nat : n % Wide(4) \in Word
  /\ \A w \in Word, n \in Nat : n <= w => n \in Word
  /\ \A w \in Word : w % Wide(4) = w
<1>1. PICK M \in Nat \ {0} : M = Wide(4) BY Widths
<1>2. Word = 0..(M - 1) /\ KILLR = M - 1
  BY <1>1 DEF Word, KILLR
<1>3. \A n \in Nat : n % M \in 0..(M - 1)
  BY Remainder
<1>4. \A w \in 0..(M - 1) : w % M = w
  OBVIOUS
<1>5. /\ 0..(M - 1) \subseteq Nat /\ 0 \in 0..(M - 1) /\ M - 1 \in 0..(M - 1)
      /\ \A w \in 0..(M - 1), n \in Nat : n <= w => n \in 0..(M - 1)
  OBVIOUS
<1> QED BY <1>1, <1>2, <1>3, <1>4, <1>5, Zenon

\* Rounding an address down to a word's.
LEMMA AlignedDown ==
  ASSUME NEW a \in Word
  PROVE  AlignDown(a) \in Word /\ Aligned(AlignDown(a), 4) /\ (Aligned(a, 4) => AlignDown(a) = a)
<1> USE InWord
<1>1. a - (a % 4) \in Nat /\ a - (a % 4) <= a /\ (a - (a % 4)) % 4 = 0
  OBVIOUS
<1> QED BY <1>1 DEF AlignDown, Aligned

\* Going on by words from an aligned address.
LEMMA Onward ==
  ASSUME NEW a \in Word, NEW k \in Nat
  PROVE  /\ Plus(a, k) \in Word
         /\ Aligned(a, 4) => Aligned(Plus(a, 4 * k), 4)
         /\ Plus(a, 0) = a
         /\ Plus(Plus(a, 4 * k), 4) = Plus(a, 4 * (k + 1))
<1>0. a \in Nat BY InWord
<1>1. PICK M \in Nat \ {0} : M = Wide(4) BY Widths
<1>2. Plus(a, k) \in Word /\ Plus(a, 0) = a
  BY <1>0, InWord DEF Plus
<1>3. ASSUME Aligned(a, 4) PROVE Aligned(Plus(a, 4 * k), 4)
  <2>1. PICK q \in Nat \ {0} : M = 4 * q BY <1>1, Widths
  <2>2. PICK n \in Nat : n = a + 4 * k BY <1>0
  <2>3. PICK d \in Nat : n = M * d + (n % M) BY Division, <1>1
  <2>4. n % M \in Nat BY Remainder
  <2>5. n = 4 * (q * d) + (n % M) /\ q * d \in Nat BY <2>1, <2>3
  <2>6. n % 4 = 0 BY <1>0, <1>3, <2>2 DEF Aligned
  <2>7. (n % M) % 4 = 0 BY <2>4, <2>5, <2>6
  <2> QED BY <2>7, <2>2, <1>1 DEF Aligned, Plus
<1>4. Plus(Plus(a, 4 * k), 4) = Plus(a, 4 * (k + 1))
  <2>1. (((a + 4 * k) % M) + 4) % M = ((a + 4 * k) + 4) % M
    <3>1. a + 4 * k \in Nat BY <1>0
    <3>2. PICK n \in Nat : n = a + 4 * k BY <3>1
    <3>3. ((n % M) + 4) % M = (n + 4) % M BY RemainderOfSum
    <3> QED BY <3>2, <3>3, Zenon
  <2> QED BY <2>1, <1>0, <1>1 DEF Plus
<1> QED BY <1>2, <1>3, <1>4

\* The words of a region no larger than memory are at different addresses.
LEMMA DifferentWords ==
  ASSUME NEW a \in Word, NEW i \in Nat, NEW j \in Nat, i < j, 4 * (j - i) < Wide(4)
  PROVE  Plus(a, 4 * i) # Plus(a, 4 * j)
<1>1. PICK M \in Nat \ {0} : M = Wide(4) BY Widths
<1>2. a + 4 * i < a + 4 * j /\ a + 4 * j < a + 4 * i + M /\ a + 4 * i \in Nat /\ a + 4 * j \in Nat
  BY <1>1, InWord
<1>3. (a + 4 * i) % M # (a + 4 * j) % M
  BY <1>2, RemaindersDiffer
<1> QED BY <1>3, <1>1 DEF Plus
-----------------------------------------------------------------------------
(* Loads and stores *)

Memories == [Word -> Byte]

\* The bytes of an aligned access follow each other, without going round.
LEMMA BytesOf ==
  ASSUME NEW a \in Word, NEW n \in {1, 2, 4}, Aligned(a, n), NEW i \in 0..(n - 1)
  PROVE  Plus(a, i) = a + i /\ a + i \in Word
<1>0. a \in Nat BY InWord
<1>1. PICK q \in Nat \ {0} : Wide(4) = 4 * q BY Widths
<1>2. a + i < Wide(4)
  BY <1>0, <1>1 DEF Aligned, Word
<1>3. a + i \in Word
  BY <1>0, <1>2, Widths DEF Word
<1> QED BY <1>3, InWord DEF Plus

\* A store leaves bytes in memory.
LEMMA StoreKeepsType ==
  ASSUME NEW m \in Memories, NEW a \in Word, NEW n \in {1, 2, 4}, NEW v \in Word
  PROVE  Store(m, a, n, v) \in Memories
<1>1. ASSUME NEW x \in Word, x - a \in 0..(n - 1)
      PROVE  (v \div Wide(n - 1 - (x - a))) % Wide(1) \in Byte
  <2>1. PICK k \in 0..3 : k = n - 1 - (x - a) BY <1>1
  <2>2. PICK d \in Nat \ {0} : d = Wide(k) BY Widths
  <2>3. v \div d \in Nat BY InWord
  <2> QED BY <2>1, <2>2, <2>3, Widths, Remainder DEF Byte
<1>2. CASE ~Aligned(a, n) BY <1>2 DEF Store
<1>3. CASE Aligned(a, n)
  BY <1>1, <1>3 DEF Store, Memories
<1> QED BY <1>2, <1>3

\* A store writes no other bytes than those of its region.
LEMMA StoreWithin ==
  ASSUME NEW m \in Memories, NEW a \in Word, NEW n \in {1, 2, 4}, NEW v \in Word,
         NEW x \in Word, Store(m, a, n, v)[x] # m[x]
  PROVE  Aligned(a, n) /\ x - a \in 0..(n - 1) /\ x \in Region(a, n)
<1>1. Aligned(a, n) BY DEF Store
<1>2. x - a \in 0..(n - 1) BY <1>1 DEF Store
<1>3. PICK i \in 0..(n - 1) : i = x - a BY <1>2
<1>4. x = a + i BY <1>3, InWord
<1>5. x = Plus(a, i) BY <1>1, <1>4, BytesOf
<1> QED BY <1>1, <1>2, <1>5 DEF Region

\* A word loaded, byte by byte.
LEMMA LoadOfWord ==
  ASSUME NEW m \in Memories, NEW a \in Word, Aligned(a, 4)
  PROVE  /\ Load(m, a, 4) = m[a] * Wide(3) + m[a + 1] * Wide(2) + m[a + 2] * Wide(1) + m[a + 3] * Wide(0)
         /\ m[a] \in Byte /\ m[a + 1] \in Byte /\ m[a + 2] \in Byte /\ m[a + 3] \in Byte
<1>1. /\ Plus(a, 0) = a /\ Plus(a, 1) = a + 1 /\ Plus(a, 2) = a + 2 /\ Plus(a, 3) = a + 3
      /\ a \in Word /\ a + 1 \in Word /\ a + 2 \in Word /\ a + 3 \in Word
  <2>1. Plus(a, 0) = a + 0 /\ Plus(a, 1) = a + 1 /\ Plus(a, 2) = a + 2 /\ Plus(a, 3) = a + 3
        /\ a + 1 \in Word /\ a + 2 \in Word /\ a + 3 \in Word
    <3>1. 4 \in {1, 2, 4} /\ 0..(4 - 1) = 0..3 OBVIOUS
    <3>2. \A i \in 0..3 : Plus(a, i) = a + i /\ a + i \in Word BY <3>1, BytesOf
    <3> QED BY <3>2
  <2> QED BY <2>1, InWord
<1>2. m[a] \in Byte /\ m[a + 1] \in Byte /\ m[a + 2] \in Byte /\ m[a + 3] \in Byte
  BY <1>1 DEF Memories
<1>3. Load(m, a, 4) = m[Plus(a, 0)] * Wide(4 - 1 - 0) + m[Plus(a, 1)] * Wide(4 - 1 - 1)
                      + m[Plus(a, 2)] * Wide(4 - 1 - 2) + m[Plus(a, 3)] * Wide(4 - 1 - 3)
  BY DEF Load
<1> QED BY <1>1, <1>2, <1>3

\* A load gives a word.
LEMMA LoadType ==
  ASSUME NEW m \in Memories, NEW a \in Word
  PROVE  Load(m, a, 4) \in Word
<1>1. CASE ~Aligned(a, 4) BY <1>1, InWord DEF Load
<1>2. CASE Aligned(a, 4)
  <2>1. PICK B \in Nat \ {0, 1} : B = Wide(1) BY Widths
  <2>2. /\ Wide(0) = 1 /\ Wide(2) = B * B /\ Wide(3) = B * B * B /\ Wide(4) = B * B * B * B
        /\ Byte = 0..(B - 1) /\ Word = 0..(Wide(4) - 1)
    BY <2>1, Widths DEF Byte, Word
  <2>3. PICK b0 \in 0..(B - 1), b1 \in 0..(B - 1), b2 \in 0..(B - 1), b3 \in 0..(B - 1) :
          Load(m, a, 4) = b0 * (B * B * B) + b1 * (B * B) + b2 * B + b3
    <3>1. /\ m[a] \in 0..(B - 1) /\ m[a + 1] \in 0..(B - 1)
          /\ m[a + 2] \in 0..(B - 1) /\ m[a + 3] \in 0..(B - 1)
      BY <1>2, <2>2, LoadOfWord
    <3>2. Load(m, a, 4) = m[a] * (B * B * B) + m[a + 1] * (B * B) + m[a + 2] * B + m[a + 3] * 1
      BY <1>2, <2>1, <2>2, LoadOfWord, Zenon
    <3>3. PICK b3 \in 0..(B - 1) : b3 = m[a + 3] BY <3>1
    <3>4. Load(m, a, 4) = m[a] * (B * B * B) + m[a + 1] * (B * B) + m[a + 2] * B + b3
      BY <3>2, <3>3
    <3> QED BY <3>1, <3>4, Zenon
  <2>4. ASSUME NEW d \in Nat \ {0}, NEW u \in 0..(B - 1), NEW r \in 0..(d - 1)
        PROVE  u * d + r \in 0..(d * B - 1)
    <3>1. u * d <= (B - 1) * d /\ u * d \in Nat OBVIOUS
    <3> QED BY <3>1
  <2>5. b2 * B + b3 \in 0..(B * B - 1) BY <2>4
  <2>6. PICK r2 \in 0..(B * B - 1) : r2 = b2 * B + b3 BY <2>5
  <2>7. b1 * (B * B) + r2 \in 0..(B * B * B - 1) BY <2>4
  <2>8. PICK r1 \in 0..(B * B * B - 1) : r1 = b1 * (B * B) + r2 BY <2>7
  <2>9. b0 * (B * B * B) + r1 \in 0..(B * B * B * B - 1) BY <2>4
  <2> QED BY <2>2, <2>3, <2>6, <2>8, <2>9
<1> QED BY <1>1, <1>2

\* The four bytes of a word give the word.
LEMMA BytesGive ==
  ASSUME NEW v \in Word
  PROVE  ((v \div Wide(3)) % Wide(1)) * Wide(3) + ((v \div Wide(2)) % Wide(1)) * Wide(2)
         + ((v \div Wide(1)) % Wide(1)) * Wide(1) + ((v \div Wide(0)) % Wide(1)) * Wide(0) = v
<1>1. PICK B \in Nat \ {0, 1} : B = Wide(1) BY Widths
<1>2. /\ Wide(0) = 1 /\ Wide(2) = B * B /\ Wide(3) = B * B * B /\ Wide(4) = B * B * B * B
  BY <1>1, Widths
<1>0. v \in Nat BY InWord
<1>3. v < B * B * B * B BY <1>2, Widths DEF Word
<1>B. B \in Nat \ {0} OBVIOUS
<1>4. PICK q1 \in Nat, d3 \in 0..(B - 1) : v = B * q1 + d3
  BY <1>0, <1>B, Quotient, Zenon
<1>5. PICK q2 \in Nat, d2 \in 0..(B - 1) : q1 = B * q2 + d2
  BY <1>B, Quotient, Zenon
<1>6. PICK d0 \in Nat, d1 \in 0..(B - 1) : q2 = B * d0 + d1
  BY <1>B, Quotient, Zenon
<1>7. d0 \in 0..(B - 1)
  <2>1. v >= B * (B * (B * d0))
    <3>1. B * q2 >= B * (B * d0) /\ q1 >= B * q2 BY <1>5, <1>6
    <3>2. q1 >= B * (B * d0) BY <3>1
    <3>3. PICK x \in Nat : x = B * (B * d0) OBVIOUS
    <3>4. q1 >= x BY <3>2, <3>3
    <3>5. B * q1 >= B * x /\ v >= B * q1 BY <3>4, <1>4
    <3>6. B * q1 \in Nat /\ B * x \in Nat OBVIOUS
    <3>7. v >= B * x BY <1>0, <3>5, <3>6
    <3> QED BY <3>3, <3>7
  <2>2. ASSUME d0 >= B PROVE FALSE
    <3>1. B * d0 >= B * B /\ B * d0 \in Nat BY <2>2
    <3>2. B * (B * d0) >= B * (B * B) /\ B * (B * d0) \in Nat BY <3>1
    <3>3. B * (B * (B * d0)) >= B * (B * (B * B)) BY <3>2
    <3> QED BY <3>3, <2>1, <1>0, <1>3
  <2> QED BY <2>2
<1>8. v \div 1 = v /\ v % B = d3
  BY <1>0, <1>4, RemainderOf
<1>9. v \div B = q1 /\ q1 % B = d2
  BY <1>4, <1>5, QuotientOf, RemainderOf
<1>10. v \div (B * B) = q2 /\ q2 % B = d1
  <2>1. PICK r \in 0..(B * B - 1) : r = B * d2 + d3
    <3>1. B * d2 <= B * (B - 1) /\ B * d2 \in Nat OBVIOUS
    <3> QED BY <3>1
  <2>2. v = (B * B) * q2 + r BY <1>4, <1>5, <2>1
  <2>3. B * B \in Nat \ {0} OBVIOUS
  <2> QED BY <2>2, <2>3, <1>6, QuotientOf, RemainderOf
<1>11. v \div (B * B * B) = d0 /\ d0 % B = d0
  <2>1. PICK r \in 0..(B * B * B - 1) : r = B * B * d1 + B * d2 + d3
    <3>1. B * d2 <= B * (B - 1) /\ B * d2 \in Nat OBVIOUS
    <3>2. B * B * d1 <= B * B * (B - 1) /\ B * B * d1 \in Nat OBVIOUS
    <3> QED BY <3>1, <3>2
  <2>2. v = (B * B * B) * d0 + r BY <1>4, <1>5, <1>6, <2>1
  <2>3. B * B * B \in Nat \ {0} OBVIOUS
  <2> QED BY <2>2, <2>3, <1>7, QuotientOf
<1>12. d0 * (B * B * B) + d1 * (B * B) + d2 * B + d3 * 1 = v
  BY <1>4, <1>5, <1>6
<1> QED BY <1>1, <1>2, <1>8, <1>9, <1>10, <1>11, <1>12, Zenon

\* A word stored is loaded again.
LEMMA LoadStored ==
  ASSUME NEW m \in Memories, NEW a \in Word, Aligned(a, 4), NEW v \in Word
  PROVE  Load(Store(m, a, 4, v), a, 4) = v
<1> DEFINE w == Store(m, a, 4, v)
<1>1. w \in Memories
  BY StoreKeepsType
<1>2. a \in Nat /\ a \in Word /\ a + 1 \in Word /\ a + 2 \in Word /\ a + 3 \in Word
  <2>1. 4 \in {1, 2, 4} /\ 0..(4 - 1) = 0..3 OBVIOUS
  <2>2. \A i \in 0..3 : a + i \in Word BY <2>1, BytesOf
  <2> QED BY <2>2, InWord
<1>3. /\ w[a] = (v \div Wide(3)) % Wide(1) /\ w[a + 1] = (v \div Wide(2)) % Wide(1)
      /\ w[a + 2] = (v \div Wide(1)) % Wide(1) /\ w[a + 3] = (v \div Wide(0)) % Wide(1)
  <2>1. \A i \in 0..3 : a + i \in Word => w[a + i] = (v \div Wide(4 - 1 - ((a + i) - a))) % Wide(1)
    BY <1>2 DEF Store
  <2>2. /\ 4 - 1 - ((a + 0) - a) = 3 /\ 4 - 1 - ((a + 1) - a) = 2
        /\ 4 - 1 - ((a + 2) - a) = 1 /\ 4 - 1 - ((a + 3) - a) = 0 /\ a + 0 = a
    BY <1>2
  <2>3. 0 \in 0..3 /\ 1 \in 0..3 /\ 2 \in 0..3 /\ 3 \in 0..3 OBVIOUS
  <2> HIDE DEF w
  <2> QED BY <1>2, <2>1, <2>2, <2>3, Zenon
<1>4. Load(w, a, 4) = w[a] * Wide(3) + w[a + 1] * Wide(2) + w[a + 2] * Wide(1) + w[a + 3] * Wide(0)
  BY <1>1, LoadOfWord
<1> HIDE DEF w
<1>5. Load(w, a, 4) = v
  BY <1>3, <1>4, BytesGive, Zenon
<1> QED BY <1>5 DEF w

\* Aligned words do not overlap.
LEMMA LoadElsewhere ==
  ASSUME NEW m \in Memories, NEW a \in Word, Aligned(a, 4), NEW v \in Word,
         NEW b \in Word, Aligned(b, 4), a # b
  PROVE  Load(Store(m, a, 4, v), b, 4) = Load(m, b, 4)
<1> DEFINE w == Store(m, a, 4, v)
<1>1. w \in Memories
  BY StoreKeepsType
<1>2. /\ b - a \notin 0..3 /\ (b + 1) - a \notin 0..3 /\ (b + 2) - a \notin 0..3 /\ (b + 3) - a \notin 0..3
  BY InWord DEF Aligned
<1>3. b \in Word /\ b + 1 \in Word /\ b + 2 \in Word /\ b + 3 \in Word
  <2>1. 4 \in {1, 2, 4} /\ 0..(4 - 1) = 0..3 OBVIOUS
  <2>2. \A i \in 0..3 : b + i \in Word BY <2>1, BytesOf
  <2> QED BY <2>2
<1>4. \A x \in Word : x - a \notin 0..3 => w[x] = m[x]
  BY DEF Store
<1>5. w[b] = m[b] /\ w[b + 1] = m[b + 1] /\ w[b + 2] = m[b + 2] /\ w[b + 3] = m[b + 3]
  BY <1>2, <1>3, <1>4, Zenon
<1> HIDE DEF w
<1>6. Load(w, b, 4) = Load(m, b, 4)
  BY <1>1, <1>5, LoadOfWord
<1> QED BY <1>6 DEF w

-----------------------------------------------------------------------------
(* The words of memory as loops go through them *)

\* What is read as word k from a.
WordAt(m, a, k) == Load(m, Plus(a, 4 * k), 4)

\* The sum as its loop computes it, one word more in each turn.
LEMMA SumUnfolds ==
  ASSUME NEW m, NEW a, \A k \in Nat : WordAt(m, a, k) \in Word
  PROVE  /\ Sum(m, a, 0) = 0
         /\ \A c \in Nat : Sum(m, a, c) \in Word
         /\ \A c \in Nat : Sum(m, a, c + 1) = ExclusiveOr(Sum(m, a, c), WordAt(m, a, c))
<1> DEFINE body(f) == [k \in Nat |-> IF k = 0 THEN 0 ELSE ExclusiveOr(f[k - 1], WordAt(m, a, k - 1))]
           sum == CHOOSE f : f = body(f)
           step == [k \in Nat |-> [w \in Word |-> IF k = 0 THEN 0 ELSE ExclusiveOr(w, WordAt(m, a, k - 1))]]
<1>1. \A n \in Nat : Sum(m, a, n) = sum[n]
  BY DEF Sum, WordAt
<1>2. 0 \in Word
  BY InWord
<1>3. step \in [Nat -> [Word -> Word]]
  <2>1. ASSUME NEW k \in Nat, NEW w \in Word
        PROVE  (IF k = 0 THEN 0 ELSE ExclusiveOr(w, WordAt(m, a, k - 1))) \in Word
    <3>1. CASE k = 0 BY <3>1, <1>2
    <3>2. CASE k # 0
      <4>1. k - 1 \in Nat BY <3>2
      <4> QED BY <4>1, <3>2, XorAssumption
    <3> QED BY <3>1, <3>2
  <2> HIDE DEF Word, WordAt
  <2> QED BY <2>1
<1>4. \E f : f = body(f)
  <2> HIDE DEF step
  <2>0. PICK f \in [Nat -> Word] : Iterates(f, 0, step)
    BY <1>2, <1>3, Iteration
  <2>1. f = [k \in Nat |-> IF k = 0 THEN 0 ELSE step[k][f[k - 1]]]
    BY <2>0 DEF Iterates
  <2>2. ASSUME NEW k \in Nat, k # 0 PROVE f[k] = ExclusiveOr(f[k - 1], WordAt(m, a, k - 1))
    <3>1. k - 1 \in Nat /\ f[k - 1] \in Word BY <2>2
    <3>2. f[k] = step[k][f[k - 1]] BY <2>1, <2>2
    <3> QED BY <3>1, <3>2, <2>2 DEF step
  <2>3. f[0] = 0 BY <2>1
  <2>4. f = [k \in Nat |-> f[k]] OBVIOUS
  <2> QED BY <2>2, <2>3, <2>4
<1>5. sum = body(sum)
  BY <1>4
<1> HIDE DEF sum
<1>6. sum[0] = 0 /\ \A c \in Nat : sum[c + 1] = ExclusiveOr(sum[c], WordAt(m, a, c))
  BY <1>5
<1> HIDE DEF step
<1>7. \A c \in Nat : sum[c] \in Word
  <2> DEFINE S == {c \in Nat : sum[c] \in Word}
  <2>1. 0 \in S BY <1>2, <1>6
  <2>2. \A c \in Nat : c \in S => c + 1 \in S BY <1>6, XorAssumption
  <2> HIDE DEF S
  <2>3. \A c \in Nat : c \in S BY <2>1, <2>2, Inductive
  <2> QED BY <2>3 DEF S
<1> QED BY <1>1, <1>6, <1>7

\* What the loop reads is a word.
LEMMA WordAtType ==
  ASSUME NEW m \in Memories, NEW a \in Word, NEW k \in Nat
  PROVE  WordAt(m, a, k) \in Word
<1>1. Plus(a, 4 * k) \in Word
  <2>1. PICK n \in Nat : n = 4 * k OBVIOUS
  <2>2. Plus(a, n) \in Word BY Onward
  <2> QED BY <2>1, <2>2
<1> QED BY <1>1, LoadType DEF WordAt

\* The sum over a memory.
LEMMA Summing ==
  ASSUME NEW m \in Memories, NEW a \in Word
  PROVE  /\ Sum(m, a, 0) = 0
         /\ \A c \in Nat : Sum(m, a, c) \in Word
         /\ \A c \in Nat : Sum(m, a, c + 1) = ExclusiveOr(Sum(m, a, c), WordAt(m, a, c))
<1>1. \A k \in Nat : WordAt(m, a, k) \in Word BY WordAtType
<1> QED BY <1>1, SumUnfolds

\* The sum is that of the words, whatever else is in memory.
LEMMA SameSum ==
  ASSUME NEW m \in Memories, NEW n \in Memories, NEW a \in Word, NEW c \in Nat,
         \A k \in Nat : k < c => WordAt(m, a, k) = WordAt(n, a, k)
  PROVE  Sum(m, a, c) = Sum(n, a, c)
<1> DEFINE S == {k \in Nat : k <= c => Sum(m, a, k) = Sum(n, a, k)}
<1>1. 0 \in S BY Summing
<1>2. ASSUME NEW k \in Nat, k \in S PROVE k + 1 \in S
  <2>1. CASE k + 1 <= c
    <3>1. Sum(m, a, k) = Sum(n, a, k) /\ WordAt(m, a, k) = WordAt(n, a, k) BY <1>2, <2>1
    <3>2. /\ Sum(m, a, k + 1) = ExclusiveOr(Sum(m, a, k), WordAt(m, a, k))
          /\ Sum(n, a, k + 1) = ExclusiveOr(Sum(n, a, k), WordAt(n, a, k))
      BY Summing
    <3> QED BY <3>1, <3>2
  <2> QED BY <2>1
<1> HIDE DEF S
<1>3. c \in S BY <1>1, <1>2, Inductive
<1> QED BY <1>3 DEF S
-----------------------------------------------------------------------------
(* The loop of copy_xor *)

CopyStates == [m : Memories, xor : Word]

\* Its turn after c others that left b.
CopyTurn(src, dst, b, c) ==
  [m |-> IF dst = 0 THEN b.m ELSE Store(b.m, Plus(dst, 4 * c), 4, WordAt(b.m, src, c)),
   xor |-> ExclusiveOr(b.xor, WordAt(b.m, src, c))]

\* A turn leaves a memory and a word.
LEMMA CopyTurnType ==
  ASSUME NEW src \in Word, NEW dst \in Word, NEW b \in CopyStates, NEW c \in Nat
  PROVE  CopyTurn(src, dst, b, c) \in CopyStates
<1>1. b.m \in Memories /\ b.xor \in Word BY DEF CopyStates
<1>2. PICK v \in Word : v = WordAt(b.m, src, c) BY <1>1, WordAtType
<1>3. Plus(dst, 4 * c) \in Word
  <2>1. PICK n \in Nat : n = 4 * c OBVIOUS
  <2>2. Plus(dst, n) \in Word BY Onward
  <2> QED BY <2>1, <2>2
<1>4. Store(b.m, Plus(dst, 4 * c), 4, v) \in Memories BY <1>1, <1>3, StoreKeepsType
<1>5. ExclusiveOr(b.xor, v) \in Word BY <1>1, XorAssumption
<1> QED BY <1>1, <1>2, <1>4, <1>5 DEF CopyTurn, CopyStates

\* The loop as turns.
LEMMA CopyUnfolds ==
  ASSUME NEW src \in Word, NEW dst \in Word, NEW m \in Memories
  PROVE  /\ copied(src, dst, 0, m) = [m |-> m, xor |-> 0]
         /\ \A c \in Nat : copied(src, dst, c, m) \in CopyStates
         /\ \A c \in Nat : copied(src, dst, c + 1, m) = CopyTurn(src, dst, copied(src, dst, c, m), c)
<1> DEFINE base == [m |-> m, xor |-> 0]
           body(f) == [k \in Nat |-> IF k = 0 THEN base ELSE CopyTurn(src, dst, f[k - 1], k - 1)]
           after == CHOOSE f : f = body(f)
           step == [k \in Nat |-> [b \in CopyStates |-> IF k = 0 THEN base ELSE CopyTurn(src, dst, b, k - 1)]]
<1>1. \A n \in Nat : copied(src, dst, n, m) = after[n]
  BY DEF copied, CopyTurn, WordAt
<1>2. base \in CopyStates
  BY InWord DEF CopyStates
<1> HIDE DEF base
<1>3. step \in [Nat -> [CopyStates -> CopyStates]]
  <2>1. ASSUME NEW k \in Nat, NEW b \in CopyStates
        PROVE  (IF k = 0 THEN base ELSE CopyTurn(src, dst, b, k - 1)) \in CopyStates
    <3>1. CASE k = 0 BY <3>1, <1>2
    <3>2. CASE k # 0
      <4>1. k - 1 \in Nat BY <3>2
      <4> QED BY <4>1, <3>2, CopyTurnType
    <3> QED BY <3>1, <3>2
  <2> QED BY <2>1
<1>4. \E f : f = body(f)
  <2> HIDE DEF step
  <2>1. PICK f \in [Nat -> CopyStates] : Iterates(f, base, step)
    BY <1>2, <1>3, Iteration
  <2>2. f = [k \in Nat |-> IF k = 0 THEN base ELSE step[k][f[k - 1]]]
    BY <2>1 DEF Iterates
  <2>3. ASSUME NEW k \in Nat, k # 0 PROVE f[k] = CopyTurn(src, dst, f[k - 1], k - 1)
    <3>1. k - 1 \in Nat /\ f[k - 1] \in CopyStates BY <2>3
    <3>2. f[k] = step[k][f[k - 1]] BY <2>2, <2>3
    <3> QED BY <3>1, <3>2, <2>3 DEF step
  <2>4. f[0] = base BY <2>2
  <2>5. f = [k \in Nat |-> f[k]] OBVIOUS
  <2> QED BY <2>3, <2>4, <2>5
<1>5. after = body(after)
  BY <1>4
<1> HIDE DEF after, step
<1>6. after[0] = base /\ \A c \in Nat : after[c + 1] = CopyTurn(src, dst, after[c], c)
  BY <1>5
<1>7. \A c \in Nat : after[c] \in CopyStates
  <2> DEFINE S == {c \in Nat : after[c] \in CopyStates}
  <2>1. 0 \in S BY <1>2, <1>6
  <2>2. ASSUME NEW c \in Nat, c \in S PROVE c + 1 \in S
    <3>1. after[c] \in CopyStates BY <2>2
    <3>2. CopyTurn(src, dst, after[c], c) \in CopyStates BY <3>1, CopyTurnType
    <3>3. after[c + 1] \in CopyStates BY <3>2, <1>6
    <3> QED BY <3>3
  <2> HIDE DEF S
  <2>3. \A c \in Nat : c \in S BY <2>1, <2>2, Inductive
  <2> QED BY <2>3 DEF S
<1> QED BY <1>1, <1>6, <1>7 DEF base

\* Storing a word leaves the ones before it in the region as they were.
LEMMA StoreOneMore ==
  ASSUME NEW m \in Memories, NEW a \in Word, Aligned(a, 4), NEW c \in Nat, 4 * (c + 1) <= Wide(4),
         NEW v \in Word, NEW n, n = Store(m, Plus(a, 4 * c), 4, v)
  PROVE  /\ n \in Memories
         /\ Sum(n, a, c + 1) = ExclusiveOr(Sum(m, a, c), v)
         /\ \A x \in Word : n[x] # m[x] => x \in Region(a, 4 * (c + 1))
<1>1. PICK q \in Word : q = Plus(a, 4 * c) /\ Aligned(q, 4)
  <2>1. PICK k \in Nat : k = 4 * c OBVIOUS
  <2>2. Plus(a, k) \in Word BY Onward
  <2>3. Aligned(Plus(a, 4 * c), 4) BY Onward
  <2> QED BY <2>1, <2>2, <2>3
<1>2. n = Store(m, q, 4, v) BY <1>1
<1>3. n \in Memories BY <1>2, StoreKeepsType
<1>4. WordAt(n, a, c) = v
  BY <1>1, <1>2, LoadStored DEF WordAt
<1>5. ASSUME NEW k \in Nat, k < c PROVE WordAt(n, a, k) = WordAt(m, a, k)
  <2>1. PICK r \in Word : r = Plus(a, 4 * k) /\ Aligned(r, 4)
    <3>1. PICK j \in Nat : j = 4 * k OBVIOUS
    <3>2. Plus(a, j) \in Word BY Onward
    <3>3. Aligned(Plus(a, 4 * k), 4) BY Onward
    <3> QED BY <3>1, <3>2, <3>3
  <2>2. 4 * (c - k) < Wide(4) BY <1>5, Widths
  <2>3. r # q BY <2>1, <2>2, <1>1, <1>5, DifferentWords
  <2> QED BY <2>1, <2>3, <1>1, <1>2, LoadElsewhere DEF WordAt
<1>6. Sum(m, a, c) = Sum(n, a, c)
  BY <1>3, <1>5, SameSum
<1>7. Sum(n, a, c + 1) = ExclusiveOr(Sum(n, a, c), WordAt(n, a, c))
  BY <1>3, Summing
<1>8. ASSUME NEW x \in Word, n[x] # m[x] PROVE x \in Region(a, 4 * (c + 1))
  <2>1. x - q \in 0..3
    <3>1. 4 \in {1, 2, 4} /\ 4 - 1 = 3 OBVIOUS
    <3> QED BY <3>1, <1>2, <1>8, StoreWithin
  <2>2. PICK i \in 0..3 : x = q + i BY <2>1, InWord
  <2>3. Plus(q, i) = x
    <3>1. 4 \in {1, 2, 4} /\ 0..(4 - 1) = 0..3 OBVIOUS
    <3> QED BY <3>1, <1>1, <2>2, BytesOf
  <2>4. Plus(a, 4 * c + i) = x
    <3>1. PICK M \in Nat \ {0} : M = Wide(4) BY Widths
    <3>2. a \in Nat BY InWord
    <3>3. PICK k \in Nat : k = a + 4 * c BY <3>2
    <3>4. ((k % M) + i) % M = (k + i) % M BY <3>1, RemainderOfSum
    <3>5. q = k % M /\ x = (q + i) % M BY <1>1, <2>3, <3>1, <3>3 DEF Plus
    <3>6. a + (4 * c + i) = k + i BY <3>2, <3>3
    <3> QED BY <3>1, <3>4, <3>5, <3>6 DEF Plus
  <2>5. 4 * c + i \in 0..(4 * (c + 1) - 1) OBVIOUS
  <2> QED BY <2>4, <2>5 DEF Region
<1> QED BY <1>3, <1>4, <1>6, <1>7, <1>8

\* A region lies in a longer one from the same address.
LEMMA RegionGrows ==
  ASSUME NEW a, NEW c \in Nat, NEW n \in Nat, c <= n
  PROVE  Region(a, c) \subseteq Region(a, n)
BY DEF Region

\* What the loop has done after c turns: its result is the sum of the words at
\* the destination, which it wrote and nothing else, or at the source.
LEMMA CopyDone ==
  ASSUME NEW src \in Word, NEW dst \in Word, Aligned(dst, 4), NEW m \in Memories,
         NEW c \in Nat, 4 * c <= Wide(4), NEW e, e = copied(src, dst, c, m)
  PROVE  /\ e \in CopyStates
         /\ e.xor = Sum(e.m, IF dst = 0 THEN src ELSE dst, c)
         /\ \A x \in Word : e.m[x] # m[x] => dst # 0 /\ x \in Region(dst, 4 * c)
<1> DEFINE to == IF dst = 0 THEN src ELSE dst
           Good(b, k) ==
             /\ b.xor = Sum(b.m, to, k)
             /\ dst = 0 => b.m = m
             /\ \A x \in Word : b.m[x] # m[x] => dst # 0 /\ x \in Region(dst, 4 * k)
           S == {k \in Nat : 4 * k <= Wide(4) => Good(copied(src, dst, k, m), k)}
<1>1. to \in Word OBVIOUS
<1> HIDE DEF to
<1>2. 0 \in S
  <2>1. PICK b : b = copied(src, dst, 0, m) OBVIOUS
  <2>2. b.m = m /\ b.xor = 0 BY <2>1, CopyUnfolds
  <2>3. Sum(m, to, 0) = 0 BY <1>1, Summing
  <2>4. Good(b, 0) BY <2>2, <2>3
  <2> HIDE DEF Good
  <2> QED BY <2>1, <2>4
<1>3. ASSUME NEW k \in Nat, k \in S PROVE k + 1 \in S
  <2>1. SUFFICES ASSUME 4 * (k + 1) <= Wide(4) PROVE Good(copied(src, dst, k + 1, m), k + 1)
    OBVIOUS
  <2>2. PICK b \in CopyStates : b = copied(src, dst, k, m) BY CopyUnfolds
  <2>3. Good(b, k) BY <1>3, <2>1, <2>2, Widths
  <2>4. b.m \in Memories /\ b.xor \in Word BY <2>2 DEF CopyStates
  <2>5. PICK v \in Word : v = WordAt(b.m, src, k) BY <2>4, WordAtType
  <2>6. copied(src, dst, k + 1, m) = CopyTurn(src, dst, b, k) BY <2>2, CopyUnfolds
  <2>7. PICK d : d = CopyTurn(src, dst, b, k) OBVIOUS
  <2>8. d.xor = ExclusiveOr(b.xor, v) BY <2>5, <2>7 DEF CopyTurn
  <2>9. CASE dst = 0
    <3>1. d.m = b.m /\ b.m = m BY <2>9, <2>7, <2>3 DEF CopyTurn
    <3>2. to = src BY <2>9 DEF to
    <3>3. Sum(m, to, k + 1) = ExclusiveOr(Sum(m, to, k), v)
      BY <3>1, <3>2, <2>5, Summing
    <3>4. d.xor = Sum(d.m, to, k + 1) BY <3>1, <3>3, <2>3, <2>8
    <3> QED BY <3>1, <3>4, <2>6, <2>7
  <2>10. CASE dst # 0
    <3>1. to = dst BY <2>10 DEF to
    <3>2. d.m = Store(b.m, Plus(dst, 4 * k), 4, v) BY <2>10, <2>5, <2>7 DEF CopyTurn
    <3>3. /\ Sum(d.m, dst, k + 1) = ExclusiveOr(Sum(b.m, dst, k), v)
          /\ \A x \in Word : d.m[x] # b.m[x] => x \in Region(dst, 4 * (k + 1))
      BY <2>1, <2>4, <3>2, StoreOneMore
    <3>4. Region(dst, 4 * k) \subseteq Region(dst, 4 * (k + 1))
      <4>1. 4 * k \in Nat /\ 4 * (k + 1) \in Nat /\ 4 * k <= 4 * (k + 1) OBVIOUS
      <4> QED BY <4>1, RegionGrows
    <3>5. \A x \in Word : d.m[x] # m[x] => x \in Region(dst, 4 * (k + 1))
      BY <2>3, <3>3, <3>4
    <3>6. d.xor = Sum(d.m, to, k + 1) BY <3>1, <3>3, <2>3, <2>8
    <3> QED BY <3>5, <3>6, <2>6, <2>7, <2>10
  <2> QED BY <2>9, <2>10
<1> HIDE DEF S
<1>4. c \in S BY <1>2, <1>3, Inductive
<1>5. Good(e, c) BY <1>4 DEF S
<1> QED BY <1>5, CopyUnfolds DEF to
-----------------------------------------------------------------------------
(* The invariant *)

Commanded == bcmd_table \cup {UNKNOWN}

ConsoleTypeOK ==
  /\ mem \in Memories /\ stash_address \in Word /\ last_result \in Word
  /\ p \in Word /\ words \in Word /\ xor \in Word
  /\ shown \in [from : Word, count : Nat] /\ moved \in [to : Word, count : Word]
  /\ color \in [Engines -> Word] /\ back \in [Engines -> Word]
  /\ sw_frame \in Word /\ GP_FRAME \in Word /\ PF_FRAME \in Word /\ GP_GCODE \in Word
  /\ bcs \in Commanded \cup {NULL} /\ last_bcs \in Commanded \cup {NULL}
  /\ given \in Seq(Word)

\* What has been given and what is wanted make up the arguments of the command
\* in one of their orders; a file's words come when all have been given.
ArgumentsInOrder ==
  IF bcs = NULL THEN want = <<>> /\ given = <<>>
  ELSE /\ \E kinds \in Arguments(bcs) :
            /\ want \in Seq({Address, 1, 2, 4}) /\ Len(given) + Len(want) = Len(kinds)
            /\ \A i \in 1..Len(want) : want[i] = kinds[Len(given) + i]
       /\ want # <<>> \/ bcs.cmd = "FILE"

\* A file's words up to p are in memory, their sum is xor and the rest is to
\* come.
FileProgress ==
  bcs.cmd = "FILE" /\ want = <<>> =>
    /\ moved = [to |-> AlignDown(given[1]), count |-> given[2] \div 4]
    /\ words \in 1..moved.count
    /\ p = Plus(moved.to, 4 * (moved.count - words))
    /\ xor = Sum(mem, moved.to, moved.count - words)

\* After a dump the address kept is where the block shown stopped.
DumpEnds ==
  bcs = NULL /\ last_bcs.cmd = "DUMP" =>
    AlignDown(stash_address) = Plus(shown.from, 4 * shown.count)

ConsoleIInv == ConsoleTypeOK /\ ArgumentsInOrder /\ FileProgress /\ DumpEnds /\ Checksum
-----------------------------------------------------------------------------
(* The table and the arguments *)

Kinds == {Address, 1, 2, 4}

\* The fields of an entry.
LEMMA EntryFields ==
  ASSUME NEW t, NEW c, NEW f
  PROVE  Entry(t, c, f).cmd = c /\ Entry(t, c, f).flags = f
BY DEF Entry

\* Stores in the table are of one, two or four bytes, and no entry is NULL.
LEMMA TableFacts ==
  ASSUME NEW e \in Commanded
  PROVE  /\ e.cmd = "STORE" => e.flags \in {1, 2, 4}
         /\ e # NULL /\ e.cmd # "NULL"
<1>1. ASSUME NEW t, NEW c, NEW f, e = Entry(t, c, f), c # "NULL", c = "STORE" => f \in {1, 2, 4}
      PROVE  (e.cmd = "STORE" => e.flags \in {1, 2, 4}) /\ e # NULL /\ e.cmd # "NULL"
  <2>1. e.cmd = c /\ e.flags = f BY <1>1, EntryFields
  <2>2. NULL.cmd = "NULL" BY DEF NULL
  <2> QED BY <1>1, <2>1, <2>2
<1>2. \E t, c, f : e = Entry(t, c, f) /\ c # "NULL" /\ (c = "STORE" => f \in {1, 2, 4})
  BY SMTT(30) DEF Commanded, bcmd_table, ForEngines, UNKNOWN
<1> QED BY <1>1, <1>2

\* How many arguments the commands have.
LEMMA ArgumentKinds ==
  ASSUME NEW e, e.cmd = "STORE" => e.flags \in {1, 2, 4}, NEW kinds \in Arguments(e)
  PROVE  /\ kinds \in Seq(Kinds)
         /\ e.cmd = "FILE" => Len(kinds) = 2
         /\ e.cmd = "STORE" => Len(kinds) = 2 /\ kinds[2] = Address
         /\ e.cmd \in {"JAL", "LOAD", "DUMP", "GCODE", "FRAME"} => Len(kinds) = 1 /\ kinds[1] = Address
         /\ e.cmd \in {"BACK", "COLOR"} => Len(kinds) = 1
         /\ e.cmd = "COPY" => Len(kinds) = 3
         /\ e.cmd \in {"LINE", "ELIP", "RECT"} => Len(kinds) = 4
<1> DEFINE Good ==
      /\ kinds \in Seq(Kinds)
      /\ e.cmd = "FILE" => Len(kinds) = 2
      /\ e.cmd = "STORE" => Len(kinds) = 2 /\ kinds[2] = Address
      /\ e.cmd \in {"JAL", "LOAD", "DUMP", "GCODE", "FRAME"} => Len(kinds) = 1 /\ kinds[1] = Address
      /\ e.cmd \in {"BACK", "COLOR"} => Len(kinds) = 1
      /\ e.cmd = "COPY" => Len(kinds) = 3
      /\ e.cmd \in {"LINE", "ELIP", "RECT"} => Len(kinds) = 4
<1>0. Address \in Kinds /\ 1 \in Kinds /\ 2 \in Kinds /\ 4 \in Kinds
  BY DEF Kinds
<1>1. CASE e.cmd = "FILE"
  <2>1. kinds = <<Address, 4>> \/ kinds = <<4, Address>> BY <1>1 DEF Arguments
  <2>2. CASE kinds = <<Address, 4>> BY <2>2, <1>0, <1>1
  <2>3. CASE kinds = <<4, Address>> BY <2>3, <1>0, <1>1
  <2> QED BY <2>1, <2>2, <2>3
<1>2. CASE e.cmd \in {"JAL", "LOAD", "DUMP", "GCODE", "FRAME"}
  <2>1. kinds = <<Address>> BY <1>2 DEF Arguments
  <2> QED BY <2>1, <1>0, <1>2
<1>3. CASE e.cmd = "STORE"
  <2>1. kinds = <<e.flags, Address>> /\ e.flags \in Kinds BY <1>3 DEF Arguments, Kinds
  <2> QED BY <2>1, <1>0, <1>3
<1>4. CASE e.cmd = "COPY"
  <2>1. kinds = <<Address, 4, 4>> BY <1>4 DEF Arguments
  <2> QED BY <2>1, <1>0, <1>4
<1>5. CASE e.cmd \in {"BACK", "COLOR"}
  <2>1. kinds = <<4>> BY <1>5 DEF Arguments
  <2> QED BY <2>1, <1>0, <1>5
<1>6. CASE e.cmd \in {"LINE", "ELIP", "RECT"}
  <2>1. kinds = <<2, 2, 2, 2>> BY <1>6 DEF Arguments
  <2> QED BY <2>1, <1>0, <1>6
<1>7. CASE e.cmd \notin {"FILE", "JAL", "LOAD", "DUMP", "GCODE", "FRAME", "STORE", "COPY",
                         "BACK", "COLOR", "LINE", "ELIP", "RECT"}
  <2>1. kinds = <<>> BY <1>7 DEF Arguments
  <2> QED BY <2>1, <1>7
<1> QED BY <1>1, <1>2, <1>3, <1>4, <1>5, <1>6, <1>7

\* A number typed gives a word.
LEMMA NumberType ==
  ASSUME NEW t \in Typed, NEW n \in {1, 2, 4}
  PROVE  tok_radnum(n, t) \in Word
<1>1. t.value \in Nat
  <2>1. CASE t = JustMinus BY <2>1, Widths DEF JustMinus
  <2>2. CASE t \in [minus : BOOLEAN, value : Numbers]
    <3>1. t.value \in Numbers BY <2>2
    <3> QED BY <3>1, InputAssumption, InWord
  <2> QED BY <2>1, <2>2 DEF Typed
<1>2. PICK d \in Nat \ {0} : d = Wide(n) /\ d <= Wide(4) BY Widths
<1>3. PICK val \in 0..(d - 1) : val = t.value % Wide(n) BY <1>1, <1>2, Remainder
<1>4. val \in Word /\ Wide(4) - val \in Nat BY <1>2, Widths DEF Word
<1>5. (Wide(4) - val) % Wide(4) \in Word BY <1>4, InWord
<1> QED BY <1>3, <1>4, <1>5, InWord DEF tok_radnum

\* So does an address, the one kept for "-" included.
LEMMA AddressType ==
  ASSUME NEW t \in Typed, stash_address \in Word
  PROVE  tok_addr(t) \in Word
BY NumberType DEF tok_addr

\* The value an argument gives, those given with it, and the address kept then.
Value(t) == IF Head(want) = Address THEN tok_addr(t) ELSE tok_radnum(Head(want), t)
Given(t) == Append(given, IF Head(want) = 2 /\ bcs.cmd # "STORE" THEN Value(t) % Wide(2) ELSE Value(t))
Stashed(t) == IF Head(want) = Address THEN Value(t) ELSE stash_address

\* What is known once one more argument was read.
LEMMA GivenOne ==
  ASSUME ConsoleTypeOK, ArgumentsInOrder, want # <<>>, NEW t \in Typed
  PROVE  /\ bcs # NULL /\ bcs \in Commanded
         /\ Given(t) \in Seq(Word) /\ Len(Given(t)) = Len(given) + 1
         /\ \A i \in 1..Len(given) : Given(t)[i] = given[i]
         /\ Stashed(t) \in Word
         /\ Head(want) = Address => Given(t)[Len(given) + 1] = Stashed(t)
<1>1. bcs # NULL /\ bcs \in Commanded BY DEF ConsoleTypeOK, ArgumentsInOrder
<1>2. want \in Seq(Kinds) BY <1>1 DEF ArgumentsInOrder, Kinds
<1>3. Head(want) \in Kinds BY <1>2
<1>4. Value(t) \in Word
  BY <1>3, NumberType, AddressType DEF Value, ConsoleTypeOK, Kinds
<1>5. Value(t) % Wide(2) \in Word
  <2>1. PICK d \in Nat \ {0} : d = Wide(2) /\ d <= Wide(4) BY Widths
  <2>2. Value(t) % d \in 0..(d - 1) BY <1>4, InWord, Remainder
  <2> QED BY <2>1, <2>2, Widths DEF Word
<1>6. PICK v \in Word : /\ v = IF Head(want) = 2 /\ bcs.cmd # "STORE" THEN Value(t) % Wide(2) ELSE Value(t)
                        /\ Head(want) = Address => v = Value(t)
  BY <1>4, <1>5 DEF Address
<1>7. given \in Seq(Word) BY DEF ConsoleTypeOK
<1>8. Given(t) = Append(given, v) BY <1>6 DEF Given
<1>9. /\ Append(given, v) \in Seq(Word) /\ Len(Append(given, v)) = Len(given) + 1
      /\ \A i \in 1..Len(given) : Append(given, v)[i] = given[i]
      /\ Append(given, v)[Len(given) + 1] = v
  BY <1>7, AppendProperties
<1>10. Stashed(t) \in Word BY <1>4 DEF Stashed, ConsoleTypeOK
<1> QED BY <1>1, <1>6, <1>8, <1>9, <1>10 DEF Stashed

\* How many arguments came before the last.
LEMMA GivenAll ==
  ASSUME ConsoleTypeOK, ArgumentsInOrder, want # <<>>, Len(want) = 1, NEW t \in Typed
  PROVE  /\ bcs.cmd = "FILE" => Len(given) = 1
         /\ bcs.cmd = "STORE" => Len(given) = 1 /\ bcs.flags \in {1, 2, 4} /\ Head(want) = Address
         /\ bcs.cmd \in {"JAL", "LOAD", "DUMP", "GCODE", "FRAME"} => Len(given) = 0 /\ Head(want) = Address
         /\ bcs.cmd \in {"BACK", "COLOR"} => Len(given) = 0
         /\ bcs.cmd = "COPY" => Len(given) = 2
         /\ bcs.cmd \in {"LINE", "ELIP", "RECT"} => Len(given) = 3
<1>1. bcs # NULL /\ bcs \in Commanded BY DEF ConsoleTypeOK, ArgumentsInOrder
<1>2. PICK kinds \in Arguments(bcs) :
        /\ Len(given) + Len(want) = Len(kinds)
        /\ \A i \in 1..Len(want) : want[i] = kinds[Len(given) + i]
  BY <1>1 DEF ArgumentsInOrder
<1>3. want \in Seq(Kinds) /\ given \in Seq(Word) BY <1>1 DEF ArgumentsInOrder, Kinds, ConsoleTypeOK
<1>4. PICK n \in Nat : n = Len(given) BY <1>3
<1>5. Len(kinds) = n + 1 /\ Head(want) = kinds[n + 1] BY <1>2, <1>3, <1>4
<1>6. bcs.cmd = "STORE" => bcs.flags \in {1, 2, 4} BY <1>1, TableFacts
<1>7. /\ bcs.cmd = "FILE" => Len(kinds) = 2
      /\ bcs.cmd = "STORE" => Len(kinds) = 2 /\ kinds[2] = Address
      /\ bcs.cmd \in {"JAL", "LOAD", "DUMP", "GCODE", "FRAME"} => Len(kinds) = 1 /\ kinds[1] = Address
      /\ bcs.cmd \in {"BACK", "COLOR"} => Len(kinds) = 1
      /\ bcs.cmd = "COPY" => Len(kinds) = 3
      /\ bcs.cmd \in {"LINE", "ELIP", "RECT"} => Len(kinds) = 4
  BY <1>6, <1>2, ArgumentKinds
<1> QED BY <1>4, <1>5, <1>6, <1>7
-----------------------------------------------------------------------------
(* The invariant holds *)

\* The pointer to a frame is a word.
LEMMA FramePointer ==
  ASSUME NEW w \in Word
  PROVE  FRAME_PTR(w) \in Word
<1> USE FrameAssumption
<1>1. PICK F \in Nat \ {0} : F = FrameBytes OBVIOUS
<1>2. PICK N \in Nat \ {0} : N = FrameNumbers OBVIOUS
<1>3. CASE w \div FrameBytes # 0
  <2>1. w % F \in 0..(F - 1) /\ w \in Nat BY InWord, Remainder
  <2>2. w % F <= w
    <3>1. PICK d \in Nat : w = F * d + (w % F) BY <2>1, Division
    <3>2. F * d \in Nat OBVIOUS
    <3> QED BY <2>1, <3>1, <3>2
  <2>3. w - (w % F) \in Word BY <2>1, <2>2, InWord
  <2> QED BY <2>3, <1>1, <1>3 DEF FRAME_PTR
<1>4. CASE w \div FrameBytes = 0
  <2>1. PICK r \in 0..(N - 1) : r = w % FrameNumbers BY <1>2, InWord, Remainder
  <2>2. N * F \in Nat /\ r * F \in Nat /\ r * F < N * F
    <3>1. (N - r) * F > 0 /\ (N - r) * F \in Nat OBVIOUS
    <3>2. (N - r) * F = N * F - r * F /\ N * F \in Nat /\ r * F \in Nat OBVIOUS
    <3> QED BY <3>1, <3>2
  <2>3. 2 * N * F = N * F + N * F OBVIOUS
  <2>4. N * F + r * F < Wide(4) BY <1>1, <1>2, <2>2, <2>3, Widths
  <2>5. N * F + r * F \in Word BY <2>2, <2>4, Widths DEF Word
  <2> QED BY <2>1, <2>5, <1>1, <1>2, <1>4 DEF FRAME_PTR
<1> QED BY <1>3, <1>4

\* The address the console starts with is a word.
LEMMA FramesStart ==
  FrameNumbers * FrameBytes \in Word
<1> USE FrameAssumption
<1>1. PICK F \in Nat \ {0} : F = FrameBytes OBVIOUS
<1>2. PICK N \in Nat \ {0} : N = FrameNumbers OBVIOUS
<1>3. PICK x \in Nat \ {0} : x = N * F
  <2>1. N * F \in Nat \ {0} OBVIOUS
  <2> QED BY <2>1
<1>4. 2 * N * F = 2 * x BY <1>3
<1>5. x < Wide(4) BY <1>1, <1>2, <1>3, <1>4, Widths
<1> QED BY <1>1, <1>2, <1>3, <1>5, Widths DEF Word

\* The invariant holds at the start.
LEMMA ConsoleStarts ==
  ConsoleInit => ConsoleIInv
<1> SUFFICES ASSUME ConsoleInit PROVE ConsoleIInv OBVIOUS
<1>1. NULL.cmd = "NULL" BY DEF NULL
<1>2. ArgumentsInOrder /\ FileProgress /\ DumpEnds /\ Checksum
  BY <1>1 DEF ConsoleInit, ArgumentsInOrder, FileProgress, DumpEnds, Checksum
<1>3. 0 \in Word /\ 1 \in Word /\ 2 \in Word /\ KILLR \in Word
  <2>1. PICK q \in Nat \ {0} : Wide(4) = 4 * q BY Widths
  <2>2. Wide(4) - 1 \in Nat /\ Wide(4) - 1 >= 3 BY <2>1
  <2> QED BY <2>2 DEF Word, KILLR
<1>4. STD_FRAME1 \in Word BY <1>3, FramePointer DEF STD_FRAME1
<1>5. Printed(0) \in [from : Word, count : Nat]
  BY <1>3, DumpAssumption, AlignedDown DEF Printed
<1>6. ConsoleTypeOK
  BY <1>3, <1>4, <1>5, FramesStart, InputAssumption DEF ConsoleInit, ConsoleTypeOK, Memories
<1> QED BY <1>2, <1>6 DEF ConsoleIInv

\* Where a dump stops is what follows the block it shows.
LEMMA DumpStops ==
  ASSUME NEW a \in Word
  PROVE  /\ dump_block(a) \in Word /\ Printed(a) \in [from : Word, count : Nat]
         /\ AlignDown(dump_block(a)) = Plus(Printed(a).from, 4 * Printed(a).count)
<1> USE DumpAssumption
<1>1. PICK k \in Nat : k = 4 * DumpWords OBVIOUS
<1>2. AlignDown(a) \in Word /\ Aligned(AlignDown(a), 4) /\ (Aligned(a, 4) => AlignDown(a) = a)
  BY AlignedDown
<1>3. CASE Aligned(a, 4)
  <2>1. dump_block(a) = Plus(a, k) /\ Printed(a) = [from |-> a, count |-> DumpWords]
    BY <1>1, <1>2, <1>3 DEF dump_block, Printed
  <2>2. Plus(a, k) \in Word BY Onward
  <2>3. Aligned(Plus(a, 4 * DumpWords), 4) BY <1>3, Onward
  <2>4. AlignDown(Plus(a, k)) = Plus(a, k) BY <1>1, <2>2, <2>3, AlignedDown
  <2> QED BY <1>1, <2>1, <2>2, <2>4
<1>4. CASE ~Aligned(a, 4)
  <2>1. dump_block(a) = AlignDown(a) /\ Printed(a) = [from |-> AlignDown(a), count |-> 0]
    BY <1>4 DEF dump_block, Printed
  <2>2. AlignDown(AlignDown(a)) = AlignDown(a) BY <1>2, AlignedDown
  <2>3. Plus(AlignDown(a), 0) = AlignDown(a) BY <1>2, Onward
  <2>4. 4 * 0 = 0 OBVIOUS
  <2> QED BY <1>2, <2>1, <2>2, <2>3, <2>4
<1> QED BY <1>3, <1>4

\* A return after a dump keeps it.
LEMMA ContinueDumpHolds ==
  ConsoleIInv /\ ContinueDump => ConsoleIInv'
<1> SUFFICES ASSUME ConsoleIInv, ContinueDump PROVE ConsoleIInv' OBVIOUS
<1> USE DEF ConsoleIInv
<1>0. stash_address \in Word BY DEF ConsoleTypeOK
<1>1. /\ stash_address' = dump_block(stash_address) /\ shown' = Printed(stash_address)
      /\ bcs = NULL /\ last_bcs.cmd = "DUMP" /\ bcs' = bcs /\ last_bcs' = last_bcs
      /\ UNCHANGED <<mem, last_result, p, words, xor, moved, color, back, sw_frame, GP_FRAME, PF_FRAME,
                     GP_GCODE, want, given>>
  BY DEF ContinueDump, Untouched, settings
<1>2. DumpEnds' /\ dump_block(stash_address) \in Word /\ Printed(stash_address) \in [from : Word, count : Nat]
  BY <1>0, <1>1, DumpStops DEF DumpEnds
<1>3. ConsoleTypeOK'
  BY <1>1, <1>2 DEF ConsoleTypeOK
<1>4. NULL.cmd = "NULL" BY DEF NULL
<1>5. ArgumentsInOrder' /\ FileProgress' /\ Checksum'
  BY <1>1, <1>4 DEF ArgumentsInOrder, FileProgress, Checksum
<1> QED BY <1>2, <1>3, <1>5

\* A token gives an entry of the table or the unknown command.
LEMMA TokensKnown ==
  ASSUME NEW input
  PROVE  token_cmdspec(input) \in Commanded
BY DEF token_cmdspec, Commanded

\* The commands done without arguments neither transfer nor dump.
LEMMA NoneWanted ==
  ASSUME NEW e, e.cmd = "STORE" => e.flags \in {1, 2, 4}, <<>> \in Arguments(e)
  PROVE  e.cmd \notin {"FILE", "COPY", "DUMP"}
<1>1. PICK kinds \in Arguments(e) : kinds = <<>> OBVIOUS
<1>2. Len(kinds) = 0 BY <1>1
<1>3. /\ e.cmd = "FILE" => Len(kinds) = 2
      /\ e.cmd = "COPY" => Len(kinds) = 3
      /\ e.cmd \in {"JAL", "LOAD", "DUMP", "GCODE", "FRAME"} => Len(kinds) = 1
  BY ArgumentKinds
<1> QED BY <1>2, <1>3

\* Reading a command keeps the invariant.
LEMMA ReadCommandHolds ==
  ASSUME NEW input
  PROVE  ConsoleIInv /\ ReadCommand(input) => ConsoleIInv'
<1> SUFFICES ASSUME ConsoleIInv, ReadCommand(input) PROVE ConsoleIInv' OBVIOUS
<1>1. PICK e : e = token_cmdspec(input) OBVIOUS
<1>2. e \in Commanded BY <1>1, TokensKnown
<1>3. e # NULL /\ (e.cmd = "STORE" => e.flags \in {1, 2, 4}) BY <1>2, TableFacts
<1>4. /\ UNCHANGED <<mem, stash_address, last_result, p, words, xor, shown, color, back, sw_frame,
                     GP_FRAME, PF_FRAME, GP_GCODE>>
      /\ moved' = [to |-> 0, count |-> 0]
  BY DEF ReadCommand, Settled
<1>5. PICK kinds \in Arguments(e) :
        IF kinds = <<>> THEN Done(e) ELSE bcs' = e /\ want' = kinds /\ given' = <<>> /\ last_bcs' = last_bcs
  BY <1>1 DEF ReadCommand
<1>6. bcs' \in Commanded \cup {NULL} /\ last_bcs' \in Commanded \cup {NULL} /\ given' = <<>>
  BY <1>2, <1>5 DEF Done, ConsoleIInv, ConsoleTypeOK
<1>7. ConsoleTypeOK'
  <2>1. <<>> \in Seq(Word) OBVIOUS
  <2> QED BY <1>4, <1>6, <2>1, InWord DEF ConsoleIInv, ConsoleTypeOK
<1>8. CASE kinds = <<>>
  <2>1. e.cmd \notin {"FILE", "COPY", "DUMP"} BY <1>8, <1>3, NoneWanted
  <2>2. bcs' = NULL /\ last_bcs' = e /\ want' = <<>> BY <1>5, <1>8 DEF Done
  <2>3. NULL.cmd = "NULL" BY DEF NULL
  <2> QED BY <2>1, <2>2, <2>3, <1>6, <1>7
       DEF ConsoleIInv, ArgumentsInOrder, FileProgress, DumpEnds, Checksum
<1>9. CASE kinds # <<>>
  <2>1. bcs' = e /\ want' = kinds /\ given' = <<>> BY <1>5, <1>9
  <2>2. kinds \in Seq(Kinds) BY <1>3, ArgumentKinds
  <2>3. ArgumentsInOrder'
    <3>1. Len(<<>>) + Len(kinds) = Len(kinds) /\ \A i \in 1..Len(kinds) : kinds[i] = kinds[Len(<<>>) + i]
      BY <2>2
    <3> QED BY <2>1, <2>2, <3>1, <1>3, <1>9 DEF ArgumentsInOrder, Kinds
  <2> QED BY <2>1, <2>3, <1>3, <1>7, <1>9 DEF ConsoleIInv, FileProgress, DumpEnds, Checksum
<1> QED BY <1>8, <1>9

\* Reading an argument, in the terms above.
LEMMA ArgumentRead ==
  ASSUME NEW t, ReadArgument(t)
  PROVE  /\ want # <<>> /\ commands' = commands
         /\ IF Len(want) = 1 THEN Execute(Given(t), Stashed(t))
            ELSE /\ want' = Tail(want) /\ given' = Given(t) /\ stash_address' = Stashed(t)
                 /\ UNCHANGED <<results, settings, bcs, last_bcs>>
BY DEF ReadArgument, Given, Stashed, Value

\* An argument before the last keeps it.
LEMMA OneOfMore ==
  ASSUME ConsoleIInv, NEW t \in Typed, ReadArgument(t), Len(want) # 1
  PROVE  ConsoleIInv'
<1>0. ConsoleTypeOK /\ ArgumentsInOrder BY DEF ConsoleIInv
<1>1. /\ want # <<>> /\ want' = Tail(want) /\ given' = Given(t) /\ stash_address' = Stashed(t)
      /\ UNCHANGED <<results, settings, bcs, last_bcs>>
  BY ArgumentRead
<1>2. /\ bcs # NULL /\ bcs \in Commanded
      /\ Given(t) \in Seq(Word) /\ Len(Given(t)) = Len(given) + 1
      /\ Stashed(t) \in Word
  BY <1>0, <1>1, GivenOne
<1>3. ConsoleTypeOK'
  BY <1>0, <1>1, <1>2 DEF ConsoleTypeOK, results, settings
<1>4. PICK kinds \in Arguments(bcs) :
        /\ Len(given) + Len(want) = Len(kinds)
        /\ \A i \in 1..Len(want) : want[i] = kinds[Len(given) + i]
  BY <1>0, <1>2 DEF ArgumentsInOrder
<1>5. want \in Seq(Kinds) /\ given \in Seq(Word)
  BY <1>0, <1>2 DEF ArgumentsInOrder, ConsoleTypeOK, Kinds
<1>6. /\ want' \in Seq(Kinds) /\ Len(want') = Len(want) - 1 /\ want' # <<>>
      /\ \A i \in 1..Len(want') : want'[i] = want[i + 1]
  <2>1. Len(want) \in Nat /\ Len(want) # 0 BY <1>1, <1>5, EmptySeq
  <2>2. /\ Tail(want) \in Seq(Kinds) /\ Len(Tail(want)) = Len(want) - 1
        /\ \A i \in 1..Len(Tail(want)) : Tail(want)[i] = want[i + 1]
    BY <1>1, <1>5, HeadTailProperties
  <2>3. Len(<<>>) = 0 OBVIOUS
  <2>4. PICK u : u = Tail(want) OBVIOUS
  <2>5. Len(u) >= 1 BY <2>1, <2>2, <2>4
  <2>6. u # <<>> BY <2>3, <2>5
  <2> QED BY <2>2, <2>4, <2>6, <1>1
<1>7. PICK n \in Nat, l \in Nat : n = Len(given) /\ l = Len(want') BY <1>5, <1>6
<1>8. Len(given') = n + 1 /\ Len(want) = l + 1 BY <1>1, <1>2, <1>5, <1>6, <1>7
<1>9. /\ Len(given') + Len(want') = Len(kinds)
      /\ \A i \in 1..Len(want') : want'[i] = kinds[Len(given') + i]
  <2>1. (n + 1) + l = Len(kinds) BY <1>4, <1>7, <1>8
  <2>2. ASSUME NEW i \in 1..l PROVE want'[i] = kinds[(n + 1) + i]
    <3>1. i + 1 \in 1..(l + 1) /\ n + (i + 1) = (n + 1) + i OBVIOUS
    <3>2. want[i + 1] = kinds[n + (i + 1)] BY <3>1, <1>4, <1>7, <1>8
    <3> QED BY <3>1, <3>2, <1>6, <1>7
  <2> QED BY <2>1, <2>2, <1>7, <1>8
<1>10. ArgumentsInOrder'
  BY <1>1, <1>2, <1>4, <1>6, <1>9 DEF ArgumentsInOrder, Kinds
<1> QED BY <1>1, <1>2, <1>3, <1>6, <1>10 DEF ConsoleIInv, FileProgress, DumpEnds, Checksum

\* What every command's last argument leaves behind when the command is over.
LEMMA CommandOver ==
  ASSUME ConsoleTypeOK', Done(bcs), bcs # NULL,
         bcs.cmd = "DUMP" => AlignDown(stash_address') = Plus(shown'.from, 4 * shown'.count),
         bcs.cmd \in {"FILE", "COPY"} => last_result' = Sum(mem', moved'.to, moved'.count)
  PROVE  ConsoleIInv'
<1>1. bcs' = NULL /\ last_bcs' = bcs /\ want' = <<>> /\ given' = <<>> BY DEF Done
<1>2. NULL.cmd = "NULL" BY DEF NULL
<1> QED BY <1>1, <1>2 DEF ConsoleIInv, ArgumentsInOrder, FileProgress, DumpEnds, Checksum

\* A file starts with nothing stored and a sum of 0.
LEMMA StartFileHolds ==
  ASSUME ConsoleIInv, bcs # NULL, bcs.cmd = "FILE", want # <<>>, NEW a \in Seq(Word), Len(a) = 2,
         stash_address' \in Word, StartFile(a)
  PROVE  ConsoleIInv'
<1> DEFINE to == IF want = <<Address>> THEN a[2] ELSE a[1]
           bytes == IF want = <<Address>> THEN a[1] ELSE a[2]
           count == bytes \div 4
<1>1. to \in Word /\ bytes \in Word
  <2>1. 1 \in 1..Len(a) /\ 2 \in 1..Len(a) OBVIOUS
  <2>2. a[1] \in Word /\ a[2] \in Word BY <2>1, ElementOfSeq
  <2> QED BY <2>2
<1>2. /\ p' = AlignDown(to) /\ words' = count /\ xor' = 0
      /\ moved' = [to |-> AlignDown(to), count |-> count]
      /\ IF count = 0 THEN last_result' = 0 /\ Done(bcs)
         ELSE want' = <<>> /\ given' = <<to, bytes>> /\ UNCHANGED <<last_result, bcs, last_bcs>>
      /\ UNCHANGED <<mem, shown, settings>>
  BY DEF StartFile
<1>3. AlignDown(to) \in Word BY <1>1, AlignedDown
<1>4. count \in Word
  <2> HIDE DEF bytes
  <2>1. bytes \in Nat BY <1>1, InWord
  <2>2. bytes \div 4 \in Nat /\ bytes \div 4 <= bytes BY <2>1
  <2> QED BY <2>2, <1>1, InWord
<1> HIDE DEF to, bytes
<1>5. last_result' \in Word /\ bcs' \in Commanded \cup {NULL} /\ last_bcs' \in Commanded \cup {NULL}
      /\ given' \in Seq(Word)
  <2>1. CASE count = 0
    <3>1. <<>> \in Seq(Word) OBVIOUS
    <3> QED BY <3>1, <2>1, <1>2, InWord DEF Done, ConsoleIInv, ConsoleTypeOK
  <2>2. CASE count # 0
    <3>1. <<to, bytes>> \in Seq(Word) BY <1>1
    <3> QED BY <3>1, <2>2, <1>2 DEF ConsoleIInv, ConsoleTypeOK
  <2> QED BY <2>1, <2>2
<1>6. mem \in Memories BY DEF ConsoleIInv, ConsoleTypeOK
<1> HIDE DEF count
<1>7. ConsoleTypeOK'
  BY <1>2, <1>3, <1>4, <1>5, InWord DEF ConsoleIInv, ConsoleTypeOK, settings
<1>8. Sum(mem', AlignDown(to), 0) = 0 BY <1>2, <1>3, <1>6, Summing
<1>9. CASE count = 0
  BY <1>2, <1>7, <1>8, <1>9, CommandOver
<1>10. CASE count # 0
  <2>1. want' = <<>> /\ given' = <<to, bytes>> /\ bcs' = bcs /\ mem' = mem BY <1>2, <1>10
  <2>2. count \in Nat \ {0} /\ moved'.count = count /\ moved'.to = AlignDown(to) BY <1>2, <1>4, <1>10, InWord
  <2>3. FileProgress'
    <3>1. count - count = 0 /\ 4 * 0 = 0 /\ count \in 1..count BY <2>2
    <3>2. Plus(AlignDown(to), 0) = AlignDown(to) BY <1>3, Onward
    <3>3. given'[1] = to /\ given'[2] \div 4 = count BY <2>1 DEF count
    <3> QED BY <3>1, <3>2, <3>3, <1>2, <1>8, <2>2 DEF FileProgress
  <2>4. ArgumentsInOrder'
    <3>1. PICK kinds \in Arguments(bcs) : TRUE
      BY DEF ConsoleIInv, ArgumentsInOrder
    <3>2. Len(kinds) = 2 BY ArgumentKinds
    <3>3. Len(given') = 2 /\ Len(want') = 0 /\ want' \in Seq({Address, 1, 2, 4}) BY <2>1
    <3>4. Len(given') + Len(want') = Len(kinds) /\ \A i \in 1..Len(want') : want'[i] = kinds[Len(given') + i]
      BY <3>2, <3>3
    <3> QED BY <2>1, <3>1, <3>3, <3>4 DEF ArgumentsInOrder
  <2> QED BY <1>7, <2>1, <2>3, <2>4 DEF ConsoleIInv, DumpEnds, Checksum
<1> QED BY <1>9, <1>10

\* The last argument of a copy: the loop's result is the sum of what it left.
LEMMA CopyHolds ==
  ASSUME ConsoleTypeOK, bcs # NULL, bcs.cmd = "COPY", NEW a \in Seq(Word), Len(a) = 3,
         stash_address' \in Word, Copy(a), Done(bcs)
  PROVE  /\ ConsoleIInv'
         /\ \A x \in Word : mem'[x] # mem[x] => a[2] # 0 /\ x \in Region(a[2], 4 * moved'.count)
<1>1. PICK src \in Word, dst \in Word, bytes \in Word : src = a[1] /\ dst = a[2] /\ bytes = a[3]
  <2>1. 1 \in 1..Len(a) /\ 2 \in 1..Len(a) /\ 3 \in 1..Len(a) OBVIOUS
  <2>2. a[1] \in Word /\ a[2] \in Word /\ a[3] \in Word BY <2>1, ElementOfSeq
  <2> QED BY <2>2
<1>2. PICK aligned : aligned = (\A n \in {src, bytes, dst} : Aligned(n, 4)) OBVIOUS
<1>3. PICK to, c : /\ to = IF dst = 0 THEN src ELSE dst
                   /\ c = IF aligned THEN bytes \div 4 ELSE 0
  OBVIOUS
<1>4. PICK e : e = IF aligned THEN copied(src, dst, bytes \div 4, mem) ELSE [m |-> mem, xor |-> 0]
  OBVIOUS
<1>5. e = copy_xor(src, bytes, dst, mem) BY <1>2, <1>4 DEF copy_xor
<1>6. {a[1], a[2], a[3]} = {src, bytes, dst} BY <1>1
<1>7. /\ mem' = e.m /\ last_result' = e.xor /\ moved' = [to |-> to, count |-> c]
      /\ UNCHANGED <<p, words, xor, shown, settings>>
  BY <1>1, <1>2, <1>3, <1>5, <1>6 DEF Copy
<1>8. bytes \div 4 \in Nat /\ 4 * (bytes \div 4) <= bytes /\ bytes \in Nat /\ bytes < Wide(4)
  <2>1. bytes \in Nat BY InWord
  <2>2. bytes \div 4 \in Nat /\ 4 * (bytes \div 4) <= bytes BY <2>1
  <2>3. bytes < Wide(4) BY Widths DEF Word
  <2> QED BY <2>1, <2>2, <2>3
<1>9. c \in Word /\ to \in Word
  BY <1>3, <1>8, InWord
<1>10. mem \in Memories BY DEF ConsoleTypeOK
<1>11. /\ e.m \in Memories /\ e.xor \in Word
       /\ e.xor = Sum(e.m, to, c)
       /\ \A x \in Word : e.m[x] # mem[x] => dst # 0 /\ x \in Region(dst, 4 * c)
  <2>1. CASE aligned
    <3>1. c = bytes \div 4 /\ e = copied(src, dst, c, mem) /\ Aligned(dst, 4) BY <2>1, <1>2, <1>3, <1>4
    <3>2. c \in Nat /\ 4 * c <= Wide(4) BY <3>1, <1>8, Widths
    <3>3. /\ e \in CopyStates
          /\ e.xor = Sum(e.m, IF dst = 0 THEN src ELSE dst, c)
          /\ \A x \in Word : e.m[x] # mem[x] => dst # 0 /\ x \in Region(dst, 4 * c)
      BY <3>1, <3>2, <1>10, CopyDone
    <3> QED BY <3>3, <1>3 DEF CopyStates
  <2>2. CASE ~aligned
    <3>1. e.m = mem /\ e.xor = 0 /\ c = 0 BY <2>2, <1>3, <1>4
    <3> QED BY <3>1, <1>9, <1>10, InWord, Summing
  <2> QED BY <2>1, <2>2
<1>12. last_result' = Sum(mem', moved'.to, moved'.count) BY <1>7, <1>11
<1>13. ConsoleTypeOK'
  <2>1. moved' \in [to : Word, count : Word] BY <1>7, <1>9
  <2>2. mem' \in Memories /\ last_result' \in Word BY <1>7, <1>11
  <2>3. bcs' \in Commanded \cup {NULL} /\ last_bcs' \in Commanded \cup {NULL} /\ given' \in Seq(Word)
    <3>1. <<>> \in Seq(Word) OBVIOUS
    <3> QED BY <3>1 DEF Done, ConsoleTypeOK
  <2> QED BY <1>7, <2>1, <2>2, <2>3 DEF ConsoleTypeOK, settings
<1>14. ConsoleIInv' BY <1>12, <1>13, CommandOver
<1>15. moved'.count = c BY <1>7
<1> QED BY <1>1, <1>7, <1>11, <1>14, <1>15

\* A store writes its region only.
LEMMA StoreHolds ==
  ASSUME ConsoleTypeOK, bcs # NULL, bcs.cmd = "STORE", bcs.flags \in {1, 2, 4},
         NEW a \in Seq(Word), Len(a) = 2, stash_address' \in Word, StoreValue(a), Done(bcs)
  PROVE  /\ ConsoleIInv'
         /\ \A x \in Word : mem'[x] # mem[x] => x \in Region(a[2], bcs.flags)
<1>1. PICK v \in Word, to \in Word : v = a[1] /\ to = a[2]
  <2>1. 1 \in 1..Len(a) /\ 2 \in 1..Len(a) OBVIOUS
  <2>2. a[1] \in Word /\ a[2] \in Word BY <2>1, ElementOfSeq
  <2> QED BY <2>2
<1>2. mem' = Store(mem, to, bcs.flags, v) /\ UNCHANGED <<last_result, p, words, xor, shown, moved, settings>>
  BY <1>1 DEF StoreValue
<1>3. mem \in Memories BY DEF ConsoleTypeOK
<1>4. mem' \in Memories BY <1>2, <1>3, StoreKeepsType
<1>5. bcs' \in Commanded \cup {NULL} /\ last_bcs' \in Commanded \cup {NULL} /\ given' \in Seq(Word)
  <2>1. <<>> \in Seq(Word) OBVIOUS
  <2> QED BY <2>1 DEF Done, ConsoleTypeOK
<1>6. ConsoleTypeOK' BY <1>2, <1>4, <1>5 DEF ConsoleTypeOK, settings
<1>7. ConsoleIInv' BY <1>6, CommandOver
<1>8. ASSUME NEW x \in Word, mem'[x] # mem[x] PROVE x \in Region(to, bcs.flags)
  BY <1>8, <1>2, <1>3, StoreWithin
<1> QED BY <1>1, <1>7, <1>8

\* The commands that change settings, draw or print; they leave memory alone.
LEMMA OthersHold ==
  ASSUME ConsoleTypeOK, bcs # NULL, NEW a \in Seq(Word), a # <<>>, stash_address' \in Word, Done(bcs),
         \/ bcs.cmd = "DUMP" /\ Dump(a) /\ stash_address' = dump_block(a[1])
         \/ bcs.cmd = "FRAME" /\ SetFrame(a)
         \/ bcs.cmd \in {"COLOR", "BACK"} /\ SetColor(a)
         \/ bcs.cmd \in {"LINE", "ELIP", "RECT"} /\ Draw(a)
         \/ bcs.cmd \in {"JAL", "LOAD", "GCODE"} /\ LoadOrCall(a)
  PROVE  ConsoleIInv' /\ mem' = mem
<1>1. a[1] \in Word
  <2>1. Len(a) \in Nat \ {0} BY EmptySeq
  <2>2. 1 \in 1..Len(a) BY <2>1
  <2> QED BY <2>2, ElementOfSeq
<1>2. bcs' \in Commanded \cup {NULL} /\ last_bcs' \in Commanded \cup {NULL} /\ given' \in Seq(Word)
  <2>1. <<>> \in Seq(Word) OBVIOUS
  <2> QED BY <2>1 DEF Done, ConsoleTypeOK
<1>3. FRAME_PTR(a[1]) \in Word BY <1>1, FramePointer
<1>4. Printed(a[1]) \in [from : Word, count : Nat]
      /\ AlignDown(dump_block(a[1])) = Plus(Printed(a[1]).from, 4 * Printed(a[1]).count)
  BY <1>1, DumpStops
<1>5. Chosen(color, a[1]) \in [Engines -> Word] /\ Chosen(back, a[1]) \in [Engines -> Word]
  BY <1>1 DEF Chosen, ConsoleTypeOK
<1>6. ConsoleTypeOK' /\ mem' = mem
  <2>1. CASE bcs.cmd = "DUMP" /\ Dump(a)
    BY <2>1, <1>2, <1>4 DEF ConsoleTypeOK, Dump, settings
  <2>2. CASE SetFrame(a)
    BY <2>2, <1>1, <1>2, <1>3 DEF ConsoleTypeOK, SetFrame, results
  <2>3. CASE SetColor(a)
    BY <2>3, <1>2, <1>5 DEF ConsoleTypeOK, SetColor, results
  <2>4. CASE Draw(a)
    BY <2>4, <1>2 DEF ConsoleTypeOK, Draw, results
  <2>5. CASE LoadOrCall(a)
    BY <2>5, <1>1, <1>2 DEF ConsoleTypeOK, LoadOrCall, results
  <2> QED BY <2>1, <2>2, <2>3, <2>4, <2>5
<1>7. bcs.cmd \notin {"FILE", "COPY"} OBVIOUS
<1>8. bcs.cmd = "DUMP" => AlignDown(stash_address') = Plus(shown'.from, 4 * shown'.count)
  BY <1>4 DEF Dump
<1> QED BY <1>6, <1>7, <1>8, CommandOver

\* What a command's arguments may write, as WritesWhereTold says.
Told(x) ==
  \/ bcs.cmd = "STORE" /\ x \in Region(stash_address', bcs.flags)
  \/ bcs.cmd = "COPY" /\ given[2] # 0 /\ x \in Region(given[2], 4 * moved'.count)
  \/ bcs.cmd = "FILE" /\ x \in Region(AlignDown(given[1]), given[2])

OnlyTold == \A x \in Word : mem'[x] # mem[x] => Told(x)

\* The last argument, with the command it completes, keeps the invariant and
\* writes where the arguments say.
LEMMA LastArgument ==
  ASSUME ConsoleIInv, NEW t \in Typed, ReadArgument(t), Len(want) = 1
  PROVE  ConsoleIInv' /\ OnlyTold
<1>0. ConsoleTypeOK /\ ArgumentsInOrder BY DEF ConsoleIInv
<1>1. want # <<>> /\ Execute(Given(t), Stashed(t)) BY ArgumentRead
<1>2. /\ bcs # NULL /\ bcs \in Commanded
      /\ Given(t) \in Seq(Word) /\ Len(Given(t)) = Len(given) + 1
      /\ \A i \in 1..Len(given) : Given(t)[i] = given[i]
      /\ Stashed(t) \in Word
      /\ Head(want) = Address => Given(t)[Len(given) + 1] = Stashed(t)
  BY <1>0, <1>1, GivenOne
<1>3. PICK a \in Seq(Word) : a = Given(t) BY <1>2
<1>4. /\ bcs.cmd = "FILE" => Len(given) = 1
      /\ bcs.cmd = "STORE" => Len(given) = 1 /\ bcs.flags \in {1, 2, 4} /\ Head(want) = Address
      /\ bcs.cmd \in {"JAL", "LOAD", "DUMP", "GCODE", "FRAME"} => Len(given) = 0 /\ Head(want) = Address
      /\ bcs.cmd \in {"BACK", "COLOR"} => Len(given) = 0
      /\ bcs.cmd = "COPY" => Len(given) = 2
      /\ bcs.cmd \in {"LINE", "ELIP", "RECT"} => Len(given) = 3
  BY <1>0, <1>1, GivenAll
<1>5. PICK n \in Nat : n = Len(given) /\ Len(a) = n + 1 BY <1>0, <1>2, <1>3 DEF ConsoleTypeOK
<1>6. /\ bcs.cmd = "FILE" => Len(a) = 2
      /\ bcs.cmd = "STORE" => n = 1 /\ Len(a) = 2 /\ bcs.flags \in {1, 2, 4} /\ Head(want) = Address
      /\ bcs.cmd = "COPY" => n = 2 /\ Len(a) = 3
  <2>1. 1 + 1 = 2 /\ 2 + 1 = 3 OBVIOUS
  <2> QED BY <2>1, <1>4, <1>5, Zenon
<1>7. a # <<>>
  <2>1. Len(<<>>) = 0 OBVIOUS
  <2> QED BY <2>1, <1>5
<1>8. stash_address' = IF bcs.cmd = "DUMP" THEN dump_block(a[1]) ELSE Stashed(t)
  BY <1>1, <1>3 DEF Execute
<1>9. a[1] \in Word
  <2>1. 1 \in 1..Len(a) BY <1>5
  <2> QED BY <2>1, ElementOfSeq
<1>10. stash_address' \in Word BY <1>2, <1>8, <1>9, DumpStops
<1>11. CASE bcs.cmd = "FILE" /\ StartFile(a)
  <2>1. Len(a) = 2 BY <1>6, <1>11
  <2>2. mem' = mem BY <1>11 DEF StartFile
  <2> QED BY <2>1, <2>2, <1>1, <1>2, <1>10, <1>11, StartFileHolds DEF OnlyTold
<1>12. CASE Done(bcs) /\ bcs.cmd = "STORE" /\ StoreValue(a)
  <2>1. n = 1 /\ Len(a) = 2 /\ bcs.flags \in {1, 2, 4} /\ Head(want) = Address BY <1>6, <1>12
  <2>2. a[2] = stash_address'
    <3>1. 1 + 1 = 2 OBVIOUS
    <3>2. a[2] = Stashed(t) BY <2>1, <3>1, <1>2, <1>3, <1>5, Zenon
    <3> QED BY <3>2, <1>8, <1>12
  <2>3. ConsoleIInv' /\ \A x \in Word : mem'[x] # mem[x] => x \in Region(a[2], bcs.flags)
    BY <2>1, <1>0, <1>2, <1>10, <1>12, StoreHolds
  <2> QED BY <2>2, <2>3, <1>12 DEF OnlyTold, Told
<1>13. CASE Done(bcs) /\ bcs.cmd = "COPY" /\ Copy(a)
  <2>1. Len(a) = 3 /\ n = 2 BY <1>6, <1>13
  <2>2. a[2] = given[2]
    <3>1. 2 \in 1..Len(given) BY <2>1, <1>5
    <3> QED BY <3>1, <1>2, <1>3
  <2>3. /\ ConsoleIInv'
        /\ \A x \in Word : mem'[x] # mem[x] => a[2] # 0 /\ x \in Region(a[2], 4 * moved'.count)
    BY <2>1, <1>0, <1>2, <1>10, <1>13, CopyHolds
  <2> QED BY <2>2, <2>3, <1>13 DEF OnlyTold, Told
<1>14. CASE /\ Done(bcs)
            /\ \/ bcs.cmd = "DUMP" /\ Dump(a) /\ stash_address' = dump_block(a[1])
               \/ bcs.cmd = "FRAME" /\ SetFrame(a)
               \/ bcs.cmd \in {"COLOR", "BACK"} /\ SetColor(a)
               \/ bcs.cmd \in {"LINE", "ELIP", "RECT"} /\ Draw(a)
               \/ bcs.cmd \in {"JAL", "LOAD", "GCODE"} /\ LoadOrCall(a)
  <2>1. ConsoleIInv' /\ mem' = mem BY <1>0, <1>2, <1>7, <1>10, <1>14, OthersHold
  <2> QED BY <2>1 DEF OnlyTold
<1> QED BY <1>1, <1>3, <1>8, <1>11, <1>12, <1>13, <1>14 DEF Execute

\* So does a word of a file.
LEMMA ReadWordHolds ==
  ASSUME ConsoleIInv, NEW v \in Numbers, ReadWord(v)
  PROVE  ConsoleIInv' /\ OnlyTold
<1>0. ConsoleTypeOK /\ ArgumentsInOrder /\ FileProgress /\ v \in Word
  BY InputAssumption DEF ConsoleIInv
<1>1. bcs.cmd = "FILE" /\ want = <<>> BY DEF ReadWord
<1>2. bcs # NULL /\ bcs \in Commanded
  <2>1. NULL.cmd = "NULL" BY DEF NULL
  <2> QED BY <2>1, <1>0, <1>1 DEF ConsoleTypeOK
<1>3. PICK kinds \in Arguments(bcs) : Len(given) + Len(want) = Len(kinds)
  BY <1>0, <1>2 DEF ArgumentsInOrder
<1>4. given \in Seq(Word) /\ Len(given) = 2
  <2>1. Len(kinds) = 2 BY <1>1, ArgumentKinds
  <2>2. given \in Seq(Word) /\ Len(given) \in Nat /\ Len(want) = 0 BY <1>0, <1>1 DEF ConsoleTypeOK
  <2> QED BY <2>1, <2>2, <1>3
<1>5. PICK to \in Word, bytes \in Word : to = given[1] /\ bytes = given[2]
  <2>1. 1 \in 1..Len(given) /\ 2 \in 1..Len(given) BY <1>4
  <2> QED BY <2>1, <1>4, ElementOfSeq
<1>6. PICK from \in Word : from = AlignDown(to) /\ Aligned(from, 4) BY AlignedDown
<1>7. bytes \div 4 \in Nat /\ 4 * (bytes \div 4) <= bytes /\ bytes \in Nat /\ bytes < Wide(4)
  <2>1. bytes \in Nat BY InWord
  <2>2. bytes \div 4 \in Nat /\ 4 * (bytes \div 4) <= bytes BY <2>1
  <2>3. bytes < Wide(4) BY Widths DEF Word
  <2> QED BY <2>1, <2>2, <2>3
<1>8. PICK n \in Nat : n = bytes \div 4 BY <1>7
<1>9. /\ moved = [to |-> from, count |-> n] /\ words \in 1..n
      /\ p = Plus(from, 4 * (n - words)) /\ xor = Sum(mem, from, n - words)
  BY <1>0, <1>1, <1>5, <1>6, <1>8 DEF FileProgress
<1>10. PICK c \in Nat : c = n - words /\ 4 * (c + 1) <= 4 * n BY <1>9
<1>11. 4 * (c + 1) <= Wide(4) /\ 4 * (c + 1) <= bytes BY <1>7, <1>8, <1>10, Widths
<1>12. /\ mem' = Store(mem, Plus(from, 4 * c), 4, v) /\ p' = Plus(p, 4) /\ words' = words - 1
       /\ xor' = ExclusiveOr(xor, v)
       /\ IF words = 1 THEN last_result' = ExclusiveOr(xor, v) /\ Done(bcs)
          ELSE UNCHANGED <<last_result, bcs, last_bcs, want, given>>
       /\ UNCHANGED <<stash_address, shown, moved, settings, commands>>
  BY <1>9, <1>10 DEF ReadWord
<1>13. mem \in Memories BY <1>0 DEF ConsoleTypeOK
<1>14. /\ mem' \in Memories
       /\ Sum(mem', from, c + 1) = ExclusiveOr(Sum(mem, from, c), v)
       /\ \A x \in Word : mem'[x] # mem[x] => x \in Region(from, 4 * (c + 1))
  BY <1>6, <1>11, <1>12, <1>13, <1>0, StoreOneMore
<1>15. OnlyTold
  <2>1. 4 * (c + 1) \in Nat BY <1>10
  <2>2. Region(from, 4 * (c + 1)) \subseteq Region(from, bytes) BY <2>1, <1>7, <1>11, RegionGrows
  <2> QED BY <2>2, <1>1, <1>5, <1>6, <1>14 DEF OnlyTold, Told
<1>16. xor' = Sum(mem', from, c + 1) /\ xor' \in Word
  BY <1>0, <1>9, <1>10, <1>12, <1>14, XorAssumption DEF ConsoleTypeOK
<1>17. p' = Plus(from, 4 * (c + 1)) /\ p' \in Word
  <2>1. PICK k \in Nat : k = 4 * (c + 1) BY <1>10
  <2>2. Plus(from, k) \in Word BY Onward
  <2>3. Plus(Plus(from, 4 * c), 4) = Plus(from, 4 * (c + 1)) BY <1>10, Onward
  <2> QED BY <2>1, <2>2, <2>3, <1>9, <1>10, <1>12
<1>18. words' \in Word /\ words' \in Nat
  <2>1. words \in Word /\ words \in Nat /\ words - 1 \in Nat BY <1>0, <1>9 DEF ConsoleTypeOK
  <2>2. words - 1 <= words BY <2>1
  <2> QED BY <2>1, <2>2, <1>12, InWord
<1>19. ConsoleTypeOK'
  <2>1. /\ last_result' \in Word /\ bcs' \in Commanded \cup {NULL} /\ last_bcs' \in Commanded \cup {NULL}
        /\ given' \in Seq(Word)
    <3>1. <<>> \in Seq(Word) OBVIOUS
    <3>2. CASE words = 1 BY <3>1, <3>2, <1>0, <1>12, <1>16 DEF Done, ConsoleTypeOK
    <3>3. CASE words # 1 BY <3>3, <1>0, <1>12 DEF ConsoleTypeOK
    <3> QED BY <3>2, <3>3
  <2> QED BY <2>1, <1>0, <1>12, <1>14, <1>16, <1>17, <1>18 DEF ConsoleTypeOK, settings
<1>20. CASE words = 1
  <2>1. c + 1 = n BY <1>10, <1>20
  <2>2. last_result' = Sum(mem', moved'.to, moved'.count) BY <2>1, <1>9, <1>12, <1>16, <1>20
  <2> QED BY <2>2, <1>1, <1>2, <1>12, <1>15, <1>19, <1>20, CommandOver
<1>21. CASE words # 1
  <2>1. UNCHANGED <<last_result, bcs, last_bcs, want, given, moved>> BY <1>12, <1>21
  <2>2. words' \in 1..n /\ n - words' = c + 1 BY <1>9, <1>10, <1>12, <1>21
  <2>3. FileProgress'
    <3>1. moved' = [to |-> AlignDown(given'[1]), count |-> given'[2] \div 4]
      BY <2>1, <1>5, <1>6, <1>8, <1>9
    <3>2. moved'.count = n /\ moved'.to = from BY <2>1, <1>9
    <3> QED BY <3>1, <3>2, <2>2, <1>16, <1>17 DEF FileProgress
  <2>4. ArgumentsInOrder' BY <2>1, <1>0 DEF ArgumentsInOrder
  <2> QED BY <2>1, <2>3, <2>4, <1>2, <1>15, <1>19 DEF ConsoleIInv, DumpEnds, Checksum
<1> QED BY <1>20, <1>21

\* So does every step.
LEMMA ConsoleSteps ==
  ConsoleIInv /\ [ConsoleNext]_consoleVars => ConsoleIInv' /\ OnlyTold
<1> SUFFICES ASSUME ConsoleIInv, [ConsoleNext]_consoleVars PROVE ConsoleIInv' /\ OnlyTold OBVIOUS
<1>1. CASE ContinueDump
  <2>1. mem' = mem BY <1>1 DEF ContinueDump, Untouched
  <2> QED BY <2>1, <1>1, ContinueDumpHolds DEF OnlyTold
<1>2. ASSUME NEW input \in Inputs, ReadCommand(input) PROVE ConsoleIInv' /\ OnlyTold
  <2>1. mem' = mem BY <1>2 DEF ReadCommand, Settled
  <2> QED BY <2>1, <1>2, ReadCommandHolds DEF OnlyTold
<1>3. ASSUME NEW t \in Typed, ReadArgument(t) PROVE ConsoleIInv' /\ OnlyTold
  <2>1. CASE Len(want) = 1 BY <2>1, <1>3, LastArgument
  <2>2. CASE Len(want) # 1
    <3>1. mem' = mem BY <2>2, <1>3, ArgumentRead DEF results
    <3> QED BY <3>1, <2>2, <1>3, OneOfMore DEF OnlyTold
  <2> QED BY <2>1, <2>2
<1>4. ASSUME NEW v \in Numbers, ReadWord(v) PROVE ConsoleIInv' /\ OnlyTold
  BY <1>4, ReadWordHolds
<1>5. CASE UNCHANGED consoleVars
  BY <1>5 DEF consoleVars, results, settings, ConsoleIInv, ConsoleTypeOK, ArgumentsInOrder, FileProgress,
     DumpEnds, Checksum, OnlyTold
<1> QED BY <1>1, <1>2, <1>3, <1>4, <1>5 DEF ConsoleNext

\* The types hold, arguments are read in their order, a file under way has in
\* memory what its sum says, and a dump's address is where its block stopped.
THEOREM ConsoleInvariant == ConsoleSpec => []ConsoleIInv
<1> QED BY ConsoleStarts, ConsoleSteps, PTL DEF ConsoleSpec

\* What "result" prints after a transfer is the exclusive or of the words that
\* the transfer left in memory.
THEOREM ResultIsChecksum == ConsoleSpec => []Checksum
<1>1. ConsoleIInv => Checksum BY DEF ConsoleIInv
<1> QED BY <1>1, ConsoleInvariant, PTL

\* No command changes a byte but those its arguments name.
THEOREM CommandsWriteWhereTold == ConsoleSpec => WritesWhereTold
<1>1. ConsoleIInv /\ [ConsoleNext]_consoleVars =>
        [\A x \in Word : mem'[x] # mem[x] =>
           \/ bcs.cmd = "STORE" /\ x \in Region(stash_address', bcs.flags)
           \/ bcs.cmd = "COPY" /\ given[2] # 0 /\ x \in Region(given[2], 4 * moved'.count)
           \/ bcs.cmd = "FILE" /\ x \in Region(AlignDown(given[1]), given[2])]_consoleVars
  BY ConsoleSteps DEF OnlyTold, Told
<1> QED BY <1>1, ConsoleInvariant, PTL DEF ConsoleSpec, WritesWhereTold

\* A return after a dump goes on where the last block stopped.
THEOREM DumpsGoOn == ConsoleSpec => DumpsContinue
<1>1. ASSUME ConsoleIInv, ContinueDump PROVE shown'.from = Plus(shown.from, 4 * shown.count)
  <2>1. bcs = NULL /\ last_bcs.cmd = "DUMP" /\ shown' = Printed(stash_address) BY <1>1 DEF ContinueDump
  <2>2. shown'.from = AlignDown(stash_address) BY <2>1 DEF Printed
  <2> QED BY <2>1, <2>2, <1>1 DEF ConsoleIInv, DumpEnds
<1>2. ConsoleIInv /\ [ConsoleNext]_consoleVars =>
        [ContinueDump => shown'.from = Plus(shown.from, 4 * shown.count)]_consoleVars
  BY <1>1
<1> QED BY <1>2, ConsoleInvariant, PTL DEF ConsoleSpec, DumpsContinue
-----------------------------------------------------------------------------
(* Numbers and addresses of frames *)

\* The bits above a frame's, its number and the place in it.
LEMMA FrameParts ==
  ASSUME NEW e \in Nat, NEW f \in 0..(FrameNumbers - 1), NEW s \in 0..(FrameBytes - 1),
         NEW w, w = (FrameNumbers * FrameBytes) * e + (FrameBytes * f + s)
  PROVE  /\ w \in Nat /\ w % FrameBytes = s /\ w - s = (FrameNumbers * FrameBytes) * e + FrameBytes * f
         /\ w \div FrameBytes = FrameNumbers * e + f
         /\ FrameField(w) = f /\ TopBits(w) = e
<1>1. PICK F \in Nat \ {0} : F = FrameBytes BY FrameAssumption
<1>2. PICK N \in Nat \ {0} : N = FrameNumbers BY FrameAssumption
<1>3. w = F * (N * e + f) + s
  <2>1. w = (N * F) * e + (F * f + s) BY <1>1, <1>2
  <2> QED BY <2>1, <1>1, <1>2
<1>4. PICK d \in Nat : d = N * e + f BY <1>2
<1>5. w = F * d + s /\ s \in 0..(F - 1) BY <1>1, <1>3, <1>4
<1>6. w \in Nat /\ w \div F = d /\ w % F = s
  <2>1. F * d \in Nat OBVIOUS
  <2>2. w \in Nat BY <1>5, <2>1
  <2>3. (F * d + s) \div F = d /\ (F * d + s) % F = s BY <1>5, QuotientOf, RemainderOf
  <2> QED BY <1>5, <2>2, <2>3, Zenon
<1>7. d % N = f BY <1>2, <1>4, RemainderOf
<1>8. w \div (N * F) = e
  <2>1. PICK r \in Nat : r = F * f + s BY <1>1, <1>2
  <2>2. PICK M \in Nat \ {0} : M = N * F
    <3>1. N * F \in Nat \ {0} OBVIOUS
    <3> QED BY <3>1
  <2>3. r < M
    <3>1. f + 1 <= N /\ f + 1 \in Nat BY <1>2
    <3>2. F * (f + 1) <= F * N BY <3>1
    <3> QED BY <3>2, <2>1, <2>2, <1>1, <1>2
  <2>4. w = M * e + r BY <1>1, <1>2, <2>1, <2>2
  <2> QED BY <2>2, <2>3, <2>4, QuotientOf
<1>9. w - s = F * d BY <1>5
<1>10. F * d = (N * F) * e + F * f BY <1>2, <1>4
<1> QED BY <1>1, <1>2, <1>4, <1>6, <1>7, <1>8, <1>9, <1>10 DEF FrameField, TopBits

\* Every word is made of such parts.
LEMMA PartsOfWord ==
  ASSUME NEW w \in Word
  PROVE  \E e \in Nat, f \in 0..(FrameNumbers - 1), s \in 0..(FrameBytes - 1) :
           w = (FrameNumbers * FrameBytes) * e + (FrameBytes * f + s)
<1>1. PICK F \in Nat \ {0} : F = FrameBytes BY FrameAssumption
<1>2. PICK N \in Nat \ {0} : N = FrameNumbers BY FrameAssumption
<1>3. PICK d \in Nat, s \in 0..(F - 1) : w = F * d + s BY InWord, Quotient
<1>4. PICK e \in Nat, f \in 0..(N - 1) : d = N * e + f BY Quotient
<1>5. w = (N * F) * e + (F * f + s)
  <2>1. w = F * (N * e + f) + s BY <1>3, <1>4
  <2> QED BY <2>1, <1>2
<1> QED BY <1>1, <1>2, <1>5

\* The number of a frame's own address is the frame's.
LEMMA NumberOfAddress ==
  ASSUME NEW f \in 0..(FrameNumbers - 1), NEW a, a = FrameNumbers * FrameBytes + f * FrameBytes
  PROVE  FrameField(a) = f /\ TopBits(a) = 1 /\ frame_number(a) = f /\ FRAME_BITS(a) = f
<1>1. PICK F \in Nat \ {0} : F = FrameBytes BY FrameAssumption
<1>2. PICK N \in Nat \ {0} : N = FrameNumbers BY FrameAssumption
<1>3. a = (FrameNumbers * FrameBytes) * 1 + (FrameBytes * f + 0) BY <1>1, <1>2
<1>4. 0 \in 0..(FrameBytes - 1) /\ 1 \in Nat BY <1>1
<1>5. FrameField(a) = f /\ TopBits(a) = 1 BY <1>3, <1>4, FrameParts
<1> QED BY <1>5 DEF frame_number, FRAME_BITS

\* One number or address, and the pointer the drawing is given for it.
LEMMA FramesOf ==
  ASSUME NEW w \in Word, NEW q, q = FRAME_PTR(w)
  PROVE  /\ (FRAME_BITS(w) = FrameField(q) /\ FRAME_BITS(q) = FrameField(q))
              <=> (TopBits(w) # 0 \/ FrameField(w) = 0)
         /\ vizard_frame_index(w) # Refused =>
              /\ vizard_frame_index(w) = FrameField(q)
              /\ FRAME_BITS(q) = FrameField(q) => frame_number(frame_address(q)) = vizard_frame_index(w)
<1>1. PICK F \in Nat \ {0} : F = FrameBytes BY FrameAssumption
<1>2. PICK N \in Nat \ {0} : N = FrameNumbers BY FrameAssumption
<1>3. PICK e \in Nat, f \in 0..(N - 1), s \in 0..(F - 1) :
        w = (FrameNumbers * FrameBytes) * e + (FrameBytes * f + s)
  BY <1>1, <1>2, PartsOfWord
<1>4. /\ w \in Nat /\ w % FrameBytes = s /\ w - s = (FrameNumbers * FrameBytes) * e + FrameBytes * f
      /\ w \div FrameBytes = N * e + f
      /\ FrameField(w) = f /\ TopBits(w) = e
  <2>1. /\ w \in Nat /\ w % FrameBytes = s /\ w - s = (FrameNumbers * FrameBytes) * e + FrameBytes * f
        /\ w \div FrameBytes = FrameNumbers * e + f
        /\ FrameField(w) = f /\ TopBits(w) = e
    <3>1. f \in 0..(FrameNumbers - 1) /\ s \in 0..(FrameBytes - 1) BY <1>1, <1>2
    <3> QED BY <3>1, <1>3, FrameParts
  <2> QED BY <2>1, <1>2
<1>5. CASE N * e + f = 0
  <2>1. e = 0 /\ f = 0
    <3>1. N * e \in Nat OBVIOUS
    <3>2. N * e = 0 /\ f = 0 BY <3>1, <1>5
    <3> QED BY <3>2
  <2>2. PICK r \in 0..(N - 1) : r = w % FrameNumbers BY <1>2, <1>4, Remainder
  <2>3. q = FrameNumbers * FrameBytes + r * FrameBytes BY <1>4, <1>5, <2>2 DEF FRAME_PTR
  <2>4. FrameField(q) = r /\ TopBits(q) = 1 /\ frame_number(q) = r /\ FRAME_BITS(q) = r
    BY <1>2, <2>3, NumberOfAddress
  <2>5. FRAME_BITS(w) = r BY <2>1, <2>2, <1>4 DEF FRAME_BITS
  <2>6. frame_address(q) = q BY <2>3, <2>4 DEF frame_address
  <2>7. vizard_frame_index(w) # Refused => vizard_frame_index(w) = r
    <3>1. vizard_frame_index(w) = IF w < HostFrames THEN w ELSE Refused
      BY <1>4, <1>5 DEF vizard_frame_index
    <3>2. w < HostFrames => r = w BY <1>2, <1>4, <2>2, FrameAssumption
    <3> QED BY <3>1, <3>2
  <2> QED BY <2>1, <2>4, <2>5, <2>6, <2>7, <1>4
<1>6. CASE N * e + f # 0
  <2>1. q = (FrameNumbers * FrameBytes) * e + FrameBytes * f BY <1>4, <1>6 DEF FRAME_PTR
  <2>2. q = (FrameNumbers * FrameBytes) * e + (FrameBytes * f + 0) /\ 0 \in 0..(FrameBytes - 1)
    BY <2>1, <1>1
  <2>3. FrameField(q) = f /\ TopBits(q) = e
    BY <2>2, <1>2, FrameParts
  <2>4. vizard_frame_index(w) # Refused => vizard_frame_index(w) = f
    BY <1>4, <1>6 DEF vizard_frame_index
  <2>5. CASE e = 0
    <3>1. f # 0 BY <2>5, <1>6
    <3>2. q = F * f BY <2>1, <2>5, <1>1, <1>2
    <3>3. q % N = 0
      <4>1. F % N = 0 BY <1>1, <1>2, FrameAssumption
      <4>2. PICK k \in Nat : F = N * k + 0
        <5>1. PICK k \in Nat : F = N * k + (F % N) BY Division
        <5> QED BY <5>1, <4>1
      <4>3. q = N * (k * f) + 0 /\ k * f \in Nat BY <3>2, <4>2
      <4> QED BY <4>3, RemainderOf
    <3>4. FRAME_BITS(q) = 0 BY <3>3, <2>3, <2>5, <1>2 DEF FRAME_BITS
    <3> QED BY <3>1, <3>4, <2>3, <2>4, <2>5, <1>4
  <2>6. CASE e # 0
    <3>1. FRAME_BITS(q) = f /\ FRAME_BITS(w) = f /\ frame_number(q) = f
      BY <2>3, <2>6, <1>4 DEF FRAME_BITS, frame_number
    <3>2. frame_number(frame_address(q)) = f
      BY <3>1, <1>2, NumberOfAddress DEF frame_address
    <3> QED BY <3>1, <3>2, <2>3, <2>4, <2>6, <1>4
  <2> QED BY <2>5, <2>6
<1> QED BY <1>5, <1>6

\* "ff" has the feeder, the processor and the software use one frame exactly if
\* the address it was given has its top bits, and the host uses it too.
THEOREM OneFrameForAll == ConsoleSpec => FramesAgree
<1> DEFINE Agree ==
      /\ (FRAME_BITS(PF_FRAME') = FrameField(sw_frame') /\ FRAME_BITS(GP_FRAME') = FrameField(sw_frame'))
           <=> (TopBits(PF_FRAME') # 0 \/ FrameField(PF_FRAME') = 0)
      /\ vizard_frame_index(PF_FRAME') # Refused =>
           /\ vizard_frame_index(PF_FRAME') = FrameField(sw_frame')
           /\ FRAME_BITS(GP_FRAME') = FrameField(sw_frame') =>
                frame_number(frame_address(GP_FRAME')) = vizard_frame_index(PF_FRAME')
<1>1. ASSUME ConsoleIInv, ConsoleNext, bcs.cmd = "FRAME", bcs.flags = {"pf", "hw", "sw"}, bcs' = NULL
      PROVE  Agree
  <2>1. bcs # NULL /\ NULL.cmd = "NULL" BY <1>1 DEF NULL
  <2>2. PICK t \in Typed : ReadArgument(t)
    <3>1. ~ContinueDump BY <2>1 DEF ContinueDump
    <3>2. \A input \in Inputs : ~ReadCommand(input) BY <2>1 DEF ReadCommand
    <3>3. \A v \in Numbers : ~ReadWord(v) BY <1>1 DEF ReadWord
    <3> QED BY <3>1, <3>2, <3>3, <1>1 DEF ConsoleNext
  <2>3. Len(want) = 1 /\ want # <<>> /\ Execute(Given(t), Stashed(t))
    <3>1. Len(want) # 1 => bcs' = bcs BY <2>2, ArgumentRead
    <3> QED BY <3>1, <2>1, <2>2, <1>1, ArgumentRead
  <2>4. PICK a : a = Given(t) OBVIOUS
  <2>5. SetFrame(a) BY <2>3, <2>4, <1>1 DEF Execute
  <2>6. a[1] \in Word
    <3>1. ConsoleTypeOK /\ ArgumentsInOrder BY <1>1 DEF ConsoleIInv
    <3>2. a \in Seq(Word) /\ Len(a) = Len(given) + 1 BY <3>1, <2>3, <2>4, GivenOne
    <3>3. Len(given) = 0 BY <3>1, <2>3, <1>1, GivenAll
    <3>4. 1 \in 1..Len(a) BY <3>2, <3>3
    <3> QED BY <3>2, <3>4, ElementOfSeq
  <2>7. PF_FRAME' = a[1] /\ GP_FRAME' = FRAME_PTR(a[1]) /\ sw_frame' = FRAME_PTR(a[1])
    BY <2>5, <1>1 DEF SetFrame
  <2>8. PICK w \in Word : w = a[1] BY <2>6
  <2>9. PICK q : q = FRAME_PTR(w) OBVIOUS
  <2>10. PF_FRAME' = w /\ GP_FRAME' = q /\ sw_frame' = q BY <2>7, <2>8, <2>9
  <2> QED BY <2>9, <2>10, FramesOf
<1>2. ASSUME ConsoleIInv, [ConsoleNext]_consoleVars
      PROVE  [bcs.cmd = "FRAME" /\ bcs.flags = {"pf", "hw", "sw"} /\ bcs' = NULL => Agree]_consoleVars
  BY <1>1, <1>2
<1> QED BY <1>2, ConsoleInvariant, PTL DEF ConsoleSpec, FramesAgree
-----------------------------------------------------------------------------
(* The serial driver. *)

\* The program has found a free slot and only the handler, which frees more,
\* touches the buffer until it has advanced the head.
SlotFound == at \in {"store", "publish"} => ~Full
SlotWritten == at = "publish" => buff_data[buff_head] = ch
WritesOne == at \in {"poll", "direct", "append", "store", "publish"} => ch \in Characters

IInv == TypeOK /\ WritesOne /\ SlotFound /\ SlotWritten /\ BufferIsQueue

USE SizeAssumption, CountAssumption

(* Arithmetic of the indices *)

\* The index after the last is the first.
LEMMA FollowingSlot ==
  ASSUME NEW n \in Slots
  PROVE  Following(n) \in Slots
BY DEF Following, Slots

\* What lies between tail and head when the head advances.
LEMMA Grown ==
  ASSUME TypeOK, ~Full, buff_head' = Following(buff_head), buff_tail' = buff_tail
  PROVE  /\ Held \in Nat /\ Held' = Held + 1
         /\ Slot(Held) = buff_head
         /\ \A i \in 0..Held : Slot(i)' = Slot(i)
         /\ \A i \in 0..(Held - 1) : Slot(i) # buff_head
BY DEF TypeOK, Full, Following, Held, Slot, Slots

\* What lies between them when the tail advances.
LEMMA Shrunk ==
  ASSUME TypeOK, buff_head # buff_tail, buff_head' = buff_head,
         buff_tail' = Following(buff_tail)
  PROVE  /\ Held \in Nat \ {0} /\ Held' = Held - 1
         /\ Slot(0) = buff_tail
         /\ \A i \in 0..(Held - 1) : Slot(i)' = Slot(i + 1)
BY DEF TypeOK, Following, Held, Slot, Slots

\* The free slot is not one of those in use.
LEMMA FreeSlot ==
  ASSUME TypeOK
  PROVE  /\ Held \in 0..(Size - 1)
         /\ \A i \in 0..(Held - 1) : Slot(i) \in Slots /\ Slot(i) # buff_head
BY DEF TypeOK, Held, Slot, Slots
-----------------------------------------------------------------------------
\* At the start, and in every step, the buffer is the queue.
LEMMA InitHolds == Init => IInv
BY DEF Init, IInv, TypeOK, WritesOne, SlotFound, SlotWritten, BufferIsQueue, Places,
       Held, Slots, Characters

\* A step that leaves the buffer and the queue alone leaves them the same.
LEMMA SameBuffer ==
  ASSUME BufferIsQueue, UNCHANGED <<buffer, queue>>
  PROVE  BufferIsQueue'
BY DEF BufferIsQueue, buffer, Held, Slot

\* A write of a character changes the transmitter within its type.
LEMMA WriteTyped ==
  ASSUME TypeOK, NEW c \in Characters, WriteUart(c)
  PROVE  /\ shifting' \in 0..Count /\ line' \in Seq(Characters)
         /\ lost' \subseteq Characters
<1>1. CASE Ready
  <2>1. shifting' = c /\ line' = Append(line, c) /\ lost' = lost
    BY <1>1 DEF WriteUart
  <2> QED BY <2>1 DEF TypeOK, Characters
<1>2. CASE ~Ready
  BY <1>2 DEF TypeOK, WriteUart, uart
<1> QED BY <1>1, <1>2

\* An access takes one of the accesses the handler may be late by.
LEMMA AccessTyped ==
  ASSUME TypeOK, Access
  PROVE  slack' \in 0..Slack
BY DEF TypeOK, Access

\* Every step of program, handler and line keeps the invariant.
LEMMA StepHolds ==
  ASSUME IInv, [Next]_vars
  PROVE  IInv'
<1> USE DEF Places
<1>1. CASE NextCharacter
  <2>1. TypeOK' /\ WritesOne'
    BY <1>1, AccessTyped DEF IInv, NextCharacter, TypeOK, WritesOne, buffer, uart, Characters
  <2> QED BY <1>1, <2>1, SameBuffer
        DEF IInv, NextCharacter, SlotFound, SlotWritten, buffer
<1>2. CASE Poll \/ StartWait \/ Drained \/ GiveUp
  <2>1. TypeOK' /\ WritesOne'
    BY <1>2, AccessTyped
       DEF IInv, Poll, StartWait, Drained, GiveUp, TypeOK, WritesOne, buffer, uart
  <2>2. BufferIsQueue'
    BY <1>2, SameBuffer DEF IInv, Poll, StartWait, Drained, GiveUp, buffer
  <2> QED BY <1>2, <2>1, <2>2
        DEF IInv, Poll, StartWait, Drained, GiveUp, SlotFound, SlotWritten
<1>3. CASE Direct
  <2>1. TypeOK' /\ WritesOne'
    BY <1>3, AccessTyped, WriteTyped DEF IInv, Direct, TypeOK, WritesOne, buffer
  <2> QED BY <1>3, <2>1, SameBuffer DEF IInv, Direct, SlotFound, SlotWritten, buffer
<1>4. CASE FindSlot
  <2>1. TypeOK' /\ WritesOne'
    BY <1>4, AccessTyped DEF IInv, FindSlot, TypeOK, WritesOne, buffer, uart
  <2> QED BY <1>4, <2>1, SameBuffer
        DEF IInv, FindSlot, SlotFound, SlotWritten, buffer, Full, Following
<1>5. CASE StoreCharacter
  <2>1. TypeOK' /\ WritesOne'
    BY <1>5, AccessTyped DEF IInv, StoreCharacter, TypeOK, WritesOne, uart, Characters
  <2>2. SlotFound' /\ SlotWritten'
    BY <1>5 DEF IInv, StoreCharacter, SlotFound, SlotWritten, Full, Following, TypeOK
  <2>3. BufferIsQueue'
    <3>1. UNCHANGED <<Held, queue>> /\ \A i : Slot(i)' = Slot(i)
      BY <1>5 DEF StoreCharacter, Held, Slot
    <3>2. \A i \in 0..(Held - 1) : buff_data'[Slot(i)] = buff_data[Slot(i)]
      BY <1>5, FreeSlot DEF IInv, StoreCharacter, TypeOK
    <3> QED BY <3>1, <3>2, FreeSlot DEF IInv, BufferIsQueue
  <2> QED BY <2>1, <2>2, <2>3 DEF IInv
<1>6. CASE Publish
  <2>1. TypeOK' /\ WritesOne'
    BY <1>6, AccessTyped, FollowingSlot
       DEF IInv, Publish, TypeOK, WritesOne, uart, Characters
  <2>2. SlotFound' /\ SlotWritten'
    BY <1>6 DEF Publish, SlotFound, SlotWritten
  <2>3. BufferIsQueue'
    <3>1. /\ Held \in Nat /\ Held' = Held + 1 /\ Slot(Held) = buff_head
          /\ \A i \in 0..Held : Slot(i)' = Slot(i)
      BY <1>6, Grown DEF IInv, Publish, SlotFound
    <3>2. /\ queue \in Seq(Characters) /\ Len(queue) = Held
          /\ queue' = Append(queue, ch) /\ buff_data' = buff_data
      BY <1>6 DEF IInv, Publish, BufferIsQueue, TypeOK
    <3>3. Len(queue') = Held'
      BY <3>1, <3>2
    <3>4. ASSUME NEW i \in 1..(Held + 1)
          PROVE  queue'[i] = buff_data'[Slot(i - 1)']
      <4>1. CASE i = Held + 1
        BY <1>6, <3>1, <3>2, <4>1 DEF IInv, Publish, SlotWritten
      <4>2. CASE i # Held + 1
        <5>1. i \in 1..Held /\ i - 1 \in 0..Held
          BY <3>1, <4>2
        <5>2. queue'[i] = queue[i]
          BY <3>2, <5>1
        <5> QED BY <3>1, <3>2, <5>1, <5>2 DEF IInv, BufferIsQueue
      <4> QED BY <4>1, <4>2
    <3> QED BY <3>1, <3>3, <3>4 DEF BufferIsQueue
  <2> QED BY <2>1, <2>2, <2>3 DEF IInv
<1>7. CASE FrameDone
  <2>1. TypeOK' /\ WritesOne'
    BY <1>7 DEF IInv, FrameDone, TypeOK, WritesOne, buffer
  <2> QED BY <1>7, <2>1, SameBuffer
        DEF IInv, FrameDone, SlotFound, SlotWritten, buffer, Full, Following
<1>8. CASE ISR_UATX
  <2>1. CASE buff_head = buff_tail
    <3>1. TypeOK' /\ WritesOne'
      <4>1. ip' \in BOOLEAN /\ slack' \in 0..Slack
        <5>1. ip' \in BOOLEAN
          BY <1>8, Zenon DEF ISR_UATX
        <5> QED BY <1>8, <5>1 DEF ISR_UATX
      <4> QED BY <1>8, <2>1, <4>1 DEF IInv, ISR_UATX, TypeOK, WritesOne, uart
    <3> QED BY <1>8, <2>1, <3>1, SameBuffer
          DEF IInv, ISR_UATX, SlotFound, SlotWritten, buffer, Full, Following
  <2>2. CASE buff_head # buff_tail
    <3>1. /\ Held \in Nat \ {0} /\ Held' = Held - 1 /\ Slot(0) = buff_tail
          /\ \A i \in 0..(Held - 1) : Slot(i)' = Slot(i + 1)
      BY <1>8, <2>2, Shrunk DEF IInv, ISR_UATX, NextTail
    <3>2. /\ queue \in Seq(Characters) /\ Len(queue) = Held
          /\ queue' = Tail(queue) /\ buff_data' = buff_data
      BY <1>8, <2>2 DEF IInv, ISR_UATX, BufferIsQueue, TypeOK
    <3>3. buff_data[buff_tail] \in Characters
      BY <3>1, <3>2 DEF IInv, BufferIsQueue
    <3>4. TypeOK' /\ WritesOne'
      <4>1. queue' \in Seq(Characters)
        BY <3>1, <3>2
      <4>2. ip' \in BOOLEAN /\ slack' \in 0..Slack
        <5>1. ip' \in BOOLEAN
          BY <1>8, Zenon DEF ISR_UATX
        <5> QED BY <1>8, <5>1 DEF ISR_UATX
      <4>3. /\ shifting' \in 0..Count /\ line' \in Seq(Characters)
            /\ lost' \subseteq Characters
        BY <1>8, <2>2, <3>3, WriteTyped DEF IInv, ISR_UATX
      <4> QED BY <1>8, <2>2, <4>1, <4>2, <4>3, FollowingSlot
            DEF IInv, ISR_UATX, NextTail, TypeOK, WritesOne
    <3>5. SlotFound' /\ SlotWritten'
      BY <1>8, <2>2 DEF IInv, ISR_UATX, NextTail, SlotFound, SlotWritten, Full,
                        Following, TypeOK, Slots
    <3>6. BufferIsQueue'
      <4>1. Len(queue') = Held'
        BY <3>1, <3>2
      <4>2. ASSUME NEW i \in 1..(Held - 1)
            PROVE  queue'[i] = buff_data'[Slot(i - 1)']
        <5>1. queue'[i] = queue[i + 1] /\ i + 1 \in 1..Held /\ i - 1 \in 0..(Held - 1)
          BY <3>1, <3>2
        <5>2. queue[i + 1] = buff_data[Slot((i + 1) - 1)]
          BY <5>1 DEF IInv, BufferIsQueue
        <5>3. (i + 1) - 1 = (i - 1) + 1
          BY <3>1
        <5> QED BY <3>1, <3>2, <5>1, <5>2, <5>3
      <4> QED BY <3>1, <4>1, <4>2 DEF BufferIsQueue
    <3> QED BY <3>4, <3>5, <3>6 DEF IInv
  <2> QED BY <2>1, <2>2
<1>9. CASE UNCHANGED vars
  BY <1>9 DEF vars, buffer, uart, IInv, TypeOK, WritesOne, SlotFound, SlotWritten,
              BufferIsQueue, Full, Following, Held, Slot
<1> QED BY <1>1, <1>2, <1>3, <1>4, <1>5, <1>6, <1>7, <1>8, <1>9 DEF Next, Write, Wait
-----------------------------------------------------------------------------
\* The inductive invariant of the driver (uwrite_int8s_ISR against ISR_UATX).
THEOREM InductiveInvariant == Spec => []IInv
<1>1. Init => IInv
  BY InitHolds
<1>2. IInv /\ [Next]_vars => IInv'
  BY StepHolds
<1> QED BY <1>1, <1>2, PTL DEF Spec

\* The buffer that the program fills and the interrupt handler empties without a
\* lock is a first-in first-out queue.
THEOREM Queue == Spec => []BufferIsQueue
<1>1. IInv => BufferIsQueue
  BY DEF IInv
<1> QED BY <1>1, InductiveInvariant, PTL
-----------------------------------------------------------------------------
(* Where the characters are.  EachInOnePlace is about the characters written *)
(* so far; the one written next is nowhere.                                  *)

One(b) == IF b THEN 1 ELSE 0
Copies(c) == Times(c, queue) + Times(c, line) + One(c \in lost) + One(c \in InHand)
OnceWritten == \A c \in Characters : Copies(c) = One(c <= ch)

Indices(c, s) == {i \in DOMAIN s : s[i] = c}

\* A character is as often in a sequence as it has indices.
LEMMA TimesType ==
  ASSUME NEW S, NEW s \in Seq(S), NEW c
  PROVE  /\ IsFiniteSet(Indices(c, s)) /\ Times(c, s) = Cardinality(Indices(c, s))
         /\ Times(c, s) \in Nat
<1>1. IsFiniteSet(1..Len(s)) /\ Indices(c, s) \in SUBSET (1..Len(s))
  BY FS_Interval DEF Indices
<1>2. IsFiniteSet(Indices(c, s))
  BY <1>1, FS_Subset
<1>3. Cardinality(Indices(c, s)) \in Nat
  BY <1>2, FS_CardinalityType
<1> QED BY <1>2, <1>3 DEF Times, Indices

\* A character appended is there once more.
LEMMA TimesAppend ==
  ASSUME NEW S, NEW s \in Seq(S), NEW d \in S, NEW c
  PROVE  Times(c, Append(s, d)) = Times(c, s) + One(c = d)
<1> DEFINE t == Append(s, d)
<1>1. t \in Seq(S) /\ Len(t) = Len(s) + 1 /\ Len(s) \in Nat
  OBVIOUS
<1>2. t[Len(s) + 1] = d /\ \A i \in 1..Len(s) : t[i] = s[i]
  OBVIOUS
<1>3. Len(s) + 1 \notin Indices(c, s)
  BY <1>1 DEF Indices
<1>4. Indices(c, t) = IF c = d THEN Indices(c, s) \union {Len(s) + 1} ELSE Indices(c, s)
  BY <1>1, <1>2 DEF Indices
<1>5. /\ IsFiniteSet(Indices(c, s)) /\ Times(c, s) = Cardinality(Indices(c, s))
      /\ Times(c, s) \in Nat /\ Times(c, t) = Cardinality(Indices(c, t))
  BY <1>1, TimesType
<1>6. Cardinality(Indices(c, s) \union {Len(s) + 1}) = Cardinality(Indices(c, s)) + 1
  BY <1>3, <1>5, FS_AddElement
<1> QED BY <1>4, <1>5, <1>6 DEF One

\* The first character taken is there once less.
LEMMA TimesTail ==
  ASSUME NEW S, NEW s \in Seq(S), s # <<>>, NEW c
  PROVE  Times(c, Tail(s)) = Times(c, s) - One(c = s[1])
<1> DEFINE t == Tail(s)
           rest == Indices(c, s) \ {1}
           f == [i \in Indices(c, t) |-> i + 1]
<1>1. Len(s) \in Nat \ {0} /\ Len(t) = Len(s) - 1 /\ t \in Seq(S)
      /\ \A i \in 1..Len(t) : t[i] = s[i + 1]
  OBVIOUS
<1>2. DOMAIN s = 1..Len(s) /\ DOMAIN t = 1..Len(t)
  BY <1>1
<1>3. IsFiniteSet(Indices(c, s)) /\ Times(c, s) = Cardinality(Indices(c, s))
      /\ Times(c, s) \in Nat
  BY TimesType
<1>4. IsFiniteSet(Indices(c, t)) /\ Times(c, t) = Cardinality(Indices(c, t))
  BY <1>1, TimesType
<1>5. Cardinality(rest) = Cardinality(Indices(c, s)) - One(c = s[1])
  <2>1. 1 \in Indices(c, s) <=> c = s[1]
    BY <1>1, <1>2 DEF Indices
  <2>2. Cardinality(rest) = IF 1 \in Indices(c, s) THEN Cardinality(Indices(c, s)) - 1
                            ELSE Cardinality(Indices(c, s))
    BY <1>3, FS_RemoveElement
  <2> QED BY <2>1, <2>2, <1>3 DEF One
<1>6. ExistsBijection(Indices(c, t), rest)
  <2>1. ASSUME NEW i \in Indices(c, t)
        PROVE  i \in Nat /\ i + 1 \in rest
    BY <1>1, <1>2 DEF Indices
  <2>2. f \in [Indices(c, t) -> rest]
    BY <2>1
  <2>3. \A i, j \in Indices(c, t) : f[i] = f[j] => i = j
    BY <2>1
  <2>4. ASSUME NEW k \in rest
        PROVE  \E i \in Indices(c, t) : f[i] = k
    <3>1. k \in 2..Len(s) /\ s[k] = c
      BY <1>2, <1>1 DEF Indices
    <3>2. k - 1 \in Indices(c, t)
      BY <1>1, <1>2, <3>1 DEF Indices
    <3> QED BY <3>1, <3>2
  <2>5. f \in Bijection(Indices(c, t), rest)
    BY <2>2, <2>3, <2>4 DEF Bijection, Injection, Surjection, IsInjective
  <2> QED BY <2>5 DEF ExistsBijection
<1>7. Cardinality(rest) = Cardinality(Indices(c, t))
  BY <1>4, <1>6, FS_Bijection
<1> QED BY <1>3, <1>4, <1>5, <1>7

\* A set holds a character once or not at all.
LEMMA OnceInSet ==
  ASSUME NEW S, NEW c
  PROVE  Cardinality({c} \cap S) = One(c \in S)
<1>1. CASE c \in S
  <2>1. {c} \cap S = {c}
    BY <1>1
  <2> QED BY <1>1, <2>1, FS_Singleton DEF One
<1>2. CASE c \notin S
  <2>1. {c} \cap S = {}
    BY <1>2
  <2> QED BY <1>2, <2>1, FS_EmptySet DEF One
<1> QED BY <1>1, <1>2

\* What is written to the transmitter goes to the line, or is lost.
LEMMA Written ==
  ASSUME TypeOK, NEW d \in Characters, WriteUart(d), NEW c \in Characters,
         c = d => c \notin lost
  PROVE  Times(c, line') + One(c \in lost')
           = Times(c, line) + One(c \in lost) + One(c = d)
<1>1. line \in Seq(Characters) /\ Times(c, line) \in Nat
  BY TimesType DEF TypeOK
<1>2. CASE Ready
  <2>1. line' = Append(line, d) /\ lost' = lost
    BY <1>2 DEF WriteUart
  <2>2. Times(c, line') = Times(c, line) + One(c = d)
    BY <1>1, <2>1, TimesAppend
  <2> QED BY <1>1, <2>1, <2>2 DEF One
<1>3. CASE ~Ready
  <2>1. line' = line /\ lost' = lost \cup {d}
    BY <1>3 DEF WriteUart
  <2> QED BY <1>1, <2>1 DEF One
<1> QED BY <1>2, <1>3

\* A step moves a character without copying or dropping it.
LEMMA CopiesStep ==
  ASSUME IInv, OnceWritten, [Next]_vars
  PROVE  OnceWritten'
<1> SUFFICES ASSUME NEW c \in Characters
             PROVE  Copies(c)' = One(c <= ch')
  BY DEF OnceWritten, Characters
<1>1. /\ Copies(c) = One(c <= ch) /\ ch \in 0..Count /\ c \in Nat
      /\ queue \in Seq(Characters) /\ line \in Seq(Characters)
      /\ Times(c, queue) \in Nat /\ Times(c, line) \in Nat
  BY TimesType DEF OnceWritten, IInv, TypeOK, Characters
<1> USE DEF Copies
<1>2. CASE NextCharacter
  <2>1. /\ ch' = ch + 1 /\ queue' = queue /\ line' = line /\ lost' = lost
        /\ InHand = {} /\ InHand' = {ch + 1}
    BY <1>2 DEF NextCharacter, uart, InHand
  <2> QED BY <1>1, <2>1 DEF One
<1>3. CASE Poll \/ FindSlot \/ StoreCharacter \/ StartWait \/ Drained \/ GiveUp \/ FrameDone
  <2>1. /\ ch' = ch /\ queue' = queue /\ line' = line /\ lost' = lost /\ InHand' = InHand
    BY <1>3 DEF Poll, FindSlot, StoreCharacter, StartWait, Drained, GiveUp, FrameDone, uart,
      InHand
  <2> QED BY <1>1, <2>1
<1>4. CASE Direct
  <2>1. /\ ch' = ch /\ queue' = queue /\ WriteUart(ch) /\ InHand = {ch} /\ InHand' = {}
        /\ ch \in Characters /\ TypeOK
    BY <1>4 DEF Direct, InHand, IInv, WritesOne
  <2>2. c = ch => c \notin lost
    BY <1>1, <2>1 DEF One
  <2>3. Times(c, line') + One(c \in lost')
          = Times(c, line) + One(c \in lost) + One(c = ch)
    BY <2>1, <2>2, Written
  <2>4. Times(c, line') \in Nat
    <3>1. line' \in Seq(Characters)
      BY <2>1, WriteTyped
    <3> QED BY <3>1, TimesType
  <2> QED BY <1>1, <2>1, <2>3, <2>4 DEF One
<1>5. CASE Publish
  <2>1. /\ ch' = ch /\ queue' = Append(queue, ch) /\ line' = line /\ lost' = lost
        /\ InHand = {ch} /\ InHand' = {} /\ ch \in Characters
    BY <1>5 DEF Publish, InHand, IInv, WritesOne, uart
  <2>2. Times(c, queue') = Times(c, queue) + One(c = ch)
    BY <1>1, <2>1, TimesAppend
  <2> QED BY <1>1, <2>1, <2>2 DEF One
<1>6. CASE ISR_UATX
  <2>1. ch' = ch /\ InHand' = InHand
    BY <1>6 DEF ISR_UATX, InHand
  <2>2. CASE buff_head = buff_tail
    BY <1>1, <1>6, <2>1, <2>2 DEF ISR_UATX, uart
  <2>3. CASE buff_head # buff_tail
    <3> DEFINE d == buff_data[buff_tail]
    <3>1. Held \in Nat \ {0} /\ Slot(0) = buff_tail
      BY <2>3 DEF IInv, TypeOK, Held, Slot, Slots
    <3>2. Len(queue) = Held /\ queue[1] = d
      BY <3>1 DEF IInv, BufferIsQueue
    <3>3. queue # <<>> /\ d \in Characters
      BY <1>1, <3>1, <3>2
    <3>4. WriteUart(d) /\ queue' = Tail(queue) /\ TypeOK
      BY <1>6, <2>3 DEF ISR_UATX, IInv
    <3> HIDE DEF d
    <3>5. Times(c, queue') = Times(c, queue) - One(c = d) /\ Times(c, queue') \in Nat
      <4>1. queue' \in Seq(Characters)
        BY <1>1, <3>3, <3>4
      <4> QED BY <1>1, <3>2, <3>3, <3>4, <4>1, TimesTail, TimesType
    <3>6. c = d => c \notin lost
      BY <1>1, <3>5 DEF One
    <3>7. Times(c, line') + One(c \in lost')
            = Times(c, line) + One(c \in lost) + One(c = d)
      BY <3>3, <3>4, <3>6, Written
    <3>8. Times(c, line') \in Nat
      <4>1. line' \in Seq(Characters)
        BY <3>3, <3>4, WriteTyped
      <4> QED BY <4>1, TimesType
    <3>9. /\ One(c = d) \in Nat /\ One(c \in lost) \in Nat /\ One(c \in lost') \in Nat
          /\ One(c \in InHand) \in Nat
      BY DEF One
    <3>10. One(c \in InHand') = One(c \in InHand) /\ One(c <= ch') = One(c <= ch)
      BY <2>1
    <3>11. Times(c, queue') + Times(c, line') + One(c \in lost') + One(c \in InHand')
             = Times(c, queue) + Times(c, line) + One(c \in lost) + One(c \in InHand)
      <4>1. PICK q, l, x, h, o \in Nat : /\ q = Times(c, queue) /\ l = Times(c, line)
                                        /\ x = One(c \in lost) /\ h = One(c \in InHand)
                                        /\ o = One(c = d)
        BY <1>1, <3>9
      <4>2. PICK q2, l2, x2 \in Nat : /\ q2 = Times(c, queue') /\ l2 = Times(c, line')
                                      /\ x2 = One(c \in lost')
        BY <3>5, <3>8, <3>9
      <4>3. q2 = q - o /\ l2 + x2 = l + x + o
        BY <3>5, <3>7, <4>1, <4>2
      <4>4. q2 + l2 + x2 + h = q + l + x + h
        BY <4>3
      <4>5. One(c \in InHand') = h
        BY <3>10, <4>1
      <4> QED BY <4>1, <4>2, <4>4, <4>5
    <3>12. Copies(c)' = Copies(c)
      BY <3>11
    <3> QED BY <1>1, <3>10, <3>12
  <2> QED BY <2>2, <2>3
<1>7. CASE UNCHANGED vars
  <2>1. /\ ch' = ch /\ queue' = queue /\ line' = line /\ lost' = lost /\ InHand' = InHand
    BY <1>7 DEF vars, uart, InHand
  <2> QED BY <1>1, <2>1
<1> QED BY <1>2, <1>3, <1>4, <1>5, <1>6, <1>7 DEF Next, Write, Wait

\* Every character the program has written is in one place and one only: in its
\* hands, in the ring buffer, on the line once, or lost to a busy transmitter;
\* neither the program nor the handler duplicates or forgets one.
THEOREM NoneDuplicated == Spec => []EachInOnePlace
<1>1. Init => OnceWritten
  <2> SUFFICES ASSUME Init, NEW c \in Characters PROVE Copies(c) = One(c <= ch)
    BY DEF OnceWritten
  <2>1. queue = <<>> /\ line = <<>> /\ lost = {} /\ InHand = {} /\ ch = 0
    BY DEF Init, InHand
  <2>2. Times(c, <<>>) = 0
    <3>1. {i \in DOMAIN <<>> : (<<>>)[i] = c} = {}
      OBVIOUS
    <3> QED BY <3>1, FS_EmptySet DEF Times
  <2>3. One(c \in lost) = 0 /\ One(c \in InHand) = 0 /\ One(c <= ch) = 0
    BY <2>1 DEF One, Characters
  <2> QED BY <2>1, <2>2, <2>3 DEF Copies
<1>2. IInv /\ OnceWritten /\ [Next]_vars => OnceWritten'
  BY CopiesStep
<1>3. IInv /\ OnceWritten => EachInOnePlace
  <2> SUFFICES ASSUME IInv, OnceWritten, NEW c \in 1..ch
               PROVE  Times(c, queue) + Times(c, line) + Cardinality({c} \cap lost)
                        + Cardinality({c} \cap InHand) = 1
    BY DEF EachInOnePlace
  <2>1. c \in Characters /\ c <= ch
    BY DEF IInv, TypeOK, Characters
  <2>2. Copies(c) = 1
    BY <2>1 DEF OnceWritten, One
  <2> QED BY <2>2, OnceInSet DEF Copies
<1> QED BY <1>1, <1>2, <1>3, InductiveInvariant, PTL DEF Spec
=============================================================================
