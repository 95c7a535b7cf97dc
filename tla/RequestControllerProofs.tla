----------------------- MODULE RequestControllerProofs ----------------------
(***************************************************************************)
(* Theorems about RequestController.tla for every set of live clients,     *)
(* every counter width, every credit and every FIFO depth that satisfy     *)
(* ControllerAssumption.                                                   *)
(***************************************************************************)
EXTENDS RequestController, FiniteSetTheorems, SequenceTheorems, TLAPS

-----------------------------------------------------------------------------
(***************************************************************************)
(* The inductive invariant.  Its parts are about the numbers of the reads, *)
(* the beats of the reads, and the pairs of the writes.                    *)
(***************************************************************************)

Turn == serviced_reads \div 2      \* number of the read at the head of the order
Odd  == serviced_reads % 2 = 1     \* its first beat has been delivered

\* The number of the k-th unanswered read when the first has number turn; k is
\* at most ReadWrap + 1.
Slot(turn, k) ==
  IF turn + k - 1 < ReadWrap THEN turn + k - 1 ELSE turn + k - 1 - ReadWrap

Numbered ==
  /\ issued_reads = Slot(Turn, Len(reads) + 1)
  /\ \A k \in 1..Len(reads) : reads[k] \in Tagged =>
       /\ req_num[reads[k]] = Slot(Turn, k)
       /\ req_valid[reads[k]] = IF k = 1 /\ Odd THEN 1 ELSE 2
       /\ cs[reads[k]] = IF k = 1 /\ Odd THEN "READ2" ELSE "READ1"

\* A client has one read at a time.
OneEach ==
  \A j, k \in 1..Len(reads) : reads[j] = reads[k] /\ reads[j] \in Tagged => j = k

Unclaimed ==
  \A c \in Tagged : (\A k \in 1..Len(reads) : reads[k] # c) =>
                       req_valid[c] = 0 /\ ~Waits(c)

Bit(b) == IF b THEN 1 ELSE 0

\* Every unanswered read has its two beats somewhere: delivered, on the wire,
\* in the FIFO, about to follow its first, or still to be fetched.
BeatsConserved ==
  Bit(Odd) + Bit(rdf_wren) + rdf + owed + 2 * Count(caf, "read") = 2 * Len(reads)

\* How many reads there are: at most one of each client with a state machine,
\* and PixelFeeder's.
ReadsBounded ==
  /\ Len(reads) = Count(reads, "pixf") + Bit(Waits("inst")) + Bit(Waits("data"))
                                       + Bit(Waits("gcmd"))
  /\ Count(reads, "pixf") <= PixfCredit
  /\ cs["pixf"] = "FETCH" => Count(reads, "pixf") < PixfCredit

Open(c) == cs[c] = "WRITE2"
AnyOpen == \E c \in Clients : Open(c)

\* A client between the two beats of its write keeps everyone else away.
Exclusive ==
  /\ \A w \in Writers : reserved[w] <=> Open(w)
  /\ \A c, d \in Clients : Open(c) /\ Open(d) => c = d
  /\ Wants("inst") => cs["data"] \in {"IDLE", "FETCH", "WRITE1"}
  /\ \A c \in Clients \ Live : cs[c] = "IDLE"

Paired ==
  /\ Len(wdf) = 2 * Len(writes) - (IF AnyOpen THEN 1 ELSE 0)
  /\ \A c \in Clients : Open(c) => writes # <<>> /\ writes[Len(writes)] = c
  /\ \A k \in 1..Len(writes) :
       /\ wdf[2 * k - 1] = [of |-> writes[k], half |-> 1]
       /\ 2 * k <= Len(wdf) => wdf[2 * k] = [of |-> writes[k], half |-> 2]

Types ==
  /\ cs \in [Clients -> UNION {States[c] : c \in Clients}]
  /\ \A c \in Clients : cs[c] \in States[c]
  /\ issued_reads \in 0..(ReadWrap - 1)
  /\ serviced_reads \in 0..(2 * ReadWrap - 1)
  /\ req_num \in [Tagged -> 0..(ReadWrap - 1)]
  /\ req_valid \in [Tagged -> 0..2]
  /\ reserved \in [Writers -> BOOLEAN]
  /\ caf \in Seq({"read", "write"}) /\ Len(caf) <= CafDepth
  /\ wdf \in Seq([of : Clients, half : {1, 2}]) /\ Len(wdf) <= WdfDepth
  /\ rdf \in Nat /\ owed \in {0, 1}
  /\ rdf_wren \in BOOLEAN
  /\ reads \in Seq(Readers)
  /\ writes \in Seq(Clients)

IInv ==
  /\ Types
  /\ Numbered /\ OneEach /\ Unclaimed /\ BeatsConserved /\ ReadsBounded
  /\ Exclusive /\ Paired

-----------------------------------------------------------------------------
(***************************************************************************)
(* Counting the elements of a sequence.                                    *)
(***************************************************************************)

Places(s, v) == {i \in DOMAIN s : s[i] = v}

\* The places at which v stands in a sequence are finitely many, so Count is a
\* number (counting the read commands in the command FIFO, and PixelFeeder's
\* reads among the unanswered ones).
LEMMA CountType ==
  ASSUME NEW S, NEW s \in Seq(S), NEW v
  PROVE  /\ IsFiniteSet(Places(s, v))
         /\ Count(s, v) = Cardinality(Places(s, v))
         /\ Count(s, v) \in Nat
<1>1. IsFiniteSet(1..Len(s))
  BY FS_Interval
<1>2. Places(s, v) \in SUBSET (1..Len(s))
  BY DEF Places
<1>3. IsFiniteSet(Places(s, v))
  BY <1>1, <1>2, FS_Subset
<1>4. Cardinality(Places(s, v)) \in Nat
  BY <1>3, FS_CardinalityType
<1> QED
  BY <1>3, <1>4 DEF Count, Places

\* Appending an element adds one to the count of that element only.
LEMMA CountAppend ==
  ASSUME NEW S, NEW s \in Seq(S), NEW e \in S, NEW v
  PROVE  Count(Append(s, e), v) = Count(s, v) + Bit(e = v)
<1> DEFINE t == Append(s, e)
<1>1. t \in Seq(S) /\ Len(t) = Len(s) + 1 /\ Len(s) \in Nat
  OBVIOUS
<1>2. t[Len(s) + 1] = e /\ \A i \in 1..Len(s) : t[i] = s[i]
  OBVIOUS
<1>3. Len(s) + 1 \notin Places(s, v)
  BY <1>1 DEF Places
<1>4. Places(t, v) = IF e = v THEN Places(s, v) \union {Len(s) + 1} ELSE Places(s, v)
  BY <1>1, <1>2 DEF Places
<1>5. IsFiniteSet(Places(s, v)) /\ Count(s, v) = Cardinality(Places(s, v))
      /\ Count(s, v) \in Nat
  BY CountType
<1>6. Cardinality(Places(s, v) \union {Len(s) + 1}) = Cardinality(Places(s, v)) + 1
  BY <1>3, <1>5, FS_AddElement
<1>7. Count(t, v) = Cardinality(Places(t, v))
  BY <1>1, CountType
<1> QED
  BY <1>4, <1>5, <1>6, <1>7 DEF Bit

\* Removing the first element takes one from the count of that element only.
LEMMA CountTail ==
  ASSUME NEW S, NEW s \in Seq(S), s # <<>>, NEW v
  PROVE  Count(Tail(s), v) = Count(s, v) - Bit(s[1] = v)
<1> DEFINE t == Tail(s)
           rest == Places(s, v) \ {1}
           f == [i \in Places(t, v) |-> i + 1]
<1>1. Len(s) \in Nat \ {0} /\ Len(t) = Len(s) - 1 /\ t \in Seq(S)
      /\ \A i \in 1..Len(t) : t[i] = s[i + 1]
  OBVIOUS
<1>2. DOMAIN s = 1..Len(s) /\ DOMAIN t = 1..Len(t)
  BY <1>1
<1>3. IsFiniteSet(Places(s, v)) /\ Count(s, v) = Cardinality(Places(s, v))
      /\ Count(s, v) \in Nat
  BY CountType
<1>4. IsFiniteSet(Places(t, v)) /\ Count(t, v) = Cardinality(Places(t, v))
  BY <1>1, CountType
<1>5. Cardinality(rest) = Cardinality(Places(s, v)) - Bit(s[1] = v)
  <2>1. 1 \in Places(s, v) <=> s[1] = v
    BY <1>1, <1>2 DEF Places
  <2>2. Cardinality(rest) = IF 1 \in Places(s, v) THEN Cardinality(Places(s, v)) - 1
                           ELSE Cardinality(Places(s, v))
    BY <1>3, FS_RemoveElement
  <2> QED
    BY <2>1, <2>2, <1>3 DEF Bit
<1>6. ExistsBijection(Places(t, v), rest)
  <2>1. ASSUME NEW i \in Places(t, v)
        PROVE  i \in Nat /\ i + 1 \in rest
    BY <1>1, <1>2 DEF Places
  <2>2. f \in [Places(t, v) -> rest]
    BY <2>1
  <2>3. \A i, j \in Places(t, v) : f[i] = f[j] => i = j
    BY <2>1
  <2>4. ASSUME NEW k \in rest
        PROVE  \E i \in Places(t, v) : f[i] = k
    <3>1. k \in 2..Len(s) /\ s[k] = v
      BY <1>2, <1>1 DEF Places
    <3>2. k - 1 \in Places(t, v)
      BY <1>1, <1>2, <3>1 DEF Places
    <3> QED
      BY <3>1, <3>2
  <2>5. f \in Bijection(Places(t, v), rest)
    BY <2>2, <2>3, <2>4 DEF Bijection, Injection, Surjection, IsInjective
  <2> QED
    BY <2>5 DEF ExistsBijection
<1>7. Cardinality(rest) = Cardinality(Places(t, v))
  BY <1>4, <1>6, FS_Bijection
<1> QED
  BY <1>3, <1>4, <1>5, <1>7

\* Nothing is counted in an empty FIFO.
LEMMA CountEmpty == ASSUME NEW v PROVE Count(<<>>, v) = 0
<1>1. Places(<<>>, v) = {}
  BY DEF Places
<1> QED
  BY <1>1, FS_EmptySet DEF Count, Places

-----------------------------------------------------------------------------
(***************************************************************************)
(* The arithmetic of the counters.                                         *)
(***************************************************************************)

\* serviced_reads holds the turn and which beat of it is next.
LEMMA TurnType ==
  ASSUME Types
  PROVE  /\ Turn \in 0..(ReadWrap - 1)
         /\ serviced_reads % 2 \in {0, 1}
         /\ serviced_reads = 2 * Turn + Bit(Odd)
<1> DEFINE n == serviced_reads
<1>1. n \in Nat /\ n <= 2 * ReadWrap - 1 /\ ReadWrap \in Nat
  BY ControllerAssumption DEF Types
<1>2. n = 2 * (n \div 2) + (n % 2) /\ n % 2 \in {0, 1} /\ n \div 2 \in Nat
  BY <1>1
<1> QED
  BY <1>1, <1>2 DEF Turn, Odd, Bit

\* The first beat of a read leaves the turn alone; the second passes it on,
\* around the end of the counter.
LEMMA TurnAdvances ==
  ASSUME Types, serviced_reads' = Plus1(serviced_reads, 2 * ReadWrap)
  PROVE  /\ ~Odd => Turn' = Turn /\ Odd'
         /\ Odd => Turn' = Plus1(Turn, ReadWrap) /\ ~Odd'
<1> DEFINE n == serviced_reads
           m == serviced_reads'
<1>1. n = 2 * Turn + Bit(Odd) /\ Turn \in 0..(ReadWrap - 1) /\ ReadWrap \in Nat
  BY TurnType, ControllerAssumption
<1>2. CASE ~Odd
  <2>1. m = 2 * Turn + 1
    BY <1>1, <1>2 DEF Plus1, Bit
  <2>2. m \div 2 = Turn /\ m % 2 = 1
    BY <1>1, <2>1
  <2> QED
    BY <1>2, <2>2 DEF Turn, Odd
<1>3. CASE Odd
  <2>1. m = 2 * Plus1(Turn, ReadWrap) /\ Plus1(Turn, ReadWrap) \in Nat
    BY <1>1, <1>3 DEF Plus1, Bit
  <2>2. m \div 2 = Plus1(Turn, ReadWrap) /\ m % 2 = 0
    BY <2>1
  <2> QED
    BY <1>3, <2>2 DEF Turn, Odd
<1> QED
  BY <1>2, <1>3

\* Numbers of different places in the order are different, and stay those of
\* the same reads when the turn passes on.
LEMMA SlotFacts ==
  ASSUME Types
  PROVE  /\ \A k \in 1..(ReadWrap + 1) : Slot(Turn, k) \in 0..(ReadWrap - 1)
         /\ Slot(Turn, 1) = Turn
         /\ \A k \in 1..ReadWrap : Slot(Turn, k) = Turn => k = 1
         /\ \A k \in 1..ReadWrap : Slot(Turn, k + 1) = Plus1(Slot(Turn, k), ReadWrap)
         /\ Turn' = Turn => \A k \in 1..(ReadWrap + 1) : Slot(Turn', k) = Slot(Turn, k)
         /\ Turn' = Plus1(Turn, ReadWrap) =>
              \A k \in 1..ReadWrap : Slot(Turn', k) = Slot(Turn, k + 1)
<1>1. Turn \in 0..(ReadWrap - 1) /\ ReadWrap \in Nat
  BY TurnType, ControllerAssumption
<1> QED
  BY <1>1 DEF Slot, Plus1

-----------------------------------------------------------------------------
(***************************************************************************)
(* What the invariant says of one state.                                   *)
(***************************************************************************)

\* There are never more unanswered reads than the counters can number.
LEMMA ReadsFewerThanNumbers ==
  ASSUME IInv
  PROVE  Len(reads) \in Nat /\ Len(reads) <= PixfCredit + 3 /\ Len(reads) <= ReadWrap
<1>1. Count(reads, "pixf") \in Nat /\ Len(reads) \in Nat
  BY CountType DEF IInv, Types
<1> QED
  BY <1>1, ControllerAssumption DEF IInv, ReadsBounded, Bit

\* The controller finds the read at the head of the order by its number.
LEMMA NumbersIdentifyHead ==
  ASSUME IInv, NEW c \in Tagged
  PROVE  ReadOf(c) <=> reads # <<>> /\ reads[1] = c
<1>1. Len(reads) \in Nat /\ Len(reads) <= ReadWrap /\ (reads # <<>> => Len(reads) >= 1)
  BY ReadsFewerThanNumbers DEF IInv, Types
<1>2. ASSUME ReadOf(c)
      PROVE  reads # <<>> /\ reads[1] = c
  <2>1. PICK k \in 1..Len(reads) : reads[k] = c
    BY <1>2 DEF IInv, Unclaimed, ReadOf
  <2>2. Slot(Turn, k) = Turn /\ k \in 1..ReadWrap
    BY <1>1, <1>2, <2>1, ControllerAssumption DEF IInv, Numbered, ReadOf, Turn
  <2>3. k = 1
    BY <2>2, SlotFacts DEF IInv
  <2> QED
    BY <2>1, <2>3, <1>1
<1>3. ASSUME reads # <<>>, reads[1] = c
      PROVE  ReadOf(c)
  BY <1>1, <1>3, SlotFacts DEF IInv, Numbered, ReadOf, Turn
<1> QED
  BY <1>2, <1>3

\* So the Reader is the client whose read is first, and PixelFeeder if there
\* is none.
LEMMA ReaderIsHead ==
  ASSUME IInv
  PROVE  Reader = IF reads = <<>> THEN "pixf" ELSE reads[1]
<1>1. \A c \in Tagged : ReadOf(c) <=> reads # <<>> /\ reads[1] = c
  BY NumbersIdentifyHead
<1>2. reads # <<>> => reads[1] \in Readers
  BY DEF IInv, Types
<1> QED
  BY <1>1, <1>2 DEF Reader, Readers, Tagged, Caches

\* The head of the order when a beat is presented: its client waits for it.
LEMMA BeatIsAwaited ==
  ASSUME IInv, rdf_wren
  PROVE  /\ reads # <<>> /\ Len(reads) >= 1
         /\ Reader = reads[1]
         /\ reads[1] # "pixf" => cs[reads[1]] = IF Odd THEN "READ2" ELSE "READ1"
<1>1. Len(reads) \in Nat /\ Count(caf, "read") \in Nat
  BY CountType DEF IInv, Types
<1>2. Len(reads) >= 1 /\ reads # <<>>
  <2>1. rdf \in Nat /\ owed \in Nat /\ Bit(Odd) \in Nat /\ Bit(rdf_wren) = 1
    BY DEF IInv, Types, Bit
  <2>2. Bit(Odd) + Bit(rdf_wren) + rdf + owed + 2 * Count(caf, "read") = 2 * Len(reads)
    BY DEF IInv, BeatsConserved
  <2>3. PICK a \in Nat, r \in Nat, o \in Nat, m \in Nat, n \in Nat :
          /\ a = Bit(Odd) /\ r = rdf /\ o = owed /\ m = Count(caf, "read") /\ n = Len(reads)
          /\ a + 1 + r + o + 2 * m = 2 * n
    BY <1>1, <2>1, <2>2
  <2>4. n # 0
    BY <2>3
  <2> QED
    BY <2>3, <2>4
<1>3. reads[1] \in Readers
  BY <1>2 DEF IInv, Types
<1>4. reads[1] # "pixf" => cs[reads[1]] = IF Odd THEN "READ2" ELSE "READ1"
  BY <1>1, <1>2, <1>3 DEF IInv, Numbered, Readers
<1> QED
  BY <1>2, <1>4, ReaderIsHead

\* An order that has had the first beat of a read still has that read.
LEMMA OddHasHead ==
  ASSUME IInv, Odd
  PROVE  reads # <<>> /\ Len(reads) >= 1
<1>1. Len(reads) \in Nat /\ Count(caf, "read") \in Nat
  BY CountType DEF IInv, Types
<1> QED
  BY <1>1 DEF IInv, Types, BeatsConserved, Bit

-----------------------------------------------------------------------------
(***************************************************************************)
(* The clock edge and the reads.                                           *)
(***************************************************************************)

Granted(g) == g = NULL \/ (g \in Live /\ Access(g) /\ FifosHaveRoom)

\* The client that fifo_access names is one that asks, and the FIFOs have room
\* for what it pushes.
LEMMA GrantedFacts ==
  ASSUME NEW g, Granted(g)
  PROVE  /\ g \in Clients \union {NULL} /\ NULL \notin Clients
         /\ g # NULL => /\ Len(caf) < CafDepth /\ Len(wdf) < WdfDepth
                        /\ Takes(g, "FETCH") \/ Takes(g, "WRITE1") \/ Takes(g, "WRITE2")
  BY ControllerAssumption DEF Granted, Access, MayAsk, Wants, FifosHaveRoom, Takes,
     Clients, Readers, Tagged, Caches, Writers, NULL

Pop == rdf_wren /\ Odd

\* The reads that stay unanswered keep their numbers.
LEMMA ReadsStay ==
  ASSUME IInv, NEW g, Granted(g), Edge(g)
  PROVE  /\ ReadsLeft \in Seq(Readers)
         /\ Len(ReadsLeft) \in Nat
         /\ Len(ReadsLeft) = Len(reads) - Bit(Pop)
         /\ \A k \in 1..Len(ReadsLeft) : ReadsLeft[k] = reads[k + Bit(Pop)]
         /\ \A k \in 1..(Len(ReadsLeft) + 1) : Slot(Turn', k) = Slot(Turn, k + Bit(Pop))
         /\ Odd' <=> IF rdf_wren THEN ~Odd ELSE Odd
<1>1. Len(reads) \in Nat /\ Len(reads) <= ReadWrap /\ reads \in Seq(Readers)
  BY ReadsFewerThanNumbers DEF IInv, Types
<1>2. CASE Pop
  <2>1. reads # <<>> /\ Len(reads) >= 1
    BY <1>2, OddHasHead DEF Pop
  <2>2. ReadsLeft = Tail(reads)
    BY <1>2 DEF Pop, Odd, ReadsLeft
  <2>3. Turn' = Plus1(Turn, ReadWrap) /\ ~Odd'
    BY <1>2, TurnAdvances DEF Pop, IInv, Edge, CountReads
  <2>4. \A k \in 1..ReadWrap : Slot(Turn', k) = Slot(Turn, k + 1)
    BY <2>3, SlotFacts DEF IInv
  <2> QED
    BY <1>1, <1>2, <2>1, <2>2, <2>3, <2>4, ControllerAssumption DEF Pop, Bit
<1>3. CASE ~Pop
  <2>1. ReadsLeft = reads
    BY <1>3 DEF Pop, Odd, ReadsLeft
  <2>2. Turn' = Turn /\ (Odd' <=> IF rdf_wren THEN ~Odd ELSE Odd)
    <3>1. CASE rdf_wren
      BY <1>3, <3>1, TurnAdvances DEF Pop, IInv, Edge, CountReads
    <3>2. CASE ~rdf_wren
      BY <3>2 DEF Edge, CountReads, Turn, Odd
    <3> QED
      BY <3>1, <3>2
  <2>3. \A k \in 1..(ReadWrap + 1) : Slot(Turn', k) = Slot(Turn, k)
    BY <2>2, SlotFacts DEF IInv
  <2> QED
    BY <1>1, <1>3, <2>1, <2>2, <2>3, ControllerAssumption DEF Pop, Bit
<1> QED
  BY <1>2, <1>3

\* A new read goes behind them.
LEMMA ReadsGrow ==
  ASSUME IInv, NEW g, Granted(g), Edge(g)
  PROVE  /\ reads' \in Seq(Readers)
         /\ Len(reads') = Len(ReadsLeft) + Bit(Takes(g, "FETCH"))
         /\ \A k \in 1..Len(ReadsLeft) : reads'[k] = ReadsLeft[k]
         /\ Takes(g, "FETCH") => g \in Readers /\ reads'[Len(ReadsLeft) + 1] = g
<1>1. ReadsLeft \in Seq(Readers) /\ Len(ReadsLeft) \in Nat
  BY ReadsStay
<1>2. Takes(g, "FETCH") => g \in Readers
  <2>1. ASSUME NEW c \in Clients, c \notin Readers
        PROVE  cs[c] # "FETCH"
    BY <2>1 DEF IInv, Types, States, Clients, Readers, Tagged, Caches, Writers
  <2> QED
    BY <2>1, GrantedFacts DEF Takes
<1>3. CASE Takes(g, "FETCH")
  BY <1>1, <1>2, <1>3 DEF Edge, Remember, Bit
<1>4. CASE ~Takes(g, "FETCH")
  BY <1>1, <1>4 DEF Edge, Remember, Bit
<1> QED
  BY <1>3, <1>4

\* What the edge does to a client that waits.
LEMMA WaitingClient ==
  ASSUME IInv, NEW g, Granted(g), Edge(g), NEW c \in Tagged, Waits(c)
  PROVE  /\ c # g
         /\ req_num'[c] = req_num[c]
         /\ ~BeatFor(c) => req_valid'[c] = req_valid[c] /\ cs'[c] = cs[c]
         /\ BeatFor(c) => /\ req_valid'[c] = req_valid[c] - 1
                          /\ cs[c] = "READ1" => cs'[c] = "READ2"
                          /\ cs[c] = "READ2" => cs'[c] = "IDLE"
<1>1. c # g /\ c \in Clients
  BY GrantedFacts DEF Takes, Waits, Clients, Readers
<1>2. rdf_wren /\ ReadOf(c) <=> BeatFor(c)
  BY NumbersIdentifyHead, ReaderIsHead, BeatIsAwaited DEF BeatFor, Tagged, Caches
<1> QED
  BY <1>1, <1>2 DEF Edge, NumberReads, Advance, Waits, OnBeat

\* What the edge does to the client that is granted.
LEMMA GrantedClient ==
  ASSUME IInv, NEW g, Granted(g), Edge(g)
  PROVE  /\ Takes(g, "FETCH") => cs'[g] = IF g = "pixf" THEN "IDLE" ELSE "READ1"
         /\ Takes(g, "WRITE1") => cs'[g] = "WRITE2"
         /\ Takes(g, "WRITE2") => cs'[g] = "IDLE"
<1>1. g # NULL => g \in Clients
  BY GrantedFacts
<1>2. ASSUME g = "pixf", g # NULL
      PROVE  cs[g] \in {"IDLE", "FETCH"}
  BY <1>1, <1>2 DEF IInv, Types, States, Caches
<1> QED
  BY <1>1, <1>2 DEF Edge, Advance, Takes, OnGrant

\* And to all others: a client neither granted nor waiting keeps its state.
LEMMA OtherClient ==
  ASSUME NEW g, Edge(g), NEW c \in Clients, c # g, ~Waits(c)
  PROVE  cs'[c] = cs[c]
BY DEF Edge, Advance

\* Across the clock edge every unanswered read keeps its number, even while the
\* counters wrap, a beat is taken and a read is granted in the same cycle.
LEMMA NumberedNext ==
  ASSUME IInv, NEW g, Granted(g), Edge(g)
  PROVE  Numbered'
<1> DEFINE b == Bit(Pop)
           n == Len(ReadsLeft)
<1>1. n \in Nat /\ n = Len(reads) - b /\ b \in {0, 1} /\ (b = 1 <=> Pop)
  BY ReadsStay DEF Bit
<1>2. Len(reads) \in Nat /\ Len(reads) <= ReadWrap
  BY ReadsFewerThanNumbers
<1>3. Len(reads') = n + Bit(Takes(g, "FETCH"))
  BY ReadsGrow
<1>4. issued_reads' = Slot(Turn', Len(reads') + 1)
  <2>1. issued_reads = Slot(Turn, Len(reads) + 1) /\ Slot(Turn', n + 1) = Slot(Turn, n + 1 + b)
    BY <1>1, ReadsStay DEF IInv, Numbered
  <2>2. Slot(Turn', n + 1) = issued_reads
    BY <1>1, <2>1
  <2>3. CASE ~Takes(g, "FETCH")
    BY <1>1, <1>3, <2>2, <2>3 DEF Edge, CountReads, fetch_issued, Bit
  <2>4. CASE Takes(g, "FETCH")
    <3>1. issued_reads' = Plus1(Slot(Turn', n + 1), ReadWrap)
      BY <2>2, <2>4 DEF Edge, CountReads, fetch_issued
    <3>2. Turn' \in 0..(ReadWrap - 1)
      <4>1. Turn \in 0..(ReadWrap - 1)
        BY TurnType DEF IInv
      <4>2. CASE rdf_wren
        BY <4>1, <4>2, TurnAdvances, ControllerAssumption
           DEF IInv, Edge, CountReads, Plus1
      <4>3. CASE ~rdf_wren
        BY <4>1, <4>3 DEF Edge, CountReads, Turn
      <4> QED
        BY <4>2, <4>3
    <3>3. n + 1 <= ReadWrap
      <4>1. Len(reads) < ReadWrap
        <5>1. g \in Readers /\ cs[g] = "FETCH"
          BY <2>4, ReadsGrow DEF Takes
        <5>2. Count(reads, "pixf") \in Nat
          BY CountType DEF IInv, Types
        <5> QED
          BY <5>1, <5>2, ControllerAssumption
             DEF IInv, ReadsBounded, Bit, Waits, Readers, Tagged, Caches
      <4> QED
        BY <4>1, <1>1, ControllerAssumption
    <3>4. Slot(Turn', n + 2) = Plus1(Slot(Turn', n + 1), ReadWrap)
      BY <1>1, <3>2, <3>3, ControllerAssumption, SMTT(30) DEF Slot, Plus1
    <3> QED
      BY <1>1, <1>3, <2>4, <3>1, <3>4 DEF Bit
  <2> QED
    BY <2>3, <2>4
<1>5. ASSUME NEW k \in 1..n, reads'[k] \in Tagged
      PROVE  /\ req_num'[reads'[k]] = Slot(Turn', k)
             /\ req_valid'[reads'[k]] = IF k = 1 /\ Odd' THEN 1 ELSE 2
             /\ cs'[reads'[k]] = IF k = 1 /\ Odd' THEN "READ2" ELSE "READ1"
  <2> DEFINE c == reads'[k]
  <2>1. c = reads[k + b] /\ k + b \in 1..Len(reads) /\ Slot(Turn', k) = Slot(Turn, k + b)
    BY <1>1, <1>2, ReadsStay, ReadsGrow
  <2>2. /\ req_num[c] = Slot(Turn, k + b)
        /\ req_valid[c] = IF k + b = 1 /\ Odd THEN 1 ELSE 2
        /\ cs[c] = IF k + b = 1 /\ Odd THEN "READ2" ELSE "READ1"
    BY <1>5, <2>1 DEF IInv, Numbered
  <2>3. BeatFor(c) <=> rdf_wren /\ k + b = 1
    <3>1. rdf_wren => Reader = reads[1] /\ Len(reads) >= 1
      BY BeatIsAwaited
    <3>2. reads[1] = c /\ Len(reads) >= 1 => k + b = 1
      BY <1>2, <1>5, <2>1 DEF IInv, OneEach
    <3> QED
      BY <2>1, <3>1, <3>2 DEF BeatFor
  <2>4. Odd' <=> IF rdf_wren THEN ~Odd ELSE Odd
    BY ReadsStay
  <2>5. Waits(c)
    BY <2>2 DEF Waits
  <2> QED
    BY <1>1, <1>5, <2>1, <2>2, <2>3, <2>4, <2>5, WaitingClient DEF Pop
<1>6. ASSUME Takes(g, "FETCH"), reads'[n + 1] \in Tagged
      PROVE  /\ req_num'[reads'[n + 1]] = Slot(Turn', n + 1)
             /\ req_valid'[reads'[n + 1]] = 2
             /\ cs'[reads'[n + 1]] = "READ1"
             /\ ~(n + 1 = 1 /\ Odd')
  <2>1. reads'[n + 1] = g
    BY <1>6, ReadsGrow
  <2>2. req_num'[g] = issued_reads /\ req_valid'[g] = 2
    BY <1>6, <2>1 DEF Edge, NumberReads, fetch_issued
  <2>3. issued_reads = Slot(Turn', n + 1)
    BY <1>1, ReadsStay DEF IInv, Numbered
  <2>4. cs'[g] = "READ1"
    BY <1>6, <2>1, GrantedClient DEF Tagged, Caches
  <2>5. ~(n = 0 /\ Odd')
    BY <1>1, ReadsStay, BeatIsAwaited, OddHasHead DEF Pop
  <2> QED
    BY <1>1, <2>1, <2>2, <2>3, <2>4, <2>5
<1>7. ASSUME NEW k \in 1..Len(reads'), reads'[k] \in Tagged
      PROVE  /\ req_num'[reads'[k]] = Slot(Turn', k)
             /\ req_valid'[reads'[k]] = IF k = 1 /\ Odd' THEN 1 ELSE 2
             /\ cs'[reads'[k]] = IF k = 1 /\ Odd' THEN "READ2" ELSE "READ1"
  <2>1. CASE k \in 1..n
    BY <1>5, <1>7, <2>1
  <2>2. CASE k \notin 1..n
    <3>1. Takes(g, "FETCH") /\ k = n + 1
      BY <1>1, <1>3, <2>2 DEF Bit
    <3> QED
      BY <1>6, <1>7, <3>1
  <2> QED
    BY <2>1, <2>2
<1> QED
  BY <1>4, <1>7 DEF Numbered

\* No client is granted a second read before its first has been answered.
LEMMA OneEachNext ==
  ASSUME IInv, NEW g, Granted(g), Edge(g)
  PROVE  OneEach'
<1> DEFINE b == Bit(Pop)
           n == Len(ReadsLeft)
<1>1. n \in Nat /\ n = Len(reads) - b /\ b \in {0, 1} /\ Len(reads) \in Nat
  BY ReadsStay, ReadsFewerThanNumbers DEF Bit
<1>2. \A k \in 1..n : reads'[k] = reads[k + b] /\ k + b \in 1..Len(reads)
  BY <1>1, ReadsStay, ReadsGrow
<1>3. \A k \in 1..n : reads'[k] \in Tagged => ~Takes(g, "FETCH") \/ reads'[k] # g
  BY <1>2 DEF IInv, Numbered, Takes
<1>4. Len(reads') = n + Bit(Takes(g, "FETCH")) /\ (Takes(g, "FETCH") => reads'[n + 1] = g)
  BY ReadsGrow
<1>5. ASSUME NEW j \in 1..Len(reads'), NEW k \in 1..Len(reads'),
             reads'[j] = reads'[k], reads'[j] \in Tagged
      PROVE  j = k
  <2>1. CASE j \in 1..n /\ k \in 1..n
    <3>1. /\ reads[j + b] = reads[k + b] /\ reads[j + b] \in Tagged
          /\ j + b \in 1..Len(reads) /\ k + b \in 1..Len(reads)
      BY <1>2, <1>5, <2>1
    <3>2. j + b = k + b
      BY <3>1 DEF IInv, OneEach
    <3> QED
      BY <1>1, <3>2
  <2>2. CASE ~(j \in 1..n /\ k \in 1..n)
    BY <1>1, <1>3, <1>4, <1>5, <2>2 DEF Bit
  <2> QED
    BY <2>1, <2>2
<1> QED
  BY <1>5 DEF OneEach

\* The second beat of a read clears its client's req_valid and lets it go on.
LEMMA UnclaimedNext ==
  ASSUME IInv, NEW g, Granted(g), Edge(g)
  PROVE  Unclaimed'
<1> DEFINE b == Bit(Pop)
           n == Len(ReadsLeft)
<1> SUFFICES ASSUME NEW c \in Tagged, \A k \in 1..Len(reads') : reads'[k] # c
             PROVE  req_valid'[c] = 0 /\ ~Waits(c)'
  BY DEF Unclaimed
<1>1. n \in Nat /\ n = Len(reads) - b /\ Len(reads) \in Nat /\ (b = 1 <=> Pop)
      /\ b \in {0, 1} /\ (Len(reads) >= 1 => reads # <<>>)
  BY ReadsStay, ReadsFewerThanNumbers DEF Bit
<1>2. \A k \in 1..n : reads[k + b] # c
  BY <1>1, ReadsStay, ReadsGrow DEF Bit
<1>3. ~(c = g /\ Takes(g, "FETCH"))
  BY <1>1, ReadsGrow DEF Bit
<1>4. CASE \E k \in 1..Len(reads) : reads[k] = c
  <2>1. Pop /\ reads[1] = c
    <3>1. PICK k \in 1..Len(reads) : reads[k] = c
      BY <1>4
    <3>2. k - b \notin 1..n
      BY <1>1, <1>2, <3>1
    <3> QED
      BY <1>1, <3>1, <3>2
  <2>2. req_valid[c] = 1 /\ cs[c] = "READ2" /\ Waits(c)
    BY <1>4, <2>1 DEF IInv, Numbered, Pop, Waits
  <2>3. BeatFor(c)
    BY <2>1, BeatIsAwaited DEF Pop, BeatFor
  <2> QED
    BY <2>2, <2>3, WaitingClient DEF Waits
<1>5. CASE \A k \in 1..Len(reads) : reads[k] # c
  <2>1. req_valid[c] = 0 /\ ~Waits(c)
    BY <1>5 DEF IInv, Unclaimed
  <2>2. req_valid'[c] = 0
    BY <1>3, <2>1 DEF Edge, NumberReads, fetch_issued, ReadOf
  <2>3. ~Waits(c)'
    <3>1. c \in Clients
      BY DEF Clients, Readers
    <3>2. CASE c = g
      <4>1. Takes(g, "WRITE1") \/ Takes(g, "WRITE2")
        BY <1>3, <3>1, <3>2, GrantedFacts
      <4> QED
        BY <3>2, <4>1, GrantedClient DEF Waits
    <3>3. CASE c # g
      BY <2>1, <3>1, <3>3, OtherClient DEF Waits
    <3> QED
      BY <3>2, <3>3
  <2> QED
    BY <2>2, <2>3
<1> QED
  BY <1>4, <1>5

\* The edge loses no beat and invents none: what leaves the read FIFO is on the
\* wire, what was on the wire has been delivered, and a grant owes two more.
LEMMA BeatsConservedNext ==
  ASSUME IInv, NEW g, Granted(g), Edge(g)
  PROVE  BeatsConserved'
<1>1. Len(reads') = Len(reads) - Bit(Pop) + Bit(Takes(g, "FETCH")) /\ Len(reads) \in Nat
  BY ReadsStay, ReadsGrow, ReadsFewerThanNumbers DEF Bit
<1>2. Count(caf, "read") \in Nat /\ caf \in Seq({"read", "write"}) /\ rdf \in Nat
      /\ owed \in Nat /\ owed' = owed
  BY CountType DEF IInv, Types, Edge, Push
<1>3. Count(caf', "read") = Count(caf, "read") + Bit(Takes(g, "FETCH"))
  <2>1. CASE Takes(g, "FETCH")
    BY <1>2, <2>1, CountAppend DEF Edge, Push, Bit
  <2>2. CASE Takes(g, "WRITE1")
    <3>1. caf' = Append(caf, "write") /\ ~Takes(g, "FETCH")
      BY <2>2 DEF Edge, Push, Takes
    <3> QED
      BY <1>2, <3>1, CountAppend DEF Bit
  <2>3. CASE ~Takes(g, "FETCH") /\ ~Takes(g, "WRITE1")
    BY <1>2, <2>3 DEF Edge, Push, Bit
  <2> QED
    BY <2>1, <2>2, <2>3
<1>4. Bit(rdf_wren') + rdf' = rdf /\ rdf' \in Nat
  <2>1. CASE rdf_rden /\ rdf > 0
    <3>1. rdf_wren' /\ rdf' = rdf - 1
      BY <2>1 DEF Edge, Push
    <3> QED
      BY <1>2, <2>1, <3>1 DEF Bit
  <2>2. CASE ~(rdf_rden /\ rdf > 0)
    <3>1. ~rdf_wren' /\ rdf' = rdf
      BY <2>2 DEF Edge, Push
    <3> QED
      BY <1>2, <3>1 DEF Bit
  <2> QED
    BY <2>1, <2>2
<1>5. Bit(Odd') = Bit(Odd) + Bit(rdf_wren) - 2 * Bit(Pop)
  BY ReadsStay DEF Pop, Bit
<1>6. Bit(Odd) + Bit(rdf_wren) + rdf + owed + 2 * Count(caf, "read") = 2 * Len(reads)
  BY DEF IInv, BeatsConserved
<1>7. PICK odd \in Nat, wren \in Nat, wren2 \in Nat, pop \in Nat, fetch \in Nat,
           n \in Nat, m \in Nat, rd \in Nat, rd2 \in Nat, ow \in Nat :
        /\ odd = Bit(Odd) /\ wren = Bit(rdf_wren) /\ wren2 = Bit(rdf_wren')
        /\ pop = Bit(Pop) /\ fetch = Bit(Takes(g, "FETCH"))
        /\ n = Len(reads) /\ m = Count(caf, "read") /\ rd = rdf /\ rd2 = rdf' /\ ow = owed
  BY <1>1, <1>2, <1>4, ZenonT(30) DEF Bit
<1>8. Bit(Odd') + Bit(rdf_wren') + rdf' + owed' + 2 * Count(caf', "read") = 2 * Len(reads')
  <2>1. Len(reads') = n - pop + fetch /\ Count(caf', "read") = m + fetch
    BY <1>1, <1>3, <1>7
  <2>2. wren2 + rd2 = rd /\ Bit(Odd') = odd + wren - 2 * pop
    BY <1>4, <1>5, <1>7
  <2>3. odd + wren + rd + ow + 2 * m = 2 * n
    BY <1>6, <1>7
  <2>4. (odd + wren - 2 * pop) + wren2 + rd2 + ow + 2 * (m + fetch) = 2 * (n - pop + fetch)
    BY <2>2, <2>3
  <2> QED
    BY <1>2, <1>7, <2>1, <2>2, <2>4
<1> QED
  BY <1>8 DEF BeatsConserved

\* A client starts to wait when its read is granted, and stops when the read
\* leaves the order.
LEMMA WaitsNext ==
  ASSUME IInv, NEW g, Granted(g), Edge(g), NEW c \in Tagged
  PROVE  /\ Takes(g, "FETCH") /\ g = c => ~Waits(c) /\ Waits(c)'
         /\ Pop /\ reads[1] = c => Waits(c) /\ ~Waits(c)'
         /\ ~(Takes(g, "FETCH") /\ g = c) /\ ~(Pop /\ reads[1] = c) =>
              (Waits(c)' <=> Waits(c))
<1>1. Pop /\ reads[1] = c => cs[c] = "READ2" /\ BeatFor(c)
  BY BeatIsAwaited DEF Pop, BeatFor, Tagged, Caches
<1>2. ASSUME Takes(g, "FETCH"), g = c
      PROVE  ~Waits(c) /\ Waits(c)' /\ ~(Pop /\ reads[1] = c)
  BY <1>1, <1>2, GrantedClient DEF Waits, Takes, Tagged, Caches
<1>3. ASSUME Pop, reads[1] = c
      PROVE  Waits(c) /\ ~Waits(c)'
  BY <1>1, <1>3, WaitingClient DEF Waits
<1>4. ASSUME ~(Takes(g, "FETCH") /\ g = c), ~(Pop /\ reads[1] = c)
      PROVE  Waits(c)' <=> Waits(c)
  <2>1. CASE Waits(c)
    <3>1. cs[c] = "READ2" => ~BeatFor(c)
      BY <1>4, <2>1, BeatIsAwaited DEF Pop, BeatFor, Tagged, Caches
    <3>2. cs'[c] \in {"READ1", "READ2"}
      BY <2>1, <3>1, WaitingClient DEF Waits
    <3> QED
      BY <2>1, <3>2 DEF Waits
  <2>2. CASE ~Waits(c) /\ c = g
    <3>1. Takes(g, "WRITE1") \/ Takes(g, "WRITE2")
      BY <1>4, <2>2, GrantedFacts DEF Clients, Readers
    <3> QED
      BY <2>2, <3>1, GrantedClient DEF Waits
  <2>3. CASE ~Waits(c) /\ c # g
    BY <2>3, OtherClient DEF Waits, Clients, Readers
  <2> QED
    BY <2>1, <2>2, <2>3
<1> QED
  BY <1>2, <1>3, <1>4

\* The edge keeps the reads within one per cache and DDRStage, and PixelFeeder's
\* within its credit.
LEMMA ReadsBoundedNext ==
  ASSUME IInv, NEW g, Granted(g), Edge(g)
  PROVE  ReadsBounded'
<1> DEFINE fetch(c) == Bit(Takes(g, "FETCH") /\ g = c)
           leave(c) == Bit(Pop /\ reads[1] = c)
<1>1. reads \in Seq(Readers) /\ Len(reads) \in Nat /\ Count(reads, "pixf") \in Nat
  BY CountType, ReadsFewerThanNumbers DEF IInv, Types
<1>2. Count(reads', "pixf") = Count(reads, "pixf") - leave("pixf") + fetch("pixf")
  <2>1. ReadsLeft \in Seq(Readers) /\ Count(ReadsLeft, "pixf") \in Nat
    BY ReadsStay, CountType
  <2>2. Count(ReadsLeft, "pixf") = Count(reads, "pixf") - leave("pixf")
    <3>1. CASE Pop
      <4>1. ReadsLeft = Tail(reads) /\ reads # <<>>
        BY <3>1, OddHasHead DEF Pop, Odd, ReadsLeft
      <4> QED
        BY <1>1, <3>1, <4>1, CountTail DEF Bit
    <3>2. CASE ~Pop
      BY <1>1, <3>2 DEF Pop, Odd, ReadsLeft, Bit
    <3> QED
      BY <3>1, <3>2
  <2>3. CASE Takes(g, "FETCH")
    <3>1. g \in Readers /\ reads' = Append(ReadsLeft, g)
      BY <2>3, ReadsGrow DEF Edge, Remember
    <3>2. Count(reads', "pixf") = Count(ReadsLeft, "pixf") + Bit(g = "pixf")
      BY <2>1, <3>1, CountAppend
    <3> QED
      BY <2>2, <2>3, <3>2 DEF Bit
  <2>4. CASE ~Takes(g, "FETCH")
    BY <1>1, <2>1, <2>2, <2>4 DEF Edge, Remember, Bit
  <2> QED
    BY <2>3, <2>4
<1>3. ASSUME NEW c \in Tagged
      PROVE  Bit(Waits(c)') = Bit(Waits(c)) - leave(c) + fetch(c)
  BY WaitsNext DEF Bit
<1>4. Bit(Takes(g, "FETCH")) = fetch("pixf") + fetch("inst") + fetch("data") + fetch("gcmd")
  BY ReadsGrow DEF Bit, Readers, Tagged, Caches
<1>5. Bit(Pop) = leave("pixf") + leave("inst") + leave("data") + leave("gcmd")
  <2>1. Pop => reads[1] \in Readers
    BY <1>1, OddHasHead DEF Pop
  <2> QED
    BY <2>1 DEF Bit, Readers, Tagged, Caches
<1>6. Len(reads') = Len(reads) - Bit(Pop) + Bit(Takes(g, "FETCH"))
  BY ReadsStay, ReadsGrow DEF Bit
<1>7. Len(reads') = Count(reads', "pixf") + Bit(Waits("inst")') + Bit(Waits("data")')
                                         + Bit(Waits("gcmd")')
  <2>1. Len(reads) = Count(reads, "pixf") + Bit(Waits("inst")) + Bit(Waits("data"))
                                         + Bit(Waits("gcmd"))
    BY DEF IInv, ReadsBounded
  <2>2. "inst" \in Tagged /\ "data" \in Tagged /\ "gcmd" \in Tagged
    BY DEF Tagged, Caches
  <2>3. PICK n \in Nat, p \in Nat, l1 \in Nat, l2 \in Nat, l3 \in Nat, l4 \in Nat,
             f1 \in Nat, f2 \in Nat, f3 \in Nat, f4 \in Nat,
             w1 \in Nat, w2 \in Nat, w3 \in Nat :
          /\ n = Len(reads) /\ p = Count(reads, "pixf")
          /\ l1 = leave("pixf") /\ l2 = leave("inst") /\ l3 = leave("data") /\ l4 = leave("gcmd")
          /\ f1 = fetch("pixf") /\ f2 = fetch("inst") /\ f3 = fetch("data") /\ f4 = fetch("gcmd")
          /\ w1 = Bit(Waits("inst")) /\ w2 = Bit(Waits("data")) /\ w3 = Bit(Waits("gcmd"))
    BY <1>1 DEF Bit
  <2>4. n = p + w1 + w2 + w3
    BY <2>1, <2>3
  <2>5. Len(reads') = n - (l1 + l2 + l3 + l4) + (f1 + f2 + f3 + f4)
    BY <1>4, <1>5, <1>6, <2>3
  <2>6. /\ Count(reads', "pixf") = p - l1 + f1
        /\ Bit(Waits("inst")') = w1 - l2 + f2
        /\ Bit(Waits("data")') = w2 - l3 + f3
        /\ Bit(Waits("gcmd")') = w3 - l4 + f4
    BY <1>2, <1>3, <2>2, <2>3
  <2> QED
    BY <2>4, <2>5, <2>6
<1>8. Count(reads', "pixf") <= PixfCredit
  BY <1>1, <1>2, ControllerAssumption DEF IInv, ReadsBounded, Bit, Takes
<1>9. cs'["pixf"] = "FETCH" => Count(reads', "pixf") < PixfCredit
  <2>1. ASSUME cs'["pixf"] = "FETCH"
        PROVE  g # "pixf" /\ cs["pixf"] = "FETCH"
    <3>1. "pixf" \in Clients /\ cs["pixf"] \in {"IDLE", "FETCH"}
      BY DEF IInv, Types, States, Clients, Readers, Caches
    <3> QED
      BY <2>1, <3>1 DEF Edge, Advance, Waits
  <2> QED
    BY <1>1, <1>2, <2>1, ControllerAssumption DEF IInv, ReadsBounded, Bit
<1> QED
  BY <1>7, <1>8, <1>9 DEF ReadsBounded

-----------------------------------------------------------------------------
(***************************************************************************)
(* The clock edge and the writes.                                          *)
(***************************************************************************)

\* Who is granted while another client is between its two beats: nobody.
LEMMA OpenExcludes ==
  ASSUME IInv, NEW g, Granted(g), g # NULL, NEW c \in Clients, Open(c)
  PROVE  g = c
<1>1. /\ g \in Live /\ Wants(g)
      /\ \A w \in Writers : reserved[w] => g = w
      /\ \A d \in Live : Rank[d] < Rank[g] => ~MayAsk(d)
      /\ g \in Clients
  BY ControllerAssumption DEF Granted, Access, MayAsk
<1>2. CASE c \in Writers
  BY <1>1, <1>2 DEF IInv, Exclusive
<1>3. CASE c \in Caches
  <2>1. c \in Live /\ Wants(c) /\ c \notin Writers
    BY <1>3, ControllerAssumption DEF Open, Wants, Caches, Writers
  <2>2. \A w \in Writers : ~Open(w)
    BY <2>1 DEF IInv, Exclusive, Clients
  <2>3. MayAsk(c)
    BY <2>1, <2>2 DEF MayAsk, IInv, Exclusive
  <2>4. c = "data" => g # "inst"
    BY <1>1 DEF IInv, Exclusive, Open
  <2>5. g # c => Rank[c] < Rank[g]
    BY <1>1, <1>3, <2>4 DEF Rank, Clients, Readers, Tagged, Caches, Writers
  <2> QED
    BY <1>1, <2>1, <2>3, <2>5
<1>4. c \in Caches \union Writers
  BY DEF IInv, Types, States, Open, Clients, Readers, Tagged, Writers
<1> QED
  BY <1>2, <1>3, <1>4

\* A client is between its two beats from the grant of the first to that of the
\* second.
LEMMA OpenNext ==
  ASSUME IInv, NEW g, Granted(g), Edge(g), NEW c \in Clients
  PROVE  Open(c)' <=> (Takes(g, "WRITE1") /\ g = c) \/ (Open(c) /\ c # g)
<1>1. CASE c = g
  <2>1. Takes(g, "FETCH") \/ Takes(g, "WRITE1") \/ Takes(g, "WRITE2")
    BY <1>1, GrantedFacts
  <2> QED
    BY <1>1, <2>1, GrantedClient DEF Open, Takes
<1>2. CASE c # g /\ ~Waits(c)
  BY <1>2, OtherClient DEF Open
<1>3. CASE c # g /\ Waits(c)
  <2>1. cs'[c] \in {"READ1", "READ2", "IDLE"}
    BY <1>3 DEF Edge, Advance, Waits, OnBeat
  <2> QED
    BY <1>3, <2>1 DEF Open, Waits
<1> QED
  BY <1>1, <1>2, <1>3

\* The reserved flags go on telling which write-only client is between its
\* beats, and there is at most one such client of any kind.
LEMMA ExclusiveNext ==
  ASSUME IInv, NEW g, Granted(g), Edge(g)
  PROVE  Exclusive'
<1>1. ASSUME NEW w \in Writers
      PROVE  reserved'[w] <=> Open(w)'
  <2>1. w \in Clients /\ cs[w] \in {"IDLE", "WRITE1", "WRITE2"}
    BY DEF IInv, Types, States, Clients, Writers, Caches
  <2>2. reserved[w] <=> Open(w)
    BY DEF IInv, Exclusive
  <2>3. reserved'[w] = IF w = g THEN ~reserved[w] ELSE reserved[w]
    BY DEF Edge, Reserve
  <2>4. CASE w = g
    <3>1. Takes(g, "WRITE1") \/ Takes(g, "WRITE2")
      BY <2>1, <2>4, GrantedFacts DEF Takes
    <3> QED
      BY <2>1, <2>2, <2>3, <2>4, <3>1, OpenNext DEF Open, Takes
  <2>5. CASE w # g
    BY <2>1, <2>2, <2>3, <2>5, OpenNext
  <2> QED
    BY <2>4, <2>5
<1>2. ASSUME NEW c \in Clients, NEW d \in Clients, Open(c)', Open(d)'
      PROVE  c = d
  <2>1. Takes(g, "WRITE1") => \A e \in Clients : ~Open(e)
    BY OpenExcludes DEF Takes, Open
  <2> QED
    BY <1>2, <2>1, OpenNext DEF IInv, Exclusive
<1>3. ASSUME Wants("inst")'
      PROVE  cs'["data"] \in {"IDLE", "FETCH", "WRITE1"}
  <2>1. "inst" \in Clients /\ "data" \in Clients /\ "inst" \in Live
    BY ControllerAssumption DEF Clients, Readers, Tagged, Caches
  <2>2. Wants("inst")
    <3>1. CASE g = "inst"
      BY <2>1, <3>1, GrantedFacts DEF Takes, Wants
    <3>2. CASE g # "inst"
      BY <1>3, <2>1, <3>2 DEF Edge, Advance, Waits, OnBeat, Wants
    <3> QED
      BY <3>1, <3>2
  <2>3. cs["data"] \in {"IDLE", "FETCH", "WRITE1"}
    BY <2>2 DEF IInv, Exclusive
  <2>4. g # "data"
    <3>1. SUFFICES ASSUME g = "data" PROVE FALSE
      OBVIOUS
    <3>2. MayAsk("data") /\ ~MayAsk("inst")
      BY <2>1, <3>1 DEF Granted, Access, Rank, NULL
    <3> QED
      BY <2>2, <3>2 DEF MayAsk, Writers
  <2> QED
    BY <2>1, <2>3, <2>4, OtherClient DEF Waits
<1>4. ASSUME NEW c \in Clients \ Live
      PROVE  cs'[c] = "IDLE"
  <2>1. cs[c] = "IDLE"
    BY DEF IInv, Exclusive
  <2>2. c # g
    BY <2>1, GrantedFacts DEF Takes
  <2> QED
    BY <2>1, <2>2, OtherClient DEF Waits
<1> QED
  BY <1>1, <1>2, <1>3, <1>4 DEF Exclusive

\* The edge keeps the data FIFO made of pairs: a first beat comes when all pairs
\* are complete, a second beat right behind its first.
LEMMA PairedNext ==
  ASSUME IInv, NEW g, Granted(g), Edge(g)
  PROVE  Paired'
<1>1. /\ wdf \in Seq([of : Clients, half : {1, 2}]) /\ writes \in Seq(Clients)
      /\ Len(wdf) \in Nat /\ Len(writes) \in Nat
  BY DEF IInv, Types
<1>2. /\ Len(wdf) = 2 * Len(writes) - (IF AnyOpen THEN 1 ELSE 0)
      /\ \A c \in Clients : Open(c) => writes # <<>> /\ writes[Len(writes)] = c
      /\ \A k \in 1..Len(writes) :
           /\ wdf[2 * k - 1] = [of |-> writes[k], half |-> 1]
           /\ 2 * k <= Len(wdf) => wdf[2 * k] = [of |-> writes[k], half |-> 2]
  BY DEF IInv, Paired
<1>3. \A c \in Clients : Open(c)' <=> (Takes(g, "WRITE1") /\ g = c) \/ (Open(c) /\ c # g)
  BY OpenNext
<1>4. CASE Takes(g, "WRITE1")
  <2>1. g \in Clients /\ \A c \in Clients : ~Open(c)
    BY <1>4, OpenExcludes, GrantedFacts DEF Takes, Open
  <2>2. wdf' = Append(wdf, [of |-> g, half |-> 1]) /\ writes' = Append(writes, g)
    BY <1>4 DEF Edge, Push, Remember
  <2>3. Len(wdf) = 2 * Len(writes)
    <3>1. ~AnyOpen
      BY <2>1 DEF AnyOpen
    <3> QED
      BY <1>1, <1>2, <3>1
  <2>4. /\ Len(wdf') = Len(wdf) + 1 /\ Len(writes') = Len(writes) + 1
        /\ writes'[Len(writes) + 1] = g /\ \A k \in 1..Len(writes) : writes'[k] = writes[k]
    <3>1. [of |-> g, half |-> 1] \in [of : Clients, half : {1, 2}]
      BY <2>1
    <3> QED
      BY <1>1, <2>1, <2>2, <3>1
  <2>5. \A c \in Clients : Open(c)' <=> c = g
    BY <1>3, <1>4, <2>1
  <2>6. /\ Len(wdf') = 2 * Len(writes') - 1
        /\ writes' # <<>> /\ writes'[Len(writes')] = g
    <3>1. PICK n \in Nat, m \in Nat : n = Len(wdf) /\ m = Len(writes)
      BY <1>1
    <3>2. n = 2 * m /\ Len(wdf') = n + 1 /\ Len(writes') = m + 1
      BY <2>3, <2>4, <3>1
    <3>3. Len(wdf') = 2 * Len(writes') - 1
      BY <3>2
    <3>4. writes' # <<>>
      BY <1>1, <2>1, <2>2
    <3> QED
      BY <2>4, <3>3, <3>4
  <2>7. ASSUME NEW k \in 1..Len(writes')
        PROVE  /\ wdf'[2 * k - 1] = [of |-> writes'[k], half |-> 1]
               /\ 2 * k <= Len(wdf') => wdf'[2 * k] = [of |-> writes'[k], half |-> 2]
    <3>1. CASE k <= Len(writes)
      <4>1. k \in 1..Len(writes) /\ 2 * k - 1 \in 1..Len(wdf) /\ 2 * k \in 1..Len(wdf)
        BY <1>1, <2>3, <3>1
      <4>2. wdf'[2 * k - 1] = wdf[2 * k - 1] /\ wdf'[2 * k] = wdf[2 * k] /\ writes'[k] = writes[k]
        BY <1>1, <2>2, <4>1
      <4> QED
        BY <1>2, <4>1, <4>2
    <3>2. CASE k = Len(writes) + 1
      <4>1. 2 * k - 1 = Len(wdf) + 1 /\ ~(2 * k <= Len(wdf'))
        BY <1>1, <2>1, <2>2, <2>3, <3>2
      <4> QED
        BY <1>1, <2>1, <2>2, <3>2, <4>1
    <3>3. k <= Len(writes) \/ k = Len(writes) + 1
      BY <1>1, <2>4
    <3> QED
      BY <3>1, <3>2, <3>3
  <2>8. AnyOpen'
    BY <2>1, <2>5 DEF AnyOpen
  <2> QED
    BY <2>5, <2>6, <2>7, <2>8 DEF Paired
<1>5. CASE Takes(g, "WRITE2")
  <2>1. g \in Clients /\ Open(g) /\ \A c \in Clients : Open(c) => c = g
    BY <1>5, GrantedFacts DEF Takes, Open, IInv, Exclusive
  <2>2. wdf' = Append(wdf, [of |-> g, half |-> 2]) /\ writes' = writes
    BY <1>5 DEF Edge, Push, Remember, Takes
  <2>3. Len(wdf) = 2 * Len(writes) - 1 /\ writes # <<>> /\ writes[Len(writes)] = g
    BY <1>2, <2>1 DEF AnyOpen
  <2>4. \A c \in Clients : ~Open(c)'
    BY <1>3, <1>5, <2>1 DEF Takes
  <2>5. Len(wdf') = 2 * Len(writes')
    BY <1>1, <2>1, <2>2, <2>3
  <2>6. ASSUME NEW k \in 1..Len(writes')
        PROVE  /\ wdf'[2 * k - 1] = [of |-> writes'[k], half |-> 1]
               /\ 2 * k <= Len(wdf') => wdf'[2 * k] = [of |-> writes'[k], half |-> 2]
    <3>1. k \in 1..Len(writes) /\ 2 * k - 1 \in 1..Len(wdf)
      BY <1>1, <2>2, <2>3
    <3>2. wdf'[2 * k - 1] = wdf[2 * k - 1]
      BY <1>1, <2>2, <3>1
    <3>3. CASE k < Len(writes)
      <4>1. 2 * k \in 1..Len(wdf)
        BY <1>1, <2>3, <3>1, <3>3
      <4>2. wdf'[2 * k] = wdf[2 * k]
        BY <1>1, <2>2, <4>1
      <4> QED
        BY <1>2, <2>2, <3>1, <3>2, <4>1, <4>2
    <3>4. CASE k = Len(writes)
      <4>1. 2 * k = Len(wdf) + 1
        BY <1>1, <2>3, <3>4
      <4>2. wdf'[2 * k] = [of |-> g, half |-> 2]
        BY <1>1, <2>1, <2>2, <4>1
      <4> QED
        BY <1>2, <2>2, <2>3, <3>1, <3>2, <3>4, <4>2
    <3> QED
      BY <1>1, <3>1, <3>3, <3>4
  <2>7. ~AnyOpen'
    BY <2>4 DEF AnyOpen
  <2>8. Len(wdf') = 2 * Len(writes') - (IF AnyOpen' THEN 1 ELSE 0)
    BY <1>1, <2>2, <2>5, <2>7
  <2> QED
    BY <2>4, <2>6, <2>8 DEF Paired
<1>6. CASE ~Takes(g, "WRITE1") /\ ~Takes(g, "WRITE2")
  <2>1. wdf' = wdf /\ writes' = writes
    BY <1>6 DEF Edge, Push, Remember
  <2>2. \A c \in Clients : Open(c)' <=> Open(c)
    <3>1. \A c \in Clients : c = g => ~Open(c)
      BY <1>6, GrantedFacts DEF Takes, Open
    <3> QED
      BY <1>3, <1>6, <3>1
  <2>3. AnyOpen' <=> AnyOpen
    BY <2>2 DEF AnyOpen
  <2> QED
    BY <2>1, <2>2, <2>3 DEF IInv, Paired
<1> QED
  BY <1>4, <1>5, <1>6

\* The edge keeps every register within its width and every FIFO within its
\* depth.
LEMMA TypesNext ==
  ASSUME IInv, NEW g, Granted(g), Edge(g)
  PROVE  Types'
<1> USE DEF IInv, Types
<1>1. ASSUME NEW c \in Clients
      PROVE  cs'[c] \in States[c]
  <2>1. cs[c] \in States[c]
    OBVIOUS
  <2>2. CASE c = g
    <3>1. Takes(g, "FETCH") \/ Takes(g, "WRITE1") \/ Takes(g, "WRITE2")
      BY <2>2, GrantedFacts
    <3> QED
      BY <2>1, <2>2, <3>1, GrantedClient
         DEF Takes, States, Clients, Readers, Tagged, Caches, Writers
  <2>3. CASE c # g
    BY <2>1, <2>3 DEF Edge, Advance, Waits, OnBeat, States, Clients, Readers, Tagged,
       Caches, Writers
  <2> QED
    BY <2>2, <2>3
<1>2. cs' \in [Clients -> UNION {States[c] : c \in Clients}]
  BY <1>1 DEF Edge, Advance
<1>3. issued_reads' \in 0..(ReadWrap - 1) /\ serviced_reads' \in 0..(2 * ReadWrap - 1)
  BY ControllerAssumption DEF Edge, CountReads, Plus1
<1>4. req_num' \in [Tagged -> 0..(ReadWrap - 1)] /\ req_valid' \in [Tagged -> 0..2]
  <2>1. \A c \in Tagged : ReadOf(c) => req_valid[c] \in 1..2
    BY DEF ReadOf
  <2> QED
    BY <2>1 DEF Edge, NumberReads
<1>5. reserved' \in [Writers -> BOOLEAN]
  BY DEF Edge, Reserve
<1>6. caf' \in Seq({"read", "write"}) /\ Len(caf') <= CafDepth
  BY ControllerAssumption, GrantedFacts DEF Edge, Push, Takes
<1>7. wdf' \in Seq([of : Clients, half : {1, 2}]) /\ Len(wdf') <= WdfDepth
  <2>1. \A h \in {1, 2} : g \in Clients => [of |-> g, half |-> h] \in [of : Clients, half : {1, 2}]
    OBVIOUS
  <2>2. CASE wdf' = wdf
    BY <2>2
  <2>3. CASE wdf' # wdf
    <3>1. g \in Clients /\ Len(wdf) < WdfDepth
      BY <2>3, GrantedFacts DEF Edge, Push, Takes
    <3>2. PICK h \in {1, 2} : wdf' = Append(wdf, [of |-> g, half |-> h])
      BY <2>3 DEF Edge, Push
    <3> DEFINE e == [of |-> g, half |-> h]
    <3>3. e \in [of : Clients, half : {1, 2}]
      BY <2>1, <3>1
    <3> HIDE DEF e
    <3>4. wdf' = Append(wdf, e)
      BY <3>2 DEF e
    <3> QED
      BY <3>1, <3>3, <3>4, ControllerAssumption
  <2> QED
    BY <2>2, <2>3
<1>8. rdf' \in Nat /\ owed' \in {0, 1} /\ rdf_wren' \in BOOLEAN
  BY DEF Edge, Push
<1>9. reads' \in Seq(Readers)
  BY ReadsGrow
<1>10. writes' \in Seq(Clients)
  BY GrantedFacts DEF Edge, Remember, Takes
<1> QED
  BY <1>1, <1>2, <1>3, <1>4, <1>5, <1>6, <1>7, <1>8, <1>9, <1>10

\* The clock edge keeps the invariant, whoever is granted.
LEMMA EdgePreserves ==
  ASSUME IInv, NEW g, Granted(g), Edge(g)
  PROVE  IInv'
BY TypesNext, NumberedNext, OneEachNext, UnclaimedNext, BeatsConservedNext,
   ReadsBoundedNext, ExclusiveNext, PairedNext DEF IInv

-----------------------------------------------------------------------------
(***************************************************************************)
(* The other steps.                                                        *)
(***************************************************************************)

MayBegin(c, s) ==
  c \in Live /\ cs[c] = "IDLE" /\ s \in {"FETCH", "WRITE1"} /\ s \in States[c]

\* Clients that begin to ask are idle and so have no read and no open write;
\* what they must respect is that the data cache is not between its two beats
\* when the instruction cache asks, and PixelFeeder's credit.
LEMMA AskPreserves ==
  ASSUME IInv,
         UNCHANGED <<counters, reserved, fifos, reads, writes>>,
         cs' \in [Clients -> UNION {States[c] : c \in Clients}],
         \A c \in Clients :
           cs'[c] = cs[c] \/ MayBegin(c, cs'[c]),
         cs'["inst"] \in {"FETCH", "WRITE1", "WRITE2"} =>
           cs'["data"] \in {"IDLE", "FETCH", "WRITE1"},
         cs'["pixf"] = "FETCH" => Count(reads, "pixf") < PixfCredit
  PROVE  IInv'
<1>1. \A c \in Clients : (Waits(c)' <=> Waits(c)) /\ (Open(c)' <=> Open(c))
  BY DEF MayBegin, Waits, Open
<1>2. Tagged \subseteq Clients
  BY DEF Clients, Readers
<1>3. Types'
  BY DEF MayBegin, IInv, Types, counters, fifos
<1>4. Numbered'
  <2>1. \A k \in 1..Len(reads) : reads[k] \in Tagged => cs'[reads[k]] = cs[reads[k]]
    BY <1>2 DEF MayBegin, IInv, Numbered
  <2> QED
    BY <2>1 DEF IInv, Numbered, Turn, Odd, counters
<1>5. OneEach'
  BY DEF IInv, OneEach
<1>6. Unclaimed'
  BY <1>1, <1>2 DEF IInv, Unclaimed, counters
<1>7. BeatsConserved'
  BY DEF IInv, BeatsConserved, Odd, counters, fifos
<1>8. ReadsBounded'
  <2>1. \A c \in Tagged : Bit(Waits(c)') = Bit(Waits(c))
    BY <1>1, <1>2 DEF Bit
  <2>2. "inst" \in Tagged /\ "data" \in Tagged /\ "gcmd" \in Tagged
    BY DEF Tagged, Caches
  <2>3. Len(reads) = Count(reads, "pixf") + Bit(Waits("inst")') + Bit(Waits("data")')
                                         + Bit(Waits("gcmd")')
    BY <2>1, <2>2 DEF IInv, ReadsBounded
  <2> QED
    BY <2>3 DEF IInv, ReadsBounded
<1>9. Exclusive'
  <2>1. \A w \in Writers : reserved'[w] <=> Open(w)'
    BY <1>1 DEF IInv, Exclusive, Clients
  <2>2. \A c \in Clients \ Live : cs'[c] = "IDLE"
    BY DEF MayBegin, IInv, Exclusive
  <2> QED
    BY <1>1, <2>1, <2>2 DEF IInv, Exclusive, Wants
<1>10. Paired'
  <2>1. AnyOpen' <=> AnyOpen
    BY <1>1 DEF AnyOpen
  <2> QED
    BY <1>1, <2>1 DEF IInv, Paired, fifos
<1> QED
  BY <1>3, <1>4, <1>5, <1>6, <1>7, <1>8, <1>9, <1>10 DEF IInv

\* Dropping two elements keeps the rest in order (the two beats a write takes
\* from the data FIFO).
LEMMA DropTwo ==
  ASSUME NEW S, NEW s \in Seq(S), NEW n \in Nat, n = Len(s), n >= 2
  PROVE  /\ SubSeq(s, 3, n) \in Seq(S)
         /\ Len(SubSeq(s, 3, n)) = n - 2
         /\ \A i \in 1..(n - 2) : SubSeq(s, 3, n)[i] = s[i + 2]
<1>1. \A i \in 3..n : s[i] \in S
  OBVIOUS
<1>2. /\ SubSeq(s, 3, n) \in Seq(S)
      /\ Len(SubSeq(s, 3, n)) = IF 3 <= n THEN n - 3 + 1 ELSE 0
      /\ \A i \in 1..(n - 3 + 1) : SubSeq(s, 3, n)[i] = s[3 + i - 1]
  BY <1>1, SubSeqProperties
<1>3. n - 3 + 1 = n - 2 /\ \A i \in 1..(n - 2) : 3 + i - 1 = i + 2
  OBVIOUS
<1> QED
  BY <1>2, <1>3

\* The memory controller takes a write and its two beats together, so what is
\* left in the FIFOs are still pairs.
LEMMA MigWritePreserves == IInv /\ MigWrite => IInv'
<1> SUFFICES ASSUME IInv, MigWrite PROVE IInv'
  OBVIOUS
<1>1. /\ caf \in Seq({"read", "write"}) /\ caf # <<>> /\ caf[1] = "write" /\ caf' = Tail(caf)
      /\ wdf \in Seq([of : Clients, half : {1, 2}]) /\ wdf' = SubSeq(wdf, 3, Len(wdf))
      /\ writes \in Seq(Clients) /\ writes' = Tail(writes)
      /\ Len(wdf) \in Nat /\ Len(wdf) >= 2 /\ Len(writes) \in Nat
  BY DEF IInv, Types, MigWrite
<1>2. UNCHANGED <<cs, counters, reserved, rdf, owed, rdf_wren, reads>>
  BY DEF MigWrite
<1>3. PICK n \in Nat, m \in Nat, b \in Nat :
        /\ n = Len(wdf) /\ m = Len(writes) /\ b = IF AnyOpen THEN 1 ELSE 0
        /\ n = 2 * m - b /\ n >= 2
  BY <1>1 DEF IInv, Paired
<1>4. m >= 1 /\ (b = 1 => m >= 2) /\ writes # <<>> /\ m - 1 \in Nat /\ n - 2 \in Nat
  BY <1>1, <1>3
<1>5. /\ Len(writes') = m - 1 /\ writes' \in Seq(Clients)
      /\ \A k \in 1..(m - 1) : writes'[k] = writes[k + 1]
  BY <1>1, <1>3, <1>4
<1>6. /\ Len(wdf') = n - 2 /\ wdf' \in Seq([of : Clients, half : {1, 2}])
      /\ \A i \in 1..(n - 2) : wdf'[i] = wdf[i + 2]
  <2> DEFINE Beats == [of : Clients, half : {1, 2}]
  <2>1. wdf \in Seq(Beats) /\ wdf' = SubSeq(wdf, 3, n)
    BY <1>1, <1>3
  <2> HIDE DEF Beats
  <2>2. /\ Len(wdf') = n - 2 /\ wdf' \in Seq(Beats)
        /\ \A i \in 1..(n - 2) : wdf'[i] = wdf[i + 2]
    BY <2>1, <1>3, DropTwo
  <2> QED
    BY <2>2 DEF Beats
<1>7. Paired'
  <2>1. AnyOpen' <=> AnyOpen
    BY <1>2 DEF AnyOpen, Open
  <2>2. Len(wdf') = 2 * Len(writes') - (IF AnyOpen' THEN 1 ELSE 0)
    BY <1>3, <1>4, <1>5, <1>6, <2>1
  <2>3. ASSUME NEW c \in Clients, Open(c)'
        PROVE  writes' # <<>> /\ writes'[Len(writes')] = c
    <3>1. AnyOpen /\ writes[m] = c
      BY <1>2, <1>3, <2>3 DEF IInv, Paired, Open, AnyOpen
    <3>2. m - 1 \in 1..(m - 1) /\ (m - 1) + 1 = m
      BY <1>3, <1>4, <3>1
    <3> QED
      BY <1>5, <3>1, <3>2
  <2>4. ASSUME NEW k \in 1..Len(writes')
        PROVE  /\ wdf'[2 * k - 1] = [of |-> writes'[k], half |-> 1]
               /\ 2 * k <= Len(wdf') => wdf'[2 * k] = [of |-> writes'[k], half |-> 2]
    <3>1. k \in Nat /\ 1 <= k /\ k <= m - 1 /\ k + 1 \in 1..m /\ k \in 1..(m - 1)
      BY <1>4, <1>5
    <3>2. /\ wdf[2 * (k + 1) - 1] = [of |-> writes[k + 1], half |-> 1]
          /\ 2 * (k + 1) <= n => wdf[2 * (k + 1)] = [of |-> writes[k + 1], half |-> 2]
      BY <1>3, <3>1 DEF IInv, Paired
    <3>3. 2 * k - 1 \in 1..(n - 2) /\ 2 * (k + 1) - 1 = (2 * k - 1) + 2
      BY <1>3, <1>4, <3>1
    <3>4. 2 * k <= n - 2 => 2 * k \in 1..(n - 2) /\ 2 * (k + 1) = 2 * k + 2 /\ 2 * (k + 1) <= n
      BY <1>3, <1>4, <3>1
    <3>5. wdf'[2 * k - 1] = [of |-> writes'[k], half |-> 1]
      BY <1>5, <1>6, <3>1, <3>2, <3>3
    <3>6. 2 * k <= n - 2 => wdf'[2 * k] = [of |-> writes'[k], half |-> 2]
      BY <1>5, <1>6, <3>1, <3>2, <3>4
    <3> QED
      BY <1>6, <3>5, <3>6
  <2> QED
    BY <2>2, <2>3, <2>4 DEF Paired
<1>8. Count(caf', "read") = Count(caf, "read")
  <2>1. Count(Tail(caf), "read") = Count(caf, "read") - Bit(caf[1] = "read")
    BY <1>1, CountTail
  <2>2. Count(caf, "read") \in Nat
    BY <1>1, CountType
  <2> QED
    BY <1>1, <2>1, <2>2 DEF Bit
<1>9. BeatsConserved'
  BY <1>2, <1>8 DEF IInv, BeatsConserved, Odd, counters
<1>10. Types'
  <2>1. caf' \in Seq({"read", "write"}) /\ Len(caf') <= CafDepth
    BY <1>1, ControllerAssumption DEF IInv, Types
  <2>2. Len(wdf') <= WdfDepth
    BY <1>3, <1>6, ControllerAssumption DEF IInv, Types
  <2> QED
    BY <1>2, <1>5, <1>6, <2>1, <2>2 DEF IInv, Types, counters
<1>11. Numbered' /\ OneEach' /\ Unclaimed'
  BY <1>2 DEF IInv, Numbered, OneEach, Unclaimed, Turn, Odd, Waits, counters
<1>12. ReadsBounded' /\ Exclusive'
  BY <1>2 DEF IInv, ReadsBounded, Exclusive, Waits, Wants, Open, counters
<1> QED
  BY <1>7, <1>9, <1>10, <1>11, <1>12 DEF IInv

\* It answers a read with two beats.
LEMMA MigReadPreserves == IInv /\ MigRead => IInv'
<1> SUFFICES ASSUME IInv, MigRead PROVE IInv'
  OBVIOUS
<1>1. /\ caf \in Seq({"read", "write"}) /\ rdf \in Nat /\ rdf' = rdf + 1 /\ owed \in {0, 1}
      /\ UNCHANGED <<cs, counters, reserved, wdf, rdf_wren, reads, writes>>
  BY DEF IInv, Types, MigRead
<1>2. PICK m \in Nat, m2 \in Nat :
        /\ m = Count(caf, "read") /\ m2 = Count(caf', "read")
        /\ owed' \in {0, 1} /\ owed + 2 * m = 1 + owed' + 2 * m2
        /\ caf' \in Seq({"read", "write"}) /\ Len(caf') <= CafDepth
  <2>1. Count(caf, "read") \in Nat
    BY <1>1, CountType
  <2>2. CASE owed = 1
    <3>1. owed' = 0 /\ caf' = caf
      BY <2>2 DEF MigRead
    <3> QED
      BY <1>1, <2>1, <2>2, <3>1 DEF IInv, Types
  <2>3. CASE owed = 0
    <3>1. caf # <<>> /\ caf[1] = "read" /\ caf' = Tail(caf) /\ owed' = 1
      BY <1>1, <2>3 DEF MigRead
    <3>2. Tail(caf) \in Seq({"read", "write"}) /\ Len(Tail(caf)) <= CafDepth
      BY <1>1, <3>1, ControllerAssumption DEF IInv, Types
    <3>3. Count(Tail(caf), "read") = Count(caf, "read") - 1 /\ Count(Tail(caf), "read") \in Nat
      BY <1>1, <2>1, <3>1, <3>2, CountTail, CountType DEF Bit
    <3> QED
      BY <2>1, <2>3, <3>1, <3>2, <3>3
  <2> QED
    BY <1>1, <2>2, <2>3
<1>3. BeatsConserved'
  <2>1. Len(reads) \in Nat /\ Bit(Odd) \in Nat /\ Bit(rdf_wren) \in Nat
    BY DEF IInv, Types, Bit
  <2>2. PICK a \in Nat, b \in Nat, r \in Nat, o \in Nat, o2 \in Nat, n \in Nat :
          /\ a = Bit(Odd) /\ b = Bit(rdf_wren) /\ r = rdf /\ o = owed /\ o2 = owed'
          /\ n = Len(reads)
    BY <1>1, <1>2, <2>1
  <2>3. a + b + r + o + 2 * m = 2 * n /\ o + 2 * m = 1 + o2 + 2 * m2
    BY <1>2, <2>2 DEF IInv, BeatsConserved
  <2>4. a + b + (r + 1) + o2 + 2 * m2 = 2 * n
    BY <2>3
  <2>5. Bit(Odd)' = a /\ Bit(rdf_wren)' = b /\ rdf' = r + 1 /\ Len(reads)' = n
    BY <1>1, <2>2 DEF Odd, counters
  <2> QED
    BY <1>2, <2>2, <2>4, <2>5 DEF BeatsConserved
<1>4. Types'
  <2>1. rdf' \in Nat
    BY <1>1
  <2> QED
    BY <1>1, <1>2, <2>1 DEF IInv, Types, counters
<1>5. Numbered' /\ OneEach' /\ Unclaimed'
  BY <1>1 DEF IInv, Numbered, OneEach, Unclaimed, Turn, Odd, Waits, counters
<1>6. ReadsBounded' /\ Exclusive' /\ Paired'
  BY <1>1 DEF IInv, ReadsBounded, Exclusive, Paired, AnyOpen, Waits, Wants, Open, counters
<1> QED
  BY <1>3, <1>4, <1>5, <1>6 DEF IInv

-----------------------------------------------------------------------------
(***************************************************************************)
(* The invariant and what follows from it.                                 *)
(***************************************************************************)

\* After reset the order of reads and the FIFOs are empty.
LEMMA InitEstablishes == Init => IInv
<1> SUFFICES ASSUME Init PROVE IInv
  OBVIOUS
<1> USE DEF Init
<1>1. Types
  <2>1. \A c \in Clients : "IDLE" \in States[c]
    BY DEF States
  <2>2. /\ 0 \in 0..(ReadWrap - 1) /\ 0 \in 0..(2 * ReadWrap - 1) /\ 0 \in 0..2
        /\ 0 <= CafDepth /\ 0 <= WdfDepth
    BY ControllerAssumption
  <2>3. cs \in [Clients -> UNION {States[c] : c \in Clients}] /\ \A c \in Clients : cs[c] \in States[c]
    BY <2>1
  <2>4. /\ issued_reads \in 0..(ReadWrap - 1) /\ serviced_reads \in 0..(2 * ReadWrap - 1)
        /\ req_num \in [Tagged -> 0..(ReadWrap - 1)] /\ req_valid \in [Tagged -> 0..2]
        /\ reserved \in [Writers -> BOOLEAN] /\ rdf \in Nat /\ owed \in {0, 1} /\ rdf_wren \in BOOLEAN
    BY <2>2
  <2>5. /\ caf \in Seq({"read", "write"}) /\ Len(caf) <= CafDepth
        /\ wdf \in Seq([of : Clients, half : {1, 2}]) /\ Len(wdf) <= WdfDepth
        /\ reads \in Seq(Readers) /\ writes \in Seq(Clients)
    BY <2>2
  <2> QED
    BY <2>3, <2>4, <2>5 DEF Types
<1>2. Turn = 0 /\ ~Odd
  BY DEF Turn, Odd
<1>3. Numbered /\ OneEach
  BY <1>2, ControllerAssumption DEF Numbered, OneEach, Slot
<1>4. Unclaimed
  BY DEF Unclaimed, Waits, Clients, Readers
<1>5. BeatsConserved
  BY <1>2, CountEmpty DEF BeatsConserved, Bit
<1>6. ReadsBounded
  BY CountEmpty, ControllerAssumption DEF ReadsBounded, Bit, Waits, Clients, Readers, Tagged, Caches
<1>7. Exclusive
  BY DEF Exclusive, Open, Wants, Clients, Readers, Tagged, Caches
<1>8. Paired
  BY DEF Paired, AnyOpen, Open
<1> QED
  BY <1>1, <1>3, <1>4, <1>5, <1>6, <1>7, <1>8 DEF IInv

\* Every step of the program keeps the invariant.
LEMMA NextPreserves == IInv /\ [Next]_vars => IInv'
<1> SUFFICES ASSUME IInv, [Next]_vars PROVE IInv'
  OBVIOUS
<1>1. ASSUME NEW c, NEW s, Start(c, s), c \in Clients, s \in {"FETCH", "WRITE1"}, s \in States[c],
             c \notin Caches, c = "pixf" => Count(reads, "pixf") < PixfCredit
      PROVE  IInv'
  <2>1. \A d \in Clients : cs'[d] = IF d = c THEN s ELSE cs[d]
    BY <1>1 DEF Start, IInv, Types
  <2>2. cs' \in [Clients -> UNION {States[d] : d \in Clients}]
    BY <1>1 DEF Start, IInv, Types
  <2>3. \A d \in Clients :
          cs'[d] = cs[d] \/ MayBegin(d, cs'[d])
    BY <1>1, <2>1 DEF Start, MayBegin
  <2>4. cs'["inst"] = cs["inst"] /\ cs'["data"] = cs["data"]
    BY <1>1, <2>1 DEF Clients, Readers, Tagged, Caches
  <2>5. cs'["inst"] \in {"FETCH", "WRITE1", "WRITE2"} => cs'["data"] \in {"IDLE", "FETCH", "WRITE1"}
    BY <2>4 DEF IInv, Exclusive, Wants
  <2>6. cs'["pixf"] = "FETCH" => Count(reads, "pixf") < PixfCredit
    BY <1>1, <2>1 DEF IInv, ReadsBounded, Clients, Readers
  <2>7. UNCHANGED <<counters, reserved, fifos, reads, writes>>
    BY <1>1 DEF Start
  <2> QED
    BY <2>2, <2>3, <2>5, <2>6, <2>7, AskPreserves
<1>2. CASE Tick
  BY <1>2, EdgePreserves DEF Tick, NoGrant, Grant, Granted
<1>3. CASE CpuStart
  <2>1. PICK i \in {"IDLE", "FETCH", "WRITE1"}, d \in {"IDLE", "FETCH", "WRITE1"} :
          cs' = [cs EXCEPT !["inst"] = i, !["data"] = d]
    BY <1>3 DEF CpuStart
  <2>2. "inst" \in Clients /\ "data" \in Clients /\ "pixf" \in Clients
        /\ cs["inst"] = "IDLE" /\ cs["data"] = "IDLE" /\ "inst" \in Live /\ "data" \in Live
    BY <1>3, ControllerAssumption DEF CpuStart, Clients, Readers, Tagged, Caches
  <2>3. \A c \in Clients : cs'[c] = IF c = "inst" THEN i ELSE IF c = "data" THEN d ELSE cs[c]
    BY <2>1, <2>2 DEF IInv, Types
  <2>4. States["inst"] = States["data"] /\ {"IDLE", "FETCH", "WRITE1"} \subseteq States["inst"]
    BY <2>2 DEF States, Caches
  <2>5. cs' \in [Clients -> UNION {States[c] : c \in Clients}]
    BY <2>1, <2>2, <2>4 DEF IInv, Types
  <2>6. \A c \in Clients :
          cs'[c] = cs[c] \/ MayBegin(c, cs'[c])
    BY <2>2, <2>3, <2>4 DEF MayBegin
  <2>7. cs'["pixf"] = "FETCH" => Count(reads, "pixf") < PixfCredit
    BY <2>2, <2>3 DEF IInv, ReadsBounded
  <2>8. UNCHANGED <<counters, reserved, fifos, reads, writes>>
    BY <1>3 DEF CpuStart
  <2> QED
    BY <2>2, <2>3, <2>5, <2>6, <2>7, <2>8, AskPreserves
<1>4. CASE GcmdStart
  BY <1>1, <1>4 DEF GcmdStart, States, Clients, Readers, Tagged, Caches
<1>5. CASE PixfStart
  BY <1>1, <1>5 DEF PixfStart, States, Clients, Readers, Tagged, Caches
<1>6. CASE WriterStart
  BY <1>1, <1>6 DEF WriterStart, States, Clients, Readers, Tagged, Caches, Writers
<1>7. CASE UNCHANGED vars
  <2>1. Types' /\ Numbered' /\ OneEach' /\ Unclaimed'
    BY <1>7 DEF IInv, Types, Numbered, OneEach, Unclaimed, Turn, Odd, Waits, vars, counters, fifos
  <2>2. BeatsConserved' /\ ReadsBounded'
    BY <1>7 DEF IInv, BeatsConserved, ReadsBounded, Odd, Waits, vars, counters, fifos
  <2>3. Exclusive' /\ Paired'
    BY <1>7 DEF IInv, Exclusive, Paired, AnyOpen, Open, Wants, vars, fifos
  <2> QED
    BY <2>1, <2>2, <2>3 DEF IInv
<1> QED
  BY <1>2, <1>3, <1>4, <1>5, <1>6, <1>7, MigWritePreserves, MigReadPreserves DEF Next

\* The strengthened invariant holds of every state the system reaches.
THEOREM InductiveInvariant == Spec => []IInv
<1> QED
  BY InitEstablishes, NextPreserves, PTL DEF Spec

\* The registers stay within their widths, the FIFOs within their depths, and
\* the read FIFO, which nothing pushes back against, within the beats of the
\* reads the clients may have outstanding.
THEOREM TypeCorrect == Spec => []TypeOK
<1>1. ASSUME IInv PROVE TypeOK
  <2>1. Len(reads) \in Nat /\ Len(reads) <= PixfCredit + 3
    BY <1>1, ReadsFewerThanNumbers
  <2>2. Count(caf, "read") \in Nat
    BY <1>1, CountType DEF IInv, Types
  <2>3. PICK a \in Nat, b \in Nat, r \in Nat, o \in Nat, m \in Nat, n \in Nat :
          /\ a = Bit(Odd) /\ b = Bit(rdf_wren) /\ r = rdf /\ o = owed
          /\ m = Count(caf, "read") /\ n = Len(reads)
    BY <1>1, <2>1, <2>2 DEF IInv, Types, Bit
  <2>4. a + b + r + o + 2 * m = 2 * n
    BY <1>1, <2>3 DEF IInv, BeatsConserved
  <2>5. rdf <= 2 * (PixfCredit + 3)
    <3>1. PICK p \in Nat : p = PixfCredit
      BY ControllerAssumption
    <3>2. n <= p + 3
      BY <2>1, <2>3, <3>1
    <3>3. r <= 2 * (p + 3)
      BY <2>4, <3>2
    <3> QED
      BY <2>3, <3>1, <3>3
  <2> QED
    BY <1>1, <2>1, <2>5 DEF IInv, Types, TypeOK
<1> QED
  BY <1>1, InductiveInvariant, PTL

\* Every beat that is presented is routed to the client that issued the read it
\* answers, whatever the width of the counters, as long as the reads that may
\* be outstanding have different numbers.
THEOREM Routing == Spec => []RoutedToIssuer
<1>1. ASSUME IInv PROVE RoutedToIssuer
  <2>1. SUFFICES ASSUME rdf_wren
                 PROVE  /\ reads # <<>> /\ Reader = Head(reads)
                        /\ Reader # "pixf" =>
                             cs[Reader] = IF serviced_reads % 2 = 0 THEN "READ1" ELSE "READ2"
    BY DEF RoutedToIssuer
  <2>2. reads # <<>> /\ Reader = reads[1] /\ reads \in Seq(Readers)
    BY <1>1, <2>1, BeatIsAwaited DEF IInv, Types
  <2>3. Reader # "pixf" => cs[Reader] = IF Odd THEN "READ2" ELSE "READ1"
    BY <1>1, <2>1, BeatIsAwaited
  <2>4. serviced_reads % 2 \in {0, 1}
    BY <1>1, TurnType DEF IInv
  <2> QED
    BY <2>2, <2>3, <2>4 DEF Odd
<1> QED
  BY <1>1, InductiveInvariant, PTL

\* The two beats of a write are neighbours in the data FIFO and stand where its
\* command stands among the commands, for every set of write-only clients.
THEOREM Pairing == Spec => []WritePairs
<1>1. ASSUME IInv PROVE WritePairs
  <2> SUFFICES ASSUME NEW i \in 1..Len(wdf)
               PROVE  LET k == (i + 1) \div 2
                      IN  /\ k <= Len(writes)
                          /\ wdf[i] = [of |-> writes[k], half |-> IF i = 2 * k THEN 2 ELSE 1]
    BY DEF WritePairs
  <2> DEFINE k == (i + 1) \div 2
  <2>1. Len(wdf) \in Nat /\ Len(writes) \in Nat
    BY <1>1 DEF IInv, Types
  <2>2. PICK n \in Nat, m \in Nat, b \in {0, 1} :
          n = Len(wdf) /\ m = Len(writes) /\ n = 2 * m - b
    BY <1>1, <2>1 DEF IInv, Paired
  <2>3. k \in Nat /\ k >= 1 /\ (i = 2 * k \/ i = 2 * k - 1) /\ i \in Nat /\ i <= n
    BY <2>2
  <2> HIDE DEF k
  <2>4. k \in 1..m
    BY <2>2, <2>3
  <2>5. /\ wdf[2 * k - 1] = [of |-> writes[k], half |-> 1]
        /\ 2 * k <= n => wdf[2 * k] = [of |-> writes[k], half |-> 2]
    BY <1>1, <2>2, <2>4 DEF IInv, Paired
  <2>6. wdf[i] = [of |-> writes[k], half |-> IF i = 2 * k THEN 2 ELSE 1]
    <3>1. CASE i = 2 * k
      BY <2>3, <2>5, <3>1
    <3>2. CASE i = 2 * k - 1
      <4>1. i # 2 * k
        BY <2>3, <3>2
      <4> QED
        BY <2>5, <3>2, <4>1
    <3> QED
      BY <2>3, <3>1, <3>2
  <2> QED
    BY <2>2, <2>4, <2>6 DEF k
<1> QED
  BY <1>1, InductiveInvariant, PTL

\* A client waits for data exactly while one of the unanswered reads is its own:
\* no read is lost and none is answered twice.
THEOREM Waiting == Spec => []WaitsForItsRead
<1>1. ASSUME IInv PROVE WaitsForItsRead
  BY <1>1 DEF IInv, Numbered, Unclaimed, Waits, WaitsForItsRead
<1> QED
  BY <1>1, InductiveInvariant, PTL

=============================================================================
