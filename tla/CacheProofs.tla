----------------------------- MODULE CacheProofs -----------------------------
(***************************************************************************)
(* Theorems about Cache.tla for every set of tags, rows and values, every  *)
(* port and every FIFO depth that satisfy CacheAssumption: the DDR2 and    *)
(* the queue before it hold the stores, and the cache with its DDR2 is a   *)
(* serial memory.                                                          *)
(***************************************************************************)
EXTENDS Cache, FiniteSetTheorems, SequenceTheorems, TLAPS

-----------------------------------------------------------------------------
(***************************************************************************)
(* The first part of the inductive invariant, which does not depend on     *)
(* what the block RAMs return: the access under way, the commands and the  *)
(* data beats of the queued stores, and the two halves of a line on their  *)
(* way from the DDR2.                                                      *)
(***************************************************************************)

Command   == [write : BOOLEAN, line : Line]
WriteBeat == [enable : BOOLEAN, data : Values]

FifoTypes ==
  /\ caf \in Seq(Command)
  /\ wdf \in Seq(WriteBeat)
  /\ rdf \in Seq(Values) /\ burst \in Seq(Values)
  /\ rdf_beat \in [valid : BOOLEAN, data : Values]
  /\ mem \in [Line -> Block] /\ golden \in [Line -> Block]

RamTypes ==
  /\ tagram \in [Indexes -> Tags \union {NoTag}]
  /\ dataram \in [Indexes -> Block]
  /\ tag_line_out \in Tags \union {NoTag}
  /\ data_line_out \in Block
  /\ first_read \in Values
  /\ active_data_line \in Block

PortTypes ==
  /\ side \in {"data", "inst"}
  /\ cs \in {"IDLE", "WRITE1", "WRITE2", "FETCH", "READ1", "READ2", "CWRITEB"}
  /\ hold \in [addr : Addr, re : BOOLEAN, we : BOOLEAN, din : Values]
  /\ P \in [addr : Addr, re : BOOLEAN]

TypeOK == FifoTypes /\ RamTypes /\ PortTypes

\* The access in hold is the one the CPU asked for last.
AccessInv ==
  /\ hold.we => cs \in {"IDLE", "WRITE1", "WRITE2"} /\ ~hold.re /\ ~P.re
  /\ cs \in {"WRITE1", "WRITE2"} => hold.we
  /\ cs \in {"FETCH", "READ1", "READ2", "CWRITEB"} => P.re
  /\ hold.re => P.re
  /\ hold.we \/ P.re => hold.addr = P.addr

\* Every queued write has its two beats, but for the second beat of the write
\* that the cache is queueing.
Paired ==
  /\ Len(wdf) = 2 * WritesUpTo(Len(caf)) - (IF cs = "WRITE2" THEN 1 ELSE 0)
  /\ cs = "WRITE2" =>
       /\ caf # <<>>
       /\ caf[Len(caf)].write /\ caf[Len(caf)].line = LineOf(hold.addr)
       /\ wdf[Len(wdf)].enable <=> hold.addr.half = 1
       /\ wdf[Len(wdf)].data = hold.din

\* The store that has not yet been queued whole.
Held(l, h) == hold.we /\ LineOf(hold.addr) = l /\ hold.addr.half = h

\* A command that is queued now finds v in half h of line l.
Finds(l, h, v) ==
  LET q == QueuedWrites(l, h)
  IN \/ q = {} /\ mem[l][h] = v
     \/ \E i \in q : (\A j \in q : j <= i) /\ wdf[BeatOf(i, h)].data = v

StoresQueued ==
  \A l \in Line, h \in Halves :
    IF Held(l, h) THEN golden[l][h] = hold.din ELSE Finds(l, h, golden[l][h])

\* The two halves of the line a miss has asked for.
Wanted(h) == golden[LineOf(hold.addr)][h]

NothingComes == rdf = <<>> /\ burst = <<>> /\ ~rdf_beat.valid
NoReadQueued == \A i \in DOMAIN caf : caf[i].write

\* The last command queued is the read of the miss.
Requested ==
  /\ cs = "READ1" /\ NothingComes /\ caf # <<>>
  /\ ~caf[Len(caf)].write /\ caf[Len(caf)].line = LineOf(hold.addr)
  /\ \A i \in 1..(Len(caf) - 1) : caf[i].write

\* Neither half has left the FIFO.
BothQueued ==
  /\ cs = "READ1" /\ ~rdf_beat.valid
  /\ \/ rdf = <<Wanted(1)>> /\ burst = <<Wanted(2)>>
     \/ rdf = <<Wanted(1), Wanted(2)>> /\ burst = <<>>

SecondFollows ==
  \/ rdf = <<>> /\ burst = <<Wanted(2)>>
  \/ rdf = <<Wanted(2)>> /\ burst = <<>>

\* The first half is at the cache, or in first_read.
FirstHere ==
  /\ cs = "READ1" /\ rdf_beat.valid /\ rdf_beat.data = Wanted(1)
  /\ SecondFollows

FirstTaken ==
  /\ cs = "READ2" /\ first_read = Wanted(1)
  /\ \/ ~rdf_beat.valid /\ SecondFollows
     \/ /\ rdf_beat.valid /\ rdf_beat.data = Wanted(2)
        /\ rdf = <<>> /\ burst = <<>>

MissInv ==
  \/ cs \notin {"READ1", "READ2"} /\ NoReadQueued /\ NothingComes
  \/ Requested
  \/ NoReadQueued /\ (BothQueued \/ FirstHere \/ FirstTaken)

QueueInv == TypeOK /\ AccessInv /\ Paired /\ StoresQueued /\ MissInv

-----------------------------------------------------------------------------
(***************************************************************************)
(* The second part: what the block RAMs hold.  It needs rows that are read *)
(* while they are rewritten to return what was or what will be there.      *)
(***************************************************************************)

Row == hold.addr.index

\* A valid row holds what the CPU's accepted stores left of its line, but for
\* the store that has just been accepted and reaches the row at the next edge.
Coherent ==
  \A i \in Indexes, h \in Halves : tagram[i] \in Tags =>
    LET l == [tag |-> tagram[i], index |-> i]
    IN dataram[i][h] = golden[l][h] \/ (cs = "IDLE" /\ Held(l, h))

\* In IDLE the outputs of the RAMs are the row of the access in hold, and a
\* read that is not to be waited for has its line there.
OutputIsRow ==
  cs = "IDLE" => /\ tag_line_out = tagram[Row]
                 /\ data_line_out = dataram[Row]
                 /\ P.re => hold.re \/ tag_hit

\* A store that is being queued rewrites a row of its own line only.
HitIsRow == cs \in {"WRITE1", "WRITE2"} /\ tag_hit => tagram[Row] = hold.addr.tag

\* A miss ends with its line in the row and in the output register.
Filled ==
  cs = "CWRITEB" => /\ tagram[Row] = hold.addr.tag
                    /\ active_data_line = golden[LineOf(hold.addr)]

RamInv == Coherent /\ OutputIsRow /\ HitIsRow /\ Filled

-----------------------------------------------------------------------------
(***************************************************************************)
(* Counting the write commands among the first i of a sequence.            *)
(***************************************************************************)

Bit(b) == IF b THEN 1 ELSE 0
Writes(s, i) == {j \in 1..i : s[j].write}
Upto(s, i) == Cardinality(Writes(s, i))

\* The write commands among the first i are finitely many (WritesUpTo).
LEMMA UptoType ==
  ASSUME NEW s, NEW i \in Nat
  PROVE  IsFiniteSet(Writes(s, i)) /\ Upto(s, i) \in Nat
<1>1. IsFiniteSet(1..i)
  BY FS_Interval
<1>2. Writes(s, i) \in SUBSET (1..i)
  BY DEF Writes
<1>3. IsFiniteSet(Writes(s, i))
  BY <1>1, <1>2, FS_Subset
<1> QED
  BY <1>3, FS_CardinalityType DEF Upto

\* Sequences that agree so far have as many.
LEMMA UptoSame ==
  ASSUME NEW s, NEW t, NEW i \in Nat, \A j \in 1..i : t[j] = s[j]
  PROVE  Upto(t, i) = Upto(s, i)
BY DEF Upto, Writes

\* One command adds one or none.
LEMMA UptoStep ==
  ASSUME NEW s, NEW i \in Nat \ {0}
  PROVE  Upto(s, i) = Upto(s, i - 1) + Bit(s[i].write)
<1>1. i - 1 \in Nat /\ i \notin Writes(s, i - 1)
  BY DEF Writes
<1>2. Writes(s, i) = IF s[i].write THEN Writes(s, i - 1) \union {i} ELSE Writes(s, i - 1)
  BY DEF Writes
<1>3. IsFiniteSet(Writes(s, i - 1)) /\ Upto(s, i - 1) \in Nat
  BY <1>1, UptoType
<1>4. Cardinality(Writes(s, i - 1) \union {i}) = Cardinality(Writes(s, i - 1)) + 1
  BY <1>1, <1>3, FS_AddElement
<1> QED
  BY <1>2, <1>3, <1>4 DEF Upto, Bit

\* There are no fewer among more commands, and more when the last is a write.
LEMMA UptoGrows ==
  ASSUME NEW s, NEW i \in Nat, NEW j \in Nat, i <= j
  PROVE  /\ Upto(s, i) <= Upto(s, j)
         /\ i < j /\ s[j].write => Upto(s, i) < Upto(s, j)
<1>1. \A k \in Nat : i <= k => Upto(s, i) <= Upto(s, k)
  <2> SUFFICES ASSUME NEW k \in Nat, i <= k PROVE Upto(s, i) <= Upto(s, k)
    OBVIOUS
  <2>1. Writes(s, i) \in SUBSET Writes(s, k)
    BY DEF Writes
  <2>2. IsFiniteSet(Writes(s, k))
    BY UptoType
  <2> QED BY <2>1, <2>2, FS_Subset DEF Upto
<1>2. ASSUME i < j, s[j].write PROVE Upto(s, i) < Upto(s, j)
  <2>1. j - 1 \in Nat /\ i <= j - 1
    BY <1>2
  <2>2. Upto(s, i) <= Upto(s, j - 1)
    BY <1>1, <2>1
  <2>3. Upto(s, j) = Upto(s, j - 1) + 1
    BY <1>2, UptoStep DEF Bit
  <2>4. Upto(s, i) \in Nat /\ Upto(s, j - 1) \in Nat
    BY <2>1, UptoType
  <2> QED BY <2>2, <2>3, <2>4
<1> QED BY <1>1, <1>2

\* None among no command, and one among the first when it is a write.
LEMMA UptoZero == ASSUME NEW s PROVE Upto(s, 0) = 0
<1>1. Writes(s, 0) = {}
  BY DEF Writes
<1> QED BY <1>1, FS_EmptySet DEF Upto

\* Taking the first command away takes one or none from every count.
LEMMA UptoTail ==
  ASSUME NEW S, NEW s \in Seq(S), s # <<>>, NEW i \in 0..Len(Tail(s))
  PROVE  Upto(s, i + 1) = Upto(Tail(s), i) + Bit(s[1].write)
<1> DEFINE t == Tail(s)
           rest == Writes(s, i + 1) \ {1}
           f == [j \in Writes(t, i) |-> j + 1]
<1>1. /\ Len(s) \in Nat \ {0} /\ Len(t) = Len(s) - 1
      /\ \A j \in 1..Len(t) : t[j] = s[j + 1]
      /\ i \in Nat
  OBVIOUS
<1>2. /\ IsFiniteSet(Writes(s, i + 1)) /\ Upto(s, i + 1) \in Nat
      /\ IsFiniteSet(Writes(t, i)) /\ Upto(t, i) \in Nat
  BY <1>1, UptoType
<1>3. Cardinality(rest) = Upto(s, i + 1) - Bit(s[1].write)
  <2>1. 1 \in Writes(s, i + 1) <=> s[1].write
    BY <1>1 DEF Writes
  <2>2. Cardinality(rest) = IF 1 \in Writes(s, i + 1) THEN Cardinality(Writes(s, i + 1)) - 1
                            ELSE Cardinality(Writes(s, i + 1))
    BY <1>2, FS_RemoveElement
  <2> QED BY <2>1, <2>2, <1>2 DEF Bit, Upto
<1>4. ExistsBijection(Writes(t, i), rest)
  <2>1. ASSUME NEW j \in Writes(t, i) PROVE j \in Nat /\ j + 1 \in rest
    BY <1>1 DEF Writes
  <2>2. f \in [Writes(t, i) -> rest]
    BY <2>1
  <2>3. \A j, k \in Writes(t, i) : f[j] = f[k] => j = k
    BY <2>1
  <2>4. ASSUME NEW k \in rest PROVE \E j \in Writes(t, i) : f[j] = k
    <3>1. k \in 2..(i + 1) /\ s[k].write
      BY <1>1 DEF Writes
    <3>2. k - 1 \in 1..i /\ t[k - 1] = s[k]
      BY <1>1, <3>1
    <3>3. k - 1 \in Writes(t, i)
      BY <3>1, <3>2 DEF Writes
    <3> QED BY <3>1, <3>3
  <2>5. f \in Bijection(Writes(t, i), rest)
    BY <2>2, <2>3, <2>4 DEF Bijection, Injection, Surjection, IsInjective
  <2> QED BY <2>5 DEF ExistsBijection
<1>5. Cardinality(rest) = Cardinality(Writes(t, i))
  BY <1>2, <1>4, FS_Bijection
<1> QED BY <1>2, <1>3, <1>5 DEF Bit, Upto

-----------------------------------------------------------------------------
(***************************************************************************)
(* What a command finds that is queued after the others: how Finds changes *)
(* when commands and beats enter and leave the FIFOs.                      *)
(***************************************************************************)

\* The places of the queued commands and of their beats.
LEMMA BeatPlaces ==
  ASSUME FifoTypes, Paired
  PROVE  /\ Len(caf) \in Nat /\ DOMAIN caf = 1..Len(caf)
         /\ Len(wdf) \in Nat /\ DOMAIN wdf = 1..Len(wdf)
         /\ WritesUpTo(Len(caf)) \in Nat
         /\ \A i \in 1..Len(caf) :
              /\ WritesUpTo(i) \in Nat /\ WritesUpTo(i) <= WritesUpTo(Len(caf))
              /\ caf[i].write => /\ WritesUpTo(i) >= 1
                                 /\ BeatOf(i, 1) \in 1..Len(wdf)
                                 /\ BeatOf(i, 2) \in 1..(Len(wdf) + 1)
<1>1. /\ Len(caf) \in Nat /\ DOMAIN caf = 1..Len(caf)
      /\ Len(wdf) \in Nat /\ DOMAIN wdf = 1..Len(wdf)
  BY DEF FifoTypes
<1>2. \A i \in Nat : WritesUpTo(i) = Upto(caf, i) /\ Upto(caf, i) \in Nat
  BY UptoType DEF WritesUpTo, Upto, Writes
<1>3. ASSUME NEW i \in 1..Len(caf)
      PROVE  /\ WritesUpTo(i) <= WritesUpTo(Len(caf))
             /\ caf[i].write => WritesUpTo(i) >= 1
  <2>1. i \in Nat /\ i <= Len(caf) /\ 0 < i
    BY <1>1
  <2>2. Upto(caf, i) <= Upto(caf, Len(caf))
    BY <1>1, <2>1, UptoGrows
  <2>3. caf[i].write => Upto(caf, 0) < Upto(caf, i)
    BY <2>1, UptoGrows
  <2> QED BY <1>1, <1>2, <2>1, <2>2, <2>3, UptoZero
<1>4. PICK w \in Nat : w = WritesUpTo(Len(caf)) /\ (Len(wdf) = 2 * w \/ Len(wdf) = 2 * w - 1)
  <2>1. WritesUpTo(Len(caf)) \in Nat
    BY <1>1, <1>2
  <2>2. Len(wdf) = 2 * WritesUpTo(Len(caf)) - (IF cs = "WRITE2" THEN 1 ELSE 0)
    BY DEF Paired
  <2> QED BY <1>1, <2>1, <2>2
<1>5. ASSUME NEW i \in 1..Len(caf), caf[i].write
      PROVE  /\ BeatOf(i, 1) \in 1..Len(wdf)
             /\ BeatOf(i, 2) \in 1..(Len(wdf) + 1)
  <2>1. PICK u \in Nat : u = WritesUpTo(i) /\ 1 <= u /\ u <= w
    <3>1. i \in Nat
      OBVIOUS
    <3>2. WritesUpTo(i) \in Nat
      BY <1>2, <3>1
    <3>3. WritesUpTo(i) <= w /\ WritesUpTo(i) >= 1
      BY <1>3, <1>4, <1>5
    <3> QED BY <3>2, <3>3
  <2>2. BeatOf(i, 1) = 2 * (u - 1) + 1 /\ BeatOf(i, 2) = 2 * (u - 1) + 2
    BY <2>1 DEF BeatOf
  <2> QED BY <1>1, <1>4, <2>1, <2>2, SMTT(30)
<1>6. \A i \in 1..Len(caf) : WritesUpTo(i) \in Nat
  BY <1>1, <1>2
<1> QED BY <1>1, <1>3, <1>4, <1>5, <1>6

\* The same queued writes with the same data, and the same memory.
LEMMA FindsStays ==
  ASSUME NEW l, NEW h, NEW v, Finds(l, h, v),
         QueuedWrites(l, h)' = QueuedWrites(l, h),
         \A i \in QueuedWrites(l, h) : wdf'[BeatOf(i, h)'] = wdf[BeatOf(i, h)],
         mem'[l][h] = mem[l][h]
  PROVE  Finds(l, h, v)'
BY DEF Finds

\* Nothing enters or leaves.
LEMMA SameQueue ==
  ASSUME UNCHANGED <<caf, wdf, mem>>, NEW l, NEW h, NEW v, Finds(l, h, v)
  PROVE  Finds(l, h, v)'
<1>1. \A i : BeatOf(i, h)' = BeatOf(i, h)
  BY DEF BeatOf, WritesUpTo
<1> QED BY <1>1, FindsStays DEF QueuedWrites

\* A read is queued.
LEMMA ReadEnters ==
  ASSUME FifoTypes, NEW c \in Command, ~c.write, caf' = Append(caf, c),
         UNCHANGED <<wdf, mem>>, NEW l, NEW h, NEW v, Finds(l, h, v)
  PROVE  Finds(l, h, v)'
<1>1. /\ DOMAIN caf = 1..Len(caf) /\ DOMAIN caf' = 1..(Len(caf) + 1) /\ Len(caf) \in Nat
      /\ \A i \in 1..Len(caf) : caf'[i] = caf[i]
      /\ caf'[Len(caf) + 1] = c
  BY DEF FifoTypes
<1>2. \A i \in 1..Len(caf) : BeatOf(i, h)' = BeatOf(i, h)
  <2> SUFFICES ASSUME NEW i \in 1..Len(caf) PROVE BeatOf(i, h)' = BeatOf(i, h)
    OBVIOUS
  <2>1. Upto(caf', i) = Upto(caf, i)
    <3>1. i \in Nat /\ \A j \in 1..i : caf'[j] = caf[j]
      BY <1>1
    <3> QED BY <3>1, UptoSame
  <2> QED BY <2>1 DEF BeatOf, WritesUpTo, Upto, Writes
<1>3. QueuedWrites(l, h)' = QueuedWrites(l, h)
  BY <1>1, <1>2 DEF QueuedWrites
<1> QED BY <1>1, <1>2, <1>3, FindsStays DEF QueuedWrites

\* A write and its first beat are queued.
LEMMA WriteEnters ==
  ASSUME FifoTypes, Paired, cs # "WRITE2",
         NEW L \in Line, NEW b \in WriteBeat,
         caf' = Append(caf, [write |-> TRUE, line |-> L]), wdf' = Append(wdf, b),
         mem' = mem, NEW l, NEW h \in Halves, NEW v
  PROVE  IF l = L /\ h = 1 /\ b.enable THEN Finds(l, h, b.data)'
         ELSE Finds(l, h, v) => Finds(l, h, v)'
<1>0. PICK n \in Nat : n = Len(caf)
  BY DEF FifoTypes
<1>1. /\ DOMAIN caf = 1..n /\ DOMAIN caf' = 1..(n + 1)
      /\ \A i \in 1..n : caf'[i] = caf[i]
      /\ caf'[n + 1] = [write |-> TRUE, line |-> L]
      /\ Len(wdf) \in Nat /\ DOMAIN wdf = 1..Len(wdf) /\ DOMAIN wdf' = 1..(Len(wdf) + 1)
      /\ \A i \in 1..Len(wdf) : wdf'[i] = wdf[i]
      /\ wdf'[Len(wdf) + 1] = b
  BY <1>0 DEF FifoTypes, Command
<1>2. \A i \in 1..n : BeatOf(i, h)' = BeatOf(i, h)
  <2> SUFFICES ASSUME NEW i \in 1..n PROVE BeatOf(i, h)' = BeatOf(i, h)
    OBVIOUS
  <2>1. Upto(caf', i) = Upto(caf, i)
    <3>1. i \in Nat /\ \A j \in 1..i : caf'[j] = caf[j]
      BY <1>1
    <3> QED BY <3>1, UptoSame
  <2> QED BY <2>1 DEF BeatOf, WritesUpTo, Upto, Writes
<1>3. \A i \in 1..n : caf[i].write => BeatOf(i, h) \in 1..Len(wdf)
  <2>1. WritesUpTo(n) \in Nat /\ Len(wdf) = 2 * WritesUpTo(n)
    BY <1>0, BeatPlaces DEF Paired
  <2>2. ASSUME NEW i \in 1..n, caf[i].write PROVE BeatOf(i, h) \in 1..Len(wdf)
    <3>1. WritesUpTo(i) \in Nat /\ WritesUpTo(i) >= 1 /\ WritesUpTo(i) <= WritesUpTo(n)
      BY <1>0, <2>2, BeatPlaces
    <3> QED BY <1>1, <2>1, <3>1, SMTT(30) DEF BeatOf, Halves
  <2> QED BY <2>2
<1>4. BeatOf(n + 1, h)' = Len(wdf) + h
  <2>1. Upto(caf', n + 1) = Upto(caf', n) + 1
    <3>1. n + 1 \in Nat \ {0} /\ (n + 1) - 1 = n
      BY <1>1
    <3>2. Upto(caf', n + 1) = Upto(caf', (n + 1) - 1) + Bit(caf'[n + 1].write)
      BY <3>1, UptoStep
    <3> QED BY <1>1, <3>1, <3>2 DEF Bit
  <2>2. Upto(caf', n) = Upto(caf, n)
    BY <1>1, UptoSame
  <2>3. Len(wdf) = 2 * Upto(caf, n) /\ Upto(caf, n) \in Nat
    <3>1. WritesUpTo(n) = Upto(caf, n)
      BY DEF WritesUpTo, Upto, Writes
    <3>2. Len(wdf) = 2 * WritesUpTo(n) /\ WritesUpTo(n) \in Nat
      BY <1>0, BeatPlaces DEF Paired
    <3> QED BY <3>1, <3>2
  <2>4. WritesUpTo(n + 1)' = Upto(caf, n) + 1
    BY <2>1, <2>2 DEF WritesUpTo, Upto, Writes
  <2> QED BY <2>3, <2>4 DEF BeatOf, Halves
<1>5. \A i \in 1..n : i \in QueuedWrites(l, h)' <=> i \in QueuedWrites(l, h)
  BY <1>1, <1>2, <1>3 DEF QueuedWrites
<1>6. n + 1 \in QueuedWrites(l, h)' <=> l = L /\ h = 1 /\ b.enable
  BY <1>1, <1>4 DEF QueuedWrites, Halves
<1>7. CASE l = L /\ h = 1 /\ b.enable
  <2>1. \A j \in QueuedWrites(l, h)' : j <= n + 1
    BY <1>1 DEF QueuedWrites
  <2>2. wdf'[BeatOf(n + 1, h)'] = b
    BY <1>1, <1>4, <1>7
  <2> QED BY <1>6, <1>7, <2>1, <2>2 DEF Finds
<1>8. CASE ~(l = L /\ h = 1 /\ b.enable)
  <2>1. QueuedWrites(l, h)' = QueuedWrites(l, h)
    <3>1. QueuedWrites(l, h) \subseteq 1..n /\ QueuedWrites(l, h)' \subseteq 1..(n + 1)
      BY <1>1 DEF QueuedWrites
    <3>2. 1..(n + 1) = (1..n) \union {n + 1}
      OBVIOUS
    <3>3. n + 1 \notin QueuedWrites(l, h)' /\ n + 1 \notin QueuedWrites(l, h)
      BY <1>6, <1>8, <3>1
    <3> HIDE DEF QueuedWrites
    <3> QED BY <1>5, <3>1, <3>2, <3>3
  <2>2. \A i \in QueuedWrites(l, h) : wdf'[BeatOf(i, h)'] = wdf[BeatOf(i, h)]
    BY <1>1, <1>2, <1>3 DEF QueuedWrites
  <2> QED BY <1>8, <2>1, <2>2, FindsStays
<1> QED BY <1>7, <1>8

\* In WRITE2 the last command is the write of the store in hold.
LEMMA LastWrite ==
  ASSUME FifoTypes, Paired, cs = "WRITE2"
  PROVE  /\ Len(caf) \in Nat \ {0} /\ DOMAIN caf = 1..Len(caf)
         /\ Len(wdf) \in Nat /\ DOMAIN wdf = 1..Len(wdf)
         /\ caf[Len(caf)].write /\ caf[Len(caf)].line = LineOf(hold.addr)
         /\ hold.addr.half = 1 => wdf[Len(wdf)].enable
         /\ wdf[Len(wdf)].data = hold.din
<1>1. caf # <<>> /\ caf \in Seq(Command) /\ wdf \in Seq(WriteBeat)
  BY DEF FifoTypes, Paired
<1>2. Len(caf) \in Nat \ {0} /\ DOMAIN caf = 1..Len(caf)
  BY <1>1, EmptySeq, LenProperties
<1>3. Len(wdf) \in Nat /\ DOMAIN wdf = 1..Len(wdf)
  BY <1>1, LenProperties
<1>4. caf[Len(caf)].write /\ caf[Len(caf)].line = LineOf(hold.addr)
  BY DEF Paired
<1>5. (hold.addr.half = 1 => wdf[Len(wdf)].enable) /\ wdf[Len(wdf)].data = hold.din
  BY DEF Paired
<1> QED BY <1>2, <1>3, <1>4, <1>5

\* The second beat of the last write is queued.
LEMMA SecondEnters ==
  ASSUME FifoTypes, Paired, cs = "WRITE2",
         NEW b \in WriteBeat, wdf' = Append(wdf, b), UNCHANGED <<caf, mem>>,
         NEW l, NEW h \in Halves, NEW v
  PROVE  IF l = LineOf(hold.addr) /\ h = 2 /\ b.enable THEN Finds(l, h, b.data)'
         ELSE Finds(l, h, v) => Finds(l, h, v)'
<1>1. PICK n \in Nat, k \in Nat :
        /\ n = Len(caf) /\ k = Len(wdf) /\ n >= 1
        /\ DOMAIN caf = 1..n /\ DOMAIN caf' = 1..n
        /\ DOMAIN wdf = 1..k /\ DOMAIN wdf' = 1..(k + 1)
        /\ \A i \in 1..k : wdf'[i] = wdf[i]
        /\ wdf'[k + 1] = b
        /\ caf[n].write /\ caf[n].line = LineOf(hold.addr)
  <2>1. PICK n \in Nat, k \in Nat : n = Len(caf) /\ k = Len(wdf)
    BY LastWrite
  <2>2. n >= 1 /\ DOMAIN caf = 1..n /\ DOMAIN wdf = 1..k
        /\ caf[n].write /\ caf[n].line = LineOf(hold.addr)
    BY <2>1, LastWrite
  <2>3. /\ DOMAIN caf' = 1..n /\ DOMAIN wdf' = 1..(k + 1)
        /\ \A i \in 1..k : wdf'[i] = wdf[i]
        /\ wdf'[k + 1] = b
    BY <2>1, <2>2 DEF FifoTypes
  <2> QED BY <2>1, <2>2, <2>3
<1>2. \A i : BeatOf(i, h)' = BeatOf(i, h)
  BY DEF BeatOf, WritesUpTo
<1>3. k = 2 * WritesUpTo(n) - 1 /\ WritesUpTo(n) \in Nat
  BY <1>1, BeatPlaces DEF Paired
<1>4. BeatOf(n, 2) = k + 1
  BY <1>3 DEF BeatOf
<1>5. ASSUME NEW i \in 1..n, caf[i].write, BeatOf(i, h) = k + 1
      PROVE  i = n /\ h = 2
  <2>1. PICK u \in Nat, w \in Nat : u = WritesUpTo(i) /\ w = WritesUpTo(n) /\ u <= w
    BY <1>1, <1>3, BeatPlaces
  <2>2. 2 * (u - 1) + h = 2 * w /\ h \in 1..2
    BY <1>3, <1>5, <2>1 DEF BeatOf, Halves
  <2>3. u = w /\ h = 2
    BY <2>1, <2>2
  <2>4. CASE i < n
    <3>1. Upto(caf, i) < Upto(caf, n)
      BY <1>1, <2>4, UptoGrows
    <3>2. Upto(caf, i) = u /\ Upto(caf, n) = w
      BY <2>1 DEF WritesUpTo, Upto, Writes
    <3> QED BY <2>3, <3>1, <3>2
  <2> QED BY <2>3, <2>4
<1>6. \A i \in 1..n : caf[i].write => BeatOf(i, h) \in 1..(k + 1)
  <2>1. \A i \in 1..n : caf[i].write => /\ BeatOf(i, 1) \in 1..k
                                        /\ BeatOf(i, 2) \in 1..(k + 1)
    BY <1>1, BeatPlaces
  <2> QED BY <2>1 DEF Halves
<1>7. QueuedWrites(l, h)' = {i \in 1..n : /\ caf[i].write /\ caf[i].line = l
                                          /\ wdf'[BeatOf(i, h)].enable}
  BY <1>1, <1>2, <1>6 DEF QueuedWrites
<1>8. CASE l = LineOf(hold.addr) /\ h = 2 /\ b.enable
  <2>1. n \in QueuedWrites(l, h)'
    BY <1>1, <1>4, <1>7, <1>8
  <2>2. \A j \in QueuedWrites(l, h)' : j <= n
    BY <1>7
  <2>3. wdf'[BeatOf(n, h)'] = b
    BY <1>1, <1>2, <1>4, <1>8
  <2> QED BY <1>8, <2>1, <2>2, <2>3 DEF Finds
<1>9. CASE ~(l = LineOf(hold.addr) /\ h = 2 /\ b.enable)
  <2>1. ASSUME NEW i \in 1..n, caf[i].write, caf[i].line = l
        PROVE  wdf'[BeatOf(i, h)].enable
                 <=> BeatOf(i, h) \in 1..k /\ wdf[BeatOf(i, h)].enable
    <3>1. CASE BeatOf(i, h) \in 1..k
      BY <1>1, <3>1
    <3>2. CASE BeatOf(i, h) \notin 1..k
      <4>1. BeatOf(i, h) = k + 1
        BY <1>6, <2>1, <3>2
      <4>2. i = n /\ h = 2
        BY <1>5, <2>1, <4>1
      <4> QED BY <1>1, <1>9, <2>1, <3>2, <4>1, <4>2
    <3> QED BY <3>1, <3>2
  <2>2. QueuedWrites(l, h) = {i \in 1..n : /\ caf[i].write /\ caf[i].line = l
                                           /\ BeatOf(i, h) \in 1..k
                                           /\ wdf[BeatOf(i, h)].enable}
    BY <1>1 DEF QueuedWrites
  <2>3. QueuedWrites(l, h)' = QueuedWrites(l, h)
    BY <1>7, <2>1, <2>2
  <2>4. \A i \in QueuedWrites(l, h) : wdf'[BeatOf(i, h)'] = wdf[BeatOf(i, h)]
    BY <1>1, <1>2, <2>2
  <2> QED BY <1>9, <2>3, <2>4, FindsStays
<1> QED BY <1>8, <1>9

\* When the first beat of the last write carries the store, it is the one found.
LEMMA FirstBeatFound ==
  ASSUME FifoTypes, Paired, cs = "WRITE2", hold.addr.half = 1
  PROVE  Finds(LineOf(hold.addr), 1, hold.din)
<1>1. PICK n \in Nat, k \in Nat :
        /\ n = Len(caf) /\ k = Len(wdf) /\ n >= 1
        /\ DOMAIN caf = 1..n /\ DOMAIN wdf = 1..k
        /\ caf[n].write /\ caf[n].line = LineOf(hold.addr)
        /\ wdf[k].enable /\ wdf[k].data = hold.din
  <2>1. PICK n \in Nat, k \in Nat : n = Len(caf) /\ k = Len(wdf)
    BY LastWrite
  <2> QED BY <2>1, LastWrite
<1>2. k = 2 * WritesUpTo(n) - 1 /\ WritesUpTo(n) \in Nat
  BY <1>1, BeatPlaces DEF Paired
<1>3. BeatOf(n, 1) = k /\ BeatOf(n, 1) \in 1..k
  BY <1>1, <1>2, BeatPlaces DEF BeatOf
<1>4. n \in QueuedWrites(LineOf(hold.addr), 1)
  BY <1>1, <1>3 DEF QueuedWrites
<1>5. \A j \in QueuedWrites(LineOf(hold.addr), 1) : j <= n
  BY <1>1 DEF QueuedWrites
<1> QED BY <1>1, <1>3, <1>4, <1>5 DEF Finds

\* The first command leaves, with its two beats if it is a write: the others
\* and their beats move up.
LEMMA FirstLeaves ==
  ASSUME FifoTypes, Paired, caf # <<>>, caf' = Tail(caf),
         NEW d \in Nat, d = 2 * Bit(caf[1].write), d <= Len(wdf),
         \/ d = 0 /\ wdf' = wdf
         \/ d = 2 /\ wdf' = SubSeq(wdf, 3, Len(wdf)),
         NEW l, NEW h \in Halves
  PROVE  /\ \A i \in QueuedWrites(l, h)' :
              /\ i \in Nat \ {0} /\ i + 1 \in QueuedWrites(l, h)
              /\ wdf'[BeatOf(i, h)'] = wdf[BeatOf(i + 1, h)]
         /\ \A i \in QueuedWrites(l, h) :
              i \in Nat \ {0} /\ (i # 1 => i - 1 \in QueuedWrites(l, h)')
<1>1. PICK n \in Nat \ {0}, k \in Nat : n = Len(caf) /\ k = Len(wdf)
  BY EmptySeq, LenProperties DEF FifoTypes
<1>2. /\ DOMAIN caf = 1..n /\ DOMAIN caf' = 1..(n - 1)
      /\ \A i \in 1..(n - 1) : caf'[i] = caf[i + 1]
  BY <1>1 DEF FifoTypes
<1>3. /\ DOMAIN wdf = 1..k /\ DOMAIN wdf' = 1..(k - d)
      /\ \A i \in 1..(k - d) : wdf'[i] = wdf[i + d]
  <2>1. wdf \in Seq(WriteBeat) /\ DOMAIN wdf = 1..k
    BY <1>1 DEF FifoTypes
  <2>2. CASE d = 0
    BY <2>1, <2>2, <1>1
  <2>3. CASE d = 2 /\ wdf' = SubSeq(wdf, 3, Len(wdf))
    <3>1. \A i \in 3..k : wdf[i] \in WriteBeat
      BY <2>1
    <3>2. /\ SubSeq(wdf, 3, k) \in Seq(WriteBeat)
          /\ Len(SubSeq(wdf, 3, k)) = IF 3 <= k THEN k - 3 + 1 ELSE 0
          /\ \A i \in 1..(k - 3 + 1) : SubSeq(wdf, 3, k)[i] = wdf[3 + i - 1]
      BY <3>1, SubSeqProperties
    <3>3. Len(wdf') = k - 2 /\ DOMAIN wdf' = 1..Len(wdf')
      BY <1>1, <2>3, <3>2
    <3>4. \A i \in 1..(k - 2) : wdf'[i] = wdf[i + 2]
      BY <1>1, <2>3, <3>2
    <3> QED BY <2>1, <2>3, <3>3, <3>4
  <2> QED BY <2>2, <2>3
<1>4. ASSUME NEW i \in 1..(n - 1)
      PROVE  BeatOf(i, h)' = BeatOf(i + 1, h) - d /\ BeatOf(i + 1, h) \in Int
  <2>1. i \in 0..Len(Tail(caf)) /\ caf \in Seq(Command) /\ i \in Nat /\ i + 1 \in Nat
    BY <1>1 DEF FifoTypes
  <2>2. Upto(caf, i + 1) = Upto(Tail(caf), i) + Bit(caf[1].write)
    BY <2>1, UptoTail
  <2>3. PICK u \in Nat, w \in Nat : u = Upto(caf, i + 1) /\ w = Upto(Tail(caf), i)
    BY <2>1, UptoType
  <2>4. WritesUpTo(i)' = w /\ WritesUpTo(i + 1) = u
    BY <2>3 DEF WritesUpTo, Upto, Writes
  <2>5. BeatOf(i, h)' = 2 * (w - 1) + h /\ BeatOf(i + 1, h) = 2 * (u - 1) + h
    BY <2>4 DEF BeatOf
  <2>6. PICK b \in Nat : b = Bit(caf[1].write)
    BY DEF Bit
  <2>7. u = w + b /\ d = 2 * b /\ h \in Nat
    BY <2>2, <2>3, <2>6 DEF Halves
  <2> QED BY <2>5, <2>7
<1>5. ASSUME NEW i \in 1..(n - 1), caf[i + 1].write
      PROVE  BeatOf(i, h)' >= 1
  <2>1. i \in Nat /\ 0 \in Nat /\ 0 <= i /\ 0 < i /\ caf'[i].write
    BY <1>2, <1>5
  <2>2. Upto(caf', 0) < Upto(caf', i)
    BY <2>1, UptoGrows
  <2>3. Upto(caf', i) \in Nat /\ Upto(caf', i) >= 1
    BY <2>1, <2>2, UptoZero, UptoType
  <2>4. BeatOf(i, h)' = 2 * (Upto(caf', i) - 1) + h
    BY DEF BeatOf, WritesUpTo, Upto, Writes
  <2> QED BY <2>3, <2>4 DEF Halves
<1>6. ASSUME NEW i \in 1..(n - 1)
      PROVE  /\ i \in QueuedWrites(l, h)' <=> i + 1 \in QueuedWrites(l, h)
             /\ i \in QueuedWrites(l, h)' => wdf'[BeatOf(i, h)'] = wdf[BeatOf(i + 1, h)]
  <2>1. i + 1 \in 1..n /\ caf'[i] = caf[i + 1]
    BY <1>2
  <2>2. CASE caf[i + 1].write
    <3>1. PICK a \in Int, b \in Int : /\ a = BeatOf(i, h)' /\ b = BeatOf(i + 1, h)
                                      /\ a = b - d /\ a >= 1
      BY <1>4, <1>5, <2>2
    <3>2. a \in 1..(k - d) <=> b \in 1..k
      BY <3>1, SMTT(30)
    <3>3. a \in 1..(k - d) => wdf'[a] = wdf[b]
      BY <1>3, <3>1
    <3>4. i \in QueuedWrites(l, h)'
            <=> caf'[i].line = l /\ a \in 1..(k - d) /\ wdf'[a].enable
      BY <1>2, <1>3, <2>1, <2>2, <3>1 DEF QueuedWrites
    <3>5. i + 1 \in QueuedWrites(l, h)
            <=> caf[i + 1].line = l /\ b \in 1..k /\ wdf[b].enable
      BY <1>2, <1>3, <2>1, <2>2, <3>1 DEF QueuedWrites
    <3> QED BY <2>1, <3>1, <3>2, <3>3, <3>4, <3>5
  <2>3. CASE ~caf[i + 1].write
    BY <2>1, <2>3 DEF QueuedWrites
  <2> QED BY <2>2, <2>3
<1>7. QueuedWrites(l, h) \subseteq 1..n /\ QueuedWrites(l, h)' \subseteq 1..(n - 1)
  BY <1>2 DEF QueuedWrites
<1>8. ASSUME NEW i \in QueuedWrites(l, h)
      PROVE  i \in Nat \ {0} /\ (i # 1 => i - 1 \in QueuedWrites(l, h)')
  <2>1. i \in 1..n
    BY <1>7
  <2>2. CASE i # 1
    <3>1. i - 1 \in 1..(n - 1) /\ (i - 1) + 1 = i
      BY <2>1, <2>2
    <3> QED BY <1>6, <2>1, <3>1
  <2> QED BY <2>1, <2>2
<1>9. ASSUME NEW i \in QueuedWrites(l, h)'
      PROVE  /\ i \in Nat \ {0} /\ i + 1 \in QueuedWrites(l, h)
             /\ wdf'[BeatOf(i, h)'] = wdf[BeatOf(i + 1, h)]
  <2>1. i \in 1..(n - 1)
    BY <1>7
  <2> QED BY <1>6, <2>1
<1> QED BY <1>8, <1>9

\* What is found in a later command stays.
LEMMA LaterStays ==
  ASSUME FifoTypes, Paired, caf # <<>>, caf' = Tail(caf),
         NEW d \in Nat, d = 2 * Bit(caf[1].write), d <= Len(wdf),
         \/ d = 0 /\ wdf' = wdf
         \/ d = 2 /\ wdf' = SubSeq(wdf, 3, Len(wdf)),
         NEW l, NEW h \in Halves, NEW v,
         NEW i, i \in QueuedWrites(l, h), i # 1,
         \A j \in QueuedWrites(l, h) : j <= i,
         wdf[BeatOf(i, h)].data = v
  PROVE  Finds(l, h, v)'
<1>1. /\ \A j \in QueuedWrites(l, h)' :
           /\ j \in Nat \ {0} /\ j + 1 \in QueuedWrites(l, h)
           /\ wdf'[BeatOf(j, h)'] = wdf[BeatOf(j + 1, h)]
      /\ \A j \in QueuedWrites(l, h) :
           j \in Nat \ {0} /\ (j # 1 => j - 1 \in QueuedWrites(l, h)')
  BY FirstLeaves
<1>2. i - 1 \in QueuedWrites(l, h)' /\ i \in Nat \ {0}
  BY <1>1
<1>3. \A j \in QueuedWrites(l, h)' : j <= i - 1
  BY <1>1, <1>2
<1>4. wdf'[BeatOf(i - 1, h)'].data = v
  <2>1. (i - 1) + 1 = i
    BY <1>2
  <2> QED BY <1>1, <1>2, <2>1
<1> QED BY <1>2, <1>3, <1>4 DEF Finds

\* A read leaves.
LEMMA ReadLeaves ==
  ASSUME FifoTypes, Paired, caf # <<>>, ~caf[1].write, caf' = Tail(caf),
         UNCHANGED <<wdf, mem>>, NEW l, NEW h \in Halves, NEW v, Finds(l, h, v)
  PROVE  Finds(l, h, v)'
<1>1. 0 = 2 * Bit(caf[1].write) /\ 0 <= Len(wdf)
  BY DEF Bit, FifoTypes
<1>2. 1 \notin QueuedWrites(l, h)
  BY DEF QueuedWrites
<1>3. CASE QueuedWrites(l, h) = {} /\ mem[l][h] = v
  <2>1. \A i \in QueuedWrites(l, h)' : i + 1 \in QueuedWrites(l, h)
    BY <1>1, FirstLeaves
  <2>2. QueuedWrites(l, h)' = {}
    BY <1>3, <2>1
  <2> QED BY <1>3, <2>2 DEF Finds
<1>4. CASE \E i \in QueuedWrites(l, h) :
             (\A j \in QueuedWrites(l, h) : j <= i) /\ wdf[BeatOf(i, h)].data = v
  <2>1. PICK i : /\ i \in QueuedWrites(l, h) /\ \A j \in QueuedWrites(l, h) : j <= i
                 /\ wdf[BeatOf(i, h)].data = v
    BY <1>4
  <2> QED BY <1>1, <1>2, <2>1, LaterStays
<1> QED BY <1>3, <1>4 DEF Finds

\* A write leaves and takes effect.
LEMMA WriteLeaves ==
  ASSUME TypeOK, Paired, MigWrite, NEW l \in Line, NEW h \in Halves, NEW v, Finds(l, h, v)
  PROVE  Finds(l, h, v)'
<1>1. /\ caf # <<>> /\ caf[1].write /\ caf' = Tail(caf) /\ Len(wdf) >= 2
      /\ wdf' = SubSeq(wdf, 3, Len(wdf)) /\ FifoTypes /\ 2 = 2 * Bit(caf[1].write)
      /\ mem' = [mem EXCEPT ![caf[1].line] =
                   [g \in Halves |-> IF wdf[g].enable THEN wdf[g].data ELSE @[g]]]
      /\ 2 <= Len(wdf)
  <2>1. /\ caf # <<>> /\ Head(caf).write /\ caf' = Tail(caf) /\ Len(wdf) >= 2
        /\ wdf' = SubSeq(wdf, 3, Len(wdf)) /\ FifoTypes
        /\ mem' = [mem EXCEPT ![Head(caf).line] =
                     [g \in Halves |-> IF wdf[g].enable THEN wdf[g].data ELSE @[g]]]
    BY DEF MigWrite, TypeOK
  <2>2. Head(caf) = caf[1]
    BY <2>1 DEF FifoTypes
  <2>3. 2 <= Len(wdf)
    BY <2>1 DEF FifoTypes
  <2>4. caf[1].write /\ 2 = 2 * Bit(caf[1].write)
    BY <2>1, <2>2 DEF Bit
  <2>5. mem' = [mem EXCEPT ![caf[1].line] =
                  [g \in Halves |-> IF wdf[g].enable THEN wdf[g].data ELSE @[g]]]
    BY <2>1, <2>2, Zenon
  <2> QED BY <2>1, <2>3, <2>4, <2>5
<1>2. BeatOf(1, h) = h /\ 1 \in DOMAIN caf /\ h \in DOMAIN wdf
  <2>1. Upto(caf, 1) = Upto(caf, 1 - 1) + 1
    BY <1>1, UptoStep DEF Bit
  <2>2. WritesUpTo(1) = 1
    BY <2>1, UptoZero DEF WritesUpTo, Upto, Writes
  <2>3. Len(caf) \in Nat \ {0} /\ DOMAIN caf = 1..Len(caf) /\ DOMAIN wdf = 1..Len(wdf)
    BY <1>1, EmptySeq, LenProperties DEF FifoTypes
  <2> QED BY <1>1, <2>2, <2>3 DEF BeatOf, Halves
<1>3. 1 \in QueuedWrites(l, h) <=> caf[1].line = l /\ wdf[h].enable
  BY <1>1, <1>2 DEF QueuedWrites
<1>4. mem'[l][h] = IF caf[1].line = l /\ wdf[h].enable THEN wdf[h].data ELSE mem[l][h]
  <2>1. mem \in [Line -> Block]
    BY <1>1 DEF FifoTypes
  <2>2. CASE caf[1].line = l
    <3>1. mem'[l] = [g \in Halves |-> IF wdf[g].enable THEN wdf[g].data ELSE mem[l][g]]
      BY <1>1, <2>1, <2>2
    <3> QED BY <2>2, <3>1
  <2>3. CASE caf[1].line # l
    <3>1. mem'[l] = mem[l]
      BY <1>1, <2>1, <2>3
    <3> QED BY <2>3, <3>1
  <2> QED BY <2>2, <2>3
<1>5. \A i \in QueuedWrites(l, h)' : i \in Nat \ {0} /\ i + 1 \in QueuedWrites(l, h)
  BY <1>1, FirstLeaves
<1>6. CASE QueuedWrites(l, h) = {} /\ mem[l][h] = v
  <2>1. QueuedWrites(l, h)' = {}
    BY <1>5, <1>6
  <2>2. mem'[l][h] = v
    BY <1>3, <1>4, <1>6
  <2> QED BY <2>1, <2>2 DEF Finds
<1>7. CASE \E i \in QueuedWrites(l, h) :
             (\A j \in QueuedWrites(l, h) : j <= i) /\ wdf[BeatOf(i, h)].data = v
  <2>1. PICK i : /\ i \in QueuedWrites(l, h) /\ \A j \in QueuedWrites(l, h) : j <= i
                 /\ wdf[BeatOf(i, h)].data = v
    BY <1>7
  <2>2. CASE i = 1
    <3>1. QueuedWrites(l, h)' = {}
      BY <1>5, <2>1, <2>2
    <3>2. mem'[l][h] = v
      BY <1>2, <1>3, <1>4, <2>1, <2>2
    <3> QED BY <3>1, <3>2 DEF Finds
  <2>3. CASE i # 1
    BY <1>1, <2>1, <2>3, LaterStays
  <2> QED BY <2>2, <2>3
<1> QED BY <1>6, <1>7 DEF Finds

-----------------------------------------------------------------------------
(***************************************************************************)
(* What one clock edge does, for any address the port may bear.            *)
(***************************************************************************)

States == {"IDLE", "WRITE1", "WRITE2", "FETCH", "READ1", "READ2", "CWRITEB"}
Port   == [addr : Addr, re : BOOLEAN, we : BOOLEAN, din : Values]

\* The CPU stalls, or goes on with the access on the port.
Waits(port) ==
  /\ UNCHANGED <<P, golden>>
  /\ ~port.we
  /\ port.re <=> side = "data" /\ P.re
  /\ P.re => port.addr = P.addr

GoesOn(full, port) ==
  /\ NextState(full) = "IDLE"
  /\ ~(port.re /\ port.we)
  /\ P' = [addr |-> port.addr, re |-> port.re]
  /\ golden' = IF port.we
               THEN [golden EXCEPT ![LineOf(port.addr)][port.addr.half] = port.din]
               ELSE golden

\* Every edge of the clock is one of these two (Stalled; Read, Store, Other).
LEMMA TickIsEdge ==
  ASSUME TypeOK, NEW full \in BOOLEAN, CpuTick(full)
  PROVE  \E port \in Port : /\ ClockEdge(full, NextState(full), port)
                            /\ Waits(port) \/ GoesOn(full, port)
<1>0. hold.din \in Values /\ P.addr \in Addr /\ P.re \in BOOLEAN
  BY DEF TypeOK, PortTypes
<1>1. CASE Stalled(full)
  <2>1. PICK a \in HeldAddress : Stall(full, a)
    BY <1>1 DEF Stalled
  <2>2. a \in Addr /\ (P.re => a = P.addr)
    BY <1>0 DEF HeldAddress
  <2>3. PICK r \in BOOLEAN : r <=> side = "data" /\ P.re
    BY Zenon
  <2>4. StalledPort(a) = [addr |-> a, re |-> r, we |-> FALSE, din |-> hold.din]
    BY <2>3, Zenon DEF StalledPort
  <2>5. StalledPort(a) \in Port /\ ~StalledPort(a).we
        /\ (StalledPort(a).re <=> r) /\ StalledPort(a).addr = a
    BY <1>0, <2>2, <2>4 DEF Port
  <2>6. ClockEdge(full, NextState(full), StalledPort(a)) /\ UNCHANGED <<P, golden>>
    BY <2>1 DEF Stall
  <2>7. Waits(StalledPort(a))
    BY <2>2, <2>3, <2>5, <2>6 DEF Waits
  <2> QED BY <2>5, <2>6, <2>7
<1>2. ASSUME NEW req \in Port, ~(req.re /\ req.we), Advance(full, req)
      PROVE  ClockEdge(full, NextState(full), req) /\ GoesOn(full, req)
  BY <1>2 DEF Advance, GoesOn
<1>3. CASE Read(full)
  <2>1. PICK a \in Addr :
          Advance(full, [addr |-> a, re |-> TRUE, we |-> FALSE, din |-> hold.din])
    BY <1>3 DEF Read
  <2> DEFINE req == [addr |-> a, re |-> TRUE, we |-> FALSE, din |-> hold.din]
  <2>2. req \in Port /\ ~(req.re /\ req.we)
    BY <1>0 DEF Port
  <2> QED BY <1>2, <2>1, <2>2
<1>4. CASE Store(full)
  <2>1. PICK a \in Addr, v \in Values :
          Advance(full, [addr |-> a, re |-> FALSE, we |-> TRUE, din |-> v])
    BY <1>4 DEF Store
  <2> DEFINE req == [addr |-> a, re |-> FALSE, we |-> TRUE, din |-> v]
  <2>2. req \in Port /\ ~(req.re /\ req.we)
    BY DEF Port
  <2> QED BY <1>2, <2>1, <2>2
<1>5. CASE Other(full)
  <2>1. PICK a \in Addr :
          Advance(full, [addr |-> a, re |-> FALSE, we |-> FALSE, din |-> hold.din])
    BY <1>5 DEF Other
  <2> DEFINE req == [addr |-> a, re |-> FALSE, we |-> FALSE, din |-> hold.din]
  <2>2. req \in Port /\ ~(req.re /\ req.we)
    BY <1>0 DEF Port
  <2> QED BY <1>2, <2>1, <2>2
<1> QED BY <1>1, <1>3, <1>4, <1>5 DEF CpuTick

\* The next state, read backwards.
LEMMA NextStates ==
  ASSUME PortTypes, NEW full \in BOOLEAN
  PROVE  LET ns == NextState(full)
             ready == ~hold.we /\ ~read_miss
         IN /\ ns \in States
            /\ ns = "IDLE"    <=> \/ cs = "IDLE" /\ ready
                                  \/ cs = "WRITE2" /\ ~full
                                  \/ cs = "CWRITEB"
            /\ ns = "WRITE1"  <=> (cs = "IDLE" /\ hold.we) \/ (cs = "WRITE1" /\ full)
            /\ ns = "WRITE2"  <=> (cs = "WRITE1" /\ ~full) \/ (cs = "WRITE2" /\ full)
            /\ ns = "FETCH"   <=> \/ cs = "IDLE" /\ ~hold.we /\ read_miss
                                  \/ cs = "FETCH" /\ full
            /\ ns = "READ1"   <=> \/ cs = "FETCH" /\ ~full
                                  \/ cs = "READ1" /\ ~rdf_beat.valid
            /\ ns = "READ2"   <=> \/ cs = "READ1" /\ rdf_beat.valid
                                  \/ cs = "READ2" /\ ~rdf_beat.valid
            /\ ns = "CWRITEB" <=> cs = "READ2" /\ rdf_beat.valid
<1>1. CASE cs = "IDLE"
  BY <1>1 DEF NextState, States
<1>2. CASE cs = "WRITE1"
  BY <1>2 DEF NextState, States
<1>3. CASE cs = "WRITE2"
  BY <1>3 DEF NextState, States
<1>4. CASE cs = "FETCH"
  BY <1>4 DEF NextState, States
<1>5. CASE cs = "READ1"
  BY <1>5 DEF NextState, States
<1>6. CASE cs = "READ2"
  BY <1>6 DEF NextState, States
<1>7. CASE cs = "CWRITEB"
  BY <1>7 DEF NextState, States
<1> QED BY <1>1, <1>2, <1>3, <1>4, <1>5, <1>6, <1>7 DEF PortTypes

\* Half a line of two values.
LEMMA BlockOfTwo ==
  ASSUME NEW a \in Values, NEW b \in Values
  PROVE  /\ <<a, b>> \in Block
         /\ \A g \in Block : g[1] = a /\ g[2] = b => <<a, b>> = g
BY DEF Block, Halves

-----------------------------------------------------------------------------
(***************************************************************************)
(* Types.                                                                  *)
(***************************************************************************)

\* The registers and the RAMs keep their types at a clock edge.
LEMMA EdgeTypes ==
  ASSUME TypeOK, NEW full \in BOOLEAN, NEW port \in Port,
         ClockEdge(full, NextState(full), port)
  PROVE  /\ cs' \in States /\ hold' \in Port /\ side' = side
         /\ RamTypes'
         /\ caf' \in Seq(Command) /\ wdf' \in Seq(WriteBeat)
         /\ rdf' \in Seq(Values) /\ burst' \in Seq(Values)
         /\ rdf_beat' \in [valid : BOOLEAN, data : Values]
         /\ mem' = mem
<1> DEFINE ns == NextState(full)
<1>0. FifoTypes /\ RamTypes /\ PortTypes
  BY DEF TypeOK
<1>1. ns \in States
  BY <1>0, NextStates
<1>2. /\ hold \in Port /\ hold.addr \in Addr /\ Row \in Indexes /\ hold.addr.tag \in Tags
      /\ hold.addr.half \in Halves /\ hold.din \in Values /\ LineOf(hold.addr) \in Line
  BY <1>0 DEF PortTypes, Port, Addr, Halves, Row, Line, LineOf
<1>3. /\ port.addr.index \in Indexes
      /\ rdf_beat.data \in Values /\ <<first_read, rdf_beat.data>> \in Block
  BY <1>0, BlockOfTwo DEF Port, Addr, FifoTypes, RamTypes
<1> HIDE DEF ns
<1>4. Registers(ns, port) /\ BlockRams(ns, port) /\ Fifos(full)
      /\ UNCHANGED <<side, burst, mem>>
  BY DEF ClockEdge, ns
<1>5. cs' \in States /\ hold' \in Port
  BY <1>1, <1>2, <1>4 DEF Registers
<1>6. first_read' \in Values /\ active_data_line' \in Block
  BY <1>0, <1>3, <1>4 DEF Registers, RamTypes
<1>7. /\ tagram' \in [Indexes -> Tags \union {NoTag}]
      /\ dataram' \in [Indexes -> Block]
      /\ tag_line_out' \in Tags \union {NoTag}
      /\ data_line_out' \in Block
  <2> DEFINE line_in == IF ns = "CWRITEB" THEN <<first_read, rdf_beat.data>>
                        ELSE [dataram[Row] EXCEPT ![hold.addr.half] = hold.din]
             write == ns = "CWRITEB" \/ write_hit_hold
             tags == IF write THEN [tagram EXCEPT ![Row] = hold.addr.tag] ELSE tagram
             lines == IF write THEN [dataram EXCEPT ![Row] = line_in] ELSE dataram
             idx == port.addr.index
             collide == write /\ idx = Row
  <2>1. line_in \in Block
    BY <1>0, <1>2, <1>3 DEF RamTypes, Block
  <2> HIDE DEF line_in
  <2>2. tags \in [Indexes -> Tags \union {NoTag}] /\ lines \in [Indexes -> Block]
    BY <1>0, <1>2, <2>1 DEF RamTypes
  <2>3. tags[idx] \in Tags \union {NoTag} /\ lines[idx] \in Block
        /\ tagram[idx] \in Tags \union {NoTag} /\ dataram[idx] \in Block
    BY <1>0, <1>3, <2>2 DEF RamTypes
  <2>4. /\ tagram' = tags /\ dataram' = lines
        /\ \/ UNCHANGED <<tag_line_out, data_line_out>>
           \/ /\ tag_line_out' \in ReadRow(tagram[idx], tags[idx], collide, Tags \union {NoTag})
              /\ data_line_out' \in ReadRow(dataram[idx], lines[idx], collide, Block)
    BY <1>4 DEF BlockRams, line_in, Row
  <2> HIDE DEF tags, lines, idx, collide
  <2> QED BY <1>0, <2>2, <2>3, <2>4 DEF ReadRow, RamTypes
<1>8. caf' \in Seq(Command) /\ wdf' \in Seq(WriteBeat)
  <2>1. PICK w \in BOOLEAN : w <=> cs = "WRITE1"
    BY Zenon
  <2>2. PICK e \in BOOLEAN : e <=> f_mask
    BY Zenon
  <2>3. f_mask \in BOOLEAN
    BY DEF f_mask
  <2>4. /\ [write |-> cs = "WRITE1", line |-> LineOf(hold.addr)] \in Command
        /\ [enable |-> f_mask, data |-> hold.din] \in WriteBeat
    BY <1>2, <2>3 DEF Command, WriteBeat
  <2> QED BY <1>0, <1>4, <2>4 DEF Fifos, FifoTypes
<1>9. rdf' \in Seq(Values) /\ rdf_beat' \in [valid : BOOLEAN, data : Values]
  <2>1. rdf \in Seq(Values) /\ rdf_beat \in [valid : BOOLEAN, data : Values]
    BY <1>0 DEF FifoTypes
  <2>2. CASE rdf_rden /\ rdf # <<>>
    <3>1. rdf' = Tail(rdf) /\ rdf_beat' = [valid |-> TRUE, data |-> Head(rdf)]
      BY <1>4, <2>2 DEF Fifos
    <3>2. Tail(rdf) \in Seq(Values) /\ Head(rdf) \in Values
      BY <2>1, <2>2, HeadTailProperties
    <3> QED BY <3>1, <3>2
  <2>3. CASE ~(rdf_rden /\ rdf # <<>>)
    <3>1. rdf' = rdf /\ rdf_beat' = [rdf_beat EXCEPT !.valid = FALSE]
      BY <1>4, <2>3 DEF Fifos
    <3> QED BY <2>1, <3>1
  <2> QED BY <2>2, <2>3
<1> QED BY <1>0, <1>4, <1>5, <1>6, <1>7, <1>8, <1>9 DEF RamTypes, FifoTypes

LEMMA TypesStep ==
  ASSUME TypeOK, [Next]_vars
  PROVE  TypeOK'
<1>1. ASSUME NEW full \in BOOLEAN, CpuTick(full) PROVE TypeOK'
  <2>1. PICK port \in Port : /\ ClockEdge(full, NextState(full), port)
                             /\ Waits(port) \/ GoesOn(full, port)
    BY <1>1, TickIsEdge
  <2>2. P' \in [addr : Addr, re : BOOLEAN]
    BY <2>1 DEF TypeOK, PortTypes, Waits, GoesOn, Port
  <2>3. golden' \in [Line -> Block]
    <3>1. golden \in [Line -> Block] /\ port.din \in Values /\ LineOf(port.addr) \in Line
      BY DEF TypeOK, FifoTypes, Port, Addr, Line, LineOf
    <3>2. [golden EXCEPT ![LineOf(port.addr)][port.addr.half] = port.din] \in [Line -> Block]
      BY <3>1 DEF Block
    <3> QED BY <2>1, <3>1, <3>2 DEF Waits, GoesOn
  <2>4. PortTypes'
    BY <2>1, <2>2, EdgeTypes DEF TypeOK, PortTypes, Port, States
  <2>5. mem \in [Line -> Block]
    BY DEF TypeOK, FifoTypes
  <2> QED BY <2>1, <2>3, <2>4, <2>5, EdgeTypes DEF TypeOK, FifoTypes
<1>2. CASE MigWrite
  <2>1. FifoTypes'
    <3>1. caf # <<>> /\ caf \in Seq(Command) /\ wdf \in Seq(WriteBeat) /\ caf' = Tail(caf)
          /\ wdf' = SubSeq(wdf, 3, Len(wdf)) /\ UNCHANGED <<rdf, burst, rdf_beat, golden>>
      BY <1>2 DEF MigWrite, TypeOK, FifoTypes
    <3>2. caf' \in Seq(Command) /\ Head(caf) \in Command
      BY <3>1, HeadTailProperties
    <3>3. wdf' \in Seq(WriteBeat)
      <4>1. \A i \in 3..Len(wdf) : wdf[i] \in WriteBeat
        BY <3>1
      <4>2. Len(wdf) \in Int
        BY <3>1
      <4> QED BY <3>1, <4>1, <4>2, SubSeqProperties
    <3>4. mem' \in [Line -> Block]
      <4>1. mem \in [Line -> Block] /\ Head(caf).line \in Line
        BY <3>2 DEF TypeOK, FifoTypes, Command
      <4>2. \A h \in Halves : wdf[h].data \in Values
        <5>1. Len(wdf) >= 2 /\ Len(wdf) \in Nat
          BY <1>2, <3>1 DEF MigWrite
        <5>2. \A h \in Halves : h \in 1..Len(wdf)
          BY <5>1 DEF Halves
        <5>3. \A h \in 1..Len(wdf) : wdf[h] \in WriteBeat
          BY <3>1, ElementOfSeq
        <5> QED BY <5>2, <5>3 DEF WriteBeat
      <4>3. \A g \in Block :
              [h \in Halves |-> IF wdf[h].enable THEN wdf[h].data ELSE g[h]] \in Block
        BY <4>2 DEF Block
      <4>4. mem' = [mem EXCEPT ![Head(caf).line] =
                      [h \in Halves |-> IF wdf[h].enable THEN wdf[h].data ELSE @[h]]]
        BY <1>2 DEF MigWrite
      <4> QED BY <4>1, <4>3, <4>4
    <3> QED BY <3>1, <3>2, <3>3, <3>4 DEF TypeOK, FifoTypes
  <2> QED BY <1>2, <2>1 DEF MigWrite, TypeOK, RamTypes, PortTypes, ramVars
<1>3. CASE MigRead
  <2>1. FifoTypes'
    <3>1. rdf' \in Seq(Values) /\ burst' \in Seq(Values) /\ caf' \in Seq(Command)
      <4>1. CASE burst # <<>>
        <5>1. /\ rdf' = rdf \o burst /\ burst' = <<>> /\ caf' = caf
              /\ rdf \in Seq(Values) /\ burst \in Seq(Values) /\ caf \in Seq(Command)
          BY <1>3, <4>1 DEF MigRead, TypeOK, FifoTypes
        <5>2. rdf \o burst \in Seq(Values)
          BY <5>1, ConcatProperties
        <5> QED BY <5>1, <5>2
      <4>2. CASE burst = <<>>
        <5>1. /\ caf # <<>> /\ rdf' = Append(rdf, mem[Head(caf).line][1])
              /\ burst' = <<mem[Head(caf).line][2]>> /\ caf' = Tail(caf)
              /\ caf \in Seq(Command) /\ rdf \in Seq(Values) /\ mem \in [Line -> Block]
          BY <1>3, <4>2 DEF MigRead, TypeOK, FifoTypes
        <5>2. Head(caf) \in Command /\ Tail(caf) \in Seq(Command)
          BY <5>1, HeadTailProperties
        <5>3. mem[Head(caf).line][1] \in Values /\ mem[Head(caf).line][2] \in Values
          BY <5>1, <5>2 DEF Command, Block, Halves
        <5> QED BY <5>1, <5>2, <5>3
      <4> QED BY <4>1, <4>2
    <3> QED BY <1>3, <3>1 DEF MigRead, TypeOK, FifoTypes
  <2> QED BY <1>3, <2>1 DEF MigRead, TypeOK, RamTypes, PortTypes, ramVars
<1>4. CASE UNCHANGED vars
  BY <1>4 DEF vars, ramVars, fifoVars, TypeOK, FifoTypes, RamTypes, PortTypes
<1> QED BY <1>1, <1>2, <1>3, <1>4 DEF Next

-----------------------------------------------------------------------------
(***************************************************************************)
(* The queue of the stores.                                                *)
(***************************************************************************)

\* What a clock edge appends to the two FIFOs of the memory.
QueueEvent(full) ==
  \/ /\ UNCHANGED <<caf, wdf>>
     /\ full \/ cs \notin {"WRITE1", "WRITE2", "FETCH"}
  \/ /\ ~full /\ cs \in {"WRITE1", "WRITE2"}
     /\ \E b \in WriteBeat :
          /\ b.enable <=> hold.addr.half = (IF cs = "WRITE1" THEN 1 ELSE 2)
          /\ b.data = hold.din
          /\ wdf' = Append(wdf, b)
     /\ caf' = IF cs = "WRITE1"
               THEN Append(caf, [write |-> TRUE, line |-> LineOf(hold.addr)]) ELSE caf
  \/ /\ ~full /\ cs = "FETCH"
     /\ caf' = Append(caf, [write |-> FALSE, line |-> LineOf(hold.addr)])
     /\ wdf' = wdf

LEMMA QueueEvents ==
  ASSUME TypeOK, NEW full \in BOOLEAN, Fifos(full)
  PROVE  QueueEvent(full)
<1>1. LineOf(hold.addr) \in Line /\ hold.din \in Values
  BY DEF TypeOK, PortTypes, Addr, Line, LineOf
<1>2. PICK e \in BOOLEAN : e = f_mask
  BY DEF f_mask
<1>3. [enable |-> e, data |-> hold.din] \in WriteBeat
  BY <1>1 DEF WriteBeat
<1>4. CASE full \/ cs \notin {"WRITE1", "WRITE2", "FETCH"}
  BY <1>4 DEF QueueEvent, Fifos, caf_wren, wdf_wren
<1>5. CASE ~full /\ cs \in {"WRITE1", "WRITE2"}
  <2>1. wdf' = Append(wdf, [enable |-> e, data |-> hold.din])
    <3>1. wdf' = Append(wdf, [enable |-> f_mask, data |-> hold.din])
      BY <1>5 DEF Fifos, wdf_wren
    <3> QED BY <1>2, <3>1, Zenon
  <2>2. e <=> hold.addr.half = (IF cs = "WRITE1" THEN 1 ELSE 2)
    BY <1>2 DEF f_mask
  <2>3. caf' = IF cs = "WRITE1"
               THEN Append(caf, [write |-> TRUE, line |-> LineOf(hold.addr)]) ELSE caf
    <3>1. CASE cs = "WRITE1"
      <4>1. (cs = "WRITE1") = TRUE
        BY <3>1
      <4>2. caf' = Append(caf, [write |-> cs = "WRITE1", line |-> LineOf(hold.addr)])
        BY <1>5, <3>1 DEF Fifos, caf_wren
      <4> QED BY <3>1, <4>1, <4>2, Zenon
    <3>2. CASE cs = "WRITE2"
      BY <1>5, <3>2 DEF Fifos, caf_wren
    <3> QED BY <1>5, <3>1, <3>2
  <2>4. [enable |-> e, data |-> hold.din].enable = e
        /\ [enable |-> e, data |-> hold.din].data = hold.din
    OBVIOUS
  <2> QED BY <1>3, <1>5, <2>1, <2>2, <2>3, <2>4 DEF QueueEvent
<1>6. CASE ~full /\ cs = "FETCH"
  <2>1. (cs = "WRITE1") = FALSE
    BY <1>6
  <2>2. caf' = Append(caf, [write |-> cs = "WRITE1", line |-> LineOf(hold.addr)])
    BY <1>6 DEF Fifos, caf_wren
  <2>3. caf' = Append(caf, [write |-> FALSE, line |-> LineOf(hold.addr)])
    BY <2>1, <2>2, Zenon
  <2>4. wdf' = wdf
    BY <1>6 DEF Fifos, wdf_wren
  <2> QED BY <1>6, <2>3, <2>4 DEF QueueEvent
<1> QED BY <1>4, <1>5, <1>6

LEMMA AccessStep ==
  ASSUME TypeOK, AccessInv, NEW full \in BOOLEAN, NEW port \in Port,
         ClockEdge(full, NextState(full), port), Waits(port) \/ GoesOn(full, port)
  PROVE  AccessInv'
<1> DEFINE ns == NextState(full)
<1>1. ns \in States /\ cs \in States
      /\ (ns = "IDLE" <=> \/ cs = "IDLE" /\ ~hold.we /\ ~read_miss
                          \/ cs = "WRITE2" /\ ~full
                          \/ cs = "CWRITEB")
      /\ (ns = "WRITE1" <=> (cs = "IDLE" /\ hold.we) \/ (cs = "WRITE1" /\ full))
      /\ (ns = "WRITE2" <=> (cs = "WRITE1" /\ ~full) \/ (cs = "WRITE2" /\ full))
      /\ (ns = "FETCH" <=> (cs = "IDLE" /\ ~hold.we /\ read_miss) \/ (cs = "FETCH" /\ full))
  BY NextStates DEF TypeOK, PortTypes, States
<1> HIDE DEF ns
<1>2. cs' = ns /\ hold' = IF ns = "IDLE" THEN port ELSE hold
  BY DEF ClockEdge, Registers, ns
<1>3. CASE ns = "IDLE"
  <2>1. cs' = "IDLE" /\ hold' = port
    BY <1>2, <1>3
  <2>2. CASE Waits(port)
    BY <2>1, <2>2 DEF Waits, AccessInv
  <2>3. CASE GoesOn(full, port)
    BY <2>1, <2>3 DEF GoesOn, AccessInv, Port
  <2> QED BY <2>2, <2>3
<1>4. CASE ns # "IDLE"
  <2>1. cs' = ns /\ hold' = hold /\ P' = P
    BY <1>2, <1>4 DEF Waits, GoesOn, ns
  <2>2. read_miss => hold.re
    BY DEF read_miss
  <2> QED BY <1>1, <1>4, <2>1, <2>2 DEF AccessInv, States
<1> QED BY <1>3, <1>4

\* The beats of the queued writes stay paired.
LEMMA PairedStep ==
  ASSUME TypeOK, Paired, NEW full \in BOOLEAN, NEW port \in Port,
         ClockEdge(full, NextState(full), port)
  PROVE  Paired'
<1> DEFINE ns == NextState(full)
<1>0. /\ caf \in Seq(Command) /\ wdf \in Seq(WriteBeat)
      /\ \A e \in BOOLEAN : [write |-> e, line |-> LineOf(hold.addr)] \in Command
  <2>1. LineOf(hold.addr) \in Line
    BY DEF TypeOK, PortTypes, Addr, Line, LineOf
  <2> QED BY <2>1 DEF TypeOK, FifoTypes, Command
<1>1. ns \in States
      /\ (ns = "WRITE2" <=> (cs = "WRITE1" /\ ~full) \/ (cs = "WRITE2" /\ full))
  BY NextStates DEF TypeOK, PortTypes, States
<1> HIDE DEF ns
<1>2. /\ cs' = ns /\ (ns # "IDLE" => hold' = hold)
      /\ QueueEvent(full) /\ FifoTypes
  BY QueueEvents DEF ClockEdge, Registers, ns, TypeOK
<1>3. PICK n \in Nat, k \in Nat, w \in Nat :
        n = Len(caf) /\ k = Len(wdf) /\ w = Upto(caf, n)
        /\ k = 2 * w - (IF cs = "WRITE2" THEN 1 ELSE 0)
  <2>1. PICK n \in Nat, k \in Nat : n = Len(caf) /\ k = Len(wdf)
    BY <1>2 DEF FifoTypes
  <2>2. Upto(caf, n) = WritesUpTo(n) /\ Upto(caf, n) \in Nat
    BY UptoType DEF WritesUpTo, Upto, Writes
  <2>3. k = 2 * WritesUpTo(n) - (IF cs = "WRITE2" THEN 1 ELSE 0)
    BY <2>1 DEF Paired
  <2> QED BY <2>1, <2>2, <2>3
<1>4. \A m : WritesUpTo(m)' = Upto(caf', m)
  BY DEF WritesUpTo, Upto, Writes
<1>append.
  /\ \A e \in Command : /\ Len(Append(caf, e)) = n + 1 /\ Append(caf, e)[n + 1] = e
                        /\ \A i \in 1..n : Append(caf, e)[i] = caf[i]
  /\ \A e \in WriteBeat : /\ Len(Append(wdf, e)) = k + 1 /\ Append(wdf, e)[k + 1] = e
  <2>1. /\ \A e \in Command : /\ Len(Append(caf, e)) = Len(caf) + 1
                              /\ Append(caf, e)[Len(caf) + 1] = e
                              /\ \A i \in 1..Len(caf) : Append(caf, e)[i] = caf[i]
        /\ \A e \in WriteBeat : /\ Len(Append(wdf, e)) = Len(wdf) + 1
                                /\ Append(wdf, e)[Len(wdf) + 1] = e
    <3>1. ASSUME NEW e \in Command
          PROVE  /\ Len(Append(caf, e)) = Len(caf) + 1
                 /\ Append(caf, e)[Len(caf) + 1] = e
                 /\ \A i \in 1..Len(caf) : Append(caf, e)[i] = caf[i]
      <4>1. caf \in Seq(Command)
        BY <1>0
      <4>2. /\ Len(Append(caf, e)) = Len(caf) + 1
            /\ \A i \in 1..Len(caf) : Append(caf, e)[i] = caf[i]
        BY <4>1, AppendProperties
      <4>3. Append(caf, e)[Len(caf) + 1] = e
        BY <4>1, AppendProperties, Zenon
      <4> QED BY <4>2, <4>3
    <3>2. ASSUME NEW e \in WriteBeat
          PROVE  Len(Append(wdf, e)) = Len(wdf) + 1 /\ Append(wdf, e)[Len(wdf) + 1] = e
      BY <1>0, <3>2, AppendProperties, Zenon
    <3> QED BY <3>1, <3>2, Zenon
  <2>2. n = Len(caf) /\ k = Len(wdf)
    BY <1>3
  <2> QED BY <2>1, <2>2, Zenon
<1>5. CASE UNCHANGED <<caf, wdf>> /\ (full \/ cs \notin {"WRITE1", "WRITE2", "FETCH"})
  <2>1. cs' = "WRITE2" <=> cs = "WRITE2"
    BY <1>1, <1>2, <1>5
  <2>2. cs' = "WRITE2" => hold' = hold
    BY <1>2
  <2>3. Len(caf') = n /\ Len(wdf') = k /\ Upto(caf', n) = w
    BY <1>3, <1>5
  <2>4. Len(wdf') = 2 * WritesUpTo(Len(caf))' - (IF cs' = "WRITE2" THEN 1 ELSE 0)
    BY <1>3, <1>4, <2>1, <2>3
  <2> QED BY <1>5, <2>1, <2>2, <2>4 DEF Paired
<1>6. CASE ~full /\ cs = "WRITE1"
  <2>1. PICK b \in WriteBeat : /\ b.enable <=> hold.addr.half = 1
                               /\ b.data = hold.din
                               /\ wdf' = Append(wdf, b)
                               /\ caf' = Append(caf, [write |-> TRUE, line |-> LineOf(hold.addr)])
    BY <1>2, <1>6 DEF QueueEvent
  <2>0. [write |-> TRUE, line |-> LineOf(hold.addr)] \in Command
    BY <1>0
  <2>2. /\ Len(caf') = n + 1 /\ Len(wdf') = k + 1 /\ wdf'[k + 1] = b
        /\ caf'[n + 1] = [write |-> TRUE, line |-> LineOf(hold.addr)]
        /\ \A i \in 1..n : caf'[i] = caf[i]
    BY <1>3, <1>append, <2>1, <2>0, Zenon
  <2>3. Upto(caf', n + 1) = w + 1
    <3>1. Upto(caf', n) = w
      BY <1>3, <2>2, UptoSame
    <3>2. n + 1 \in Nat \ {0} /\ (n + 1) - 1 = n
      OBVIOUS
    <3>3. Upto(caf', n + 1) = Upto(caf', (n + 1) - 1) + Bit(caf'[n + 1].write)
      BY <3>2, UptoStep
    <3> QED BY <2>2, <3>1, <3>2, <3>3 DEF Bit
  <2>4. cs' = "WRITE2" /\ hold' = hold
    BY <1>1, <1>2, <1>6
  <2>5. Len(wdf') = 2 * WritesUpTo(Len(caf))' - (IF cs' = "WRITE2" THEN 1 ELSE 0)
    BY <1>3, <1>4, <1>6, <2>2, <2>3, <2>4
  <2>6. caf' # <<>>
    BY <2>2
  <2>7. caf'[Len(caf')].write /\ caf'[Len(caf')].line = LineOf(hold.addr)'
    BY <2>2, <2>4 DEF LineOf
  <2>8. (wdf'[Len(wdf')].enable <=> (hold.addr.half)' = 1)
        /\ wdf'[Len(wdf')].data = (hold.din)'
    BY <2>1, <2>2, <2>4
  <2> QED BY <2>5, <2>6, <2>7, <2>8 DEF Paired
<1>7. CASE ~full /\ cs = "WRITE2"
  <2>1. PICK b \in WriteBeat : wdf' = Append(wdf, b) /\ caf' = caf
    BY <1>2, <1>7 DEF QueueEvent
  <2>2. Len(wdf') = k + 1 /\ Len(caf') = n /\ Upto(caf', n) = w
    <3>1. Len(wdf') = k + 1
      BY <1>append, <2>1, Zenon
    <3> QED BY <1>3, <2>1, <3>1
  <2>3. cs' # "WRITE2"
    BY <1>1, <1>2, <1>7
  <2>4. Len(wdf') = 2 * WritesUpTo(Len(caf))' - (IF cs' = "WRITE2" THEN 1 ELSE 0)
    BY <1>3, <1>4, <1>7, <2>2, <2>3
  <2> QED BY <2>3, <2>4 DEF Paired
<1>8. CASE ~full /\ cs = "FETCH"
  <2>1. /\ caf' = Append(caf, [write |-> FALSE, line |-> LineOf(hold.addr)])
        /\ wdf' = wdf
    BY <1>2, <1>8 DEF QueueEvent
  <2>0. [write |-> FALSE, line |-> LineOf(hold.addr)] \in Command
    BY <1>0
  <2>2. /\ Len(caf') = n + 1 /\ Len(wdf') = k
        /\ caf'[n + 1] = [write |-> FALSE, line |-> LineOf(hold.addr)]
        /\ \A i \in 1..n : caf'[i] = caf[i]
    BY <1>3, <1>append, <2>1, <2>0, Zenon
  <2>3. Upto(caf', n + 1) = w
    <3>1. Upto(caf', n) = w
      BY <1>3, <2>2, UptoSame
    <3>2. n + 1 \in Nat \ {0} /\ (n + 1) - 1 = n
      OBVIOUS
    <3>3. Upto(caf', n + 1) = Upto(caf', (n + 1) - 1) + Bit(caf'[n + 1].write)
      BY <3>2, UptoStep
    <3> QED BY <1>3, <2>2, <3>1, <3>2, <3>3 DEF Bit
  <2>4. cs' # "WRITE2"
    BY <1>1, <1>2, <1>8
  <2>5. Len(wdf') = 2 * WritesUpTo(Len(caf))' - (IF cs' = "WRITE2" THEN 1 ELSE 0)
    BY <1>3, <1>4, <1>8, <2>2, <2>3, <2>4
  <2> QED BY <2>4, <2>5 DEF Paired
<1>9. full \/ cs \notin {"WRITE1", "WRITE2", "FETCH"} => UNCHANGED <<caf, wdf>>
  BY <1>2 DEF QueueEvent
<1> QED BY <1>5, <1>6, <1>7, <1>8, <1>9

\* A clock edge leaves a later command to find what the stores accepted so far
\* have left, but for the store that is still being queued.
LEMMA EdgeFinds ==
  ASSUME TypeOK, AccessInv, Paired, StoresQueued, NEW full \in BOOLEAN, NEW port \in Port,
         ClockEdge(full, NextState(full), port),
         NEW l \in Line, NEW h \in Halves, NEW v, v = golden[l][h]
  PROVE  (NextState(full) # "IDLE" /\ Held(l, h)) \/ Finds(l, h, v)'
<1> DEFINE ns == NextState(full)
<1>1. ns = "IDLE" <=> \/ cs = "IDLE" /\ ~hold.we /\ ~read_miss
                      \/ cs = "WRITE2" /\ ~full
                      \/ cs = "CWRITEB"
  BY NextStates DEF TypeOK, PortTypes
<1> HIDE DEF ns
<1>2. QueueEvent(full) /\ FifoTypes /\ mem' = mem
  BY QueueEvents DEF ClockEdge, TypeOK
<1>3. IF Held(l, h) THEN v = hold.din ELSE Finds(l, h, v)
  BY DEF StoresQueued
<1>4. LineOf(hold.addr) \in Line /\ hold.addr.half \in Halves /\ hold.din \in Values
  BY DEF TypeOK, PortTypes, Addr, Line, LineOf, Halves
<1>5. CASE UNCHANGED <<caf, wdf>> /\ (full \/ cs \notin {"WRITE1", "WRITE2", "FETCH"})
  <2>1. Finds(l, h, v) => Finds(l, h, v)'
    BY <1>2, <1>5, SameQueue
  <2>2. ns = "IDLE" => ~Held(l, h)
    BY <1>1, <1>5 DEF AccessInv, Held
  <2> QED BY <1>3, <2>1, <2>2 DEF ns
<1>6. CASE ~full /\ cs = "WRITE1"
  <2>1. PICK b \in WriteBeat : /\ b.enable <=> hold.addr.half = 1
                               /\ b.data = hold.din
                               /\ wdf' = Append(wdf, b)
                               /\ caf' = Append(caf, [write |-> TRUE, line |-> LineOf(hold.addr)])
    BY <1>2, <1>6 DEF QueueEvent
  <2>2. PICK L \in Line : L = LineOf(hold.addr)
    BY <1>4
  <2>3. IF l = L /\ h = 1 /\ b.enable THEN Finds(l, h, b.data)'
        ELSE Finds(l, h, v) => Finds(l, h, v)'
    BY <1>2, <1>6, <2>1, <2>2, WriteEnters
  <2>4. ns # "IDLE" /\ hold.we
    BY <1>1, <1>6 DEF AccessInv
  <2>5. CASE Held(l, h)
    BY <2>4, <2>5 DEF ns
  <2>6. CASE ~Held(l, h)
    <3>1. ~(l = L /\ h = 1 /\ b.enable)
      BY <2>1, <2>2, <2>4, <2>6 DEF Held
    <3> QED BY <1>3, <2>3, <2>6, <3>1
  <2> QED BY <2>5, <2>6
<1>7. CASE ~full /\ cs = "WRITE2"
  <2>1. PICK b \in WriteBeat : /\ b.enable <=> hold.addr.half = 2
                               /\ b.data = hold.din
                               /\ wdf' = Append(wdf, b) /\ caf' = caf
    BY <1>2, <1>7 DEF QueueEvent
  <2>2. IF l = LineOf(hold.addr) /\ h = 2 /\ b.enable THEN Finds(l, h, b.data)'
        ELSE Finds(l, h, v) => Finds(l, h, v)'
    BY <1>2, <1>7, <2>1, SecondEnters
  <2>3. hold.we
    BY <1>7 DEF AccessInv
  <2>4. CASE Held(l, h) /\ h = 2
    <3>1. Finds(l, h, b.data)' /\ b.data = v
      BY <1>3, <2>1, <2>2, <2>4 DEF Held
    <3> QED BY <3>1
  <2>5. CASE Held(l, h) /\ h = 1
    <3>1. Finds(LineOf(hold.addr), 1, hold.din)
      BY <1>2, <1>7, <2>5, FirstBeatFound DEF Held
    <3>2. Finds(l, h, v)
      BY <1>3, <2>5, <3>1 DEF Held
    <3> QED BY <2>2, <2>5, <3>2
  <2>6. CASE ~Held(l, h)
    <3>1. ~(l = LineOf(hold.addr) /\ h = 2 /\ b.enable)
      BY <2>1, <2>3, <2>6 DEF Held
    <3> QED BY <1>3, <2>2, <2>6, <3>1
  <2> QED BY <2>4, <2>5, <2>6 DEF Halves
<1>8. CASE ~full /\ cs = "FETCH"
  <2>1. /\ caf' = Append(caf, [write |-> FALSE, line |-> LineOf(hold.addr)])
        /\ wdf' = wdf
    BY <1>2, <1>8 DEF QueueEvent
  <2>2. [write |-> FALSE, line |-> LineOf(hold.addr)] \in Command
    BY <1>4 DEF Command
  <2>3. ~Held(l, h)
    BY <1>8 DEF AccessInv, Held
  <2>4. PICK c \in Command : c = [write |-> FALSE, line |-> LineOf(hold.addr)]
    BY <2>2
  <2>5. ~c.write /\ caf' = Append(caf, c)
    BY <2>1, <2>4
  <2> QED BY <1>2, <1>3, <2>1, <2>3, <2>5, ReadEnters
<1>9. full \/ cs \notin {"WRITE1", "WRITE2", "FETCH"} => UNCHANGED <<caf, wdf>>
  BY <1>2 DEF QueueEvent
<1> QED BY <1>5, <1>6, <1>7, <1>8, <1>9

\* A step leaves every store queued, in the memory, or in hold.
LEMMA EdgeStores ==
  ASSUME TypeOK, AccessInv, Paired, StoresQueued, NEW full \in BOOLEAN, NEW port \in Port,
         ClockEdge(full, NextState(full), port), Waits(port) \/ GoesOn(full, port)
  PROVE  StoresQueued'
<1> SUFFICES ASSUME NEW l \in Line, NEW h \in Halves
             PROVE  (IF Held(l, h) THEN golden[l][h] = hold.din
                     ELSE Finds(l, h, golden[l][h]))'
  BY DEF StoresQueued
<1>1. hold' = IF NextState(full) = "IDLE" THEN port ELSE hold
  BY DEF ClockEdge, Registers
<1>2. PICK v : v = golden[l][h]
  OBVIOUS
<1>3. (NextState(full) # "IDLE" /\ Held(l, h)) \/ Finds(l, h, v)'
  BY <1>2, EdgeFinds
<1>4. CASE NextState(full) # "IDLE"
  <2>1. hold' = hold /\ golden' = golden
    BY <1>1, <1>4 DEF Waits, GoesOn
  <2>2. Held(l, h)' <=> Held(l, h)
    BY <2>1 DEF Held, LineOf
  <2>3. Held(l, h) => golden[l][h] = hold.din
    BY DEF StoresQueued
  <2>4. golden'[l][h] = v
    BY <1>2, <2>1
  <2> QED BY <1>3, <2>1, <2>2, <2>3, <2>4
<1>5. CASE NextState(full) = "IDLE" /\ ~port.we
  <2>1. hold' = port /\ golden' = golden
    BY <1>1, <1>5 DEF Waits, GoesOn
  <2>2. ~Held(l, h)'
    BY <1>5, <2>1 DEF Held
  <2> QED BY <1>2, <1>3, <1>5, <2>1, <2>2
<1>6. CASE NextState(full) = "IDLE" /\ port.we
  <2>1. /\ hold' = port
        /\ golden' = [golden EXCEPT ![LineOf(port.addr)][port.addr.half] = port.din]
    BY <1>1, <1>6 DEF Waits, GoesOn
  <2>2. Held(l, h)' <=> LineOf(port.addr) = l /\ port.addr.half = h
    BY <1>6, <2>1 DEF Held, LineOf
  <2>3. golden \in [Line -> Block] /\ LineOf(port.addr) \in Line /\ port.addr.half \in Halves
    BY DEF TypeOK, FifoTypes, Port, Addr, Line, LineOf, Halves
  <2>4. golden'[l][h] = IF LineOf(port.addr) = l /\ port.addr.half = h THEN port.din ELSE v
    BY <1>2, <2>1, <2>3 DEF Block
  <2> QED BY <1>3, <1>6, <2>1, <2>2, <2>4
<1> QED BY <1>4, <1>5, <1>6

-----------------------------------------------------------------------------
(***************************************************************************)
(* The two halves of a missed line.                                        *)
(***************************************************************************)

\* Sequences of one and of two elements.
LEMMA OneAndTwo ==
  ASSUME NEW a, NEW b
  PROVE  /\ <<a>> # <<>> /\ Head(<<a>>) = a /\ Tail(<<a>>) = <<>>
         /\ <<a, b>> # <<>> /\ Head(<<a, b>>) = a /\ Tail(<<a, b>>) = <<b>>
         /\ Append(<<>>, a) = <<a>>
         /\ <<>> \o <<b>> = <<b>> /\ <<a>> \o <<b>> = <<a, b>>
<1> DEFINE S == {a, b}
<1>1. <<a>> \in Seq(S) /\ <<b>> \in Seq(S) /\ <<a, b>> \in Seq(S) /\ <<>> \in Seq(S)
  OBVIOUS
<1>2. Len(<<a>>) = 1 /\ Len(<<b>>) = 1 /\ Len(<<a, b>>) = 2 /\ Len(<<>>) = 0
  OBVIOUS
<1>3. <<a>> # <<>> /\ Head(<<a>>) = a /\ <<a, b>> # <<>> /\ Head(<<a, b>>) = a
  OBVIOUS
<1>4. Tail(<<a>>) = <<>> /\ Append(<<>>, a) = <<a>>
  BY <1>1
<1>5. Tail(<<a, b>>) = <<b>>
  <2>1. Tail(<<a, b>>) \in Seq(S) /\ Len(Tail(<<a, b>>)) = 1 /\ Tail(<<a, b>>)[1] = b
    BY <1>1, <1>2, <1>3, HeadTailProperties
  <2>2. \A i \in 1..Len(Tail(<<a, b>>)) : Tail(<<a, b>>)[i] = <<b>>[i]
    BY <2>1
  <2> QED BY <1>1, <1>2, <2>1, <2>2, SeqEqual
<1>6. <<>> \o <<b>> = <<b>>
  BY <1>1, ConcatEmptySeq
<1>7. <<a>> \o <<b>> = <<a, b>>
  <2>1. /\ <<a>> \o <<b>> \in Seq(S) /\ Len(<<a>> \o <<b>>) = 2
        /\ (<<a>> \o <<b>>)[1] = a /\ (<<a>> \o <<b>>)[2] = b
    BY <1>1, <1>2, ConcatProperties
  <2>2. \A i \in 1..2 : (<<a>> \o <<b>>)[i] = <<a, b>>[i]
    <3>1. \A i \in 1..2 : i = 1 \/ i = 2
      OBVIOUS
    <3>2. <<a, b>>[1] = a /\ <<a, b>>[2] = b
      OBVIOUS
    <3> QED BY <2>1, <3>1, <3>2
  <2> QED BY <1>1, <1>2, <2>1, <2>2, SeqEqual
<1> QED BY <1>3, <1>4, <1>5, <1>6, <1>7

\* What a clock edge takes from the FIFO of the read data.
LEMMA BeatTaken ==
  ASSUME TypeOK, NEW full, Fifos(full)
  PROVE  /\ rdf_rden /\ rdf # <<>> =>
              rdf' = Tail(rdf) /\ rdf_beat'.valid /\ rdf_beat'.data = Head(rdf)
         /\ ~(rdf_rden /\ rdf # <<>>) => rdf' = rdf /\ ~rdf_beat'.valid
<1>1. CASE rdf_rden /\ rdf # <<>>
  <2>1. rdf' = Tail(rdf) /\ rdf_beat' = [valid |-> TRUE, data |-> Head(rdf)]
    BY <1>1 DEF Fifos
  <2> QED BY <1>1, <2>1
<1>2. CASE ~(rdf_rden /\ rdf # <<>>)
  <2>1. rdf' = rdf /\ rdf_beat' = [rdf_beat EXCEPT !.valid = FALSE]
    BY <1>2 DEF Fifos
  <2>2. rdf_beat \in [valid : BOOLEAN, data : Values]
    BY DEF TypeOK, FifoTypes
  <2> QED BY <1>2, <2>1, <2>2
<1> QED BY <1>1, <1>2

\* No read becomes queued but by FETCH.
LEMMA QueuedByFetch ==
  ASSUME FifoTypes, NEW full, QueueEvent(full), NEW L \in Line, L = LineOf(hold.addr),
         NoReadQueued
  PROVE  /\ cs # "FETCH" \/ full => NoReadQueued'
         /\ cs = "FETCH" /\ ~full => /\ caf' # <<>> /\ ~caf'[Len(caf')].write
                                     /\ caf'[Len(caf')].line = L
                                     /\ \A i \in 1..(Len(caf') - 1) : caf'[i].write
<1>1. caf \in Seq(Command) /\ DOMAIN caf = 1..Len(caf) /\ Len(caf) \in Nat
      /\ \A i \in 1..Len(caf) : caf[i].write
  BY DEF FifoTypes, NoReadQueued
<1>2. ASSUME NEW e \in BOOLEAN, caf' = Append(caf, [write |-> e, line |-> L])
      PROVE  /\ caf' # <<>> /\ DOMAIN caf' = 1..Len(caf') /\ Len(caf') = Len(caf) + 1
             /\ caf'[Len(caf')].write = e /\ caf'[Len(caf')].line = L
             /\ \A i \in 1..Len(caf) : caf'[i] = caf[i]
  <2>1. PICK c \in Command : c.write = e /\ c.line = L /\ caf' = Append(caf, c)
    <3>1. [write |-> e, line |-> L] \in Command
      BY DEF Command
    <3>2. [write |-> e, line |-> L].write = e /\ [write |-> e, line |-> L].line = L
      OBVIOUS
    <3> QED BY <1>2, <3>1, <3>2, Zenon
  <2>2. /\ Append(caf, c) # <<>> /\ Append(caf, c) \in Seq(Command)
        /\ Len(Append(caf, c)) = Len(caf) + 1
        /\ \A i \in 1..Len(caf) : Append(caf, c)[i] = caf[i]
    BY <1>1, AppendProperties
  <2>3. Append(caf, c)[Len(caf) + 1] = c
    BY <1>1, AppendProperties, SMTT(30)
  <2>4. DOMAIN caf' = 1..Len(caf')
    BY <2>1, <2>2
  <2>5. caf'[Len(caf')] = c
    BY <2>1, <2>2, <2>3, Zenon
  <2> QED BY <2>1, <2>2, <2>4, <2>5
<1>3. CASE cs = "FETCH" /\ ~full
  <2>1. caf' = Append(caf, [write |-> FALSE, line |-> L])
    BY <1>3 DEF QueueEvent
  <2>2. FALSE \in BOOLEAN
    OBVIOUS
  <2>3. /\ caf' # <<>> /\ Len(caf') = Len(caf) + 1
        /\ ~caf'[Len(caf')].write /\ caf'[Len(caf')].line = L
        /\ \A i \in 1..Len(caf) : caf'[i] = caf[i]
    BY <1>2, <2>1, <2>2, Zenon
  <2>4. \A i \in 1..(Len(caf') - 1) : caf'[i].write
    BY <1>1, <2>3
  <2> QED BY <1>3, <2>3, <2>4
<1>4. CASE caf' = Append(caf, [write |-> TRUE, line |-> L])
  <2>1. TRUE \in BOOLEAN
    OBVIOUS
  <2>2. /\ DOMAIN caf' = 1..Len(caf') /\ Len(caf') = Len(caf) + 1
        /\ caf'[Len(caf')].write
        /\ \A i \in 1..Len(caf) : caf'[i] = caf[i]
    BY <1>2, <1>4, <2>1, Zenon
  <2>3. ASSUME NEW i \in 1..(Len(caf) + 1) PROVE caf'[i].write
    BY <1>1, <2>2, <2>3
  <2>4. NoReadQueued'
    BY <2>2, <2>3 DEF NoReadQueued
  <2>5. cs = "FETCH" /\ ~full => FALSE
    <3>1. cs = "FETCH" /\ ~full => caf' = Append(caf, [write |-> FALSE, line |-> L])
      BY DEF QueueEvent
    <3>2. ASSUME caf' = Append(caf, [write |-> FALSE, line |-> L]) PROVE FALSE
      <4>1. FALSE \in BOOLEAN /\ ~caf'[Len(caf')].write
        BY <1>2, <3>2, Zenon
      <4> QED BY <2>2, <4>1
    <3> QED BY <3>1, <3>2
  <2> QED BY <2>4, <2>5
<1>5. CASE caf' = caf /\ ~(cs = "FETCH" /\ ~full)
  BY <1>5 DEF NoReadQueued
<1> QED BY <1>3, <1>4, <1>5 DEF QueueEvent

\* A read at the head of the queue finds the memory as the stores left it.
LEMMA HeadReadFinds ==
  ASSUME TypeOK, AccessInv, StoresQueued, Requested, ~caf[1].write
  PROVE  /\ Tail(caf) = <<>> /\ caf[1].line = LineOf(hold.addr)
         /\ \A h \in Halves : mem[LineOf(hold.addr)][h] = Wanted(h)
<1>1. Len(caf) \in Nat \ {0} /\ caf \in Seq(Command) /\ DOMAIN caf = 1..Len(caf)
  BY EmptySeq, LenProperties DEF TypeOK, FifoTypes, Requested
<1>2. Len(caf) = 1
  <2>1. Len(caf) > 1 => 1 \in 1..(Len(caf) - 1)
    BY <1>1
  <2> QED BY <1>1, <2>1 DEF Requested
<1>3. Tail(caf) = <<>>
  <2>1. Tail(caf) \in Seq(Command) /\ Len(Tail(caf)) = 0
    BY <1>1, <1>2, HeadTailProperties DEF Requested
  <2> QED BY <2>1, EmptySeq
<1>4. caf[1].line = LineOf(hold.addr)
  BY <1>2 DEF Requested
<1>5. ASSUME NEW h \in Halves PROVE mem[LineOf(hold.addr)][h] = Wanted(h)
  <2>1. QueuedWrites(LineOf(hold.addr), h) = {}
    BY <1>1, <1>2 DEF QueuedWrites
  <2>2. LineOf(hold.addr) \in Line
    BY DEF TypeOK, PortTypes, Addr, Line, LineOf
  <2>3. ~Held(LineOf(hold.addr), h)
    BY DEF Held, AccessInv, Requested
  <2>4. Finds(LineOf(hold.addr), h, golden[LineOf(hold.addr)][h])
    BY <2>2, <2>3 DEF StoresQueued
  <2> QED BY <2>1, <2>4 DEF Finds, Wanted
<1> QED BY <1>3, <1>4, <1>5

\* A clock edge moves the halves on from the FIFO to the cache.
LEMMA EdgeMiss ==
  ASSUME TypeOK, AccessInv, MissInv, NEW full \in BOOLEAN, NEW port \in Port,
         ClockEdge(full, NextState(full), port), Waits(port) \/ GoesOn(full, port)
  PROVE  MissInv'
<1> DEFINE ns == NextState(full)
<1>1. /\ ns \in States
      /\ (ns = "READ1" <=> (cs = "FETCH" /\ ~full) \/ (cs = "READ1" /\ ~rdf_beat.valid))
      /\ (ns = "READ2" <=> \/ cs = "READ1" /\ rdf_beat.valid
                           \/ cs = "READ2" /\ ~rdf_beat.valid)
      /\ (ns = "CWRITEB" <=> cs = "READ2" /\ rdf_beat.valid)
  BY NextStates DEF TypeOK, PortTypes, States
<1>2. cs \in {"FETCH", "READ1", "READ2"} => ns # "IDLE"
  BY NextStates DEF TypeOK, PortTypes
<1> HIDE DEF ns
<1>3. /\ cs' = ns /\ (ns # "IDLE" => hold' = hold)
      /\ (cs = "READ1" => first_read' = rdf_beat.data)
      /\ (cs # "READ1" => first_read' = first_read)
      /\ burst' = burst /\ mem' = mem
  BY DEF ClockEdge, Registers, ns
<1>4. /\ rdf_rden /\ rdf # <<>> => rdf' = Tail(rdf) /\ rdf_beat'.valid
                                   /\ rdf_beat'.data = Head(rdf)
      /\ ~(rdf_rden /\ rdf # <<>>) => rdf' = rdf /\ ~rdf_beat'.valid
      /\ rdf_rden <=> cs \in {"READ1", "READ2"}
  BY BeatTaken DEF ClockEdge, rdf_rden
<1>5. PICK L \in Line : L = LineOf(hold.addr)
  BY DEF TypeOK, PortTypes, Addr, Line, LineOf
<1>6. QueueEvent(full) /\ FifoTypes
  BY QueueEvents DEF ClockEdge, TypeOK
<1>7. NoReadQueued => /\ cs # "FETCH" \/ full => NoReadQueued'
                      /\ cs = "FETCH" /\ ~full =>
                           /\ caf' # <<>> /\ ~caf'[Len(caf')].write
                           /\ caf'[Len(caf')].line = L
                           /\ \A i \in 1..(Len(caf') - 1) : caf'[i].write
  BY <1>5, <1>6, QueuedByFetch
<1>8. PICK w1, w2 : w1 = Wanted(1) /\ w2 = Wanted(2)
  OBVIOUS
<1>9. ns # "IDLE" => LineOf(hold.addr)' = L /\ Wanted(1)' = w1 /\ Wanted(2)' = w2
  <2>1. ns # "IDLE" => hold' = hold /\ golden' = golden
    BY <1>3 DEF Waits, GoesOn, ns
  <2> QED BY <1>5, <1>8, <2>1 DEF Wanted, LineOf
<1>10. cs \in {"READ1", "READ2"} => caf' = caf
  BY <1>6 DEF QueueEvent
<1>11. CASE cs \notin {"READ1", "READ2"} /\ NoReadQueued /\ NothingComes
  <2>1. NothingComes'
    BY <1>3, <1>4, <1>11 DEF NothingComes
  <2>2. CASE cs = "FETCH" /\ ~full
    <3>1. cs' = "READ1" /\ LineOf(hold.addr)' = L
      BY <1>1, <1>3, <1>9, <2>2
    <3>2. Requested'
      BY <1>7, <1>11, <2>1, <2>2, <3>1 DEF Requested
    <3> QED BY <3>2 DEF MissInv
  <2>3. CASE ~(cs = "FETCH" /\ ~full)
    <3>1. cs' \notin {"READ1", "READ2"} /\ NoReadQueued'
      BY <1>1, <1>3, <1>7, <1>11, <2>3
    <3> QED BY <2>1, <3>1 DEF MissInv
  <2> QED BY <2>2, <2>3
<1>12. CASE Requested
  <2>1. cs = "READ1" /\ ~rdf_beat.valid /\ rdf = <<>> /\ burst = <<>>
    BY <1>12 DEF Requested, NothingComes
  <2>2. cs' = "READ1" /\ NothingComes' /\ caf' = caf /\ LineOf(hold.addr)' = L
    BY <1>1, <1>2, <1>3, <1>4, <1>9, <1>10, <2>1 DEF NothingComes
  <2>3. Requested'
    BY <1>5, <1>12, <2>2 DEF Requested
  <2> QED BY <2>3 DEF MissInv
<1>13. CASE NoReadQueued /\ BothQueued
  <2>1. /\ cs = "READ1" /\ ~rdf_beat.valid
        /\ (rdf = <<w1>> /\ burst = <<w2>>) \/ (rdf = <<w1, w2>> /\ burst = <<>>)
    BY <1>8, <1>13 DEF BothQueued
  <2>2. /\ rdf # <<>> /\ Head(rdf) = w1
        /\ (Tail(rdf) = <<>> /\ burst = <<w2>>) \/ (Tail(rdf) = <<w2>> /\ burst = <<>>)
    <3>1. CASE rdf = <<w1>> /\ burst = <<w2>>
      BY <3>1, OneAndTwo, Zenon
    <3>2. CASE rdf = <<w1, w2>> /\ burst = <<>>
      BY <3>2, OneAndTwo, Zenon
    <3> QED BY <2>1, <3>1, <3>2
  <2>3. cs' = "READ1" /\ rdf_beat'.valid /\ rdf_beat'.data = w1 /\ rdf' = Tail(rdf)
    BY <1>1, <1>3, <1>4, <2>1, <2>2
  <2>4. NoReadQueued'
    BY <1>10, <1>13, <2>1 DEF NoReadQueued
  <2>5. FirstHere'
    BY <1>2, <1>3, <1>9, <2>1, <2>2, <2>3 DEF FirstHere, SecondFollows
  <2> QED BY <2>4, <2>5 DEF MissInv
<1>14. CASE NoReadQueued /\ (FirstHere \/ FirstTaken)
  <2>1. cs \in {"READ1", "READ2"} /\ NoReadQueued'
    BY <1>10, <1>14 DEF NoReadQueued, FirstHere, FirstTaken
  <2>2. Head(<<w2>>) = w2 /\ Tail(<<w2>>) = <<>> /\ <<w2>> # <<>>
    OBVIOUS
  <2>3. CASE cs' = "READ2"
    <3>1. first_read' = w1
      BY <1>1, <1>3, <1>8, <1>14, <2>1, <2>3 DEF FirstHere, FirstTaken
    <3>2. SecondFollows
      BY <1>1, <1>3, <1>14, <2>3 DEF FirstHere, FirstTaken
    <3>3. CASE rdf = <<>> /\ burst = <<w2>>
      <4>1. rdf' = <<>> /\ burst' = <<w2>> /\ ~rdf_beat'.valid
        BY <1>3, <1>4, <3>3
      <4> QED BY <1>2, <1>3, <1>9, <2>1, <2>3, <3>1, <4>1
            DEF MissInv, FirstTaken, SecondFollows
    <3>4. CASE rdf = <<w2>> /\ burst = <<>>
      <4>1. rdf' = <<>> /\ burst' = <<>> /\ rdf_beat'.valid /\ rdf_beat'.data = w2
        BY <1>3, <1>4, <2>1, <2>2, <3>4
      <4> QED BY <1>2, <1>3, <1>9, <2>1, <2>3, <3>1, <4>1 DEF MissInv, FirstTaken
    <3> QED BY <1>8, <3>2, <3>3, <3>4 DEF SecondFollows
  <2>4. CASE cs' # "READ2"
    <3>1. cs = "READ2" /\ rdf_beat.valid /\ rdf = <<>> /\ burst = <<>>
      BY <1>1, <1>3, <1>14, <2>4 DEF FirstHere, FirstTaken
    <3>2. cs' = "CWRITEB" /\ NothingComes'
      BY <1>1, <1>3, <1>4, <3>1 DEF NothingComes
    <3> QED BY <2>1, <3>2 DEF MissInv
  <2> QED BY <2>3, <2>4
<1> QED BY <1>11, <1>12, <1>13, <1>14 DEF MissInv

\* The memory answers the read of the miss, half by half.
LEMMA ReadMiss ==
  ASSUME TypeOK, AccessInv, StoresQueued, MissInv, MigRead
  PROVE  MissInv'
<1>1. PICK w1 \in Values, w2 \in Values : w1 = Wanted(1) /\ w2 = Wanted(2)
  <2>1. LineOf(hold.addr) \in Line /\ golden \in [Line -> Block]
    BY DEF TypeOK, FifoTypes, PortTypes, Addr, Line, LineOf
  <2>2. Wanted(1) \in Values /\ Wanted(2) \in Values
    BY <2>1 DEF Wanted, Block, Halves
  <2> QED BY <2>2
<1>2. /\ UNCHANGED <<cs, hold, golden, rdf_beat, first_read>>
      /\ Wanted(1)' = w1 /\ Wanted(2)' = w2
  BY <1>1 DEF MigRead, Wanted, LineOf
<1>3. CASE burst # <<>>
  <2>1. rdf' = rdf \o burst /\ burst' = <<>> /\ caf' = caf
    BY <1>3 DEF MigRead
  <2>2. NoReadQueued /\ NoReadQueued'
    BY <1>3, <2>1 DEF MissInv, NothingComes, Requested, NoReadQueued
  <2>3. <<>> \o <<w2>> = <<w2>> /\ <<w1>> \o <<w2>> = <<w1, w2>>
    BY OneAndTwo, Zenon
  <2>4. CASE BothQueued
    <3>1. rdf = <<w1>> /\ burst = <<w2>>
      BY <1>1, <1>3, <2>4 DEF BothQueued
    <3>2. BothQueued'
      BY <1>2, <2>1, <2>3, <2>4, <3>1 DEF BothQueued
    <3> QED BY <2>2, <3>2 DEF MissInv
  <2>5. CASE FirstHere \/ FirstTaken
    <3>1. rdf = <<>> /\ burst = <<w2>>
      BY <1>1, <1>3, <2>5 DEF FirstHere, FirstTaken, SecondFollows
    <3>2. rdf' = <<w2>>
      BY <2>1, <2>3, <3>1
    <3>3. SecondFollows'
      BY <1>2, <2>1, <3>2 DEF SecondFollows
    <3>4. FirstTaken => ~rdf_beat.valid
      BY <1>3 DEF FirstTaken
    <3>5. FirstHere' \/ FirstTaken'
      BY <1>1, <1>2, <2>5, <3>3, <3>4 DEF FirstHere, FirstTaken
    <3> QED BY <2>2, <3>5 DEF MissInv
  <2> QED BY <1>3, <2>4, <2>5 DEF MissInv, NothingComes, Requested
<1>4. CASE burst = <<>>
  <2>1. /\ caf # <<>> /\ ~Head(caf).write /\ caf' = Tail(caf)
        /\ rdf' = Append(rdf, mem[Head(caf).line][1])
        /\ burst' = <<mem[Head(caf).line][2]>>
    BY <1>4 DEF MigRead
  <2>2. Head(caf) = caf[1] /\ 1 \in DOMAIN caf
    BY <2>1 DEF TypeOK, FifoTypes
  <2>3. Requested
    BY <2>1, <2>2 DEF MissInv, NoReadQueued
  <2>4. /\ caf' = <<>> /\ caf[1].line = LineOf(hold.addr)
        /\ mem[LineOf(hold.addr)][1] = w1 /\ mem[LineOf(hold.addr)][2] = w2
    BY <1>1, <2>1, <2>2, <2>3, HeadReadFinds DEF Halves
  <2>5. rdf' = <<w1>> /\ burst' = <<w2>> /\ cs = "READ1" /\ ~rdf_beat.valid
    <3>1. rdf = <<>> /\ cs = "READ1" /\ ~rdf_beat.valid
      BY <2>3 DEF Requested, NothingComes
    <3>2. rdf' = Append(<<>>, w1)
      BY <2>1, <2>2, <2>4, <3>1
    <3>3. Append(<<>>, w1) = <<w1>>
      OBVIOUS
    <3> QED BY <2>1, <2>2, <2>4, <3>1, <3>2, <3>3
  <2>6. BothQueued'
    BY <1>2, <2>5 DEF BothQueued
  <2>7. NoReadQueued'
    BY <2>4 DEF NoReadQueued
  <2> QED BY <2>6, <2>7 DEF MissInv
<1> QED BY <1>3, <1>4

\* A write that leaves is none of them.
LEMMA WriteMiss ==
  ASSUME TypeOK, MissInv, MigWrite
  PROVE  MissInv'
<1>1. /\ UNCHANGED <<cs, hold, golden, rdf, burst, rdf_beat, first_read>>
      /\ caf # <<>> /\ Head(caf).write /\ caf' = Tail(caf)
  BY DEF MigWrite
<1>2. PICK n \in Nat \ {0} : n = Len(caf)
  BY <1>1, EmptySeq, LenProperties DEF TypeOK, FifoTypes
<1>3. /\ Head(caf) = caf[1] /\ DOMAIN caf = 1..n
      /\ Len(caf') = n - 1 /\ DOMAIN caf' = 1..(n - 1)
      /\ \A i \in 1..(n - 1) : caf'[i] = caf[i + 1]
  BY <1>1, <1>2 DEF TypeOK, FifoTypes
<1>4. NoReadQueued => NoReadQueued'
  BY <1>3 DEF NoReadQueued
<1>5. Requested => Requested'
  <2> SUFFICES ASSUME Requested PROVE Requested'
    OBVIOUS
  <2>1. ~caf[n].write /\ caf[n].line = LineOf(hold.addr) /\ \A i \in 1..(n - 1) : caf[i].write
    BY <1>2 DEF Requested
  <2>2. n # 1
    BY <1>1, <1>3, <2>1
  <2>3. caf'[n - 1] = caf[n] /\ \A i \in 1..(n - 2) : caf'[i] = caf[i + 1]
    BY <1>3, <2>2
  <2>4. caf' # <<>>
    BY <1>3, <2>2
  <2>5. cs' = "READ1" /\ NothingComes' /\ LineOf(hold.addr)' = LineOf(hold.addr)
    BY <1>1 DEF Requested, NothingComes, LineOf
  <2>6. \A i \in 1..(n - 2) : caf'[i].write
    BY <2>1, <2>3
  <2> QED BY <1>3, <2>1, <2>3, <2>4, <2>5, <2>6 DEF Requested
<1>6. (NothingComes => NothingComes') /\ (BothQueued => BothQueued')
      /\ (FirstHere => FirstHere') /\ (FirstTaken => FirstTaken')
  BY <1>1 DEF NothingComes, BothQueued, FirstHere, FirstTaken, SecondFollows, Wanted, LineOf
<1> QED BY <1>1, <1>4, <1>5, <1>6 DEF MissInv

-----------------------------------------------------------------------------
(***************************************************************************)
(* The steps of the memory, and the first theorem.                         *)
(***************************************************************************)

\* The queued writes stay paired when a command leaves.
LEMMA MemoryPaired ==
  ASSUME TypeOK, Paired, MissInv, MigWrite \/ MigRead
  PROVE  Paired'
<1>1. PICK n \in Nat, k \in Nat, w \in Nat :
        n = Len(caf) /\ k = Len(wdf) /\ w = Upto(caf, n)
        /\ k = 2 * w - (IF cs = "WRITE2" THEN 1 ELSE 0)
  <2>1. PICK n \in Nat, k \in Nat : n = Len(caf) /\ k = Len(wdf)
    BY DEF TypeOK, FifoTypes
  <2>2. Upto(caf, n) = WritesUpTo(n) /\ Upto(caf, n) \in Nat
    BY UptoType DEF WritesUpTo, Upto, Writes
  <2>3. k = 2 * WritesUpTo(n) - (IF cs = "WRITE2" THEN 1 ELSE 0)
    BY <2>1 DEF Paired
  <2> QED BY <2>1, <2>2, <2>3
<1>2. \A m : WritesUpTo(m)' = Upto(caf', m)
  BY DEF WritesUpTo, Upto, Writes
<1>3. caf \in Seq(Command) /\ wdf \in Seq(WriteBeat) /\ DOMAIN caf = 1..n
  BY <1>1 DEF TypeOK, FifoTypes
<1>4. cs' = cs /\ hold' = hold
  BY DEF MigWrite, MigRead
<1>5. ASSUME caf # <<>>, caf' = Tail(caf)
      PROVE  /\ n >= 1 /\ Len(caf') = n - 1 /\ Head(caf) = caf[1]
             /\ \A i \in 1..(n - 1) : caf'[i] = caf[i + 1]
             /\ w = Upto(caf', n - 1) + Bit(caf[1].write)
             /\ Upto(caf', n - 1) \in Nat
  <2>1. /\ n >= 1 /\ Len(caf') = n - 1 /\ Head(caf) = caf[1]
        /\ \A i \in 1..(n - 1) : caf'[i] = caf[i + 1]
    BY <1>1, <1>3, <1>5, EmptySeq, HeadTailProperties
  <2>2. n - 1 \in 0..Len(Tail(caf)) /\ (n - 1) + 1 = n /\ n - 1 \in Nat
    BY <1>5, <2>1
  <2>3. Upto(caf, (n - 1) + 1) = Upto(Tail(caf), n - 1) + Bit(caf[1].write)
    BY <1>3, <1>5, <2>2, UptoTail
  <2>4. Upto(caf', n - 1) \in Nat
    BY <2>2, UptoType
  <2> QED BY <1>1, <1>5, <2>1, <2>2, <2>3, <2>4
<1>6. CASE MigWrite
  <2>1. /\ caf # <<>> /\ Head(caf).write /\ caf' = Tail(caf) /\ k >= 2
        /\ wdf' = SubSeq(wdf, 3, k)
    BY <1>1, <1>6 DEF MigWrite
  <2>2. PICK u \in Nat : u = Upto(caf', n - 1) /\ w = u + 1
    <3>1. Bit(caf[1].write) = 1
      BY <1>5, <2>1 DEF Bit
    <3> QED BY <1>5, <2>1, <3>1
  <2>3. Len(wdf') = k - 2 /\ \A i \in 1..(k - 2) : wdf'[i] = wdf[i + 2]
    <3>0. \A i \in 1..Len(wdf) : wdf[i] \in WriteBeat
      BY <1>3, ElementOfSeq
    <3>1. \A i \in 3..k : wdf[i] \in WriteBeat
      BY <1>1, <3>0
    <3>2. /\ Len(SubSeq(wdf, 3, k)) = IF 3 <= k THEN k - 3 + 1 ELSE 0
          /\ \A i \in 1..(k - 3 + 1) : SubSeq(wdf, 3, k)[i] = wdf[3 + i - 1]
      BY <3>1, SubSeqProperties
    <3> QED BY <2>1, <3>2
  <2>4. Len(wdf') = 2 * WritesUpTo(Len(caf))' - (IF cs' = "WRITE2" THEN 1 ELSE 0)
    <3>1. Len(caf') = n - 1 /\ WritesUpTo(Len(caf))' = u
      BY <1>2, <1>5, <2>1, <2>2
    <3>2. PICK c \in {0, 1} : c = IF cs' = "WRITE2" THEN 1 ELSE 0
      OBVIOUS
    <3>3. k = 2 * w - c
      BY <1>1, <1>4, <3>2
    <3>4. k - 2 = 2 * u - c
      BY <2>2, <3>3
    <3> QED BY <2>3, <3>1, <3>2, <3>4
  <2>5. CASE cs = "WRITE2"
    <3>1. n >= 2 /\ k >= 3
      <4>0. k = 2 * w - 1 /\ k >= 2 /\ w = u + 1
        BY <1>1, <2>1, <2>2, <2>5
      <4>1. k >= 3 /\ u >= 1
        BY <4>0
      <4>2. n = 1 => u = 0
        BY <2>2, UptoZero
      <4> QED BY <1>5, <2>1, <4>1, <4>2
    <3>2. caf'[n - 1] = caf[n] /\ wdf'[k - 2] = wdf[k]
      BY <1>5, <2>1, <2>3, <3>1
    <3>3. caf' # <<>>
      <4>1. Len(caf') >= 1
        BY <1>5, <2>1, <3>1
      <4> QED BY <4>1, EmptySeq
    <3>4. caf[n].write /\ caf[n].line = LineOf(hold.addr)
          /\ (wdf[k].enable <=> hold.addr.half = 1) /\ wdf[k].data = hold.din
      BY <1>1, <2>5 DEF Paired
    <3>5. Len(caf') = n - 1 /\ Len(wdf') = k - 2
      BY <1>5, <2>1, <2>3
    <3>6. caf'[Len(caf')].write /\ caf'[Len(caf')].line = LineOf(hold.addr)'
      BY <1>4, <3>2, <3>4, <3>5 DEF LineOf
    <3>7. (wdf'[Len(wdf')].enable <=> (hold.addr.half)' = 1)
          /\ wdf'[Len(wdf')].data = (hold.din)'
      BY <1>4, <3>2, <3>4, <3>5
    <3> QED BY <2>4, <3>3, <3>6, <3>7 DEF Paired
  <2>6. CASE cs # "WRITE2"
    BY <1>4, <2>4, <2>6 DEF Paired
  <2> QED BY <2>5, <2>6
<1>7. CASE MigRead
  <2>1. wdf' = wdf
    BY <1>7 DEF MigRead
  <2>2. CASE caf' = caf
    BY <1>4, <2>1, <2>2 DEF Paired, WritesUpTo, LineOf
  <2>3. CASE caf # <<>> /\ ~Head(caf).write /\ caf' = Tail(caf)
    <3>1. ~caf[1].write /\ 1 \in DOMAIN caf
      BY <1>3, <1>5, <2>3
    <3>2. cs # "WRITE2"
      BY <3>1 DEF MissInv, NoReadQueued, Requested
    <3>3. Upto(caf', n - 1) = w /\ Len(caf') = n - 1
      BY <1>5, <2>3, <3>1 DEF Bit
    <3>4. WritesUpTo(Len(caf))' = w
      BY <1>2, <3>3
    <3> QED BY <1>1, <1>4, <2>1, <3>2, <3>4 DEF Paired
  <2> QED BY <1>7, <2>2, <2>3 DEF MigRead
<1> QED BY <1>6, <1>7

\* What a later command finds is the same before and after a step of the memory.
LEMMA MemoryStores ==
  ASSUME TypeOK, Paired, StoresQueued, MigWrite \/ MigRead
  PROVE  StoresQueued'
<1> SUFFICES ASSUME NEW l \in Line, NEW h \in Halves
             PROVE  (IF Held(l, h) THEN golden[l][h] = hold.din
                     ELSE Finds(l, h, golden[l][h]))'
  BY DEF StoresQueued
<1>1. PICK v : v = golden[l][h]
  OBVIOUS
<1>2. golden' = golden /\ hold' = hold /\ (Held(l, h)' <=> Held(l, h))
  BY DEF MigWrite, MigRead, Held, LineOf
<1>3. Finds(l, h, v) => Finds(l, h, v)'
  <2>1. CASE MigWrite
    BY <2>1, WriteLeaves
  <2>2. CASE MigRead
    <3>1. UNCHANGED <<wdf, mem>>
      BY <2>2 DEF MigRead
    <3>2. CASE caf' = caf
      BY <3>1, <3>2, SameQueue
    <3>3. CASE caf # <<>> /\ ~Head(caf).write /\ caf' = Tail(caf)
      <4>1. ~caf[1].write /\ FifoTypes
        BY <3>3 DEF TypeOK, FifoTypes
      <4> QED BY <3>1, <3>3, <4>1, ReadLeaves
    <3> QED BY <2>2, <3>2, <3>3 DEF MigRead
  <2> QED BY <2>1, <2>2
<1>4. IF Held(l, h) THEN v = hold.din ELSE Finds(l, h, v)
  BY <1>1 DEF StoresQueued
<1> QED BY <1>1, <1>2, <1>3, <1>4

LEMMA QueueInit == Init => QueueInv
<1> SUFFICES ASSUME Init PROVE QueueInv
  OBVIOUS
<1>1. PICK a \in Addr, b \in Block :
    /\ side \in Sides
    /\ cs = "IDLE"
    /\ hold = [addr |-> a, re |-> FALSE, we |-> FALSE, din |-> b[1]]
    /\ P = [addr |-> a, re |-> FALSE]
    /\ tagram = [i \in Indexes |-> NoTag]
    /\ dataram = [i \in Indexes |-> b]
    /\ tag_line_out = NoTag
    /\ data_line_out = b
    /\ first_read = b[1]
    /\ active_data_line = b
    /\ caf = <<>> /\ wdf = <<>> /\ rdf = <<>> /\ burst = <<>>
    /\ rdf_beat = [valid |-> FALSE, data |-> b[1]]
    /\ mem = [l \in Line |-> b]
    /\ golden = mem
  BY DEF Init
<1>2. b[1] \in Values
  BY DEF Block, Halves
<1>3. FifoTypes
  BY <1>1, <1>2 DEF FifoTypes
<1>4. RamTypes
  BY <1>1, <1>2 DEF RamTypes
<1>5. PortTypes
  BY <1>1, <1>2, CacheAssumption DEF PortTypes
<1>6. AccessInv
  BY <1>1 DEF AccessInv
<1>7. Paired
  <2>1. WritesUpTo(0) = 0
    BY UptoZero DEF WritesUpTo, Upto, Writes
  <2> QED BY <1>1, <2>1 DEF Paired
<1>8. StoresQueued
  <2> SUFFICES ASSUME NEW l \in Line, NEW h \in Halves
               PROVE  ~Held(l, h) /\ Finds(l, h, golden[l][h])
    BY DEF StoresQueued
  <2>1. QueuedWrites(l, h) = {}
    BY <1>1 DEF QueuedWrites
  <2> QED BY <1>1, <2>1 DEF Held, Finds
<1>9. MissInv
  BY <1>1 DEF MissInv, NoReadQueued, NothingComes
<1> QED BY <1>3, <1>4, <1>5, <1>6, <1>7, <1>8, <1>9 DEF QueueInv, TypeOK

LEMMA QueueStep ==
  ASSUME QueueInv, [Next]_vars
  PROVE  QueueInv'
<1>1. TypeOK /\ AccessInv /\ Paired /\ StoresQueued /\ MissInv
  BY DEF QueueInv
<1>2. TypeOK'
  BY <1>1, TypesStep
<1>3. ASSUME NEW full \in BOOLEAN, CpuTick(full) PROVE QueueInv'
  <2>1. PICK port \in Port : /\ ClockEdge(full, NextState(full), port)
                             /\ Waits(port) \/ GoesOn(full, port)
    BY <1>1, <1>3, TickIsEdge
  <2>2. AccessInv'
    BY <1>1, <2>1, AccessStep
  <2>3. Paired'
    BY <1>1, <2>1, PairedStep
  <2>4. StoresQueued'
    BY <1>1, <2>1, EdgeStores
  <2>5. MissInv'
    BY <1>1, <2>1, EdgeMiss
  <2> QED BY <1>2, <2>2, <2>3, <2>4, <2>5 DEF QueueInv
<1>4. CASE MigWrite \/ MigRead
  <2>1. AccessInv'
    BY <1>1, <1>4 DEF MigWrite, MigRead, AccessInv
  <2>2. Paired'
    BY <1>1, <1>4, MemoryPaired
  <2>3. StoresQueued'
    BY <1>1, <1>4, MemoryStores
  <2>4. MissInv'
    BY <1>1, <1>4, ReadMiss, WriteMiss
  <2> QED BY <1>2, <2>1, <2>2, <2>3, <2>4 DEF QueueInv
<1>5. CASE UNCHANGED vars
  <2>1. AccessInv' /\ Paired'
    BY <1>1, <1>5 DEF vars, ramVars, fifoVars, AccessInv, Paired, WritesUpTo, LineOf
  <2>2. StoresQueued'
    BY <1>1, <1>5, SMTT(30) DEF vars, ramVars, fifoVars, StoresQueued, Held, Finds, QueuedWrites,
      BeatOf, WritesUpTo, LineOf
  <2>3. MissInv'
    BY <1>1, <1>5 DEF vars, ramVars, fifoVars, MissInv, NoReadQueued, NothingComes,
      Requested, BothQueued, FirstHere, FirstTaken, SecondFollows, Wanted, LineOf
  <2> QED BY <1>2, <2>1, <2>2, <2>3 DEF QueueInv
<1> QED BY <1>3, <1>4, <1>5 DEF Next

\* In every reachable state the variables have their types, and the first part
\* of the inductive invariant holds.
THEOREM QueueHolds == Spec => []QueueInv
BY QueueInit, QueueStep, PTL DEF Spec

\* The DDR2 and the write commands queued before it hold every store that has
\* left the cache: what the graphics processor and the other cache may read.
THEOREM MemoryMatches == Spec => []DdrMatchesStores
<1>1. ASSUME QueueInv PROVE DdrMatchesStores
  <2> SUFFICES ASSUME NEW l \in Line, NEW h \in Halves
               PROVE  LET q == QueuedWrites(l, h)
                          last == CHOOSE i \in q : \A j \in q : j <= i
                      IN \/ golden[l][h] = IF q = {} THEN mem[l][h]
                                           ELSE wdf[BeatOf(last, h)].data
                         \/ Held(l, h)
    BY DEF DdrMatchesStores, Held
  <2> DEFINE q == QueuedWrites(l, h)
             last == CHOOSE i \in q : \A j \in q : j <= i
  <2>1. Held(l, h) \/ Finds(l, h, golden[l][h])
    BY <1>1 DEF QueueInv, StoresQueued
  <2>2. CASE Finds(l, h, golden[l][h]) /\ q = {}
    BY <2>2 DEF Finds
  <2>3. CASE Finds(l, h, golden[l][h]) /\ q # {}
    <3>1. PICK i \in q : (\A j \in q : j <= i) /\ wdf[BeatOf(i, h)].data = golden[l][h]
      BY <2>3 DEF Finds
    <3>2. q \subseteq Nat
      BY <1>1 DEF QueueInv, TypeOK, FifoTypes, QueuedWrites
    <3>3. last \in q /\ \A j \in q : j <= last
      BY <3>1
    <3> HIDE DEF last, q
    <3>4. last = i
      BY <3>1, <3>2, <3>3
    <3> QED BY <2>3, <3>1, <3>4 DEF q, last
  <2> QED BY <2>1, <2>2, <2>3
<1> QED BY <1>1, QueueHolds, PTL

-----------------------------------------------------------------------------
(***************************************************************************)
(* The block RAMs.                                                         *)
(***************************************************************************)

\* What a clock edge does to the rows and to the outputs.
LEMMA RamEdge ==
  ASSUME ~CollisionUndefined, NEW ns, NEW port \in Port, BlockRams(ns, port)
  PROVE  /\ ns # "CWRITEB" /\ ~write_hit_hold => UNCHANGED <<tagram, dataram>>
         /\ ns = "CWRITEB" =>
              /\ tagram' = [tagram EXCEPT ![Row] = hold.addr.tag]
              /\ dataram' = [dataram EXCEPT ![Row] = <<first_read, rdf_beat.data>>]
         /\ ns # "CWRITEB" /\ write_hit_hold =>
              /\ tagram' = [tagram EXCEPT ![Row] = hold.addr.tag]
              /\ dataram' = [dataram EXCEPT ![Row] =
                               [dataram[Row] EXCEPT ![hold.addr.half] = hold.din]]
         /\ ns = "IDLE" =>
              /\ tag_line_out' \in {tagram[port.addr.index], tagram'[port.addr.index]}
              /\ data_line_out' \in {dataram[port.addr.index], dataram'[port.addr.index]}
         /\ ns \notin {"IDLE", "CWRITEB"} /\ ~write_hit_hold /\ ~port.re =>
              UNCHANGED <<tag_line_out, data_line_out>>
<1>1. \A old, new, c, all : ReadRow(old, new, c, all) \subseteq {old, new}
  BY DEF ReadRow
<1>2. /\ ns # "CWRITEB" /\ ~write_hit_hold => UNCHANGED <<tagram, dataram>>
      /\ ns = "CWRITEB" =>
           /\ tagram' = [tagram EXCEPT ![Row] = hold.addr.tag]
           /\ dataram' = [dataram EXCEPT ![Row] = <<first_read, rdf_beat.data>>]
  BY DEF BlockRams, Row
<1>3. ns # "CWRITEB" /\ write_hit_hold =>
        /\ tagram' = [tagram EXCEPT ![Row] = hold.addr.tag]
        /\ dataram' = [dataram EXCEPT ![Row] =
                         [dataram[Row] EXCEPT ![hold.addr.half] = hold.din]]
  BY DEF BlockRams, Row
<1>4. ns = "IDLE" =>
        /\ tag_line_out' \in {tagram[port.addr.index], tagram'[port.addr.index]}
        /\ data_line_out' \in {dataram[port.addr.index], dataram'[port.addr.index]}
  BY <1>1 DEF BlockRams
<1>5. ns \notin {"IDLE", "CWRITEB"} /\ ~write_hit_hold /\ ~port.re =>
        UNCHANGED <<tag_line_out, data_line_out>>
  BY DEF BlockRams
<1> QED BY <1>2, <1>3, <1>4, <1>5

\* Of the line of the store in hold, golden has the store.
LEMMA HeldStored ==
  ASSUME QueueInv, hold.we
  PROVE  golden[LineOf(hold.addr)][hold.addr.half] = hold.din
<1>1. LineOf(hold.addr) \in Line /\ hold.addr.half \in Halves
  BY DEF QueueInv, TypeOK, PortTypes, Addr, Line, LineOf, Halves
<1> QED BY <1>1 DEF QueueInv, StoresQueued, Held

\* A store that hits writes to the row of its line.
LEMMA WriteHitsRow ==
  ASSUME QueueInv, RamInv, write_hit_hold
  PROVE  hold.we /\ tagram[Row] = hold.addr.tag
<1>1. hold.we /\ tag_hit /\ cs \in {"IDLE", "WRITE1", "WRITE2"}
  BY DEF write_hit_hold, QueueInv, AccessInv
<1> QED BY <1>1 DEF RamInv, OutputIsRow, HitIsRow, tag_hit

\* A fill writes the line it was asked for.
LEMMA FillIsLine ==
  ASSUME QueueInv, NEW full \in BOOLEAN, NextState(full) = "CWRITEB"
  PROVE  /\ <<first_read, rdf_beat.data>> = golden[LineOf(hold.addr)]
         /\ cs = "READ2" /\ ~hold.we
<1>1. cs = "READ2" /\ rdf_beat.valid
  BY NextStates DEF QueueInv, TypeOK, PortTypes
<1>2. first_read = Wanted(1) /\ rdf_beat.data = Wanted(2)
  BY <1>1 DEF QueueInv, MissInv, Requested, BothQueued, FirstHere, FirstTaken
<1>3. /\ first_read \in Values /\ rdf_beat.data \in Values
      /\ golden[LineOf(hold.addr)] \in Block
  BY DEF QueueInv, TypeOK, FifoTypes, RamTypes, PortTypes, Addr, Line, LineOf
<1> QED BY <1>1, <1>2, <1>3, BlockOfTwo DEF Wanted, QueueInv, AccessInv

\* Every edge leaves the rows as the stores accepted before it have left memory.
LEMMA RowsCoherent ==
  ASSUME QueueInv, RamInv, ~CollisionUndefined, NEW full \in BOOLEAN, NEW port \in Port,
         ClockEdge(full, NextState(full), port)
  PROVE  \A i \in Indexes, h \in Halves : tagram'[i] \in Tags =>
           dataram'[i][h] = golden[[tag |-> tagram'[i], index |-> i]][h]
<1>0. PICK ns : ns = NextState(full) /\ BlockRams(ns, port)
  BY DEF ClockEdge
<1>1. /\ tagram \in [Indexes -> Tags \union {NoTag}] /\ dataram \in [Indexes -> Block]
      /\ Row \in Indexes /\ hold.addr.tag \in Tags /\ hold.addr.half \in Halves
      /\ LineOf(hold.addr) = [tag |-> hold.addr.tag, index |-> Row]
  BY DEF QueueInv, TypeOK, RamTypes, PortTypes, Addr, Row, LineOf, Halves
<1>2. SUFFICES ASSUME NEW i \in Indexes, NEW h \in Halves, tagram'[i] \in Tags
               PROVE  dataram'[i][h] = golden[[tag |-> tagram'[i], index |-> i]][h]
  OBVIOUS
<1>3. ASSUME tagram[i] \in Tags, ~(hold.we /\ cs = "IDLE" /\ i = Row /\ hold.addr.half = h
                                     /\ tagram[i] = hold.addr.tag)
      PROVE  dataram[i][h] = golden[[tag |-> tagram[i], index |-> i]][h]
  <2>1. \/ dataram[i][h] = golden[[tag |-> tagram[i], index |-> i]][h]
        \/ cs = "IDLE" /\ Held([tag |-> tagram[i], index |-> i], h)
    BY <1>3 DEF RamInv, Coherent
  <2>2. Held([tag |-> tagram[i], index |-> i], h) =>
          hold.we /\ i = Row /\ tagram[i] = hold.addr.tag /\ hold.addr.half = h
    BY <1>1 DEF Held
  <2> QED BY <1>3, <2>1, <2>2
<1>4. CASE ns = "CWRITEB"
  <2>1. /\ tagram' = [tagram EXCEPT ![Row] = hold.addr.tag]
        /\ dataram' = [dataram EXCEPT ![Row] = <<first_read, rdf_beat.data>>]
    BY <1>0, <1>4, RamEdge
  <2>2. <<first_read, rdf_beat.data>> = golden[LineOf(hold.addr)] /\ ~hold.we
    BY <1>0, <1>4, FillIsLine
  <2>3. CASE i = Row
    <3>1. tagram'[i] = hold.addr.tag /\ dataram'[i] = golden[LineOf(hold.addr)]
      BY <1>1, <2>1, <2>2, <2>3
    <3> QED BY <1>1, <2>3, <3>1
  <2>4. CASE i # Row
    <3>1. tagram'[i] = tagram[i] /\ dataram'[i] = dataram[i]
      BY <1>1, <2>1, <2>4
    <3> QED BY <1>2, <1>3, <2>4, <3>1
  <2> QED BY <2>3, <2>4
<1>5. CASE ns # "CWRITEB" /\ write_hit_hold
  <2>1. /\ tagram' = [tagram EXCEPT ![Row] = hold.addr.tag]
        /\ dataram' = [dataram EXCEPT ![Row] =
                         [dataram[Row] EXCEPT ![hold.addr.half] = hold.din]]
    BY <1>0, <1>5, RamEdge
  <2>2. hold.we /\ tagram[Row] = hold.addr.tag
    BY <1>5, WriteHitsRow
  <2>3. golden[LineOf(hold.addr)][hold.addr.half] = hold.din
    BY <2>2, HeldStored
  <2>4. tagram'[i] = tagram[i]
    BY <1>1, <2>1, <2>2
  <2>5. CASE i = Row /\ h = hold.addr.half
    <3>1. dataram'[i][h] = hold.din
      BY <1>1, <2>1, <2>5 DEF Block
    <3> QED BY <1>1, <2>2, <2>3, <2>4, <2>5, <3>1
  <2>6. CASE ~(i = Row /\ h = hold.addr.half)
    <3>1. dataram'[i][h] = dataram[i][h]
      BY <1>1, <2>1, <2>6 DEF Block
    <3> QED BY <1>2, <1>3, <2>4, <2>6, <3>1
  <2> QED BY <2>5, <2>6
<1>6. CASE ns # "CWRITEB" /\ ~write_hit_hold
  <2>1. tagram' = tagram /\ dataram' = dataram
    BY <1>0, <1>6, RamEdge
  <2>2. ~(hold.we /\ cs = "IDLE" /\ i = Row /\ tagram[i] = hold.addr.tag)
    BY <1>6 DEF RamInv, OutputIsRow, write_hit_hold, tag_hit
  <2> QED BY <1>2, <1>3, <2>1, <2>2
<1> QED BY <1>4, <1>5, <1>6

\* An edge at which the cache takes a new access changes no row: a store that
\* hits has written its row at the edge before.
LEMMA RowsStay ==
  ASSUME QueueInv, RamInv, ~CollisionUndefined, NEW full \in BOOLEAN, NEW port \in Port,
         ClockEdge(full, NextState(full), port), NextState(full) = "IDLE"
  PROVE  /\ tagram' = tagram /\ dataram' = dataram
         /\ tag_line_out' = tagram[port.addr.index]
         /\ data_line_out' = dataram[port.addr.index]
<1>1. BlockRams("IDLE", port)
  BY DEF ClockEdge
<1>2. tagram' = tagram /\ dataram' = dataram
  <2>1. CASE ~write_hit_hold
    BY <1>1, <2>1, RamEdge
  <2>2. CASE write_hit_hold
    <3>1. /\ tagram' = [tagram EXCEPT ![Row] = hold.addr.tag]
          /\ dataram' = [dataram EXCEPT ![Row] =
                           [dataram[Row] EXCEPT ![hold.addr.half] = hold.din]]
      BY <1>1, <2>2, RamEdge
    <3>2. hold.we /\ tagram[Row] = hold.addr.tag
      BY <2>2, WriteHitsRow
    <3>3. cs # "IDLE"
      BY <3>2, NextStates DEF QueueInv, TypeOK, PortTypes
    <3>4. /\ tagram \in [Indexes -> Tags \union {NoTag}] /\ dataram \in [Indexes -> Block]
          /\ Row \in Indexes /\ hold.addr.tag \in Tags /\ hold.addr.half \in Halves
          /\ LineOf(hold.addr) = [tag |-> hold.addr.tag, index |-> Row]
      BY DEF QueueInv, TypeOK, RamTypes, PortTypes, Addr, Row, LineOf, Halves
    <3>5. dataram[Row][hold.addr.half] = golden[LineOf(hold.addr)][hold.addr.half]
      BY <3>2, <3>3, <3>4 DEF RamInv, Coherent
    <3>6. dataram[Row][hold.addr.half] = hold.din
      BY <3>2, <3>5, HeldStored
    <3>7. [dataram[Row] EXCEPT ![hold.addr.half] = hold.din] = dataram[Row]
      BY <3>4, <3>6 DEF Block
    <3> QED BY <3>1, <3>2, <3>4, <3>7
  <2> QED BY <2>1, <2>2
<1> QED BY <1>1, <1>2, RamEdge

\* While the CPU waits for the other cache, the line of its read stays.
LEMMA WaitsHit ==
  ASSUME QueueInv, RamInv, ~CollisionUndefined, NEW full \in BOOLEAN, NEW port \in Port,
         ClockEdge(full, NextState(full), port), NextState(full) = "IDLE",
         Waits(port), P.re
  PROVE  tag_hit'
<1>1. \/ cs = "IDLE" /\ ~hold.we /\ ~read_miss
      \/ cs = "WRITE2" /\ ~full
      \/ cs = "CWRITEB"
  BY NextStates DEF QueueInv, TypeOK, PortTypes
<1>2. hold' = port
  BY DEF ClockEdge, Registers
<1>3. port.addr = hold.addr /\ ~hold.we
  BY DEF Waits, QueueInv, AccessInv
<1>4. tagram[Row] = hold.addr.tag
  <2>1. CASE cs = "IDLE"
    <3>1. (hold.re \/ tag_hit) /\ ~read_miss
      BY <1>1, <2>1 DEF RamInv, OutputIsRow
    <3> QED BY <2>1, <3>1 DEF RamInv, OutputIsRow, read_miss, tag_hit
  <2>2. CASE cs = "CWRITEB"
    BY <2>2 DEF RamInv, Filled
  <2>3. CASE cs = "WRITE2"
    BY <1>3, <2>3 DEF QueueInv, AccessInv
  <2> QED BY <1>1, <2>1, <2>2, <2>3
<1>5. tag_line_out' = tagram[port.addr.index]
  BY RowsStay
<1> QED BY <1>2, <1>3, <1>4, <1>5 DEF tag_hit, Row

\* The edge keeps what the rows and the outputs of the RAMs hold.
LEMMA EdgeRams ==
  ASSUME QueueInv, QueueInv', RamInv, ~CollisionUndefined, NEW full \in BOOLEAN,
         NEW port \in Port, ClockEdge(full, NextState(full), port),
         Waits(port) \/ GoesOn(full, port)
  PROVE  RamInv'
<1> DEFINE ns == NextState(full)
<1>1. /\ ns \in States
      /\ (ns = "IDLE" <=> \/ cs = "IDLE" /\ ~hold.we /\ ~read_miss
                          \/ cs = "WRITE2" /\ ~full
                          \/ cs = "CWRITEB")
      /\ (ns = "WRITE1" <=> (cs = "IDLE" /\ hold.we) \/ (cs = "WRITE1" /\ full))
      /\ (ns = "WRITE2" <=> (cs = "WRITE1" /\ ~full) \/ (cs = "WRITE2" /\ full))
  BY NextStates DEF QueueInv, TypeOK, PortTypes
<1>2. /\ cs' = ns /\ hold' = IF ns = "IDLE" THEN port ELSE hold
      /\ ns = "CWRITEB" /\ cs # "IDLE" => active_data_line' = <<first_read, rdf_beat.data>>
      /\ BlockRams(ns, port)
  BY DEF ClockEdge, Registers
<1>3. /\ tagram \in [Indexes -> Tags \union {NoTag}] /\ dataram \in [Indexes -> Block]
      /\ Row \in Indexes
  BY DEF QueueInv, TypeOK, RamTypes, PortTypes, Addr, Row
<1>4. AccessInv
  BY DEF QueueInv
<1>5. ns = "IDLE" => /\ tagram' = tagram /\ dataram' = dataram
                     /\ tag_line_out' = tagram[port.addr.index]
                     /\ data_line_out' = dataram[port.addr.index]
  BY RowsStay
<1>6. Coherent'
  <2> SUFFICES ASSUME NEW i \in Indexes, NEW h \in Halves, tagram'[i] \in Tags
               PROVE  \/ dataram'[i][h] = golden'[[tag |-> tagram'[i], index |-> i]][h]
                      \/ cs' = "IDLE" /\ Held([tag |-> tagram[i], index |-> i], h)'
    BY DEF Coherent
  <2>1. PICK l : l = [tag |-> tagram'[i], index |-> i]
    OBVIOUS
  <2>2. dataram'[i][h] = golden[l][h]
    BY <2>1, RowsCoherent
  <2>3. CASE golden' = golden
    BY <2>1, <2>2, <2>3
  <2>4. CASE golden' # golden
    <3>1. /\ ns = "IDLE" /\ port.we
          /\ golden' = [golden EXCEPT ![LineOf(port.addr)][port.addr.half] = port.din]
      BY <2>4 DEF Waits, GoesOn
    <3>2. golden \in [Line -> Block] /\ l \in Line
      BY <2>1 DEF QueueInv, TypeOK, FifoTypes, Line
    <3>3. CASE LineOf(port.addr) = l /\ port.addr.half = h
      <4>1. hold' = port /\ cs' = "IDLE"
        BY <1>2, <3>1
      <4>2. Held([tag |-> tagram[i], index |-> i], h)'
        BY <2>1, <3>1, <3>3, <4>1 DEF Held, LineOf
      <4> QED BY <2>1, <4>1, <4>2
    <3>4. CASE ~(LineOf(port.addr) = l /\ port.addr.half = h)
      <4>1. golden'[l][h] = golden[l][h]
        BY <3>1, <3>2, <3>4 DEF Block
      <4> QED BY <2>1, <2>2, <4>1
    <3> QED BY <3>3, <3>4
  <2> QED BY <2>3, <2>4
<1>7. OutputIsRow'
  <2> SUFFICES ASSUME ns = "IDLE"
               PROVE  /\ tag_line_out' = tagram'[Row'] /\ data_line_out' = dataram'[Row']
                      /\ P'.re => hold'.re \/ tag_hit'
    BY <1>2 DEF OutputIsRow
  <2>1. hold' = port /\ Row' = port.addr.index
    BY <1>2 DEF Row
  <2>2. tag_line_out' = tagram'[Row'] /\ data_line_out' = dataram'[Row']
    BY <1>5, <2>1
  <2>3. CASE GoesOn(full, port)
    BY <2>1, <2>2, <2>3 DEF GoesOn
  <2>4. CASE Waits(port) /\ P.re
    BY <2>2, <2>4, WaitsHit
  <2>5. CASE Waits(port) /\ ~P.re
    BY <2>2, <2>5 DEF Waits
  <2> QED BY <2>3, <2>4, <2>5
<1>8. HitIsRow'
  <2> SUFFICES ASSUME ns \in {"WRITE1", "WRITE2"}, tag_hit'
               PROVE  tagram'[Row'] = (hold.addr.tag)'
    BY <1>2 DEF HitIsRow
  <2>1. hold' = hold /\ hold.we /\ ~P.re
    BY <1>1, <1>2, <1>4 DEF AccessInv
  <2>2. CASE write_hit_hold
    <3>1. tagram' = [tagram EXCEPT ![Row] = hold.addr.tag]
      BY <1>2, <2>2, RamEdge
    <3> QED BY <1>3, <2>1, <3>1 DEF Row
  <2>3. CASE ~write_hit_hold
    <3>1. ~port.re
      BY <2>1 DEF Waits, GoesOn
    <3>2. tag_line_out' = tag_line_out
      BY <1>2, <2>3, <3>1, RamEdge
    <3> QED BY <2>1, <2>3, <3>2 DEF tag_hit, write_hit_hold
  <2> QED BY <2>2, <2>3
<1>9. Filled'
  <2> SUFFICES ASSUME ns = "CWRITEB"
               PROVE  /\ tagram'[Row'] = (hold.addr.tag)'
                      /\ active_data_line' = golden'[LineOf(hold.addr)']
    BY <1>2 DEF Filled
  <2>1. <<first_read, rdf_beat.data>> = golden[LineOf(hold.addr)] /\ cs = "READ2"
    BY FillIsLine
  <2>2. hold' = hold /\ golden' = golden
    BY <1>2 DEF Waits, GoesOn
  <2>3. tagram' = [tagram EXCEPT ![Row] = hold.addr.tag]
    BY <1>2, RamEdge
  <2> QED BY <1>2, <1>3, <2>1, <2>2, <2>3 DEF Row, LineOf
<1> QED BY <1>6, <1>7, <1>8, <1>9 DEF RamInv

LEMMA RamInit == Init => RamInv
<1> SUFFICES ASSUME Init PROVE RamInv
  OBVIOUS
<1>1. PICK a \in Addr, b \in Block :
        /\ cs = "IDLE" /\ P = [addr |-> a, re |-> FALSE]
        /\ hold = [addr |-> a, re |-> FALSE, we |-> FALSE, din |-> b[1]]
        /\ tagram = [i \in Indexes |-> NoTag] /\ dataram = [i \in Indexes |-> b]
        /\ tag_line_out = NoTag /\ data_line_out = b
  BY DEF Init
<1>2. Row \in Indexes
  BY <1>1 DEF Addr, Row
<1> QED BY <1>1, <1>2, CacheAssumption
      DEF RamInv, Coherent, OutputIsRow, HitIsRow, Filled

LEMMA RamStep ==
  ASSUME ~CollisionUndefined, QueueInv, RamInv, [Next]_vars
  PROVE  RamInv'
<1>1. ASSUME NEW full \in BOOLEAN, CpuTick(full) PROVE RamInv'
  <2>1. PICK port \in Port : /\ ClockEdge(full, NextState(full), port)
                             /\ Waits(port) \/ GoesOn(full, port)
    BY <1>1, TickIsEdge DEF QueueInv
  <2>2. QueueInv'
    BY QueueStep
  <2> QED BY <2>1, <2>2, EdgeRams
<1>2. CASE MigWrite \/ MigRead \/ UNCHANGED vars
  <2>1. UNCHANGED <<tagram, dataram, tag_line_out, data_line_out, cs, hold, P, golden,
                    active_data_line>>
    BY <1>2 DEF MigWrite, MigRead, vars, ramVars
  <2> QED BY <2>1 DEF RamInv, Coherent, OutputIsRow, HitIsRow, Filled, Held, Row, LineOf,
        tag_hit
<1> QED BY <1>1, <1>2 DEF Next

\* When a row that is read while it is rewritten returns what was or what will
\* be there, the valid rows hold what the stores left of their lines.
THEOREM RowsCorrect == ASSUME ~CollisionUndefined PROVE Spec => []RamInv
BY RamInit, QueueHolds, RamStep, PTL DEF Spec

-----------------------------------------------------------------------------
(***************************************************************************)
(* The cache with its DDR2 implements a serial memory.                     *)
(***************************************************************************)

\* The abstract variables of SM that are not variables or their fields.
Pending == IF Ready THEN "none" ELSE IF hold.we THEN "store" ELSE "read"
Answer  == IF Ready /\ P.re THEN {dout} ELSE {}
Content(a) == golden[LineOf(a)][a.half]

\* What the CPU takes is what the memory holds.
LEMMA Answered ==
  ASSUME QueueInv, RamInv, Ready, P.re
  PROVE  dout = Content(P.addr)
<1>1. hold.addr = P.addr /\ ~hold.we
  BY DEF QueueInv, AccessInv
<1>2. CASE cs = "CWRITEB"
  BY <1>1, <1>2 DEF dout, RamInv, Filled, Content
<1>3. CASE cs = "IDLE"
  <2>1. tag_hit /\ tag_line_out = tagram[Row] /\ data_line_out = dataram[Row]
    BY <1>3 DEF RamInv, OutputIsRow, Ready, read_miss
  <2>2. tagram[Row] = hold.addr.tag
    BY <2>1 DEF tag_hit
  <2>3. /\ Row \in Indexes /\ hold.addr.tag \in Tags /\ hold.addr.half \in Halves
        /\ LineOf(hold.addr) = [tag |-> hold.addr.tag, index |-> Row]
    BY DEF QueueInv, TypeOK, PortTypes, Addr, Row, LineOf, Halves
  <2>4. dataram[Row][hold.addr.half] = golden[LineOf(hold.addr)][hold.addr.half]
    BY <1>1, <2>2, <2>3 DEF RamInv, Coherent, Held
  <2> QED BY <1>1, <1>3, <2>1, <2>4 DEF dout, Content
<1> QED BY <1>2, <1>3 DEF Ready

\* The steps of the serial memory in terms of this module.
LEMMA SmStutter ==
  ASSUME golden' = golden, P' = P, Pending' = Pending, Answer' = Answer
  PROVE  UNCHANGED SM!vars
BY DEF SM!vars, Pending, Answer

LEMMA SmRead ==
  ASSUME NEW a \in Addr, Pending # "read", golden' = golden,
         P' = [addr |-> a, re |-> TRUE],
         \/ Pending' = "read" /\ Answer' = {}
         \/ Pending' = "none" /\ Answer' = {Content(a)}
  PROVE  SM!Next
<1>1. SM!AcceptRead
  BY DEF SM!AcceptRead, SM!MayAccept, SM!At, SM!Addr, Addr, Halves, Pending, Answer, Content, LineOf
<1> QED BY <1>1 DEF SM!Next, SM!Accept

LEMMA SmStore ==
  ASSUME NEW a \in Addr, NEW v \in Values, Pending # "read",
         golden' = [golden EXCEPT ![LineOf(a)][a.half] = v],
         P' = [addr |-> a, re |-> FALSE], Pending' = "store", Answer' = {}
  PROVE  SM!Next
<1>1. SM!AcceptStore
  BY DEF SM!AcceptStore, SM!MayAccept, SM!Addr, Addr, Halves, Pending, Answer, LineOf
<1> QED BY <1>1 DEF SM!Next, SM!Accept

LEMMA SmOther ==
  ASSUME NEW a \in Addr, Pending # "read", golden' = golden,
         P' = [addr |-> a, re |-> FALSE], Pending' = "none", Answer' = {}
  PROVE  SM!Next
<1>1. SM!AcceptOther
  BY DEF SM!AcceptOther, SM!MayAccept, SM!Addr, Addr, Halves, Pending, Answer
<1> QED BY <1>1 DEF SM!Next, SM!Accept

LEMMA SmFinish ==
  ASSUME Pending # "none", Pending' = "none", golden' = golden, P' = P,
         Answer' = IF P.re THEN {Content(P.addr)} ELSE {}
  PROVE  SM!Next
<1>1. SM!Finish
  BY DEF SM!Finish, SM!At, Pending, Answer, Content, LineOf
<1> QED BY <1>1 DEF SM!Next

\* Every edge is a step of the serial memory.
LEMMA EdgeRefines ==
  ASSUME QueueInv, QueueInv', RamInv, RamInv', ~CollisionUndefined, NEW full \in BOOLEAN,
         NEW port \in Port, ClockEdge(full, NextState(full), port),
         Waits(port) \/ GoesOn(full, port)
  PROVE  [SM!Next]_(SM!vars)
<1> DEFINE ns == NextState(full)
<1>1. /\ ns = "IDLE" <=> \/ cs = "IDLE" /\ ~hold.we /\ ~read_miss
                         \/ cs = "WRITE2" /\ ~full
                         \/ cs = "CWRITEB"
      /\ cs = "WRITE2" => hold.we
  BY NextStates DEF QueueInv, TypeOK, PortTypes, AccessInv
<1>2. cs' = ns /\ hold' = IF ns = "IDLE" THEN port ELSE hold
  BY DEF ClockEdge, Registers
<1>3. Ready => ns = "IDLE"
  BY <1>1 DEF Ready
<1>4. ns = "IDLE" => Pending # "read"
  BY <1>1 DEF Pending, Ready
<1>5. Ready' => Answer' = IF P'.re THEN {Content(P.addr)'} ELSE {}
  <2>1. (QueueInv /\ RamInv /\ Ready /\ P.re => dout = Content(P.addr))'
    BY Answered, PTL
  <2> QED BY <2>1 DEF Answer
<1>6. CASE GoesOn(full, port)
  <2>1. /\ cs' = "IDLE" /\ hold' = port /\ ns = "IDLE"
        /\ P' = [addr |-> port.addr, re |-> port.re] /\ ~(port.re /\ port.we)
        /\ port.addr \in Addr /\ port.din \in Values /\ port.re \in BOOLEAN
    BY <1>2, <1>6 DEF GoesOn, Port
  <2>2. CASE port.we
    <3>1. ~Ready' /\ P' = [addr |-> port.addr, re |-> FALSE]
      BY <2>1, <2>2 DEF Ready
    <3>2. Pending' = "store" /\ Answer' = {}
      BY <2>1, <2>2, <3>1 DEF Pending, Answer
    <3>3. golden' = [golden EXCEPT ![LineOf(port.addr)][port.addr.half] = port.din]
      BY <1>6, <2>2 DEF GoesOn
    <3> QED BY <1>4, <2>1, <3>1, <3>2, <3>3, SmStore
  <2>3. CASE port.re
    <3>1. golden' = golden /\ P' = [addr |-> port.addr, re |-> TRUE]
      BY <1>6, <2>1, <2>3 DEF GoesOn
    <3>2. Content(P.addr)' = Content(port.addr)
      BY <3>1 DEF Content, LineOf
    <3>3. CASE Ready'
      <4>1. Pending' = "none" /\ Answer' = {Content(port.addr)}
        BY <1>5, <3>1, <3>2, <3>3 DEF Pending
      <4> QED BY <1>4, <2>1, <3>1, <4>1, SmRead
    <3>4. CASE ~Ready'
      <4>1. Pending' = "read" /\ Answer' = {}
        BY <2>1, <2>3, <3>4 DEF Pending, Answer
      <4> QED BY <1>4, <2>1, <3>1, <4>1, SmRead
    <3> QED BY <3>3, <3>4
  <2>4. CASE ~port.we /\ ~port.re
    <3>1. Ready' /\ P' = [addr |-> port.addr, re |-> FALSE] /\ golden' = golden
      BY <1>6, <2>1, <2>4 DEF Ready, read_miss, GoesOn
    <3>2. Pending' = "none" /\ Answer' = {}
      BY <3>1 DEF Pending, Answer
    <3> QED BY <1>4, <2>1, <3>1, <3>2, SmOther
  <2> QED BY <2>2, <2>3, <2>4
<1>7. CASE Waits(port)
  <2>1. golden' = golden /\ P' = P /\ Content(P.addr)' = Content(P.addr)
    BY <1>7 DEF Waits, Content, LineOf
  <2>2. CASE ns = "IDLE"
    <3>1. Ready'
      <4>1. P.re => tag_hit'
        BY <1>7, <2>2, WaitsHit
      <4> QED BY <1>2, <1>7, <2>2, <4>1 DEF Ready, read_miss, Waits
    <3>2. Pending' = "none" /\ Answer' = IF P.re THEN {Content(P.addr)} ELSE {}
      BY <1>5, <2>1, <3>1 DEF Pending
    <3>3. CASE Ready
      <4>1. Pending = "none" /\ Answer = IF P.re THEN {Content(P.addr)} ELSE {}
        BY <3>3, Answered DEF Pending, Answer
      <4> QED BY <2>1, <3>2, <4>1, SmStutter
    <3>4. CASE ~Ready
      BY <2>1, <3>2, <3>4, SmFinish DEF Pending
    <3> QED BY <3>3, <3>4
  <2>3. CASE ns # "IDLE"
    <3>1. ~Ready /\ hold' = hold
      BY <1>2, <1>3, <2>3
    <3>2. CASE Ready'
      <4>1. Pending' = "none" /\ Answer' = IF P.re THEN {Content(P.addr)} ELSE {}
        BY <1>5, <2>1, <3>2 DEF Pending
      <4> QED BY <2>1, <3>1, <4>1, SmFinish DEF Pending
    <3>3. CASE ~Ready'
      <4>1. Pending' = Pending /\ Answer' = Answer
        BY <3>1, <3>3 DEF Pending, Answer
      <4> QED BY <2>1, <4>1, SmStutter
    <3> QED BY <3>2, <3>3
  <2> QED BY <2>2, <2>3
<1> QED BY <1>6, <1>7

\* Every access through the cache behaves as one to a plain memory that takes
\* accesses in program order: no load is stale.
THEOREM CacheImplementsMemory == ASSUME ~CollisionUndefined PROVE Spec => SerialMemorySpec
<1>1. Init => SM!Init
  <2> SUFFICES ASSUME Init PROVE SM!Init
    OBVIOUS
  <2>1. PICK a \in Addr, b \in Block :
          /\ cs = "IDLE" /\ P = [addr |-> a, re |-> FALSE]
          /\ hold = [addr |-> a, re |-> FALSE, we |-> FALSE, din |-> b[1]]
          /\ mem = [l \in Line |-> b] /\ golden = mem
    BY DEF Init
  <2>2. Ready /\ ~P.re
    BY <2>1 DEF Ready, read_miss
  <2>3. golden \in [SM!Line -> [1..2 -> Values]] /\ P.addr \in SM!Addr /\ P.re = FALSE
    BY <2>1 DEF SM!Line, SM!Addr, Line, Addr, Block, Halves
  <2> QED BY <2>2, <2>3 DEF SM!Init
<1>2. ASSUME QueueInv, QueueInv', RamInv, RamInv', [Next]_vars PROVE [SM!Next]_(SM!vars)
  <2>1. ASSUME NEW full \in BOOLEAN, CpuTick(full) PROVE [SM!Next]_(SM!vars)
    <3>1. PICK port \in Port : /\ ClockEdge(full, NextState(full), port)
                               /\ Waits(port) \/ GoesOn(full, port)
      BY <1>2, <2>1, TickIsEdge DEF QueueInv
    <3> QED BY <1>2, <3>1, EdgeRefines
  <2>2. CASE MigWrite \/ MigRead \/ UNCHANGED vars
    <3>1. UNCHANGED <<tag_line_out, data_line_out, cs, hold, P, golden, active_data_line>>
      BY <2>2 DEF MigWrite, MigRead, vars, ramVars
    <3>2. Pending' = Pending /\ Answer' = Answer
      BY <3>1 DEF Pending, Answer, Ready, read_miss, tag_hit, dout
    <3> QED BY <3>1, <3>2, SmStutter
  <2> QED BY <1>2, <2>1, <2>2 DEF Next
<1> QED BY <1>1, <1>2, QueueHolds, RowsCorrect, PTL DEF Spec, SerialMemorySpec, SM!Spec
=============================================================================
