------------------------- MODULE RequestController -------------------------
(***************************************************************************)
(* The arbiter between the memory clients of the SoC and the DDR2 FIFOs    *)
(* (hardware/src/base_mem/RequestController.v), with the request side of   *)
(* every client Memory150.v connects to it.                                *)
(*                                                                         *)
(* The controller grants one client per cycle, by a fixed priority.  Reads *)
(* are answered in the order they were granted, two beats each; each       *)
(* register named req_num remembers where in that order its client's read  *)
(* is, modulo the width of the counters.  Writes push two beats of data,   *)
(* and nothing in the FIFO says whose they are.                            *)
(*                                                                         *)
(* Addresses and data do not matter to the arbitration and are left out.   *)
(* One Tick is one rising edge of cpu_clk_g; the Start actions are the     *)
(* cycles in which a client begins to ask.                                 *)
(***************************************************************************)
EXTENDS Naturals, Sequences, FiniteSets

CONSTANTS
  Live,        \* the clients connected: Memory150.v ties fill and line to 0
  ReadWrap,    \* issued_reads counts modulo this (2^11)
  PixfCredit,  \* reads PixelFeeder keeps outstanding at most (PIXFO_TARGET)
  CafDepth,    \* commands the FIFO mig_caf holds
  WdfDepth     \* beats the FIFO mig_wdf holds

Caches  == {"inst", "data"}
Tagged  == Caches \union {"gcmd"}         \* the readers with a req_num
Readers == Tagged \union {"pixf"}
Writers == {"fill", "line", "bpas"}       \* the write-only clients
Clients == Readers \union Writers
NULL    == "null"                         \* NULL_ACCESS

ASSUME ControllerAssumption ==
  /\ Live \subseteq Clients
  /\ Caches \subseteq Live
  /\ ReadWrap \in Nat /\ PixfCredit \in Nat /\ PixfCredit + 3 <= ReadWrap
  /\ CafDepth \in Nat /\ CafDepth >= 2
  /\ WdfDepth \in Nat /\ WdfDepth >= 2

VARIABLES
  cs,               \* what each client is doing, see States
  issued_reads,
  serviced_reads,   \* counts beats: the bit more than issued_reads has
  req_num, req_valid,
  reserved,         \* fill_reserved, line_reserved, bpas_reserved
  caf,              \* kinds of the commands in the FIFO
  wdf,              \* the beats in the FIFO: whose, and which half
  rdf,              \* number of beats in the read-data FIFO
  owed,             \* beats to follow the first of the read being answered
  rdf_wren,         \* does that FIFO present a beat this cycle
  reads, writes     \* history: whose the reads not yet answered and the
                    \* writes not yet done are, in the order of their grants

counters == <<issued_reads, serviced_reads, req_num, req_valid>>
fifos    == <<caf, wdf, rdf, owed, rdf_wren>>
vars     == <<cs, counters, reserved, fifos, reads, writes>>

\* FETCH, WRITE1 and WRITE2 ask the controller; READ1 and READ2 wait for the
\* beats of a read.  IDLE is every other state of a client.
States ==
  [c \in Clients |->
     IF c \in Caches      THEN {"IDLE", "FETCH", "READ1", "READ2", "WRITE1", "WRITE2"}
     ELSE IF c = "gcmd"   THEN {"IDLE", "FETCH", "READ1", "READ2"}
     ELSE IF c = "pixf"   THEN {"IDLE", "FETCH"}
     ELSE                      {"IDLE", "WRITE1", "WRITE2"}]

Rank == [inst |-> 1, data |-> 2, gcmd |-> 3, pixf |-> 4,
         fill |-> 5, line |-> 6, bpas |-> 7]

Count(s, v) == Cardinality({i \in DOMAIN s : s[i] = v})

-----------------------------------------------------------------------------
(***************************************************************************)
(* Combinational signals.                                                  *)
(***************************************************************************)

Wants(c) == cs[c] \in {"FETCH", "WRITE1", "WRITE2"}
Waits(c) == cs[c] \in {"READ1", "READ2"}       \* a client's rdf_rden

Bug_NothingReserved(c) == Wants(c)

\* May c have the FIFOs: not while a write-only client has pushed the first of
\* its two beats, unless c is that client.
MayAsk(c) == Wants(c) /\ \A w \in Writers : reserved[w] => c = w

\* fifo_access names c.
Access(c) == MayAsk(c) /\ \A d \in Live : Rank[d] < Rank[c] => ~MayAsk(d)

\* The read at the head of the order is c's, as the numbers have it.
ReadOf(c) == req_valid[c] # 0 /\ req_num[c] = serviced_reads \div 2

Bug_NumbersIgnored == IF req_valid["inst"] # 0 THEN "inst"
                      ELSE IF req_valid["data"] # 0 THEN "data"
                      ELSE IF req_valid["gcmd"] # 0 THEN "gcmd" ELSE "pixf"

\* Who is given the beat that rdf_wren announces.
Reader == IF ReadOf("inst") THEN "inst"
          ELSE IF ReadOf("data") THEN "data"
          ELSE IF ReadOf("gcmd") THEN "gcmd" ELSE "pixf"

\* PixelFeeder takes whatever comes.
rdf_rden == Reader = "pixf" \/ Waits(Reader)

BeatFor(c) == rdf_wren /\ Reader = c

Plus1(n, wrap) == IF n + 1 = wrap THEN 0 ELSE n + 1

-----------------------------------------------------------------------------
(***************************************************************************)
(* The clock edge; g is the client granted, NULL when there is none.       *)
(***************************************************************************)

Takes(g, s) == g # NULL /\ cs[g] = s

fetch_issued(g) == Takes(g, "FETCH")

\* The state machines of the clients.
OnGrant == [FETCH |-> "READ1", WRITE1 |-> "WRITE2", WRITE2 |-> "IDLE"]
OnBeat  == [READ1 |-> "READ2", READ2 |-> "IDLE"]

Advance(g) ==
  cs' = [c \in Clients |->
           IF c = g THEN IF c = "pixf" THEN "IDLE" ELSE OnGrant[cs[c]]
           ELSE IF BeatFor(c) /\ Waits(c) THEN OnBeat[cs[c]] ELSE cs[c]]

CountReads(g) ==
  /\ issued_reads' = IF fetch_issued(g) THEN Plus1(issued_reads, ReadWrap)
                     ELSE issued_reads
  /\ serviced_reads' = IF rdf_wren THEN Plus1(serviced_reads, 2 * ReadWrap)
                       ELSE serviced_reads

Bug_OneBeatExpected(g) ==
  /\ req_num' = [c \in Tagged |->
       IF c = g /\ fetch_issued(g) THEN issued_reads ELSE req_num[c]]
  /\ req_valid' = [c \in Tagged |->
       IF c = g /\ fetch_issued(g) THEN 1
       ELSE IF BeatFor(c) THEN req_valid[c] - 1 ELSE req_valid[c]]

NumberReads(g) ==
  /\ req_num' = [c \in Tagged |->
       IF c = g /\ fetch_issued(g) THEN issued_reads ELSE req_num[c]]
  /\ req_valid' = [c \in Tagged |->
       IF c = g /\ fetch_issued(g) THEN 2
       ELSE IF rdf_wren /\ ReadOf(c) THEN req_valid[c] - 1 ELSE req_valid[c]]

Bug_NotReleased(g) ==
  reserved' = [w \in Writers |-> reserved[w] \/ w = g]

Reserve(g) ==
  reserved' = [w \in Writers |-> IF w = g THEN ~reserved[w] ELSE reserved[w]]

\* What enters and leaves the FIFOs.  A read enable in this cycle presents a
\* beat in the next one, if there is one.
Push(g) ==
  /\ caf' = IF Takes(g, "FETCH") THEN Append(caf, "read")
            ELSE IF Takes(g, "WRITE1") THEN Append(caf, "write") ELSE caf
  /\ wdf' = IF Takes(g, "WRITE1") THEN Append(wdf, [of |-> g, half |-> 1])
            ELSE IF Takes(g, "WRITE2") THEN Append(wdf, [of |-> g, half |-> 2])
            ELSE wdf
  /\ rdf_wren' = (rdf_rden /\ rdf > 0)
  /\ rdf' = IF rdf_rden /\ rdf > 0 THEN rdf - 1 ELSE rdf
  /\ UNCHANGED owed

ReadsLeft == IF rdf_wren /\ serviced_reads % 2 = 1 THEN Tail(reads) ELSE reads

Remember(g) ==
  /\ reads' = IF Takes(g, "FETCH") THEN Append(ReadsLeft, g) ELSE ReadsLeft
  /\ writes' = IF Takes(g, "WRITE1") THEN Append(writes, g) ELSE writes

Edge(g) ==
  Advance(g) /\ CountReads(g) /\ NumberReads(g) /\ Reserve(g) /\ Push(g) /\ Remember(g)

\* ~ff_full needs both FIFOs to have room, whichever of them is to be pushed.
FifosHaveRoom == Len(caf) < CafDepth /\ Len(wdf) < WdfDepth

Grant(c) == Access(c) /\ FifosHaveRoom /\ Edge(c)

\* Nobody asks, or the FIFOs show full, which they may while they have room:
\* their flags come from another clock.
NoGrant == Edge(NULL)

Tick == NoGrant \/ \E c \in Live : Grant(c)

-----------------------------------------------------------------------------
(***************************************************************************)
(* Clients that begin to ask.                                              *)
(***************************************************************************)

Start(c, s) ==
  /\ c \in Live /\ cs[c] = "IDLE"
  /\ cs' = [cs EXCEPT ![c] = s]
  /\ UNCHANGED <<counters, reserved, fifos, reads, writes>>

\* The CPU moves on only when neither cache stalls it, and gives both their
\* next access at one edge.  The instruction cache is written by the store
\* that the data cache may get as well (the BIOS writes both).
CpuStart ==
  /\ \A c \in Caches : cs[c] = "IDLE"
  /\ \E i, d \in {"IDLE", "FETCH", "WRITE1"} :
       /\ i = "WRITE1" => d # "FETCH"
       /\ <<i, d>> # <<"IDLE", "IDLE">>
       /\ cs' = [cs EXCEPT !["inst"] = i, !["data"] = d]
  /\ UNCHANGED <<counters, reserved, fifos, reads, writes>>

\* GraphicsProcessor asks for the next chunk of its program when DDRStage has
\* handed over the last.
GcmdStart == Start("gcmd", "FETCH")

\* PixelFeeder asks while it has credit.  Its credit "pend" is also held by the
\* pixels still in its own FIFO, here only by the reads not answered.
PixfStart == Count(reads, "pixf") < PixfCredit /\ Start("pixf", "FETCH")

WriterStart == \E w \in Writers : Start(w, "WRITE1")

(***************************************************************************)
(* The memory controller behind the FIFOs (external).                      *)
(***************************************************************************)

MigWrite ==
  /\ caf # <<>> /\ Head(caf) = "write" /\ Len(wdf) >= 2
  /\ caf' = Tail(caf)
  /\ wdf' = SubSeq(wdf, 3, Len(wdf))
  /\ writes' = Tail(writes)
  /\ UNCHANGED <<cs, counters, reserved, rdf, owed, rdf_wren, reads>>

\* The two beats of an answer need not come in consecutive cycles.
MigRead ==
  /\ IF owed = 1
     THEN owed' = 0 /\ UNCHANGED caf
     ELSE caf # <<>> /\ Head(caf) = "read" /\ caf' = Tail(caf) /\ owed' = 1
  /\ rdf' = rdf + 1
  /\ UNCHANGED <<cs, counters, reserved, wdf, rdf_wren, reads, writes>>

-----------------------------------------------------------------------------

Init ==
  /\ cs = [c \in Clients |-> "IDLE"]
  /\ issued_reads = 0 /\ serviced_reads = 0
  /\ req_num = [c \in Tagged |-> 0]
  /\ req_valid = [c \in Tagged |-> 0]
  /\ reserved = [w \in Writers |-> FALSE]
  /\ caf = <<>> /\ wdf = <<>>
  /\ rdf = 0 /\ owed = 0 /\ rdf_wren = FALSE
  /\ reads = <<>> /\ writes = <<>>

Next == \/ Tick
        \/ CpuStart \/ GcmdStart \/ PixfStart \/ WriterStart
        \/ MigWrite \/ MigRead

\* The clock runs, the full flags of FIFOs with room fall in the end, and the
\* memory serves its commands.  No client is obliged to start.
Fairness ==
  /\ WF_vars(Tick)
  /\ WF_vars(\E c \in Live : Grant(c))
  /\ WF_vars(MigWrite)
  /\ WF_vars(MigRead)

Spec == Init /\ [][Next]_vars /\ Fairness

-----------------------------------------------------------------------------

TypeOK ==
  /\ cs \in [Clients -> UNION {States[c] : c \in Clients}]
  /\ \A c \in Clients : cs[c] \in States[c]
  /\ issued_reads \in 0..(ReadWrap - 1)
  /\ serviced_reads \in 0..(2 * ReadWrap - 1)
  /\ req_num \in [Tagged -> 0..(ReadWrap - 1)]
  /\ req_valid \in [Tagged -> 0..2]
  /\ reserved \in [Writers -> BOOLEAN]
  /\ caf \in Seq({"read", "write"}) /\ Len(caf) <= CafDepth
  /\ wdf \in Seq([of : Clients, half : {1, 2}]) /\ Len(wdf) <= WdfDepth
  /\ rdf \in Nat /\ rdf <= 2 * (PixfCredit + 3) /\ owed \in {0, 1}
  /\ rdf_wren \in BOOLEAN
  /\ reads \in Seq(Readers) /\ Len(reads) <= PixfCredit + 3
  /\ writes \in Seq(Clients)

\* Every beat goes to the client that asked for it, and finds it waiting for
\* just that beat: the read whose turn it is is the Reader's, and a client with
\* a state machine is in the state that takes the first or the second beat.
\* The counters wrap, the reads of several clients are under way at once, and
\* PixelFeeder's have no number at all.
RoutedToIssuer ==
  rdf_wren =>
    /\ reads # <<>>
    /\ Reader = Head(reads)
    /\ Reader # "pixf" =>
         cs[Reader] = IF serviced_reads % 2 = 0 THEN "READ1" ELSE "READ2"

\* The data FIFO is made of pairs, each the two beats of the write whose
\* command has the same place among the commands; only the last pair may still
\* lack its second beat.  The write-only clients are protected by "reserved",
\* the caches only by their priority and by the CPU that waits for both.
WritePairs ==
  \A i \in 1..Len(wdf) :
    LET k == (i + 1) \div 2
    IN /\ k <= Len(writes)
       /\ wdf[i] = [of |-> writes[k], half |-> IF i = 2 * k THEN 2 ELSE 1]

\* A client whose request the controller took keeps its claim until the second
\* beat is there, and no claim outlives its read: a client waits for data
\* exactly while one of the unanswered reads is its own.
WaitsForItsRead ==
  \A c \in Tagged : Waits(c) <=> \E k \in 1..Len(reads) : reads[k] = c

\* No cache is starved, whatever the other clients ask for: each miss is filled
\* and each store queued.  A write of anyone whose second beat never came would
\* hold up the memory controller and so the caches.
CachesServed == \A c \in Caches : cs[c] # "IDLE" ~> cs[c] = "IDLE"

=============================================================================
