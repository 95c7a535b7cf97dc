------------------------------- MODULE Cache -------------------------------
(***************************************************************************)
(* One first-level cache of the SoC (hardware/src/base_mem/Cache.v), the   *)
(* port through which MemBank.v drives it, and an exclusive, in-order view *)
(* of the DDR2 FIFOs, which is what RequestController.v promises each      *)
(* cache (RequestController.tla checks that promise).                      *)
(*                                                                         *)
(* The cache is direct mapped, write-through and does not allocate on a    *)
(* write miss.  One Tick is one rising edge of the CPU clock: every        *)
(* register takes its next value from the combinational signals, which are *)
(* the operators without primes.  A 256-bit line is abstracted to one      *)
(* value per 128-bit half, since a half is what one beat of the data FIFOs *)
(* carries; a store writes the half its word lies in, and the byte mask of *)
(* the other half is empty.                                                *)
(***************************************************************************)
EXTENDS Naturals, Sequences, FiniteSets

CONSTANTS
  Tags,                \* address bits 27:13
  Indexes,             \* address bits 12:5, the cache rows
  Values,              \* contents of half a line
  NoTag,               \* a tag row whose valid bit is clear
  Sides,               \* subset of {"data", "inst"}: the ports of MemBank.v
  CollisionUndefined,  \* does a row read while it is rewritten return garbage
  FifoDepth            \* write commands the DDR2 FIFOs hold

ASSUME CacheAssumption ==
  /\ NoTag \notin Tags
  /\ Sides \subseteq {"data", "inst"}
  /\ CollisionUndefined \in BOOLEAN
  /\ FifoDepth \in Nat \ {0, 1}

VARIABLES
  side,        \* which port of MemBank.v drives this cache; never changes
  cs,          \* state of the cache's FSM
  hold,        \* addr_hold, re_hold, we_hold, din_hold
  P,           \* P_dcache_addr and P_dcache_re; for the instruction side the
               \* fetch that the stalled StageF keeps presenting
  tagram, dataram,        \* the two block RAMs
  tag_line_out, data_line_out,  \* their port-B output registers
  first_read, active_data_line,
  caf, wdf, rdf,  \* command, write-data and read-data FIFOs
  burst,          \* second beat of a read whose first is in rdf: 0 or 1 value
  rdf_beat,       \* rdf_wren and rdf_data as the cache sees them this cycle
  mem,            \* DDR2 contents
  golden          \* history: memory as the CPU's accepted stores leave it

ramVars == <<tagram, dataram, tag_line_out, data_line_out>>
fifoVars == <<caf, wdf, rdf, burst>>
vars == <<side, cs, hold, P, ramVars, first_read, active_data_line,
          fifoVars, rdf_beat, mem, golden>>

Halves  == 1..2                   \* half 1 travels in the first beat
Block   == [Halves -> Values]
Line    == [tag : Tags, index : Indexes]
Addr    == [tag : Tags, index : Indexes, half : Halves]
LineOf(a) == [tag |-> a.tag, index |-> a.index]

-----------------------------------------------------------------------------
(***************************************************************************)
(* Combinational signals.                                                  *)
(***************************************************************************)

\* Operators named Bug_ are mutated forms of the definition that follows
\* them; no other definition uses them.
tag_hit == tag_line_out = hold.addr.tag

Bug_HitNotWritten == FALSE
write_hit_hold == hold.we /\ tag_hit

read_miss == hold.re /\ ~tag_hit

\* ns, the next state; "full" is what the controller shows as both
\* caf_full and wdf_full.
NextState(full) ==
  CASE cs = "IDLE"    -> IF hold.we THEN "WRITE1"
                         ELSE IF read_miss THEN "FETCH" ELSE "IDLE"
    [] cs = "WRITE1"  -> IF ~full THEN "WRITE2" ELSE "WRITE1"
    [] cs = "WRITE2"  -> IF ~full THEN "IDLE"   ELSE "WRITE2"
    [] cs = "FETCH"   -> IF ~full THEN "READ1"  ELSE "FETCH"
    [] cs = "READ1"   -> IF rdf_beat.valid THEN "READ2"   ELSE "READ1"
    [] cs = "READ2"   -> IF rdf_beat.valid THEN "CWRITEB" ELSE "READ2"
    [] cs = "CWRITEB" -> "IDLE"

caf_wren == cs \in {"WRITE1", "FETCH"}
wdf_wren == cs \in {"WRITE1", "WRITE2"}

Bug_OneReadEnable == cs = "READ1"
rdf_rden == cs \in {"READ1", "READ2"}

\* Is the mask of the beat on wdf_mdat enabled: WRITE1 offers the half that
\* travels first, WRITE2 the other.
Bug_HalvesSwapped == hold.addr.half = (IF cs = "WRITE1" THEN 2 ELSE 1)
f_mask == hold.addr.half = (IF cs = "WRITE1" THEN 1 ELSE 2)

dout == (IF cs = "IDLE" THEN data_line_out ELSE active_data_line)[hold.addr.half]

\* The address MemBank drives while the CPU stalls: the data port repeats its
\* own, and the instruction port sees StageF's held fetch address or, when the
\* CPU fetches from another memory, the address of the next data access.
HeldAddress == IF side = "data" \/ P.re THEN {P.addr} ELSE Addr

\* The port while the CPU stalls.  Nothing is written, and the data port
\* repeats the read it was asked for.
StalledPort(addr) ==
  [addr |-> addr, re |-> side = "data" /\ P.re, we |-> FALSE, din |-> hold.din]

-----------------------------------------------------------------------------
(***************************************************************************)
(* The clock edge.                                                         *)
(***************************************************************************)

\* Port A writes row hold.addr.index while port B reads row port.addr.index.
\* Both are clocked by the same edge; when they meet in one row, port B
\* returns the old or the new contents, or anything at all where the
\* primitive leaves the collision undefined.
ReadRow(old, new, collide, all) ==
  IF ~collide THEN {old} ELSE IF CollisionUndefined THEN all ELSE {old, new}

BlockRams(ns, port) ==
  LET fill    == ns = "CWRITEB"
      write   == fill \/ write_hit_hold
      mem_en  == ns = "IDLE" \/ write \/ port.re
      row     == hold.addr.index
      line_in == IF fill THEN <<first_read, rdf_beat.data>>
                 ELSE [dataram[row] EXCEPT ![hold.addr.half] = hold.din]
      tags    == IF write THEN [tagram  EXCEPT ![row] = hold.addr.tag] ELSE tagram
      lines   == IF write THEN [dataram EXCEPT ![row] = line_in] ELSE dataram
      idx     == port.addr.index
      collide == write /\ idx = row
  IN /\ tagram'  = tags
     /\ dataram' = lines
     /\ IF mem_en
        THEN /\ tag_line_out' \in
                  ReadRow(tagram[idx], tags[idx], collide, Tags \union {NoTag})
             /\ data_line_out' \in
                  ReadRow(dataram[idx], lines[idx], collide, Block)
        ELSE UNCHANGED <<tag_line_out, data_line_out>>

Registers(ns, port) ==
  /\ cs' = ns
  /\ hold' = IF ns = "IDLE" THEN port ELSE hold
  /\ first_read' = IF cs = "READ1" THEN rdf_beat.data ELSE first_read
  /\ active_data_line' =
       IF cs = "IDLE" THEN data_line_out
       ELSE IF ns = "CWRITEB" THEN <<first_read, rdf_beat.data>>
       ELSE active_data_line

\* What enters and leaves the FIFOs: the controller drops the write enables
\* while it shows "full"; the read FIFO answers a read enable one cycle later.
Fifos(full) ==
  /\ caf' = IF caf_wren /\ ~full
            THEN Append(caf, [write |-> cs = "WRITE1", line |-> LineOf(hold.addr)])
            ELSE caf
  /\ wdf' = IF wdf_wren /\ ~full
            THEN Append(wdf, [enable |-> f_mask, data |-> hold.din])
            ELSE wdf
  /\ IF rdf_rden /\ rdf # <<>>
     THEN rdf' = Tail(rdf) /\ rdf_beat' = [valid |-> TRUE, data |-> Head(rdf)]
     ELSE rdf' = rdf /\ rdf_beat' = [rdf_beat EXCEPT !.valid = FALSE]

ClockEdge(full, ns, port) ==
  Registers(ns, port) /\ BlockRams(ns, port) /\ Fifos(full) /\ UNCHANGED <<side, burst, mem>>

\* A cycle in which the CPU stalls, for this cache or for the other one.
Stall(full, addr) ==
  /\ ClockEdge(full, NextState(full), StalledPort(addr))
  /\ UNCHANGED <<P, golden>>

\* A cycle in which the CPU moves on and the cache accepts its next access.
Advance(full, req) ==
  /\ NextState(full) = "IDLE"
  /\ ClockEdge(full, "IDLE", req)
  /\ P' = [addr |-> req.addr, re |-> req.re]
  /\ golden' = IF req.we
               THEN [golden EXCEPT ![LineOf(req.addr)][req.addr.half] = req.din]
               ELSE golden

FifosHaveRoom == Len(caf) < FifoDepth /\ Len(wdf) < 2 * FifoDepth

\* The data on din matters to a store only, so it is left as it was otherwise.
Read(full)  == \E a \in Addr :
                 Advance(full, [addr |-> a, re |-> TRUE, we |-> FALSE, din |-> hold.din])
Store(full) == \E a \in Addr, v \in Values :
                 Advance(full, [addr |-> a, re |-> FALSE, we |-> TRUE, din |-> v])
Other(full) == \E a \in Addr :
                 Advance(full, [addr |-> a, re |-> FALSE, we |-> FALSE, din |-> hold.din])
Stalled(full) == \E a \in HeldAddress : Stall(full, a)

CpuTick(full) ==
  /\ full \/ FifosHaveRoom
  /\ Stalled(full) \/ Read(full) \/ Store(full) \/ Other(full)

(***************************************************************************)
(* The memory controller behind the FIFOs (external): it serves commands   *)
(* in order, taking both beats of a write and answering a read with both   *)
(* halves of the line, between which time may pass.                        *)
(***************************************************************************)
MigWrite ==
  /\ caf # <<>> /\ Head(caf).write /\ Len(wdf) >= 2
  /\ mem' = [mem EXCEPT ![Head(caf).line] =
               [h \in Halves |-> IF wdf[h].enable THEN wdf[h].data ELSE @[h]]]
  /\ caf' = Tail(caf)
  /\ wdf' = SubSeq(wdf, 3, Len(wdf))
  /\ UNCHANGED <<side, cs, hold, P, ramVars, first_read, active_data_line, rdf,
                 burst, rdf_beat, golden>>

MigRead ==
  /\ IF burst # <<>>
     THEN rdf' = rdf \o burst /\ burst' = <<>> /\ UNCHANGED caf
     ELSE /\ caf # <<>> /\ ~Head(caf).write
          /\ rdf' = Append(rdf, mem[Head(caf).line][1])
          /\ burst' = <<mem[Head(caf).line][2]>>
          /\ caf' = Tail(caf)
  /\ UNCHANGED <<side, cs, hold, P, ramVars, first_read, active_data_line, wdf,
                 rdf_beat, mem, golden>>

-----------------------------------------------------------------------------

Init ==
  \E a \in Addr, b \in Block :
    /\ side \in Sides
    /\ cs = "IDLE"
    /\ hold = [addr |-> a, re |-> FALSE, we |-> FALSE, din |-> b[1]]
    /\ P = [addr |-> a, re |-> FALSE]
    /\ tagram = [i \in Indexes |-> NoTag]
    /\ dataram = [i \in Indexes |-> b]
    /\ tag_line_out = NoTag
    /\ data_line_out = b
    /\ first_read = b[1]
    /\ active_data_line = b
    /\ caf = <<>> /\ wdf = <<>> /\ rdf = <<>> /\ burst = <<>>
    /\ rdf_beat = [valid |-> FALSE, data |-> b[1]]
    /\ mem = [l \in Line |-> b]
    /\ golden = mem

Next == (\E full \in BOOLEAN : CpuTick(full)) \/ MigWrite \/ MigRead

(***************************************************************************)
(* The clock never stops, the controller grants every request in the end   *)
(* (RequestController!CachesServed), and the memory serves its commands.   *)
(***************************************************************************)
Fairness ==
  /\ WF_vars(\E full \in BOOLEAN : CpuTick(full))
  /\ SF_vars(CpuTick(FALSE))
  /\ WF_vars(MigWrite)
  /\ WF_vars(MigRead)

Spec == Init /\ [][Next]_vars /\ Fairness

-----------------------------------------------------------------------------

\* The cycles in which the cache itself lets the CPU go on.
Ready == cs = "CWRITEB" \/ (cs = "IDLE" /\ ~hold.we /\ ~read_miss)

\* The queued write commands to line l whose beat for half h has been queued
\* with its mask enabled.
WritesUpTo(i) == Cardinality({j \in 1..i : caf[j].write})
BeatOf(i, h)  == 2 * (WritesUpTo(i) - 1) + h
QueuedWrites(l, h) ==
  {i \in DOMAIN caf : /\ caf[i].write /\ caf[i].line = l
                      /\ BeatOf(i, h) \in DOMAIN wdf /\ wdf[BeatOf(i, h)].enable}

\* The other readers of the DDR2 (the graphics processor reads the programs
\* the CPU wrote) depend on this: a command queued now finds every store that
\* has left the cache, once the writes queued before it are done.
DdrMatchesStores ==
  \A l \in Line, h \in Halves :
    LET q == QueuedWrites(l, h)
        last == CHOOSE i \in q : \A j \in q : j <= i
    IN \/ golden[l][h] = IF q = {} THEN mem[l][h] ELSE wdf[BeatOf(last, h)].data
       \/ hold.we /\ LineOf(hold.addr) = l /\ hold.addr.half = h

(***************************************************************************)
(* The cache with its DDR2 is a serial memory for its CPU.                 *)
(***************************************************************************)
SM == INSTANCE SerialMemory WITH
        memory  <- golden,
        addr    <- P.addr,
        reading <- P.re,
        pending <- IF Ready THEN "none" ELSE IF hold.we THEN "store" ELSE "read",
        answer  <- IF Ready /\ P.re THEN {dout} ELSE {}

\* Every access behaves as one to a plain memory that takes accesses in
\* program order: a load never returns anything but the CPU's own latest store
\* to that half line, or the memory's first contents if there was none.
SerialMemorySpec == SM!Spec

\* Every stall of the cache ends: a miss is filled and a store is queued,
\* however long the FIFOs are full.
EveryStallEnds == cs # "IDLE" ~> cs = "IDLE"

=============================================================================
