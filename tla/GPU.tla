--------------------------------- MODULE GPU --------------------------------
(***************************************************************************)
(* The graphics processor with its four drawing engines and the scan line  *)
(* runner that writes their rows to DDR2, all on one clock.                *)
(*                                                                         *)
(* An engine is what it does to its neighbours: it is triggered, offers    *)
(* one run of pixels after the other to the runner and becomes ready       *)
(* again.  How many runs a command takes is any number up to MaxRuns, but  *)
(* FILL takes exactly that many.  A run is written in any number of pairs  *)
(* of beats up to MaxPairs.  A captured frame shows one cycle later than in*)
(* the engines that pass the inputs of the trigger cycle on.               *)
(***************************************************************************)
EXTENDS GraphicsProcessor

CONSTANTS MaxRuns, MaxPairs

ASSUME RunAssumption == MaxRuns \in Nat \ {0} /\ MaxPairs \in Nat \ {0}

VARIABLES
  eng,       \* each engine's state, the frame it captured, runs left to offer
  slr_M,     \* cs_M of the runner
  live_SLR,  \* the engine the runner listens to
  pairs,     \* pairs of beats of the run left to write
  run        \* of the run accepted last: its command's frame, and whether it
             \* was accepted under the list now running

vars == <<gpVars, eng, slr_M, live_SLR, pairs, run>>

Engine == {"FF", "LE", "EL", "RE"}
EngineFor == [FILL |-> "FF", LINE |-> "LE", ELIP |-> "EL", RECT |-> "RE"]
Rank == [FF |-> 0, LE |-> 1, EL |-> 2, RE |-> 3]
-----------------------------------------------------------------------------
(* Combinational signals *)

Ready(e) == eng[e].cs = "IDLE"
Bug_OnlyItsOwn == hot_GOP \in Draws => Ready(EngineFor[hot_GOP])
ENGINES_ready == \A e \in Engine : Ready(e)

SLR_valid(e) == eng[e].cs = "RUN"
SLR_ready(e) == slr_M = "IDLE" /\ e = live_SLR
Accepted(e) == SLR_valid(e) /\ SLR_ready(e)

Triggered(e) == Triggers(ENGINES_ready) /\ e = EngineFor[hot_GOP]
-----------------------------------------------------------------------------
(* The edge of the clock: the engines *)

\* Where an engine goes with "left" runs to offer after the one just accepted.
\* The line engine takes one cycle to step, the ellipse engine any number, and
\* that becomes ready without the cycle in which the others are reset.
AfterRun(e, left) ==
  IF e = "LE" THEN {"NEXT"}
  ELSE IF e = "EL" THEN {"NEXT", IF left = 0 THEN "IDLE" ELSE "RUN"}
  ELSE {IF left = 0 THEN "RSET" ELSE "RUN"}

AfterNext(e, left) ==
  IF e = "EL" THEN {"NEXT", IF left = 0 THEN "IDLE" ELSE "RUN"}
  ELSE {IF left = 0 THEN "RSET" ELSE "RUN"}

Bug_FrameNotCaptured(e) ==
  {[eng[e] EXCEPT !.cs = IF e \in {"FF", "RE"} THEN "RUN" ELSE "PREP", !.left = n] :
     n \in IF e = "FF" THEN {MaxRuns} ELSE 1..MaxRuns}
Started(e) ==
  {[cs |-> IF e \in {"FF", "RE"} THEN "RUN" ELSE "PREP", framebits |-> frame_bits,
    left |-> n] : n \in IF e = "FF" THEN {MaxRuns} ELSE 1..MaxRuns}

Moves(e) ==
  CASE eng[e].cs = "RSET" -> {"IDLE"}
    [] eng[e].cs = "PREP" -> {"PREP", "RUN"}
    [] eng[e].cs = "NEXT" -> AfterNext(e, eng[e].left)
    [] eng[e].cs \in {"IDLE", "RUN"} -> {eng[e].cs}

NextOf(e) ==
  IF Triggered(e) THEN Started(e)
  ELSE IF Accepted(e)
  THEN {[eng[e] EXCEPT !.cs = s, !.left = @ - 1] : s \in AfterRun(e, eng[e].left - 1)}
  ELSE {[eng[e] EXCEPT !.cs = s] : s \in Moves(e)}

EngineEdges ==
  \E ff \in NextOf("FF"), le \in NextOf("LE"), el \in NextOf("EL"), re \in NextOf("RE") :
    eng' = [FF |-> ff, LE |-> le, EL |-> el, RE |-> re]
-----------------------------------------------------------------------------
(* The edge of the clock: the scan line runner *)

\* It changes over to another engine only while it is idle and its own has
\* nothing for it.
Arbitrate ==
  IF slr_M = "IDLE" /\ ~SLR_valid(live_SLR)
  THEN LET asking == {e \in Engine : SLR_valid(e)}
       IN  IF asking = {} THEN UNCHANGED live_SLR
           ELSE live_SLR' \in {e \in asking : \A d \in asking : Rank[e] <= Rank[d]}
  ELSE UNCHANGED live_SLR

Stalled(slr_full) == slr_M \in {"DDR1", "DDR2"} /\ slr_full
NextPairs == IF Accepted(live_SLR) THEN 1..MaxPairs
             ELSE {IF slr_M = "DDR2" THEN pairs - 1 ELSE pairs}

slr_ns_M ==
  CASE slr_M = "RSET" -> "IDLE"
    [] slr_M = "IDLE" -> IF SLR_valid(live_SLR) THEN "DDR1" ELSE "IDLE"
    [] slr_M = "DDR1" -> "DDR2"
    [] slr_M = "DDR2" -> IF pairs = 1 THEN "IDLE" ELSE "DDR1"

WriteRun(slr_full) ==
  IF Stalled(slr_full) THEN UNCHANGED <<slr_M, pairs>>
  ELSE slr_M' = slr_ns_M /\ pairs' \in NextPairs

\* History: what the run being written was accepted as.
Remember(GP_vcode) ==
  run' = IF Accepted(live_SLR) THEN [frame |-> job.frame, current |-> TRUE]
         ELSE [run EXCEPT !.current = @ /\ ~T_START(GP_vcode)]
-----------------------------------------------------------------------------
GPUEdge(GP_vcode, GP_wcode, GP_wframe, raf_full, rdf_wren, slr_full) ==
  /\ Edge(GP_vcode, GP_wcode, GP_wframe, raf_full, rdf_wren, ENGINES_ready)
  /\ EngineEdges /\ Arbitrate /\ WriteRun(slr_full) /\ Remember(GP_vcode)

GPUClock(raf_full, rdf_wren, slr_full) ==
  /\ ~raf_full => raf_wren(ENGINES_ready)
  /\ ~slr_full => slr_M \in {"DDR1", "DDR2"}
  /\ \/ GPUEdge(FALSE, 0, frame_bits, raf_full, rdf_wren, slr_full)
     \/ \E GP_wcode \in 0..(IF cs_M = "IDLE" THEN Words - 1 ELSE 0), GP_wframe \in Frames :
          GPUEdge(TRUE, GP_wcode, GP_wframe, raf_full, rdf_wren, slr_full)

GPUInit ==
  /\ Init
  /\ eng = [e \in Engine |-> [cs |-> "RSET", framebits |-> 0, left |-> 0]]
  /\ slr_M = "RSET" /\ live_SLR = "FF" /\ pairs = 0
  /\ run = [frame |-> 0, current |-> FALSE]

GPUNext == \E raf_full, rdf_wren, slr_full \in BOOLEAN : GPUClock(raf_full, rdf_wren, slr_full)

\* The clock runs, the memory grants and answers reads and takes beats in the
\* end, and the engines' own computations end.
GPUSpec == GPUInit /\ [][GPUNext]_vars
CodeRead == \E slr_full \in BOOLEAN : GPUClock(FALSE, FALSE, slr_full)
BeatRead == \E full, slr_full \in BOOLEAN : rdf_rden /\ GPUClock(full, TRUE, slr_full)
BeatTaken == \E full, wren \in BOOLEAN : GPUClock(full, wren, FALSE)
Computed(e) == eng[e].cs \in {"PREP", "NEXT"} /\ GPUNext /\ eng'[e].cs # eng[e].cs
FairGPUSpec ==
  /\ GPUSpec /\ WF_vars(GPUNext)
  /\ SF_vars(CodeRead) /\ SF_vars(BeatRead) /\ SF_vars(BeatTaken)
  /\ \A e \in Engine : SF_vars(Computed(e))
-----------------------------------------------------------------------------
Writing == slr_M \in {"DDR1", "DDR2"}
AtWork(e) == eng[e].cs \notin {"IDLE", "RSET"}

\* The engines draw one at a time ("should never be a fight"), and what is
\* drawn is the command triggered last: later commands paint over earlier ones.
InOrder ==
  \A e \in Engine : AtWork(e) =>
    /\ EngineFor[job.op] = e /\ eng[e].framebits = job.frame
    /\ \A d \in Engine \ {e} : ~AtWork(d)
    /\ Running

\* The runner takes the frame of the beats from the engine it listens to,
\* cycle by cycle; it is the frame of the run at least until the next list.
RightFrame == eng[live_SLR].framebits = run.frame
FrameWithinList == Writing /\ run.current => RightFrame

\* Every row goes to the frame of its command.  It does not hold: each engine
\* captures its frame ("FF_frame & FF_color captured", FrameFiller.v:10), but an
\* engine is ready when its last run is accepted and may be triggered by the
\* next list, in another frame, while the runner still writes that run.
FrameOfRow == Writing => RightFrame

\* GP_ready is polled to "wait until GPU/GP render operations completed".  It
\* does not hold: the runner may still be writing the last row.
ReadyMeansDrawn == cs_M = "IDLE" => ~Writing
=============================================================================
