----------------------------- MODULE PixelFeeder ----------------------------
(***************************************************************************)
(* The pixel feeder reads frames from DDR2 into a FIFO from which the      *)
(* display takes a pixel at a time.  The memory side runs on the CPU clock *)
(* and cannot hold back what it asked for; it keeps a credit counter,      *)
(* pend, of the requests whose pixels have not left the FIFO.  The display *)
(* side runs on its own clock and returns credit, two requests at a time,  *)
(* through a four-phase handshake of synchronised signals.                 *)
(*                                                                         *)
(* One action per edge of each clock.  The order of two edges stands for   *)
(* the synchroniser's choice when they fall together.                      *)
(***************************************************************************)
EXTENDS Naturals

CONSTANTS
  Beat,           \* pixels in a beat of the memory: 128 bits
  Capacity,       \* PIXFO_CAPACITY, in requests of two beats
  Startup,        \* PIXFO_STARTUP
  Target,         \* PIXFO_TARGET
  Wrap,           \* 2^13: pend has 13 bits
  FrameRequests,  \* requests that read a frame
  FrameChoices,   \* frame numbers the program selects
  MaxEdges,       \* edges of the CPU clock between two of the display's
  MaxUnderruns    \* bound: pixels the display takes from an empty FIFO

ASSUME BeatAssumption == Beat \in Nat \ {0, 1}
ASSUME SizeAssumption ==
  /\ Capacity \in Nat /\ Target \in Nat /\ Startup \in Nat /\ Wrap \in Nat
  /\ 1 < Target /\ Target < Capacity /\ Capacity < Wrap
ASSUME FrameAssumption ==
  /\ FrameRequests \in Nat \ {0} /\ MaxEdges \in Nat \ {0} /\ MaxUnderruns \in Nat

VARIABLES
  (* CPU clock *)
  state, pend, fifo_start, chunk_inc_clkCPU, chunk_ack,
  head, framebits, frame_next,
  (* display clock *)
  isRunning, count_dviread, chunk_inc, chunk_ack_clkDVI, fifo_start_clkDVI,
  curPIX,             \* curROW and curCOL
  (* between them *)
  owed,               \* beats asked of the memory and not delivered
  fifo,               \* pixels in pixel_fifo
  video_fault_cpu,    \* the FIFO was written when full
  underruns,          \* reads of an empty FIFO: video_fault_dvi is underruns > 0
  since               \* edges of the CPU clock since the last of the display's

cpuVars == <<state, pend, fifo_start, chunk_inc_clkCPU, chunk_ack,
             head, framebits, frame_next, owed, video_fault_cpu>>
dviVars == <<isRunning, count_dviread, chunk_inc, chunk_ack_clkDVI,
             fifo_start_clkDVI, curPIX, underruns>>
feederVars == <<cpuVars, dviVars, fifo, since>>

Request == 2 * Beat
Chunk == 2 * Request
FramePixels == FrameRequests * Request
Following(n, size) == IF n = size - 1 THEN 0 ELSE n + 1
-----------------------------------------------------------------------------
(* The edge of the CPU clock *)

chunk_edge == chunk_inc_clkCPU /\ ~chunk_ack

pend_next(advance) ==
  LET more == pend + (IF advance THEN 1 ELSE 0)
  IN  IF ~chunk_edge THEN more % Wrap
      ELSE IF more >= 2 THEN more - 2 ELSE (more + Wrap) - 2

Bug_BackToBack(advance) == IF pend < Target THEN "FETCH" ELSE "IDLE"
next_state(advance) == IF pend < Target /\ ~advance THEN "FETCH" ELSE "IDLE"

\* The address of the next request; the frame changes at the end of a frame.
Bug_PastTheEnd ==
  /\ head' = Following(head, FrameRequests)
  /\ framebits' = IF head = FrameRequests THEN frame_next ELSE framebits
AdvanceHead ==
  /\ head' = Following(head, FrameRequests)
  /\ framebits' = IF head = FrameRequests - 1 THEN frame_next ELSE framebits

FifoRoom == fifo + Beat <= Capacity * Request

CpuEdge(raf_full, rdf_wren, pf_wframe) ==
  /\ since < MaxEdges
  /\ rdf_wren => owed > 0
  /\ LET advance == state = "FETCH" /\ ~raf_full
     IN  /\ pend' = pend_next(advance)
         /\ state' = next_state(advance)
         /\ IF advance THEN AdvanceHead ELSE UNCHANGED <<head, framebits>>
         /\ owed' = (owed + (IF advance THEN 2 ELSE 0)) - (IF rdf_wren THEN 1 ELSE 0)
  /\ fifo_start' = (fifo_start \/ pend' > Startup)
  /\ chunk_inc_clkCPU' = chunk_inc
  /\ chunk_ack' = chunk_inc_clkCPU
  /\ frame_next' = pf_wframe
  /\ IF rdf_wren /\ FifoRoom THEN fifo' = fifo + Beat ELSE UNCHANGED fifo
  /\ video_fault_cpu' = (video_fault_cpu \/ (rdf_wren /\ ~FifoRoom))
  /\ since' = since + 1
  /\ UNCHANGED dviVars
-----------------------------------------------------------------------------
(* The edge of the display clock *)

\* The counter signals each chunk and drops the signal when it is acknowledged.
SignalChunk ==
  IF count_dviread = Chunk - 1 THEN chunk_inc' = TRUE
  ELSE chunk_inc' = (chunk_inc /\ ~chunk_ack_clkDVI)

\* The display takes the FIFO's pixel; an empty FIFO has none to give.
TakePixel ==
  IF isRunning
  THEN /\ SignalChunk
       /\ count_dviread' = Following(count_dviread, Chunk)
       /\ IF fifo > 0 THEN fifo' = fifo - 1 /\ UNCHANGED underruns
          ELSE /\ underruns < MaxUnderruns
               /\ underruns' = underruns + 1 /\ UNCHANGED fifo
  ELSE UNCHANGED <<chunk_inc, count_dviread, fifo, underruns>>

Bug_StartAtOnce == isRunning \/ fifo_start_clkDVI
StartRunning == isRunning \/ (curPIX = FramePixels - 1 /\ fifo_start_clkDVI)

DviEdge(video_ready) ==
  /\ since > 0
  /\ chunk_ack_clkDVI' = chunk_ack
  /\ fifo_start_clkDVI' = fifo_start
  /\ IF video_ready
     THEN /\ TakePixel
          /\ isRunning' = StartRunning
          /\ curPIX' = Following(curPIX, FramePixels)
     ELSE UNCHANGED <<isRunning, count_dviread, chunk_inc, curPIX, fifo, underruns>>
  /\ since' = 0
  /\ UNCHANGED cpuVars
-----------------------------------------------------------------------------
FeederInit ==
  /\ state = "IDLE" /\ pend = 0 /\ fifo_start = FALSE
  /\ chunk_inc_clkCPU = FALSE /\ chunk_ack = FALSE
  /\ head = 0 /\ framebits \in FrameChoices /\ frame_next = framebits
  /\ isRunning = FALSE /\ count_dviread = 0 /\ chunk_inc = FALSE
  /\ chunk_ack_clkDVI = FALSE /\ fifo_start_clkDVI = FALSE /\ curPIX = 0
  /\ owed = 0 /\ fifo = 0 /\ since = 0
  /\ video_fault_cpu = FALSE /\ underruns = 0

CpuClock == \E raf_full, rdf_wren \in BOOLEAN, f \in FrameChoices : CpuEdge(raf_full, rdf_wren, f)
DviClock == \E video_ready \in BOOLEAN : DviEdge(video_ready)

FeederNext == CpuClock \/ DviClock

FeederSpec == FeederInit /\ [][FeederNext]_feederVars

\* The memory serves every request, the display takes pixels and both clocks run.
Granted == state = "FETCH" /\ \E w \in BOOLEAN, f \in FrameChoices : CpuEdge(FALSE, w, f)
Delivered == \E full \in BOOLEAN, f \in FrameChoices : CpuEdge(full, TRUE, f)
FairFeederSpec ==
  /\ FeederSpec
  /\ SF_feederVars(Granted) /\ SF_feederVars(Delivered)
  /\ SF_feederVars(CpuClock) /\ SF_feederVars(DviClock) /\ SF_feederVars(DviEdge(TRUE))
-----------------------------------------------------------------------------
(* What the credit counter counts *)

\* A chunk is signalled and its credit not yet counted.
Uncounted == chunk_inc /\ ~chunk_ack

\* Each request of pend is, pixel by pixel, on its way from the memory, in the
\* FIFO, or taken and not yet given back; a pixel taken from the empty FIFO is
\* given back though nobody had asked for it.
Conservation ==
  Request * pend + underruns =
    fifo + Beat * owed + count_dviread + (IF Uncounted THEN Chunk ELSE 0)

\* As long as less than a request was lost so, the credit is right and the
\* memory, which the feeder cannot hold back, never finds the FIFO full.
CreditHolds == underruns < Request => Conservation /\ pend <= Target
NeverOverflows == underruns < Request => ~video_fault_cpu

\* The pixel at the head of the FIFO is the one of the place the display is at.
InPlace ==
  underruns = 0 =>
    ((IF isRunning THEN curPIX ELSE 0) + fifo + Beat * owed) % FramePixels
      = (head * Request) % FramePixels

\* PIXFO_STARTUP: "fake source until pixel_fifo is this full".  It does not
\* hold, since pend counts requests issued and not pixels there.
FullBeforeStart == [][~fifo_start /\ fifo_start' => fifo' > Startup * Request]_feederVars

\* PF_WAIT: a frame that stays selected becomes the one that is read.  It does
\* as long as the feeder never stops reading, that is, as long as no credit is
\* lost between the clocks.
SelectedGoesLive == \A f \in FrameChoices : <>[](frame_next = f) => <>[](framebits = f)
=============================================================================
