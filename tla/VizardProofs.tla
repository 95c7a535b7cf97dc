---------------------------- MODULE VizardProofs ----------------------------
(***************************************************************************)
(* Vizard keeps the list, the frame drawn and the frame shown apart, and   *)
(* implements DoubleBuffer, for every number of pictures and of keys and   *)
(* every size of the receive queue.  Its interpreter of interrupt handlers *)
(* computes what the hardware does, for every handler, structure and width *)
(* of a byte.                                                              *)
(***************************************************************************)
EXTENDS Vizard, Interpreter, NumberLemmas

USE VizardAssumption DEF vizard_host_report_error

(* Numbers *)

\* One of the two frames is drawn, the other is shown.
LEMMA Sides ==
  ASSUME frameCounter \in Nat
  PROVE  /\ thisFrame \in Frame /\ nextFrame \in Frame
         /\ thisFrame # nextFrame
         /\ \A f \in Frame : f = thisFrame \/ f = nextFrame
         /\ Null \notin Frame
BY DEF thisFrame, nextFrame, Frame, Null

\* The two change places with every iteration.
LEMMA ChangePlaces ==
  ASSUME frameCounter \in 0..(Pictures - 1), frameCounter' = (frameCounter + 1) % Pictures
  PROVE  /\ thisFrame' = nextFrame /\ nextFrame' = thisFrame
         /\ frameCounter' \in 0..(Pictures - 1)
         /\ Earlier(frameCounter') = frameCounter
<1>1. frameCounter' = IF frameCounter + 1 = Pictures THEN 0 ELSE frameCounter + 1
  OBVIOUS
<1>2. Pictures % 2 = 0
  OBVIOUS
<1> QED
  BY <1>1, <1>2 DEF thisFrame, nextFrame, Earlier

LEMMA Numbers ==
  /\ None = Pictures /\ Torn = Pictures + 1 /\ Picture = 0..Torn
  /\ \A k \in 0..(Pictures - 1) : k \in Picture /\ k # None /\ k # Torn
  /\ None \in Picture /\ Torn \in Picture /\ None # Torn
BY DEF None, Torn, Picture


\* Where a poll that returns leaves the application.
LEMMA Returned ==
  ASSUME PollInv, polling # "no", NEW ok \in BOOLEAN, NEW pause \in BOOLEAN, PollReturns(ok, pause)
  PROVE  \/ at = "loop" /\ ok /\ pause /\ polling' = "begin" /\ at' = "loop"
         \/ at = "loop" /\ ok /\ ~pause /\ polling' = "no" /\ at' = "wait"
         \/ at = "loop" /\ ~ok /\ polling' = "no" /\ at' = "stop"
         \/ at \in {"drawn", "swapping"} /\ ok /\ polling' = "no" /\ at' = at
         \/ at = "drawn" /\ ~ok /\ polling' = "no" /\ at' = "swap"
         \/ at = "swapping" /\ ~ok /\ polling' = "no" /\ at' = "count"
BY DEF PollInv, PollReturns, Broken

\* Keys that come fill the queue at most.
LEMMA ReceivedTypes ==
  ASSUME KeyTypes
  PROVE  Received(keyboard).rx \in [data : [0..(Capacity - 1) -> 0..(Keys - 1)],
                                     head : 0..(Capacity - 1), count : 0..Capacity]
<1> DEFINE room == Capacity - rx.count
           taken == IF keyboard <= room THEN keyboard ELSE room
           slot(k) == (rx.head + rx.count + k - 1) % Capacity
           key(s) == IF \E k \in 1..taken : slot(k) = s
                     THEN (typed + (CHOOSE k \in 1..taken : slot(k) = s)) % Keys
                     ELSE rx.data[s]
<1>1. taken \in Nat /\ rx.count + taken \in 0..Capacity
  BY DEF KeyTypes
<1>2. ASSUME NEW s \in 0..(Capacity - 1)
      PROVE  key(s) \in 0..(Keys - 1)
  <2>1. CASE \E k \in 1..taken : slot(k) = s
    <3>1. (CHOOSE k \in 1..taken : slot(k) = s) \in 1..taken
      BY <2>1
    <3>2. \A n \in Nat : (typed + n) % Keys \in 0..(Keys - 1)
      BY DEF KeyTypes
    <3> QED
      BY <1>1, <2>1, <3>1, <3>2
  <2>2. CASE ~\E k \in 1..taken : slot(k) = s
    BY <2>2 DEF KeyTypes
  <2> QED
    BY <2>1, <2>2
<1>3. Received(keyboard).rx = [data |-> [s \in 0..(Capacity - 1) |-> key(s)],
                               head |-> rx.head, count |-> rx.count + taken]
  BY DEF Received
<1> HIDE DEF room, taken, slot, key
<1>4. [s \in 0..(Capacity - 1) |-> key(s)] \in [0..(Capacity - 1) -> 0..(Keys - 1)]
  BY <1>2
<1> QED
  BY <1>1, <1>3, <1>4 DEF KeyTypes

-----------------------------------------------------------------------------
LEMMA WaitBeforeKeeps == IInv /\ WaitBefore => IInv'
<1> SUFFICES ASSUME IInv, WaitBefore PROVE IInv'
  OBVIOUS
<1> USE DEF IInv, TypeOK
<1>0. /\ thisFrame \in Frame /\ nextFrame \in Frame /\ thisFrame # nextFrame
      /\ Null \notin Frame /\ \A f \in Frame : f = thisFrame \/ f = nextFrame
  BY Sides DEF AppTypes
<1>1. frameCounter' = frameCounter /\ thisFrame' = thisFrame /\ nextFrame' = nextFrame
  BY DEF WaitBefore, WaitGpu, appVars, thisFrame, nextFrame
<1>2. AppTypes'
  BY <1>0, <1>1, Numbers DEF AppTypes, WaitBefore, WaitGpu, appVars, gpuVars, showVars,
     keyVars
<1>3. HostTypes'
  BY <1>0, <1>1, Numbers DEF AppTypes, HostTypes, WaitBefore, WaitGpu, appVars, gpuVars,
     showVars, keyVars
<1>4. KeyTypes'
  BY <1>0, <1>1, Numbers DEF KeyTypes, WaitBefore, WaitGpu, appVars, gpuVars, showVars,
     keyVars
<1>5. GpuInv'
  BY <1>0, <1>1, Numbers DEF GpuInv, LoopInv, ListInv, Quiet, Settled, AppTypes,
     HostTypes, WaitBefore, WaitGpu, appVars, gpuVars, showVars, keyVars
<1>6. PollInv'
  BY <1>0, <1>1, Numbers DEF PollInv, LoopInv, GpuInv, Quiet, Failed, Settled, AppTypes,
     HostTypes, WaitBefore, WaitGpu, appVars, gpuVars, showVars, keyVars
<1>7. LoopInv'
  BY <1>0, <1>1, Numbers DEF PollInv, LoopInv, GpuInv, Quiet, Failed, Settled, AppTypes,
     HostTypes, WaitBefore, WaitGpu, appVars, gpuVars, showVars, keyVars
<1>8. ListInv'
  BY <1>0, <1>1, Numbers DEF GpuInv, LoopInv, ListInv, Settled, Quiet, AppTypes,
     HostTypes, WaitBefore, WaitGpu, appVars, gpuVars, showVars, keyVars
<1>9. PictureInv'
  BY <1>0, <1>1, Numbers DEF GpuInv, PollInv, LoopInv, ListInv, PictureInv, BeforeSwap,
     Quiet, Failed, Settled, Shows, AppTypes, HostTypes, WaitBefore, WaitGpu, appVars,
     gpuVars, showVars, keyVars
<1> QED
  BY <1>2, <1>3, <1>4, <1>5, <1>6, <1>7, <1>8, <1>9

LEMMA SetFrameKeeps == IInv /\ SetFrame => IInv'
<1> SUFFICES ASSUME IInv, SetFrame PROVE IInv'
  OBVIOUS
<1> USE DEF IInv, TypeOK
<1>0. /\ thisFrame \in Frame /\ nextFrame \in Frame /\ thisFrame # nextFrame
      /\ Null \notin Frame /\ \A f \in Frame : f = thisFrame \/ f = nextFrame
  BY Sides DEF AppTypes
<1>1. frameCounter' = frameCounter /\ thisFrame' = thisFrame /\ nextFrame' = nextFrame
  BY DEF SetFrame, Go, appVars, thisFrame, nextFrame
<1>2. AppTypes'
  BY <1>0, <1>1, Numbers DEF AppTypes, SetFrame, Go, appVars, gpuVars, showVars, keyVars
<1>3. HostTypes'
  BY <1>0, <1>1, Numbers DEF AppTypes, HostTypes, SetFrame, Go, appVars, gpuVars,
     showVars, keyVars
<1>4. KeyTypes'
  BY <1>0, <1>1, Numbers DEF KeyTypes, SetFrame, Go, appVars, gpuVars, showVars, keyVars
<1>5. GpuInv'
  BY <1>0, <1>1, Numbers DEF GpuInv, LoopInv, ListInv, Quiet, Settled, AppTypes,
     HostTypes, SetFrame, Go, appVars, gpuVars, showVars, keyVars
<1>6. PollInv'
  BY <1>0, <1>1, Numbers DEF PollInv, LoopInv, GpuInv, Quiet, Failed, Settled, AppTypes,
     HostTypes, SetFrame, Go, appVars, gpuVars, showVars, keyVars
<1>7. LoopInv'
  BY <1>0, <1>1, Numbers DEF PollInv, LoopInv, GpuInv, Quiet, Failed, Settled, AppTypes,
     HostTypes, SetFrame, Go, appVars, gpuVars, showVars, keyVars
<1>8. ListInv'
  BY <1>0, <1>1, Numbers DEF GpuInv, LoopInv, ListInv, Settled, Quiet, AppTypes,
     HostTypes, SetFrame, Go, appVars, gpuVars, showVars, keyVars
<1>9. PictureInv'
  BY <1>0, <1>1, Numbers DEF GpuInv, PollInv, LoopInv, ListInv, PictureInv, BeforeSwap,
     Quiet, Failed, Settled, Shows, AppTypes, HostTypes, SetFrame, Go, appVars, gpuVars,
     showVars, keyVars
<1> QED
  BY <1>2, <1>3, <1>4, <1>5, <1>6, <1>7, <1>8, <1>9

LEMMA LaunchKeeps == IInv /\ Launch => IInv'
<1> SUFFICES ASSUME IInv, Launch PROVE IInv'
  OBVIOUS
<1> USE DEF IInv, TypeOK
<1>0. /\ thisFrame \in Frame /\ nextFrame \in Frame /\ thisFrame # nextFrame
      /\ Null \notin Frame /\ \A f \in Frame : f = thisFrame \/ f = nextFrame
  BY Sides DEF AppTypes
<1>1. frameCounter' = frameCounter /\ thisFrame' = thisFrame /\ nextFrame' = nextFrame
  BY DEF Launch, Go, appVars, thisFrame, nextFrame
<1>2. AppTypes'
  BY <1>0, <1>1, Numbers DEF AppTypes, Launch, Go, appVars, gpuVars, showVars, keyVars
<1>3. HostTypes'
  BY <1>0, <1>1, Numbers DEF AppTypes, HostTypes, Launch, Go, appVars, gpuVars,
     showVars, keyVars
<1>4. KeyTypes'
  BY <1>0, <1>1, Numbers DEF KeyTypes, Launch, Go, appVars, gpuVars, showVars, keyVars
<1>5. GpuInv'
  BY <1>0, <1>1, Numbers DEF GpuInv, LoopInv, ListInv, Quiet, Settled, AppTypes,
     HostTypes, Launch, Go, appVars, gpuVars, showVars, keyVars
<1>6. PollInv'
  BY <1>0, <1>1, Numbers DEF PollInv, LoopInv, GpuInv, Quiet, Failed, Settled, AppTypes,
     HostTypes, Launch, Go, appVars, gpuVars, showVars, keyVars
<1>7. LoopInv'
  BY <1>0, <1>1, Numbers DEF PollInv, LoopInv, GpuInv, Quiet, Failed, Settled, AppTypes,
     HostTypes, Launch, Go, appVars, gpuVars, showVars, keyVars
<1>8. ListInv'
  BY <1>0, <1>1, Numbers DEF GpuInv, LoopInv, ListInv, Settled, Quiet, AppTypes,
     HostTypes, Launch, Go, appVars, gpuVars, showVars, keyVars
<1>9. PictureInv'
  BY <1>0, <1>1, Numbers DEF GpuInv, PollInv, LoopInv, ListInv, PictureInv, BeforeSwap,
     Quiet, Failed, Settled, Shows, AppTypes, HostTypes, Launch, Go, appVars, gpuVars,
     showVars, keyVars
<1> QED
  BY <1>2, <1>3, <1>4, <1>5, <1>6, <1>7, <1>8, <1>9

LEMMA GenerateKeeps == IInv /\ Generate => IInv'
<1> SUFFICES ASSUME IInv, Generate PROVE IInv'
  OBVIOUS
<1> USE DEF IInv, TypeOK
<1>0. /\ thisFrame \in Frame /\ nextFrame \in Frame /\ thisFrame # nextFrame
      /\ Null \notin Frame /\ \A f \in Frame : f = thisFrame \/ f = nextFrame
  BY Sides DEF AppTypes
<1>1. frameCounter' = frameCounter /\ thisFrame' = thisFrame /\ nextFrame' = nextFrame
  BY DEF Generate, Go, appVars, thisFrame, nextFrame
<1>2. AppTypes'
  BY <1>0, <1>1, Numbers DEF AppTypes, Generate, Go, appVars, gpuVars, showVars, keyVars
<1>3. HostTypes'
  BY <1>0, <1>1, Numbers DEF AppTypes, HostTypes, Generate, Go, appVars, gpuVars,
     showVars, keyVars
<1>4. KeyTypes'
  BY <1>0, <1>1, Numbers DEF KeyTypes, Generate, Go, appVars, gpuVars, showVars, keyVars
<1>5. GpuInv'
  BY <1>0, <1>1, Numbers DEF GpuInv, LoopInv, ListInv, Quiet, Settled, AppTypes,
     HostTypes, Generate, Go, appVars, gpuVars, showVars, keyVars
<1>6. PollInv'
  BY <1>0, <1>1, Numbers DEF PollInv, LoopInv, GpuInv, Quiet, Failed, Settled, AppTypes,
     HostTypes, Generate, Go, appVars, gpuVars, showVars, keyVars
<1>7. LoopInv'
  BY <1>0, <1>1, Numbers DEF PollInv, LoopInv, GpuInv, Quiet, Failed, Settled, AppTypes,
     HostTypes, Generate, Go, appVars, gpuVars, showVars, keyVars
<1>8. ListInv'
  BY <1>0, <1>1, Numbers DEF GpuInv, LoopInv, ListInv, Settled, Quiet, AppTypes,
     HostTypes, Generate, Go, appVars, gpuVars, showVars, keyVars
<1>9. PictureInv'
  BY <1>0, <1>1, Numbers DEF GpuInv, PollInv, LoopInv, ListInv, PictureInv, BeforeSwap,
     Quiet, Failed, Settled, Shows, AppTypes, HostTypes, Generate, Go, appVars, gpuVars,
     showVars, keyVars
<1> QED
  BY <1>2, <1>3, <1>4, <1>5, <1>6, <1>7, <1>8, <1>9

LEMMA GeneratedKeeps == IInv /\ Generated => IInv'
<1> SUFFICES ASSUME IInv, Generated PROVE IInv'
  OBVIOUS
<1> USE DEF IInv, TypeOK
<1>0. /\ thisFrame \in Frame /\ nextFrame \in Frame /\ thisFrame # nextFrame
      /\ Null \notin Frame /\ \A f \in Frame : f = thisFrame \/ f = nextFrame
  BY Sides DEF AppTypes
<1>1. frameCounter' = frameCounter /\ thisFrame' = thisFrame /\ nextFrame' = nextFrame
  BY DEF Generated, Go, appVars, thisFrame, nextFrame
<1>2. AppTypes'
  BY <1>0, <1>1, Numbers DEF AppTypes, Generated, Go, appVars, gpuVars, showVars,
     keyVars
<1>3. HostTypes'
  BY <1>0, <1>1, Numbers DEF AppTypes, HostTypes, Generated, Go, appVars, gpuVars,
     showVars, keyVars
<1>4. KeyTypes'
  BY <1>0, <1>1, Numbers DEF KeyTypes, Generated, Go, appVars, gpuVars, showVars,
     keyVars
<1>5. GpuInv'
  BY <1>0, <1>1, Numbers DEF GpuInv, LoopInv, ListInv, Quiet, Settled, AppTypes,
     HostTypes, Generated, Go, appVars, gpuVars, showVars, keyVars
<1>6. PollInv'
  BY <1>0, <1>1, Numbers DEF PollInv, LoopInv, GpuInv, Quiet, Failed, Settled, AppTypes,
     HostTypes, Generated, Go, appVars, gpuVars, showVars, keyVars
<1>7. LoopInv'
  BY <1>0, <1>1, Numbers DEF PollInv, LoopInv, GpuInv, Quiet, Failed, Settled, AppTypes,
     HostTypes, Generated, Go, appVars, gpuVars, showVars, keyVars
<1>8. ListInv'
  BY <1>0, <1>1, Numbers DEF GpuInv, LoopInv, ListInv, Settled, Quiet, AppTypes,
     HostTypes, Generated, Go, appVars, gpuVars, showVars, keyVars
<1>9. PictureInv'
  BY <1>0, <1>1, Numbers DEF GpuInv, PollInv, LoopInv, ListInv, PictureInv, BeforeSwap,
     Quiet, Failed, Settled, Shows, AppTypes, HostTypes, Generated, Go, appVars, gpuVars,
     showVars, keyVars
<1> QED
  BY <1>2, <1>3, <1>4, <1>5, <1>6, <1>7, <1>8, <1>9

LEMMA WaitDrawnKeeps == IInv /\ WaitDrawn => IInv'
<1> SUFFICES ASSUME IInv, WaitDrawn PROVE IInv'
  OBVIOUS
<1> USE DEF IInv, TypeOK
<1>0. /\ thisFrame \in Frame /\ nextFrame \in Frame /\ thisFrame # nextFrame
      /\ Null \notin Frame /\ \A f \in Frame : f = thisFrame \/ f = nextFrame
  BY Sides DEF AppTypes
<1>1. frameCounter' = frameCounter /\ thisFrame' = thisFrame /\ nextFrame' = nextFrame
  BY DEF WaitDrawn, WaitGpu, appVars, thisFrame, nextFrame
<1>2. AppTypes'
  BY <1>0, <1>1, Numbers DEF AppTypes, WaitDrawn, WaitGpu, appVars, gpuVars, showVars,
     keyVars
<1>3. HostTypes'
  BY <1>0, <1>1, Numbers DEF AppTypes, HostTypes, WaitDrawn, WaitGpu, appVars, gpuVars,
     showVars, keyVars
<1>4. KeyTypes'
  BY <1>0, <1>1, Numbers DEF KeyTypes, WaitDrawn, WaitGpu, appVars, gpuVars, showVars,
     keyVars
<1>5. GpuInv'
  BY <1>0, <1>1, Numbers DEF GpuInv, LoopInv, ListInv, Quiet, Settled, AppTypes,
     HostTypes, WaitDrawn, WaitGpu, appVars, gpuVars, showVars, keyVars
<1>6. PollInv'
  BY <1>0, <1>1, Numbers DEF PollInv, LoopInv, GpuInv, Quiet, Failed, Settled, AppTypes,
     HostTypes, WaitDrawn, WaitGpu, appVars, gpuVars, showVars, keyVars
<1>7. LoopInv'
  BY <1>0, <1>1, Numbers DEF PollInv, LoopInv, GpuInv, Quiet, Failed, Settled, AppTypes,
     HostTypes, WaitDrawn, WaitGpu, appVars, gpuVars, showVars, keyVars
<1>8. ListInv'
  BY <1>0, <1>1, Numbers DEF GpuInv, LoopInv, ListInv, Settled, Quiet, AppTypes,
     HostTypes, WaitDrawn, WaitGpu, appVars, gpuVars, showVars, keyVars
<1>9. PictureInv'
  BY <1>0, <1>1, Numbers DEF GpuInv, PollInv, LoopInv, ListInv, PictureInv, BeforeSwap,
     Quiet, Failed, Settled, Shows, AppTypes, HostTypes, WaitDrawn, WaitGpu, appVars,
     gpuVars, showVars, keyVars
<1> QED
  BY <1>2, <1>3, <1>4, <1>5, <1>6, <1>7, <1>8, <1>9

LEMMA SwapFrameKeeps == IInv /\ SwapFrame => IInv'
<1> SUFFICES ASSUME IInv, SwapFrame PROVE IInv'
  OBVIOUS
<1> USE DEF IInv, TypeOK
<1>0. /\ thisFrame \in Frame /\ nextFrame \in Frame /\ thisFrame # nextFrame
      /\ Null \notin Frame /\ \A f \in Frame : f = thisFrame \/ f = nextFrame
  BY Sides DEF AppTypes
<1>1. frameCounter' = frameCounter /\ thisFrame' = thisFrame /\ nextFrame' = nextFrame
  BY DEF SwapFrame, Go, appVars, thisFrame, nextFrame
<1>2. AppTypes'
  BY <1>0, <1>1, Numbers DEF AppTypes, SwapFrame, Go, appVars, gpuVars, showVars,
     keyVars
<1>3. HostTypes'
  BY <1>0, <1>1, Numbers DEF AppTypes, HostTypes, SwapFrame, Go, appVars, gpuVars,
     showVars, keyVars
<1>4. KeyTypes'
  BY <1>0, <1>1, Numbers DEF KeyTypes, SwapFrame, Go, appVars, gpuVars, showVars,
     keyVars
<1>5. GpuInv'
  BY <1>0, <1>1, Numbers DEF GpuInv, LoopInv, ListInv, Quiet, Settled, AppTypes,
     HostTypes, SwapFrame, Go, appVars, gpuVars, showVars, keyVars
<1>6. PollInv'
  BY <1>0, <1>1, Numbers DEF PollInv, LoopInv, GpuInv, Quiet, Failed, Settled, AppTypes,
     HostTypes, SwapFrame, Go, appVars, gpuVars, showVars, keyVars
<1>7. LoopInv'
  BY <1>0, <1>1, Numbers DEF PollInv, LoopInv, GpuInv, Quiet, Failed, Settled, AppTypes,
     HostTypes, SwapFrame, Go, appVars, gpuVars, showVars, keyVars
<1>8. ListInv'
  BY <1>0, <1>1, Numbers DEF GpuInv, LoopInv, ListInv, Settled, Quiet, AppTypes,
     HostTypes, SwapFrame, Go, appVars, gpuVars, showVars, keyVars
<1>9. PictureInv'
  BY <1>0, <1>1, Numbers DEF GpuInv, PollInv, LoopInv, ListInv, PictureInv, BeforeSwap,
     Quiet, Failed, Settled, Shows, AppTypes, HostTypes, SwapFrame, Go, appVars, gpuVars,
     showVars, keyVars
<1> QED
  BY <1>2, <1>3, <1>4, <1>5, <1>6, <1>7, <1>8, <1>9

LEMMA WaitSwapKeeps == IInv /\ WaitSwap => IInv'
<1> SUFFICES ASSUME IInv, WaitSwap PROVE IInv'
  OBVIOUS
<1> USE DEF IInv, TypeOK
<1>0. /\ thisFrame \in Frame /\ nextFrame \in Frame /\ thisFrame # nextFrame
      /\ Null \notin Frame /\ \A f \in Frame : f = thisFrame \/ f = nextFrame
  BY Sides DEF AppTypes
<1>1. frameCounter' = frameCounter /\ thisFrame' = thisFrame /\ nextFrame' = nextFrame
  BY DEF WaitSwap, appVars, thisFrame, nextFrame
<1>2. AppTypes'
  BY <1>0, <1>1, Numbers DEF AppTypes, WaitSwap, appVars, gpuVars, showVars, keyVars
<1>3. HostTypes'
  BY <1>0, <1>1, Numbers DEF AppTypes, HostTypes, WaitSwap, appVars, gpuVars, showVars,
     keyVars
<1>4. KeyTypes'
  BY <1>0, <1>1, Numbers DEF KeyTypes, WaitSwap, appVars, gpuVars, showVars, keyVars
<1>5. GpuInv'
  BY <1>0, <1>1, Numbers DEF GpuInv, LoopInv, ListInv, Quiet, Settled, AppTypes,
     HostTypes, WaitSwap, appVars, gpuVars, showVars, keyVars
<1>6. PollInv'
  BY <1>0, <1>1, Numbers DEF PollInv, LoopInv, GpuInv, Quiet, Failed, Settled, AppTypes,
     HostTypes, WaitSwap, appVars, gpuVars, showVars, keyVars
<1>7. LoopInv'
  BY <1>0, <1>1, Numbers DEF PollInv, LoopInv, GpuInv, Quiet, Failed, Settled, AppTypes,
     HostTypes, WaitSwap, appVars, gpuVars, showVars, keyVars
<1>8. ListInv'
  BY <1>0, <1>1, Numbers DEF GpuInv, LoopInv, ListInv, Settled, Quiet, AppTypes,
     HostTypes, WaitSwap, appVars, gpuVars, showVars, keyVars
<1>9. PictureInv'
  BY <1>0, <1>1, Numbers DEF GpuInv, PollInv, LoopInv, ListInv, PictureInv, BeforeSwap,
     Quiet, Failed, Settled, Shows, AppTypes, HostTypes, WaitSwap, appVars, gpuVars,
     showVars, keyVars
<1> QED
  BY <1>2, <1>3, <1>4, <1>5, <1>6, <1>7, <1>8, <1>9

LEMMA CountFrameKeeps == IInv /\ CountFrame => IInv'
<1> SUFFICES ASSUME IInv, CountFrame PROVE IInv'
  OBVIOUS
<1> USE DEF IInv, TypeOK
<1>0. /\ thisFrame \in Frame /\ nextFrame \in Frame /\ thisFrame # nextFrame
      /\ Null \notin Frame /\ \A f \in Frame : f = thisFrame \/ f = nextFrame
  BY Sides DEF AppTypes
<1>1. /\ frameCounter' = (frameCounter + 1) % Pictures /\ frameCounter' \in 0..(Pictures - 1)
      /\ thisFrame' = nextFrame /\ nextFrame' = thisFrame /\ Earlier(frameCounter') = frameCounter
  BY ChangePlaces DEF CountFrame, AppTypes
<1>2. AppTypes'
  BY <1>0, <1>1, Numbers DEF AppTypes, CountFrame, appVars, gpuVars, showVars, keyVars
<1>3. HostTypes'
  BY <1>0, <1>1, Numbers DEF AppTypes, HostTypes, CountFrame, appVars, gpuVars,
     showVars, keyVars
<1>4. KeyTypes'
  BY <1>0, <1>1, Numbers DEF KeyTypes, CountFrame, appVars, gpuVars, showVars, keyVars
<1>5. GpuInv'
  BY <1>0, <1>1, Numbers DEF GpuInv, LoopInv, ListInv, Quiet, Settled, AppTypes,
     HostTypes, CountFrame, appVars, gpuVars, showVars, keyVars
<1>6. PollInv'
  BY <1>0, <1>1, Numbers DEF PollInv, LoopInv, GpuInv, Quiet, Failed, Settled, AppTypes,
     HostTypes, CountFrame, appVars, gpuVars, showVars, keyVars
<1>7. LoopInv'
  BY <1>0, <1>1, Numbers DEF PollInv, LoopInv, GpuInv, Quiet, Failed, Settled, AppTypes,
     HostTypes, CountFrame, appVars, gpuVars, showVars, keyVars
<1>8. ListInv'
  BY <1>0, <1>1, Numbers DEF GpuInv, LoopInv, ListInv, Settled, Quiet, AppTypes,
     HostTypes, CountFrame, appVars, gpuVars, showVars, keyVars
<1>9. PictureInv'
  BY <1>0, <1>1, Numbers DEF GpuInv, PollInv, LoopInv, ListInv, PictureInv, BeforeSwap,
     Quiet, Failed, Settled, Shows, AppTypes, HostTypes, CountFrame, appVars, gpuVars,
     showVars, keyVars
<1> QED
  BY <1>2, <1>3, <1>4, <1>5, <1>6, <1>7, <1>8, <1>9

LEMMA StopKeeps == IInv /\ Stop => IInv'
<1> SUFFICES ASSUME IInv, Stop PROVE IInv'
  OBVIOUS
<1> USE DEF IInv, TypeOK
<1>0. /\ thisFrame \in Frame /\ nextFrame \in Frame /\ thisFrame # nextFrame
      /\ Null \notin Frame /\ \A f \in Frame : f = thisFrame \/ f = nextFrame
  BY Sides DEF AppTypes
<1>1. frameCounter' = frameCounter /\ thisFrame' = thisFrame /\ nextFrame' = nextFrame
  BY DEF Stop, Go, appVars, thisFrame, nextFrame
<1>2. AppTypes'
  BY <1>0, <1>1, Numbers DEF AppTypes, Stop, Go, appVars, gpuVars, showVars, keyVars
<1>3. HostTypes'
  BY <1>0, <1>1, Numbers DEF AppTypes, HostTypes, Stop, Go, appVars, gpuVars, showVars,
     keyVars
<1>4. KeyTypes'
  BY <1>0, <1>1, Numbers DEF KeyTypes, Stop, Go, appVars, gpuVars, showVars, keyVars
<1>5. GpuInv'
  BY <1>0, <1>1, Numbers DEF GpuInv, LoopInv, ListInv, Quiet, Settled, AppTypes,
     HostTypes, Stop, Go, appVars, gpuVars, showVars, keyVars
<1>6. PollInv'
  BY <1>0, <1>1, Numbers DEF PollInv, LoopInv, GpuInv, Quiet, Failed, Settled, AppTypes,
     HostTypes, Stop, Go, appVars, gpuVars, showVars, keyVars
<1>7. LoopInv'
  BY <1>0, <1>1, Numbers DEF PollInv, LoopInv, GpuInv, Quiet, Failed, Settled, AppTypes,
     HostTypes, Stop, Go, appVars, gpuVars, showVars, keyVars
<1>8. ListInv'
  BY <1>0, <1>1, Numbers DEF GpuInv, LoopInv, ListInv, Settled, Quiet, AppTypes,
     HostTypes, Stop, Go, appVars, gpuVars, showVars, keyVars
<1>9. PictureInv'
  BY <1>0, <1>1, Numbers DEF GpuInv, PollInv, LoopInv, ListInv, PictureInv, BeforeSwap,
     Quiet, Failed, Settled, Shows, AppTypes, HostTypes, Stop, Go, appVars, gpuVars,
     showVars, keyVars
<1> QED
  BY <1>2, <1>3, <1>4, <1>5, <1>6, <1>7, <1>8, <1>9

LEMMA JoinKeeps == IInv /\ Join => IInv'
<1> SUFFICES ASSUME IInv, Join PROVE IInv'
  OBVIOUS
<1> USE DEF IInv, TypeOK
<1>0. /\ thisFrame \in Frame /\ nextFrame \in Frame /\ thisFrame # nextFrame
      /\ Null \notin Frame /\ \A f \in Frame : f = thisFrame \/ f = nextFrame
  BY Sides DEF AppTypes
<1>1. frameCounter' = frameCounter /\ thisFrame' = thisFrame /\ nextFrame' = nextFrame
  BY DEF Join, Go, appVars, thisFrame, nextFrame
<1>2. AppTypes'
  BY <1>0, <1>1, Numbers DEF AppTypes, Join, Go, appVars, gpuVars, showVars, keyVars
<1>3. HostTypes'
  BY <1>0, <1>1, Numbers DEF AppTypes, HostTypes, Join, Go, appVars, gpuVars, showVars,
     keyVars
<1>4. KeyTypes'
  BY <1>0, <1>1, Numbers DEF KeyTypes, Join, Go, appVars, gpuVars, showVars, keyVars
<1>5. GpuInv'
  BY <1>0, <1>1, Numbers DEF GpuInv, LoopInv, ListInv, Quiet, Settled, AppTypes,
     HostTypes, Join, Go, appVars, gpuVars, showVars, keyVars
<1>6. PollInv'
  BY <1>0, <1>1, Numbers DEF PollInv, LoopInv, GpuInv, Quiet, Failed, Settled, AppTypes,
     HostTypes, Join, Go, appVars, gpuVars, showVars, keyVars
<1>7. LoopInv'
  BY <1>0, <1>1, Numbers DEF PollInv, LoopInv, GpuInv, Quiet, Failed, Settled, AppTypes,
     HostTypes, Join, Go, appVars, gpuVars, showVars, keyVars
<1>8. ListInv'
  BY <1>0, <1>1, Numbers DEF GpuInv, LoopInv, ListInv, Settled, Quiet, AppTypes,
     HostTypes, Join, Go, appVars, gpuVars, showVars, keyVars
<1>9. PictureInv'
  BY <1>0, <1>1, Numbers DEF GpuInv, PollInv, LoopInv, ListInv, PictureInv, BeforeSwap,
     Quiet, Failed, Settled, Shows, AppTypes, HostTypes, Join, Go, appVars, gpuVars,
     showVars, keyVars
<1> QED
  BY <1>2, <1>3, <1>4, <1>5, <1>6, <1>7, <1>8, <1>9

LEMMA GpuLookKeeps == IInv /\ GpuLook => IInv'
<1> SUFFICES ASSUME IInv, GpuLook PROVE IInv'
  OBVIOUS
<1> USE DEF IInv, TypeOK
<1>0. /\ thisFrame \in Frame /\ nextFrame \in Frame /\ thisFrame # nextFrame
      /\ Null \notin Frame /\ \A f \in Frame : f = thisFrame \/ f = nextFrame
  BY Sides DEF AppTypes
<1>1. frameCounter' = frameCounter /\ thisFrame' = thisFrame /\ nextFrame' = nextFrame
  BY DEF GpuLook, appVars, thisFrame, nextFrame
<1>2. AppTypes'
  BY <1>0, <1>1, Numbers DEF AppTypes, GpuLook, appVars, gpuVars, showVars, keyVars
<1>3. HostTypes'
  BY <1>0, <1>1, Numbers DEF AppTypes, HostTypes, GpuLook, appVars, gpuVars, showVars,
     keyVars
<1>4. KeyTypes'
  BY <1>0, <1>1, Numbers DEF KeyTypes, GpuLook, appVars, gpuVars, showVars, keyVars
<1>5. GpuInv'
  BY <1>0, <1>1, Numbers DEF GpuInv, LoopInv, ListInv, Quiet, Settled, AppTypes,
     HostTypes, GpuLook, appVars, gpuVars, showVars, keyVars
<1>6. PollInv'
  BY <1>0, <1>1, Numbers DEF PollInv, LoopInv, GpuInv, Quiet, Failed, Settled, AppTypes,
     HostTypes, GpuLook, appVars, gpuVars, showVars, keyVars
<1>7. LoopInv'
  BY <1>0, <1>1, Numbers DEF PollInv, LoopInv, GpuInv, Quiet, Failed, Settled, AppTypes,
     HostTypes, GpuLook, appVars, gpuVars, showVars, keyVars
<1>8. ListInv'
  BY <1>0, <1>1, Numbers DEF GpuInv, LoopInv, ListInv, Settled, Quiet, AppTypes,
     HostTypes, GpuLook, appVars, gpuVars, showVars, keyVars
<1>9. PictureInv'
  BY <1>0, <1>1, Numbers DEF GpuInv, PollInv, LoopInv, ListInv, PictureInv, BeforeSwap,
     Quiet, Failed, Settled, Shows, AppTypes, HostTypes, GpuLook, appVars, gpuVars,
     showVars, keyVars
<1> QED
  BY <1>2, <1>3, <1>4, <1>5, <1>6, <1>7, <1>8, <1>9

LEMMA GpuCountKeeps == IInv /\ GpuCount => IInv'
<1> SUFFICES ASSUME IInv, GpuCount PROVE IInv'
  OBVIOUS
<1> USE DEF IInv, TypeOK
<1>0. /\ thisFrame \in Frame /\ nextFrame \in Frame /\ thisFrame # nextFrame
      /\ Null \notin Frame /\ \A f \in Frame : f = thisFrame \/ f = nextFrame
  BY Sides DEF AppTypes
<1>1. frameCounter' = frameCounter /\ thisFrame' = thisFrame /\ nextFrame' = nextFrame
  BY DEF GpuCount, appVars, thisFrame, nextFrame
<1>2. AppTypes'
  BY <1>0, <1>1, Numbers DEF AppTypes, GpuCount, appVars, gpuVars, showVars, keyVars
<1>3. HostTypes'
  BY <1>0, <1>1, Numbers DEF AppTypes, HostTypes, GpuCount, appVars, gpuVars, showVars,
     keyVars
<1>4. KeyTypes'
  BY <1>0, <1>1, Numbers DEF KeyTypes, GpuCount, appVars, gpuVars, showVars, keyVars
<1>5. GpuInv'
  BY <1>0, <1>1, Numbers DEF GpuInv, LoopInv, ListInv, Quiet, Settled, AppTypes,
     HostTypes, GpuCount, appVars, gpuVars, showVars, keyVars
<1>6. PollInv'
  BY <1>0, <1>1, Numbers DEF PollInv, LoopInv, GpuInv, Quiet, Failed, Settled, AppTypes,
     HostTypes, GpuCount, appVars, gpuVars, showVars, keyVars
<1>7. LoopInv'
  BY <1>0, <1>1, Numbers DEF PollInv, LoopInv, GpuInv, Quiet, Failed, Settled, AppTypes,
     HostTypes, GpuCount, appVars, gpuVars, showVars, keyVars
<1>8. ListInv'
  BY <1>0, <1>1, Numbers DEF GpuInv, LoopInv, ListInv, Settled, Quiet, AppTypes,
     HostTypes, GpuCount, appVars, gpuVars, showVars, keyVars
<1>9. PictureInv'
  BY <1>0, <1>1, Numbers DEF GpuInv, PollInv, LoopInv, ListInv, PictureInv, BeforeSwap,
     Quiet, Failed, Settled, Shows, AppTypes, HostTypes, GpuCount, appVars, gpuVars,
     showVars, keyVars
<1> QED
  BY <1>2, <1>3, <1>4, <1>5, <1>6, <1>7, <1>8, <1>9

LEMMA GpuSubmitKeeps == IInv /\ GpuSubmit => IInv'
<1> SUFFICES ASSUME IInv, GpuSubmit PROVE IInv'
  OBVIOUS
<1> USE DEF IInv, TypeOK
<1>0. /\ thisFrame \in Frame /\ nextFrame \in Frame /\ thisFrame # nextFrame
      /\ Null \notin Frame /\ \A f \in Frame : f = thisFrame \/ f = nextFrame
  BY Sides DEF AppTypes
<1>1. frameCounter' = frameCounter /\ thisFrame' = thisFrame /\ nextFrame' = nextFrame
  BY DEF GpuSubmit, appVars, thisFrame, nextFrame
<1>2. AppTypes'
  BY <1>0, <1>1, Numbers DEF AppTypes, GpuSubmit, appVars, gpuVars, showVars, keyVars
<1>3. HostTypes'
  BY <1>0, <1>1, Numbers DEF AppTypes, HostTypes, GpuSubmit, appVars, gpuVars, showVars,
     keyVars
<1>4. KeyTypes'
  BY <1>0, <1>1, Numbers DEF KeyTypes, GpuSubmit, appVars, gpuVars, showVars, keyVars
<1>5. GpuInv'
  BY <1>0, <1>1, Numbers DEF GpuInv, LoopInv, ListInv, Quiet, Settled, AppTypes,
     HostTypes, GpuSubmit, appVars, gpuVars, showVars, keyVars
<1>6. PollInv'
  BY <1>0, <1>1, Numbers DEF PollInv, LoopInv, GpuInv, Quiet, Failed, Settled, AppTypes,
     HostTypes, GpuSubmit, appVars, gpuVars, showVars, keyVars
<1>7. LoopInv'
  BY <1>0, <1>1, Numbers DEF PollInv, LoopInv, GpuInv, Quiet, Failed, Settled, AppTypes,
     HostTypes, GpuSubmit, appVars, gpuVars, showVars, keyVars
<1>8. ListInv'
  BY <1>0, <1>1, Numbers DEF GpuInv, LoopInv, ListInv, Settled, Quiet, AppTypes,
     HostTypes, GpuSubmit, appVars, gpuVars, showVars, keyVars
<1>9. PictureInv'
  BY <1>0, <1>1, Numbers DEF GpuInv, PollInv, LoopInv, ListInv, PictureInv, BeforeSwap,
     Quiet, Failed, Settled, Shows, AppTypes, HostTypes, GpuSubmit, appVars, gpuVars,
     showVars, keyVars
<1> QED
  BY <1>2, <1>3, <1>4, <1>5, <1>6, <1>7, <1>8, <1>9

LEMMA GpuDrawnKeeps == IInv /\ GpuDrawn => IInv'
<1> SUFFICES ASSUME IInv, GpuDrawn PROVE IInv'
  OBVIOUS
<1> USE DEF IInv, TypeOK
<1>0. /\ thisFrame \in Frame /\ nextFrame \in Frame /\ thisFrame # nextFrame
      /\ Null \notin Frame /\ \A f \in Frame : f = thisFrame \/ f = nextFrame
  BY Sides DEF AppTypes
<1>1. frameCounter' = frameCounter /\ thisFrame' = thisFrame /\ nextFrame' = nextFrame
  BY DEF GpuDrawn, appVars, thisFrame, nextFrame
<1>2. words \in Frame /\ target = words /\ target # pf_frame
  BY DEF GpuDrawn, GpuInv, AppTypes, Quiet
<1>3. AppTypes'
  BY <1>0, <1>1, Numbers DEF AppTypes, GpuDrawn, appVars, gpuVars, showVars, keyVars
<1>4. HostTypes'
  <2>1. tails[words] \in Picture /\ frames' \in [Frame -> Picture]
    BY <1>2 DEF GpuDrawn, AppTypes, HostTypes
  <2> QED
    BY <2>1 DEF GpuDrawn, HostTypes, showVars
<1>5. KeyTypes'
  BY <1>0, <1>1, Numbers DEF KeyTypes, GpuDrawn, appVars, gpuVars, showVars, keyVars
<1>6. GpuInv'
  BY <1>0, <1>1, Numbers DEF GpuInv, LoopInv, ListInv, Quiet, Settled, AppTypes,
     HostTypes, GpuDrawn, appVars, gpuVars, showVars, keyVars
<1>7. PollInv'
  BY <1>0, <1>1, Numbers DEF PollInv, LoopInv, GpuInv, Quiet, Failed, Settled, AppTypes,
     HostTypes, GpuDrawn, appVars, gpuVars, showVars, keyVars
<1>8. LoopInv'
  BY <1>0, <1>1, Numbers DEF PollInv, LoopInv, GpuInv, Quiet, Failed, Settled, AppTypes,
     HostTypes, GpuDrawn, appVars, gpuVars, showVars, keyVars
<1>9. ListInv'
  BY <1>0, <1>1, Numbers DEF GpuInv, LoopInv, ListInv, Settled, Quiet, AppTypes,
     HostTypes, GpuDrawn, appVars, gpuVars, showVars, keyVars
<1>10. PictureInv'
  <2>1. /\ \A f \in Frame : f # words => frames'[f] = frames[f]
        /\ tails[words] # None => frames'[words] = tails[words]
        /\ tails[words] = None => frames'[words] = None
    BY <1>2 DEF GpuDrawn, ListInv, AppTypes, HostTypes
  <2>2. Shows(frames'[words]) = Shows(tails[words])
    BY <2>1
  <2>3. at \in {"generate", "stopping", "drawn", "swap", "swapping"} => words = nextFrame
    BY <1>0, <1>2 DEF LoopInv, Settled, Quiet, GpuInv, GpuDrawn, HostTypes
  <2>4. at \notin {"wait", "frame", "launch"} /\ ~Quiet
    BY DEF LoopInv, GpuInv, GpuDrawn, Quiet
  <2>5. /\ at' = at /\ polling' = polling /\ tails' = tails /\ screen' = screen
        /\ pf_frame' = pf_frame /\ closing' = closing /\ (host_error => host_error')
    BY DEF GpuDrawn, appVars, showVars
  <2>6. screen' = frames'[pf_frame']
    BY <1>2, <2>1, <2>5 DEF PictureInv, HostTypes
  <2>7. BeforeSwap' => BeforeSwap
    BY <2>5 DEF BeforeSwap, Failed
  <2> QED
    BY <1>0, <1>1, <1>2, <2>1, <2>2, <2>3, <2>4, <2>5, <2>6, <2>7
       DEF PictureInv, BeforeSwap, Shows, Failed, LoopInv, Settled, HostTypes, ListInv
<1> QED
  BY <1>3, <1>4, <1>5, <1>6, <1>7, <1>8, <1>9, <1>10

LEMMA GpuClearKeeps == IInv /\ GpuClear => IInv'
<1> SUFFICES ASSUME IInv, GpuClear PROVE IInv'
  OBVIOUS
<1> USE DEF IInv, TypeOK
<1>0. /\ thisFrame \in Frame /\ nextFrame \in Frame /\ thisFrame # nextFrame
      /\ Null \notin Frame /\ \A f \in Frame : f = thisFrame \/ f = nextFrame
  BY Sides DEF AppTypes
<1>1. frameCounter' = frameCounter /\ thisFrame' = thisFrame /\ nextFrame' = nextFrame
  BY DEF GpuClear, appVars, thisFrame, nextFrame
<1>2. AppTypes'
  BY <1>0, <1>1, Numbers DEF AppTypes, GpuClear, appVars, gpuVars, showVars, keyVars
<1>3. HostTypes'
  BY <1>0, <1>1, Numbers DEF AppTypes, HostTypes, GpuClear, appVars, gpuVars, showVars,
     keyVars
<1>4. KeyTypes'
  BY <1>0, <1>1, Numbers DEF KeyTypes, GpuClear, appVars, gpuVars, showVars, keyVars
<1>5. GpuInv'
  BY <1>0, <1>1, Numbers DEF GpuInv, LoopInv, ListInv, Quiet, Settled, AppTypes,
     HostTypes, GpuClear, appVars, gpuVars, showVars, keyVars
<1>6. PollInv'
  BY <1>0, <1>1, Numbers DEF PollInv, LoopInv, GpuInv, Quiet, Failed, Settled, AppTypes,
     HostTypes, GpuClear, appVars, gpuVars, showVars, keyVars
<1>7. LoopInv'
  BY <1>0, <1>1, Numbers DEF PollInv, LoopInv, GpuInv, Quiet, Failed, Settled, AppTypes,
     HostTypes, GpuClear, appVars, gpuVars, showVars, keyVars
<1>8. ListInv'
  BY <1>0, <1>1, Numbers DEF GpuInv, LoopInv, ListInv, Settled, Quiet, AppTypes,
     HostTypes, GpuClear, appVars, gpuVars, showVars, keyVars
<1>9. PictureInv'
  BY <1>0, <1>1, Numbers DEF GpuInv, PollInv, LoopInv, ListInv, PictureInv, BeforeSwap,
     Quiet, Failed, Settled, Shows, AppTypes, HostTypes, GpuClear, appVars, gpuVars,
     showVars, keyVars
<1> QED
  BY <1>2, <1>3, <1>4, <1>5, <1>6, <1>7, <1>8, <1>9

\* Reading a key leaves the queue and the numbers of keys in their types.
LEMMA ReadKeyTypes ==
  ASSUME KeyTypes, RxValid, ReadKey
  PROVE  /\ rx' \in [data : [0..(Capacity - 1) -> 0..(Keys - 1)], head : 0..(Capacity - 1), count : 0..Capacity]
         /\ served' \in 0..(Keys - 1) /\ reads' \in 0..(Keys - 1)
<1>1. (rx.head + 1) % Capacity \in 0..(Capacity - 1)
  <2>1. rx.head + 1 \in Nat /\ Capacity \in Nat \ {0}
    BY DEF KeyTypes
  <2> QED
    BY <2>1, Remainder
<1>2. rx' \in [data : [0..(Capacity - 1) -> 0..(Keys - 1)], head : 0..(Capacity - 1), count : 0..Capacity]
  <2> DEFINE head == (rx.head + 1) % Capacity
  <2>1. rx' = [data |-> rx.data, head |-> head, count |-> rx.count - 1]
    BY DEF ReadKey, RxTaken, RxValid, KeyTypes
  <2>2. head \in 0..(Capacity - 1)
    BY <1>1
  <2> HIDE DEF head
  <2>3. rx.data \in [0..(Capacity - 1) -> 0..(Keys - 1)] /\ rx.count \in 0..Capacity
    BY DEF KeyTypes
  <2>4. rx.count - 1 \in 0..Capacity
    BY <2>3 DEF RxValid
  <2> QED
    BY <2>1, <2>2, <2>3, <2>4
<1>3. served' \in 0..(Keys - 1)
  BY DEF ReadKey, RxData, RxValid, KeyTypes
<1>4. reads' \in 0..(Keys - 1)
  <2>1. reads + 1 \in Nat /\ Keys \in Nat \ {0}
    BY DEF KeyTypes
  <2> QED
    BY <2>1, Remainder DEF ReadKey
<1> QED
  BY <1>2, <1>3, <1>4

LEMMA ServeKeyKeeps == IInv /\ ServeKey => IInv'
<1> SUFFICES ASSUME IInv, ServeKey PROVE IInv'
  OBVIOUS
<1> USE DEF IInv, TypeOK
<1>0. /\ thisFrame \in Frame /\ nextFrame \in Frame /\ thisFrame # nextFrame
      /\ Null \notin Frame /\ \A f \in Frame : f = thisFrame \/ f = nextFrame
  BY Sides DEF AppTypes
<1>1. frameCounter' = frameCounter /\ thisFrame' = thisFrame /\ nextFrame' = nextFrame
  BY DEF ServeKey, appVars, thisFrame, nextFrame
<1>2. AppTypes'
  BY <1>0, <1>1, Numbers DEF AppTypes, ServeKey, appVars, gpuVars, showVars, keyVars
<1>3. HostTypes'
  BY <1>0, <1>1, Numbers DEF AppTypes, HostTypes, ServeKey, appVars, gpuVars, showVars,
     keyVars
<1>4. KeyTypes'
  <2>1. paused' \in BOOLEAN
    BY DEF ServeKey, Toggled, KeyTypes
  <2> QED
    BY <2>1, ReadKeyTypes DEF ServeKey, KeyTypes
<1>5. GpuInv'
  BY <1>0, <1>1, Numbers DEF GpuInv, LoopInv, ListInv, Quiet, Settled, AppTypes,
     HostTypes, ServeKey, appVars, gpuVars, showVars, keyVars
<1>6. PollInv'
  BY <1>0, <1>1, Numbers DEF PollInv, LoopInv, GpuInv, Quiet, Failed, Settled, AppTypes,
     HostTypes, ServeKey, appVars, gpuVars, showVars, keyVars
<1>7. LoopInv'
  BY <1>0, <1>1, Numbers DEF PollInv, LoopInv, GpuInv, Quiet, Failed, Settled, AppTypes,
     HostTypes, ServeKey, appVars, gpuVars, showVars, keyVars
<1>8. ListInv'
  BY <1>0, <1>1, Numbers DEF GpuInv, LoopInv, ListInv, Settled, Quiet, AppTypes,
     HostTypes, ServeKey, appVars, gpuVars, showVars, keyVars
<1>9. PictureInv'
  BY <1>0, <1>1, Numbers DEF GpuInv, PollInv, LoopInv, ListInv, PictureInv, BeforeSwap,
     Quiet, Failed, Settled, Shows, AppTypes, HostTypes, ServeKey, appVars, gpuVars,
     showVars, keyVars
<1> QED
  BY <1>2, <1>3, <1>4, <1>5, <1>6, <1>7, <1>8, <1>9

LEMMA ServeFailsKeeps == IInv /\ ServeFails => IInv'
<1> SUFFICES ASSUME IInv, ServeFails PROVE IInv'
  OBVIOUS
<1> USE DEF IInv, TypeOK
<1>0. /\ thisFrame \in Frame /\ nextFrame \in Frame /\ thisFrame # nextFrame
      /\ Null \notin Frame /\ \A f \in Frame : f = thisFrame \/ f = nextFrame
  BY Sides DEF AppTypes
<1>1. frameCounter' = frameCounter /\ thisFrame' = thisFrame /\ nextFrame' = nextFrame
  BY DEF ServeFails, appVars, thisFrame, nextFrame
<1>2. /\ host_error' = TRUE /\ polling' = "no"
      /\ \/ at = "loop" /\ at' = "stop"
         \/ at = "drawn" /\ at' = "swap"
         \/ at = "swapping" /\ at' = "count"
  BY Returned DEF ServeFails, KeyTypes
<1>3. AppTypes'
  BY <1>0, <1>1, <1>2, Numbers DEF AppTypes, ServeFails, appVars, gpuVars, showVars, keyVars
<1>4. HostTypes'
  BY <1>0, <1>1, <1>2, Numbers DEF AppTypes, HostTypes, ServeFails, appVars, gpuVars,
     showVars, keyVars
<1>5. KeyTypes'
  <2>1. paused' \in BOOLEAN
    BY DEF ServeFails, Toggled, KeyTypes
  <2>2. CASE ReadKey
    BY <2>1, <2>2, ReadKeyTypes DEF ServeFails, KeyTypes
  <2>3. CASE UNCHANGED <<rx, served, reads, paused>>
    BY <2>3 DEF ServeFails, KeyTypes
  <2> QED
    BY <2>2, <2>3 DEF ServeFails
<1>6. GpuInv'
  BY <1>0, <1>1, <1>2, Numbers DEF GpuInv, LoopInv, ListInv, Quiet, Settled, AppTypes,
     HostTypes, ServeFails, appVars, gpuVars, showVars, keyVars
<1>7. PollInv'
  BY <1>0, <1>1, <1>2, Numbers DEF PollInv, LoopInv, GpuInv, Quiet, Failed, Settled,
     AppTypes, HostTypes, ServeFails, appVars, gpuVars, showVars, keyVars
<1>8. LoopInv'
  BY <1>0, <1>1, <1>2, Numbers DEF PollInv, LoopInv, GpuInv, Quiet, Failed, Settled,
     AppTypes, HostTypes, ServeFails, appVars, gpuVars, showVars, keyVars
<1>9. ListInv'
  BY <1>0, <1>1, <1>2, Numbers DEF GpuInv, LoopInv, ListInv, Settled, Quiet, AppTypes,
     HostTypes, ServeFails, appVars, gpuVars, showVars, keyVars
<1>10. PictureInv'
  BY <1>0, <1>1, <1>2, Numbers DEF GpuInv, PollInv, LoopInv, ListInv, PictureInv,
     BeforeSwap, Quiet, Failed, Settled, Shows, AppTypes, HostTypes, ServeFails, appVars,
     gpuVars, showVars, keyVars
<1> QED
  BY <1>3, <1>4, <1>5, <1>6, <1>7, <1>8, <1>9, <1>10

LEMMA ServedKeeps == IInv /\ Served => IInv'
<1> SUFFICES ASSUME IInv, Served PROVE IInv'
  OBVIOUS
<1> USE DEF IInv, TypeOK
<1>0. /\ thisFrame \in Frame /\ nextFrame \in Frame /\ thisFrame # nextFrame
      /\ Null \notin Frame /\ \A f \in Frame : f = thisFrame \/ f = nextFrame
  BY Sides DEF AppTypes
<1>1. frameCounter' = frameCounter /\ thisFrame' = thisFrame /\ nextFrame' = nextFrame
  BY DEF Served, appVars, thisFrame, nextFrame
<1>2. \/ ~host_error /\ polling' = "draw" /\ at' = at
      \/ host_error /\ polling' = "no" /\ at = "loop" /\ at' = "stop"
      \/ host_error /\ polling' = "no" /\ at = "drawn" /\ at' = "swap"
      \/ host_error /\ polling' = "no" /\ at = "swapping" /\ at' = "count"
  BY Returned DEF Served, KeyTypes, HostTypes
<1>3. AppTypes'
  BY <1>0, <1>1, <1>2, Numbers DEF AppTypes, Served, appVars, gpuVars, showVars, keyVars
<1>4. HostTypes'
  BY <1>0, <1>1, <1>2, Numbers DEF AppTypes, HostTypes, Served, appVars, gpuVars,
     showVars, keyVars
<1>5. KeyTypes'
  BY <1>0, <1>1, <1>2, Numbers DEF KeyTypes, Served, appVars, gpuVars, showVars, keyVars
<1>6. GpuInv'
  BY <1>0, <1>1, <1>2, Numbers DEF GpuInv, LoopInv, ListInv, Quiet, Settled, AppTypes,
     HostTypes, Served, appVars, gpuVars, showVars, keyVars
<1>7. PollInv'
  BY <1>0, <1>1, <1>2, Numbers DEF PollInv, LoopInv, GpuInv, Quiet, Failed, Settled,
     AppTypes, HostTypes, Served, appVars, gpuVars, showVars, keyVars
<1>8. LoopInv'
  BY <1>0, <1>1, <1>2, Numbers DEF PollInv, LoopInv, GpuInv, Quiet, Failed, Settled,
     AppTypes, HostTypes, Served, appVars, gpuVars, showVars, keyVars
<1>9. ListInv'
  BY <1>0, <1>1, <1>2, Numbers DEF GpuInv, LoopInv, ListInv, Settled, Quiet, AppTypes,
     HostTypes, Served, appVars, gpuVars, showVars, keyVars
<1>10. PictureInv'
  BY <1>0, <1>1, <1>2, Numbers DEF GpuInv, PollInv, LoopInv, ListInv, PictureInv,
     BeforeSwap, Quiet, Failed, Settled, Shows, AppTypes, HostTypes, Served, appVars,
     gpuVars, showVars, keyVars
<1> QED
  BY <1>3, <1>4, <1>5, <1>6, <1>7, <1>8, <1>9, <1>10

LEMMA PollDrawKeeps == IInv /\ PollDraw => IInv'
<1> SUFFICES ASSUME IInv, PollDraw PROVE IInv'
  OBVIOUS
<1> USE DEF IInv, TypeOK
<1>0. /\ thisFrame \in Frame /\ nextFrame \in Frame /\ thisFrame # nextFrame
      /\ Null \notin Frame /\ \A f \in Frame : f = thisFrame \/ f = nextFrame
  BY Sides DEF AppTypes
<1>1. frameCounter' = frameCounter /\ thisFrame' = thisFrame /\ nextFrame' = nextFrame
  BY DEF PollDraw, draw_host_view, appVars, thisFrame, nextFrame
<1>2. \/ at = "loop" /\ ~host_error /\ paused /\ polling' = "begin" /\ at' = "loop"
      \/ at = "loop" /\ ~host_error /\ ~paused /\ polling' = "no" /\ at' = "wait"
      \/ at = "loop" /\ host_error /\ polling' = "no" /\ at' = "stop"
      \/ at \in {"drawn", "swapping"} /\ ~host_error /\ polling' = "no" /\ at' = at
      \/ at = "drawn" /\ host_error /\ polling' = "no" /\ at' = "swap"
      \/ at = "swapping" /\ host_error /\ polling' = "no" /\ at' = "count"
  BY Returned DEF PollDraw, draw_host_view, KeyTypes, HostTypes
<1>3. AppTypes'
  BY <1>0, <1>1, <1>2, Numbers DEF AppTypes, PollDraw, draw_host_view, appVars, gpuVars, showVars,
     keyVars
<1>4. HostTypes'
  BY <1>0, <1>1, <1>2, Numbers DEF AppTypes, HostTypes, PollDraw, draw_host_view, appVars, gpuVars,
     showVars, keyVars
<1>5. KeyTypes'
  BY <1>0, <1>1, <1>2, Numbers DEF KeyTypes, PollDraw, draw_host_view, appVars, gpuVars, showVars,
     keyVars
<1>6. GpuInv'
  BY <1>0, <1>1, <1>2 DEF GpuInv, PollInv, LoopInv, Settled, Quiet, Failed, AppTypes, HostTypes,
     PollDraw, draw_host_view, gpuVars
<1>7. PollInv'
  BY <1>0, <1>1, <1>2, Numbers DEF PollInv, LoopInv, GpuInv, Quiet, Failed, Settled,
     AppTypes, HostTypes, PollDraw, draw_host_view, appVars, gpuVars, showVars, keyVars
<1>8. LoopInv'
  BY <1>0, <1>1, <1>2, Numbers DEF PollInv, LoopInv, GpuInv, Quiet, Failed, Settled,
     AppTypes, HostTypes, PollDraw, draw_host_view, appVars, gpuVars, showVars, keyVars
<1>9. ListInv'
  BY <1>0, <1>1, <1>2, Numbers DEF GpuInv, LoopInv, ListInv, Settled, Quiet, AppTypes,
     HostTypes, PollDraw, draw_host_view, appVars, gpuVars, showVars, keyVars
<1>10. PictureInv'
  BY <1>0, <1>1, <1>2, Numbers DEF GpuInv, PollInv, LoopInv, ListInv, PictureInv,
     BeforeSwap, Quiet, Failed, Settled, Shows, AppTypes, HostTypes,
     PollDraw, draw_host_view, appVars,
     gpuVars, showVars, keyVars
<1> QED
  BY <1>3, <1>4, <1>5, <1>6, <1>7, <1>8, <1>9, <1>10

LEMMA PollSkipKeeps == IInv /\ PollSkip => IInv'
<1> SUFFICES ASSUME IInv, PollSkip PROVE IInv'
  OBVIOUS
<1> USE DEF IInv, TypeOK
<1>0. /\ thisFrame \in Frame /\ nextFrame \in Frame /\ thisFrame # nextFrame
      /\ Null \notin Frame /\ \A f \in Frame : f = thisFrame \/ f = nextFrame
  BY Sides DEF AppTypes
<1>1. frameCounter' = frameCounter /\ thisFrame' = thisFrame /\ nextFrame' = nextFrame
  BY DEF PollSkip, appVars, thisFrame, nextFrame
<1>2. \/ at = "loop" /\ paused /\ polling' = "begin" /\ at' = "loop"
      \/ at = "loop" /\ ~paused /\ polling' = "no" /\ at' = "wait"
      \/ at \in {"drawn", "swapping"} /\ polling' = "no" /\ at' = at
  BY Returned DEF PollSkip, KeyTypes
<1>3. AppTypes'
  BY <1>0, <1>1, <1>2, Numbers DEF AppTypes, PollSkip, appVars, gpuVars, showVars,
     keyVars
<1>4. HostTypes'
  BY <1>0, <1>1, <1>2, Numbers DEF AppTypes, HostTypes, PollSkip, appVars, gpuVars,
     showVars, keyVars
<1>5. KeyTypes'
  BY <1>0, <1>1, <1>2, Numbers DEF KeyTypes, PollSkip, appVars, gpuVars, showVars,
     keyVars
<1>6. GpuInv'
  BY <1>0, <1>1, <1>2, Numbers DEF GpuInv, LoopInv, ListInv, Quiet, Settled, AppTypes,
     HostTypes, PollSkip, appVars, gpuVars, showVars, keyVars
<1>7. PollInv'
  BY <1>0, <1>1, <1>2, Numbers DEF PollInv, LoopInv, GpuInv, Quiet, Failed, Settled,
     AppTypes, HostTypes, PollSkip, appVars, gpuVars, showVars, keyVars
<1>8. LoopInv'
  BY <1>0, <1>1, <1>2, Numbers DEF PollInv, LoopInv, GpuInv, Quiet, Failed, Settled,
     AppTypes, HostTypes, PollSkip, appVars, gpuVars, showVars, keyVars
<1>9. ListInv'
  BY <1>0, <1>1, <1>2, Numbers DEF GpuInv, LoopInv, ListInv, Settled, Quiet, AppTypes,
     HostTypes, PollSkip, appVars, gpuVars, showVars, keyVars
<1>10. PictureInv'
  BY <1>0, <1>1, <1>2, Numbers DEF GpuInv, PollInv, LoopInv, ListInv, PictureInv,
     BeforeSwap, Quiet, Failed, Settled, Shows, AppTypes, HostTypes, PollSkip, appVars,
     gpuVars, showVars, keyVars
<1> QED
  BY <1>3, <1>4, <1>5, <1>6, <1>7, <1>8, <1>9, <1>10

LEMMA PollKeysKeeps == IInv /\ PollKeys => IInv'
<1> SUFFICES ASSUME IInv, PollKeys PROVE IInv'
  OBVIOUS
<1> USE DEF IInv, TypeOK
<1>0. /\ thisFrame \in Frame /\ nextFrame \in Frame /\ thisFrame # nextFrame
      /\ Null \notin Frame /\ \A f \in Frame : f = thisFrame \/ f = nextFrame
  BY Sides DEF AppTypes
<1>1. frameCounter' = frameCounter /\ thisFrame' = thisFrame /\ nextFrame' = nextFrame
  BY DEF PollKeys, appVars, thisFrame, nextFrame
<1>2. \/ /\ ~host_error /\ ~closing /\ polling' = "serve"
         /\ UNCHANGED <<at, host_error>>
      \/ /\ (host_error' = TRUE \/ (host_error' = host_error /\ Failed)) /\ polling' = "no"
         /\ \/ at = "loop" /\ at' = "stop"
            \/ at = "drawn" /\ at' = "swap"
            \/ at = "swapping" /\ at' = "count"
  BY Returned DEF PollKeys, KeyTypes, HostTypes, Failed
<1>3. AppTypes'
  BY <1>0, <1>1, <1>2, Numbers DEF AppTypes, PollKeys, appVars, gpuVars, showVars,
     keyVars
<1>4. HostTypes'
  BY <1>0, <1>1, <1>2, Numbers DEF AppTypes, HostTypes, PollKeys, appVars, gpuVars,
     showVars, keyVars
<1>5. KeyTypes'
  <2>1. CASE host_error \/ closing
    BY <2>1 DEF PollKeys, KeyTypes
  <2>2. CASE ~(host_error \/ closing)
    <3>1. /\ rx' = Received(keyboard).rx
          /\ typed' = (typed + Received(keyboard).n) % Keys
          /\ keyboard' = 0 /\ UNCHANGED <<served, reads, paused>>
      BY <2>2 DEF PollKeys
    <3>2. Received(keyboard).n \in Nat
      BY DEF Received, KeyTypes
    <3>3. rx' \in [data : [0..(Capacity - 1) -> 0..(Keys - 1)], head : 0..(Capacity - 1), count : 0..Capacity]
      BY <3>1, ReceivedTypes DEF KeyTypes
    <3>4. typed + Received(keyboard).n \in Nat /\ Keys \in Nat \ {0}
      BY <3>2 DEF KeyTypes
    <3>5. typed' \in 0..(Keys - 1)
      BY <3>1, <3>4, Remainder
    <3>6. keyboard' \in 0..MaxTyped /\ served' \in 0..(Keys - 1) /\ reads' \in 0..(Keys - 1) /\ paused' \in BOOLEAN
      BY <3>1 DEF KeyTypes
    <3> QED
      BY <3>3, <3>5, <3>6 DEF KeyTypes
  <2> QED
    BY <2>1, <2>2
<1>6. GpuInv'
  BY <1>0, <1>1, <1>2, Numbers DEF GpuInv, LoopInv, ListInv, Quiet, Settled, AppTypes,
     HostTypes, PollKeys, appVars, gpuVars, showVars, keyVars
<1>7. PollInv'
  BY <1>0, <1>1, <1>2, Numbers DEF PollInv, LoopInv, GpuInv, Quiet, Failed, Settled,
     AppTypes, HostTypes, PollKeys, appVars, gpuVars, showVars, keyVars
<1>8. LoopInv'
  BY <1>0, <1>1, <1>2, Numbers DEF PollInv, LoopInv, GpuInv, Quiet, Failed, Settled,
     AppTypes, HostTypes, PollKeys, appVars, gpuVars, showVars, keyVars
<1>9. ListInv'
  BY <1>0, <1>1, <1>2, Numbers DEF GpuInv, LoopInv, ListInv, Settled, Quiet, AppTypes,
     HostTypes, PollKeys, appVars, gpuVars, showVars, keyVars
<1>10. PictureInv'
  BY <1>0, <1>1, <1>2, Numbers DEF GpuInv, PollInv, LoopInv, ListInv, PictureInv,
     BeforeSwap, Quiet, Failed, Settled, Shows, AppTypes, HostTypes, PollKeys, appVars,
     gpuVars, showVars, keyVars
<1> QED
  BY <1>3, <1>4, <1>5, <1>6, <1>7, <1>8, <1>9, <1>10

-----------------------------------------------------------------------------
(* The theorems *)

LEMMA InitHolds == Init => IInv
<1> SUFFICES ASSUME Init PROVE IInv
  OBVIOUS
<1> USE DEF Init
<1>1. frameCounter = 0 /\ thisFrame = 1 /\ nextFrame = 2
  BY DEF thisFrame, nextFrame
<1>2. AppTypes /\ HostTypes
  <2>1. 1 \in Frame /\ 2 \in Frame /\ [f \in Frame |-> None] \in [Frame -> Picture]
    BY Numbers DEF Frame
  <2>2. AppTypes
    BY <2>1 DEF AppTypes
  <2>3. HostTypes
    BY <2>1, Numbers DEF HostTypes
  <2> QED
    BY <2>2, <2>3
<1>3. KeyTypes
  <2> DEFINE data == [k \in 0..(Capacity - 1) |-> 0]
  <2>1. data \in [0..(Capacity - 1) -> 0..(Keys - 1)] /\ rx = [data |-> data, head |-> 0, count |-> 0]
    BY DEF vizard_uart_init
  <2> HIDE DEF data
  <2>2. rx \in [data : [0..(Capacity - 1) -> 0..(Keys - 1)], head : 0..(Capacity - 1), count : 0..Capacity]
    BY <2>1
  <2>3. keyboard \in 0..MaxTyped /\ typed \in 0..(Keys - 1)
    OBVIOUS
  <2>4. served \in 0..(Keys - 1) /\ reads \in 0..(Keys - 1)
    OBVIOUS
  <2>5. paused \in BOOLEAN
    OBVIOUS
  <2> QED
    BY ONLY <2>2, <2>3, <2>4, <2>5 DEF KeyTypes
<1>4. GpuInv /\ PollInv /\ LoopInv
  BY <1>1 DEF GpuInv, PollInv, LoopInv, Quiet, Failed, Settled
<1>5. ListInv
  BY <1>1, Numbers DEF ListInv
<1>6. PictureInv
  BY <1>1, Numbers DEF PictureInv, BeforeSwap, Failed, Shows, Frame
<1> QED
  BY <1>2, <1>3, <1>4, <1>5, <1>6 DEF IInv, TypeOK

LEMMA NextKeeps == IInv /\ [Next]_vars => IInv'
<1> SUFFICES ASSUME IInv, [Next]_vars PROVE IInv'
  OBVIOUS
<1>1. CASE Poll
  BY <1>1, PollKeysKeeps, ServeKeyKeeps, ServeFailsKeeps, ServedKeeps, PollDrawKeeps, PollSkipKeeps DEF Poll
<1>2. CASE Loop
  BY <1>2, WaitBeforeKeeps, SetFrameKeeps, LaunchKeeps, GenerateKeeps, GeneratedKeeps,
     WaitDrawnKeeps, SwapFrameKeeps, WaitSwapKeeps, CountFrameKeeps, StopKeeps, JoinKeeps
     DEF Loop
<1>3. CASE Gpu
  BY <1>3, GpuLookKeeps, GpuCountKeeps, GpuSubmitKeeps, GpuDrawnKeeps, GpuClearKeeps DEF Gpu
<1>4. CASE UNCHANGED vars
  <2> USE <1>4 DEF vars, appVars, gpuVars, showVars, keyVars
  <2>1. AppTypes' /\ HostTypes'
    BY DEF IInv, TypeOK, AppTypes, HostTypes
  <2>2. KeyTypes'
    BY DEF IInv, TypeOK, KeyTypes
  <2>3. GpuInv' /\ PollInv'
    BY DEF IInv, GpuInv, PollInv, Quiet
  <2>4. LoopInv' /\ ListInv'
    BY DEF IInv, LoopInv, ListInv, Quiet, Failed, Settled, thisFrame, nextFrame
  <2>5. PictureInv'
    BY DEF IInv, PictureInv, BeforeSwap, Shows, Quiet, Failed, thisFrame, nextFrame, Earlier
  <2> QED
    BY <2>1, <2>2, <2>3, <2>4, <2>5 DEF IInv, TypeOK
<1> QED
  BY <1>1, <1>2, <1>3, <1>4 DEF Next

\* In every reachable state the application, the thread and the window are
\* where the loop of proj7.c and the waits of vizard_host.c put them.
THEOREM LoopInvariant == Spec => []IInv
BY InitHolds, NextKeeps, PTL DEF Spec

\* The frame being drawn is never the one shown, and is asked for only after a
\* wait that failed.
THEOREM DrawnApartAlways == Spec => []DrawnApart
<1>1. IInv => DrawnApart
  BY Sides DEF IInv, TypeOK, AppTypes, HostTypes, GpuInv, LoopInv, PollInv, Quiet, Settled, Failed, DrawnApart
<1> QED
  BY <1>1, LoopInvariant, PTL

\* The list being read is whole.
THEOREM ListWholeAlways == Spec => []ListWhole
<1>1. IInv => ListWhole
  BY Sides DEF IInv, TypeOK, AppTypes, HostTypes, GpuInv, LoopInv, ListInv, Quiet, Settled, ListWhole, Reading
<1> QED
  BY <1>1, LoopInvariant, PTL

(* Vizard implements DoubleBuffer *)

LEMMA Counting ==
  ASSUME NEW k \in 0..(Pictures - 1)
  PROVE  /\ Earlier(k) \in 0..(Pictures - 1) /\ (Earlier(k) + 1) % Pictures = k
         /\ (k + 1) % Pictures \in 0..(Pictures - 1)
         /\ (k - Earlier(k)) % Pictures = 1 /\ (k - k) % Pictures = 0
         /\ (((k + 1) % Pictures) - Earlier(k)) % Pictures = 2
         /\ (((k + 1) % Pictures) - k) % Pictures = 1
<1>1. (k + 1) % Pictures = IF k + 1 = Pictures THEN 0 ELSE k + 1
  OBVIOUS
<1>2. \A d \in (1 - Pictures)..(Pictures - 1) : d % Pictures = IF d < 0 THEN d + Pictures ELSE d
  <2> SUFFICES ASSUME NEW d \in (1 - Pictures)..(Pictures - 1)
               PROVE  d % Pictures = IF d < 0 THEN d + Pictures ELSE d
    OBVIOUS
  <2>1. CASE d < 0
    BY <2>1
  <2>2. CASE d >= 0
    BY <2>2
  <2> QED
    BY <2>1, <2>2
<1>3. (Earlier(k) + 1) % Pictures = k
  BY DEF Earlier
<1> QED
  BY <1>1, <1>2, <1>3 DEF Earlier

\* A step that shows nothing new and puts down no list changes neither count.
LEMMA Stutters ==
  ASSUME screen' = screen, frameCounter' = frameCounter,
         (at \in {"drawn", "swap", "swapping", "count"}) <=> (at' \in {"drawn", "swap", "swapping", "count"})
  PROVE  UNCHANGED <<made, shown>>
BY DEF made, shown

LEMMA GeneratedMakes == IInv /\ Generated => Promise!Make
<1> SUFFICES ASSUME IInv, Generated PROVE Promise!Make
  OBVIOUS
<1>1. at = "stopping" /\ at' = "drawn" /\ frameCounter' = frameCounter /\ screen' = screen
  BY DEF Generated, Go, showVars
<1>2. frameCounter \in 0..(Pictures - 1) /\ screen = frames[thisFrame]
  BY <1>1 DEF IInv, TypeOK, AppTypes, LoopInv, Settled, PictureInv
<1>3. shown = Earlier(frameCounter) \/ (frameCounter = 0 /\ shown = frameCounter)
  BY <1>1, <1>2 DEF IInv, PictureInv, BeforeSwap, Shows, shown
<1>4. made = frameCounter /\ made' = (made + 1) % Pictures /\ shown' = shown
  BY <1>1 DEF made, shown
<1>5. (made - shown) % Pictures < 2
  <2>1. CASE shown = Earlier(frameCounter)
    <3>1. (made - shown) % Pictures = 1
      BY ONLY <1>2, <1>4, <2>1, Counting
    <3> QED
      BY <3>1
  <2>2. CASE shown = frameCounter
    <3>1. (made - shown) % Pictures = 0
      BY ONLY <1>2, <1>4, <2>2, Counting
    <3> QED
      BY <3>1
  <2> QED
    BY <1>3, <2>1, <2>2
<1> QED
  BY <1>4, <1>5 DEF Promise!Make, Promise!Waiting

\* The one draw that shows another frame is that of a frame waited for.
LEMMA DrawShows == IInv /\ PollDraw => Promise!Show \/ UNCHANGED <<made, shown>>
<1> SUFFICES ASSUME IInv, PollDraw PROVE Promise!Show \/ UNCHANGED <<made, shown>>
  OBVIOUS
<1>1. /\ frameCounter' = frameCounter /\ frames' = frames
      /\ pf_frame' = (IF pending # Null THEN pending ELSE pf_frame) /\ screen' = frames[pf_frame']
      /\ polling = "draw" /\ frameCounter \in 0..(Pictures - 1) /\ screen = frames[pf_frame]
  BY DEF PollDraw, draw_host_view, IInv, TypeOK, AppTypes, PictureInv
<1>2. /\ at \in {"loop", "drawn", "swapping"} /\ (at # "drawn" => Quiet)
      /\ (at = "loop" => Settled)
  BY <1>1 DEF IInv, PollInv, LoopInv
<1>3. (at \in {"drawn", "swap", "swapping", "count"}) <=> (at' \in {"drawn", "swap", "swapping", "count"})
  BY <1>2, Returned DEF PollDraw, draw_host_view, IInv, TypeOK, HostTypes, KeyTypes
<1>4. CASE pf_frame' = pf_frame
  BY <1>1, <1>3, <1>4, Stutters
<1>5. CASE pf_frame' # pf_frame
  <2>1. at = "swapping" /\ pf_frame = thisFrame /\ pf_frame' = nextFrame /\ Quiet
    BY <1>1, <1>2, <1>5 DEF IInv, LoopInv, Settled
  <2>2. shown = Earlier(frameCounter) \/ (frameCounter = 0 /\ shown = frameCounter)
    BY <1>1, <2>1 DEF IInv, PictureInv, Shows, shown
  <2>3. shown' = frameCounter
    BY <1>1, <2>1 DEF IInv, PictureInv, Shows, shown
  <2>4. made = (frameCounter + 1) % Pictures /\ made' = made
    BY <1>1, <1>3, <2>1 DEF made
  <2>5. CASE shown = Earlier(frameCounter)
    <3>1. (made - shown) % Pictures = 2
      BY ONLY <1>1, <2>4, <2>5, Counting
    <3>2. shown' = (shown + 1) % Pictures
      BY ONLY <1>1, <2>3, <2>5, Counting
    <3> QED
      BY <2>4, <3>1, <3>2 DEF Promise!Show, Promise!Waiting
  <2>6. CASE shown = frameCounter
    BY <2>3, <2>4, <2>6
  <2> QED
    BY <2>2, <2>5, <2>6
<1> QED
  BY <1>4, <1>5

\* CountFrame moves the count of the iteration into frameCounter.
LEMMA CountStutters == IInv /\ CountFrame => UNCHANGED <<made, shown>>
BY DEF CountFrame, showVars, made, shown

LEMMA NextImplements == IInv /\ [Next]_vars => [Promise!Next]_<<made, shown>>
<1> SUFFICES ASSUME IInv, [Next]_vars PROVE Promise!Next \/ UNCHANGED <<made, shown>>
  OBVIOUS
<1>1. CASE PollDraw
  BY <1>1, DrawShows DEF Promise!Next
<1>2. CASE Generated
  BY <1>2, GeneratedMakes DEF Promise!Next
<1>3. CASE CountFrame
  BY <1>3, CountStutters
<1>4. CASE PollKeys \/ ServeFails \/ Served \/ PollSkip
  <2>1. screen' = screen /\ frameCounter' = frameCounter
    BY <1>4 DEF PollKeys, ServeFails, Served, PollSkip, showVars
  <2>2. (at \in {"drawn", "swap", "swapping", "count"}) <=> (at' \in {"drawn", "swap", "swapping", "count"})
    BY <1>4, Returned DEF PollKeys, ServeFails, Served, PollSkip, IInv, TypeOK, HostTypes, KeyTypes
  <2> QED
    BY <2>1, <2>2, Stutters
<1>5. CASE ServeKey \/ Gpu
  BY <1>5, Stutters DEF ServeKey, Gpu, GpuLook, GpuCount, GpuSubmit, GpuDrawn, GpuClear, appVars, showVars
<1>6. CASE WaitBefore \/ SetFrame \/ Launch \/ Generate \/ WaitDrawn \/ SwapFrame \/ WaitSwap \/ Stop \/ Join
  BY <1>6, Stutters DEF WaitBefore, WaitDrawn, WaitGpu, Go, SetFrame, Launch, Generate, SwapFrame, WaitSwap,
     Stop, Join, showVars
<1>7. CASE UNCHANGED vars
  BY <1>7, Stutters DEF vars, appVars, showVars
<1> QED
  BY <1>1, <1>2, <1>3, <1>4, <1>5, <1>6, <1>7 DEF Next, Poll, Loop

\* Each picture is shown whole and once, in the order in which the lists were
\* made, and at most two lists are ahead of the screen.
THEOREM ShownOnce == Spec => ShowsEachOnce
<1>1. Init => Promise!Init
  BY Numbers DEF Init, made, shown, Promise!Init
<1> QED
  BY <1>1, LoopInvariant, NextImplements, PTL DEF Spec, ShowsEachOnce, Promise!Spec

-----------------------------------------------------------------------------
(* The receive queue.  Numbers of keys and slots come round. *)

\* Slot of the queue in which its k-th key is.
Slot(k) == (rx.head + k - 1) % Capacity

\* The queue holds the keys that follow the last one served, in order, up to
\* the last one received, and the handler was given one at each read.
KeyQueue ==
  /\ served = reads
  /\ typed = (served + rx.count) % Keys
  /\ \A k \in 1..rx.count : rx.data[Slot(k)] = (served + k) % Keys

\* The handler takes the first key and leaves the queue that follows it.
LEMMA ReadTakesNext ==
  ASSUME KeyTypes, KeyQueue, RxValid, ReadKey, typed' = typed
  PROVE  KeyQueue'
<1>1. PICK data \in [0..(Capacity - 1) -> 0..(Keys - 1)], head \in 0..(Capacity - 1), count \in 0..Capacity :
        rx = [data |-> data, head |-> head, count |-> count]
  BY DEF KeyTypes
<1>2. count # 0 /\ rx' = [data |-> data, head |-> (head + 1) % Capacity, count |-> count - 1]
  BY <1>1 DEF ReadKey, RxValid, RxTaken
<1>3. served' = data[head] /\ typed' = typed
  BY <1>1, <1>2 DEF ReadKey, RxData, RxValid
<1>4. \A k \in 1..count : data[(head + k - 1) % Capacity] = (served + k) % Keys
  BY <1>1 DEF KeyQueue, Slot
<1>5. served' = (served + 1) % Keys
  <2>1. (head + 1 - 1) % Capacity = head
    OBVIOUS
  <2>2. 1 \in 1..count
    BY <1>2
  <2> QED
    BY <1>3, <1>4, <2>1, <2>2
<1>6. \A n \in Nat : (served' + n) % Keys = (served + (1 + n)) % Keys
  <2> TAKE n \in Nat
  <2>1. served + 1 \in Nat /\ served + 1 + n = served + (1 + n)
    BY DEF KeyTypes
  <2> QED
    BY <1>5, <2>1, RemainderOfSum
<1>7. typed' = (served' + (count - 1)) % Keys
  <2>1. count - 1 \in Nat /\ 1 + (count - 1) = count
    BY <1>2
  <2>2. typed = (served + count) % Keys
    BY <1>1 DEF KeyQueue
  <2> QED
    BY <1>3, <1>6, <2>1, <2>2
<1>8. ASSUME NEW k \in 1..(count - 1)
      PROVE  data[(((head + 1) % Capacity) + k - 1) % Capacity] = (served' + k) % Keys
  <2>1. k - 1 \in Nat /\ k \in Nat /\ head + 1 \in Nat
    OBVIOUS
  <2>2. (((head + 1) % Capacity) + (k - 1)) % Capacity = ((head + 1) + (k - 1)) % Capacity
    BY <2>1, RemainderOfSum
  <2>3. PICK h \in 0..(Capacity - 1) : (head + 1) % Capacity = h
    BY <2>1, Remainder
  <2>4. (((head + 1) % Capacity) + k - 1) % Capacity = (head + (k + 1) - 1) % Capacity
    BY <2>1, <2>2, <2>3
  <2>5. k + 1 \in 1..count /\ 1 + k = k + 1
    OBVIOUS
  <2>6. data[(head + (k + 1) - 1) % Capacity] = (served + (1 + k)) % Keys
    BY <1>4, <2>5
  <2> QED
    BY <1>6, <2>1, <2>4, <2>6
<1>9. KeyQueue'
  <2>1. rx'.count = count - 1 /\ rx'.data = data /\ rx'.head = (head + 1) % Capacity
    BY <1>2
  <2>2. served' = reads'
    BY <1>5 DEF ReadKey, KeyQueue
  <2> QED
    BY <1>7, <1>8, <2>1, <2>2 DEF KeyQueue, Slot
<1> QED
  BY <1>9

\* Keys that arrive go behind those in the queue.
LEMMA PollKeysAppends ==
  ASSUME KeyTypes, KeyQueue, PollKeys
  PROVE  KeyQueue'
<1>1. CASE host_error \/ closing
  BY <1>1 DEF PollKeys, KeyQueue, Slot
<1>2. CASE ~(host_error \/ closing)
  <2>1. PICK data \in [0..(Capacity - 1) -> 0..(Keys - 1)], head \in 0..(Capacity - 1), count \in 0..Capacity :
          rx = [data |-> data, head |-> head, count |-> count]
    BY DEF KeyTypes
  <2> DEFINE room == Capacity - count
             taken == IF keyboard <= room THEN keyboard ELSE room
             slot(k) == (head + count + k - 1) % Capacity
             new == [s \in 0..(Capacity - 1) |->
                       IF \E k \in 1..taken : slot(k) = s
                       THEN (typed + (CHOOSE k \in 1..taken : slot(k) = s)) % Keys
                       ELSE data[s]]
  <2>2. taken \in Nat /\ count + taken <= Capacity
    BY DEF KeyTypes
  <2>3. Received(keyboard).n = taken /\ Received(keyboard).rx = [data |-> new, head |-> head, count |-> count + taken]
    BY <2>1 DEF Received
  <2>4. rx' = [data |-> new, head |-> head, count |-> count + taken] /\ served' = served /\ reads' = reads
        /\ typed' = (typed + taken) % Keys
    BY <1>2, <2>3 DEF PollKeys
  <2>5. \A k \in 1..count : data[(head + k - 1) % Capacity] = (served + k) % Keys
    BY <2>1 DEF KeyQueue, Slot
  <2>6. \A n \in Nat : (typed + n) % Keys = (served + (count + n)) % Keys
    <3> TAKE n \in Nat
    <3>1. typed = (served + count) % Keys
      BY <2>1 DEF KeyQueue
    <3>2. served + count \in Nat /\ (served + count) + n = served + (count + n)
      BY DEF KeyTypes
    <3> QED
      BY <3>1, <3>2, RemainderOfSum
  <2> HIDE DEF taken
  <2>7. typed' = (served' + (count + taken)) % Keys
    BY <2>2, <2>4, <2>6
  <2>8. ASSUME NEW j \in 1..taken
        PROVE  new[slot(j)] = (typed + j) % Keys
    <3>1. slot(j) \in 0..(Capacity - 1)
      <4>1. head + count + j - 1 \in Nat
        BY <2>2
      <4> QED
        BY <4>1, Remainder
    <3>2. ASSUME NEW k \in 1..taken, slot(k) = slot(j)
          PROVE  k = j
      <4>1. head + count + k - 1 \in Nat /\ head + count + j - 1 \in Nat
        BY <2>2
      <4>2. CASE k < j
        <5>1. head + count + k - 1 < head + count + j - 1 /\ head + count + j - 1 < head + count + k - 1 + Capacity
          BY <2>2, <4>2
        <5> QED
          BY <3>2, <4>1, <5>1, RemaindersDiffer
      <4>3. CASE j < k
        <5>1. head + count + j - 1 < head + count + k - 1 /\ head + count + k - 1 < head + count + j - 1 + Capacity
          BY <2>2, <4>3
        <5> QED
          BY <3>2, <4>1, <5>1, RemaindersDiffer
      <4> QED
        BY <2>2, <4>2, <4>3
    <3> HIDE DEF slot
    <3>3. (CHOOSE k \in 1..taken : slot(k) = slot(j)) = j
      BY <3>2
    <3> QED
      BY <3>1, <3>3
  <2>9. ASSUME NEW k \in 1..count
        PROVE  new[(head + k - 1) % Capacity] = data[(head + k - 1) % Capacity]
    <3>1. head + k - 1 \in Nat /\ (head + k - 1) % Capacity \in 0..(Capacity - 1)
      <4>1. head + k - 1 \in Nat
        OBVIOUS
      <4> QED
        BY <4>1, Remainder
    <3>2. ASSUME NEW j \in 1..taken
          PROVE  slot(j) # (head + k - 1) % Capacity
      <4>1. head + count + j - 1 \in Nat /\ head + k - 1 < head + count + j - 1
            /\ head + count + j - 1 < head + k - 1 + Capacity
        BY <2>2
      <4> QED
        BY <3>1, <4>1, RemaindersDiffer
    <3> HIDE DEF slot
    <3> QED
      BY <3>1, <3>2
  <2>10. ASSUME NEW k \in 1..(count + taken)
         PROVE  new[(head + k - 1) % Capacity] = (served + k) % Keys
    <3>1. CASE k <= count
      <4>1. k \in 1..count
        BY <3>1, <2>2
      <4> HIDE DEF new
      <4> QED
        BY <2>5, <2>9, <4>1
    <3>2. CASE ~(k <= count)
      <4>1. k - count \in 1..taken /\ k - count \in Nat
        BY <2>2, <3>2
      <4>2. slot(k - count) = (head + k - 1) % Capacity
        BY <2>2
      <4>3. (typed + (k - count)) % Keys = (served + (count + (k - count))) % Keys /\ count + (k - count) = k
        BY <2>2, <2>6, <4>1
      <4> HIDE DEF new, slot
      <4> QED
        BY <2>8, <4>1, <4>2, <4>3
    <3> QED
      BY <3>1, <3>2
  <2> HIDE DEF new
  <2>11. rx'.data = new /\ rx'.head = head /\ rx'.count = count + taken
    BY <2>4
  <2> QED
    BY <2>4, <2>7, <2>10, <2>11 DEF KeyQueue, Slot
<1> QED
  BY <1>1, <1>2

\* A handler reads the next key or none, and every other step leaves the queue
\* alone.
LEMMA NextKeepsKeys ==
  ASSUME KeyTypes, KeyQueue, [Next]_vars
  PROVE  KeyQueue'
<1>1. CASE ServeKey
  BY <1>1, ReadTakesNext DEF ServeKey
<1>2. CASE ServeFails
  <2>1. CASE ReadKey
    BY <1>2, <2>1, ReadTakesNext DEF ServeFails
  <2>2. CASE UNCHANGED <<rx, served, reads, paused>>
    BY <1>2, <2>2 DEF ServeFails, KeyQueue, Slot
  <2> QED
    BY <1>2, <2>1, <2>2 DEF ServeFails
<1>3. CASE PollKeys
  BY <1>3, PollKeysAppends
<1>4. CASE ~ServeKey /\ ~ServeFails /\ ~PollKeys
  <2>1. UNCHANGED <<rx, typed, served, reads>>
    BY <1>4 DEF Next, vars, keyVars, Poll, Served, PollDraw, PollSkip,
       Loop, WaitBefore, WaitDrawn, WaitGpu, SetFrame, Launch, Generate, Generated, SwapFrame, WaitSwap,
       CountFrame, Stop, Join, Gpu, GpuLook, GpuCount, GpuSubmit, GpuDrawn, GpuClear
  <2> QED
    BY <2>1 DEF KeyQueue, Slot
<1> QED
  BY <1>1, <1>2, <1>3, <1>4

\* The handler of the receive interrupt is given the keys in the order they
\* were typed, none of them twice and none left out: at its n-th read the n-th
\* key received, and all of them before the queue is empty, however many arrive
\* between two polls, wherever the ring stands and whether or not a handler fails.
THEOREM KeysServedInOrder == Spec => []KeysInOrder
<1>1. Init => KeyQueue
  BY DEF Init, KeyQueue, vizard_uart_init
<1>2. KeyTypes /\ KeyQueue /\ [Next]_vars => KeyQueue'
  BY NextKeepsKeys
<1>3. KeyTypes /\ KeyQueue => KeysInOrder
  <2> SUFFICES ASSUME KeyTypes, KeyQueue, ~RxValid PROVE served = typed
    BY DEF KeysInOrder, KeyQueue
  <2>1. typed = (served + 0) % Keys
    BY DEF KeyQueue, RxValid
  <2>2. served \in 0..(Keys - 1) /\ Keys \in Nat \ {0}
    BY DEF KeyTypes
  <2>3. (served + 0) % Keys = served
    BY ONLY <2>2
  <2> QED
    BY <2>1, <2>3
<1>4. IInv => KeyTypes
  BY DEF IInv, TypeOK
<1> QED
  BY <1>1, <1>2, <1>3, <1>4, LoopInvariant, PTL DEF Spec

HIDE VizardAssumption DEF vizard_host_report_error

-----------------------------------------------------------------------------
(* The interpreter: bits *)

\* The powers are what their recursion says.
LEMMA Powers ==
  /\ WordBits \in Nat \ {0} /\ WordBits >= 4 /\ WordBits = 4 * ByteBits
  /\ \A i \in 0..WordBits : Power[i] \in Nat \ {0}
  /\ Power[0] = 1
  /\ \A i \in 0..(WordBits - 1) : i + 1 \in 0..WordBits /\ Power[i + 1] = 2 * Power[i]
<1> DEFINE X == Nat \ {0}
           double == [i \in Int |-> [x \in X |-> 2 * x]]
           IsPower(f) == f = [i \in 0..WordBits |-> IF i = 0 THEN 1 ELSE 2 * f[i - 1]]
<1>1. WordBits \in Nat \ {0} /\ WordBits >= 4 /\ WordBits = 4 * ByteBits
  BY BitsAssumption DEF WordBits
<1>2. PICK f \in [0..WordBits -> X] : FromTo(f, 0, WordBits, 1, double)
  <2>1. 1 \in X /\ double \in [Int -> [X -> X]] OBVIOUS
  <2>2. 0 \in Int /\ WordBits \in Int /\ 0 <= WordBits BY <1>1
  <2> HIDE DEF X, double
  <2> QED BY <2>1, <2>2, RangeTurns
<1>3. IsPower(f)
  <2>1. ASSUME NEW i \in 0..WordBits
        PROVE  (IF i = 0 THEN 1 ELSE double[i][f[i - 1]]) = (IF i = 0 THEN 1 ELSE 2 * f[i - 1])
    <3>1. CASE i # 0
      <4>1. i - 1 \in 0..WordBits /\ i \in Int BY <1>1, <3>1
      <4>2. f[i - 1] \in X BY <4>1
      <4>3. double[i][f[i - 1]] = 2 * f[i - 1] BY <4>1, <4>2, Zenon
      <4> QED BY <3>1, <4>3
    <3> QED BY <3>1
  <2>2. f = [i \in 0..WordBits |-> IF i = 0 THEN 1 ELSE double[i][f[i - 1]]]
    BY <1>2 DEF FromTo
  <2> HIDE DEF double
  <2> QED BY <2>1, <2>2, Zenon
<1>4. IsPower(Power)
  <2>1. Power = CHOOSE g : IsPower(g) BY DEF Power
  <2> HIDE DEF IsPower
  <2> QED BY <1>3, <2>1
<1>5. ASSUME NEW i \in 0..WordBits PROVE Power[i] = IF i = 0 THEN 1 ELSE 2 * Power[i - 1]
  BY <1>4
<1> HIDE DEF IsPower
<1>6. 0 \in 0..WordBits /\ Power[0] = 1 BY <1>1, <1>5
<1>7. ASSUME NEW i \in 0..(WordBits - 1)
      PROVE  i + 1 \in 0..WordBits /\ Power[i + 1] = 2 * Power[i]
  <2>1. i + 1 \in 0..WordBits /\ i + 1 # 0 /\ (i + 1) - 1 = i BY <1>1
  <2> QED BY <1>5, <2>1
<1> DEFINE S == {i \in Int : Power[i] \in X}
<1>8. \A i \in 0..WordBits : i \in S
  <2>1. 0 \in S BY <1>6
  <2>2. ASSUME NEW i \in 0..(WordBits - 1), i \in S PROVE i + 1 \in S BY <1>7, <2>2
  <2>3. 0 \in Int /\ WordBits \in Int BY <1>1
  <2> HIDE DEF S
  <2> QED BY <2>1, <2>2, <2>3, RangeInductive
<1> QED BY <1>1, <1>6, <1>7, <1>8

\* Powers multiply.
LEMMA PowersMultiply ==
  ASSUME NEW i \in Nat, NEW j \in Nat, i + j <= WordBits
  PROVE  Power[i + j] = Power[i] * Power[j]
<1> DEFINE S == {k \in Int : Power[i + k] = Power[i] * Power[k]}
<1>1. WordBits \in Nat /\ i \in 0..WordBits /\ 0 \in Int /\ j \in Int BY Powers
<1>2. 0 \in S
  <2>1. PICK p \in Nat : p = Power[i] BY <1>1, Powers
  <2>2. i + 0 = i /\ p * 1 = p /\ Power[0] = 1 BY Powers
  <2> QED BY <2>1, <2>2
<1>3. ASSUME NEW k \in 0..(j - 1), k \in S PROVE k + 1 \in S
  <2>1. /\ i + k \in 0..(WordBits - 1) /\ k \in 0..(WordBits - 1) /\ k \in 0..WordBits
        /\ i + (k + 1) = (i + k) + 1
    BY <1>1
  <2>2. Power[i + (k + 1)] = 2 * Power[i + k] /\ Power[k + 1] = 2 * Power[k] BY <2>1, Powers
  <2>3. PICK p \in Nat : p = Power[i] BY <1>1, Powers
  <2>4. PICK q \in Nat : q = Power[k] BY <2>1, Powers
  <2>5. Power[i + k] = p * q BY <1>3, <2>3, <2>4
  <2>6. 2 * (p * q) = p * (2 * q) OBVIOUS
  <2>7. Power[i + (k + 1)] = Power[i] * Power[k + 1] BY <2>2, <2>3, <2>4, <2>5, <2>6, Zenon
  <2> QED BY <2>7
<1> HIDE DEF S
<1>4. \A k \in 0..j : k \in S BY <1>1, <1>2, <1>3, RangeInductive
<1>5. j \in 0..j OBVIOUS
<1> QED BY <1>4, <1>5 DEF S

\* A bit is 0 or 1.
LEMMA BitIs ==
  ASSUME NEW a \in Nat, NEW k \in 0..WordBits
  PROVE  Bit(a, k) \in {0, 1}
<1>1. PICK p \in Nat \ {0} : p = Power[k] BY Powers
<1>2. PICK q \in Nat : q = a \div p BY <1>1
<1>3. q % 2 \in {0, 1} OBVIOUS
<1> QED BY <1>1, <1>2, <1>3 DEF Bit

\* A higher power changes no lower bit, and is the bit at its own place.
LEMMA BitBelow ==
  ASSUME NEW a \in Nat, NEW j \in Nat, NEW k \in Nat, j < k, k < WordBits, NEW b \in {0, 1}
  PROVE  Bit(a + b * Power[k], j) = Bit(a, j)
<1>1. WordBits \in Nat /\ j \in 0..WordBits /\ (k - j) - 1 \in 0..(WordBits - 1)
      /\ k - j \in Nat /\ j + (k - j) = k /\ ((k - j) - 1) + 1 = k - j /\ k - j \in 0..WordBits
  BY Powers
<1>2. PICK p \in Nat \ {0} : p = Power[j] BY <1>1, Powers
<1>3. PICK t \in Nat : t = Power[(k - j) - 1] BY <1>1, Powers
<1>4. Power[k - j] = 2 * t BY <1>1, <1>3, Powers
<1>5. Power[k] = p * (2 * t)
  <2>1. Power[j + (k - j)] = Power[j] * Power[k - j] BY <1>1, PowersMultiply
  <2> QED BY <1>1, <1>2, <1>4, <2>1, Zenon
<1>6. PICK q \in Nat, r \in 0..(p - 1) : a = p * q + r BY <1>2, Quotient
<1>7. a \div p = q BY <1>2, <1>6, QuotientOf
<1>8. PICK u \in Nat : u = q + b * (2 * t) /\ u % 2 = q % 2
  <2>1. CASE b = 0 BY <2>1
  <2>2. CASE b = 1
    <3>1. (q + 2 * t) % 2 = q % 2 OBVIOUS
    <3> QED BY <2>2, <3>1
  <2> QED BY <2>1, <2>2
<1>9. a + b * Power[k] = p * u + r
  <2>1. CASE b = 0
    <3>1. u = q /\ a + b * Power[k] = a
      <4>1. PICK w \in Nat : w = Power[k] BY <1>1, Powers
      <4>2. 0 * w = 0 /\ 0 * (2 * t) = 0 OBVIOUS
      <4> QED BY <1>8, <2>1, <4>1, <4>2
    <3> QED BY <1>6, <3>1
  <2>2. CASE b = 1
    <3>1. p * (q + 2 * t) = p * q + p * (2 * t) OBVIOUS
    <3>2. PICK y, z \in Nat : y = p * q /\ z = p * (2 * t) BY <1>2
    <3>3. u = q + 2 * t BY <1>8, <2>2
    <3>4. b * Power[k] = z BY <1>5, <2>2, <3>2
    <3> QED BY <1>6, <3>1, <3>2, <3>3, <3>4
  <2> QED BY <2>1, <2>2
<1>10. (p * u + r) \div p = u BY <1>2, <1>6, <1>8, QuotientOf
<1> QED BY <1>2, <1>7, <1>8, <1>9, <1>10 DEF Bit

\* The higher power's bit at its place.
LEMMA BitAt ==
  ASSUME NEW k \in 0..WordBits, NEW a \in Nat, a < Power[k], NEW b \in {0, 1}
  PROVE  Bit(a + b * Power[k], k) = b
<1>1. PICK p \in Nat \ {0} : p = Power[k] BY Powers
<1>2. a \in 0..(p - 1) /\ b \in Nat BY <1>1
<1>3. (p * b + a) \div p = b BY <1>1, <1>2, QuotientOf
<1>4. p * b + a = a + b * p BY <1>1
<1>5. b % 2 = b OBVIOUS
<1> QED BY <1>1, <1>3, <1>4, <1>5 DEF Bit

\* Adding a bit at the top of a remainder.
LEMMA BitOnTop ==
  ASSUME NEW a \in Nat, NEW k \in 0..(WordBits - 1)
  PROVE  a % Power[k + 1] = (a % Power[k]) + Bit(a, k) * Power[k]
<1>1. PICK p \in Nat \ {0} : p = Power[k] /\ Power[k + 1] = 2 * p
  <2>1. k \in 0..WordBits BY Powers
  <2> QED BY <2>1, Powers
<1>2. PICK q \in Nat, r \in 0..(p - 1) : a = p * q + r BY <1>1, Quotient
<1>3. a \div p = q /\ a % p = r BY <1>1, <1>2, QuotientOf, RemainderOf
<1>4. PICK h \in Nat, b \in {0, 1} : q = 2 * h + b /\ q % 2 = b
  <2>1. q = 2 * (q \div 2) + (q % 2) /\ q \div 2 \in Nat /\ q % 2 \in {0, 1} OBVIOUS
  <2> QED BY <2>1
<1>5. PICK s \in Nat : s = r + b * p /\ s < 2 * p
  <2>1. CASE b = 0 BY <1>2, <2>1
  <2>2. CASE b = 1 BY <1>2, <2>2
  <2> QED BY <2>1, <2>2
<1>6. a = (2 * p) * h + s
  <2>1. p * (2 * h + b) = (2 * p) * h + b * p OBVIOUS
  <2>2. PICK y, z \in Nat : y = (2 * p) * h /\ z = b * p BY <1>1
  <2> QED BY <1>2, <1>4, <1>5, <2>1, <2>2
<1>7. a % (2 * p) = s
  <2>0. s < 2 * p BY <1>5, Zenon
  <2>1. 2 * p \in Nat \ {0} /\ s \in 0..(2 * p - 1) BY <1>1, <2>0
  <2>2. PICK m \in Nat \ {0} : m = 2 * p BY <2>1
  <2>3. (m * h + s) % m = s BY <2>1, <2>2, RemainderOf
  <2> QED BY <1>6, <2>2, <2>3
<1> QED BY <1>1, <1>3, <1>4, <1>5, <1>7 DEF Bit

\* A bit is set.
On(a, k) == Bit(a, k) = 1
Places == 0..(WordBits - 1)

\* The sum of the bits, as its recursion makes it.
LEMMA SumOfBits ==
  ASSUME NEW bits \in [Places -> {0, 1}]
  PROVE  \E f \in [0..WordBits -> Nat] :
           /\ Number(bits) = f[WordBits]
           /\ f[0] = 0
           /\ \A k \in Places : k + 1 \in 0..WordBits /\ f[k + 1] = f[k] + bits[k] * Power[k]
<1> DEFINE add == [i \in Int |-> [x \in Nat |-> IF i - 1 \in Places THEN x + bits[i - 1] * Power[i - 1] ELSE x]]
           IsSum(g) == g = [k \in 0..WordBits |-> IF k = 0 THEN 0 ELSE g[k - 1] + bits[k - 1] * Power[k - 1]]
           sum == CHOOSE g : IsSum(g)
<1>1. WordBits \in Nat /\ 0 \in Int /\ WordBits \in Int /\ 0 <= WordBits BY Powers
<1>2. add \in [Int -> [Nat -> Nat]]
  <2>1. ASSUME NEW j \in Places PROVE bits[j] * Power[j] \in Nat
    <3>1. bits[j] \in Nat OBVIOUS
    <3>2. Power[j] \in Nat BY <1>1, Powers DEF Places
    <3> QED BY <3>1, <3>2
  <2>2. ASSUME NEW i \in Int, NEW x \in Nat
        PROVE  (IF i - 1 \in Places THEN x + bits[i - 1] * Power[i - 1] ELSE x) \in Nat
    <3>1. CASE i - 1 \in Places
      <4>1. PICK y \in Nat : y = bits[i - 1] * Power[i - 1] BY <2>1, <3>1
      <4> QED BY <3>1, <4>1
    <3> QED BY <3>1
  <2> QED BY <2>2, Zenon
<1>3. PICK f \in [0..WordBits -> Nat] : FromTo(f, 0, WordBits, 0, add)
  <2> HIDE DEF add
  <2> QED BY <1>1, <1>2, RangeTurns
<1>4. IsSum(f)
  <2>1. ASSUME NEW k \in 0..WordBits
        PROVE  (IF k = 0 THEN 0 ELSE add[k][f[k - 1]])
                 = (IF k = 0 THEN 0 ELSE f[k - 1] + bits[k - 1] * Power[k - 1])
    <3>1. CASE k # 0
      <4>1. k - 1 \in 0..WordBits /\ k - 1 \in Places /\ k \in Int BY <1>1, <3>1 DEF Places
      <4>2. f[k - 1] \in Nat BY <4>1
      <4>3. add[k][f[k - 1]] = f[k - 1] + bits[k - 1] * Power[k - 1] BY <4>1, <4>2, Zenon
      <4> QED BY <3>1, <4>3
    <3> QED BY <3>1
  <2>2. f = [k \in 0..WordBits |-> IF k = 0 THEN 0 ELSE add[k][f[k - 1]]] BY <1>3 DEF FromTo
  <2> HIDE DEF add
  <2> QED BY <2>1, <2>2, Zenon
<1>5. Number(bits) = sum[WordBits] BY DEF Number
<1>6. IsSum(sum)
  <2> HIDE DEF IsSum
  <2> QED BY <1>4
<1> HIDE DEF sum
<1>7. ASSUME NEW k \in 0..WordBits
      PROVE  sum[k] = IF k = 0 THEN 0 ELSE sum[k - 1] + bits[k - 1] * Power[k - 1]
  BY <1>6
<1>8. ASSUME NEW k \in 0..WordBits
      PROVE  f[k] = IF k = 0 THEN 0 ELSE f[k - 1] + bits[k - 1] * Power[k - 1]
  BY <1>4
<1> HIDE DEF IsSum
<1>9. ASSUME NEW k \in Places
      PROVE  /\ k + 1 \in 0..WordBits /\ k \in 0..WordBits
             /\ f[k + 1] = f[k] + bits[k] * Power[k] /\ sum[k + 1] = sum[k] + bits[k] * Power[k]
  <2>1. k + 1 \in 0..WordBits /\ k \in 0..WordBits /\ k + 1 # 0 /\ (k + 1) - 1 = k BY <1>1 DEF Places
  <2> QED BY <1>7, <1>8, <2>1
<1>10. 0 \in 0..WordBits /\ f[0] = 0 /\ sum[0] = 0 BY <1>1, <1>7, <1>8
<1> DEFINE S == {k \in Int : sum[k] = f[k]}
<1>11. WordBits \in S
  <2>1. 0 \in S BY <1>10
  <2>2. ASSUME NEW k \in 0..(WordBits - 1), k \in S PROVE k + 1 \in S BY <1>9, <2>2 DEF Places
  <2> HIDE DEF S
  <2>3. \A k \in 0..WordBits : k \in S BY <1>1, <2>1, <2>2, RangeInductive
  <2> QED BY <1>1, <2>3
<1> QED BY <1>5, <1>9, <1>10, <1>11

\* Its bits are the bits it was made of.
LEMMA NumberBits ==
  ASSUME NEW bits \in [Places -> {0, 1}]
  PROVE  Number(bits) \in Word /\ \A j \in Places : Bit(Number(bits), j) = bits[j]
<1>1. PICK f \in [0..WordBits -> Nat] :
        /\ Number(bits) = f[WordBits]
        /\ f[0] = 0
        /\ \A k \in Places : k + 1 \in 0..WordBits /\ f[k + 1] = f[k] + bits[k] * Power[k]
  BY SumOfBits
<1>2. WordBits \in Nat /\ 0 \in Int /\ WordBits \in Int BY Powers
<1> DEFINE Good(k) == f[k] < Power[k] /\ \A j \in 0..(k - 1) : Bit(f[k], j) = bits[j]
           S == {k \in Int : Good(k)}
<1>3. 0 \in S BY <1>1, Powers
<1>4. ASSUME NEW k \in 0..(WordBits - 1), k \in S PROVE k + 1 \in S
  <2>1. k \in Places /\ k \in 0..WordBits /\ k \in Nat /\ k < WordBits BY <1>2 DEF Places
  <2>2. PICK a \in Nat : a = f[k] BY <2>1
  <2>3. PICK b \in {0, 1} : b = bits[k] BY <2>1
  <2>4. f[k + 1] = a + b * Power[k] BY <1>1, <2>1, <2>2, <2>3
  <2>5. a < Power[k] /\ \A j \in 0..(k - 1) : Bit(a, j) = bits[j] BY <1>4, <2>2
  <2>6. f[k + 1] < Power[k + 1]
    <3>1. PICK p \in Nat : p = Power[k] BY <2>1, Powers
    <3>2. Power[k + 1] = 2 * p BY <2>1, <3>1, Powers DEF Places
    <3>3. b * p <= p BY <2>3, <3>1
    <3>4. PICK y \in Nat : y = b * p BY <2>3, <3>1
    <3> QED BY <2>4, <2>5, <3>1, <3>2, <3>3, <3>4
  <2>7. ASSUME NEW j \in 0..k PROVE Bit(f[k + 1], j) = bits[j]
    <3>1. CASE j = k
      <4>1. Bit(a + b * Power[k], k) = b BY <2>1, <2>5, BitAt
      <4> QED BY <2>3, <2>4, <3>1, <4>1
    <3>2. CASE j # k
      <4>1. j \in Nat /\ j < k /\ j \in 0..(k - 1) BY <3>2
      <4>2. Bit(a + b * Power[k], j) = Bit(a, j) BY <2>1, <4>1, BitBelow
      <4> QED BY <2>4, <2>5, <4>1, <4>2
    <3> QED BY <3>1, <3>2
  <2>8. (k + 1) - 1 = k /\ k + 1 \in Int OBVIOUS
  <2> QED BY <2>6, <2>7, <2>8
<1> HIDE DEF S
<1>5. \A k \in 0..WordBits : k \in S BY <1>2, <1>3, <1>4, RangeInductive
<1>6. WordBits \in 0..WordBits /\ WordBits \in S BY <1>2, <1>5
<1>7. Good(WordBits) BY <1>6 DEF S
<1>8. f[WordBits] \in Nat /\ Wide(4) = Power[WordBits] /\ Power[WordBits] \in Nat
  BY <1>6, Powers DEF Wide, WordBits
<1> QED BY <1>1, <1>7, <1>8 DEF Word, Places

\* Words with the same bits are the same.
LEMMA SameBits ==
  ASSUME NEW a \in Word, NEW b \in Word, \A k \in Places : On(a, k) <=> On(b, k)
  PROVE  a = b
<1>1. WordBits \in Nat /\ 0 \in Int /\ WordBits \in Int /\ WordBits \in 0..WordBits BY Powers
<1>2. Wide(4) = Power[WordBits] /\ Power[WordBits] \in Nat \ {0} BY <1>1, Powers DEF Wide, WordBits
<1>3. a \in Nat /\ b \in Nat /\ a < Power[WordBits] /\ b < Power[WordBits] BY <1>2 DEF Word
<1> DEFINE S == {k \in Int : a % Power[k] = b % Power[k]}
<1>4. 0 \in S
  <2>1. a % 1 = 0 /\ b % 1 = 0 BY <1>3
  <2> QED BY <2>1, Powers
<1>5. ASSUME NEW k \in 0..(WordBits - 1), k \in S PROVE k + 1 \in S
  <2>1. k \in Places /\ k \in 0..WordBits BY <1>1 DEF Places
  <2>2. Bit(a, k) = Bit(b, k) BY <1>3, <2>1, BitIs DEF On
  <2>3. /\ a % Power[k + 1] = (a % Power[k]) + Bit(a, k) * Power[k]
        /\ b % Power[k + 1] = (b % Power[k]) + Bit(b, k) * Power[k]
    BY <1>3, BitOnTop
  <2>4. a % Power[k] = b % Power[k] BY <1>5
  <2>5. a % Power[k + 1] = b % Power[k + 1] BY <2>2, <2>3, <2>4, Zenon
  <2>6. k + 1 \in Int OBVIOUS
  <2> QED BY <2>5, <2>6
<1> HIDE DEF S
<1>6. \A k \in 0..WordBits : k \in S BY <1>1, <1>4, <1>5, RangeInductive
<1>7. a % Power[WordBits] = b % Power[WordBits] BY <1>1, <1>6 DEF S
<1>8. PICK w \in Nat \ {0} : w = Power[WordBits] BY <1>2
<1>9. a % w = a /\ b % w = b BY <1>3, <1>8
<1> QED BY <1>7, <1>8, <1>9

\* The bits of the bitwise operators.
LEMMA AndOn ==
  ASSUME NEW a \in Nat, NEW b \in Nat
  PROVE  And(a, b) \in Word /\ \A k \in Places : On(And(a, b), k) <=> On(a, k) /\ On(b, k)
<1> DEFINE bits == [k \in 0..(WordBits - 1) |-> Bit(a, k) * Bit(b, k)]
<1>1. ASSUME NEW k \in Places PROVE Bit(a, k) \in {0, 1} /\ Bit(b, k) \in {0, 1}
  <2>1. k \in 0..WordBits BY Powers DEF Places
  <2> QED BY <2>1, BitIs
<1>2. ASSUME NEW k \in Places PROVE Bit(a, k) * Bit(b, k) \in {0, 1} BY <1>1
<1>3. bits \in [Places -> {0, 1}] BY <1>2, Zenon DEF Places
<1>4. And(a, b) = Number(bits) BY DEF And
<1>5. ASSUME NEW k \in Places PROVE bits[k] = 1 <=> On(a, k) /\ On(b, k)
  <2>1. bits[k] = Bit(a, k) * Bit(b, k) BY DEF Places
  <2>2. PICK x \in {0, 1} : x = Bit(a, k) BY <1>1
  <2>3. PICK y \in {0, 1} : y = Bit(b, k) BY <1>1
  <2>4. x * y = 1 <=> x = 1 /\ y = 1 OBVIOUS
  <2> HIDE DEF bits
  <2> QED BY <2>1, <2>2, <2>3, <2>4, Zenon DEF On
<1> HIDE DEF bits
<1> QED BY <1>3, <1>4, <1>5, NumberBits DEF On

\* The bits of an or.
LEMMA OrOn ==
  ASSUME NEW a \in Nat, NEW b \in Nat
  PROVE  Or(a, b) \in Word /\ \A k \in Places : On(Or(a, b), k) <=> On(a, k) \/ On(b, k)
<1> DEFINE bits == [k \in 0..(WordBits - 1) |-> IF Bit(a, k) + Bit(b, k) > 0 THEN 1 ELSE 0]
<1>1. ASSUME NEW k \in Places PROVE Bit(a, k) \in {0, 1} /\ Bit(b, k) \in {0, 1}
  <2>1. k \in 0..WordBits BY Powers DEF Places
  <2> QED BY <2>1, BitIs
<1>3. bits \in [Places -> {0, 1}] BY DEF Places
<1>4. Or(a, b) = Number(bits) BY DEF Or
<1>5. ASSUME NEW k \in Places PROVE bits[k] = 1 <=> On(a, k) \/ On(b, k)
  <2>1. bits[k] = IF Bit(a, k) + Bit(b, k) > 0 THEN 1 ELSE 0 BY DEF Places
  <2> QED BY <1>1, <2>1 DEF On
<1> HIDE DEF bits
<1> QED BY <1>3, <1>4, <1>5, NumberBits DEF On

\* An exclusive or is a word.
LEMMA XorIs ==
  ASSUME NEW a \in Nat, NEW b \in Nat
  PROVE  Xor(a, b) \in Word
<1> DEFINE bits == [k \in 0..(WordBits - 1) |-> (Bit(a, k) + Bit(b, k)) % 2]
<1>1. ASSUME NEW k \in Places PROVE (Bit(a, k) + Bit(b, k)) % 2 \in {0, 1}
  <2>1. k \in 0..WordBits BY Powers DEF Places
  <2>2. Bit(a, k) \in {0, 1} /\ Bit(b, k) \in {0, 1} BY <2>1, BitIs
  <2> QED BY <2>2
<1>3. bits \in [Places -> {0, 1}] BY <1>1, Zenon DEF Places
<1>4. Xor(a, b) = Number(bits) BY DEF Xor
<1> HIDE DEF bits
<1> QED BY <1>3, <1>4, NumberBits

\* The complement has every other bit.
LEMMA InvertedOn ==
  ASSUME NEW a \in Word
  PROVE  Inverted(a) \in Word /\ \A k \in Places : On(Inverted(a), k) <=> ~On(a, k)
<1>1. PICK w \in Nat \ {0} : w = Wide(4) /\ w = Power[WordBits]
  <2>1. WordBits \in 0..WordBits BY Powers
  <2> QED BY <2>1, Powers DEF Wide, WordBits
<1>2. a \in Nat /\ a < w /\ Inverted(a) = w - 1 - a /\ Inverted(a) \in Word BY <1>1 DEF Word, Inverted
<1>3. ASSUME NEW k \in Places PROVE On(Inverted(a), k) <=> ~On(a, k)
  <2>1. k \in 0..WordBits /\ k \in 0..(WordBits - 1) BY Powers DEF Places
  <2>2. PICK p \in Nat \ {0} : p = Power[k] /\ Power[k + 1] = 2 * p BY <2>1, Powers
  <2>3. PICK m \in Nat : w = (2 * p) * m
    <3>1. k + 1 \in Nat /\ WordBits - (k + 1) \in Nat /\ (k + 1) + (WordBits - (k + 1)) = WordBits
          /\ WordBits - (k + 1) \in 0..WordBits
      BY <2>1, Powers
    <3>2. WordBits <= WordBits BY Powers
    <3>3. Power[(k + 1) + (WordBits - (k + 1))] = Power[k + 1] * Power[WordBits - (k + 1)]
      BY <3>1, <3>2, PowersMultiply
    <3>4. Power[WordBits - (k + 1)] \in Nat BY <3>1, Powers
    <3> QED BY <1>1, <2>2, <3>1, <3>3, <3>4
  <2>4. PICK q \in Nat, r \in 0..(p - 1) : a = p * q + r BY <1>2, <2>2, Quotient
  <2>5. a \div p = q BY <2>2, <2>4, QuotientOf
  <2>6. PICK s \in Nat : s = p - 1 - r /\ s \in 0..(p - 1) BY <2>2, <2>4
  <2>7. PICK n \in Nat : n = 2 * m - 1 - q /\ w - 1 - a = p * n + s
    <3>1. PICK y, z \in Nat : y = p * q /\ z = p * (2 * m) BY <2>2, <2>3, <2>4
    <3>2. z = w
      <4>1. p * (2 * m) = (2 * p) * m OBVIOUS
      <4> QED BY <2>3, <3>1, <4>1
    <3>3. q < 2 * m
      <4>1. ASSUME q >= 2 * m PROVE FALSE
        <5>1. PICK d \in Nat : q = 2 * m + d BY <4>1
        <5>2. p * (2 * m + d) = p * (2 * m) + p * d OBVIOUS
        <5>3. p * d \in Nat BY <2>2
        <5>4. y >= z BY <3>1, <5>1, <5>2, <5>3
        <5> QED BY <1>2, <2>4, <3>1, <3>2, <5>4
      <4> QED BY <4>1
    <3>4. PICK n \in Nat : n = 2 * m - 1 - q BY <3>3
    <3>5. p * n = z - p - y
      <4>1. 2 * m = n + q + 1 BY <3>4
      <4>2. p * (n + q + 1) = p * n + p * q + p OBVIOUS
      <4>3. PICK u \in Nat : u = p * n BY <2>2
      <4>4. z = u + y + p BY <3>1, <4>1, <4>2, <4>3
      <4> QED BY <4>3, <4>4
    <3>6. PICK u \in Nat : u = p * n BY <2>2
    <3> QED BY <2>4, <2>6, <3>1, <3>2, <3>4, <3>5, <3>6
  <2>8. (w - 1 - a) \div p = n
    <3>1. (p * n + s) \div p = n BY <2>2, <2>6, QuotientOf
    <3> QED BY <2>7, <3>1
  <2>9. n % 2 = 1 <=> ~(q % 2 = 1) BY <2>7
  <2> QED BY <1>2, <2>2, <2>5, <2>8, <2>9, Zenon DEF On, Bit
<1> QED BY <1>2, <1>3

\* No bit of 0 is set.
LEMMA ZeroOn ==
  ASSUME NEW k \in Places
  PROVE  ~On(0, k)
<1>1. PICK p \in Nat \ {0} : p = Power[k]
  <2>1. k \in 0..WordBits BY Powers DEF Places
  <2> QED BY <2>1, Powers
<1>2. 0 \div p = 0 OBVIOUS
<1> QED BY <1>1, <1>2 DEF On, Bit

-----------------------------------------------------------------------------
(* Masks of Cause and Status *)

\* A word is a number.
LEMMA WordIsNat == \A a \in Word : a \in Nat
BY DEF Word

\* The hardware's nor is the interpreter's.
LEMMA NorIs ==
  ASSUME NEW a \in Word, NEW b \in Word
  PROVE  And(Inverted(a), Inverted(b)) = Inverted(Or(a, b))
<1>1. Inverted(a) \in Word /\ Inverted(b) \in Word BY InvertedOn
<1>2. a \in Nat /\ b \in Nat /\ Inverted(a) \in Nat /\ Inverted(b) \in Nat BY <1>1, WordIsNat
<1>3. And(Inverted(a), Inverted(b)) \in Word /\ Or(a, b) \in Word BY <1>2, AndOn, OrOn
<1>4. Inverted(Or(a, b)) \in Word BY <1>3, InvertedOn
<1>5. ASSUME NEW k \in Places
      PROVE  On(And(Inverted(a), Inverted(b)), k) <=> On(Inverted(Or(a, b)), k)
  <2>1. On(And(Inverted(a), Inverted(b)), k) <=> On(Inverted(a), k) /\ On(Inverted(b), k) BY <1>2, AndOn
  <2>2. (On(Inverted(a), k) <=> ~On(a, k)) /\ (On(Inverted(b), k) <=> ~On(b, k)) BY InvertedOn
  <2>3. On(Inverted(Or(a, b)), k) <=> ~On(Or(a, b), k) BY <1>3, InvertedOn
  <2>4. On(Or(a, b), k) <=> On(a, k) \/ On(b, k) BY <1>2, OrOn
  <2> QED BY <2>1, <2>2, <2>3, <2>4
<1> QED BY <1>3, <1>4, <1>5, SameBits

\* The two have the same Cause, the timer's bit apart.
TimerApart(c, d) == And(c, Inverted(IM_TIMER)) = And(d, Inverted(IM_TIMER))
AlikeOn(c, d) == \A k \in Places : ~On(IM_TIMER, k) => (On(c, k) <=> On(d, k))

\* The masks of Status and Cause, and their complements.
LEMMA Masks ==
  /\ IM_TIMER \in Word /\ IM_POSSIBLE \in Word /\ IM_GLOBAL \in Word
  /\ Inverted(IM_TIMER) \in Word /\ Inverted(IM_POSSIBLE) \in Word /\ Inverted(IM_GLOBAL) \in Word
  /\ \A k \in Places : /\ On(Inverted(IM_TIMER), k) <=> ~On(IM_TIMER, k)
                       /\ On(Inverted(IM_POSSIBLE), k) <=> ~On(IM_POSSIBLE, k)
<1>1. IM_TIMER \in Word /\ IM_POSSIBLE \in Word /\ IM_GLOBAL \in Word BY RegistersAssumption
<1> QED BY <1>1, InvertedOn

\* That is to have the same bits but the timer's.
LEMMA TimerApartOn ==
  ASSUME NEW c \in Word, NEW d \in Word
  PROVE  TimerApart(c, d) <=> AlikeOn(c, d)
<1>1. c \in Nat /\ d \in Nat /\ Inverted(IM_TIMER) \in Nat BY Masks, WordIsNat
<1>2. /\ And(c, Inverted(IM_TIMER)) \in Word /\ And(d, Inverted(IM_TIMER)) \in Word
      /\ \A k \in Places : /\ On(And(c, Inverted(IM_TIMER)), k) <=> On(c, k) /\ ~On(IM_TIMER, k)
                           /\ On(And(d, Inverted(IM_TIMER)), k) <=> On(d, k) /\ ~On(IM_TIMER, k)
  <2>1. \A k \in Places : On(And(c, Inverted(IM_TIMER)), k) <=> On(c, k) /\ On(Inverted(IM_TIMER), k)
    BY <1>1, AndOn
  <2>2. \A k \in Places : On(And(d, Inverted(IM_TIMER)), k) <=> On(d, k) /\ On(Inverted(IM_TIMER), k)
    BY <1>1, AndOn
  <2> QED BY <1>1, <2>1, <2>2, AndOn, Masks
<1>3. ASSUME TimerApart(c, d) PROVE AlikeOn(c, d)
  BY <1>2, <1>3 DEF TimerApart, AlikeOn
<1>4. ASSUME AlikeOn(c, d) PROVE TimerApart(c, d)
  <2>1. \A k \in Places : On(And(c, Inverted(IM_TIMER)), k) <=> On(And(d, Inverted(IM_TIMER)), k)
    BY <1>2, <1>4 DEF AlikeOn
  <2> QED BY <1>2, <2>1, SameBits DEF TimerApart
<1> QED BY <1>3, <1>4

\* Nothing in common.
LEMMA NothingOn ==
  ASSUME NEW a \in Word, NEW b \in Word, And(a, b) = 0
  PROVE  \A k \in Places : ~(On(a, k) /\ On(b, k))
<1>1. a \in Nat /\ b \in Nat BY WordIsNat
<1> QED BY <1>1, AndOn, ZeroOn

\* Writing Compare clears the timer's bit.
LEMMA ClearsTimer ==
  ASSUME NEW c \in Word
  PROVE  /\ And(c, Inverted(IM_TIMER)) \in Word
         /\ TimerApart(c, And(c, Inverted(IM_TIMER)))
         /\ And(c, IM_TIMER) = 0 => And(c, Inverted(IM_TIMER)) = c
<1>1. c \in Nat /\ Inverted(IM_TIMER) \in Nat /\ IM_TIMER \in Word BY Masks, WordIsNat
<1>2. /\ And(c, Inverted(IM_TIMER)) \in Word
      /\ \A k \in Places : On(And(c, Inverted(IM_TIMER)), k) <=> On(c, k) /\ On(Inverted(IM_TIMER), k)
  BY <1>1, AndOn
<1>3. AlikeOn(c, And(c, Inverted(IM_TIMER))) BY <1>2, Masks DEF AlikeOn
<1>4. ASSUME And(c, IM_TIMER) = 0 PROVE And(c, Inverted(IM_TIMER)) = c
  <2>1. \A k \in Places : ~(On(c, k) /\ On(IM_TIMER, k)) BY <1>1, <1>4, NothingOn
  <2>2. \A k \in Places : On(And(c, Inverted(IM_TIMER)), k) <=> On(c, k) BY <1>2, <2>1, Masks
  <2> QED BY <1>2, <2>2, SameBits
<1> QED BY <1>2, <1>3, <1>4, TimerApartOn

\* Writing Cause, in the two orders of the masks.
Merged(c, v) == Or(And(v, Inverted(IM_POSSIBLE)), And(And(c, v), IM_POSSIBLE))
MergedHere(c, v) == Or(And(v, Inverted(IM_POSSIBLE)), And(And(c, IM_POSSIBLE), v))

\* The bits of what is written to Cause: a pending bit can only be cleared.
LEMMA MergedOn ==
  ASSUME NEW c \in Word, NEW v \in Word
  PROVE  /\ Merged(c, v) \in Word /\ MergedHere(c, v) \in Word
         /\ \A k \in Places :
              /\ On(Merged(c, v), k) <=> On(v, k) /\ (On(IM_POSSIBLE, k) => On(c, k))
              /\ On(MergedHere(c, v), k) <=> On(v, k) /\ (On(IM_POSSIBLE, k) => On(c, k))
<1> DEFINE m == Inverted(IM_POSSIBLE)
           p == IM_POSSIBLE
<1>1. c \in Nat /\ v \in Nat /\ m \in Nat /\ p \in Nat BY Masks, WordIsNat
<1>2. \A k \in Places : On(m, k) <=> ~On(p, k) BY Masks
<1> HIDE DEF m, p
<1>3. And(v, m) \in Word /\ \A k \in Places : On(And(v, m), k) <=> On(v, k) /\ On(m, k) BY <1>1, AndOn
<1>4. And(c, v) \in Word /\ \A k \in Places : On(And(c, v), k) <=> On(c, k) /\ On(v, k) BY <1>1, AndOn
<1>5. And(c, p) \in Word /\ \A k \in Places : On(And(c, p), k) <=> On(c, k) /\ On(p, k) BY <1>1, AndOn
<1>6. And(v, m) \in Nat /\ And(c, v) \in Nat /\ And(c, p) \in Nat BY <1>3, <1>4, <1>5, WordIsNat
<1>7. And(And(c, v), p) \in Word
      /\ \A k \in Places : On(And(And(c, v), p), k) <=> On(And(c, v), k) /\ On(p, k)
  BY <1>1, <1>6, AndOn
<1>8. And(And(c, p), v) \in Word
      /\ \A k \in Places : On(And(And(c, p), v), k) <=> On(And(c, p), k) /\ On(v, k)
  BY <1>1, <1>6, AndOn
<1>9. And(And(c, v), p) \in Nat /\ And(And(c, p), v) \in Nat BY <1>7, <1>8, WordIsNat
<1>10. /\ Or(And(v, m), And(And(c, v), p)) \in Word
       /\ \A k \in Places : On(Or(And(v, m), And(And(c, v), p)), k)
                              <=> On(And(v, m), k) \/ On(And(And(c, v), p), k)
  BY <1>6, <1>9, OrOn
<1>11. /\ Or(And(v, m), And(And(c, p), v)) \in Word
       /\ \A k \in Places : On(Or(And(v, m), And(And(c, p), v)), k)
                              <=> On(And(v, m), k) \/ On(And(And(c, p), v), k)
  BY <1>6, <1>9, OrOn
<1>12. Merged(c, v) = Or(And(v, m), And(And(c, v), p)) /\ MergedHere(c, v) = Or(And(v, m), And(And(c, p), v))
  BY DEF Merged, MergedHere, m, p
<1>13. ASSUME NEW k \in Places
       PROVE  /\ On(Merged(c, v), k) <=> On(v, k) /\ (On(p, k) => On(c, k))
              /\ On(MergedHere(c, v), k) <=> On(v, k) /\ (On(p, k) => On(c, k))
  BY <1>2, <1>3, <1>4, <1>5, <1>7, <1>8, <1>10, <1>11, <1>12
<1> QED BY <1>10, <1>11, <1>12, <1>13 DEF p

\* Equal causes give equal causes; a timer's bit apart stays apart, unless the
\* value written clears it.
LEMMA MergedAlike ==
  ASSUME NEW c \in Word, NEW d \in Word, NEW v \in Word, TimerApart(c, d)
  PROVE  /\ c = d => MergedHere(c, v) = Merged(d, v)
         /\ TimerApart(MergedHere(c, v), Merged(d, v))
         /\ And(v, IM_TIMER) = 0 => MergedHere(c, v) = Merged(d, v)
<1>1. AlikeOn(c, d) BY TimerApartOn
<1>2. MergedHere(c, v) \in Word /\ Merged(d, v) \in Word BY MergedOn
<1>3. ASSUME c = d PROVE MergedHere(c, v) = Merged(d, v)
  <2>1. \A k \in Places : On(MergedHere(c, v), k) <=> On(Merged(d, v), k) BY <1>3, MergedOn
  <2> QED BY <1>2, <2>1, SameBits
<1>4. AlikeOn(MergedHere(c, v), Merged(d, v)) BY <1>1, MergedOn DEF AlikeOn
<1>5. ASSUME And(v, IM_TIMER) = 0 PROVE MergedHere(c, v) = Merged(d, v)
  <2>1. \A k \in Places : ~(On(v, k) /\ On(IM_TIMER, k)) BY <1>5, Masks, NothingOn
  <2>2. \A k \in Places : On(MergedHere(c, v), k) <=> On(Merged(d, v), k) BY <1>1, <2>1, MergedOn DEF AlikeOn
  <2> QED BY <1>2, <2>2, SameBits
<1> QED BY <1>2, <1>3, <1>4, <1>5, TimerApartOn

\* An interrupt sets the same bits.
LEMMA RaisedAlike ==
  ASSUME NEW c \in Word, NEW d \in Word, NEW x \in Word, TimerApart(c, d)
  PROVE  Or(c, x) \in Word /\ Or(d, x) \in Word /\ TimerApart(Or(c, x), Or(d, x))
<1>1. AlikeOn(c, d) BY TimerApartOn
<1>2. c \in Nat /\ d \in Nat /\ x \in Nat BY WordIsNat
<1>3. Or(c, x) \in Word /\ \A k \in Places : On(Or(c, x), k) <=> On(c, k) \/ On(x, k) BY <1>2, OrOn
<1>4. Or(d, x) \in Word /\ \A k \in Places : On(Or(d, x), k) <=> On(d, k) \/ On(x, k) BY <1>2, OrOn
<1>5. AlikeOn(Or(c, x), Or(d, x)) BY <1>1, <1>3, <1>4 DEF AlikeOn
<1> QED BY <1>3, <1>4, <1>5, TimerApartOn

-----------------------------------------------------------------------------
(* Widths *)

\* The widths of bytes, halves and words.
LEMMA Widths ==
  \E b \in Nat, h \in Nat \ {0} :
    /\ b >= 2
    /\ Wide(0) = 1 /\ Wide(1) = b /\ Wide(2) = b * b /\ Wide(3) = b * (b * b)
    /\ Wide(4) = (b * b) * (b * b) /\ Wide(4) = 2 * h
<1>1. /\ ByteBits \in Nat \ {0} /\ WordBits = 4 * ByteBits /\ WordBits \in Nat
  BY Powers, BitsAssumption
<1>2. PICK b \in Nat : b = Power[ByteBits] /\ b >= 2
  <2>1. ByteBits - 1 \in 0..(WordBits - 1) /\ (ByteBits - 1) + 1 = ByteBits
        /\ ByteBits - 1 \in 0..WordBits /\ ByteBits \in 0..WordBits
    BY <1>1
  <2>2. PICK p \in Nat \ {0} : p = Power[ByteBits - 1] BY <2>1, Powers
  <2>3. Power[ByteBits] = 2 * p BY <2>1, <2>2, Powers
  <2> QED BY <2>2, <2>3
<1>3. Power[ByteBits + ByteBits] = b * b
  <2>1. ByteBits \in Nat /\ ByteBits + ByteBits <= WordBits BY <1>1
  <2> QED BY <1>2, <2>1, PowersMultiply
<1>4. 2 * ByteBits = ByteBits + ByteBits /\ 2 * ByteBits \in Nat /\ ByteBits \in Nat
      /\ 3 * ByteBits = ByteBits + 2 * ByteBits /\ ByteBits + 2 * ByteBits <= WordBits
      /\ 4 * ByteBits = 2 * ByteBits + 2 * ByteBits /\ 2 * ByteBits + 2 * ByteBits <= WordBits
      /\ 1 * ByteBits = ByteBits /\ 0 * ByteBits = 0
  BY <1>1
<1>5. Power[2 * ByteBits] = b * b BY <1>3, <1>4
<1>6. Power[3 * ByteBits] = b * (b * b)
  <2>1. Power[ByteBits + 2 * ByteBits] = Power[ByteBits] * Power[2 * ByteBits] BY <1>4, PowersMultiply
  <2> QED BY <1>2, <1>4, <1>5, <2>1, Zenon
<1>7. Power[4 * ByteBits] = (b * b) * (b * b)
  <2>1. Power[2 * ByteBits + 2 * ByteBits] = Power[2 * ByteBits] * Power[2 * ByteBits] BY <1>4, PowersMultiply
  <2> QED BY <1>4, <1>5, <2>1, Zenon
<1>8. PICK h \in Nat \ {0} : Power[WordBits] = 2 * h
  <2>1. WordBits - 1 \in 0..(WordBits - 1) /\ (WordBits - 1) + 1 = WordBits /\ WordBits - 1 \in 0..WordBits
    BY Powers
  <2>2. Power[WordBits - 1] \in Nat \ {0} /\ Power[(WordBits - 1) + 1] = 2 * Power[WordBits - 1] BY <2>1, Powers
  <2> QED BY <2>1, <2>2
<1>9. /\ Wide(0) = 1 /\ Wide(1) = b /\ Wide(2) = b * b /\ Wide(3) = b * (b * b)
      /\ Wide(4) = (b * b) * (b * b) /\ Wide(4) = 2 * h
  BY <1>1, <1>2, <1>4, <1>5, <1>6, <1>7, <1>8, Powers DEF Wide
<1> QED BY <1>2, <1>8, <1>9

\* A byte, a half and a word, in order.
LEMMA WidthsGrow ==
  /\ Wide(0) = 1
  /\ \A n \in {1, 2, 3, 4} : Wide(n) \in Nat \ {0, 1}
  /\ Wide(1) <= Wide(2) /\ Wide(2) <= Wide(4) /\ Wide(1) <= Wide(4)
<1>1. PICK b \in Nat, h \in Nat \ {0} :
        /\ b >= 2
        /\ Wide(0) = 1 /\ Wide(1) = b /\ Wide(2) = b * b /\ Wide(3) = b * (b * b)
        /\ Wide(4) = (b * b) * (b * b) /\ Wide(4) = 2 * h
  BY Widths
<1>2. PICK q \in Nat : q = b * b /\ q >= b /\ q >= 2
  <2>1. b * b >= 2 * b BY <1>1
  <2> QED BY <1>1, <2>1
<1>3. PICK r \in Nat : r = b * q /\ r >= 2
  <2>1. b * q >= 2 * q BY <1>1, <1>2
  <2> QED BY <1>2, <2>1
<1>4. PICK w \in Nat : w = q * q /\ w >= q
  <2>1. q * q >= 2 * q BY <1>2
  <2> QED BY <1>2, <2>1
<1> QED BY <1>1, <1>2, <1>3, <1>4

\* Half of a word is its sign.
LEMMA HalfWord ==
  \E h \in Nat \ {0} : Wide(4) = 2 * h /\ Wide(4) \div 2 = h
<1>1. PICK h \in Nat \ {0} : Wide(4) = 2 * h BY Widths
<1>2. (2 * h) \div 2 = h OBVIOUS
<1> QED BY <1>1, <1>2

\* Numbers compare as words do.
LEMMA SignedWords ==
  ASSUME NEW a \in Word, NEW b \in Word
  PROVE  /\ Signed(a, 4) \in Int
         /\ Signed(a, 4) = Signed(b, 4) <=> a = b
         /\ Signed(0, 4) = 0 /\ 0 \in Word
         /\ Signed(a, 4) < 0 <=> a >= Wide(4) \div 2
         /\ Signed(a, 4) = 0 <=> a = 0
<1>1. PICK h \in Nat \ {0} : Wide(4) = 2 * h /\ Wide(4) \div 2 = h BY HalfWord
<1> QED BY <1>1 DEF Word, Signed

\* What the operators on words return are words.
LEMMA PlusIs ==
  ASSUME NEW a \in Nat, NEW b \in Nat
  PROVE  Plus(a, b) \in Word
BY WidthsGrow DEF Plus, Word

\* A difference is a word.
LEMMA MinusIs ==
  ASSUME NEW a \in Word, NEW b \in Word
  PROVE  Minus(a, b) \in Word
<1>1. a + Wide(4) - b \in Nat BY WidthsGrow DEF Word
<1> QED BY <1>1, WidthsGrow DEF Minus, Word

\* What is left of a number that wraps is a word.
LEMMA WrapIs ==
  ASSUME NEW a \in Nat
  PROVE  a % Wide(4) \in Word
BY WidthsGrow DEF Word

\* A sign-extended byte or half is a word.
LEMMA SExtIs ==
  ASSUME NEW n \in {1, 2}, NEW a \in 0..(Wide(n) - 1)
  PROVE  SExt(a, n) \in Word
<1>1. PICK w, v \in Nat \ {0} : w = Wide(4) /\ v = Wide(n) /\ v <= w BY WidthsGrow
<1> QED BY <1>1 DEF SExt, Word

\* A word shifted right is a word.
LEMMA ShiftIs ==
  ASSUME NEW a \in Word, NEW k \in 0..WordBits
  PROVE  ShiftRight(a, k) \in Word /\ ShiftArithmetic(a, k) \in Word
<1>1. PICK p \in Nat \ {0} : p = Power[k] BY Powers
<1>2. ASSUME NEW b \in Word PROVE ShiftRight(b, k) \in Word
  <2>1. PICK q \in Nat, r \in 0..(p - 1) : b = p * q + r BY <1>1, WordIsNat, Quotient
  <2>2. b \div p = q BY <1>1, <2>1, QuotientOf
  <2>3. p * q >= q BY <1>1
  <2>4. PICK y \in Nat : y = p * q BY <1>1
  <2>5. q <= b BY <2>1, <2>3, <2>4
  <2> QED BY <1>1, <2>2, <2>5, WidthsGrow DEF Word, ShiftRight
<1>3. Inverted(a) \in Word BY InvertedOn
<1>4. ShiftRight(Inverted(a), k) \in Word BY <1>2, <1>3
<1>5. Inverted(ShiftRight(Inverted(a), k)) \in Word BY <1>4, InvertedOn
<1> QED BY <1>2, <1>5 DEF ShiftArithmetic

\* A shift is by less than the bits of a word.
LEMMA ShamtIs ==
  /\ \A a \in Nat : Shamt(a) \in 0..(WordBits - 1)
  /\ \A a \in 0..(WordBits - 1) : Shamt(a) = a
<1>1. WordBits \in Nat \ {0} BY Powers
<1> QED BY <1>1 DEF Shamt

-----------------------------------------------------------------------------
(* Decoding *)

\* What the fields of an instruction say.
LEMMA Decoder ==
  ASSUME NEW i \in Instruction
  PROVE  /\ i.op \in 0..63 /\ i.fn \in 0..63 /\ i.rs \in 0..31 /\ i.rt \in 0..31 /\ i.rd \in 0..31
         /\ i.sh \in 0..(WordBits - 1) /\ i.imm \in 0..(Wide(2) - 1) /\ i.target \in 0..(Power[JumpBits] - 1)
         /\ isRType(i) <=> i.op = 0
         /\ isJType(i) <=> i.op \in {2, 3}
         /\ isMemory(i) <=> i.op \in 32..47
         /\ isMStore(i) <=> i.op \in 40..47
         /\ isMLoad(i) <=> i.op \in 32..39
         /\ isMSigned(i) <=> i.op \in {32, 33}
         /\ isIComp(i) <=> i.op \in 8..15
         /\ isISigned(i) <=> i.op \in 8..11 \cup 32..47
         /\ isRShift(i) <=> i.op = 0 /\ i.fn \in 0..7
         /\ isRShiftI(i) <=> i.op = 0 /\ i.fn \in 0..3
         /\ isROther(i) <=> i.op = 0 /\ i.fn \in 32..47
         /\ isRJump(i) <=> i.op = 0 /\ i.fn \in {8, 9}
         /\ isBSimple(i) <=> i.op \in 4..7
         /\ isBranch0(i) <=> i.op \in {1, 6, 7}
<1>1. /\ i.op \in 0..63 /\ i.fn \in 0..63 /\ i.rs \in 0..31 /\ i.rt \in 0..31 /\ i.rd \in 0..31
      /\ i.sh \in 0..(WordBits - 1) /\ i.imm \in 0..(Wide(2) - 1) /\ i.target \in 0..(Power[JumpBits] - 1)
  BY DEF Instruction
<1>2. isRType(i) <=> i.op = 0 BY DEF isRType
<1>3. isJType(i) <=> i.op \in {2, 3} BY <1>1 DEF isJType
<1>4. isMemory(i) <=> i.op \in 32..47 BY <1>1 DEF isMemory
<1>5. isMStore(i) <=> i.op \in 40..47 BY <1>1 DEF isMStore
<1>6. isMLoad(i) <=> i.op \in 32..39 BY <1>1 DEF isMLoad
<1>7. isMSigned(i) <=> i.op \in {32, 33} BY <1>1 DEF isMSigned
<1>8. isIComp(i) <=> i.op \in 8..15 BY <1>1 DEF isIComp
<1>9. isISigned(i) <=> i.op \in 8..11 \cup 32..47
  <2>1. i.op \div 4 = 2 <=> i.op \in 8..11 BY <1>1
  <2> QED BY <1>4, <2>1 DEF isISigned
<1>10. isRShift(i) <=> i.op = 0 /\ i.fn \in 0..7 BY <1>1, <1>2 DEF isRShift
<1>11. isRShiftI(i) <=> i.op = 0 /\ i.fn \in 0..3
  <2>1. Power[2] = 4
    <3>1. 0 \in 0..(WordBits - 1) /\ 1 \in 0..(WordBits - 1) BY Powers
    <3> QED BY <3>1, Powers
  <2>2. i.fn \in 0..7 => ((i.fn \div 4) % 2 = 0 <=> i.fn \in 0..3) BY <1>1
  <2> QED BY <1>10, <2>1, <2>2 DEF isRShiftI, Bit
<1>12. isROther(i) <=> i.op = 0 /\ i.fn \in 32..47 BY <1>1, <1>2 DEF isROther
<1>13. isRJump(i) <=> i.op = 0 /\ i.fn \in {8, 9} BY <1>1, <1>2 DEF isRJump
<1>14. isBSimple(i) <=> i.op \in 4..7 BY <1>1 DEF isBSimple
<1>15. isBranch0(i) <=> i.op \in {1, 6, 7} BY <1>1 DEF isBranch0, isBranchZr
<1> QED
  BY <1>1, <1>2, <1>3, <1>4, <1>5, <1>6, <1>7, <1>8, <1>9, <1>10, <1>11, <1>12, <1>13, <1>14, <1>15

\* The instructions that only put a result of the ALU in a register.
Computes(i) == \/ i.op = 0 /\ i.fn \in {0, 2, 3, 4, 6, 7, 42, 43} \cup 32..39
               \/ i.op \in 8..15
Reads(i) == i.op = 16 /\ i.rs = 0 /\ i.rd \in {11, 12, 13, 14}
Sets(i) == i.op = 16 /\ i.rs = 4 /\ i.rd \in {9, 11, 12, 13}
Goes(i) == i.op \in 1..7 \/ (i.op = 0 /\ i.fn \in {8, 9})
Loads(i) == i.op \in {32, 33, 35, 36, 37}
Stores(i) == i.op \in {40, 41, 43}

\* An instruction the interpreter knows is one of these.
LEMMA Kinds ==
  ASSUME NEW i \in Instruction, Known(i), ~OnlyHere(i)
  PROVE  Computes(i) \/ Reads(i) \/ Sets(i) \/ Goes(i) \/ Loads(i) \/ Stores(i)
<1>1. i.op \in 0..63 /\ i.fn \in 0..63 /\ i.rs \in 0..31 /\ i.rd \in 0..31 BY Decoder
<1>2. DOMAIN cop0_reg = {9, 11, 12, 13, 14} BY DEF cop0_reg
<1>3. CASE i.op = 0
  <2>1. i.fn \in {0, 2, 3, 4, 6, 7, 8, 9, 42, 43} \cup 32..39 BY <1>3 DEF Known
  <2> QED BY <1>3, <2>1 DEF Computes, Goes
<1>4. CASE i.op = 1 BY <1>4 DEF Goes
<1>5. CASE i.op = 16
  <2>1. i.rs \in {0, 4} /\ i.rd \in {9, 11, 12, 13, 14} BY <1>2, <1>5 DEF Known
  <2> QED BY <1>5, <2>1 DEF Reads, Sets, OnlyHere, isCopRead, isCopWrite, isCType
<1>6. CASE i.op \notin {0, 1, 16}
  <2>1. i.op \in 2..15 \cup {32, 33, 35, 36, 37, 40, 41, 43} BY <1>6 DEF Known
  <2> QED BY <2>1 DEF Computes, Goes, Loads, Stores
<1> QED BY <1>3, <1>4, <1>5, <1>6

\* Where an instruction goes on and what it writes.
LEMMA Controls ==
  ASSUME NEW i \in Instruction, Known(i), ~OnlyHere(i)
  PROVE  /\ isJump(i) <=> i.op \in {2, 3} \/ (i.op = 0 /\ i.fn \in {8, 9})
         /\ isLink(i) <=> i.op = 3 \/ (i.op = 0 /\ i.fn = 9)
         /\ ~isBLink(i)
         /\ isCopRead(i) <=> Reads(i)
         /\ isCopWrite(i) <=> Sets(i)
         /\ DestReg(i) = IF Loads(i) THEN i.rt ELSE Destination(i)
         /\ CmpOp(i) = IF i.op \in 4..7 THEN i.op ELSE IF i.op = 1 THEN 1 + i.rt
                       ELSE IF isJump(i) THEN 3 ELSE 0
         /\ i.op = 1 => i.rt \in {0, 1}
<1>1. i.op \in 0..63 /\ i.fn \in 0..63 /\ i.rs \in 0..31 /\ i.rd \in 0..31 BY Decoder
<1>2. isJump(i) <=> i.op \in {2, 3} \/ (i.op = 0 /\ i.fn \in {8, 9}) BY Decoder DEF isJump
<1>3. i.op = 1 => i.rt \in {0, 1} BY DEF Known
<1>4. ~isBLink(i)
  <2>1. Power[4] = 16
    <3>1. 0 \in 0..(WordBits - 1) /\ 1 \in 0..(WordBits - 1) /\ 2 \in 0..(WordBits - 1) /\ 3 \in 0..(WordBits - 1)
      BY Powers
    <3> QED BY <3>1, Powers
  <2>2. (0 \div 16) % 2 = 0 /\ (1 \div 16) % 2 = 0 OBVIOUS
  <2> QED BY <1>3, <2>1, <2>2 DEF isBLink, isBranchZr, Bit
<1>5. isLink(i) <=> i.op = 3 \/ (i.op = 0 /\ i.fn = 9)
  <2>1. isJType(i) /\ i.op % 2 = 1 <=> i.op = 3 BY Decoder
  <2>2. isRJump(i) /\ i.fn % 2 = 1 <=> i.op = 0 /\ i.fn = 9 BY Decoder
  <2> QED BY <1>4, <2>1, <2>2 DEF isLink
<1>6. /\ isCopRead(i) <=> Reads(i)
      /\ isCopWrite(i) <=> Sets(i)
  <2>1. i.op = 16 => i.rs \in {0, 4} /\ i.rd \in {9, 11, 12, 13, 14} BY DEF Known, cop0_reg
  <2> QED BY <2>1 DEF Reads, Sets, OnlyHere, isCopRead, isCopWrite, isCType
<1>7. CmpOp(i) = IF i.op \in 4..7 THEN i.op ELSE IF i.op = 1 THEN 1 + i.rt
                 ELSE IF isJump(i) THEN 3 ELSE 0
  <2>1. i.op \in 4..7 => i.op % 8 = i.op OBVIOUS
  <2>2. i.op = 1 => i.rt % 2 = i.rt BY <1>3
  <2> QED BY <2>1, <2>2, Decoder DEF CmpOp, isBranchZr
<1>8. DestReg(i) = IF Loads(i) THEN i.rt ELSE Destination(i)
  <2>1. isBranch(i) <=> i.op \in {1} \cup 4..7 BY Decoder DEF isBranch, isBranchZr
  <2>2. CASE Computes(i)
    <3>1. ~isJump(i) /\ ~isBranch(i) /\ ~Loads(i) BY <1>2, <2>1, <2>2 DEF Computes, Loads
    <3>2. DestReg(i) = IF i.op = 0 THEN i.rd ELSE i.rt BY <2>2, <3>1, Decoder DEF DestReg, Computes
    <3>3. Destination(i) = IF i.op = 0 THEN i.rd ELSE i.rt BY <2>2 DEF Destination, Computes
    <3> QED BY <3>1, <3>2, <3>3
  <2>3. CASE Reads(i)
    <3>1. ~isJump(i) /\ ~isBranch(i) /\ ~Loads(i) /\ ~isRType(i) BY <1>2, <2>1, <2>3, Decoder DEF Reads, Loads
    <3>2. DestReg(i) = i.rt BY <1>6, <2>3, <3>1 DEF DestReg
    <3>3. Destination(i) = i.rt BY <2>3 DEF Destination, Reads
    <3> QED BY <3>1, <3>2, <3>3
  <2>4. CASE Sets(i) \/ Stores(i)
    <3>1. ~isJump(i) /\ ~isBranch(i) /\ ~Loads(i) /\ ~isRType(i) /\ ~isMLoad(i) /\ ~isIComp(i) /\ ~isCopRead(i)
      BY <1>2, <1>6, <2>1, <2>4, Decoder DEF Sets, Reads, Loads, Stores
    <3>2. DestReg(i) = 0 BY <3>1 DEF DestReg
    <3>3. Destination(i) = 0 BY <2>4 DEF Destination, Sets, Stores
    <3> QED BY <3>1, <3>2, <3>3
  <2>5. CASE Loads(i)
    <3>1. ~isJump(i) /\ ~isBranch(i) /\ ~isRType(i) /\ isMLoad(i) BY <1>2, <2>1, <2>5, Decoder DEF Loads
    <3> QED BY <2>5, <3>1 DEF DestReg
  <2>6. CASE Goes(i)
    <3>1. (isJump(i) \/ isBranch(i)) /\ ~Loads(i) BY <1>2, <2>1, <2>6 DEF Goes, Loads
    <3>2. DestReg(i) = IF ~isLink(i) THEN 0 ELSE IF i.op = 0 THEN i.rd ELSE RA
      BY <1>5, <3>1, Decoder DEF DestReg
    <3>3. Destination(i) = IF i.op = 0 THEN (IF i.fn = 8 THEN 0 ELSE i.rd) ELSE IF i.op = 3 THEN RA ELSE 0
      BY <2>6 DEF Destination, Goes
    <3> QED BY <1>5, <2>6, <3>1, <3>2, <3>3 DEF Goes
  <2> QED BY <2>2, <2>3, <2>4, <2>5, <2>6, Kinds
<1> QED BY <1>2, <1>3, <1>4, <1>5, <1>6, <1>7, <1>8

\* The registers an instruction reads, and the one it writes.
LEMMA Operands ==
  ASSUME NEW i \in Instruction, Known(i), ~OnlyHere(i)
  PROVE  /\ SRC1(i) = IF i.op \in {2, 3} \/ (i.op = 0 /\ i.fn \in 0..3) THEN 0 ELSE i.rs
         /\ (i.op = 0 /\ i.fn \notin {8, 9}) \/ i.op \in {4, 5} \/ Stores(i) \/ Sets(i) => SRC2(i) = i.rt
         /\ i.op \in {1, 6, 7} => SRC2(i) = 0
         /\ i.op # 16 => i.rs \in Registers /\ SRC1(i) \in Registers
         /\ i.op # 1 => i.rt \in Registers
         /\ Destination(i) \in Registers /\ 0 \in Registers
<1>1. 0 \in Registers /\ RA \in Registers BY RegistersAssumption
<1>2. (i.op # 16 => i.rs \in Registers) /\ (i.op # 1 => i.rt \in Registers) /\ (i.op = 0 => i.rd \in Registers)
  BY DEF Instruction
<1>3. SRC1(i) = IF i.op \in {2, 3} \/ (i.op = 0 /\ i.fn \in 0..3) THEN 0 ELSE i.rs BY Decoder DEF SRC1
<1>4. i.op \div 2 = 2 <=> i.op \in {4, 5}
  <2>1. i.op \in 0..63 BY Decoder
  <2> QED BY <2>1
<1>5. (i.op = 0 /\ i.fn \notin {8, 9}) \/ i.op \in {4, 5} \/ Stores(i) \/ Sets(i) => SRC2(i) = i.rt
  <2>1. i.op = 0 /\ i.fn \notin {8, 9} => i.fn \in 0..7 \cup 32..47 BY DEF Known
  <2>2. Sets(i) => isCopWrite(i) /\ i.op = 16 BY Controls DEF Sets
  <2>3. Stores(i) => i.op \in 40..47 BY DEF Stores
  <2>4. (i.op = 0 /\ i.fn \notin {8, 9}) \/ i.op \in {4, 5} \/ Stores(i) \/ Sets(i) => ~isBranch0(i)
    BY <2>2, <2>3, Decoder
  <2> QED BY <1>4, <2>1, <2>2, <2>3, <2>4, Decoder DEF SRC2
<1>6. i.op \in {1, 6, 7} => SRC2(i) = 0 BY Decoder DEF SRC2
<1>7. Destination(i) \in Registers
  <2>1. CASE i.op = 0 BY <1>1, <1>2, <2>1 DEF Destination
  <2>2. CASE i.op = 3 BY <1>1, <2>2 DEF Destination
  <2>3. CASE i.op \in 8..15 \/ (i.op = 16 /\ i.rs = 0) BY <1>2, <2>3 DEF Destination
  <2>4. CASE i.op # 0 /\ i.op # 3 /\ ~(i.op \in 8..15 \/ (i.op = 16 /\ i.rs = 0))
    BY <1>1, <2>4 DEF Destination
  <2> QED BY <2>1, <2>2, <2>3, <2>4
<1> QED BY <1>1, <1>2, <1>3, <1>5, <1>6, <1>7

\* Bytes of an access.
LEMMA Accesses ==
  ASSUME NEW i \in Instruction, Loads(i) \/ Stores(i)
  PROVE  /\ AccessBytes(i) = SizeOf(i) /\ SizeOf(i) \in {1, 2, 4}
         /\ i.op \in {32, 33} => SizeOf(i) \in {1, 2}
<1>1. i.op \in {32, 33, 35, 36, 37, 40, 41, 43} BY DEF Loads, Stores
<1>2. CASE i.op \in {32, 36, 40}
  <2>1. i.op % 4 = 0 BY <1>2
  <2> QED BY <1>2, <2>1 DEF AccessBytes, SizeOf
<1>3. CASE i.op \in {33, 37, 41}
  <2>1. i.op % 4 = 1 BY <1>3
  <2> QED BY <1>3, <2>1 DEF AccessBytes, SizeOf
<1>4. CASE i.op \in {35, 43}
  <2>1. i.op % 4 = 3 BY <1>4
  <2> QED BY <1>4, <2>1 DEF AccessBytes, SizeOf
<1> QED BY <1>1, <1>2, <1>3, <1>4

\* What the ALU is asked to do.
LEMMA Operations ==
  ASSUME NEW i \in Instruction
  PROVE  /\ i.op = 0 /\ i.fn \in {0, 4} => ALUOp(i) = "SLL"
         /\ i.op = 0 /\ i.fn \in {2, 6} => ALUOp(i) = "SRL"
         /\ i.op = 0 /\ i.fn \in {3, 7} => ALUOp(i) = "SRA"
         /\ (i.op = 0 /\ i.fn \in {32, 33}) \/ i.op \in 32..47 \cup {8, 9} => ALUOp(i) = "ADDU"
         /\ i.op = 0 /\ i.fn \in {34, 35} => ALUOp(i) = "SUBU"
         /\ (i.op = 0 /\ i.fn = 36) \/ i.op = 12 => ALUOp(i) = "AND"
         /\ (i.op = 0 /\ i.fn = 37) \/ i.op = 13 => ALUOp(i) = "OR"
         /\ (i.op = 0 /\ i.fn = 38) \/ i.op = 14 => ALUOp(i) = "XOR"
         /\ i.op = 0 /\ i.fn = 39 => ALUOp(i) = "NOR"
         /\ (i.op = 0 /\ i.fn = 42) \/ i.op = 10 => ALUOp(i) = "SLT"
         /\ (i.op = 0 /\ i.fn = 43) \/ i.op = 11 => ALUOp(i) = "SLTU"
         /\ i.op = 15 => ALUOp(i) = "LUI"
<1>1. (isRType(i) <=> i.op = 0) /\ (isMemory(i) <=> i.op \in 32..47) BY Decoder
<1>2. i.op = 0 /\ i.fn \in {0, 4} => ALUOp(i) = "SLL" BY <1>1 DEF ALUOp
<1>3. i.op = 0 /\ i.fn \in {2, 6} => ALUOp(i) = "SRL" BY <1>1 DEF ALUOp
<1>4. i.op = 0 /\ i.fn \in {3, 7} => ALUOp(i) = "SRA" BY <1>1 DEF ALUOp
<1>5. (i.op = 0 /\ i.fn \in {32, 33}) \/ i.op \in 32..47 \cup {8, 9} => ALUOp(i) = "ADDU" BY <1>1 DEF ALUOp
<1>6. i.op = 0 /\ i.fn \in {34, 35} => ALUOp(i) = "SUBU" BY <1>1 DEF ALUOp
<1>7. (i.op = 0 /\ i.fn = 36) \/ i.op = 12 => ALUOp(i) = "AND" BY <1>1 DEF ALUOp
<1>8. (i.op = 0 /\ i.fn = 37) \/ i.op = 13 => ALUOp(i) = "OR" BY <1>1 DEF ALUOp
<1>9. (i.op = 0 /\ i.fn = 38) \/ i.op = 14 => ALUOp(i) = "XOR" BY <1>1 DEF ALUOp
<1>10. i.op = 0 /\ i.fn = 39 => ALUOp(i) = "NOR" BY <1>1 DEF ALUOp
<1>11. (i.op = 0 /\ i.fn = 42) \/ i.op = 10 => ALUOp(i) = "SLT" BY <1>1 DEF ALUOp
<1>12. (i.op = 0 /\ i.fn = 43) \/ i.op = 11 => ALUOp(i) = "SLTU" BY <1>1 DEF ALUOp
<1>13. i.op = 15 => ALUOp(i) = "LUI" BY <1>1 DEF ALUOp
<1> QED
  BY <1>2, <1>3, <1>4, <1>5, <1>6, <1>7, <1>8, <1>9, <1>10, <1>11, <1>12, <1>13

-----------------------------------------------------------------------------
(* States of the two, operands and results *)

RegisterFile == {r \in [Registers -> Word] : r[0] = 0}
Bytes == [Shared -> Byte]
CpuState == [reg : RegisterFile, pc : Nat, npc : Nat, count : Nat, compare : Word, status : Word,
             cause : Word, epc : Word, faulted : BOOLEAN, sm : Bytes]
HwState == [reg : RegisterFile, load : [reg : Registers, val : Word], pc : Nat, npc : Nat,
            compare : Word, status : Word, cause : Word, epc : Word, sm : Bytes]

\* The registers, the load that waits included.
LEMMA HeldIs ==
  ASSUME NEW h \in HwState
  PROVE  /\ Held(h) \in RegisterFile /\ h.reg \in RegisterFile /\ h.load.reg \in Registers /\ h.load.val \in Word
         /\ \A r \in Registers : h.load.reg = 0 \/ h.load.reg # r => Held(h)[r] = h.reg[r]
<1>1. h.reg \in RegisterFile /\ h.load.reg \in Registers /\ h.load.val \in Word BY DEF HwState
<1>2. h.reg \in [Registers -> Word] /\ h.reg[0] = 0 /\ 0 \in Registers BY <1>1, RegistersAssumption DEF RegisterFile
<1>3. CASE h.load.reg = 0 BY <1>1, <1>3 DEF Held
<1>4. CASE h.load.reg # 0
  <2>1. Held(h) = [h.reg EXCEPT ![h.load.reg] = h.load.val] BY <1>4 DEF Held
  <2>2. Held(h) \in [Registers -> Word] BY <1>1, <1>2, <2>1
  <2>3. \A r \in Registers : h.load.reg # r => Held(h)[r] = h.reg[r] BY <1>1, <1>2, <2>1
  <2>4. Held(h)[0] = 0 BY <1>2, <1>4, <2>3
  <2> QED BY <1>1, <1>4, <2>2, <2>3, <2>4 DEF RegisterFile
<1> QED BY <1>3, <1>4

\* The instruction does not read what a load has not written back.
Free(h, i) == ~(h.load.reg # 0 /\ h.load.reg \in {SRC1(i), SRC2(i)})

\* An instruction that is free of the load before reads the same operands in both.
LEMMA OperandsRead ==
  ASSUME NEW h \in HwState, NEW i \in Instruction, Free(h, i)
  PROVE  /\ SRC1(i) \in Registers => R1(h, i) = Held(h)[SRC1(i)]
         /\ SRC2(i) \in Registers => R2(h, i) = Held(h)[SRC2(i)]
BY HeldIs DEF Free, R1, R2

\* The sign-extended constant is a word.
LEMMA ConstantIs ==
  ASSUME NEW i \in Instruction
  PROVE  SExt(i.imm, 2) \in Word /\ i.imm \in Word
<1>1. i.imm \in 0..(Wide(2) - 1) BY Decoder
<1>2. SExt(i.imm, 2) \in Word BY <1>1, SExtIs
<1>3. i.imm \in Word BY <1>1, WidthsGrow DEF Word
<1> QED BY <1>2, <1>3

\* An instruction that computes puts the same number in its register.
LEMMA Results ==
  ASSUME NEW i \in Instruction, Known(i), ~OnlyHere(i), Computes(i),
         NEW c \in CpuState, NEW h \in HwState, c.reg = Held(h), Free(h, i)
  PROVE  ALUResult(h, i) = Computed(c, i) /\ Computed(c, i) \in Word
<1> DEFINE s == c.reg[i.rs]
           t == c.reg[i.rt]
           simm == SExt(i.imm, 2)
<1>1. /\ i.op # 16 /\ i.op # 1 /\ i.op \notin {2, 3} /\ ~(i.op = 0 /\ i.fn \in {8, 9}) /\ i.op \in {0} \cup 8..15
      /\ i.op = 0 => i.fn \in {0, 2, 3, 4, 6, 7, 42, 43} \cup 32..39
  BY DEF Computes
<1>2. /\ i.rs \in Registers /\ i.rt \in Registers /\ SRC1(i) \in Registers
      /\ SRC1(i) = IF i.op = 0 /\ i.fn \in 0..3 THEN 0 ELSE i.rs
      /\ i.op = 0 => SRC2(i) = i.rt
  BY <1>1, Operands
<1>3. s \in Word /\ t \in Word
  <2>1. Held(h) \in [Registers -> Word] BY HeldIs DEF RegisterFile
  <2> QED BY <1>2, <2>1
<1>4. s \in Nat /\ t \in Nat /\ simm \in Word /\ i.imm \in Word /\ simm \in Nat /\ i.imm \in Nat
  BY <1>3, ConstantIs, WordIsNat
<1>5. ALUResult(h, i) = ALU(ALUOp(i), IF i.op = 0 /\ i.fn \in 0..3 THEN i.sh ELSE s,
                            IF i.op = 0 THEN t ELSE IF i.op \in 8..11 THEN simm ELSE i.imm)
  <2>1. /\ isRShiftI(i) <=> i.op = 0 /\ i.fn \in 0..3
        /\ ~isMemory(i) /\ (isIComp(i) <=> i.op \in 8..15) /\ (isISigned(i) <=> i.op \in 8..11)
    BY <1>1, Decoder
  <2>2. ~(i.op = 0 /\ i.fn \in 0..3) => R1(h, i) = s BY <1>2, OperandsRead
  <2>3. i.op = 0 => R2(h, i) = t BY <1>2, OperandsRead
  <2> QED BY <1>1, <2>1, <2>2, <2>3 DEF ALUResult, SIMMED
<1>6. CASE i.op = 0 /\ i.fn \in {0, 2, 3, 4, 6, 7}
  <2> DEFINE A == IF i.fn \in 0..3 THEN i.sh ELSE s
             shift == IF i.fn < 4 THEN i.sh ELSE Shamt(s)
  <2>1. Shamt(A) = shift /\ shift \in 0..WordBits
    <3>1. i.sh \in 0..(WordBits - 1) /\ WordBits \in Nat BY Decoder, Powers
    <3>2. Shamt(i.sh) = i.sh /\ Shamt(s) \in 0..(WordBits - 1) BY <1>4, <3>1, ShamtIs
    <3>3. i.fn \in 0..3 <=> i.fn < 4 BY <1>6
    <3> QED BY <3>1, <3>2, <3>3
  <2>2. ALUResult(h, i) = ALU(ALUOp(i), A, t) BY <1>5, <1>6
  <2> HIDE DEF A, s, t
  <2>3. CASE i.fn \in {0, 4}
    <3>1. ALUResult(h, i) = (t * Power[shift]) % Wide(4) BY <1>6, <2>1, <2>2, <2>3, Operations DEF ALU
    <3>2. Computed(c, i) = (t * Power[shift]) % Wide(4) BY <1>6, <2>3 DEF Computed, s, t
    <3>3. PICK p \in Nat : p = Power[shift] BY <2>1, Powers
    <3>4. t * p \in Nat BY <1>4, <3>3
    <3>5. (t * p) % Wide(4) \in Word BY <3>4, WrapIs
    <3>6. (t * Power[shift]) % Wide(4) \in Word BY <3>3, <3>5, Zenon
    <3> HIDE DEF shift
    <3> QED BY <3>1, <3>2, <3>6, Zenon
  <2>4. CASE i.fn \in {2, 6}
    <3>1. ALUResult(h, i) = ShiftRight(t, shift) BY <1>6, <2>1, <2>2, <2>4, Operations DEF ALU
    <3>2. Computed(c, i) = ShiftRight(t, shift) BY <1>6, <2>4 DEF Computed, s, t
    <3> QED BY <1>3, <2>1, <3>1, <3>2, ShiftIs
  <2>5. CASE i.fn \in {3, 7}
    <3>1. ALUResult(h, i) = ShiftArithmetic(t, shift) BY <1>6, <2>1, <2>2, <2>5, Operations DEF ALU
    <3>2. Computed(c, i) = ShiftArithmetic(t, shift) BY <1>6, <2>5 DEF Computed, s, t
    <3> QED BY <1>3, <2>1, <3>1, <3>2, ShiftIs
  <2> QED BY <1>6, <2>3, <2>4, <2>5
<1>7. CASE i.op = 0 /\ i.fn \in {42, 43} \cup 32..39
  <2>1. ALUResult(h, i) = ALU(ALUOp(i), s, t)
    <3>1. i.fn \notin 0..3 BY <1>7
    <3> QED BY <1>5, <1>7, <3>1
  <2> HIDE DEF s, t
  <2>2. CASE i.fn \in {32, 33}
    <3>1. ALUResult(h, i) = Plus(s, t) BY <1>7, <2>1, <2>2, Operations DEF ALU
    <3>2. Computed(c, i) = Plus(s, t) BY <1>7, <2>2 DEF Computed, s, t
    <3> QED BY <1>4, <3>1, <3>2, PlusIs
  <2>3. CASE i.fn \in {34, 35}
    <3>1. ALUResult(h, i) = Minus(s, t) BY <1>7, <2>1, <2>3, Operations DEF ALU
    <3>2. Computed(c, i) = Minus(s, t) BY <1>7, <2>3 DEF Computed, s, t
    <3> QED BY <1>3, <3>1, <3>2, MinusIs
  <2>4. CASE i.fn = 36
    <3>1. ALUResult(h, i) = And(s, t) BY <1>7, <2>1, <2>4, Operations DEF ALU
    <3>2. Computed(c, i) = And(s, t) BY <1>7, <2>4 DEF Computed, s, t
    <3> QED BY <1>4, <3>1, <3>2, AndOn
  <2>5. CASE i.fn = 37
    <3>1. ALUResult(h, i) = Or(s, t) BY <1>7, <2>1, <2>5, Operations DEF ALU
    <3>2. Computed(c, i) = Or(s, t) BY <1>7, <2>5 DEF Computed, s, t
    <3> QED BY <1>4, <3>1, <3>2, OrOn
  <2>6. CASE i.fn = 38
    <3>1. ALUResult(h, i) = Xor(s, t) BY <1>7, <2>1, <2>6, Operations DEF ALU
    <3>2. Computed(c, i) = Xor(s, t) BY <1>7, <2>6 DEF Computed, s, t
    <3> QED BY <1>4, <3>1, <3>2, XorIs
  <2>7. CASE i.fn = 39
    <3>1. ALUResult(h, i) = And(Inverted(s), Inverted(t)) BY <1>7, <2>1, <2>7, Operations DEF ALU
    <3>2. Computed(c, i) = Inverted(Or(s, t)) BY <1>7, <2>7 DEF Computed, s, t
    <3>3. Or(s, t) \in Word BY <1>4, OrOn
    <3>4. Inverted(Or(s, t)) \in Word BY <3>3, InvertedOn
    <3> QED BY <1>3, <3>1, <3>2, <3>4, NorIs
  <2>8. CASE i.fn = 42
    <3>1. ALUResult(h, i) = IF Signed(s, 4) < Signed(t, 4) THEN 1 ELSE 0
      BY <1>7, <2>1, <2>8, Operations DEF ALU
    <3>2. Computed(c, i) = IF Signed(s, 4) < Signed(t, 4) THEN 1 ELSE 0 BY <1>7, <2>8 DEF Computed, s, t
    <3> QED BY <3>1, <3>2, WidthsGrow DEF Word
  <2>9. CASE i.fn = 43
    <3>1. ALUResult(h, i) = IF s < t THEN 1 ELSE 0 BY <1>7, <2>1, <2>9, Operations DEF ALU
    <3>2. Computed(c, i) = IF s < t THEN 1 ELSE 0 BY <1>7, <2>9 DEF Computed, s, t
    <3> QED BY <3>1, <3>2, WidthsGrow DEF Word
  <2> QED BY <1>7, <2>2, <2>3, <2>4, <2>5, <2>6, <2>7, <2>8, <2>9
<1>8. CASE i.op \in 8..15
  <2>1. ALUResult(h, i) = ALU(ALUOp(i), s, IF i.op \in 8..11 THEN simm ELSE i.imm) BY <1>5, <1>8
  <2> HIDE DEF s, t, simm
  <2>2. CASE i.op \in {8, 9}
    <3>1. ALUResult(h, i) = Plus(s, simm) BY <2>1, <2>2, Operations DEF ALU
    <3>2. Computed(c, i) = Plus(s, simm) BY <2>2 DEF Computed, s, simm
    <3> QED BY <1>4, <3>1, <3>2, PlusIs
  <2>3. CASE i.op = 10
    <3>1. ALUResult(h, i) = IF Signed(s, 4) < Signed(simm, 4) THEN 1 ELSE 0 BY <2>1, <2>3, Operations DEF ALU
    <3>2. Computed(c, i) = IF Signed(s, 4) < Signed(simm, 4) THEN 1 ELSE 0 BY <2>3 DEF Computed, s, simm
    <3> QED BY <3>1, <3>2, WidthsGrow DEF Word
  <2>4. CASE i.op = 11
    <3>1. ALUResult(h, i) = IF s < simm THEN 1 ELSE 0 BY <2>1, <2>4, Operations DEF ALU
    <3>2. Computed(c, i) = IF s < simm THEN 1 ELSE 0 BY <2>4 DEF Computed, s, simm
    <3> QED BY <3>1, <3>2, WidthsGrow DEF Word
  <2>5. CASE i.op = 12
    <3>1. ALUResult(h, i) = And(s, i.imm) BY <2>1, <2>5, Operations DEF ALU
    <3>2. Computed(c, i) = And(s, i.imm) BY <2>5 DEF Computed, s
    <3> QED BY <1>4, <3>1, <3>2, AndOn
  <2>6. CASE i.op = 13
    <3>1. ALUResult(h, i) = Or(s, i.imm) BY <2>1, <2>6, Operations DEF ALU
    <3>2. Computed(c, i) = Or(s, i.imm) BY <2>6 DEF Computed, s
    <3> QED BY <1>4, <3>1, <3>2, OrOn
  <2>7. CASE i.op = 14
    <3>1. ALUResult(h, i) = Xor(s, i.imm) BY <2>1, <2>7, Operations DEF ALU
    <3>2. Computed(c, i) = Xor(s, i.imm) BY <2>7 DEF Computed, s
    <3> QED BY <1>4, <3>1, <3>2, XorIs
  <2>8. CASE i.op = 15
    <3>1. ALUResult(h, i) = (i.imm * Wide(2)) % Wide(4) BY <2>1, <2>8, Operations DEF ALU
    <3>2. Computed(c, i) = (i.imm * Wide(2)) % Wide(4) BY <2>8 DEF Computed
    <3>3. PICK w \in Nat : w = Wide(2) BY WidthsGrow
    <3>4. i.imm * w \in Nat BY <1>4, <3>3
    <3>5. (i.imm * w) % Wide(4) \in Word BY <3>4, WrapIs
    <3> QED BY <3>1, <3>2, <3>3, <3>5, Zenon
  <2> QED BY <1>8, <2>2, <2>3, <2>4, <2>5, <2>6, <2>7, <2>8
<1> QED BY <1>1, <1>6, <1>7, <1>8

\* A load or a store has the same address.
LEMMA Addresses ==
  ASSUME NEW i \in Instruction, Known(i), ~OnlyHere(i), Loads(i) \/ Stores(i),
         NEW c \in CpuState, NEW h \in HwState, c.reg = Held(h), Free(h, i)
  PROVE  /\ ALUResult(h, i) = Plus(c.reg[i.rs], SExt(i.imm, 2))
         /\ Plus(c.reg[i.rs], SExt(i.imm, 2)) \in Word
         /\ Stores(i) => R2(h, i) = c.reg[i.rt]
         /\ c.reg[i.rt] \in Word
<1>1. i.op \in 32..47 /\ i.op # 16 /\ i.op # 1 BY DEF Loads, Stores
<1>2. i.rs \in Registers /\ i.rt \in Registers /\ SRC1(i) = i.rs /\ (Stores(i) => SRC2(i) = i.rt)
  BY <1>1, Operands
<1>3. c.reg[i.rs] \in Word /\ c.reg[i.rt] \in Word
  <2>1. Held(h) \in [Registers -> Word] BY HeldIs DEF RegisterFile
  <2> QED BY <1>2, <2>1
<1>4. R1(h, i) = c.reg[i.rs] /\ (Stores(i) => R2(h, i) = c.reg[i.rt]) BY <1>2, OperandsRead
<1>5. ALUResult(h, i) = ALU(ALUOp(i), R1(h, i), SExt(i.imm, 2))
  <2>1. ~isRShiftI(i) /\ isMemory(i) /\ isISigned(i) BY <1>1, Decoder
  <2> QED BY <2>1 DEF ALUResult, SIMMED
<1>6. ALUOp(i) = "ADDU" BY <1>1, Operations
<1>7. ALUResult(h, i) = Plus(c.reg[i.rs], SExt(i.imm, 2)) BY <1>4, <1>5, <1>6 DEF ALU
<1>8. c.reg[i.rs] \in Nat /\ SExt(i.imm, 2) \in Nat BY <1>3, ConstantIs, WordIsNat
<1> QED BY <1>3, <1>4, <1>7, <1>8, PlusIs

-----------------------------------------------------------------------------
(* Branches and jumps *)

\* The next address is in the same region.
LEMMA SameRegion ==
  ASSUME NEW pc \in Nat, InImage(pc, 4)
  PROVE  /\ Plus(pc, 4) = pc + 4
         /\ pc - (pc % Power[JumpBits + 2]) = (pc + 4) - ((pc + 4) % Power[JumpBits + 2])
         /\ pc - (pc % Power[JumpBits + 2]) \in Nat
<1>1. JumpBits + 2 \in 0..WordBits BY BitsAssumption DEF WordBits
<1>2. PICK p \in Nat \ {0} : p = Power[JumpBits + 2] BY <1>1, Powers
<1>3. PICK base, bytes \in Nat : base = ROM_BASE /\ bytes = ROM_BYTES BY MapAssumption
<1>4. PICK q \in Nat, r \in 0..(p - 1) : base = p * q + r BY <1>2, <1>3, Quotient
<1>5. base % p = r BY <1>2, <1>4, RemainderOf
<1>6. r + bytes < p /\ base + bytes < Wide(4) BY <1>2, <1>3, <1>5, MapAssumption
<1>7. PICK d \in Nat : pc = base + d /\ d + 4 <= bytes
  <2>1. pc >= base /\ pc - base + 4 <= bytes BY <1>3 DEF InImage
  <2> QED BY <1>3, <2>1
<1>8. PICK y \in Nat : y = p * q BY <1>2, <1>4
<1>9. r + d \in 0..(p - 1) /\ r + d + 4 \in 0..(p - 1) /\ pc = y + (r + d) /\ pc + 4 = y + (r + d + 4)
  <2>1. base = y + r BY <1>4, <1>8, Zenon
  <2> QED BY <1>2, <1>3, <1>6, <1>7, <1>8, <2>1
<1>10. pc % p = r + d /\ (pc + 4) % p = r + d + 4
  <2>1. PICK u \in 0..(p - 1), v \in 0..(p - 1) : u = r + d /\ v = r + d + 4 BY <1>9
  <2>2. (p * q + u) % p = u /\ (p * q + v) % p = v BY <1>2, <1>4, RemainderOf
  <2> QED BY <1>8, <1>9, <2>1, <2>2
<1>11. Plus(pc, 4) = pc + 4
  <2>1. PICK w \in Nat \ {0, 1} : w = Wide(4) BY WidthsGrow
  <2>2. pc + 4 < w BY <1>3, <1>6, <1>7, <2>1
  <2> QED BY <2>1, <2>2 DEF Plus
<1> QED BY <1>2, <1>8, <1>9, <1>10, <1>11

\* What the comparator says.
LEMMA Comparisons ==
  ASSUME NEW a, NEW b
  PROVE  /\ BranchCMP(0, a, b) = FALSE
         /\ BranchCMP(4, a, b) = (Signed(a, 4) = Signed(b, 4))
         /\ BranchCMP(5, a, b) = (Signed(a, 4) # Signed(b, 4))
         /\ BranchCMP(1, a, b) = (Signed(a, 4) < Signed(b, 4))
         /\ BranchCMP(7, a, b) = (Signed(a, 4) > Signed(b, 4))
         /\ BranchCMP(2, a, b) = (Signed(a, 4) >= Signed(b, 4))
         /\ BranchCMP(6, a, b) = (Signed(a, 4) <= Signed(b, 4))
<1>1. BranchCMP(0, a, b) = FALSE BY DEF BranchCMP
<1>2. BranchCMP(4, a, b) = (Signed(a, 4) = Signed(b, 4)) BY DEF BranchCMP
<1>3. BranchCMP(5, a, b) = (Signed(a, 4) # Signed(b, 4)) BY DEF BranchCMP
<1>4. BranchCMP(1, a, b) = (Signed(a, 4) < Signed(b, 4)) BY DEF BranchCMP
<1>5. BranchCMP(7, a, b) = (Signed(a, 4) > Signed(b, 4)) BY DEF BranchCMP
<1>6. BranchCMP(2, a, b) = (Signed(a, 4) >= Signed(b, 4)) BY DEF BranchCMP
<1>7. BranchCMP(6, a, b) = (Signed(a, 4) <= Signed(b, 4)) BY DEF BranchCMP
<1> QED BY <1>1, <1>2, <1>3, <1>4, <1>5, <1>6, <1>7

\* A branch is taken by both or by neither; nothing else is one.
LEMMA Branches ==
  ASSUME NEW i \in Instruction, Known(i), ~OnlyHere(i),
         NEW c \in CpuState, NEW h \in HwState, c.reg = Held(h), Free(h, i)
  PROVE  /\ i.op \in {1} \cup 4..7 => (takeBranch(h, i) <=> Taken(c, i))
         /\ i.op \notin 1..7 => ~Taken(c, i)
         /\ i.op \notin {1} \cup 4..7 /\ ~isJump(i) => ~takeBranch(h, i)
<1> DEFINE s == c.reg[i.rs]
           t == c.reg[i.rt]
           negative == s >= Wide(4) \div 2
<1>1. CmpOp(i) = IF i.op \in 4..7 THEN i.op ELSE IF i.op = 1 THEN 1 + i.rt ELSE IF isJump(i) THEN 3 ELSE 0
  BY Controls
<1>2. i.op \notin 1..7 => ~Taken(c, i) BY DEF Taken
<1>3. ASSUME i.op \notin {1} \cup 4..7, ~isJump(i) PROVE ~takeBranch(h, i)
  <2>1. CmpOp(i) = 0 BY <1>1, <1>3
  <2> QED BY <2>1, Comparisons DEF takeBranch
<1>4. ASSUME i.op \in {1} \cup 4..7 PROVE takeBranch(h, i) <=> Taken(c, i)
  <2>1. i.rs \in Registers /\ SRC1(i) = i.rs BY <1>4, Operands
  <2>2. Held(h) \in [Registers -> Word] /\ Held(h)[0] = 0 /\ 0 \in Registers
    BY HeldIs, RegistersAssumption DEF RegisterFile
  <2>3. R1(h, i) = s /\ s \in Word BY <2>1, <2>2, OperandsRead
  <2>4. /\ Signed(s, 4) \in Int
        /\ Signed(s, 4) < 0 <=> negative
        /\ Signed(s, 4) = 0 <=> s = 0
        /\ Signed(0, 4) = 0
    BY <2>3, SignedWords
  <2>5. CASE i.op \in {4, 5}
    <3>1. i.rt \in Registers /\ SRC2(i) = i.rt BY <2>5, Operands
    <3>2. R2(h, i) = t /\ t \in Word BY <2>2, <3>1, OperandsRead
    <3>3. Signed(s, 4) = Signed(t, 4) <=> s = t BY <2>3, <3>2, SignedWords
    <3>4. takeBranch(h, i) = BranchCMP(i.op, s, t) BY <1>1, <2>3, <2>5, <3>2 DEF takeBranch
    <3> HIDE DEF s, t
    <3>5. CASE i.op = 4
      <4>1. takeBranch(h, i) <=> s = t BY <3>3, <3>4, <3>5, Comparisons
      <4>2. Taken(c, i) <=> s = t BY <3>5 DEF Taken, s, t
      <4> QED BY <4>1, <4>2
    <3>6. CASE i.op = 5
      <4>1. takeBranch(h, i) <=> s # t BY <3>3, <3>4, <3>6, Comparisons
      <4>2. Taken(c, i) <=> s # t BY <3>6 DEF Taken, s, t
      <4> QED BY <4>1, <4>2
    <3> QED BY <2>5, <3>5, <3>6
  <2>6. CASE i.op \in {1, 6, 7}
    <3>1. SRC2(i) = 0 BY <2>6, Operands
    <3>2. R2(h, i) = 0 BY <2>2, <3>1, OperandsRead
    <3>3. i.op = 1 => i.rt \in {0, 1} BY Controls
    <3>4. takeBranch(h, i) = BranchCMP(CmpOp(i), s, 0) BY <2>3, <3>2 DEF takeBranch
    <3>9. /\ BranchCMP(1, s, 0) = (Signed(s, 4) < 0) /\ BranchCMP(2, s, 0) = (Signed(s, 4) >= 0)
          /\ BranchCMP(6, s, 0) = (Signed(s, 4) <= 0) /\ BranchCMP(7, s, 0) = (Signed(s, 4) > 0)
      <4> HIDE DEF s
      <4>1. /\ BranchCMP(1, s, 0) = (Signed(s, 4) < Signed(0, 4))
            /\ BranchCMP(2, s, 0) = (Signed(s, 4) >= Signed(0, 4))
            /\ BranchCMP(6, s, 0) = (Signed(s, 4) <= Signed(0, 4))
            /\ BranchCMP(7, s, 0) = (Signed(s, 4) > Signed(0, 4))
        BY Comparisons, Zenon
      <4> QED BY <2>4, <4>1, Zenon
    <3> HIDE DEF s, t, negative
    <3>5. CASE i.op = 1
      <4>1. CmpOp(i) = 1 + i.rt BY <1>1, <3>5
      <4>2. Taken(c, i) <=> ((i.rt = 0) <=> negative) BY <3>5 DEF Taken, s, negative
      <4>3. CASE i.rt = 0
        <5>1. takeBranch(h, i) = BranchCMP(1, s, 0) BY <3>4, <4>1, <4>3
        <5>2. takeBranch(h, i) <=> negative BY <2>4, <5>1, <3>9
        <5> QED BY <4>2, <4>3, <5>2
      <4>4. CASE i.rt = 1
        <5>1. takeBranch(h, i) = BranchCMP(2, s, 0) BY <3>4, <4>1, <4>4
        <5>2. Signed(s, 4) >= 0 <=> ~(Signed(s, 4) < 0) BY <2>4
        <5>3. takeBranch(h, i) <=> ~negative BY <2>4, <5>1, <5>2, <3>9
        <5> QED BY <4>2, <4>4, <5>3
      <4> QED BY <3>3, <3>5, <4>3, <4>4
    <3>6. CASE i.op = 6
      <4>1. takeBranch(h, i) = BranchCMP(6, s, 0) BY <1>1, <3>4, <3>6
      <4>2. Signed(s, 4) <= 0 <=> Signed(s, 4) < 0 \/ Signed(s, 4) = 0 BY <2>4
      <4>3. takeBranch(h, i) <=> negative \/ s = 0 BY <2>4, <4>1, <4>2, <3>9
      <4>4. Taken(c, i) <=> negative \/ s = 0 BY <3>6 DEF Taken, s, negative
      <4> QED BY <4>3, <4>4
    <3>7. CASE i.op = 7
      <4>1. takeBranch(h, i) = BranchCMP(7, s, 0) BY <1>1, <3>4, <3>7
      <4>2. Signed(s, 4) > 0 <=> ~(Signed(s, 4) < 0 \/ Signed(s, 4) = 0) BY <2>4
      <4>3. takeBranch(h, i) <=> ~negative /\ s # 0 BY <2>4, <4>1, <4>2, <3>9
      <4>4. Taken(c, i) <=> ~negative /\ s # 0 BY <3>7 DEF Taken, s, negative
      <4> QED BY <4>3, <4>4
    <3> QED BY <2>6, <3>5, <3>6, <3>7
  <2> QED BY <1>4, <2>5, <2>6
<1> QED BY <1>2, <1>3, <1>4

\* Where the two go on.
GoesOnAt(h, i) == IF isJump(i) \/ takeBranch(h, i) THEN PCBranch(h, i) ELSE Plus(h.npc, 4)

\* Both go on at the same address, the branch delay included.
LEMMA NextAddresses ==
  ASSUME NEW i \in Instruction, Known(i), ~OnlyHere(i),
         NEW c \in CpuState, NEW h \in HwState, c.reg = Held(h), Free(h, i),
         c.pc = h.pc, c.npc = h.npc, InImage(c.pc, 4)
  PROVE  /\ GoesOnAt(h, i) = IF Goes(i) THEN NextPC(c, i) ELSE Plus(c.npc, 4)
         /\ ~Goes(i) => NextPC(c, i) = Plus(c.npc, 4)
         /\ GoesOnAt(h, i) \in Nat
<1>1. c.pc \in Nat /\ c.npc \in Nat BY DEF CpuState
<1>2. isJump(i) <=> i.op \in {2, 3} \/ (i.op = 0 /\ i.fn \in {8, 9}) BY Controls
<1>3. Held(h) \in [Registers -> Word] /\ 0 \in Registers BY HeldIs, RegistersAssumption DEF RegisterFile
<1>4. Plus(c.npc, 4) \in Nat /\ Plus(c.pc, 4) \in Nat BY <1>1, PlusIs, WordIsNat
<1>5. ASSUME ~Goes(i) PROVE NextPC(c, i) = Plus(c.npc, 4) /\ GoesOnAt(h, i) = Plus(c.npc, 4)
  <2>1. i.op \notin 1..7 /\ ~(i.op = 0 /\ i.fn \in {8, 9}) BY <1>5 DEF Goes
  <2>2. ~Taken(c, i) /\ ~isJump(i) /\ ~takeBranch(h, i) BY <1>2, <2>1, Branches
  <2>3. i.op \notin {2, 3} BY <2>1
  <2> QED BY <2>1, <2>2, <2>3 DEF NextPC, GoesOnAt
<1>6. CASE i.op \in {2, 3}
  <2> DEFINE top == c.pc - (c.pc % Power[JumpBits + 2])
  <2>1. GoesOnAt(h, i) = top + i.target * 4
    <3>1. ~isRJump(i) /\ isJump(i) BY <1>2, <1>6, Decoder
    <3> QED BY <3>1 DEF GoesOnAt, PCBranch
  <2>2. NextPC(c, i) = (Plus(c.pc, 4) - (Plus(c.pc, 4) % Power[JumpBits + 2])) + i.target * 4
    <3>1. i.op \in {2, 3} /\ ~(i.op = 0 /\ i.fn \in {8, 9}) BY <1>6
    <3>2. ~Taken(c, i) BY <1>6 DEF Taken
    <3> QED BY <3>1, <3>2 DEF NextPC
  <2>3. /\ Plus(c.pc, 4) = c.pc + 4 /\ top \in Nat
        /\ top = (c.pc + 4) - ((c.pc + 4) % Power[JumpBits + 2])
    BY <1>1, SameRegion
  <2>4. i.target \in Nat
    <3>1. JumpBits \in 0..WordBits BY BitsAssumption DEF WordBits
    <3>2. Power[JumpBits] \in Nat BY <3>1, Powers
    <3> QED BY <3>2, Decoder
  <2> HIDE DEF top
  <2>5. NextPC(c, i) = top + i.target * 4 BY <2>2, <2>3
  <2>6. Goes(i) BY <1>6 DEF Goes
  <2> QED BY <2>1, <2>3, <2>4, <2>5, <2>6
<1>7. CASE i.op = 0 /\ i.fn \in {8, 9}
  <2>1. i.rs \in Registers /\ SRC1(i) = i.rs BY <1>7, Operands
  <2>2. R1(h, i) = c.reg[i.rs] /\ c.reg[i.rs] \in Nat BY <1>3, <2>1, OperandsRead, WordIsNat
  <2>3. GoesOnAt(h, i) = R1(h, i)
    <3>1. isRJump(i) /\ isJump(i) BY <1>2, <1>7, Decoder
    <3> QED BY <3>1 DEF GoesOnAt, PCBranch
  <2>4. NextPC(c, i) = c.reg[i.rs]
    <3>1. i.op \notin {2, 3} /\ ~Taken(c, i) BY <1>7, Branches
    <3> QED BY <1>7, <3>1 DEF NextPC
  <2>5. Goes(i) BY <1>7 DEF Goes
  <2> QED BY <2>2, <2>3, <2>4, <2>5
<1>8. CASE i.op \in {1} \cup 4..7
  <2> DEFINE to == Plus(Plus(c.pc, 4), (SExt(i.imm, 2) * 4) % Wide(4))
  <2>1. takeBranch(h, i) <=> Taken(c, i) BY <1>8, Branches
  <2>2. ~isJump(i) /\ ~isRJump(i) BY <1>2, <1>8, Decoder
  <2>3. GoesOnAt(h, i) = IF takeBranch(h, i) THEN to ELSE Plus(c.npc, 4) BY <2>2 DEF GoesOnAt, PCBranch, SIMMED
  <2>4. NextPC(c, i) = IF Taken(c, i) THEN to ELSE Plus(c.npc, 4) BY <1>8 DEF NextPC
  <2>5. to \in Nat
    <3>1. SExt(i.imm, 2) * 4 \in Nat BY ConstantIs, WordIsNat
    <3>2. (SExt(i.imm, 2) * 4) % Wide(4) \in Nat BY <3>1, WrapIs, WordIsNat
    <3> QED BY <1>4, <3>2, PlusIs, WordIsNat
  <2>6. Goes(i) BY <1>8 DEF Goes
  <2> HIDE DEF to
  <2> QED BY <1>4, <2>1, <2>3, <2>4, <2>5, <2>6
<1>9. Goes(i) => i.op \in {2, 3} \/ (i.op = 0 /\ i.fn \in {8, 9}) \/ i.op \in {1} \cup 4..7 BY DEF Goes
<1> QED BY <1>4, <1>5, <1>6, <1>7, <1>8, <1>9

-----------------------------------------------------------------------------
(* Memory *)

\* A byte of a value, at its place, and the value of so many.
ByteOf(v, k) == (v \div Wide(k)) % Wide(1)
Digit(v, k) == ByteOf(v, k) * Wide(k)
Digits(v, n) ==
  IF n = 1 THEN Digit(v, 0) ELSE IF n = 2 THEN Digit(v, 0) + Digit(v, 1)
  ELSE Digit(v, 0) + Digit(v, 1) + Digit(v, 2) + Digit(v, 3)

\* The bytes from a on, the lowest first and the highest first.
Weighed(x, k) == x * Wide(k)
Low(sm, a, n) ==
  IF n = 1 THEN Weighed(sm[a], 0) ELSE IF n = 2 THEN Weighed(sm[a], 0) + Weighed(sm[a + 1], 1)
  ELSE Weighed(sm[a], 0) + Weighed(sm[a + 1], 1) + Weighed(sm[a + 2], 2) + Weighed(sm[a + 3], 3)
High(sm, a, n) ==
  IF n = 1 THEN Weighed(sm[a], 0) ELSE IF n = 2 THEN Weighed(sm[a], 1) + Weighed(sm[a + 1], 0)
  ELSE Weighed(sm[a], 3) + Weighed(sm[a + 1], 2) + Weighed(sm[a + 2], 1) + Weighed(sm[a + 3], 0)

\* The bytes of a value, and what they weigh.
LEMMA ByteIs ==
  /\ \A v \in Nat, k \in 0..3 : ByteOf(v, k) \in Byte
  /\ \A x \in Byte, k \in 0..3 : Weighed(x, k) \in Nat
  /\ \A x \in Byte : x \in Nat /\ Weighed(x, 0) = x
<1>1. Wide(1) \in Nat \ {0} /\ Wide(0) = 1 /\ \A k \in 0..3 : Wide(k) \in Nat \ {0} BY WidthsGrow
<1>2. ASSUME NEW v \in Nat, NEW k \in 0..3 PROVE ByteOf(v, k) \in Byte
  <2>1. PICK w \in Nat \ {0} : w = Wide(k) BY <1>1
  <2>2. PICK q \in Nat : q = v \div w BY <2>1
  <2>3. q % Wide(1) \in 0..(Wide(1) - 1) BY <1>1
  <2> QED BY <2>1, <2>2, <2>3 DEF ByteOf, Byte
<1>3. ASSUME NEW x \in Byte, NEW k \in 0..3 PROVE Weighed(x, k) \in Nat
  <2>1. x \in Nat BY <1>1 DEF Byte
  <2>2. PICK w \in Nat \ {0} : w = Wide(k) BY <1>1
  <2> QED BY <2>1, <2>2 DEF Weighed
<1>4. ASSUME NEW x \in Byte PROVE x \in Nat /\ Weighed(x, 0) = x BY <1>1 DEF Byte, Weighed
<1> QED BY <1>2, <1>3, <1>4

\* So many bytes are less than so wide.
LEMMA LowIs ==
  ASSUME NEW n \in {1, 2, 4}, NEW a \in Nat, NEW sm, \A k \in 0..(n - 1) : sm[a + k] \in Byte
  PROVE  Low(sm, a, n) \in 0..(Wide(n) - 1) /\ Low(sm, a, n) \in Word
<1>1. PICK b \in Nat, h \in Nat \ {0} :
        /\ b >= 2
        /\ Wide(0) = 1 /\ Wide(1) = b /\ Wide(2) = b * b /\ Wide(3) = b * (b * b)
        /\ Wide(4) = (b * b) * (b * b) /\ Wide(4) = 2 * h
  BY Widths
<1>2. PICK x \in 0..(b - 1) : x = sm[a]
  <2>1. 0 \in 0..(n - 1) /\ a + 0 = a OBVIOUS
  <2> QED BY <1>1, <2>1 DEF Byte
<1>3. Weighed(x, 0) = x BY <1>1, <1>2 DEF Weighed
<1>4. Low(sm, a, n) \in 0..(Wide(n) - 1)
  <2>1. CASE n = 1 BY <1>1, <1>2, <1>3, <2>1 DEF Low
  <2>2. n # 1 => \E y \in 0..(b - 1) : y = sm[a + 1] BY <1>1 DEF Byte
  <2>3. CASE n = 2
    <3>1. PICK y \in 0..(b - 1) : y = sm[a + 1] BY <2>2, <2>3
    <3>2. Low(sm, a, 2) = x + y * b BY <1>1, <1>2, <1>3, <3>1 DEF Low, Weighed
    <3>3. x + y * b \in Nat /\ x + y * b < b * b
      <4>0. b - y - 1 \in Nat /\ y + 1 + (b - y - 1) = b OBVIOUS
      <4>1. PICK z \in Nat : y + 1 + z = b BY <4>0
      <4>2. b * b = (y + 1 + z) * b BY <4>1
      <4>3. (y + 1 + z) * b = y * b + b + z * b BY <4>1
      <4>4. PICK p, q \in Nat : p = y * b /\ q = z * b BY <3>1, <4>1
      <4> QED BY <1>2, <4>2, <4>3, <4>4
    <3>4. PICK s, t \in Nat : s = x + y * b /\ t = b * b BY <3>3
    <3> QED BY <1>1, <2>3, <3>2, <3>3, <3>4
  <2>4. CASE n = 4
    <3>1. PICK y \in 0..(b - 1) : y = sm[a + 1] BY <2>2, <2>4
    <3>2. PICK z \in 0..(b - 1) : z = sm[a + 2] BY <1>1, <2>4 DEF Byte
    <3>3. PICK u \in 0..(b - 1) : u = sm[a + 3] BY <1>1, <2>4 DEF Byte
    <3>0. x \in Nat /\ y \in Nat /\ z \in Nat /\ u \in Nat OBVIOUS
    <3>4. PICK q \in Nat : q = b * b OBVIOUS
    <3>5. ASSUME NEW v \in 0..(b - 1), NEW w \in 0..(b - 1) PROVE v + w * b \in 0..(q - 1)
      <4>1. PICK o \in Nat : w + 1 + o = b OBVIOUS
      <4>2. b * b = (w + 1 + o) * b BY <4>1
      <4>3. (w + 1 + o) * b = w * b + b + o * b BY <4>1
      <4>4. PICK p, r \in Nat : p = w * b /\ r = o * b BY <4>1
      <4> QED BY <3>4, <4>2, <4>3, <4>4
    <3>6. PICK s \in 0..(q - 1) : s = x + y * b BY <1>2, <3>1, <3>5
    <3>7. PICK t \in 0..(q - 1) : t = z + u * b BY <3>2, <3>3, <3>5
    <3>8. Low(sm, a, 4) = s + t * q
      <4>1. Low(sm, a, 4) = x + y * b + z * (b * b) + u * (b * (b * b))
        BY <1>1, <1>2, <1>3, <3>1, <3>2, <3>3 DEF Low, Weighed
      <4>2. u * (b * q) = (u * b) * q OBVIOUS
      <4>3. PICK m \in Nat : m = u * b OBVIOUS
      <4>4. (z + m) * q = z * q + m * q BY <3>4, <4>3
      <4>5. PICK c, d, e \in Nat : c = z * q /\ d = m * q /\ e = y * b BY <3>0, <3>4, <4>3
      <4>6. Low(sm, a, 4) = x + e + c + d BY <3>4, <4>1, <4>2, <4>3, <4>5
      <4>7. t * q = c + d BY <3>7, <4>3, <4>4, <4>5
      <4>8. s = x + e BY <3>6, <4>5
      <4> QED BY <4>5, <4>6, <4>7, <4>8
    <3>9. PICK o \in Nat : t + 1 + o = q BY <3>7
    <3>10. (t + 1 + o) * q = t * q + q + o * q BY <3>4, <3>9
    <3>11. PICK c, d \in Nat : c = t * q /\ d = o * q BY <3>4, <3>7, <3>9
    <3>12. q * q = c + q + d BY <3>9, <3>10, <3>11
    <3>13. PICK w \in Nat : w = q * q BY <3>4
    <3>14. Wide(4) = w BY <1>1, <3>4, <3>13, Zenon
    <3>15. s + c \in Nat /\ s + c < w BY <3>6, <3>11, <3>12, <3>13
    <3>16. Low(sm, a, 4) = s + c BY <3>8, <3>11, Zenon
    <3> QED BY <2>4, <3>14, <3>15, <3>16
  <2> QED BY <2>1, <2>3, <2>4
<1>5. Wide(n) <= Wide(4) /\ Wide(n) \in Nat /\ Wide(4) \in Nat BY WidthsGrow
<1> QED BY <1>4, <1>5 DEF Word

\* A word is its four bytes.
LEMMA FourBytes ==
  ASSUME NEW v \in Word
  PROVE  Digits(v, 4) = v
<1>1. PICK b \in Nat, h \in Nat \ {0} :
        /\ b >= 2
        /\ Wide(0) = 1 /\ Wide(1) = b /\ Wide(2) = b * b /\ Wide(3) = b * (b * b)
        /\ Wide(4) = (b * b) * (b * b) /\ Wide(4) = 2 * h
  BY Widths
<1>2. v \in Nat /\ v < Wide(4) BY <1>1 DEF Word
<1>0. b \in Nat \ {0} /\ v \in Nat BY <1>1, <1>2
<1>3. PICK q0 \in Nat, r0 \in 0..(b - 1) : v = b * q0 + r0 BY <1>0, Quotient
<1>4. PICK q1 \in Nat, r1 \in 0..(b - 1) : q0 = b * q1 + r1 BY <1>0, Quotient
<1>5. PICK q2 \in Nat, r2 \in 0..(b - 1) : q1 = b * q2 + r2 BY <1>0, Quotient
<1>6. PICK bb \in Nat : bb = b * b /\ bb > 0
  <2>1. b * b >= 2 * b BY <1>1
  <2> QED BY <1>1, <2>1
<1>7. PICK b3 \in Nat : b3 = b * bb /\ b3 > 0
  <2>1. b * bb >= 2 * bb BY <1>1, <1>6
  <2> QED BY <1>1, <1>6, <2>1
<1>8. PICK m1 \in 0..(bb - 1) : m1 = b * r1 + r0
  <2>1. PICK o \in Nat : r1 + 1 + o = b BY <1>4
  <2>2. b * (r1 + 1 + o) = b * r1 + b + b * o BY <2>1
  <2>3. PICK p, q \in Nat : p = b * r1 /\ q = b * o BY <1>4, <2>1
  <2>4. bb = p + b + q BY <1>6, <2>1, <2>2, <2>3
  <2>5. p + r0 \in 0..(bb - 1) BY <1>3, <2>3, <2>4
  <2> QED BY <2>3, <2>5
<1>9. v = bb * q1 + m1
  <2>1. b * (b * q1 + r1) = (b * b) * q1 + b * r1 OBVIOUS
  <2>2. PICK p, q \in Nat : p = bb * q1 /\ q = b * r1 BY <1>4, <1>6
  <2>3. b * q0 = p + q BY <1>4, <1>6, <2>1, <2>2
  <2> QED BY <1>3, <1>8, <2>2, <2>3
<1>10. PICK m2 \in 0..(b3 - 1) : m2 = bb * r2 + m1
  <2>1. PICK o \in Nat : r2 + 1 + o = b BY <1>5
  <2>2. bb * (r2 + 1 + o) = bb * r2 + bb + bb * o BY <1>6, <2>1
  <2>3. PICK p, q \in Nat : p = bb * r2 /\ q = bb * o BY <1>5, <1>6, <2>1
  <2>4. b3 = bb * b BY <1>6, <1>7
  <2>5. b3 = p + bb + q BY <2>1, <2>2, <2>3, <2>4
  <2>6. p + m1 \in 0..(b3 - 1) BY <1>8, <2>3, <2>5
  <2> QED BY <2>3, <2>6
<1>11. v = b3 * q2 + m2
  <2>1. bb * (b * q2 + r2) = (b * bb) * q2 + bb * r2 BY <1>6
  <2>2. PICK p, q \in Nat : p = b3 * q2 /\ q = bb * r2 BY <1>5, <1>6, <1>7
  <2>3. bb * q1 = p + q BY <1>5, <1>7, <2>1, <2>2
  <2> QED BY <1>9, <1>10, <2>2, <2>3
<1>12. q2 < b
  <2>1. ASSUME q2 >= b PROVE FALSE
    <3>1. PICK d \in Nat : q2 = b + d BY <2>1
    <3>2. b3 * (b + d) = b3 * b + b3 * d BY <1>7, <3>1
    <3>3. PICK p, q, r \in Nat : p = b3 * b /\ q = b3 * d /\ r = b3 * q2 BY <1>7, <3>1
    <3>4. p = bb * bb
      <4>1. (b * bb) * b = (b * b) * bb BY <1>6
      <4> QED BY <1>6, <1>7, <3>3, <4>1
    <3>5. Wide(4) = p BY <1>1, <1>6, <3>4, Zenon
    <3>6. r = p + q BY <3>1, <3>2, <3>3
    <3> QED BY <1>2, <1>10, <1>11, <3>3, <3>5, <3>6
  <2> QED BY <2>1
<1>13. /\ v \div 1 = v /\ v \div b = q0 /\ v \div bb = q1 /\ v \div b3 = q2
  <2>1. v \div b = q0 BY <1>1, <1>3, QuotientOf
  <2>2. v \div bb = q1 BY <1>6, <1>8, <1>9, QuotientOf
  <2>3. v \div b3 = q2 BY <1>7, <1>10, <1>11, QuotientOf
  <2>4. v \div 1 = v BY <1>2
  <2> QED BY <2>1, <2>2, <2>3, <2>4
<1>14. /\ v % b = r0 /\ q0 % b = r1 /\ q1 % b = r2 /\ q2 % b = q2
  <2>1. v % b = r0 BY <1>1, <1>3, RemainderOf
  <2>2. q0 % b = r1 BY <1>1, <1>4, RemainderOf
  <2>3. q1 % b = r2 BY <1>1, <1>5, RemainderOf
  <2>4. q2 % b = q2 BY <1>12
  <2> QED BY <2>1, <2>2, <2>3, <2>4
<1>15. Digit(v, 0) = r0 /\ Digit(v, 1) = r1 * b /\ Digit(v, 2) = r2 * bb /\ Digit(v, 3) = q2 * b3
  <2>1. Wide(0) = 1 /\ Wide(1) = b /\ Wide(2) = bb /\ Wide(3) = b3 BY <1>1, <1>6, <1>7, Zenon
  <2>2. r0 * 1 = r0 BY <1>3
  <2> QED BY <1>13, <1>14, <2>1, <2>2, Zenon DEF Digit, ByteOf
<1>16. PICK p1, p2, p3 \in Nat : p1 = r1 * b /\ p2 = r2 * bb /\ p3 = q2 * b3 BY <1>4, <1>5, <1>6, <1>7
<1>17. p1 = b * r1 /\ p2 = bb * r2 /\ p3 = b3 * q2 BY <1>4, <1>5, <1>6, <1>7, <1>16
<1>18. m1 = p1 + r0 /\ m2 = p2 + m1 /\ v = p3 + m2 BY <1>8, <1>10, <1>11, <1>17, Zenon
<1>19. Digits(v, 4) = r0 + p1 + p2 + p3 BY <1>15, <1>16 DEF Digits
<1> QED BY <1>16, <1>18, <1>19

-----------------------------------------------------------------------------
(* Fields, loads and stores *)

\* A field lies in the shared memory, and nowhere else.
LEMMA FieldPlace ==
  ASSUME NEW f \in Fields
  PROVE  /\ f.at \in Nat /\ f.bytes \in {1, 2, 4} /\ f.value \in Nat /\ SM_BASE \in Nat /\ SM_BASE + f.at \in Nat
         /\ \A k \in 0..(f.bytes - 1) : SM_BASE + f.at + k \in Shared
         /\ \A k \in 0..(f.bytes - 1) : Within(SM_BASE + f.at + k, SM_BASE, SM_BYTES)
         /\ SM_BASE + f.at \in Shared
         /\ ~is_mmio(SM_BASE + f.at) /\ ~InImage(SM_BASE + f.at, f.bytes)
<1>1. f.at \in Nat /\ f.bytes \in {1, 2, 4} /\ f.value \in Nat /\ f.at + f.bytes <= SM_BYTES BY FieldsAssumption
<1>2. SM_BASE \in Nat /\ SM_BYTES \in Nat /\ ROM_BASE \in Nat /\ ROM_BYTES \in Nat BY MapAssumption
<1>3. \A k \in 0..(f.bytes - 1) : SM_BASE + f.at + k \in Shared BY <1>1, <1>2 DEF Shared
<1>4. SM_BASE + f.at \in Shared BY <1>1, <1>2 DEF Shared
<1>5. ~Within(SM_BASE + f.at, MMIO_BASE, MMIO_BYTES) /\ ~Within(SM_BASE + f.at, ROM_BASE, ROM_BYTES)
  BY <1>4, MapAssumption DEF Shared
<1>6. ~InImage(SM_BASE + f.at, f.bytes)
  <2>1. InImage(SM_BASE + f.at, f.bytes) => Within(SM_BASE + f.at, ROM_BASE, ROM_BYTES)
    BY <1>1, <1>2 DEF InImage, Within
  <2> QED BY <1>5, <2>1
<1> QED BY <1>1, <1>2, <1>3, <1>4, <1>5, <1>6 DEF is_mmio, Within, Shared

\* The value of a field.
LEMMA FieldValue ==
  ASSUME NEW f \in Fields, NEW sm \in Bytes
  PROVE  /\ ValueOf("low", sm, f) = Low(sm, SM_BASE + f.at, f.bytes)
         /\ ValueOf("high", sm, f) = High(sm, SM_BASE + f.at, f.bytes)
         /\ Low(sm, SM_BASE + f.at, f.bytes) \in 0..(Wide(f.bytes) - 1)
         /\ Low(sm, SM_BASE + f.at, f.bytes) \in Word
<1> DEFINE a == SM_BASE + f.at
           n == f.bytes
<1>1. a \in Nat /\ n \in {1, 2, 4} /\ a + 0 = a BY FieldPlace
<1>2. ASSUME NEW k \in 0..(n - 1) PROVE sm[a + k] \in Byte
  <2>1. a + k \in Shared BY FieldPlace
  <2> QED BY <2>1 DEF Bytes
<1>3. ASSUME NEW k \in 0..(n - 1), NEW j \in 0..3 PROVE Weighed(sm[a + k], j) \in Nat
  BY <1>2, ByteIs
<1> DEFINE low(k) == IF k < n THEN Weighed(sm[a + k], k) ELSE 0
           high(k) == IF k < n THEN Weighed(sm[a + k], n - 1 - k) ELSE 0
<1>4. ValueOf("low", sm, f) = low(0) + low(1) + low(2) + low(3)
  BY DEF ValueOf, Place, LowFirst, Weighed
<1>5. ValueOf("high", sm, f) = high(0) + high(1) + high(2) + high(3)
  BY DEF ValueOf, Place, HighFirst, Weighed
<1>6. Low(sm, a, n) \in 0..(Wide(n) - 1) /\ Low(sm, a, n) \in Word
  <2> HIDE DEF a, n
  <2> QED BY <1>1, <1>2, LowIs
<1> HIDE DEF a
<1>7. CASE n = 1
  <2>1. low(0) = Weighed(sm[a], 0) /\ low(1) = 0 /\ low(2) = 0 /\ low(3) = 0 BY <1>1, <1>7
  <2>2. high(0) = Weighed(sm[a], 0) /\ high(1) = 0 /\ high(2) = 0 /\ high(3) = 0 BY <1>1, <1>7
  <2>3. Weighed(sm[a], 0) \in Nat
    <3>1. 0 \in 0..(n - 1) /\ 0 \in 0..3 BY <1>7
    <3>2. Weighed(sm[a + 0], 0) \in Nat BY <1>3, <3>1
    <3> QED BY <1>1, <3>2
  <2> HIDE DEF low, high
  <2>4. ValueOf("low", sm, f) = Weighed(sm[a], 0) /\ ValueOf("high", sm, f) = Weighed(sm[a], 0)
    BY <1>4, <1>5, <2>1, <2>2, <2>3
  <2> QED BY <1>6, <1>7, <2>4 DEF Low, High, a
<1>8. CASE n = 2
  <2>1. low(0) = Weighed(sm[a], 0) /\ low(1) = Weighed(sm[a + 1], 1) /\ low(2) = 0 /\ low(3) = 0 BY <1>1, <1>8
  <2>2. high(0) = Weighed(sm[a], 1) /\ high(1) = Weighed(sm[a + 1], 0) /\ high(2) = 0 /\ high(3) = 0
    BY <1>1, <1>8
  <2>3. ASSUME NEW j \in 0..3 PROVE Weighed(sm[a], j) \in Nat /\ Weighed(sm[a + 1], j) \in Nat
    <3>1. 0 \in 0..(n - 1) /\ 1 \in 0..(n - 1) BY <1>8
    <3>2. Weighed(sm[a + 0], j) \in Nat /\ Weighed(sm[a + 1], j) \in Nat BY <1>3, <3>1
    <3> QED BY <1>1, <3>2
  <2> HIDE DEF low, high
  <2>4. /\ ValueOf("low", sm, f) = Weighed(sm[a], 0) + Weighed(sm[a + 1], 1)
        /\ ValueOf("high", sm, f) = Weighed(sm[a], 1) + Weighed(sm[a + 1], 0)
    BY <1>4, <1>5, <2>1, <2>2, <2>3
  <2> QED BY <1>6, <1>8, <2>4 DEF Low, High, a
<1>9. CASE n = 4
  <2>1. /\ low(0) = Weighed(sm[a], 0) /\ low(1) = Weighed(sm[a + 1], 1)
        /\ low(2) = Weighed(sm[a + 2], 2) /\ low(3) = Weighed(sm[a + 3], 3)
    BY <1>1, <1>9
  <2>2. /\ high(0) = Weighed(sm[a], 3) /\ high(1) = Weighed(sm[a + 1], 2)
        /\ high(2) = Weighed(sm[a + 2], 1) /\ high(3) = Weighed(sm[a + 3], 0)
    BY <1>1, <1>9
  <2>3. /\ ValueOf("low", sm, f)
             = Weighed(sm[a], 0) + Weighed(sm[a + 1], 1) + Weighed(sm[a + 2], 2) + Weighed(sm[a + 3], 3)
        /\ ValueOf("high", sm, f)
             = Weighed(sm[a], 3) + Weighed(sm[a + 1], 2) + Weighed(sm[a + 2], 1) + Weighed(sm[a + 3], 0)
    <3> HIDE DEF low, high
    <3> QED BY <1>4, <1>5, <2>1, <2>2, Zenon
  <2> QED BY <1>6, <1>9, <2>3 DEF Low, High, a
<1> QED BY <1>1, <1>7, <1>8, <1>9

\* The bytes of a value, stored lowest first or highest first, have that value.
LEMMA ValueStored ==
  ASSUME NEW n \in {1, 2, 4}, NEW a \in Nat, NEW sm, NEW v \in Nat
  PROVE  /\ (\A k \in 0..(n - 1) : sm[a + k] = ByteOf(v, k)) => Low(sm, a, n) = Digits(v, n)
         /\ (\A k \in 0..(n - 1) : sm[a + k] = ByteOf(v, n - 1 - k)) => High(sm, a, n) = Digits(v, n)
<1>1. \A k \in 0..3 : Digit(v, k) \in Nat /\ Digit(v, k) = Weighed(ByteOf(v, k), k)
  BY ByteIs DEF Digit, Weighed
<1>2. a + 0 = a OBVIOUS
<1>3. ASSUME \A k \in 0..(n - 1) : sm[a + k] = ByteOf(v, k) PROVE Low(sm, a, n) = Digits(v, n)
  <2>1. CASE n = 1
    <3>1. sm[a] = ByteOf(v, 0) BY <1>2, <1>3, <2>1
    <3> QED BY <1>1, <2>1, <3>1 DEF Low, Digits
  <2>2. CASE n = 2
    <3>1. sm[a] = ByteOf(v, 0) /\ sm[a + 1] = ByteOf(v, 1) BY <1>2, <1>3, <2>2
    <3> QED BY <1>1, <2>2, <3>1 DEF Low, Digits
  <2>3. CASE n = 4
    <3>1. /\ sm[a] = ByteOf(v, 0) /\ sm[a + 1] = ByteOf(v, 1)
          /\ sm[a + 2] = ByteOf(v, 2) /\ sm[a + 3] = ByteOf(v, 3)
      BY <1>2, <1>3, <2>3
    <3> QED BY <1>1, <2>3, <3>1 DEF Low, Digits
  <2> QED BY <2>1, <2>2, <2>3
<1>4. ASSUME \A k \in 0..(n - 1) : sm[a + k] = ByteOf(v, n - 1 - k) PROVE High(sm, a, n) = Digits(v, n)
  <2>1. CASE n = 1
    <3>1. sm[a] = ByteOf(v, 0) BY <1>2, <1>4, <2>1
    <3> QED BY <1>1, <2>1, <3>1 DEF High, Digits
  <2>2. CASE n = 2
    <3>1. sm[a] = ByteOf(v, 1) /\ sm[a + 1] = ByteOf(v, 0) BY <1>2, <1>4, <2>2
    <3> QED BY <1>1, <2>2, <3>1 DEF High, Digits
  <2>3. CASE n = 4
    <3>1. /\ sm[a] = ByteOf(v, 3) /\ sm[a + 1] = ByteOf(v, 2)
          /\ sm[a + 2] = ByteOf(v, 1) /\ sm[a + 3] = ByteOf(v, 0)
      BY <1>2, <1>4, <2>3
    <3> QED BY <1>1, <2>3, <3>1 DEF High, Digits
  <2> QED BY <2>1, <2>2, <2>3
<1> QED BY <1>3, <1>4

\* The lanes of an aligned access.
LEMMA LanesAre ==
  ASSUME NEW n \in {1, 2, 4}, NEW a \in Nat, a % n = 0
  PROVE  DOMAIN Lanes(a, n) = 0..(n - 1) /\ \A k \in 0..(n - 1) : Lanes(a, n)[k] = a + k
<1>1. Lanes(a, n) = [k \in 0..(n - 1) |-> a + k] BY DEF Lanes
<1> QED BY <1>1

\* An aligned load puts together the bytes it addresses, the highest first.
LEMMA LoadedBytes ==
  ASSUME NEW n \in {1, 2, 4}, NEW a \in Nat, a % n = 0, NEW sm, NEW io, NEW cell,
         \A k \in 0..(n - 1) : cell[a + k] = ByteAt(sm, io, a + k) /\ cell[a + k] \in Byte
  PROVE  ByteAccess4(sm, io, a, n) = High(cell, a, n)
<1> DEFINE lanes == Lanes(a, n)
           part(k) == IF k \in DOMAIN lanes THEN ByteAt(sm, io, lanes[k]) * Wide(n - 1 - k) ELSE 0
<1>1. DOMAIN lanes = 0..(n - 1) /\ \A k \in 0..(n - 1) : lanes[k] = a + k BY LanesAre
<1>2. ByteAccess4(sm, io, a, n) = part(0) + part(1) + part(2) + part(3) BY DEF ByteAccess4
<1> HIDE DEF lanes
<1>3. ASSUME NEW k \in 0..3 PROVE part(k) = IF k < n THEN Weighed(cell[a + k], n - 1 - k) ELSE 0
  <2>1. CASE k < n
    <3>1. k \in 0..(n - 1) BY <2>1
    <3>2. ByteAt(sm, io, lanes[k]) = cell[a + k] BY <1>1, <3>1
    <3> QED BY <1>1, <2>1, <3>1, <3>2 DEF Weighed
  <2>2. CASE ~(k < n)
    <3>1. k \notin 0..(n - 1) BY <2>2
    <3> QED BY <1>1, <2>2, <3>1
  <2> QED BY <2>1, <2>2
<1> HIDE DEF part
<1>4. a + 0 = a OBVIOUS
<1>5. ASSUME NEW k \in 0..(n - 1), NEW j \in 0..3 PROVE Weighed(cell[a + k], j) \in Nat
  <2>1. cell[a + k] \in Byte OBVIOUS
  <2> QED BY <2>1, ByteIs
<1>6. part(0) = Weighed(cell[a], n - 1)
  <2>1. part(0) = Weighed(cell[a + 0], n - 1 - 0) BY <1>3
  <2>2. n - 1 - 0 = n - 1 OBVIOUS
  <2> QED BY <1>4, <2>1, <2>2
<1>7. CASE n = 1
  <2>1. part(0) = Weighed(cell[a], 0) /\ part(1) = 0 /\ part(2) = 0 /\ part(3) = 0 BY <1>3, <1>6, <1>7
  <2>2. Weighed(cell[a], 0) \in Nat
    <3>1. 0 \in 0..(n - 1) BY <1>7
    <3>2. Weighed(cell[a + 0], 0) \in Nat BY <1>5, <3>1
    <3> QED BY <1>4, <3>2
  <2> QED BY <1>2, <1>7, <2>1, <2>2 DEF High
<1>8. CASE n = 2
  <2>1. part(0) = Weighed(cell[a], 1) /\ part(1) = Weighed(cell[a + 1], 0) /\ part(2) = 0 /\ part(3) = 0
    BY <1>3, <1>6, <1>8
  <2>2. Weighed(cell[a], 1) \in Nat /\ Weighed(cell[a + 1], 0) \in Nat
    <3>1. 0 \in 0..(n - 1) /\ 1 \in 0..(n - 1) BY <1>8
    <3>2. Weighed(cell[a + 0], 1) \in Nat /\ Weighed(cell[a + 1], 0) \in Nat BY <1>5, <3>1
    <3> QED BY <1>4, <3>2
  <2> QED BY <1>2, <1>8, <2>1, <2>2 DEF High
<1>9. CASE n = 4
  <2>1. /\ part(0) = Weighed(cell[a], 3) /\ part(1) = Weighed(cell[a + 1], 2)
        /\ part(2) = Weighed(cell[a + 2], 1) /\ part(3) = Weighed(cell[a + 3], 0)
    BY <1>3, <1>6, <1>9
  <2> QED BY <1>2, <1>9, <2>1 DEF High
<1> QED BY <1>7, <1>8, <1>9

\* Both read a field, or a device's register, as the same value.
LEMMA SameLoad ==
  ASSUME NEW c \in CpuState, NEW h \in HwState, NEW n \in {1, 2, 4}, NEW a \in Word, NEW io \in Word,
         \A f \in Fields : ValueOf("low", c.sm, f) = ValueOf("high", h.sm, f),
         mem_read(c, a, n, io).ok,
         \/ \E f \in Fields : a = SM_BASE + f.at /\ n = f.bytes
         \/ is_mmio(a) /\ n = 4 /\ a % 4 = 0
         \/ is_mmio(a) /\ n = 1 /\ a % 4 = 3 /\ io < Wide(1)
  PROVE  /\ ByteAccess4(h.sm, io, a, n) = mem_read(c, a, n, io).value
         /\ mem_read(c, a, n, io).value \in Word
         /\ n \in {1, 2} => mem_read(c, a, n, io).value \in 0..(Wide(n) - 1)
<1>1. a \in Nat /\ io \in Nat /\ c.sm \in Bytes /\ h.sm \in Bytes BY WordIsNat DEF CpuState, HwState
<1>2. ASSUME NEW f \in Fields, a = SM_BASE + f.at, n = f.bytes
      PROVE  /\ ByteAccess4(h.sm, io, a, n) = mem_read(c, a, n, io).value
             /\ mem_read(c, a, n, io).value \in Word
             /\ mem_read(c, a, n, io).value \in 0..(Wide(n) - 1)
  <2>1. ~is_mmio(a) /\ ~InImage(a, n) BY <1>2, FieldPlace
  <2>2. a % n = 0 /\ sm_ptr(a, n) BY <2>1 DEF mem_read, Nothing
  <2> DEFINE part(k) == IF k < n THEN c.sm[a + k] * Wide(k) ELSE 0
  <2>3. mem_read(c, a, n, io).value = part(0) + part(1) + part(2) + part(3)
    BY <2>1, <2>2 DEF mem_read
  <2>4. mem_read(c, a, n, io).value = ValueOf("low", c.sm, f)
    BY <1>2, <2>3 DEF ValueOf, Place, LowFirst
  <2>5. \A k \in 0..(n - 1) : h.sm[a + k] = ByteAt(h.sm, io, a + k) /\ h.sm[a + k] \in Byte
    <3>1. \A k \in 0..(n - 1) : Within(a + k, SM_BASE, SM_BYTES) /\ a + k \in Shared BY <1>2, FieldPlace
    <3> QED BY <1>1, <3>1 DEF ByteAt, Bytes
  <2>6. ByteAccess4(h.sm, io, a, n) = High(h.sm, a, n) BY <1>1, <2>2, <2>5, LoadedBytes
  <2>7. High(h.sm, a, n) = ValueOf("high", h.sm, f) BY <1>1, <1>2, FieldValue
  <2>8. /\ ValueOf("low", c.sm, f) = Low(c.sm, a, n)
        /\ Low(c.sm, a, n) \in Word /\ Low(c.sm, a, n) \in 0..(Wide(n) - 1)
    BY <1>1, <1>2, FieldValue
  <2> HIDE DEF part
  <2> QED BY <2>4, <2>6, <2>7, <2>8
<1>3. ASSUME is_mmio(a), NEW k \in 0..3, is_mmio(a + k)
      PROVE  ByteAt(h.sm, io, a + k) = ByteOf(io, 3 - ((a + k) % 4))
  <2>1. ~Within(a + k, SM_BASE, SM_BYTES)
    <3>1. Within(a + k, SM_BASE, SM_BYTES) => ~Within(a + k, MMIO_BASE, MMIO_BYTES)
      BY MapAssumption DEF Within
    <3> QED BY <1>3, <3>1 DEF is_mmio
  <2> QED BY <1>3, <2>1 DEF ByteAt, ByteOf, is_mmio
<1>4. is_mmio(a) => mem_read(c, a, n, io).value = io BY DEF mem_read
<1>5. CASE is_mmio(a) /\ n = 4 /\ a % 4 = 0
  <2>1. \A k \in 0..3 : is_mmio(a + k) /\ 3 - ((a + k) % 4) = 3 - k
    <3>1. PICK base, bytes \in Nat : base = MMIO_BASE /\ bytes = MMIO_BYTES BY MapAssumption
    <3>2. base % 4 = 0 /\ bytes % 4 = 0 BY <3>1, MapAssumption
    <3>3. a \in base..(base + bytes - 1) BY <1>5, <3>1 DEF is_mmio, Within
    <3>4. \A k \in 0..3 : a + k \in base..(base + bytes - 1) /\ (a + k) % 4 = k BY <1>1, <1>5, <3>2, <3>3
    <3> QED BY <3>1, <3>4 DEF is_mmio, Within
  <2> DEFINE cell == [x \in a..(a + 3) |-> ByteOf(io, 3 - (x - a))]
  <2>2. ASSUME NEW k \in 0..3 PROVE cell[a + k] = ByteAt(h.sm, io, a + k) /\ cell[a + k] \in Byte
    <3>1. a + k \in a..(a + 3) /\ (a + k) - a = k BY <1>1
    <3>2. cell[a + k] = ByteOf(io, 3 - k) BY <3>1
    <3>3. ByteAt(h.sm, io, a + k) = ByteOf(io, 3 - k) BY <1>3, <1>5, <2>1
    <3>4. 3 - k \in 0..3 OBVIOUS
    <3> HIDE DEF cell
    <3> QED BY <1>1, <3>2, <3>3, <3>4, ByteIs
  <2>3. ASSUME NEW k \in 0..3 PROVE cell[a + k] = ByteOf(io, 4 - 1 - k)
    <3>1. a + k \in a..(a + 3) /\ (a + k) - a = k /\ 4 - 1 - k = 3 - k BY <1>1
    <3> QED BY <3>1
  <2> HIDE DEF cell
  <2>4. ByteAccess4(h.sm, io, a, 4) = High(cell, a, 4)
    <3>1. \A k \in 0..(4 - 1) : cell[a + k] = ByteAt(h.sm, io, a + k) /\ cell[a + k] \in Byte BY <2>2
    <3>2. 4 \in {1, 2, 4} /\ a % 4 = 0 BY <1>5
    <3> QED BY <1>1, <3>1, <3>2, LoadedBytes
  <2>5. High(cell, a, 4) = Digits(io, 4)
    <3>1. \A k \in 0..(4 - 1) : cell[a + k] = ByteOf(io, 4 - 1 - k) BY <2>3
    <3> QED BY <1>1, <3>1, ValueStored
  <2>6. Digits(io, 4) = io BY FourBytes
  <2> QED BY <1>4, <1>5, <2>4, <2>5, <2>6
<1>6. CASE is_mmio(a) /\ n = 1 /\ a % 4 = 3 /\ io < Wide(1)
  <2>1. a + 0 = a /\ 3 - ((a + 0) % 4) = 0 BY <1>1, <1>6
  <2>2. ByteAt(h.sm, io, a) = ByteOf(io, 0)
    <3>1. ByteAt(h.sm, io, a + 0) = ByteOf(io, 3 - ((a + 0) % 4)) BY <1>3, <1>6, <2>1
    <3> QED BY <2>1, <3>1
  <2>3. ByteOf(io, 0) = io
    <3>1. PICK w \in Nat \ {0, 1} : w = Wide(1) /\ Wide(0) = 1 BY WidthsGrow
    <3>2. io \div 1 = io /\ io % w = io BY <1>1, <1>6, <3>1
    <3> QED BY <3>1, <3>2 DEF ByteOf
  <2> DEFINE cell == [x \in a..a |-> io]
  <2>4. io \in Byte BY <1>1, <1>6, WidthsGrow DEF Byte
  <2>5. \A k \in 0..(1 - 1) : cell[a + k] = ByteAt(h.sm, io, a + k) /\ cell[a + k] \in Byte
    BY <1>1, <2>1, <2>2, <2>3, <2>4
  <2>6. cell[a] = io BY <1>1
  <2> HIDE DEF cell
  <2>7. ByteAccess4(h.sm, io, a, 1) = High(cell, a, 1)
    <3>1. 1 \in {1, 2, 4} /\ a % 1 = 0 BY <1>1
    <3> QED BY <1>1, <2>5, <3>1, LoadedBytes
  <2>8. High(cell, a, 1) = io BY <2>4, <2>6, ByteIs DEF High
  <2> QED BY <1>4, <1>6, <2>4, <2>7, <2>8 DEF Byte
<1> QED BY <1>2, <1>5, <1>6

\* A field is one run of bytes: no other field is touched with it.
LEMMA FieldsApart ==
  ASSUME NEW f \in Fields, NEW g \in Fields, f # g, NEW k \in 0..(g.bytes - 1)
  PROVE  SM_BASE + g.at + k \notin (SM_BASE + f.at)..(SM_BASE + f.at + f.bytes - 1)
<1>1. /\ f.at \in Nat /\ g.at \in Nat /\ f.bytes \in {1, 2, 4} /\ g.bytes \in {1, 2, 4} /\ SM_BASE \in Nat
  BY FieldPlace
<1>2. f.at + f.bytes <= g.at \/ g.at + g.bytes <= f.at BY FieldsAssumption
<1> QED BY <1>1, <1>2

\* Both store the same value in a field, and leave the others as they are.
LEMMA SameStore ==
  ASSUME NEW c \in CpuState, NEW h \in HwState, NEW n \in {1, 2, 4}, NEW a \in Word, NEW v \in Word,
         \A f \in Fields : ValueOf("low", c.sm, f) = ValueOf("high", h.sm, f),
         mem_write(c, a, n, v).ok,
         \/ \E f \in Fields : a = SM_BASE + f.at /\ n = f.bytes
         \/ is_mmio(a) /\ n = 4 /\ a % 4 = 0
  PROVE  /\ mem_write(c, a, n, v).sm \in Bytes /\ Written(h.sm, a, n, v) \in Bytes
         /\ \A g \in Fields : ValueOf("low", mem_write(c, a, n, v).sm, g)
                                = ValueOf("high", Written(h.sm, a, n, v), g)
<1>1. a \in Nat /\ v \in Nat /\ c.sm \in Bytes /\ h.sm \in Bytes BY WordIsNat DEF CpuState, HwState
<1>2. DOMAIN c.sm = Shared /\ DOMAIN h.sm = Shared BY <1>1 DEF Bytes
<1>3. ASSUME is_mmio(a), n = 4, a % 4 = 0
      PROVE  mem_write(c, a, n, v).sm = c.sm /\ Written(h.sm, a, n, v) = h.sm
  <2>1. mem_write(c, a, n, v).sm = c.sm BY <1>3 DEF mem_write
  <2>2. \A k \in 0..3 : is_mmio(a + k)
    <3>1. PICK base, bytes \in Nat : base = MMIO_BASE /\ bytes = MMIO_BYTES BY MapAssumption
    <3>2. base % 4 = 0 /\ bytes % 4 = 0 BY <3>1, MapAssumption
    <3>3. a \in base..(base + bytes - 1) BY <1>3, <3>1 DEF is_mmio, Within
    <3>4. \A k \in 0..3 : a + k \in base..(base + bytes - 1) BY <1>1, <1>3, <3>2, <3>3
    <3> QED BY <3>1, <3>4 DEF is_mmio, Within
  <2>3. \A k \in 0..3 : a + k \notin Shared
    <3>1. \A x \in Shared : ~is_mmio(x) BY MapAssumption DEF Shared, is_mmio
    <3> QED BY <2>2, <3>1
  <2>4. DOMAIN Lanes(a, 4) = 0..3 /\ \A k \in 0..3 : Lanes(a, 4)[k] = a + k
    <3>1. Lanes(a, 4) = [k \in 0..(4 - 1) |-> a + k] BY <1>3 DEF Lanes
    <3> QED BY <3>1
  <2>5. Written(h.sm, a, 4, v) = [x \in DOMAIN h.sm |->
          IF \E k \in DOMAIN Lanes(a, 4) : Lanes(a, 4)[k] = x
          THEN (v \div Wide(4 - 1 - (x - a))) % Wide(1) ELSE h.sm[x]]
    BY DEF Written
  <2>6. \A x \in DOMAIN h.sm : ~(\E k \in DOMAIN Lanes(a, 4) : Lanes(a, 4)[k] = x) BY <1>2, <2>3, <2>4
  <2>7. Written(h.sm, a, 4, v) = [x \in DOMAIN h.sm |-> h.sm[x]] BY <2>5, <2>6, Zenon
  <2>8. [x \in DOMAIN h.sm |-> h.sm[x]] = h.sm BY <1>1 DEF Bytes
  <2> QED BY <1>3, <2>1, <2>7, <2>8
<1>4. ASSUME NEW f \in Fields, a = SM_BASE + f.at, n = f.bytes
      PROVE  /\ mem_write(c, a, n, v).sm \in Bytes /\ Written(h.sm, a, n, v) \in Bytes
             /\ \A g \in Fields : ValueOf("low", mem_write(c, a, n, v).sm, g)
                                    = ValueOf("high", Written(h.sm, a, n, v), g)
  <2> DEFINE here == mem_write(c, a, n, v).sm
             there == Written(h.sm, a, n, v)
  <2>1. a % n = 0 /\ ~is_mmio(a)
    <3>1. ~is_mmio(a) BY <1>4, FieldPlace
    <3> QED BY <3>1 DEF mem_write
  <2>2. here = [x \in Shared |-> IF x \in a..(a + n - 1) THEN ByteOf(v, x - a) ELSE c.sm[x]]
    <3>1. mem_write(c, a, n, v).ok /\ ~is_mmio(a) BY <2>1
    <3>2. ~(a % n # 0 \/ ~sm_ptr(a, n)) BY <3>1 DEF mem_write
    <3>3. here = [x \in DOMAIN c.sm |->
                    IF x \in a..(a + n - 1) THEN (v \div Wide(x - a)) % Wide(1) ELSE c.sm[x]]
      BY <2>1, <3>2 DEF mem_write
    <3> HIDE DEF here
    <3> QED BY <1>2, <3>3, Zenon DEF ByteOf
  <2>3. there = [x \in Shared |-> IF x \in a..(a + n - 1) THEN ByteOf(v, n - 1 - (x - a)) ELSE h.sm[x]]
    <3>1. DOMAIN Lanes(a, n) = 0..(n - 1) /\ \A k \in 0..(n - 1) : Lanes(a, n)[k] = a + k
      BY <1>1, <2>1, LanesAre
    <3>2. ASSUME NEW x \in Shared
          PROVE  (\E k \in DOMAIN Lanes(a, n) : Lanes(a, n)[k] = x) <=> x \in a..(a + n - 1)
      <4>1. x \in Nat BY MapAssumption DEF Shared
      <4>2. x \in a..(a + n - 1) <=> \E k \in 0..(n - 1) : a + k = x
        <5>1. ASSUME x \in a..(a + n - 1) PROVE \E k \in 0..(n - 1) : a + k = x
          <6>1. x - a \in 0..(n - 1) /\ a + (x - a) = x BY <1>1, <4>1, <5>1
          <6> QED BY <6>1
        <5> QED BY <1>1, <4>1, <5>1
      <4> QED BY <3>1, <4>2, Zenon
    <3>3. there = [x \in DOMAIN h.sm |->
                     IF \E k \in DOMAIN Lanes(a, n) : Lanes(a, n)[k] = x
                     THEN (v \div Wide(n - 1 - (x - a))) % Wide(1) ELSE h.sm[x]]
      BY DEF Written
    <3> HIDE DEF there
    <3> QED BY <1>2, <3>2, <3>3, Zenon DEF ByteOf
  <2> HIDE DEF here, there
  <2>4. here \in Bytes /\ there \in Bytes
    <3>1. ASSUME NEW x \in Shared
          PROVE  /\ (IF x \in a..(a + n - 1) THEN ByteOf(v, x - a) ELSE c.sm[x]) \in Byte
                 /\ (IF x \in a..(a + n - 1) THEN ByteOf(v, n - 1 - (x - a)) ELSE h.sm[x]) \in Byte
      <4>1. c.sm[x] \in Byte /\ h.sm[x] \in Byte BY <1>1 DEF Bytes
      <4>2. x \in a..(a + n - 1) => x - a \in 0..3 /\ n - 1 - (x - a) \in 0..3 BY <1>1
      <4>3. x \in a..(a + n - 1) => ByteOf(v, x - a) \in Byte /\ ByteOf(v, n - 1 - (x - a)) \in Byte
        BY <1>1, <4>2, ByteIs
      <4> QED BY <4>1, <4>3
    <3> QED BY <2>2, <2>3, <3>1, Zenon DEF Bytes
  <2>5. ASSUME NEW g \in Fields PROVE ValueOf("low", here, g) = ValueOf("high", there, g)
    <3>1. CASE g = f
      <4>1. ASSUME NEW k \in 0..(n - 1)
            PROVE  here[a + k] = ByteOf(v, k) /\ there[a + k] = ByteOf(v, n - 1 - k)
        <5>1. a + k \in Shared /\ a + k \in a..(a + n - 1) /\ (a + k) - a = k
          <6>1. a + k \in Shared BY <1>4, FieldPlace
          <6> QED BY <1>1, <6>1
        <5> QED BY <2>2, <2>3, <5>1
      <4>2. Low(here, a, n) = Digits(v, n) /\ High(there, a, n) = Digits(v, n)
        BY <1>1, <4>1, ValueStored
      <4> QED BY <1>4, <2>4, <3>1, <4>2, FieldValue
    <3>2. CASE g # f
      <4> DEFINE b == SM_BASE + g.at
      <4>1. ASSUME NEW k \in 0..(g.bytes - 1) PROVE here[b + k] = c.sm[b + k] /\ there[b + k] = h.sm[b + k]
        <5>1. b + k \in Shared BY FieldPlace
        <5>2. b + k \notin a..(a + n - 1) BY <1>4, <3>2, FieldsApart
        <5> QED BY <2>2, <2>3, <5>1, <5>2
      <4>2. g.bytes \in {1, 2, 4} /\ b + 0 = b BY FieldPlace
      <4>3. /\ here[b] = c.sm[b] /\ there[b] = h.sm[b]
            /\ g.bytes # 1 => here[b + 1] = c.sm[b + 1] /\ there[b + 1] = h.sm[b + 1]
            /\ g.bytes = 4 => /\ here[b + 2] = c.sm[b + 2] /\ there[b + 2] = h.sm[b + 2]
                              /\ here[b + 3] = c.sm[b + 3] /\ there[b + 3] = h.sm[b + 3]
        <5>1. 0 \in 0..(g.bytes - 1) /\ (g.bytes # 1 => 1 \in 0..(g.bytes - 1))
              /\ (g.bytes = 4 => 2 \in 0..(g.bytes - 1) /\ 3 \in 0..(g.bytes - 1))
          BY <4>2
        <5> HIDE DEF b
        <5>2. here[b + 0] = c.sm[b + 0] /\ there[b + 0] = h.sm[b + 0] BY <4>1, <5>1
        <5> QED BY <4>1, <4>2, <5>1, <5>2
      <4> HIDE DEF b
      <4>4. Low(here, b, g.bytes) = Low(c.sm, b, g.bytes) /\ High(there, b, g.bytes) = High(h.sm, b, g.bytes)
        BY <4>2, <4>3 DEF Low, High
      <4>5. /\ ValueOf("low", here, g) = Low(here, b, g.bytes) /\ ValueOf("low", c.sm, g) = Low(c.sm, b, g.bytes)
            /\ ValueOf("high", there, g) = High(there, b, g.bytes)
            /\ ValueOf("high", h.sm, g) = High(h.sm, b, g.bytes)
        BY <1>1, <2>4, FieldValue DEF b
      <4> QED BY <4>4, <4>5
    <3> QED BY <3>1, <3>2
  <2> QED BY <2>4, <2>5 DEF here, there
<1>5. CASE is_mmio(a) /\ n = 4 /\ a % 4 = 0
  <2>1. mem_write(c, a, n, v).sm = c.sm /\ Written(h.sm, a, n, v) = h.sm BY <1>3, <1>5
  <2> QED BY <1>1, <2>1
<1> QED BY <1>4, <1>5

-----------------------------------------------------------------------------
(* The two structures, field by field *)

HwRecord(reg, load, pc, npc, compare, status, cause, epc, sm) ==
  [reg |-> reg, load |-> load, pc |-> pc, npc |-> npc, compare |-> compare, status |-> status,
   cause |-> cause, epc |-> epc, sm |-> sm]
CpuRecord(reg, pc, npc, count, compare, status, cause, epc, faulted, sm) ==
  [reg |-> reg, pc |-> pc, npc |-> npc, count |-> count, compare |-> compare, status |-> status,
   cause |-> cause, epc |-> epc, faulted |-> faulted, sm |-> sm]

\* The hardware's state is its fields.
LEMMA HwFields ==
  ASSUME NEW h \in HwState
  PROVE  h = HwRecord(h.reg, h.load, h.pc, h.npc, h.compare, h.status, h.cause, h.epc, h.sm)
BY DEF HwState, HwRecord

\* The interpreter's structure is its fields.
LEMMA CpuFields ==
  ASSUME NEW c \in CpuState
  PROVE  c = CpuRecord(c.reg, c.pc, c.npc, c.count, c.compare, c.status, c.cause, c.epc, c.faulted, c.sm)
BY DEF CpuState, CpuRecord

\* What StageDX leaves, an mtc0 apart.
NewReg(h, i) ==
  IF isMLoad(i) \/ WriteReg(h, i) = 0 THEN Held(h)
  ELSE [Held(h) EXCEPT ![WriteReg(h, i)] = RegWValue(h, i)]
NewLoad(h, i, io) ==
  IF ~isMLoad(i) \/ WriteReg(h, i) = 0 THEN NoLoad ELSE [reg |-> WriteReg(h, i), val |-> ValExtract(h, i, io)]
NewSm(h, i) ==
  IF isMStore(i) THEN Written(h.sm, ALUResult(h, i), AccessBytes(i), R2(h, i)) ELSE h.sm
Staged(h, i, io) ==
  HwRecord(NewReg(h, i), NewLoad(h, i, io), h.npc, GoesOnAt(h, i), h.compare, h.status, h.cause, h.epc, NewSm(h, i))

Changed(h, reg, load, pc, npc, sm) ==
  [h EXCEPT !.pc = pc, !.npc = npc, !.reg = reg, !.load = load, !.sm = sm]

\* The five fields StageDX changes.
LEMMA HwExcept ==
  ASSUME NEW reg, NEW load, NEW pc, NEW npc, NEW compare, NEW status, NEW cause, NEW epc, NEW sm,
         NEW reg2, NEW load2, NEW pc2, NEW npc2, NEW sm2
  PROVE  Changed(HwRecord(reg, load, pc, npc, compare, status, cause, epc, sm), reg2, load2, pc2, npc2, sm2)
           = HwRecord(reg2, load2, pc2, npc2, compare, status, cause, epc, sm2)
<1> DEFINE h0 == HwRecord(reg, load, pc, npc, compare, status, cause, epc, sm)
           h1 == HwRecord(reg, load, pc2, npc, compare, status, cause, epc, sm)
           h2 == HwRecord(reg, load, pc2, npc2, compare, status, cause, epc, sm)
           h3 == HwRecord(reg2, load, pc2, npc2, compare, status, cause, epc, sm)
           h4 == HwRecord(reg2, load2, pc2, npc2, compare, status, cause, epc, sm)
           h5 == HwRecord(reg2, load2, pc2, npc2, compare, status, cause, epc, sm2)
<1>1. [h0 EXCEPT !.pc = pc2] = h1 BY DEF HwRecord
<1>2. [h1 EXCEPT !.npc = npc2] = h2 BY DEF HwRecord
<1>3. [h2 EXCEPT !.reg = reg2] = h3 BY DEF HwRecord
<1>4. [h3 EXCEPT !.load = load2] = h4 BY DEF HwRecord
<1>5. [h4 EXCEPT !.sm = sm2] = h5 BY DEF HwRecord
<1> HIDE DEF h0, h1, h2, h3, h4, h5
<1>6. [h0 EXCEPT !.pc = pc2, !.npc = npc2, !.reg = reg2, !.load = load2, !.sm = sm2]
        = [[[[[h0 EXCEPT !.pc = pc2] EXCEPT !.npc = npc2] EXCEPT !.reg = reg2] EXCEPT !.load = load2] EXCEPT !.sm = sm2]
  BY Zenon
<1>7. [h0 EXCEPT !.pc = pc2, !.npc = npc2, !.reg = reg2, !.load = load2, !.sm = sm2] = h5
  BY <1>1, <1>2, <1>3, <1>4, <1>5, <1>6, Zenon
<1> QED BY <1>7, Zenon DEF h0, h5, Changed

\* StageDX, as the record it leaves.
LEMMA StageLeaves ==
  ASSUME NEW h \in HwState, NEW i, NEW io
  PROVE  StageDX(h, i, io) = IF isCopWrite(i) THEN CopWritten(Staged(h, i, io), i.rd, R2(h, i))
                             ELSE Staged(h, i, io)
<1>1. h = HwRecord(h.reg, h.load, h.pc, h.npc, h.compare, h.status, h.cause, h.epc, h.sm)
  BY HwFields
<1>2. Changed(HwRecord(h.reg, h.load, h.pc, h.npc, h.compare, h.status, h.cause, h.epc, h.sm),
              NewReg(h, i), NewLoad(h, i, io), h.npc, GoesOnAt(h, i), NewSm(h, i)) = Staged(h, i, io)
  BY HwExcept DEF Staged
<1> DEFINE stepped == Changed(h, NewReg(h, i), NewLoad(h, i, io), h.npc, GoesOnAt(h, i), NewSm(h, i))
<1>3. stepped = Staged(h, i, io) BY <1>1, <1>2, Zenon
<1>4. StageDX(h, i, io) = IF isCopWrite(i) THEN CopWritten(stepped, i.rd, R2(h, i)) ELSE stepped
  BY Zenon DEF StageDX, GoesOnAt, NewReg, NewLoad, NewSm, Changed
<1> HIDE DEF stepped
<1> QED BY <1>3, <1>4

\* What an mtc0 leaves of the structure.
LEMMA CopLeaves ==
  ASSUME NEW reg, NEW load, NEW pc, NEW npc, NEW compare, NEW status, NEW cause, NEW epc, NEW sm, NEW v
  PROVE  LET h == HwRecord(reg, load, pc, npc, compare, status, cause, epc, sm)
         IN  /\ CopWritten(h, 9, v) = h
             /\ CopWritten(h, 11, v) = HwRecord(reg, load, pc, npc, v, status, And(cause, Inverted(IM_TIMER)), epc, sm)
             /\ CopWritten(h, 12, v) = HwRecord(reg, load, pc, npc, compare, v, cause, epc, sm)
             /\ CopWritten(h, 13, v) = HwRecord(reg, load, pc, npc, compare, status, Merged(cause, v), epc, sm)
<1> DEFINE h == HwRecord(reg, load, pc, npc, compare, status, cause, epc, sm)
<1>1. CopWritten(h, 9, v) = h BY DEF CopWritten
<1>2. CopWritten(h, 11, v) = HwRecord(reg, load, pc, npc, v, status, And(cause, Inverted(IM_TIMER)), epc, sm)
  <2>1. CopWritten(h, 11, v) = [h EXCEPT !.compare = v, !.cause = And(@, Inverted(IM_TIMER))] BY DEF CopWritten
  <2> QED BY <2>1 DEF HwRecord
<1>3. CopWritten(h, 12, v) = HwRecord(reg, load, pc, npc, compare, v, cause, epc, sm)
  <2>1. CopWritten(h, 12, v) = [h EXCEPT !.status = v] BY DEF CopWritten
  <2> QED BY <2>1 DEF HwRecord
<1>4. CopWritten(h, 13, v) = HwRecord(reg, load, pc, npc, compare, status, Merged(cause, v), epc, sm)
  <2>1. CopWritten(h, 13, v)
          = [h EXCEPT !.cause = Or(And(v, Inverted(IM_POSSIBLE)), And(And(@, v), IM_POSSIBLE))] BY DEF CopWritten
  <2> QED BY <2>1 DEF HwRecord, Merged
<1> QED BY <1>1, <1>2, <1>3, <1>4

\* The interpreter's structure as an instruction begins and moves on.
Counted(c) == [c EXCEPT !.count = Plus(@, 1)]
Moved(c) == [c EXCEPT !.pc = c.npc, !.npc = Plus(c.npc, 4)]
PutReg(reg, r, v) == IF r = 0 THEN reg ELSE [reg EXCEPT ![r] = v]

\* What step does before it looks at the instruction: count, pc and npc.
LEMMA CpuMoves ==
  ASSUME NEW b \in CpuState
  PROVE  /\ Counted(b) \in CpuState
         /\ Counted(b) = CpuRecord(b.reg, b.pc, b.npc, Plus(b.count, 1), b.compare, b.status, b.cause, b.epc,
                                   b.faulted, b.sm)
         /\ Moved(Counted(b)) = CpuRecord(b.reg, b.npc, Plus(b.npc, 4), Plus(b.count, 1), b.compare, b.status,
                                          b.cause, b.epc, b.faulted, b.sm)
         /\ Plus(b.count, 1) \in Nat /\ Plus(b.npc, 4) \in Nat
<1>1. b = CpuRecord(b.reg, b.pc, b.npc, b.count, b.compare, b.status, b.cause, b.epc, b.faulted, b.sm)
  BY CpuFields
<1>2. /\ b.reg \in RegisterFile /\ b.pc \in Nat /\ b.npc \in Nat /\ b.count \in Nat /\ b.compare \in Word
      /\ b.status \in Word /\ b.cause \in Word /\ b.epc \in Word /\ b.faulted \in BOOLEAN /\ b.sm \in Bytes
  BY DEF CpuState
<1>3. Plus(b.count, 1) \in Nat /\ Plus(b.npc, 4) \in Nat BY <1>2, PlusIs, WordIsNat
<1> DEFINE c == CpuRecord(b.reg, b.pc, b.npc, Plus(b.count, 1), b.compare, b.status, b.cause, b.epc, b.faulted, b.sm)
           d == CpuRecord(b.reg, b.npc, b.npc, Plus(b.count, 1), b.compare, b.status, b.cause, b.epc, b.faulted, b.sm)
           e == CpuRecord(b.reg, b.npc, Plus(b.npc, 4), Plus(b.count, 1), b.compare, b.status, b.cause, b.epc,
                          b.faulted, b.sm)
<1>4. Counted(b) = c
  <2>1. Counted(b) = [b EXCEPT !.count = Plus(b.count, 1)] BY DEF Counted
  <2>2. [CpuRecord(b.reg, b.pc, b.npc, b.count, b.compare, b.status, b.cause, b.epc, b.faulted, b.sm)
           EXCEPT !.count = Plus(b.count, 1)] = c
    BY DEF CpuRecord
  <2> HIDE DEF c
  <2> QED BY <1>1, <2>1, <2>2, Zenon
<1>5. c \in CpuState BY <1>2, <1>3 DEF CpuRecord, CpuState
<1>6. c.npc = b.npc BY DEF CpuRecord
<1>7. [c EXCEPT !.pc = b.npc] = d BY DEF CpuRecord
<1>8. [d EXCEPT !.npc = Plus(b.npc, 4)] = e BY DEF CpuRecord
<1> HIDE DEF c, d, e
<1>9. Moved(c) = [[c EXCEPT !.pc = c.npc] EXCEPT !.npc = Plus(c.npc, 4)] BY Zenon DEF Moved
<1>10. Moved(c) = e BY <1>6, <1>7, <1>8, <1>9, Zenon
<1> QED BY <1>3, <1>4, <1>5, <1>10 DEF c, e

\* The fields of the two structures, and a register put into one.
LEMMA CpuParts ==
  ASSUME NEW reg, NEW pc, NEW npc, NEW count, NEW compare, NEW status, NEW cause, NEW epc, NEW faulted, NEW sm
  PROVE  LET c == CpuRecord(reg, pc, npc, count, compare, status, cause, epc, faulted, sm)
         IN  /\ c.reg = reg /\ c.pc = pc /\ c.npc = npc /\ c.count = count /\ c.compare = compare
             /\ c.status = status /\ c.cause = cause /\ c.epc = epc /\ c.faulted = faulted /\ c.sm = sm
BY DEF CpuRecord

GoingTo(c, v) == [c EXCEPT !.npc = v]
Storing(c, v) == [c EXCEPT !.sm = v]

\* One field of the structure replaced.
LEMMA CpuPuts ==
  ASSUME NEW reg, NEW pc, NEW npc, NEW count, NEW compare, NEW status, NEW cause, NEW epc, NEW faulted, NEW sm,
         NEW r, NEW v
  PROVE  /\ Put(CpuRecord(reg, pc, npc, count, compare, status, cause, epc, faulted, sm), r, v)
              = CpuRecord(PutReg(reg, r, v), pc, npc, count, compare, status, cause, epc, faulted, sm)
         /\ GoingTo(CpuRecord(reg, pc, npc, count, compare, status, cause, epc, faulted, sm), v)
              = CpuRecord(reg, pc, v, count, compare, status, cause, epc, faulted, sm)
         /\ Storing(CpuRecord(reg, pc, npc, count, compare, status, cause, epc, faulted, sm), v)
              = CpuRecord(reg, pc, npc, count, compare, status, cause, epc, faulted, v)
<1> DEFINE c == CpuRecord(reg, pc, npc, count, compare, status, cause, epc, faulted, sm)
<1>1. Put(c, r, v) = CpuRecord(PutReg(reg, r, v), pc, npc, count, compare, status, cause, epc, faulted, sm)
  <2>1. CASE r = 0 BY <2>1 DEF Put, PutReg
  <2>2. CASE r # 0
    <3>1. Put(c, r, v) = [c EXCEPT !.reg = [c.reg EXCEPT ![r] = v]] BY <2>2 DEF Put
    <3>2. PutReg(reg, r, v) = [reg EXCEPT ![r] = v] BY <2>2 DEF PutReg
    <3>3. c.reg = reg BY DEF CpuRecord
    <3>4. [c EXCEPT !.reg = PutReg(reg, r, v)]
            = CpuRecord(PutReg(reg, r, v), pc, npc, count, compare, status, cause, epc, faulted, sm)
      BY DEF CpuRecord
    <3> HIDE DEF c
    <3> QED BY <3>1, <3>2, <3>3, <3>4, Zenon
  <2> QED BY <2>1, <2>2
<1>2. GoingTo(c, v) = CpuRecord(reg, pc, v, count, compare, status, cause, epc, faulted, sm)
  BY DEF CpuRecord, GoingTo
<1>3. Storing(c, v) = CpuRecord(reg, pc, npc, count, compare, status, cause, epc, faulted, v)
  BY DEF CpuRecord, Storing
<1> QED BY <1>1, <1>2, <1>3

\* What an mtc0 leaves of the interpreter's structure.
LEMMA CpuSets ==
  ASSUME NEW reg, NEW pc, NEW npc, NEW count, NEW compare, NEW status, NEW cause, NEW epc, NEW faulted, NEW sm,
         NEW i, i.rd \in {9, 11, 12, 13}
  PROVE  Cop0Written(CpuRecord(reg, pc, npc, count, compare, status, cause, epc, faulted, sm), i)
           = CpuRecord(reg, pc, npc, IF i.rd = 9 THEN reg[i.rt] ELSE count, IF i.rd = 11 THEN reg[i.rt] ELSE compare,
                       IF i.rd = 12 THEN reg[i.rt] ELSE status, IF i.rd = 13 THEN MergedHere(cause, reg[i.rt]) ELSE cause,
                       epc, faulted, sm)
<1> DEFINE c == CpuRecord(reg, pc, npc, count, compare, status, cause, epc, faulted, sm)
           v == reg[i.rt]
           value == IF i.rd = 13 THEN MergedHere(cause, v) ELSE v
<1>1. c.reg = reg /\ c.cause = cause BY DEF CpuRecord
<1>2. Cop0Written(c, i) = [c EXCEPT ![cop0_reg[i.rd]] = value]
  <2> HIDE DEF c
  <2> QED BY <1>1, Zenon DEF Cop0Written, MergedHere
<1>3. /\ cop0_reg[9] = "count" /\ cop0_reg[11] = "compare" /\ cop0_reg[12] = "status" /\ cop0_reg[13] = "cause"
  BY DEF cop0_reg
<1>4. /\ i.rd = 13 => value = MergedHere(cause, v)
      /\ i.rd # 13 => value = v
  OBVIOUS
<1>5. /\ [c EXCEPT !.count = v] = CpuRecord(reg, pc, npc, v, compare, status, cause, epc, faulted, sm)
      /\ [c EXCEPT !.compare = v] = CpuRecord(reg, pc, npc, count, v, status, cause, epc, faulted, sm)
      /\ [c EXCEPT !.status = v] = CpuRecord(reg, pc, npc, count, compare, v, cause, epc, faulted, sm)
      /\ [c EXCEPT !.cause = MergedHere(cause, v)]
           = CpuRecord(reg, pc, npc, count, compare, status, MergedHere(cause, v), epc, faulted, sm)
  <2>1. [c EXCEPT !.count = v] = CpuRecord(reg, pc, npc, v, compare, status, cause, epc, faulted, sm)
    BY DEF CpuRecord
  <2>2. [c EXCEPT !.compare = v] = CpuRecord(reg, pc, npc, count, v, status, cause, epc, faulted, sm)
    BY DEF CpuRecord
  <2>3. [c EXCEPT !.status = v] = CpuRecord(reg, pc, npc, count, compare, v, cause, epc, faulted, sm)
    BY DEF CpuRecord
  <2>4. [c EXCEPT !.cause = MergedHere(cause, v)]
          = CpuRecord(reg, pc, npc, count, compare, status, MergedHere(cause, v), epc, faulted, sm)
    BY DEF CpuRecord
  <2> QED BY <2>1, <2>2, <2>3, <2>4
<1> HIDE DEF c, v, value
<1>6. ASSUME i.rd = 9 PROVE Cop0Written(c, i) = CpuRecord(reg, pc, npc, v, compare, status, cause, epc, faulted, sm)
  <2>1. cop0_reg[i.rd] = "count" BY <1>3, <1>6
  <2>2. value = v BY <1>4, <1>6
  <2>3. [c EXCEPT ![cop0_reg[i.rd]] = value] = [c EXCEPT !["count"] = v] BY <2>1, <2>2, Zenon
  <2>4. [c EXCEPT !["count"] = v] = [c EXCEPT !.count = v] BY Zenon
  <2> QED BY <1>2, <1>5, <2>3, <2>4, Zenon
<1>7. ASSUME i.rd = 11 PROVE Cop0Written(c, i) = CpuRecord(reg, pc, npc, count, v, status, cause, epc, faulted, sm)
  <2>1. cop0_reg[i.rd] = "compare" BY <1>3, <1>7
  <2>2. value = v BY <1>4, <1>7
  <2>3. [c EXCEPT ![cop0_reg[i.rd]] = value] = [c EXCEPT !["compare"] = v] BY <2>1, <2>2, Zenon
  <2>4. [c EXCEPT !["compare"] = v] = [c EXCEPT !.compare = v] BY Zenon
  <2> QED BY <1>2, <1>5, <2>3, <2>4, Zenon
<1>8. ASSUME i.rd = 12 PROVE Cop0Written(c, i) = CpuRecord(reg, pc, npc, count, compare, v, cause, epc, faulted, sm)
  <2>1. cop0_reg[i.rd] = "status" BY <1>3, <1>8
  <2>2. value = v BY <1>4, <1>8
  <2>3. [c EXCEPT ![cop0_reg[i.rd]] = value] = [c EXCEPT !["status"] = v] BY <2>1, <2>2, Zenon
  <2>4. [c EXCEPT !["status"] = v] = [c EXCEPT !.status = v] BY Zenon
  <2> QED BY <1>2, <1>5, <2>3, <2>4, Zenon
<1>9. ASSUME i.rd = 13 PROVE Cop0Written(c, i) = CpuRecord(reg, pc, npc, count, compare, status, MergedHere(cause, v), epc, faulted, sm)
  <2>1. cop0_reg[i.rd] = "cause" BY <1>3, <1>9
  <2>2. value = MergedHere(cause, v) BY <1>4, <1>9
  <2>3. [c EXCEPT ![cop0_reg[i.rd]] = value] = [c EXCEPT !["cause"] = MergedHere(cause, v)] BY <2>1, <2>2, Zenon
  <2>4. [c EXCEPT !["cause"] = MergedHere(cause, v)] = [c EXCEPT !.cause = MergedHere(cause, v)] BY Zenon
  <2> QED BY <1>2, <1>5, <2>3, <2>4, Zenon
<1> QED BY <1>6, <1>7, <1>8, <1>9 DEF c, v

\* What an instruction does, by its kind.
LEMMA StepLeaves ==
  ASSUME NEW b, NEW i \in Instruction, Known(i), ~OnlyHere(i), NEW io
  PROVE  LET c == Counted(b)
             address == Plus(c.reg[i.rs], SExt(i.imm, 2))
             read == mem_read(c, address, SizeOf(i), io)
             written == mem_write(c, address, SizeOf(i), c.reg[i.rt])
         IN  /\ Loads(i) => step(b, i, io) =
                  [ok |-> read.ok, cpu |-> IF read.ok THEN Put(Moved(c), i.rt, Extended(i, read.value)) ELSE Moved(c)]
             /\ Stores(i) => step(b, i, io) = [ok |-> written.ok, cpu |-> [Moved(c) EXCEPT !.sm = written.sm]]
             /\ Sets(i) => step(b, i, io) = [ok |-> TRUE, cpu |-> Cop0Written(Moved(c), i)]
             /\ Computes(i) \/ Reads(i) \/ Goes(i) => step(b, i, io) =
                  [ok |-> TRUE, cpu |-> IF Destination(i) = 0 THEN [Moved(c) EXCEPT !.npc = NextPC(c, i)]
                                        ELSE Put([Moved(c) EXCEPT !.npc = NextPC(c, i)], Destination(i), Computed(c, i))]
<1> DEFINE c == Counted(b)
           address == Plus(c.reg[i.rs], SExt(i.imm, 2))
           read == mem_read(c, address, SizeOf(i), io)
           written == mem_write(c, address, SizeOf(i), c.reg[i.rt])
           other == IF Destination(i) = 0 THEN [Moved(c) EXCEPT !.npc = NextPC(c, i)]
                    ELSE Put([Moved(c) EXCEPT !.npc = NextPC(c, i)], Destination(i), Computed(c, i))
           loaded == IF read.ok THEN Put(Moved(c), i.rt, Extended(i, read.value)) ELSE Moved(c)
           stored == [Moved(c) EXCEPT !.sm = written.sm]
<1>1. step(b, i, io) =
        CASE ~Known(i) -> [ok |-> FALSE, cpu |-> Moved(c)]
          [] Known(i) /\ isMLoad(i) -> [ok |-> read.ok, cpu |-> loaded]
          [] Known(i) /\ isMStore(i) -> [ok |-> written.ok, cpu |-> stored]
          [] Known(i) /\ isCopWrite(i) -> [ok |-> TRUE, cpu |-> Cop0Written(Moved(c), i)]
          [] OTHER -> [ok |-> TRUE, cpu |-> other]
  BY Zenon DEF step, Counted, Moved
<1> HIDE DEF c, address, read, written, other, loaded, stored
<1>2. /\ isMLoad(i) <=> i.op \in 32..39
      /\ isMStore(i) <=> i.op \in 40..47
      /\ isCopWrite(i) <=> Sets(i)
  BY Decoder, Controls
<1>3. ASSUME Loads(i) PROVE step(b, i, io) = [ok |-> read.ok, cpu |-> loaded]
  <2>1. isMLoad(i) BY <1>2, <1>3 DEF Loads
  <2>2. ~isMStore(i) /\ ~isCopWrite(i) BY <1>2, <1>3 DEF Loads, Sets
  <2> QED BY <1>1, <2>1, <2>2, Zenon
<1>4. ASSUME Stores(i) PROVE step(b, i, io) = [ok |-> written.ok, cpu |-> stored]
  <2>1. isMStore(i) /\ ~isMLoad(i) /\ ~isCopWrite(i) BY <1>2, <1>4 DEF Stores, Sets
  <2> QED BY <1>1, <2>1, Zenon
<1>5. ASSUME Sets(i) PROVE step(b, i, io) = [ok |-> TRUE, cpu |-> Cop0Written(Moved(c), i)]
  <2>1. isCopWrite(i) /\ ~isMLoad(i) /\ ~isMStore(i) BY <1>2, <1>5 DEF Sets
  <2> QED BY <1>1, <2>1, Zenon
<1>6. ASSUME Computes(i) \/ Reads(i) \/ Goes(i) PROVE step(b, i, io) = [ok |-> TRUE, cpu |-> other]
  <2>1. ~isCopWrite(i) /\ ~isMLoad(i) /\ ~isMStore(i)
    BY <1>2, <1>6 DEF Sets, Computes, Reads, Goes
  <2> QED BY <1>1, <2>1, Zenon
<1> QED BY <1>3, <1>4, <1>5, <1>6 DEF c, address, read, written, other, loaded, stored
\* The fields of the hardware's state, and its registers.
LEMMA HwParts ==
  ASSUME NEW reg, NEW load, NEW pc, NEW npc, NEW compare, NEW status, NEW cause, NEW epc, NEW sm
  PROVE  LET h == HwRecord(reg, load, pc, npc, compare, status, cause, epc, sm)
         IN  /\ h.reg = reg /\ h.load = load /\ h.pc = pc /\ h.npc = npc /\ h.compare = compare
             /\ h.status = status /\ h.cause = cause /\ h.epc = epc /\ h.sm = sm
             /\ Held(h) = PutReg(reg, load.reg, load.val)
<1> DEFINE h == HwRecord(reg, load, pc, npc, compare, status, cause, epc, sm)
<1>1. /\ h.reg = reg /\ h.load = load /\ h.pc = pc /\ h.npc = npc /\ h.compare = compare
      /\ h.status = status /\ h.cause = cause /\ h.epc = epc /\ h.sm = sm
  BY DEF HwRecord
<1> HIDE DEF h
<1>2. Held(h) = PutReg(reg, load.reg, load.val) BY <1>1, Zenon DEF Held, PutReg
<1> QED BY <1>1, <1>2 DEF h

\* A word put in a register.
LEMMA PutIs ==
  ASSUME NEW reg \in RegisterFile, NEW r \in Registers, NEW v, r # 0 => v \in Word
  PROVE  PutReg(reg, r, v) \in RegisterFile
<1>1. CASE r = 0 BY <1>1 DEF PutReg
<1>2. CASE r # 0
  <2>1. PutReg(reg, r, v) = [reg EXCEPT ![r] = v] /\ v \in Word BY <1>2 DEF PutReg
  <2>2. reg \in [Registers -> Word] /\ reg[0] = 0 BY DEF RegisterFile
  <2>3. [reg EXCEPT ![r] = v] \in [Registers -> Word] BY <2>1, <2>2
  <2>4. [reg EXCEPT ![r] = v][0] = 0 BY <1>2, <2>2, RegistersAssumption
  <2> QED BY <2>1, <2>3, <2>4 DEF RegisterFile
<1> QED BY <1>1, <1>2

\* What an instruction puts in its register, now or when the load is written back.
NewValue(h, i, io) == IF isMLoad(i) THEN ValExtract(h, i, io) ELSE RegWValue(h, i)

\* The registers after an instruction, the load that waits included.
LEMMA HeldAfter ==
  ASSUME NEW h \in HwState, NEW i \in Instruction, Known(i), ~OnlyHere(i), NEW io,
         DestReg(i) # 0 => NewValue(h, i, io) \in Word
  PROVE  /\ Held(Staged(h, i, io)) = PutReg(Held(h), DestReg(i), NewValue(h, i, io))
         /\ NewReg(h, i) \in RegisterFile
         /\ NewLoad(h, i, io) \in [reg : Registers, val : Word]
<1> DEFINE r == DestReg(i)
           v == NewValue(h, i, io)
<1>1. WriteReg(h, i) = r
  <2>1. ~isBLink(i) BY Controls
  <2> QED BY <2>1 DEF WriteReg
<1>2. r \in Registers /\ 0 \in Registers
  <2>1. DestReg(i) = IF Loads(i) THEN i.rt ELSE Destination(i) BY Controls
  <2>2. Destination(i) \in Registers /\ 0 \in Registers /\ (i.op # 1 => i.rt \in Registers) BY Operands
  <2>3. Loads(i) => i.op # 1 BY DEF Loads
  <2> QED BY <2>1, <2>2, <2>3
<1>3. Held(h) \in RegisterFile BY HeldIs
<1>4. r # 0 => v \in Word OBVIOUS
<1>5. 0 \in Word BY SignedWords, Masks
<1>6. Held(Staged(h, i, io)) = PutReg(NewReg(h, i), NewLoad(h, i, io).reg, NewLoad(h, i, io).val)
  <2>1. Held(HwRecord(NewReg(h, i), NewLoad(h, i, io), h.npc, GoesOnAt(h, i), h.compare, h.status, h.cause,
                      h.epc, NewSm(h, i))) = PutReg(NewReg(h, i), NewLoad(h, i, io).reg, NewLoad(h, i, io).val)
    BY HwParts
  <2> QED BY <2>1, Zenon DEF Staged
<1>7. NoLoad.reg = 0 /\ NoLoad.val = 0 BY DEF NoLoad
<1>8. \A x, y, z : PutReg(x, 0, y) = x BY DEF PutReg
<1>9. CASE r = 0
  <2>1. NewReg(h, i) = Held(h) /\ NewLoad(h, i, io) = NoLoad BY <1>1, <1>9 DEF NewReg, NewLoad
  <2>2. NoLoad \in [reg : Registers, val : Word] BY <1>2, <1>5 DEF NoLoad
  <2>3. Held(Staged(h, i, io)) = Held(h) BY <1>6, <1>7, <1>8, <2>1
  <2> QED BY <1>3, <1>8, <1>9, <2>1, <2>2, <2>3
<1>10. CASE r # 0 /\ isMLoad(i)
  <2>1. NewReg(h, i) = Held(h) /\ NewLoad(h, i, io) = [reg |-> r, val |-> v]
    BY <1>1, <1>10 DEF NewReg, NewLoad, NewValue
  <2>2. NewLoad(h, i, io).reg = r /\ NewLoad(h, i, io).val = v BY <2>1
  <2> HIDE DEF r, v
  <2>3. NewLoad(h, i, io) \in [reg : Registers, val : Word] BY <1>2, <1>4, <1>10, <2>1
  <2>4. Held(Staged(h, i, io)) = PutReg(Held(h), r, v) BY <1>6, <2>1, <2>2
  <2> QED BY <1>3, <2>1, <2>3, <2>4 DEF r, v
<1>11. CASE r # 0 /\ ~isMLoad(i)
  <2>1. NewReg(h, i) = PutReg(Held(h), r, v) /\ NewLoad(h, i, io) = NoLoad
    <3>1. NewLoad(h, i, io) = NoLoad BY <1>11 DEF NewLoad
    <3>2. v = RegWValue(h, i) BY <1>11 DEF NewValue
    <3>3. NewReg(h, i) = [Held(h) EXCEPT ![r] = RegWValue(h, i)] BY <1>1, <1>11, Zenon DEF NewReg
    <3> HIDE DEF r, v
    <3> QED BY <1>11, <3>1, <3>2, <3>3, Zenon DEF PutReg
  <2> HIDE DEF r, v
  <2>2. NoLoad \in [reg : Registers, val : Word] BY <1>2, <1>5 DEF NoLoad
  <2>3. PutReg(Held(h), r, v) \in RegisterFile BY <1>2, <1>3, <1>4, PutIs
  <2>4. Held(Staged(h, i, io)) = PutReg(Held(h), r, v) BY <1>6, <1>7, <1>8, <2>1
  <2> QED BY <2>1, <2>2, <2>3, <2>4 DEF r, v
<1> QED BY <1>9, <1>10, <1>11
\* The two structures, Cause apart.
Alike(c, h) ==
  /\ c \in CpuState /\ h \in HwState
  /\ c.reg = Held(h) /\ c.pc = h.pc /\ c.npc = h.npc
  /\ c.status = h.status /\ c.compare = h.compare /\ c.epc = h.epc
  /\ \A f \in Fields : ValueOf("low", c.sm, f) = ValueOf("high", h.sm, f)

\* What an instruction without memory puts in its register is the same.
LEMMA ValuesAlike ==
  ASSUME NEW i \in Instruction, Known(i), ~OnlyHere(i), Computes(i) \/ Reads(i) \/ Goes(i), Destination(i) # 0,
         NEW c, NEW h, Alike(c, h), Free(h, i), Reads(i) /\ i.rd = 13 => c.cause = h.cause, NEW io
  PROVE  NewValue(h, i, io) = Computed(c, i) /\ Computed(c, i) \in Word
<1>1. /\ c \in CpuState /\ h \in HwState /\ c.reg = Held(h) /\ c.pc = h.pc
      /\ c.status = h.status /\ c.compare = h.compare /\ c.epc = h.epc
  BY DEF Alike
<1>2. /\ isMLoad(i) <=> i.op \in 32..39
      /\ isLink(i) <=> i.op = 3 \/ (i.op = 0 /\ i.fn = 9)
      /\ isCopRead(i) <=> Reads(i)
  BY Decoder, Controls
<1>3. ~isMLoad(i) BY <1>2 DEF Computes, Reads, Goes
<1>4. NewValue(h, i, io) = RegWValue(h, i) BY <1>3 DEF NewValue
<1>5. CASE Computes(i)
  <2>1. ~isLink(i) /\ ~isCopRead(i) BY <1>2, <1>5 DEF Computes, Reads
  <2>2. RegWValue(h, i) = ALUResult(h, i) BY <2>1 DEF RegWValue
  <2>3. ALUResult(h, i) = Computed(c, i) /\ Computed(c, i) \in Word BY <1>1, <1>5, Results
  <2> QED BY <1>4, <2>2, <2>3
<1>6. CASE Reads(i)
  <2>1. ~isLink(i) /\ isCopRead(i) BY <1>2, <1>6 DEF Reads
  <2>2. RegWValue(h, i) = CopRead(h, i.rd) BY <2>1 DEF RegWValue
  <2>3. i.op = 16 /\ i.rd \in {11, 12, 13, 14} BY <1>6 DEF Reads
  <2>4. Computed(c, i) = c[cop0_reg[i.rd]] BY <2>3 DEF Computed
  <2>5. /\ cop0_reg[11] = "compare" /\ cop0_reg[12] = "status" /\ cop0_reg[13] = "cause" /\ cop0_reg[14] = "epc"
    BY DEF cop0_reg
  <2>6. c[cop0_reg[i.rd]] = CopRead(h, i.rd)
    <3>1. CASE i.rd = 11 BY <1>1, <2>5, <3>1 DEF CopRead
    <3>2. CASE i.rd = 12 BY <1>1, <2>5, <3>2 DEF CopRead
    <3>3. CASE i.rd = 13 BY <1>6, <2>5, <3>3 DEF CopRead
    <3>4. CASE i.rd = 14 BY <1>1, <2>5, <3>4 DEF CopRead
    <3> QED BY <2>3, <3>1, <3>2, <3>3, <3>4
  <2>7. CopRead(h, i.rd) \in Word BY <1>1, <2>3 DEF CopRead, HwState
  <2> QED BY <1>4, <2>2, <2>4, <2>6, <2>7
<1>7. CASE Goes(i)
  <2>1. i.op = 3 \/ (i.op = 0 /\ i.fn = 9) BY <1>7 DEF Goes, Destination
  <2>2. RegWValue(h, i) = Plus(h.pc, 8) BY <1>2, <2>1 DEF RegWValue
  <2>3. Computed(c, i) = Plus(c.pc, 8) BY <2>1 DEF Computed
  <2>4. Plus(c.pc, 8) \in Word
    <3>1. c.pc \in Nat BY <1>1 DEF CpuState
    <3> QED BY <3>1, PlusIs
  <2> QED BY <1>1, <1>4, <2>2, <2>3, <2>4
<1> QED BY <1>5, <1>6, <1>7

\* A field as a whole, a device's register as a word or by its lowest byte.
PortableAt(i, a, io) ==
  \/ \E f \in Fields : a = SM_BASE + f.at /\ SizeOf(i) = f.bytes
  \/ is_mmio(a) /\ SizeOf(i) = 4 /\ a % 4 = 0
  \/ is_mmio(a) /\ isMLoad(i) /\ SizeOf(i) = 1 /\ a % 4 = 3 /\ io < Wide(1)

\* A load puts the same value in its register.
LEMMA LoadsAlike ==
  ASSUME NEW i \in Instruction, Known(i), ~OnlyHere(i), Loads(i),
         NEW c, NEW h, Alike(c, h), Free(h, i), NEW io \in Word,
         mem_read(c, Plus(c.reg[i.rs], SExt(i.imm, 2)), SizeOf(i), io).ok,
         PortableAt(i, Plus(c.reg[i.rs], SExt(i.imm, 2)), io)
  PROVE  LET v == mem_read(c, Plus(c.reg[i.rs], SExt(i.imm, 2)), SizeOf(i), io).value
         IN  NewValue(h, i, io) = Extended(i, v) /\ Extended(i, v) \in Word
<1> DEFINE a == Plus(c.reg[i.rs], SExt(i.imm, 2))
           n == SizeOf(i)
           v == mem_read(c, a, n, io).value
<1>1. /\ c \in CpuState /\ h \in HwState /\ c.reg = Held(h)
      /\ \A f \in Fields : ValueOf("low", c.sm, f) = ValueOf("high", h.sm, f)
  BY DEF Alike
<1>2. ALUResult(h, i) = a /\ a \in Word BY <1>1, Addresses
<1>3. AccessBytes(i) = n /\ n \in {1, 2, 4} /\ (i.op \in {32, 33} => n \in {1, 2}) BY Accesses
<1>4. /\ isMLoad(i) <=> i.op \in 32..39
      /\ isMSigned(i) <=> i.op \in {32, 33}
  BY Decoder
<1>5. isMLoad(i) BY <1>4 DEF Loads
<1>6. mem_read(c, a, n, io).ok OBVIOUS
<1>7. \/ \E f \in Fields : a = SM_BASE + f.at /\ n = f.bytes
      \/ is_mmio(a) /\ n = 4 /\ a % 4 = 0
      \/ is_mmio(a) /\ n = 1 /\ a % 4 = 3 /\ io < Wide(1)
  BY DEF PortableAt
<1> HIDE DEF a, n
<1>8. ByteAccess4(h.sm, io, a, n) = v /\ v \in Word /\ (n \in {1, 2} => v \in 0..(Wide(n) - 1))
  BY <1>1, <1>2, <1>3, <1>6, <1>7, SameLoad
<1>9. ValExtract(h, i, io) = IF isMSigned(i) /\ n \in {1, 2} THEN SExt(v, n) ELSE v
  BY <1>2, <1>3, <1>8, Zenon DEF ValExtract
<1> HIDE DEF v
<1>10. NewValue(h, i, io) = IF i.op \in {32, 33} THEN SExt(v, n) ELSE v
  BY <1>3, <1>4, <1>5, <1>9 DEF NewValue
<1>11. Extended(i, v) = IF i.op \in {32, 33} THEN SExt(v % Wide(n), n) ELSE v
  BY DEF Extended, n
<1>12. ASSUME i.op \in {32, 33} PROVE v % Wide(n) = v /\ SExt(v, n) \in Word
  <2>1. n \in {1, 2} BY <1>3, <1>12
  <2>2. v \in 0..(Wide(n) - 1) BY <1>8, <2>1
  <2>3. Wide(n) \in Nat \ {0} BY <2>1, WidthsGrow
  <2>4. v % Wide(n) = v BY <2>2, <2>3
  <2> QED BY <2>1, <2>2, <2>4, SExtIs
<1> QED BY <1>8, <1>10, <1>11, <1>12 DEF v, a, n
\* Structures with the same parts are alike.
SameParts(b, reg, reg2, load, pc, npc, count, compare, status, cause, cause2, epc, sm, sm2) ==
  /\ b \in CpuState /\ reg \in RegisterFile /\ reg2 \in RegisterFile /\ load \in [reg : Registers, val : Word]
  /\ reg = PutReg(reg2, load.reg, load.val)
  /\ pc \in Nat /\ npc \in Nat /\ count \in Nat /\ compare \in Word /\ status \in Word
  /\ cause \in Word /\ cause2 \in Word /\ epc \in Word /\ sm \in Bytes /\ sm2 \in Bytes
  /\ \A f \in Fields : ValueOf("low", sm, f) = ValueOf("high", sm2, f)

\* Two structures with such parts are alike.
LEMMA AlikeIs ==
  ASSUME NEW b, NEW reg, NEW reg2, NEW load, NEW pc, NEW npc, NEW count, NEW compare, NEW status, NEW cause,
         NEW cause2, NEW epc, NEW sm, NEW sm2,
         SameParts(b, reg, reg2, load, pc, npc, count, compare, status, cause, cause2, epc, sm, sm2)
  PROVE  Alike(CpuRecord(reg, pc, npc, count, compare, status, cause, epc, b.faulted, sm),
               HwRecord(reg2, load, pc, npc, compare, status, cause2, epc, sm2))
<1> DEFINE c == CpuRecord(reg, pc, npc, count, compare, status, cause, epc, b.faulted, sm)
           h == HwRecord(reg2, load, pc, npc, compare, status, cause2, epc, sm2)
<1>1. c \in CpuState BY DEF CpuRecord, CpuState, SameParts
<1>2. h \in HwState BY DEF HwRecord, HwState, SameParts
<1>3. /\ c.reg = reg /\ c.pc = pc /\ c.npc = npc /\ c.compare = compare
      /\ c.status = status /\ c.epc = epc /\ c.sm = sm
  BY CpuParts
<1>4. /\ h.pc = pc /\ h.npc = npc /\ h.compare = compare
      /\ h.status = status /\ h.epc = epc /\ h.sm = sm2
      /\ Held(h) = PutReg(reg2, load.reg, load.val)
  BY HwParts
<1> HIDE DEF c, h
<1>5. Alike(c, h) BY <1>1, <1>2, <1>3, <1>4 DEF Alike, SameParts
<1> QED BY <1>5 DEF c, h

-----------------------------------------------------------------------------
(* One instruction *)

\* An instruction the two execute alike.
Stepping(b, h, i) ==
  Alike(b, h) /\ i \in Instruction /\ Known(i) /\ ~OnlyHere(i) /\ Free(h, i) /\ InImage(b.pc, 4)

\* What it leaves, before an mtc0 and a store.
LEMMA StagedParts ==
  ASSUME NEW b, NEW h, NEW i, Stepping(b, h, i), NEW io, DestReg(i) # 0 => NewValue(h, i, io) \in Word
  PROVE  /\ NewReg(h, i) \in RegisterFile /\ NewLoad(h, i, io) \in [reg : Registers, val : Word]
         /\ PutReg(b.reg, DestReg(i), NewValue(h, i, io)) \in RegisterFile
         /\ PutReg(b.reg, DestReg(i), NewValue(h, i, io))
              = PutReg(NewReg(h, i), NewLoad(h, i, io).reg, NewLoad(h, i, io).val)
<1>1. /\ b \in CpuState /\ h \in HwState /\ b.reg = Held(h) /\ i \in Instruction /\ Known(i) /\ ~OnlyHere(i)
      /\ b.reg \in RegisterFile
  BY DEF Stepping, Alike, CpuState
<1>2. /\ Held(Staged(h, i, io)) = PutReg(Held(h), DestReg(i), NewValue(h, i, io))
      /\ NewReg(h, i) \in RegisterFile
      /\ NewLoad(h, i, io) \in [reg : Registers, val : Word]
  BY <1>1, HeldAfter
<1>3. Held(HwRecord(NewReg(h, i), NewLoad(h, i, io), h.npc, GoesOnAt(h, i), h.compare, h.status, h.cause,
                    h.epc, NewSm(h, i))) = PutReg(NewReg(h, i), NewLoad(h, i, io).reg, NewLoad(h, i, io).val)
  BY HwParts
<1>4. PutReg(b.reg, DestReg(i), NewValue(h, i, io)) = PutReg(NewReg(h, i), NewLoad(h, i, io).reg, NewLoad(h, i, io).val)
  BY <1>1, <1>2, <1>3, Zenon DEF Staged
<1>5. DestReg(i) \in Registers
  <2>1. DestReg(i) = IF Loads(i) THEN i.rt ELSE Destination(i) BY <1>1, Controls
  <2>2. Destination(i) \in Registers /\ (i.op # 1 => i.rt \in Registers) BY <1>1, Operands
  <2>3. Loads(i) => i.op # 1 BY DEF Loads
  <2> QED BY <2>1, <2>2, <2>3
<1>6. PutReg(b.reg, DestReg(i), NewValue(h, i, io)) \in RegisterFile BY <1>1, <1>5, PutIs
<1> QED BY <1>2, <1>4, <1>6

\* The structure at the start of an instruction, and where it goes on.
LEMMA SteppingParts ==
  ASSUME NEW b, NEW h, NEW i, Stepping(b, h, i)
  PROVE  /\ b \in CpuState /\ h \in HwState
         /\ Alike(Counted(b), h) /\ Counted(b).reg = b.reg /\ Counted(b).cause = b.cause
         /\ b.npc \in Nat /\ GoesOnAt(h, i) \in Nat /\ Plus(b.count, 1) \in Nat
         /\ Goes(i) => GoesOnAt(h, i) = NextPC(Counted(b), i)
         /\ ~Goes(i) => GoesOnAt(h, i) = Plus(b.npc, 4) /\ GoesOnAt(h, i) = NextPC(Counted(b), i)
         /\ h.npc = b.npc /\ b.compare = h.compare /\ b.status = h.status /\ b.epc = h.epc
         /\ b.compare \in Word /\ b.status \in Word /\ b.epc \in Word /\ b.cause \in Word /\ h.cause \in Word
         /\ b.reg \in RegisterFile /\ b.sm \in Bytes /\ h.sm \in Bytes
<1> DEFINE c == Counted(b)
<1>1. /\ b \in CpuState /\ h \in HwState /\ b.reg = Held(h) /\ b.pc = h.pc /\ b.npc = h.npc
      /\ b.status = h.status /\ b.compare = h.compare /\ b.epc = h.epc
      /\ \A f \in Fields : ValueOf("low", b.sm, f) = ValueOf("high", h.sm, f)
      /\ i \in Instruction /\ Known(i) /\ ~OnlyHere(i) /\ Free(h, i) /\ InImage(b.pc, 4)
  BY DEF Stepping, Alike
<1>2. /\ b.reg \in RegisterFile /\ b.pc \in Nat /\ b.npc \in Nat /\ b.count \in Nat /\ b.compare \in Word
      /\ b.status \in Word /\ b.cause \in Word /\ b.epc \in Word /\ b.sm \in Bytes
      /\ h.cause \in Word /\ h.sm \in Bytes
  BY <1>1 DEF CpuState, HwState
<1>3. c \in CpuState /\ Plus(b.count, 1) \in Nat BY <1>1, CpuMoves
<1>4. /\ c.reg = b.reg /\ c.pc = b.pc /\ c.npc = b.npc /\ c.compare = b.compare /\ c.status = b.status
      /\ c.cause = b.cause /\ c.epc = b.epc /\ c.sm = b.sm
  <2>1. c = CpuRecord(b.reg, b.pc, b.npc, Plus(b.count, 1), b.compare, b.status, b.cause, b.epc, b.faulted, b.sm)
    BY <1>1, CpuMoves
  <2> HIDE DEF c
  <2> QED BY <2>1, CpuParts
<1> HIDE DEF c
<1>5. Alike(c, h) BY <1>1, <1>3, <1>4 DEF Alike
<1>6. /\ GoesOnAt(h, i) = IF Goes(i) THEN NextPC(c, i) ELSE Plus(c.npc, 4)
      /\ ~Goes(i) => NextPC(c, i) = Plus(c.npc, 4)
      /\ GoesOnAt(h, i) \in Nat
  BY <1>1, <1>3, <1>4, NextAddresses
<1> QED BY <1>1, <1>2, <1>3, <1>4, <1>5, <1>6 DEF c

\* The interpreter's structure after an instruction: faulted is the interpreter's own.
Ran(b, i, io) == [step(b, i, io).cpu EXCEPT !.faulted = ~step(b, i, io).ok]

\* What an instruction leaves is alike if it is but for faulted.
LEMMA RanAlike ==
  ASSUME NEW b, NEW i, NEW io, NEW d, NEW h, step(b, i, io).cpu = d, Alike(d, h)
  PROVE  Alike(Ran(b, i, io), h) /\ Ran(b, i, io).cause = d.cause
<1> DEFINE s == step(b, i, io)
           e == Ran(b, i, io)
<1>1. e = [d EXCEPT !.faulted = ~s.ok] BY Zenon DEF Ran
<1> HIDE DEF s, e
<1>2. d \in CpuState BY DEF Alike
<1>3. /\ e \in CpuState
      /\ e.reg = d.reg /\ e.pc = d.pc /\ e.npc = d.npc /\ e.compare = d.compare /\ e.status = d.status
      /\ e.cause = d.cause /\ e.epc = d.epc /\ e.sm = d.sm
  BY <1>1, <1>2 DEF CpuState
<1>4. Alike(e, h) BY <1>3 DEF Alike
<1> QED BY <1>3, <1>4 DEF e

\* An instruction other than mtc0, when the interpreter puts the same value in
\* its register and the shared memories go on having the same fields.
LEMMA SteppedAs ==
  ASSUME NEW b, NEW h, NEW i, Stepping(b, h, i), NEW io, ~isCopWrite(i),
         DestReg(i) # 0 => NewValue(h, i, io) \in Word,
         NEW sm, sm \in Bytes, NewSm(h, i) \in Bytes,
         \A f \in Fields : ValueOf("low", sm, f) = ValueOf("high", NewSm(h, i), f),
         step(b, i, io).cpu
           = CpuRecord(PutReg(b.reg, DestReg(i), NewValue(h, i, io)), b.npc, GoesOnAt(h, i), Plus(b.count, 1),
                       b.compare, b.status, b.cause, b.epc, b.faulted, sm)
  PROVE  /\ Alike(Ran(b, i, io), StageDX(h, i, io))
         /\ Ran(b, i, io).cause = b.cause /\ StageDX(h, i, io).cause = h.cause
<1> DEFINE reg == PutReg(b.reg, DestReg(i), NewValue(h, i, io))
           reg2 == NewReg(h, i)
           load == NewLoad(h, i, io)
           npc == GoesOnAt(h, i)
           count == Plus(b.count, 1)
           sm2 == NewSm(h, i)
           d == CpuRecord(reg, b.npc, npc, count, b.compare, b.status, b.cause, b.epc, b.faulted, sm)
           e == HwRecord(reg2, load, b.npc, npc, b.compare, b.status, h.cause, b.epc, sm2)
<1>1. /\ reg2 \in RegisterFile /\ load \in [reg : Registers, val : Word]
      /\ reg \in RegisterFile /\ reg = PutReg(reg2, load.reg, load.val)
  BY StagedParts
<1>2. /\ b \in CpuState /\ h \in HwState /\ b.npc \in Nat /\ npc \in Nat /\ count \in Nat
      /\ h.npc = b.npc /\ b.compare = h.compare /\ b.status = h.status /\ b.epc = h.epc
      /\ b.compare \in Word /\ b.status \in Word /\ b.epc \in Word /\ b.cause \in Word /\ h.cause \in Word
  BY SteppingParts
<1>3. sm2 \in Bytes /\ \A f \in Fields : ValueOf("low", sm, f) = ValueOf("high", sm2, f) OBVIOUS
<1>4. StageDX(h, i, io) = e
  <2>1. StageDX(h, i, io) = Staged(h, i, io) BY <1>2, StageLeaves
  <2> QED BY <1>2, <2>1, Zenon DEF Staged
<1>5. step(b, i, io).cpu = d OBVIOUS
<1>6. d.cause = b.cause BY DEF CpuRecord
<1>7. e.cause = h.cause BY HwParts
<1> HIDE DEF reg, reg2, load, npc, count, sm2
<1>8. SameParts(b, reg, reg2, load, b.npc, npc, count, b.compare, b.status, b.cause, h.cause, b.epc, sm, sm2)
  BY <1>1, <1>2, <1>3 DEF SameParts
<1>9. Alike(d, e) BY <1>8, AlikeIs
<1> HIDE DEF d, e
<1> QED BY <1>4, <1>5, <1>6, <1>7, <1>9, RanAlike
\* An instruction without memory that does not write COP0.
LEMMA ComputesStep ==
  ASSUME NEW b, NEW h, NEW i, Stepping(b, h, i), NEW io, Computes(i) \/ Reads(i) \/ Goes(i),
         Reads(i) /\ i.rd = 13 => b.cause = h.cause
  PROVE  /\ Alike(Ran(b, i, io), StageDX(h, i, io))
         /\ Ran(b, i, io).cause = b.cause /\ StageDX(h, i, io).cause = h.cause
<1> DEFINE c == Counted(b)
           r == Destination(i)
           v == Computed(c, i)
           count == Plus(b.count, 1)
           reg == PutReg(b.reg, DestReg(i), NewValue(h, i, io))
           npc == GoesOnAt(h, i)
<1>1. /\ b \in CpuState /\ h \in HwState /\ i \in Instruction /\ Known(i) /\ ~OnlyHere(i) /\ Free(h, i)
      /\ Alike(c, h) /\ c.cause = b.cause
      /\ npc = NextPC(c, i)
  BY SteppingParts DEF Stepping
<1>2. DestReg(i) = r /\ ~isCopWrite(i) /\ ~isMStore(i)
  <2>1. isMStore(i) <=> i.op \in 40..47 BY <1>1, Decoder
  <2>2. ~isMStore(i) /\ ~Loads(i) /\ ~Sets(i) BY <2>1 DEF Computes, Reads, Goes, Loads, Sets
  <2> QED BY <1>1, <2>2, Controls
<1> HIDE DEF c
<1>3. r # 0 => NewValue(h, i, io) = v /\ v \in Word BY <1>1, ValuesAlike
<1>4. DestReg(i) # 0 => NewValue(h, i, io) \in Word BY <1>2, <1>3
<1>5. reg = PutReg(b.reg, r, v)
  <2>1. CASE r = 0 BY <1>2, <2>1 DEF PutReg
  <2>2. CASE r # 0
    <3>1. NewValue(h, i, io) = v BY <1>3, <2>2
    <3> HIDE DEF r, v
    <3> QED BY <1>2, <3>1
  <2> QED BY <2>1, <2>2
<1> HIDE DEF r, v, reg, npc, count
<1>6. step(b, i, io).cpu = CpuRecord(reg, b.npc, npc, count, b.compare, b.status, b.cause, b.epc, b.faulted, b.sm)
  <2> DEFINE m == CpuRecord(b.reg, b.npc, Plus(b.npc, 4), count, b.compare, b.status, b.cause, b.epc, b.faulted, b.sm)
             n == CpuRecord(b.reg, b.npc, npc, count, b.compare, b.status, b.cause, b.epc, b.faulted, b.sm)
             o == CpuRecord(reg, b.npc, npc, count, b.compare, b.status, b.cause, b.epc, b.faulted, b.sm)
  <2>1. Moved(c) = m BY <1>1, CpuMoves DEF c, count
  <2>2. GoingTo(m, npc) = n BY CpuPuts
  <2>3. Put(n, r, v) = o BY <1>5, CpuPuts
  <2>4. r = 0 => n = o
    <3>1. r = 0 => reg = b.reg BY <1>5 DEF PutReg
    <3> QED BY <3>1
  <2> HIDE DEF m, n, o
  <2>5. step(b, i, io) = [ok |-> TRUE, cpu |-> IF r = 0 THEN [Moved(c) EXCEPT !.npc = NextPC(c, i)]
                                               ELSE Put([Moved(c) EXCEPT !.npc = NextPC(c, i)], r, v)]
    BY <1>1, StepLeaves, Zenon DEF c, r, v
  <2>6. [Moved(c) EXCEPT !.npc = NextPC(c, i)] = n BY <1>1, <2>1, <2>2, Zenon DEF GoingTo
  <2>7. step(b, i, io) = [ok |-> TRUE, cpu |-> o]
    <3>1. CASE r = 0
      <4>1. n = o BY <2>4, <3>1
      <4> QED BY <2>5, <2>6, <3>1, <4>1, Zenon
    <3>2. CASE r # 0 BY <2>3, <2>5, <2>6, <3>2, Zenon
    <3> QED BY <3>1, <3>2
  <2> QED BY <2>7 DEF o
<1>7. NewSm(h, i) = h.sm /\ b.sm \in Bytes /\ h.sm \in Bytes
  <2>1. b.sm \in Bytes /\ h.sm \in Bytes BY SteppingParts
  <2> QED BY <1>2, <2>1 DEF NewSm
<1>8. \A f \in Fields : ValueOf("low", b.sm, f) = ValueOf("high", h.sm, f) BY DEF Alike, Stepping
<1> QED BY <1>2, <1>4, <1>6, <1>7, <1>8, SteppedAs DEF reg, npc, count

\* A load.
LEMMA LoadsStep ==
  ASSUME NEW b, NEW h, NEW i, Stepping(b, h, i), NEW io \in Word, Loads(i), step(b, i, io).ok,
         PortableAt(i, Plus(b.reg[i.rs], SExt(i.imm, 2)), io)
  PROVE  /\ Alike(Ran(b, i, io), StageDX(h, i, io))
         /\ Ran(b, i, io).cause = b.cause /\ StageDX(h, i, io).cause = h.cause
<1> DEFINE c == Counted(b)
           a == Plus(c.reg[i.rs], SExt(i.imm, 2))
           read == mem_read(c, a, SizeOf(i), io)
           v == Extended(i, read.value)
           count == Plus(b.count, 1)
           npc == GoesOnAt(h, i)
           reg == PutReg(b.reg, DestReg(i), NewValue(h, i, io))
<1>1. /\ b \in CpuState /\ h \in HwState /\ i \in Instruction /\ Known(i) /\ ~OnlyHere(i) /\ Free(h, i)
      /\ Alike(c, h) /\ c.reg = b.reg
      /\ ~Goes(i) => npc = Plus(b.npc, 4)
  BY SteppingParts DEF Stepping
<1>2. DestReg(i) = i.rt /\ ~isCopWrite(i) /\ ~isMStore(i) /\ ~Goes(i)
  <2>1. isMStore(i) <=> i.op \in 40..47 BY <1>1, Decoder
  <2>2. ~isMStore(i) /\ ~Goes(i) /\ ~Sets(i) BY <2>1 DEF Loads, Goes, Sets
  <2> QED BY <1>1, <2>2, Controls
<1>3. step(b, i, io) = [ok |-> read.ok, cpu |-> IF read.ok THEN Put(Moved(c), i.rt, v) ELSE Moved(c)]
  BY <1>1, StepLeaves, Zenon
<1> HIDE DEF read, v
<1>4. read.ok BY <1>3
<1>5. NewValue(h, i, io) = v /\ v \in Word
  <2>1. PortableAt(i, a, io) BY <1>1
  <2> HIDE DEF c
  <2>2. mem_read(c, Plus(c.reg[i.rs], SExt(i.imm, 2)), SizeOf(i), io).ok BY <1>4 DEF read
  <2> QED BY <1>1, <2>1, <2>2, LoadsAlike DEF v, read
<1>6. DestReg(i) # 0 => NewValue(h, i, io) \in Word BY <1>5
<1>7. reg = PutReg(b.reg, i.rt, v) BY <1>2, <1>5
<1> HIDE DEF c, reg, npc, count
<1>8. step(b, i, io).cpu = CpuRecord(reg, b.npc, npc, count, b.compare, b.status, b.cause, b.epc, b.faulted, b.sm)
  <2> DEFINE m == CpuRecord(b.reg, b.npc, npc, count, b.compare, b.status, b.cause, b.epc, b.faulted, b.sm)
             o == CpuRecord(reg, b.npc, npc, count, b.compare, b.status, b.cause, b.epc, b.faulted, b.sm)
  <2>1. Moved(c) = m
    <3>1. npc = Plus(b.npc, 4) BY <1>1, <1>2
    <3> QED BY <1>1, <3>1, CpuMoves DEF c, count
  <2>2. Put(m, i.rt, v) = o BY <1>7, CpuPuts
  <2> HIDE DEF m, o
  <2>3. step(b, i, io).cpu = Put(Moved(c), i.rt, v) BY <1>3, <1>4
  <2> QED BY <2>1, <2>2, <2>3, Zenon DEF o
<1>9. NewSm(h, i) = h.sm /\ b.sm \in Bytes /\ h.sm \in Bytes
  <2>1. b.sm \in Bytes /\ h.sm \in Bytes BY SteppingParts
  <2> QED BY <1>2, <2>1 DEF NewSm
<1>10. \A f \in Fields : ValueOf("low", b.sm, f) = ValueOf("high", h.sm, f) BY DEF Alike, Stepping
<1> QED BY <1>2, <1>6, <1>8, <1>9, <1>10, SteppedAs DEF reg, npc, count

\* A store.
LEMMA StoresStep ==
  ASSUME NEW b, NEW h, NEW i, Stepping(b, h, i), NEW io \in Word, Stores(i), step(b, i, io).ok,
         PortableAt(i, Plus(b.reg[i.rs], SExt(i.imm, 2)), io)
  PROVE  /\ Alike(Ran(b, i, io), StageDX(h, i, io))
         /\ Ran(b, i, io).cause = b.cause /\ StageDX(h, i, io).cause = h.cause
<1> DEFINE c == Counted(b)
           a == Plus(c.reg[i.rs], SExt(i.imm, 2))
           n == SizeOf(i)
           v == c.reg[i.rt]
           written == mem_write(c, a, n, v)
           count == Plus(b.count, 1)
           npc == GoesOnAt(h, i)
           reg == PutReg(b.reg, DestReg(i), NewValue(h, i, io))
<1>1. /\ b \in CpuState /\ h \in HwState /\ i \in Instruction /\ Known(i) /\ ~OnlyHere(i) /\ Free(h, i)
      /\ Alike(c, h) /\ c.reg = b.reg
      /\ ~Goes(i) => npc = Plus(b.npc, 4)
  BY SteppingParts DEF Stepping
<1>2. DestReg(i) = 0 /\ ~isCopWrite(i) /\ isMStore(i) /\ ~Goes(i) /\ ~isMLoad(i)
  <2>1. /\ isMStore(i) <=> i.op \in 40..47
        /\ isMLoad(i) <=> i.op \in 32..39
    BY <1>1, Decoder
  <2>2. isMStore(i) /\ ~Goes(i) /\ ~Sets(i) /\ ~Loads(i) /\ ~isMLoad(i) BY <2>1 DEF Stores, Goes, Sets, Loads
  <2>3. Destination(i) = 0 BY DEF Stores, Destination
  <2> QED BY <1>1, <2>2, <2>3, Controls
<1>3. step(b, i, io) = [ok |-> written.ok, cpu |-> [Moved(c) EXCEPT !.sm = written.sm]]
  BY <1>1, StepLeaves, Zenon
<1> HIDE DEF written
<1>4. written.ok BY <1>3
<1>5. \/ \E f \in Fields : a = SM_BASE + f.at /\ n = f.bytes
      \/ is_mmio(a) /\ n = 4 /\ a % 4 = 0
  <2>1. PortableAt(i, a, io) BY <1>1
  <2> HIDE DEF a
  <2> QED BY <1>2, <2>1 DEF PortableAt
<1>6. ALUResult(h, i) = a /\ a \in Word /\ R2(h, i) = v /\ v \in Word /\ AccessBytes(i) = n /\ n \in {1, 2, 4}
  <2> HIDE DEF c
  <2>1. c \in CpuState /\ c.reg = Held(h) BY <1>1 DEF Alike
  <2> QED BY <1>1, <2>1, Addresses, Accesses
<1>7. NewSm(h, i) = Written(h.sm, a, n, v) BY <1>2, <1>6, Zenon DEF NewSm
<1>8. /\ written.sm \in Bytes /\ Written(h.sm, a, n, v) \in Bytes
      /\ \A g \in Fields : ValueOf("low", written.sm, g) = ValueOf("high", Written(h.sm, a, n, v), g)
  <2> HIDE DEF a, n, v, c
  <2>1. c \in CpuState /\ \A f \in Fields : ValueOf("low", c.sm, f) = ValueOf("high", h.sm, f)
    BY <1>1 DEF Alike
  <2>2. mem_write(c, a, n, v).ok BY <1>4 DEF written
  <2> QED BY <1>1, <1>5, <1>6, <2>1, <2>2, SameStore DEF written
<1> DEFINE sm == written.sm
<1>9. sm \in Bytes /\ NewSm(h, i) \in Bytes /\ \A f \in Fields : ValueOf("low", sm, f) = ValueOf("high", NewSm(h, i), f)
  <2> HIDE DEF a, n, v, c
  <2> QED BY <1>7, <1>8
<1>10. reg = b.reg BY <1>2 DEF PutReg
<1> HIDE DEF a, n, v, c, reg, npc, count, sm
<1>11. step(b, i, io).cpu = CpuRecord(reg, b.npc, npc, count, b.compare, b.status, b.cause, b.epc, b.faulted, sm)
  <2> DEFINE m == CpuRecord(b.reg, b.npc, npc, count, b.compare, b.status, b.cause, b.epc, b.faulted, b.sm)
             o == CpuRecord(b.reg, b.npc, npc, count, b.compare, b.status, b.cause, b.epc, b.faulted, sm)
  <2>1. Moved(c) = m
    <3>1. npc = Plus(b.npc, 4) BY <1>1, <1>2
    <3> QED BY <1>1, <3>1, CpuMoves DEF c, count
  <2>2. Storing(m, sm) = o BY DEF Storing, CpuRecord
  <2>3. step(b, i, io).cpu = [Moved(c) EXCEPT !.sm = written.sm] BY <1>3
  <2> HIDE DEF m, o
  <2>4. step(b, i, io).cpu = Storing(Moved(c), sm) BY <2>3, Zenon DEF Storing, sm
  <2>5. step(b, i, io).cpu = o BY <2>1, <2>2, <2>4, Zenon
  <2> QED BY <1>10, <2>5, Zenon DEF o
<1>12. DestReg(i) # 0 => NewValue(h, i, io) \in Word BY <1>2
<1> QED BY <1>2, <1>9, <1>11, <1>12, SteppedAs DEF reg, npc, count
\* An mtc0.
LEMMA SetsStep ==
  ASSUME NEW b, NEW h, NEW i, Stepping(b, h, i), NEW io, Sets(i)
  PROVE  /\ Alike(Ran(b, i, io), StageDX(h, i, io))
         /\ b.reg[i.rt] \in Word
         /\ Ran(b, i, io).cause = IF i.rd = 13 THEN MergedHere(b.cause, b.reg[i.rt]) ELSE b.cause
         /\ StageDX(h, i, io).cause = IF i.rd = 11 THEN And(h.cause, Inverted(IM_TIMER))
                                      ELSE IF i.rd = 13 THEN Merged(h.cause, b.reg[i.rt]) ELSE h.cause
<1> DEFINE c == Counted(b)
           w == b.reg[i.rt]
           reg == PutReg(b.reg, DestReg(i), NewValue(h, i, io))
           reg2 == NewReg(h, i)
           load == NewLoad(h, i, io)
           npc == GoesOnAt(h, i)
           count == Plus(b.count, 1)
           count2 == IF i.rd = 9 THEN w ELSE count
           compare2 == IF i.rd = 11 THEN w ELSE b.compare
           status2 == IF i.rd = 12 THEN w ELSE b.status
           here == IF i.rd = 13 THEN MergedHere(b.cause, w) ELSE b.cause
           there == IF i.rd = 11 THEN And(h.cause, Inverted(IM_TIMER))
                    ELSE IF i.rd = 13 THEN Merged(h.cause, w) ELSE h.cause
           d == CpuRecord(b.reg, b.npc, npc, count2, compare2, status2, here, b.epc, b.faulted, b.sm)
           e == HwRecord(reg2, load, b.npc, npc, compare2, status2, there, b.epc, h.sm)
<1>1. /\ b \in CpuState /\ h \in HwState /\ i \in Instruction /\ Known(i) /\ ~OnlyHere(i) /\ Free(h, i)
      /\ b.reg = Held(h)
  BY SteppingParts DEF Stepping, Alike
<1>2. /\ b.npc \in Nat /\ npc \in Nat /\ count \in Nat
      /\ h.npc = b.npc /\ b.compare = h.compare /\ b.status = h.status /\ b.epc = h.epc
      /\ b.compare \in Word /\ b.status \in Word /\ b.epc \in Word /\ b.cause \in Word /\ h.cause \in Word
      /\ b.reg \in RegisterFile /\ b.sm \in Bytes /\ h.sm \in Bytes
  BY SteppingParts
<1>3. i.op = 16 /\ i.rs = 4 /\ i.rd \in {9, 11, 12, 13} BY DEF Sets
<1>4. DestReg(i) = 0 /\ isCopWrite(i) /\ ~isMStore(i) /\ npc = Plus(b.npc, 4)
  <2>1. isMStore(i) <=> i.op \in 40..47 BY <1>1, Decoder
  <2>2. ~isMStore(i) /\ ~Goes(i) /\ ~Loads(i) BY <1>3, <2>1 DEF Goes, Loads
  <2>3. Destination(i) = 0 BY <1>3 DEF Destination
  <2>4. npc = Plus(b.npc, 4) BY <2>2, SteppingParts
  <2> QED BY <1>1, <2>2, <2>3, <2>4, Controls
<1>5. R2(h, i) = w /\ w \in Word /\ w \in Nat
  <2>1. SRC2(i) = i.rt /\ i.rt \in Registers BY <1>1, <1>3, Operands
  <2>2. R2(h, i) = Held(h)[i.rt] BY <1>1, <2>1, OperandsRead
  <2>3. w \in Word BY <1>2, <2>1 DEF RegisterFile
  <2> QED BY <1>1, <2>2, <2>3, WordIsNat
<1>6. DestReg(i) # 0 => NewValue(h, i, io) \in Word BY <1>4
<1>7. /\ reg2 \in RegisterFile /\ load \in [reg : Registers, val : Word]
      /\ reg = PutReg(reg2, load.reg, load.val)
  BY <1>6, StagedParts
<1>8. reg = b.reg BY <1>4 DEF PutReg
<1>9. /\ MergedHere(b.cause, w) \in Word /\ Merged(h.cause, w) \in Word
      /\ And(h.cause, Inverted(IM_TIMER)) \in Word
  BY <1>2, <1>5, MergedOn, ClearsTimer
<1> HIDE DEF c, w, reg, reg2, load, npc, count
<1>10. step(b, i, io).cpu = d
  <2> DEFINE m == CpuRecord(b.reg, b.npc, npc, count, b.compare, b.status, b.cause, b.epc, b.faulted, b.sm)
  <2>1. Moved(c) = m BY <1>1, <1>4, CpuMoves DEF c, count
  <2>2. Cop0Written(m, i) = d BY <1>3, CpuSets DEF w
  <2> HIDE DEF m, d
  <2>3. step(b, i, io) = [ok |-> TRUE, cpu |-> Cop0Written(Moved(c), i)] BY <1>1, StepLeaves, Zenon DEF c
  <2> QED BY <2>1, <2>2, <2>3
<1>11. StageDX(h, i, io) = e
  <2> DEFINE f == HwRecord(reg2, load, b.npc, npc, b.compare, b.status, h.cause, b.epc, h.sm)
  <2>1. StageDX(h, i, io) = CopWritten(Staged(h, i, io), i.rd, w) BY <1>1, <1>4, <1>5, StageLeaves
  <2>2. NewSm(h, i) = h.sm BY <1>4 DEF NewSm
  <2>3. Staged(h, i, io) = f BY <1>2, <2>2, Zenon DEF Staged, reg2, load, npc
  <2>4. /\ CopWritten(f, 9, w) = f
        /\ CopWritten(f, 11, w)
             = HwRecord(reg2, load, b.npc, npc, w, b.status, And(h.cause, Inverted(IM_TIMER)), b.epc, h.sm)
        /\ CopWritten(f, 12, w) = HwRecord(reg2, load, b.npc, npc, b.compare, w, h.cause, b.epc, h.sm)
        /\ CopWritten(f, 13, w) = HwRecord(reg2, load, b.npc, npc, b.compare, b.status, Merged(h.cause, w), b.epc, h.sm)
    BY CopLeaves
  <2> HIDE DEF f
  <2>5. CopWritten(f, i.rd, w) = e
    <3>1. CASE i.rd = 9
      <4>1. e = f BY <3>1 DEF f
      <4> HIDE DEF e
      <4> QED BY <2>4, <3>1, <4>1
    <3>2. CASE i.rd = 11
      <4>1. e = HwRecord(reg2, load, b.npc, npc, w, b.status, And(h.cause, Inverted(IM_TIMER)), b.epc, h.sm) BY <3>2
      <4> HIDE DEF e
      <4> QED BY <2>4, <3>2, <4>1
    <3>3. CASE i.rd = 12
      <4>1. e = HwRecord(reg2, load, b.npc, npc, b.compare, w, h.cause, b.epc, h.sm) BY <3>3
      <4> HIDE DEF e
      <4> QED BY <2>4, <3>3, <4>1
    <3>4. CASE i.rd = 13
      <4>1. e = HwRecord(reg2, load, b.npc, npc, b.compare, b.status, Merged(h.cause, w), b.epc, h.sm) BY <3>4
      <4> HIDE DEF e
      <4> QED BY <2>4, <3>4, <4>1
    <3> HIDE DEF e
    <3> QED BY <1>3, <3>1, <3>2, <3>3, <3>4
  <2> HIDE DEF e
  <2> QED BY <2>1, <2>3, <2>5
<1>12. d.cause = here BY DEF CpuRecord
<1>13. e.cause = there BY HwParts
<1>14. /\ count2 \in Nat /\ compare2 \in Word /\ status2 \in Word /\ here \in Word /\ there \in Word
  BY <1>2, <1>5, <1>9
<1>15. \A f \in Fields : ValueOf("low", b.sm, f) = ValueOf("high", h.sm, f) BY DEF Alike, Stepping
<1> HIDE DEF count2, compare2, status2, here, there
<1>16. SameParts(b, b.reg, reg2, load, b.npc, npc, count2, compare2, status2, here, there, b.epc, b.sm, h.sm)
  BY <1>1, <1>2, <1>7, <1>8, <1>14, <1>15 DEF SameParts
<1>17. Alike(d, e) BY <1>16, AlikeIs
<1> HIDE DEF d, e
<1>18. Alike(Ran(b, i, io), StageDX(h, i, io)) /\ Ran(b, i, io).cause = d.cause
  BY <1>10, <1>11, <1>17, RanAlike
<1> QED BY <1>5, <1>11, <1>12, <1>13, <1>18 DEF here, there, w
-----------------------------------------------------------------------------
(* The invariant *)

\* As long as the two are the same they are alike, and so is Cause, the timer's
\* bit apart.
Related(s, c, h) ==
  /\ s \in {"yes", "but timer", "no"}
  /\ s # "no" => Alike(c, h)
  /\ s = "yes" => c.cause = h.cause
  /\ s = "but timer" => TimerApart(c.cause, h.cause)

HandlerInv == steps \in 0..MAX_STEPS /\ Related(same, cpu, hw)

\* An instruction the interpreter does not know is refused.
LEMMA StepRefuses ==
  ASSUME NEW b, NEW i, NEW io, step(b, i, io).ok
  PROVE  Known(i)
<1> SUFFICES ASSUME ~Known(i) PROVE FALSE OBVIOUS
<1>1. \E d : step(b, i, io) = [ok |-> FALSE, cpu |-> d] BY Zenon DEF step
<1> QED BY <1>1

\* An instruction after which the two are still the same.
LEMMA StillRelated ==
  ASSUME Related(same, cpu, hw), NEW i \in Instruction, NEW io \in Word, step(cpu, i, io).ok, InImage(cpu.pc, 4),
         StillSame(i, io) # "no"
  PROVE  Related(StillSame(i, io), Ran(cpu, i, io), StageDX(hw, i, io))
<1> DEFINE c == Ran(cpu, i, io)
           h == StageDX(hw, i, io)
           w == cpu.reg[i.rt]
<1>1. /\ same # "no" /\ ~UsesLoaded(i) /\ Portable(i, io) /\ ~OnlyHere(i) BY DEF StillSame
<1>2. /\ Alike(cpu, hw) /\ same \in {"yes", "but timer"}
      /\ same = "yes" => cpu.cause = hw.cause
      /\ TimerApart(cpu.cause, hw.cause)
  BY <1>1 DEF Related, TimerApart
<1>3. Known(i) BY StepRefuses
<1>4. Free(hw, i) BY <1>1 DEF UsesLoaded, Free
<1>5. Stepping(cpu, hw, i) BY <1>1, <1>2, <1>3, <1>4 DEF Stepping
<1>6. isCopRead(i) <=> Reads(i) BY <1>1, <1>3, Controls
<1>7. isCopWrite(i) <=> Sets(i) BY <1>1, <1>3, Controls
<1>8. cpu.cause \in Word /\ hw.cause \in Word BY <1>5, SteppingParts
<1> HIDE DEF c, h
<1>9. CASE Sets(i)
  <2>1. /\ Alike(c, h) /\ w \in Word
        /\ c.cause = IF i.rd = 13 THEN MergedHere(cpu.cause, w) ELSE cpu.cause
        /\ h.cause = IF i.rd = 11 THEN And(hw.cause, Inverted(IM_TIMER))
                     ELSE IF i.rd = 13 THEN Merged(hw.cause, w) ELSE hw.cause
    BY <1>5, <1>9, SetsStep DEF c, h
  <2>2. ~isCopRead(i) /\ isCopWrite(i) BY <1>6, <1>7, <1>9 DEF Reads, Sets
  <2> HIDE DEF w
  <2>3. StillSame(i, io)
          = IF i.rd = 11 THEN IF And(cpu.cause, IM_TIMER) # 0 THEN "but timer" ELSE same
            ELSE IF i.rd = 13 /\ And(w, IM_TIMER) = 0 THEN "yes" ELSE same
    BY <1>1, <2>2, Zenon DEF StillSame, w
  <2>4. CASE i.rd = 11
    <3>1. c.cause = cpu.cause /\ h.cause = And(hw.cause, Inverted(IM_TIMER)) BY <2>1, <2>4
    <3>2. TimerApart(hw.cause, h.cause) /\ (And(hw.cause, IM_TIMER) = 0 => h.cause = hw.cause)
      BY <1>8, <3>1, ClearsTimer
    <3>3. TimerApart(c.cause, h.cause) BY <1>2, <3>1, <3>2 DEF TimerApart
    <3>4. StillSame(i, io) = IF And(cpu.cause, IM_TIMER) # 0 THEN "but timer" ELSE same BY <2>3, <2>4
    <3>5. StillSame(i, io) = "yes" => c.cause = h.cause BY <1>2, <3>1, <3>2, <3>4
    <3>6. StillSame(i, io) \in {"yes", "but timer"} BY <1>2, <3>4
    <3> QED BY <2>1, <3>3, <3>5, <3>6 DEF Related, c, h
  <2>5. CASE i.rd = 13
    <3>1. c.cause = MergedHere(cpu.cause, w) /\ h.cause = Merged(hw.cause, w) BY <2>1, <2>5
    <3>2. /\ cpu.cause = hw.cause => c.cause = h.cause
          /\ TimerApart(c.cause, h.cause)
          /\ And(w, IM_TIMER) = 0 => c.cause = h.cause
      <4>1. /\ cpu.cause = hw.cause => MergedHere(cpu.cause, w) = Merged(hw.cause, w)
            /\ TimerApart(MergedHere(cpu.cause, w), Merged(hw.cause, w))
            /\ And(w, IM_TIMER) = 0 => MergedHere(cpu.cause, w) = Merged(hw.cause, w)
        <5>1. w \in Word /\ cpu.cause \in Word /\ hw.cause \in Word /\ TimerApart(cpu.cause, hw.cause)
          BY <1>2, <1>8, <2>1
        <5> QED BY <5>1, MergedAlike
      <4> QED BY <3>1, <4>1, Zenon
    <3>3. StillSame(i, io) = IF And(w, IM_TIMER) = 0 THEN "yes" ELSE same BY <2>3, <2>5
    <3>4. StillSame(i, io) = "yes" => c.cause = h.cause BY <1>2, <3>2, <3>3
    <3>5. StillSame(i, io) \in {"yes", "but timer"} BY <1>2, <3>3
    <3> QED BY <2>1, <3>2, <3>4, <3>5 DEF Related, c, h
  <2>6. CASE i.rd \notin {11, 13}
    <3>1. c.cause = cpu.cause /\ h.cause = hw.cause BY <2>1, <2>6
    <3>2. StillSame(i, io) = same BY <2>3, <2>6
    <3> QED BY <1>2, <2>1, <3>1, <3>2 DEF Related, c, h
  <2> QED BY <2>4, <2>5, <2>6
<1>10. CASE ~Sets(i)
  <2>1. StillSame(i, io) = IF same = "but timer" /\ Reads(i) /\ i.rd = 13 THEN "no" ELSE same
    <3>1. ~isCopWrite(i) BY <1>7, <1>10
    <3>2. StillSame(i, io) = IF same = "but timer" /\ isCopRead(i) /\ i.rd = 13 THEN "no" ELSE same
      BY <1>1, <3>1, Zenon DEF StillSame
    <3> QED BY <1>6, <3>2
  <2>2. StillSame(i, io) = same BY <2>1
  <2>3. Reads(i) /\ i.rd = 13 => cpu.cause = hw.cause BY <1>2, <2>1
  <2>4. Loads(i) \/ Stores(i) => PortableAt(i, Plus(cpu.reg[i.rs], SExt(i.imm, 2)), io)
    <3>1. isMemory(i) <=> i.op \in 32..47 BY Decoder
    <3>2. Loads(i) \/ Stores(i) => isMemory(i) BY <3>1 DEF Loads, Stores
    <3> QED BY <1>1, <3>2 DEF Portable, PortableAt, WholeField, WholeWord, OneByte, Address
  <2>5. Computes(i) \/ Reads(i) \/ Goes(i) \/ Loads(i) \/ Stores(i) BY <1>1, <1>3, <1>10, Kinds
  <2>6. Alike(c, h) /\ c.cause = cpu.cause /\ h.cause = hw.cause
    <3>1. CASE Loads(i) BY <1>5, <2>4, <3>1, LoadsStep DEF c, h
    <3>2. CASE Stores(i) BY <1>5, <2>4, <3>2, StoresStep DEF c, h
    <3>3. CASE Computes(i) \/ Reads(i) \/ Goes(i) BY <1>5, <2>3, <3>3, ComputesStep DEF c, h
    <3> QED BY <2>5, <3>1, <3>2, <3>3
  <2> QED BY <1>2, <2>2, <2>6 DEF Related, c, h
<1> QED BY <1>9, <1>10

\* Between two handlers: the entry of the next, in both.
LEMMA EntersAlike ==
  ASSUME Related(same, cpu, hw), NEW causes \in Causes
  PROVE  Related(same, Entered(cpu, causes), Entered([hw EXCEPT !.reg = Held(hw), !.load = NoLoad], causes))
<1> SUFFICES ASSUME same # "no"
             PROVE  Related(same, Entered(cpu, causes), Entered([hw EXCEPT !.reg = Held(hw), !.load = NoLoad], causes))
  BY DEF Related
<1> DEFINE on == Inverted(IM_GLOBAL)
           vector == ISR_VECTOR
           next == Plus(ISR_VECTOR, 4)
           status == And(cpu.status, on)
           here == Or(cpu.cause, causes)
           there == Or(hw.cause, causes)
           d == CpuRecord(cpu.reg, vector, next, cpu.count, cpu.compare, status, here, RETURN, cpu.faulted, cpu.sm)
           e == HwRecord(cpu.reg, NoLoad, vector, next, cpu.compare, status, there, RETURN, hw.sm)
<1>1. /\ Alike(cpu, hw) /\ same \in {"yes", "but timer"}
      /\ same = "yes" => cpu.cause = hw.cause
      /\ TimerApart(cpu.cause, hw.cause)
  BY DEF Related, TimerApart
<1>2. /\ cpu \in CpuState /\ hw \in HwState /\ cpu.reg = Held(hw)
      /\ cpu.status = hw.status /\ cpu.compare = hw.compare
      /\ \A f \in Fields : ValueOf("low", cpu.sm, f) = ValueOf("high", hw.sm, f)
  BY <1>1 DEF Alike
<1>3. /\ cpu.reg \in RegisterFile /\ cpu.count \in Nat /\ cpu.compare \in Word
      /\ cpu.status \in Word /\ cpu.cause \in Word /\ cpu.sm \in Bytes
      /\ hw.cause \in Word /\ hw.sm \in Bytes
  BY <1>2 DEF CpuState, HwState
<1>4. causes \in Word /\ RETURN \in Word /\ vector \in Nat /\ ISR_VECTOR \in Word
  BY InterpreterAssumption, WordIsNat
<1>5. next \in Nat BY <1>4, PlusIs, WordIsNat
<1>6. status \in Word BY <1>3, Masks, AndOn, WordIsNat
<1>7. here \in Word /\ there \in Word /\ TimerApart(here, there) /\ (cpu.cause = hw.cause => here = there)
  BY <1>1, <1>3, <1>4, RaisedAlike
<1>8. NoLoad \in [reg : Registers, val : Word] /\ NoLoad.reg = 0 /\ NoLoad.val = 0
  <2>1. 0 \in Word BY SignedWords, Masks
  <2> QED BY <2>1, RegistersAssumption DEF NoLoad
<1>9. cpu.reg = PutReg(cpu.reg, NoLoad.reg, NoLoad.val) BY <1>8 DEF PutReg
<1>10. Entered(cpu, causes) = d
  <2> DEFINE c0 == CpuRecord(cpu.reg, cpu.pc, cpu.npc, cpu.count, cpu.compare, cpu.status, cpu.cause, cpu.epc,
                             cpu.faulted, cpu.sm)
             c1 == CpuRecord(cpu.reg, cpu.pc, cpu.npc, cpu.count, cpu.compare, cpu.status, here, cpu.epc,
                             cpu.faulted, cpu.sm)
             c2 == CpuRecord(cpu.reg, cpu.pc, cpu.npc, cpu.count, cpu.compare, cpu.status, here, RETURN,
                             cpu.faulted, cpu.sm)
             c3 == CpuRecord(cpu.reg, cpu.pc, cpu.npc, cpu.count, cpu.compare, status, here, RETURN,
                             cpu.faulted, cpu.sm)
             c4 == CpuRecord(cpu.reg, vector, cpu.npc, cpu.count, cpu.compare, status, here, RETURN,
                             cpu.faulted, cpu.sm)
  <2>1. cpu = c0 BY <1>2, CpuFields
  <2> HIDE DEF on, vector, next, status, here
  <2>2. [c0 EXCEPT !.cause = here] = c1 BY DEF CpuRecord
  <2>3. [c1 EXCEPT !.epc = RETURN] = c2 BY DEF CpuRecord
  <2>4. [c2 EXCEPT !.status = status] = c3 BY DEF CpuRecord
  <2>5. [c3 EXCEPT !.pc = vector] = c4 BY DEF CpuRecord
  <2>6. [c4 EXCEPT !.npc = next] = d BY DEF CpuRecord
  <2> HIDE DEF c0, c1, c2, c3, c4, d
  <2>7. [cpu EXCEPT !.cause = here, !.epc = RETURN, !.status = status, !.pc = vector, !.npc = next]
          = [[[[[cpu EXCEPT !.cause = here] EXCEPT !.epc = RETURN] EXCEPT !.status = status] EXCEPT !.pc = vector]
               EXCEPT !.npc = next]
    BY Zenon
  <2>8. Entered(cpu, causes)
          = [cpu EXCEPT !.cause = here, !.epc = RETURN, !.status = status, !.pc = vector, !.npc = next]
    BY Zenon DEF Entered, here, status, vector, next, on
  <2> QED BY <2>1, <2>2, <2>3, <2>4, <2>5, <2>6, <2>7, <2>8, Zenon
<1>11. Entered([hw EXCEPT !.reg = Held(hw), !.load = NoLoad], causes) = e
  <2> DEFINE h0 == HwRecord(hw.reg, hw.load, hw.pc, hw.npc, hw.compare, hw.status, hw.cause, hw.epc, hw.sm)
             h1 == HwRecord(cpu.reg, hw.load, hw.pc, hw.npc, hw.compare, hw.status, hw.cause, hw.epc, hw.sm)
             h2 == HwRecord(cpu.reg, NoLoad, hw.pc, hw.npc, hw.compare, hw.status, hw.cause, hw.epc, hw.sm)
             h3 == HwRecord(cpu.reg, NoLoad, hw.pc, hw.npc, hw.compare, hw.status, there, hw.epc, hw.sm)
             h4 == HwRecord(cpu.reg, NoLoad, hw.pc, hw.npc, hw.compare, hw.status, there, RETURN, hw.sm)
             h5 == HwRecord(cpu.reg, NoLoad, hw.pc, hw.npc, hw.compare, status, there, RETURN, hw.sm)
             h6 == HwRecord(cpu.reg, NoLoad, vector, hw.npc, hw.compare, status, there, RETURN, hw.sm)
             cleared == [hw EXCEPT !.reg = cpu.reg, !.load = NoLoad]
  <2>1. hw = h0 BY <1>2, HwFields
  <2> HIDE DEF on, vector, next, status, there
  <2>2. [h0 EXCEPT !.reg = cpu.reg] = h1 BY DEF HwRecord
  <2>3. [h1 EXCEPT !.load = NoLoad] = h2 BY DEF HwRecord
  <2>4. h2.cause = hw.cause /\ h2.status = hw.status BY DEF HwRecord
  <2>5. [h2 EXCEPT !.cause = there] = h3 BY DEF HwRecord
  <2>6. [h3 EXCEPT !.epc = RETURN] = h4 BY DEF HwRecord
  <2>7. [h4 EXCEPT !.status = status] = h5 BY DEF HwRecord
  <2>8. [h5 EXCEPT !.pc = vector] = h6 BY DEF HwRecord
  <2>9. [h6 EXCEPT !.npc = next] = e
    <3>1. hw.compare = cpu.compare BY <1>2
    <3> QED BY <3>1 DEF HwRecord
  <2> HIDE DEF h0, h1, h2, h3, h4, h5, h6, e
  <2>10. cleared = h2
    <3>1. cleared = [[hw EXCEPT !.reg = cpu.reg] EXCEPT !.load = NoLoad] BY Zenon
    <3> HIDE DEF cleared
    <3> QED BY <2>1, <2>2, <2>3, <3>1, Zenon
  <2>11. [hw EXCEPT !.reg = Held(hw), !.load = NoLoad] = cleared BY <1>2, Zenon
  <2> HIDE DEF cleared
  <2>12. [h2 EXCEPT !.cause = there, !.epc = RETURN, !.status = status, !.pc = vector, !.npc = next]
           = [[[[[h2 EXCEPT !.cause = there] EXCEPT !.epc = RETURN] EXCEPT !.status = status] EXCEPT !.pc = vector]
                EXCEPT !.npc = next]
    BY Zenon
  <2>13. Or(h2.cause, causes) = there /\ And(h2.status, Inverted(IM_GLOBAL)) = status
    BY <1>2, <2>4, Zenon DEF there, status, on
  <2>14. Entered(h2, causes)
           = [h2 EXCEPT !.cause = there, !.epc = RETURN, !.status = status, !.pc = vector, !.npc = next]
    BY <2>13, Zenon DEF Entered, vector, next
  <2> QED BY <2>5, <2>6, <2>7, <2>8, <2>9, <2>10, <2>11, <2>12, <2>14, Zenon
<1>12. d.cause = here BY DEF CpuRecord
<1>13. e.cause = there BY HwParts
<1> HIDE DEF on, vector, next, status, here, there
<1>14. SameParts(cpu, cpu.reg, cpu.reg, NoLoad, vector, next, cpu.count, cpu.compare, status, here, there, RETURN,
                 cpu.sm, hw.sm)
  BY <1>2, <1>3, <1>4, <1>5, <1>6, <1>7, <1>8, <1>9 DEF SameParts
<1>15. Alike(d, e) BY <1>14, AlikeIs
<1> HIDE DEF d, e
<1>16. Related(same, d, e) BY <1>1, <1>7, <1>12, <1>13, <1>15 DEF Related
<1> QED BY <1>10, <1>11, <1>16, Zenon
\* The structure as it is laid out: every byte of a field at its place.
LEMMA LaidOut ==
  ASSUME NEW order
  PROVE  /\ Layout(order) \in Bytes
         /\ \A f \in Fields : \A k \in 0..(f.bytes - 1) :
              Layout(order)[SM_BASE + f.at + k] = ByteOf(f.value, Place(order, f, k))
<1> DEFINE in(f, x) == x - SM_BASE \in f.at..(f.at + f.bytes - 1)
           found(x) == CHOOSE f \in Fields : in(f, x)
           byte(f, x) == ByteOf(f.value, Place(order, f, x - SM_BASE - f.at))
           cell(x) == IF \E f \in Fields : in(f, x) THEN byte(found(x), x) ELSE 0
<1>1. Layout(order) = [x \in Shared |-> cell(x)] BY Zenon DEF Layout, ByteOf
<1>2. ASSUME NEW x \in Shared, NEW f \in Fields, in(f, x) PROVE found(x) \in Fields /\ in(found(x), x)
  <2> HIDE DEF in
  <2> QED BY <1>2
<1>3. ASSUME NEW x \in Shared, NEW f \in Fields, in(f, x) PROVE byte(f, x) \in Byte
  <2>1. /\ f.at \in Nat /\ f.bytes \in {1, 2, 4} /\ f.value \in Nat /\ SM_BASE \in Nat BY FieldPlace
  <2>2. x \in Int BY MapAssumption DEF Shared
  <2>3. x - SM_BASE - f.at \in 0..(f.bytes - 1) BY <1>3, <2>1, <2>2
  <2>4. Place(order, f, x - SM_BASE - f.at) \in 0..3 BY <2>1, <2>3 DEF Place, LowFirst, HighFirst
  <2> QED BY <2>1, <2>4, ByteIs
<1>4. ASSUME NEW x \in Shared PROVE cell(x) \in Byte
  <2>1. 0 \in Byte BY WidthsGrow DEF Byte
  <2>2. CASE \E f \in Fields : in(f, x)
    <3>1. found(x) \in Fields /\ in(found(x), x) BY <1>2, <2>2
    <3> HIDE DEF in, found
    <3>2. byte(found(x), x) \in Byte BY <1>3, <3>1
    <3> QED BY <2>2, <3>2
  <2>3. CASE ~\E f \in Fields : in(f, x)
    <3> HIDE DEF in, found, byte
    <3> QED BY <2>1, <2>3
  <2> QED BY <2>2, <2>3
<1>5. Layout(order) \in Bytes
  <2> HIDE DEF cell
  <2> QED BY <1>1, <1>4 DEF Bytes
<1>6. ASSUME NEW f \in Fields, NEW k \in 0..(f.bytes - 1)
      PROVE  Layout(order)[SM_BASE + f.at + k] = ByteOf(f.value, Place(order, f, k))
  <2> DEFINE x == SM_BASE + f.at + k
  <2>1. /\ f.at \in Nat /\ f.bytes \in {1, 2, 4} /\ f.value \in Nat /\ SM_BASE \in Nat /\ x \in Shared /\ k \in Nat
    BY FieldPlace
  <2>2. in(f, x) /\ x - SM_BASE - f.at = k BY <2>1
  <2>3. found(x) \in Fields /\ in(found(x), x)
    <3> HIDE DEF in, found, x
    <3> QED BY <1>2, <2>1, <2>2
  <2>4. found(x) = f
    <3> DEFINE g == found(x)
    <3>1. g \in Fields /\ in(g, x) BY <2>3
    <3> HIDE DEF g
    <3>2. g.at \in Nat /\ g.bytes \in {1, 2, 4} BY <3>1, FieldPlace
    <3>3. g # f => f.at + f.bytes <= g.at \/ g.at + g.bytes <= f.at BY <3>1, FieldsAssumption
    <3>4. g = f BY <2>1, <3>1, <3>2, <3>3
    <3> QED BY <3>4 DEF g
  <2>5. cell(x) = byte(f, x)
    <3> HIDE DEF in, found, byte, x
    <3> QED BY <2>2, <2>4
  <2>6. byte(f, x) = ByteOf(f.value, Place(order, f, k)) BY <2>2
  <2>7. Layout(order)[x] = cell(x)
    <3> HIDE DEF cell, x
    <3> QED BY <1>1, <2>1
  <2> QED BY <2>5, <2>6, <2>7
<1> QED BY <1>5, <1>6

\* Both layouts have the fields' values.
LEMMA LaidOutAlike ==
  ASSUME NEW f \in Fields
  PROVE  ValueOf("low", Layout("low"), f) = ValueOf("high", Layout("high"), f)
<1> DEFINE a == SM_BASE + f.at
           n == f.bytes
           v == f.value
           low == Layout("low")
           high == Layout("high")
<1>1. a \in Nat /\ n \in {1, 2, 4} /\ v \in Nat BY FieldPlace
<1>2. low \in Bytes /\ high \in Bytes BY LaidOut
<1>3. ASSUME NEW k \in 0..(n - 1) PROVE low[a + k] = ByteOf(v, k) /\ high[a + k] = ByteOf(v, n - 1 - k)
  <2>1. low[a + k] = ByteOf(v, Place("low", f, k)) /\ high[a + k] = ByteOf(v, Place("high", f, k)) BY LaidOut
  <2>2. Place("low", f, k) = k /\ Place("high", f, k) = n - 1 - k BY DEF Place, LowFirst, HighFirst
  <2> HIDE DEF a, n, v, low, high
  <2> QED BY <2>1, <2>2
<1>4. /\ ValueOf("low", low, f) = Low(low, a, n)
      /\ ValueOf("high", high, f) = High(high, a, n)
  BY <1>2, FieldValue
<1> HIDE DEF a, n, v, low, high
<1>5. Low(low, a, n) = Digits(v, n) /\ High(high, a, n) = Digits(v, n) BY <1>1, <1>3, ValueStored
<1> QED BY <1>4, <1>5 DEF low, high

\* The handlers begin with the same registers and the same fields.
LEMMA InitRelated ==
  ASSUME HandlerInit
  PROVE  HandlerInv
<1>1. PICK r \in RegisterValues :
        /\ cpu = [reg |-> r, pc |-> RETURN, npc |-> Plus(RETURN, 4), count |-> 0, compare |-> 0,
                  status |-> IM_GLOBAL, cause |-> 0, epc |-> RETURN, faulted |-> FALSE, sm |-> Layout("low")]
        /\ hw = [reg |-> r, load |-> NoLoad, pc |-> RETURN, npc |-> Plus(RETURN, 4), compare |-> 0,
                 status |-> IM_GLOBAL, cause |-> 0, epc |-> RETURN, sm |-> Layout("high")]
  BY DEF HandlerInit
<1> DEFINE low == Layout("low")
           high == Layout("high")
           npc == Plus(RETURN, 4)
<1>2. same = "yes" /\ steps = 0 /\ 0 \in 0..MAX_STEPS BY InterpreterAssumption DEF HandlerInit
<1>3. r \in RegisterFile BY InterpreterAssumption DEF RegisterFile
<1>4. RETURN \in Word /\ RETURN \in Nat /\ npc \in Nat
  <2>1. RETURN \in Word BY InterpreterAssumption
  <2> QED BY <2>1, PlusIs, WordIsNat
<1>5. 0 \in Word /\ IM_GLOBAL \in Word BY SignedWords, Masks
<1>6. NoLoad \in [reg : Registers, val : Word] /\ NoLoad.reg = 0 BY <1>5, RegistersAssumption DEF NoLoad
<1>7. low \in Bytes /\ high \in Bytes BY LaidOut
<1>8. \A f \in Fields : ValueOf("low", low, f) = ValueOf("high", high, f) BY LaidOutAlike
<1> HIDE DEF low, high, npc
<1>9. cpu = [reg |-> r, pc |-> RETURN, npc |-> npc, count |-> 0, compare |-> 0, status |-> IM_GLOBAL,
             cause |-> 0, epc |-> RETURN, faulted |-> FALSE, sm |-> low]
  BY <1>1, Zenon DEF low, npc
<1>10. hw = [reg |-> r, load |-> NoLoad, pc |-> RETURN, npc |-> npc, compare |-> 0,
             status |-> IM_GLOBAL, cause |-> 0, epc |-> RETURN, sm |-> high]
  BY <1>1, Zenon DEF high, npc
<1>11. cpu \in CpuState BY <1>3, <1>4, <1>5, <1>7, <1>9 DEF CpuState
<1>12. hw \in HwState BY <1>3, <1>4, <1>5, <1>6, <1>7, <1>10 DEF HwState
<1>13. Held(hw) = r BY <1>6, <1>10 DEF Held
<1>14. Alike(cpu, hw) BY <1>8, <1>9, <1>10, <1>11, <1>12, <1>13 DEF Alike
<1>15. cpu.cause = hw.cause BY <1>9, <1>10
<1> QED BY <1>2, <1>14, <1>15 DEF HandlerInv, Related

\* The interpreter's faulted flag says nothing of the two.
LEMMA FaultedRelated ==
  ASSUME NEW s, NEW c, NEW d, NEW h, Related(s, c, h), d = [c EXCEPT !.faulted = TRUE]
  PROVE  Related(s, d, h)
<1> SUFFICES ASSUME s # "no" PROVE Related(s, d, h) BY DEF Related
<1>1. Alike(c, h) /\ c \in CpuState BY DEF Related, Alike
<1>2. /\ d \in CpuState
      /\ d.reg = c.reg /\ d.pc = c.pc /\ d.npc = c.npc /\ d.compare = c.compare /\ d.status = c.status
      /\ d.cause = c.cause /\ d.epc = c.epc /\ d.sm = c.sm
  BY <1>1 DEF CpuState
<1>3. Alike(d, h) BY <1>1, <1>2 DEF Alike
<1> QED BY <1>2, <1>3 DEF Related

\* Every step of vizard_mips_interrupt keeps the invariant.
LEMMA StepRelated ==
  ASSUME HandlerInv, [HandlerNext]_handlerVars
  PROVE  HandlerInv'
<1>1. steps \in 0..MAX_STEPS /\ Related(same, cpu, hw) /\ MAX_STEPS \in Nat BY InterpreterAssumption DEF HandlerInv
<1>2. CASE Interrupt
  <2>1. PICK causes \in Causes :
          /\ cpu' = Entered(cpu, causes)
          /\ hw' = Entered([hw EXCEPT !.reg = Held(hw), !.load = NoLoad], causes)
    BY <1>2 DEF Interrupt
  <2>2. steps' \in 0..MAX_STEPS /\ same' = same BY <1>1, <1>2 DEF Interrupt
  <2>3. Related(same', cpu', hw') BY <1>1, <2>1, <2>2, EntersAlike
  <2> QED BY <2>2, <2>3 DEF HandlerInv
<1>3. CASE Return BY <1>1, <1>3 DEF Return, HandlerInv
<1>4. CASE Execute
  <2>1. steps' \in 0..MAX_STEPS /\ steps + 1 \in 1..MAX_STEPS BY <1>1, <1>4 DEF Execute
  <2>2. CASE same' = "no"
    <3>1. Related(same', cpu', hw') BY <2>2 DEF Related
    <3> QED BY <2>1, <3>1 DEF HandlerInv
  <2>3. CASE same' # "no"
    <3>1. PICK i \in Fetched[steps + 1] : \E io \in (IF isMLoad(i) THEN Devices ELSE {0}) :
            LET done == step(cpu, i, io)
            IN  /\ cpu' = [done.cpu EXCEPT !.faulted = ~done.ok]
                /\ hw' = StageDX(hw, i, io)
                /\ same' = IF done.ok /\ InImage(cpu.pc, 4) THEN StillSame(i, io) ELSE "no"
                /\ running' = done.ok
      BY <1>4, <2>3, Zenon DEF Execute
    <3>2. PICK io \in (IF isMLoad(i) THEN Devices ELSE {0}) :
            /\ cpu' = Ran(cpu, i, io)
            /\ hw' = StageDX(hw, i, io)
            /\ same' = IF step(cpu, i, io).ok /\ InImage(cpu.pc, 4) THEN StillSame(i, io) ELSE "no"
      BY <3>1, Zenon DEF Ran
    <3>3. i \in Instruction BY <2>1, InterpreterAssumption
    <3>4. io \in Word
      <4>1. 0 \in Word /\ Devices \subseteq Word BY SignedWords, Masks, InterpreterAssumption
      <4> QED BY <4>1
    <3>5. step(cpu, i, io).ok /\ InImage(cpu.pc, 4) BY <2>3, <3>2
    <3>6. same' = StillSame(i, io) BY <3>2, <3>5
    <3>7. StillSame(i, io) # "no" BY <2>3, <3>6
    <3>8. Related(StillSame(i, io), Ran(cpu, i, io), StageDX(hw, i, io))
      BY <1>1, <3>3, <3>4, <3>5, <3>7, StillRelated
    <3>9. Related(same', cpu', hw') BY <3>2, <3>6, <3>8, Zenon
    <3> QED BY <2>1, <3>9 DEF HandlerInv
  <2> QED BY <2>2, <2>3
<1>5. CASE GiveUp
  <2>1. cpu' = [cpu EXCEPT !.faulted = TRUE] /\ hw' = hw /\ steps' = steps /\ same' = same
    BY <1>5 DEF GiveUp
  <2>2. Related(same', cpu', hw') BY <1>1, <2>1, FaultedRelated
  <2> QED BY <1>1, <2>1, <2>2 DEF HandlerInv
<1>6. CASE UNCHANGED handlerVars BY <1>1, <1>6 DEF handlerVars, HandlerInv
<1> QED BY <1>2, <1>3, <1>4, <1>5, <1>6 DEF HandlerNext, Handling

\* The invariant holds whatever the handlers.
LEMMA HandlersAlike == HandlerSpec => []HandlerInv
<1>1. HandlerInit => HandlerInv BY InitRelated
<1>2. HandlerInv /\ [HandlerNext]_handlerVars => HandlerInv' BY StepRelated
<1> QED BY <1>1, <1>2, PTL DEF HandlerSpec

\* Whatever the handlers, the fields of the structure, the devices and the map,
\* and for any width of a byte: as long as a handler does nothing on which the
\* two differ, the interpreter (vizard_mips.c) has the registers, the branch
\* targets, Status, Cause, Compare, EPC and the fields of the shared structure of
\* the hardware (StageDX, StageMW, COP0150).
THEOREM InterpreterAgrees == HandlerSpec => []SameAsHardware
<1>1. HandlerInv => SameAsHardware BY DEF HandlerInv, Related, Alike, SameAsHardware, TimerApart
<1> QED BY <1>1, HandlersAlike, PTL
=============================================================================
