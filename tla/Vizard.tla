------------------------------- MODULE Vizard -------------------------------
(***************************************************************************)
(* The graphics demo under Vizard, the Linux host (tool/vizard): the       *)
(* application's loop (proj7.c), the host's poll with its window, keyboard *)
(* and interrupts (vizard_host.c, uart_vizard.c), and the thread that      *)
(* stands for the graphics processor.                                      *)
(*                                                                         *)
(* The application owns frames 1 and 2.  In its loop it starts the drawing *)
(* of the frame that is not shown from the list in that frame's tail,      *)
(* writes the next list into the other frame's tail, waits for the drawing *)
(* and asks for the frame to be shown.  Every wait polls the host, where   *)
(* keys arrive, the handler runs and the window is drawn; a poll that      *)
(* fails ends the wait, and the loop.  gp_gcode, gp_frame and host_error   *)
(* are shared with the thread without a lock; the frames have one.         *)
(*                                                                         *)
(* A picture is the number of the iteration that made its list.            *)
(***************************************************************************)
EXTENDS Integers

CONSTANTS
  Pictures,   \* iterations are counted modulo Pictures (2^32)
  Keys,       \* keys are numbered modulo Keys as they are typed
  PauseKeys,  \* those that are spaces
  MaxTyped,   \* keys typed between two looks at the keyboard, at most
  Capacity    \* of the receive queue (256)

ASSUME VizardAssumption ==
  /\ Pictures \in Nat /\ Pictures > 2 /\ Pictures % 2 = 0
  /\ Keys \in Nat \ {0} /\ PauseKeys \subseteq 0..(Keys - 1)
  /\ MaxTyped \in Nat /\ Capacity \in Nat \ {0}

Frame == {1, 2}
Null == 0                  \* no list, no frame
None == Pictures           \* the picture of a list that only stops
Torn == Pictures + 1       \* a list or a frame that is being written
Picture == 0..Torn

VARIABLES
  at,            \* where the application is
  polling,       \* where vizard_host_poll is, "no" outside it
  frameCounter,
  pSEQUENCE,     \* the list to draw next, by the frame whose tail it is in
  tails,         \* the list in each frame's tail
  gp_frame, gp_gcode,
  gpu,           \* where the thread is
  words,         \* the list it reads
  target,        \* and the frame it draws
  frames,        \* the picture in each frame
  pf_frame,
  pending,       \* pending_pf_frame, Null when none is pending
  screen,        \* what the window shows
  host_error,
  closing,       \* the window was asked to close
  rx,            \* the receive queue: [data, head, count]
  keyboard,      \* keys typed and not looked at yet
  typed, served, \* the last key the queue received, and the last the handler was given
  reads,         \* history: how many keys the handler has read, modulo Keys
  paused         \* the handler's pause flag

appVars == <<at, polling, frameCounter, pSEQUENCE, tails>>
gpuVars == <<gpu, words, target>>
showVars == <<pf_frame, pending, screen, closing>>
keyVars == <<rx, keyboard, typed, served, reads, paused>>
vars == <<appVars, gp_frame, gp_gcode, gpuVars, frames, showVars, host_error, keyVars>>

\* Mutant: the list goes into the tail of the frame being drawn.
Bug_NextFrame == 2 - (frameCounter % 2)
thisFrame == (frameCounter % 2) + 1
nextFrame == 2 - (frameCounter % 2)

\* vizard_uart_init: the queue is empty.
vizard_uart_init == [data |-> [k \in 0..(Capacity - 1) |-> 0], head |-> 0, count |-> 0]

Init ==
  /\ at = "loop" /\ polling = "begin"
  /\ frameCounter = 0
  /\ pSEQUENCE = 2
  /\ tails = [f \in Frame |-> None]
  /\ gp_frame = 1 /\ gp_gcode = Null
  /\ gpu = "look" /\ words = Null /\ target = Null
  /\ frames = [f \in Frame |-> None]
  /\ pf_frame = 1 /\ pending = Null /\ screen = None
  /\ host_error = FALSE /\ closing = FALSE
  /\ rx = vizard_uart_init
  /\ keyboard = 0 /\ typed = 0 /\ served = 0 /\ reads = 0 /\ paused = FALSE

-----------------------------------------------------------------------------
(* The host's poll.                                                        *)

\* Mutant: the wait for the frame does not end with its poll.
Bug_WaitsOn == [loop |-> "stop", wait |-> "frame", drawn |-> "swap", swapping |-> "swapping"]
\* A wait whose poll failed is over; the loop is left.
Broken == [loop |-> "stop", wait |-> "frame", drawn |-> "swap", swapping |-> "count"]

\* vizard_host_poll returns: a wait tests its condition again, the loop's
\* body is skipped when the application is paused.
PollReturns(ok, pause) ==
  IF at = "loop" /\ ok /\ pause THEN polling' = "begin" /\ UNCHANGED at
  ELSE /\ polling' = "no"
       /\ at' = IF ~ok THEN Broken[at] ELSE IF at = "loop" THEN "wait" ELSE at

\* An error is never forgotten.
vizard_host_report_error == host_error' = TRUE

\* vizard_uart_receive, for n keys; [ok, rx, n], the keys taken before it was full.
Received(n) ==
  LET room == Capacity - rx.count
      taken == IF n <= room THEN n ELSE room
      slot(k) == (rx.head + rx.count + k - 1) % Capacity
  IN  [ok |-> n <= room, n |-> taken,
       rx |-> [data |-> [s \in 0..(Capacity - 1) |->
                           IF \E k \in 1..taken : slot(k) = s
                           THEN (typed + (CHOOSE k \in 1..taken : slot(k) = s)) % Keys
                           ELSE rx.data[s]],
               head |-> rx.head, count |-> rx.count + taken]]

\* Keys are taken from the keyboard; one that finds the queue full is an error.
PollKeys ==
  /\ polling = "begin"
  /\ IF host_error \/ closing
     THEN PollReturns(FALSE, paused) /\ UNCHANGED <<host_error, rx, typed, keyboard>>
     ELSE LET r == Received(keyboard)
          IN  /\ rx' = r.rx
              /\ typed' = (typed + r.n) % Keys
              /\ keyboard' = 0
              /\ IF r.ok THEN polling' = "serve" /\ UNCHANGED <<at, host_error>>
                 ELSE vizard_host_report_error /\ PollReturns(FALSE, paused)
  /\ UNCHANGED <<frameCounter, pSEQUENCE, tails, gp_frame, gp_gcode, gpuVars, frames, showVars,
                 served, reads, paused>>

\* The registers of the queue as vizard_uart_read32 reads them: RX_VALID, and
\* RX_DATA with what the read leaves.
RxValid == rx.count # 0
RxData == IF RxValid THEN rx.data[rx.head] ELSE 0
\* Mutant: the read leaves the key where it is.
Bug_NotTaken == rx
RxTaken == IF RxValid THEN [rx EXCEPT !.head = (@ + 1) % Capacity, !.count = @ - 1] ELSE rx

\* The handler reads a key from the queue.
ReadKey ==
  /\ served' = RxData
  /\ rx' = RxTaken
  /\ reads' = (reads + 1) % Keys

Toggled == IF RxData \in PauseKeys THEN ~paused ELSE paused

\* service_uart_rx: the handler reads one key at each interrupt.  The loop runs
\* with the receive interrupt enabled.
ServeKey ==
  /\ polling = "serve"
  /\ RxValid
  /\ ReadKey
  /\ paused' = Toggled
  /\ UNCHANGED <<appVars, gp_frame, gp_gcode, gpuVars, frames, showVars, host_error, keyboard, typed>>

\* The interpreter gives a handler up before or after it read the key.
ServeFails ==
  /\ polling = "serve"
  /\ RxValid
  /\ \/ ReadKey /\ paused' \in {paused, Toggled}
     \/ UNCHANGED <<rx, served, reads, paused>>
  /\ vizard_host_report_error
  /\ PollReturns(FALSE, paused)
  /\ UNCHANGED <<frameCounter, pSEQUENCE, tails, gp_frame, gp_gcode, gpuVars, frames, showVars, keyboard, typed>>

Served ==
  /\ polling = "serve"
  /\ ~RxValid
  /\ IF host_error THEN PollReturns(FALSE, paused) ELSE polling' = "draw" /\ UNCHANGED at
  /\ UNCHANGED <<frameCounter, pSEQUENCE, tails, gp_frame, gp_gcode, gpuVars, frames, showVars, host_error, keyVars>>

\* The window shows the feeder's frame, copied under the lock of the frames.
draw_host_view == gpu # "drawing" /\ screen' = frames[pf_frame']

\* When a draw is due a pending frame becomes the one shown, and the window is
\* drawn; that collects its events.
PollDraw ==
  /\ polling = "draw"
  /\ pf_frame' = IF pending # Null THEN pending ELSE pf_frame
  /\ pending' = Null
  /\ draw_host_view
  /\ closing' \in BOOLEAN
  /\ keyboard' \in 0..MaxTyped
  /\ PollReturns(~host_error, paused)
  /\ UNCHANGED <<frameCounter, pSEQUENCE, tails, gp_frame, gp_gcode, gpuVars, frames, host_error,
                 rx, typed, served, reads, paused>>

PollSkip ==
  /\ polling = "draw"
  /\ PollReturns(TRUE, paused)
  /\ UNCHANGED <<frameCounter, pSEQUENCE, tails, gp_frame, gp_gcode, gpuVars, frames, showVars, host_error, keyVars>>

-----------------------------------------------------------------------------
(* The application.                                                        *)

Go(from, to) == at = from /\ polling = "no" /\ at' = to /\ UNCHANGED polling

\* GP_WAIT, before the frame is drawn and after its successor's list is made.
WaitGpu(from, to) ==
  /\ at = from
  /\ polling = "no"
  /\ IF gp_gcode = Null THEN at' = to /\ UNCHANGED polling
     ELSE polling' = "begin" /\ UNCHANGED at
  /\ UNCHANGED <<frameCounter, pSEQUENCE, tails, gp_frame, gp_gcode, gpuVars, frames, showVars, host_error, keyVars>>

WaitBefore == WaitGpu("wait", "frame")
\* Mutant: no wait for the drawing.
Bug_NotDrawn ==
  /\ Go("drawn", "swap")
  /\ UNCHANGED <<frameCounter, pSEQUENCE, tails, gp_frame, gp_gcode, gpuVars, frames, showVars, host_error, keyVars>>
WaitDrawn == WaitGpu("drawn", "swap")

SetFrame ==
  /\ Go("frame", "launch")
  /\ gp_frame' = nextFrame
  /\ UNCHANGED <<frameCounter, pSEQUENCE, tails, gp_gcode, gpuVars, frames, showVars, host_error, keyVars>>

Launch ==
  /\ Go("launch", "generate")
  /\ gp_gcode' = pSEQUENCE
  /\ UNCHANGED <<frameCounter, pSEQUENCE, tails, gp_frame, gpuVars, frames, showVars, host_error, keyVars>>

\* frame_gp_generate writes word after word; the list is whole at its stop.
Generate ==
  /\ Go("generate", "stopping")
  /\ tails' = [tails EXCEPT ![thisFrame] = Torn]
  /\ UNCHANGED <<frameCounter, pSEQUENCE, gp_frame, gp_gcode, gpuVars, frames, showVars, host_error, keyVars>>

\* Mutant: the old list is drawn again.
Bug_OldList ==
  /\ Go("stopping", "drawn")
  /\ tails' = [tails EXCEPT ![thisFrame] = frameCounter]
  /\ UNCHANGED <<frameCounter, pSEQUENCE, gp_frame, gp_gcode, gpuVars, frames, showVars, host_error, keyVars>>

Generated ==
  /\ Go("stopping", "drawn")
  /\ tails' = [tails EXCEPT ![thisFrame] = frameCounter]
  /\ pSEQUENCE' = thisFrame
  /\ UNCHANGED <<frameCounter, gp_frame, gp_gcode, gpuVars, frames, showVars, host_error, keyVars>>

\* PF_WAIT, which has nothing to do when the frame is shown already.
SwapFrame ==
  /\ Go("swap", "swapping")
  /\ pending' = IF pf_frame = nextFrame THEN pending ELSE nextFrame
  /\ UNCHANGED <<frameCounter, pSEQUENCE, tails, gp_frame, gp_gcode, gpuVars, frames, pf_frame, screen, closing,
                 host_error, keyVars>>

WaitSwap ==
  /\ at = "swapping"
  /\ polling = "no"
  /\ IF pf_frame = nextFrame THEN at' = "count" /\ UNCHANGED polling
     ELSE polling' = "begin" /\ UNCHANGED at
  /\ UNCHANGED <<frameCounter, pSEQUENCE, tails, gp_frame, gp_gcode, gpuVars, frames, showVars, host_error, keyVars>>

CountFrame ==
  /\ at = "count"
  /\ at' = "loop"
  /\ polling' = "begin"
  /\ frameCounter' = (frameCounter + 1) % Pictures
  /\ UNCHANGED <<pSEQUENCE, tails, gp_frame, gp_gcode, gpuVars, frames, showVars, host_error, keyVars>>

\* vizard_host_shutdown sets gpu_thread_stop, then waits for the thread.
Stop ==
  /\ Go("stop", "join")
  /\ UNCHANGED <<frameCounter, pSEQUENCE, tails, gp_frame, gp_gcode, gpuVars, frames, showVars, host_error, keyVars>>

Join ==
  /\ gpu = "stopped"
  /\ Go("join", "ended")
  /\ UNCHANGED <<frameCounter, pSEQUENCE, tails, gp_frame, gp_gcode, gpuVars, frames, showVars, host_error, keyVars>>

-----------------------------------------------------------------------------
(* gpu_thread_main.                                                        *)

GpuLook ==
  /\ gpu = "look"
  /\ IF at \in {"join", "ended"} THEN gpu' = "stopped" /\ UNCHANGED words
     ELSE gp_gcode # Null /\ gpu' = "count" /\ words' = gp_gcode
  /\ UNCHANGED <<appVars, gp_frame, gp_gcode, target, frames, showVars, host_error, keyVars>>

\* vizard_gpu_stream_word_count finds the stop, and GP_FRAME is read for the
\* call of vizard_host_gpu_submit; a list without a stop is an error.
GpuCount ==
  /\ gpu = "count"
  /\ IF tails[words] = Torn
     THEN vizard_host_report_error /\ gpu' = "clear" /\ UNCHANGED target
     ELSE target' = gp_frame /\ gpu' = "submit" /\ UNCHANGED host_error
  /\ UNCHANGED <<appVars, gp_frame, gp_gcode, words, frames, showVars, keyVars>>

\* vizard_gpu_submit, from the lock to the unlock; a list that only stops draws nothing.
GpuSubmit ==
  /\ gpu = "submit"
  /\ gpu' = "drawing"
  /\ frames' = IF tails[words] = None THEN frames ELSE [frames EXCEPT ![target] = Torn]
  /\ UNCHANGED <<appVars, gp_frame, gp_gcode, words, target, showVars, host_error, keyVars>>

GpuDrawn ==
  /\ gpu = "drawing"
  /\ gpu' = "clear"
  /\ frames' = IF tails[words] = None THEN frames ELSE [frames EXCEPT ![target] = tails[words]]
  /\ host_error' = (host_error \/ tails[words] = Torn)
  /\ UNCHANGED <<appVars, gp_frame, gp_gcode, words, target, showVars, keyVars>>

\* Mutant: the list is not taken away after it was drawn.
Bug_NotCleared ==
  /\ gpu = "clear"
  /\ gpu' = "look"
  /\ UNCHANGED <<appVars, gp_frame, gp_gcode, words, target, frames, showVars, host_error, keyVars>>

GpuClear ==
  /\ gpu = "clear"
  /\ gpu' = "look"
  /\ gp_gcode' = Null
  /\ UNCHANGED <<appVars, gp_frame, words, target, frames, showVars, host_error, keyVars>>

-----------------------------------------------------------------------------
Poll == PollKeys \/ ServeKey \/ ServeFails \/ Served \/ PollDraw \/ PollSkip
Loop == WaitBefore \/ SetFrame \/ Launch \/ Generate \/ Generated \/ WaitDrawn
        \/ SwapFrame \/ WaitSwap \/ CountFrame \/ Stop \/ Join
Gpu == GpuLook \/ GpuCount \/ GpuSubmit \/ GpuDrawn \/ GpuClear

Next == Poll \/ Loop \/ Gpu

\* Both threads are scheduled, and a draw is due every 1/60 s, so that polls
\* without end find it due again and again.
Spec == Init /\ [][Next]_vars /\ WF_vars(Poll \/ Loop) /\ WF_vars(Gpu) /\ SF_vars(PollDraw)

-----------------------------------------------------------------------------
AppTypes ==
  /\ at \in {"loop", "wait", "frame", "launch", "generate", "stopping", "drawn", "swap", "swapping",
             "count", "stop", "join", "ended"}
  /\ polling \in {"no", "begin", "serve", "draw"}
  /\ frameCounter \in 0..(Pictures - 1)
  /\ pSEQUENCE \in Frame
  /\ tails \in [Frame -> Picture]
  /\ gp_frame \in Frame
  /\ gp_gcode \in Frame \cup {Null}

HostTypes ==
  /\ gpu \in {"look", "count", "submit", "drawing", "clear", "stopped"}
  /\ words \in Frame \cup {Null}
  /\ target \in Frame \cup {Null}
  /\ frames \in [Frame -> Picture]
  /\ pf_frame \in Frame
  /\ pending \in Frame \cup {Null}
  /\ screen \in Picture
  /\ host_error \in BOOLEAN
  /\ closing \in BOOLEAN

KeyTypes ==
  /\ rx \in [data : [0..(Capacity - 1) -> 0..(Keys - 1)], head : 0..(Capacity - 1), count : 0..Capacity]
  /\ keyboard \in 0..MaxTyped
  /\ typed \in 0..(Keys - 1)
  /\ served \in 0..(Keys - 1)
  /\ reads \in 0..(Keys - 1)
  /\ paused \in BOOLEAN

TypeOK == AppTypes /\ HostTypes /\ KeyTypes

\* What keeps the list, the frame drawn and the frame shown apart.
Failed == closing \/ host_error
Quiet == gp_gcode = Null
Settled == pf_frame = thisFrame /\ pending = Null

\* The thread works on what it was given, which is not what is shown.
GpuInv ==
  /\ gpu \notin {"look", "stopped"} => ~Quiet /\ words = gp_gcode
  /\ gpu \in {"submit", "drawing"} => target = gp_frame
  /\ ~Quiet => gp_gcode = gp_frame /\ gp_frame # pf_frame

\* The host is polled in the loop and in two of its waits: by the third the
\* list has long been drawn.  Past its first look a poll has seen no failure.
PollInv ==
  /\ at = "loop" => polling # "no"
  /\ polling # "no" => at \in {"loop", "drawn", "swapping"}
  /\ polling \in {"serve", "draw"} => ~closing /\ (at # "drawn" => Quiet)

\* Where the shown frame and the thread are at each point of the loop.
LoopInv ==
  /\ at \in {"wait", "frame", "launch"} => Quiet
  /\ at \in {"wait", "frame", "launch", "generate", "stopping", "drawn", "swap"} => Settled
  /\ at = "launch" => gp_frame = nextFrame
  /\ at \in {"swap", "swapping", "count", "loop"} => Quiet \/ Failed
  /\ at = "swapping" =>
       \/ pf_frame = thisFrame /\ pending \in {Null, nextFrame}
       \/ pf_frame = nextFrame /\ pending = Null /\ Quiet
  /\ at = "count" => Failed \/ (pf_frame = nextFrame /\ pending = Null)
  /\ at = "loop" => Settled \/ (Failed /\ polling = "begin")
  /\ at \in {"stop", "join", "ended"} => Failed

\* The lists: the next to draw, and the only one that may be half written.
ListInv ==
  /\ pSEQUENCE = IF at \in {"drawn", "swap", "swapping", "count"} THEN thisFrame ELSE nextFrame
  /\ \A f \in Frame : tails[f] = Torn => at = "stopping" /\ f = thisFrame
  /\ \A f \in Frame : tails[f] = None => frames[f] = None

\* The pictures in the lists and in the frames, by the number shown with them.
Shows(p) == IF p = None THEN 0 ELSE (p + 1) % Pictures
Earlier(k) == IF k = 0 THEN Pictures - 1 ELSE k - 1
BeforeSwap == at \in {"wait", "frame", "launch", "generate", "stopping", "drawn", "swap"}
              \/ (at = "loop" /\ (polling # "begin" \/ ~Failed))

PictureInv ==
  /\ screen = frames[pf_frame]
  /\ BeforeSwap \/ (at = "swapping" /\ pf_frame = thisFrame) =>
       \/ Shows(frames[thisFrame]) = Earlier(frameCounter)
       \/ frameCounter = 0 /\ Shows(frames[thisFrame]) = 0
  /\ at # "count" /\ at \notin {"stop", "join", "ended"} => Shows(tails[nextFrame]) = frameCounter
  /\ at \in {"drawn", "swap", "swapping", "count"} => tails[thisFrame] = frameCounter
  /\ at \in {"generate", "stopping", "drawn", "swap", "swapping"} /\ (Quiet \/ gpu = "clear") =>
       Shows(frames[nextFrame]) = frameCounter
  /\ at = "count" => Failed \/ Shows(frames[nextFrame]) = frameCounter

IInv == TypeOK /\ GpuInv /\ PollInv /\ LoopInv /\ ListInv /\ PictureInv

Reading == gpu \in {"count", "submit", "drawing"}

\* The frame the window shows is never the one that is being drawn, although
\* nothing but the waits keeps them apart and an error or a closing window
\* ends these: then the frame may be asked for, but no poll shows it.
DrawnApart ==
  gpu \in {"submit", "drawing"} =>
    /\ target # pf_frame
    /\ target = pending => closing \/ host_error

\* The list the thread reads is whole from its first word to its last: the
\* application, writing the next list at the same time, never writes this one.
ListWhole == Reading => tails[words] # Torn

\* Keys reach the handler in the order they were typed, each of them once: the
\* n-th key it reads is the n-th one the queue received, and when the queue is
\* empty it was given them all.  The ring may be full, the keys may come between
\* any two polls, and the handler may fail.
KeysInOrder ==
  /\ served = reads
  /\ ~RxValid => served = typed

\* The screen goes on: what it shows is replaced by the next picture, unless
\* the application is paused or has ended.
FramesGoOn == \A p \in Picture : (screen = p) ~> (screen # p \/ paused \/ at = "ended")

\* A window asked to close, or an error, ends the program: no wait outlives it
\* and the thread can always be joined.
Closes == (closing \/ host_error) ~> (at = "ended")

\* Pictures made and shown, as DoubleBuffer counts them.
made == IF at \in {"drawn", "swap", "swapping", "count"} THEN (frameCounter + 1) % Pictures ELSE frameCounter
shown == IF screen = None THEN 0 ELSE (screen + 1) % Pictures
Promise == INSTANCE DoubleBuffer
\* Vizard implements DoubleBuffer.
ShowsEachOnce == Promise!Spec
=============================================================================
