---------------------------- MODULE SerialDriver ----------------------------
(***************************************************************************)
(* How the application writes to the serial port: uwrite_int8s_ISR and     *)
(* uwait_ISR of the main program, the interrupt handler ISR_UATX, the ring *)
(* buffer they share and the transmitter with its interrupt request.       *)
(*                                                                         *)
(* The main program is interrupted between any two of its accesses to      *)
(* memory.  The handler is one step: the main program stands still while   *)
(* it runs, and it is some tens of instructions against the 4340 cycles a  *)
(* character takes to leave, so no character ends in the middle of it.     *)
(* Characters are numbered in the order the program writes them.           *)
(***************************************************************************)
EXTENDS Naturals, Sequences, FiniteSets

CONSTANTS
  Size,   \* K_SHBUF_SIZEB, a power of two
  Count,  \* characters the program writes
  Slack   \* accesses the main program makes before a pending interrupt is taken

ASSUME SizeAssumption == Size \in Nat \ {0, 1}
ASSUME CountAssumption == Count \in Nat /\ Slack \in Nat

VARIABLES
  at,        \* what the main program does next
  ch,        \* the character it is writing or wrote last
  buff_data, buff_head, buff_tail,
  shifting,  \* the character the transmitter sends, 0 when it is ready
  ip,        \* the pending bit of IM_UATX in Cause
  slack,     \* accesses made since it was set
  queue,     \* history: what was appended and not yet taken
  line,      \* history: what the transmitter accepted
  lost       \* history: what was written while it was busy

buffer == <<buff_data, buff_head, buff_tail>>
uart == <<shifting, line, lost>>
vars == <<at, ch, buffer, uart, ip, slack, queue>>

Slots == 0..(Size - 1)
Characters == 1..Count

Ready == shifting = 0

\* The next index in the buffer: + 1 and the mask K_SHBUF_ROLLOVERB.
Following(n) == IF n = Size - 1 THEN 0 ELSE n + 1

\* A write of MM_UATX_DATA; one the transmitter is not ready for has no effect.
WriteUart(c) ==
  IF Ready THEN shifting' = c /\ line' = Append(line, c) /\ UNCHANGED lost
           ELSE lost' = lost \cup {c} /\ UNCHANGED <<shifting, line>>

\* The pipeline takes an interrupt a few instructions after it is raised; the
\* handlers of other interrupts, which come first, let as many pass again.
Access ==
  /\ ip => slack < Slack
  /\ slack' = IF ip THEN slack + 1 ELSE slack
-----------------------------------------------------------------------------
(* uwrite_int8s_ISR *)

NextCharacter ==
  /\ at = "next" /\ ch < Count /\ Access
  /\ at' = "poll" /\ ch' = ch + 1
  /\ UNCHANGED <<buffer, uart, ip, queue>>

\* The test of UTRAN_CTRL.
Poll ==
  /\ at = "poll" /\ Access
  /\ at' = IF Ready THEN "direct" ELSE "append"
  /\ UNCHANGED <<ch, buffer, uart, ip, queue>>

Direct ==
  /\ at = "direct" /\ Access
  /\ WriteUart(ch)
  /\ at' = "next"
  /\ UNCHANGED <<ch, buffer, ip, queue>>

\* The loop that waits while the buffer is full.
Bug_NeverFull == FALSE
Full == Following(buff_head) = buff_tail

FindSlot ==
  /\ at = "append" /\ ~Full /\ Access
  /\ at' = "store"
  /\ UNCHANGED <<ch, buffer, uart, ip, queue>>

StoreCharacter ==
  /\ at = "store" /\ Access
  /\ buff_data' = [buff_data EXCEPT ![buff_head] = ch]
  /\ at' = "publish"
  /\ UNCHANGED <<ch, buff_head, buff_tail, uart, ip, queue>>

Publish ==
  /\ at = "publish" /\ Access
  /\ buff_head' = Following(buff_head)
  /\ queue' = Append(queue, ch)
  /\ at' = "next"
  /\ UNCHANGED <<ch, buff_data, buff_tail, uart, ip>>
-----------------------------------------------------------------------------
(* uwait_ISR *)

StartWait ==
  /\ at = "next" /\ Access
  /\ at' = "wait"
  /\ UNCHANGED <<ch, buffer, uart, ip, queue>>

Drained ==
  /\ at = "wait" /\ Access
  /\ buff_tail = buff_head /\ Ready
  /\ at' = "next"
  /\ UNCHANGED <<ch, buffer, uart, ip, queue>>

\* More than DBG_UWAIT_MAX turns of the loop, many more than a character takes:
\* no character is being sent and no interrupt pending that could empty it.
GiveUp ==
  /\ at = "wait" /\ Access
  /\ buff_tail # buff_head /\ Ready /\ ~ip
  /\ at' = "next"
  /\ UNCHANGED <<ch, buffer, uart, ip, queue>>
-----------------------------------------------------------------------------
(* The transmitter and the interrupt *)

Bug_FallingEdge == Ready /\ ~Ready'
IRQ_TX == Ready' /\ ~Ready

\* DataInReady rises.
FrameDone ==
  /\ ~Ready
  /\ shifting' = 0 /\ ip' = (ip \/ IRQ_TX)
  /\ UNCHANGED <<at, ch, buffer, line, lost, slack, queue>>

\* Where the handler goes on in the buffer.
Bug_TailNotAdvanced == buff_tail
NextTail == Following(buff_tail)

ISR_UATX ==
  /\ ip
  /\ IF buff_head = buff_tail
     THEN UNCHANGED <<buff_tail, uart, queue>>
     ELSE /\ WriteUart(buff_data[buff_tail])
          /\ buff_tail' = NextTail
          /\ queue' = Tail(queue)
  /\ ip' = FALSE /\ slack' = 0
  /\ UNCHANGED <<at, ch, buff_data, buff_head>>
-----------------------------------------------------------------------------
\* What the BIOS sent before may have left the pending bit set.
Init ==
  /\ at = "next" /\ ch = 0
  /\ buff_data \in [Slots -> {0}]
  /\ buff_head = 0 /\ buff_tail = 0
  /\ shifting = 0 /\ ip \in BOOLEAN /\ slack = 0
  /\ queue = <<>> /\ line = <<>> /\ lost = {}

Write == NextCharacter \/ Poll \/ Direct \/ FindSlot \/ StoreCharacter \/ Publish
Wait == StartWait \/ Drained \/ GiveUp

Next == Write \/ Wait \/ FrameDone \/ ISR_UATX

Spec == Init /\ [][Next]_vars

\* The processor executes the main program between its interrupts and takes the
\* interrupts that stay requested, and the transmitter shifts.
FairSpec ==
  /\ Spec
  /\ WF_vars(Write) /\ WF_vars(Drained)
  /\ WF_vars(FrameDone) /\ WF_vars(ISR_UATX)
-----------------------------------------------------------------------------
Places == {"next", "poll", "direct", "append", "store", "publish", "wait"}

TypeOK ==
  /\ at \in Places /\ ch \in 0..Count
  /\ buff_data \in [Slots -> 0..Count]
  /\ buff_head \in Slots /\ buff_tail \in Slots
  /\ shifting \in 0..Count /\ ip \in BOOLEAN /\ slack \in 0..Slack
  /\ queue \in Seq(Characters) /\ line \in Seq(Characters)
  /\ lost \subseteq Characters

\* The ring buffer, which no lock protects, is a queue: between tail and head
\* lie the characters appended and not yet taken, in their order.
Held == IF buff_tail <= buff_head THEN buff_head - buff_tail
        ELSE (buff_head + Size) - buff_tail
Slot(i) == IF buff_tail + i < Size THEN buff_tail + i ELSE (buff_tail + i) - Size

BufferIsQueue ==
  /\ Len(queue) = Held
  /\ \A i \in 1..Held : queue[i] = buff_data[Slot(i - 1)]

\* Each character written is in exactly one place: in the hands of the program,
\* in the buffer, on the line once, or lost to a busy transmitter.
InHand == IF at \in {"poll", "direct", "append", "store", "publish"} THEN {ch} ELSE {}
Times(c, s) == Cardinality({i \in DOMAIN s : s[i] = c})
EachInOnePlace ==
  \A c \in 1..ch :
    Times(c, queue) + Times(c, line) + Cardinality({c} \cap lost)
      + Cardinality({c} \cap InHand) = 1

\* No character is written to a busy transmitter: the handler is entered when
\* the transmitter "transitions from busy to available", the program writes
\* after it found it ready.
NothingLost == lost = {}

\* uwait_ISR is to "FULLY drain the ring-buffer".  It does not hold: what is
\* appended after the handler found the ring empty stays there, as a comment in
\* uwrite_int8s_ISR suspects.
WaitDrains == at = "wait" ~> queue = <<>> /\ Ready

\* A full buffer does not hold up the program for ever.
FullWaitEnds == at = "append" ~> at = "store"

\* As long as something is being sent, the buffer moves: the end of the
\* character brings the interrupt that takes the next one.
SendingFeeds ==
  \A c \in Characters : (~Ready /\ queue # <<>> /\ Head(queue) = c)
                          ~> (queue = <<>> \/ Head(queue) # c)
=============================================================================
