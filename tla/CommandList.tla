----------------------------- MODULE CommandList ----------------------------
(***************************************************************************)
(* What the graphics processor promises the program that starts it: from   *)
(* the address it was given it performs the commands in memory one after   *)
(* the other, each with the words that follow it as its arguments and in   *)
(* the frame it was given, until a word that is no drawing command.        *)
(***************************************************************************)
EXTENDS Naturals

CONSTANTS
  Words,      \* size of the memory, in words
  Memories,   \* contents the memory may have
  Frames

VARIABLES
  memory,
  running,
  pc,         \* address of the next command, 0 when none is to be performed
  frame,
  fault,      \* the last command list ended with a word that is not a STOP
  job         \* the command last given to an engine

vars == <<memory, running, pc, frame, fault, job>>

\* The words of a command: FILL colour; LINE colour, two points; ELIP and
\* RECT colour, two points, background.
Length == [FILL |-> 1, LINE |-> 3, ELIP |-> 4, RECT |-> 4]
Draws == DOMAIN Length
Opcodes == Draws \union {"STOP", "BAD"}

\* The word each argument comes from; a point is one word.
Place == [color |-> 0, x0 |-> 1, y0 |-> 1, x1 |-> 2, y1 |-> 2, back |-> 3]
Arguments(op) == {a \in DOMAIN Place : Place[a] < Length[op]}

Nothing == [op |-> "NONE"]
Command(op, at, f) ==
  [op |-> op, frame |-> f,
   args |-> [a \in Arguments(op) |-> (at + Place[a]) % Words]]

Begin(a, f) ==
  /\ ~running
  /\ running' = TRUE /\ pc' = a /\ frame' = f /\ fault' = FALSE
  /\ UNCHANGED <<memory, job>>

Draw ==
  /\ running /\ memory[pc] \in Draws
  /\ job' = Command(memory[pc], pc, frame)
  /\ pc' = (pc + Length[memory[pc]]) % Words
  /\ UNCHANGED <<memory, running, frame, fault>>

Finish ==
  /\ running /\ memory[pc] \notin Draws
  /\ running' = FALSE /\ pc' = 0
  /\ fault' = (memory[pc] # "STOP")
  /\ UNCHANGED <<memory, frame, job>>

Init ==
  /\ memory \in Memories /\ frame \in Frames
  /\ running = FALSE /\ pc = 0 /\ fault = FALSE /\ job = Nothing

Next == (\E a \in 0..(Words - 1), f \in Frames : Begin(a, f)) \/ Draw \/ Finish

Spec == Init /\ [][Next]_vars /\ WF_vars(Draw) /\ WF_vars(Finish)
=============================================================================
