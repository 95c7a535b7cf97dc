---------------------------- MODULE SerialMemory ----------------------------
(***************************************************************************)
(* What the CPU may assume of a memory it reaches through a cache: every   *)
(* access takes effect when it is accepted, in program order, and a read   *)
(* is answered with the contents its predecessors left.  An access may     *)
(* take time, during which the CPU is stalled, but it ends.                *)
(***************************************************************************)
EXTENDS Naturals

CONSTANTS Tags, Indexes, Values

VARIABLES
  memory,   \* contents, one value per half line
  addr,     \* address of the access accepted last
  pending,  \* "read" or "store" while the CPU has to wait for it, else "none"
  reading,  \* was the access accepted last a read
  answer    \* the value the CPU can take: at most one element

vars == <<memory, addr, pending, reading, answer>>

Addr == [tag : Tags, index : Indexes, half : 1..2]
Line == [tag : Tags, index : Indexes]
At(m, a) == m[[tag |-> a.tag, index |-> a.index]][a.half]

Init ==
  /\ memory \in [Line -> [1..2 -> Values]]
  /\ addr \in Addr
  /\ pending = "none"
  /\ reading = FALSE
  /\ answer = {}

\* A store need not be waited for by a CPU that has the next access ready in
\* the cycle the store finishes.
MayAccept == pending # "read"

AcceptRead == \E a \in Addr :
  /\ MayAccept
  /\ addr' = a /\ reading' = TRUE
  /\ \/ pending' = "read" /\ answer' = {}
     \/ pending' = "none" /\ answer' = {At(memory, a)}
  /\ UNCHANGED memory

AcceptStore == \E a \in Addr, v \in Values :
  /\ MayAccept
  /\ memory' = [memory EXCEPT ![[tag |-> a.tag, index |-> a.index]][a.half] = v]
  /\ addr' = a /\ reading' = FALSE
  /\ pending' = "store" /\ answer' = {}

AcceptOther == \E a \in Addr :
  /\ MayAccept
  /\ addr' = a /\ reading' = FALSE
  /\ pending' = "none" /\ answer' = {}
  /\ UNCHANGED memory

Finish ==
  /\ pending # "none"
  /\ pending' = "none"
  /\ answer' = IF reading THEN {At(memory, addr)} ELSE {}
  /\ UNCHANGED <<memory, addr, reading>>

Accept == AcceptRead \/ AcceptStore \/ AcceptOther

Next == Accept \/ Finish

Spec == Init /\ [][Next]_vars

=============================================================================
