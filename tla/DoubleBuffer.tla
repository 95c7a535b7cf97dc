---------------------------- MODULE DoubleBuffer ----------------------------
(***************************************************************************)
(* What an application that draws into two frames in turn promises: whole  *)
(* pictures on the screen, each one once and in the order they were made,  *)
(* and none shown more than two pictures late.                             *)
(*                                                                         *)
(* made and shown count pictures, modulo Pictures.                         *)
(***************************************************************************)
EXTENDS Integers

CONSTANT Pictures   \* more than two

VARIABLES made, shown

Waiting == (made - shown) % Pictures

Init == made = 0 /\ shown = 0

\* A picture is put down as a list of commands.
Make ==
  /\ Waiting < 2
  /\ made' = (made + 1) % Pictures
  /\ UNCHANGED shown

\* The oldest picture made and not shown appears on the screen, whole.
Show ==
  /\ Waiting > 0
  /\ shown' = (shown + 1) % Pictures
  /\ UNCHANGED made

Next == Make \/ Show
Spec == Init /\ [][Next]_<<made, shown>>
=============================================================================
