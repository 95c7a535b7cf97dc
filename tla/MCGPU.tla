------------------------------- MODULE MCGPU --------------------------------
(***************************************************************************)
(* Three chunks of two words.  Lists may start at any word, run into the   *)
(* last chunk and come round to the first.                                 *)
(***************************************************************************)
EXTENDS GPU

\* Lists that follow each engine by each other one, straddle the chunks, end
\* with a fault as well as with a stop, and have commands for arguments.
List(a, b, c, d, e, f) == [i \in 0..5 |-> <<a, b, c, d, e, f>>[i + 1]]
SomeLists ==
  {List("FILL", "FILL", "LINE", "BAD", "BAD", "STOP"),
   List("RECT", "STOP", "FILL", "STOP", "FILL", "STOP"),
   List("ELIP", "BAD", "BAD", "BAD", "FILL", "STOP"),
   List("LINE", "BAD", "BAD", "FILL", "STOP", "STOP"),
   List("LINE", "RECT", "FILL", "ELIP", "STOP", "BAD"),
   List("RECT", "LINE", "BAD", "BAD", "FILL", "BAD")}
=============================================================================
