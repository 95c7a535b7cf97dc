----------------------------- MODULE MCDrawing ------------------------------
(***************************************************************************)
(* Lines and rectangles between all points of a square of 5 by 5, and      *)
(* ellipses with radii up to 7: three bits, to words of 11 bits as the ten *)
(* bits of a coordinate are to words of 32, so that the products overflow  *)
(* as they do there.                                                       *)
(***************************************************************************)
EXTENDS Renderers

Side == 0..4
Shape(ops, xs, ys, us, vs) ==
  [op : ops, x0 : xs, y0 : ys, x1 : us, y1 : vs, fill : {"FILL", "NONE"}]
MCShapes ==
  {s \in Shape({"LINE", "RECT"}, Side, Side, Side, Side) :
     s.op = "LINE" => s.fill = "NONE"}
  \union Shape({"ELIP"}, {9}, {8}, 0..7, 0..7)
-----------------------------------------------------------------------------
\* Of its own two matrices mmult.c computes the second (mmult.c:66-81).
ASSUME IdentityTimes ==
  LET m == generate_matrices(4)
  IN mmult(m.A, m.B, 4) = [S |-> m.B, sum |-> 24]
-----------------------------------------------------------------------------
\* Fill colors of each kind: one that is painted, one that is not, and the one
\* that stands for an absent color; and commands before or after that of a shape.
MCFills == {[hi |-> 15, rest |-> Red], [hi |-> 0, rest |-> <<0, 0>>], null_xrgb32}
MCOthers ==
  {Fill(Red), Line(Red, <<0, 0>>, <<1023, 0>>),
   Filled("RECT", Red, <<0, 3>>, <<3, 0>>, null_xrgb32)}
=============================================================================
