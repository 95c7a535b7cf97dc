------------------------------ MODULE Drawing -------------------------------
(***************************************************************************)
(* The shapes of graphics.c, drawn one turn of a loop at a time: swline,   *)
(* swelip and swrect.  A program like draw.c clears a frame and draws one  *)
(* shape; what the same shape looks like when the graphics processor, the  *)
(* emulator Vizard or one of the prototypes of le.c draws it is compared   *)
(* with it in RenderersAgree.                                              *)
(*                                                                         *)
(* A pixel holds the EDGE colour, the FILL colour or NONE, and NONE as the *)
(* fill colour of a shape stands for one whose top byte is zero, which is  *)
(* not painted.  Coordinates are those of a shape inside the frame, so that*)
(* no 16-bit coordinate wraps; the 32-bit words of the ellipse wrap.       *)
(***************************************************************************)
EXTENDS Arithmetic

CONSTANTS
  Columns, Rows,   \* the frame: COL_SIZEP, ROW_SIZEP
  Shapes           \* the shapes that are drawn

ASSUME FrameAssumption == Columns \in Nat /\ Rows \in Nat

Pixels == (0..(Columns - 1)) \X (0..(Rows - 1))
Colors == {"EDGE", "FILL", "NONE"}

\* The points of a command; of an ellipse the centre and the two radii.
AllShapes ==
  [op : {"LINE", "ELIP", "RECT"}, x0 : Nat, y0 : Nat, x1 : Nat, y1 : Nat,
   fill : {"FILL", "NONE"}]

ASSUME ShapesAssumption == Shapes \subseteq AllShapes

VARIABLES
  frame,   \* the frame drawn into
  shape,   \* the shape drawn last
  loop     \* the variables of the loop, and which loop it is

vars == <<frame, shape, loop>>
-----------------------------------------------------------------------------
(* Painting *)

Smaller(m, n) == IF m < n THEN m ELSE n
Larger(m, n) == IF m < n THEN n ELSE m

swfill_unroll == [p \in Pixels |-> "NONE"]

swpixl(f, X, Y) == [p \in Pixels |-> IF p = <<X, Y>> THEN "EDGE" ELSE f[p]]

\* A row of pixels: both ends get the edge colour, the others the one given.
swslr(f, Y, L, R, color) ==
  [p \in Pixels |->
     IF p[2] # Y \/ p[1] \notin L..R THEN f[p]
     ELSE IF p[1] \in {L, R} THEN "EDGE"
     ELSE IF color # "NONE" THEN color ELSE f[p]]
-----------------------------------------------------------------------------
(* swline: from one end of the longer side, a, to the other; b follows when*)
(* the error is used up.                                                   *)

Distance(m, n) == Larger(m, n) - Smaller(m, n)

spin(s) == Distance(s.y0, s.y1) > Distance(s.x0, s.x1)
flip(s) == IF spin(s) THEN s.y1 < s.y0 ELSE s.x1 < s.x0

First(s) == IF flip(s) THEN <<s.x1, s.y1>> ELSE <<s.x0, s.y0>>
Last(s) == IF flip(s) THEN <<s.x0, s.y0>> ELSE <<s.x1, s.y1>>
a0(s) == IF spin(s) THEN First(s)[2] ELSE First(s)[1]
b0(s) == IF spin(s) THEN First(s)[1] ELSE First(s)[2]
a1(s) == IF spin(s) THEN Last(s)[2] ELSE Last(s)[1]
b1(s) == IF spin(s) THEN Last(s)[1] ELSE Last(s)[2]

offB(s) == IF b1(s) > b0(s) THEN 1 ELSE -1
negB(s) == -Distance(b0(s), b1(s))
errA(s) == a1(s) - a0(s)

Bug_WholeColumn(s) == [at |-> "LINE", a |-> a0(s), b |-> b0(s), error |-> errA(s)]
LinePrepare(s) == [at |-> "LINE", a |-> a0(s), b |-> b0(s), error |-> errA(s) \div 2]

LineTurn(s, l) ==
  LET down == l.error + negB(s) < 0
  IN [l EXCEPT !.a = l.a + 1, !.b = IF down THEN l.b + offB(s) ELSE l.b,
               !.error = l.error + negB(s) + (IF down THEN errA(s) ELSE 0)]
-----------------------------------------------------------------------------
(* swelip: loop A while the outline is flatter than its diagonal, then loop*)
(* B.  In the record of either, BB2 is BB2xp3 or BB2xp2.                   *)

AA(s) == sqr32u32u(s.x1)
BB(s) == sqr32u32u(s.y1)
Bug_WholeSquare(s) == (AA(s) + BB(s)) % Word
stopper(s) == (AA(s) \div 2 + BB(s)) % Word

EllipsePrepare(s) ==
  [at |-> "A", x |-> 0, y |-> s.y1, AAy |-> mul32u32u(AA(s), s.y1), BBx |-> 0,
   BB2 |-> (3 * BB(s)) % Word,
   dd |-> (BB(s) - mul32u32u(AA(s), s.y1) + AA(s) \div 4) % Word]

\* AAy - BBx is unsigned, and so is the comparison.
InLoopA(s, l) ==
  /\ l.at = "A" /\ l.y > 0 /\ l.x <= s.x1
  /\ (l.AAy - l.BBx) % Word > stopper(s)

LoopA(s, l) ==
  LET in == Signed(l.dd) >= 0
  IN [l EXCEPT
        !.y = IF in THEN l.y - 1 ELSE l.y,
        !.AAy = IF in THEN (l.AAy - AA(s)) % Word ELSE l.AAy,
        !.dd = (l.dd + (IF in THEN 2 * (AA(s) - l.AAy) ELSE 0) + l.BB2) % Word,
        !.x = l.x + 1,
        !.BBx = (l.BBx + BB(s)) % Word,
        !.BB2 = (l.BB2 + 2 * BB(s)) % Word]

PrepareB(s, l) ==
  [l EXCEPT
     !.at = "B", !.BB2 = (l.BB2 - BB(s)) % Word,
     !.dd = (mul32u32u(BB(s), (sqr32u32u(l.x) + l.x) % Word) + BB(s) \div 4
             + mul32u32u(AA(s), sqr32u32u((l.y - 1) % Word))
             - mul32u32u(AA(s), BB(s))) % Word]

InLoopB(s, l) == l.at = "B" /\ l.y > 0 /\ l.x <= s.x1

LoopB(s, l) ==
  LET out == Signed(l.dd) < 0
  IN [l EXCEPT
        !.x = IF out THEN l.x + 1 ELSE l.x,
        !.BB2 = IF out THEN (l.BB2 + 2 * BB(s)) % Word ELSE l.BB2,
        !.dd = (l.dd + (IF out THEN l.BB2 ELSE 0) + 3 * AA(s) - 2 * l.AAy) % Word,
        !.y = l.y - 1,
        !.AAy = (l.AAy - AA(s)) % Word]

swslr_4way(f, s, x, y) ==
  swslr(swslr(f, s.y0 - y, s.x0 - x, s.x0 + x, s.fill),
        s.y0 + y, s.x0 - x, s.x0 + x, s.fill)
-----------------------------------------------------------------------------
(* swrect: rows from the upper to the lower side *)

RectPrepare(s) == [at |-> "RECT", Y |-> Smaller(s.y0, s.y1)]

RectRow(s, Y) ==
  LET side == Y \in {s.y0, s.y1}
  IN swslr(frame, Y, Smaller(s.x0, s.x1), Larger(s.x0, s.x1),
           IF side THEN "EDGE" ELSE s.fill)
-----------------------------------------------------------------------------
Idle == [at |-> "NONE"]
NoShape == [op |-> "NONE"]

dd_fill ==
  /\ loop = Idle /\ shape # NoShape
  /\ frame' = swfill_unroll /\ shape' = NoShape
  /\ UNCHANGED loop

dd_shape(s) ==
  /\ loop = Idle /\ shape = NoShape
  /\ shape' = s
  /\ CASE s.op = "LINE" -> loop' = LinePrepare(s) /\ UNCHANGED frame
       [] s.op = "RECT" -> loop' = RectPrepare(s) /\ UNCHANGED frame
       [] s.op = "ELIP" ->
            /\ loop' = EllipsePrepare(s)
            /\ frame' = swslr_4way(frame, s, 0, s.y1)

swline ==
  /\ loop.at = "LINE"
  /\ IF loop.a <= a1(shape)
     THEN /\ frame' = IF spin(shape) THEN swpixl(frame, loop.b, loop.a)
                                     ELSE swpixl(frame, loop.a, loop.b)
          /\ loop' = LineTurn(shape, loop)
     ELSE loop' = Idle /\ frame' = frame
  /\ UNCHANGED shape

swelip ==
  /\ loop.at \in {"A", "B"}
  /\ \/ InLoopA(shape, loop) /\ loop' = LoopA(shape, loop)
     \/ InLoopB(shape, loop) /\ loop' = LoopB(shape, loop)
  /\ frame' = swslr_4way(frame, shape, loop'.x, loop'.y)
  /\ UNCHANGED shape

swelip_ends ==
  /\ \/ loop.at = "A" /\ ~InLoopA(shape, loop) /\ loop' = PrepareB(shape, loop)
     \/ loop.at = "B" /\ ~InLoopB(shape, loop) /\ loop' = Idle
  /\ UNCHANGED <<frame, shape>>

Bug_StaysInRow ==
  /\ loop.at = "RECT"
  /\ frame' = RectRow(shape, loop.Y)
  /\ UNCHANGED <<loop, shape>>
swrect ==
  /\ loop.at = "RECT"
  /\ IF loop.Y <= Larger(shape.y0, shape.y1)
     THEN frame' = RectRow(shape, loop.Y) /\ loop' = [loop EXCEPT !.Y = loop.Y + 1]
     ELSE loop' = Idle /\ frame' = frame
  /\ UNCHANGED shape

Init == frame = swfill_unroll /\ loop = Idle /\ shape = NoShape

Next == dd_fill \/ (\E s \in Shapes : dd_shape(s)) \/ swline \/ swelip \/ swelip_ends \/ swrect

Spec ==
  /\ Init /\ [][Next]_vars
  /\ WF_vars(swline) /\ WF_vars(swelip) /\ WF_vars(swelip_ends) /\ WF_vars(swrect)
-----------------------------------------------------------------------------
(* Properties *)

\* How many steps b has taken.
Steps == offB(shape) * (loop.b - b0(shape))

\* The loop's record is of one kind.
LoopKinds ==
  \/ loop = Idle
  \/ loop = [at |-> "LINE", a |-> loop.a, b |-> loop.b, error |-> loop.error]
  \/ loop = [at |-> "RECT", Y |-> loop.Y]
  \/ /\ loop.at \in {"A", "B"}
     /\ loop = [at |-> loop.at, x |-> loop.x, y |-> loop.y, AAy |-> loop.AAy,
                BBx |-> loop.BBx, BB2 |-> loop.BB2, dd |-> loop.dd]

\* What the error of swline stands for (graphics.c:147, 162): half a column
\* less what the columns passed have used up, plus a column for every step of
\* b; it is "guaranteed >= 0" and stays below a column.
LineInv ==
  loop.at = "LINE" =>
    /\ shape \in Shapes /\ shape.op = "LINE"
    /\ loop.a \in Int /\ loop.b \in Int /\ loop.error \in Int
    /\ a0(shape) <= loop.a /\ loop.a <= a1(shape) + 1
    /\ loop.error = errA(shape) \div 2 + negB(shape) * (loop.a - a0(shape))
                     + errA(shape) * Steps
    /\ 0 <= loop.error /\ (errA(shape) = 0 \/ loop.error < errA(shape))
    /\ loop.a = a0(shape) => loop.b = b0(shape)

\* The pixel swline paints next (graphics.c:156) is at most half a pixel away
\* from the line between the two points, and the last one is the second point.
LineIsNearest ==
  loop.at = "LINE" /\ loop.a <= a1(shape) =>
    /\ 2 * Magnitude(errA(shape) * Steps + negB(shape) * (loop.a - a0(shape)))
         <= errA(shape)
    /\ loop.a = a1(shape) => loop.b = b1(shape)

\* The products swelip computes with (graphics.c:217-228) are products: the
\* multiplications of mutmath.c agree, for all factors they take.
ProductsAgree == loop.at = "A" => AllProducts

\* The loops of a shape end, whatever the radii and however the words of
\* swelip wrap: "x <= a" and "y > 0" end its loops (graphics.c:233, 248).
LoopsEnd == (loop # Idle) ~> (loop = Idle)
=============================================================================
