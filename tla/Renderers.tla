----------------------------- MODULE Renderers ------------------------------
(***************************************************************************)
(* The other implementations of the shapes: the engines of the graphics    *)
(* processor, the emulator Vizard and the prototypes of le.c.  Each is what*)
(* it leaves in a cleared frame.  A loop is a recursive function of the    *)
(* number of its turns, which stays where it ends.                         *)
(***************************************************************************)
EXTENDS Drawing, CommandStream

CONSTANTS
  Fills,    \* colors a shape is to be filled with
  Others    \* commands in a list with that of a shape

\* Coordinates fit in the words of a command.
ASSUME CommandAssumption ==
  /\ Fills \subseteq CommandWords /\ Others \subseteq Commands
  /\ \A s \in Shapes : {s.x0, s.y0, s.x1, s.y1} \subseteq Coordinates

\* Shapes are inside the frame, an ellipse also where its loops go past its
\* radius; what is compared of a circle fits in half the words, as it does for
\* radii of ten bits in 32.
ASSUME InsideAssumption ==
  \A s \in Shapes :
    /\ s.x0 < Columns /\ s.y0 < Rows
    /\ IF s.op # "ELIP" THEN s.x1 < Columns /\ s.y1 < Rows
       ELSE /\ s.x1 + 2 <= s.x0 /\ s.y1 <= s.y0 /\ s.y0 + s.y1 < Rows
            /\ s.x1 = s.y1 => (s.x1 * s.x1) * (4 * s.x1 + 3) <= Word

LinePixels(points) == [p \in Pixels |-> IF p \in points THEN "EDGE" ELSE "NONE"]

\* What the loop of swline paints, all of it.
LineOfLoop(s) ==
  LET turn[i \in 0..errA(s)] ==
        IF i = 0 THEN LinePrepare(s) ELSE LineTurn(s, turn[i - 1])
  IN {IF spin(s) THEN <<turn[i].b, turn[i].a>> ELSE <<turn[i].a, turn[i].b>> :
        i \in 0..errA(s)}
-----------------------------------------------------------------------------
(* le.c: prototypes of the line *)

\* b at every a from one end to the other, stepping towards "to" when the error
\* is below zero.
Walk(from, to, b, toB) ==
  LET off == IF b < toB THEN 1 ELSE -1
      at[a \in from..to] ==
        IF a = from THEN [b |-> b, error |-> (to - from) \div 2]
        ELSE LET p == at[a - 1]
                 e == p.error - Distance(b, toB)
             IN IF e < 0 THEN [b |-> p.b + off, error |-> e + (to - from)]
                ELSE [b |-> p.b, error |-> e]
  IN {<<a, at[a].b>> : a \in from..to}

Transposed(points) == {<<p[2], p[1]>> : p \in points}

\* From left to right, by the columns only; with unsigned words, with signed
\* ones, and without following the row.
line_UI32(s) == Walk(s.x0, s.x1, s.y0, s.y1)
line_MINI(s) == Walk(s.x0, s.x1, s.y0, s.y1)
line_FLAT(s) == {<<x, s.y0>> : x \in s.x0..s.x1}

\* Swapped to be less than diagonal, then to run upwards.
line_FULL(s) ==
  LET steep == Distance(s.y0, s.y1) > Distance(s.x0, s.x1)
      p == IF steep THEN <<s.y0, s.x0>> ELSE <<s.x0, s.y0>>
      q == IF steep THEN <<s.y1, s.x1>> ELSE <<s.x1, s.y1>>
      points == IF p[1] > q[1] THEN Walk(q[1], p[1], q[2], p[2])
                               ELSE Walk(p[1], q[1], p[2], q[2])
  IN IF steep THEN Transposed(points) ELSE points

\* The same by exchanges of the end points' coordinates.
line_ORIG(s) ==
  LET steep == Magnitude(s.y1 - s.y0) > Magnitude(s.x1 - s.x0)
      t == IF steep THEN [s EXCEPT !.x0 = s.y0, !.y0 = s.x0, !.x1 = s.y1, !.y1 = s.x1]
                    ELSE s
      u == IF t.x0 > t.x1 THEN [t EXCEPT !.x0 = t.x1, !.x1 = t.x0, !.y0 = t.y1, !.y1 = t.y0]
                          ELSE t
  IN IF steep THEN Transposed(Walk(u.x0, u.x1, u.y0, u.y1))
              ELSE Walk(u.x0, u.x1, u.y0, u.y1)

style_name == <<"LIVE", "UI32", "MINI", "FLAT", "FULL", "ORIG">>
style_ptr(name, s) ==
  CASE name = "LIVE" -> LineOfLoop(s)
    [] name = "UI32" -> line_UI32(s)
    [] name = "MINI" -> line_MINI(s)
    [] name = "FLAT" -> line_FLAT(s)
    [] name = "FULL" -> line_FULL(s)
    [] name = "ORIG" -> line_ORIG(s)
-----------------------------------------------------------------------------
(* Vizard *)

Bug_Strict(e, dx, dy, sx, sy) ==
  [x |-> e.x + (IF 2 * e.error > dy THEN sx ELSE 0),
   y |-> e.y + (IF 2 * e.error < dx THEN sy ELSE 0),
   error |-> e.error + (IF 2 * e.error > dy THEN dy ELSE 0)
                     + (IF 2 * e.error < dx THEN dx ELSE 0)]
draw_step(e, dx, dy, sx, sy) ==
  [x |-> e.x + (IF 2 * e.error >= dy THEN sx ELSE 0),
   y |-> e.y + (IF 2 * e.error <= dx THEN sy ELSE 0),
   error |-> e.error + (IF 2 * e.error >= dy THEN dy ELSE 0)
                     + (IF 2 * e.error <= dx THEN dx ELSE 0)]

draw_line(s) ==
  LET dx == Distance(s.x0, s.x1)
      dy == -Distance(s.y0, s.y1)
      sx == IF s.x0 < s.x1 THEN 1 ELSE -1
      sy == IF s.y0 < s.y1 THEN 1 ELSE -1
      at[i \in 0..(dx - dy)] ==
        IF i = 0 THEN [x |-> s.x0, y |-> s.y0, error |-> dx + dy]
        ELSE LET p == at[i - 1]
             IN IF p.x = s.x1 /\ p.y = s.y1 THEN p ELSE draw_step(p, dx, dy, sx, sy)
  IN {<<at[i].x, at[i].y>> : i \in 0..(dx - dy)}

draw_rect(s) ==
  LET left == Smaller(s.x0, s.x1)   right == Larger(s.x0, s.x1)
      top == Smaller(s.y0, s.y1)    bottom == Larger(s.y0, s.y1)
  IN [p \in Pixels |->
        IF p[1] \notin left..right \/ p[2] \notin top..bottom THEN "NONE"
        ELSE IF p[1] \in {left, right} \/ p[2] \in {top, bottom} THEN "EDGE"
        ELSE s.fill]

\* The row in the middle is painted once.
draw_ellipse_scanlines(f, s, x, y) ==
  LET upper == swslr(f, s.y0 - y, s.x0 - x, s.x0 + x, s.fill)
  IN IF y # 0 THEN swslr(upper, s.y0 + y, s.x0 - x, s.x0 + x, s.fill) ELSE upper

\* Whether a loop of the ellipse goes on: in the program and the emulator, in
\* the swelip of le.c and the engine, whose second loop does not compare x with
\* a, and as the comment beside the first one says, which does not wrap:
\* "(AAy-(AA>>1)) > (BBx+BB)" (graphics.c:233).
GoesA(form, s, l) ==
  IF form = "COMMENT"
  THEN l.at = "A" /\ l.y > 0 /\ l.x <= s.x1 /\ l.AAy - AA(s) \div 2 > l.BBx + BB(s)
  ELSE InLoopA(s, l)
GoesB(form, s, l) == IF form = "ENGINE" THEN l.y > 0 ELSE InLoopB(s, l)

\* One turn of the two loops.
Turn(form, s, l) ==
  IF GoesA(form, s, l) THEN LoopA(s, l)
  ELSE IF l.at = "A" THEN PrepareB(s, l)
  ELSE IF GoesB(form, s, l) THEN LoopB(s, l) ELSE l

Turns(s) == s.x1 + s.y1 + 3

EllipseTurns(form, s) ==
  LET l[i \in 0..Turns(s)] ==
        IF i = 0 THEN EllipsePrepare(s) ELSE Turn(form, s, l[i - 1])
  IN l

\* The rows painted at every turn, into a cleared frame.
Painted(form, s) ==
  LET l == EllipseTurns(form, s)
      f[i \in -1..Turns(s)] ==
        IF i = -1 THEN swfill_unroll ELSE swslr_4way(f[i - 1], s, l[i].x, l[i].y)
  IN f[Turns(s)]

draw_ellipse(s) ==
  LET l == EllipseTurns("PROGRAM", s)
      f[i \in -1..Turns(s)] ==
        IF i = -1 THEN swfill_unroll
        ELSE draw_ellipse_scanlines(f[i - 1], s, l[i].x, l[i].y)
  IN f[Turns(s)]

Vizard(s) ==
  CASE s.op = "LINE" -> LinePixels(draw_line(s))
    [] s.op = "RECT" -> draw_rect(s)
    [] s.op = "ELIP" -> draw_ellipse(s)
-----------------------------------------------------------------------------
(* The engines *)

\* The runner paints the columns in either order.
ScanLine(f, Y, start, finish, color) ==
  swslr(f, Y, Smaller(start, finish), Larger(start, finish), color)

\* The upper side is known by "yy == yt" and the lower by lastY, but yt is
\* as it was given.
RectangleEngine(s) ==
  LET yb_saved == Larger(s.y0, s.y1)
      f[yy \in (Smaller(s.y0, s.y1) - 1)..yb_saved] ==
        IF yy < Smaller(s.y0, s.y1) THEN swfill_unroll
        ELSE ScanLine(f[yy - 1], yy, s.x0, s.x1,
                      IF yy = s.y0 \/ yy >= yb_saved THEN "EDGE" ELSE s.fill)
  IN f[yb_saved]

ElipseEngine(s) == Painted("ENGINE", s)

\* The line engine's recurrence is that of swline.
Hardware(s) ==
  CASE s.op = "LINE" -> LinePixels(LineOfLoop(s))
    [] s.op = "RECT" -> RectangleEngine(s)
    [] s.op = "ELIP" -> ElipseEngine(s)
-----------------------------------------------------------------------------
(* Properties *)

Finished(ops) == loop = Idle /\ shape.op \in ops

\* A line has a tie if it passes halfway between two pixels.
Tie(s) ==
  \E k \in 1..errA(s) : (2 * k * Distance(b0(s), b1(s)) + errA(s)) % (2 * errA(s)) = 0

\* Vizard "aims to produce a pixel-for-pixel match" (its README.md:66): it does
\* for rectangles and ellipses, and for lines but those that have a tie and run
\* upwards in their longer coordinate (vizard_gpu.c:67-74).
VizardAgrees ==
  Finished({"LINE", "RECT", "ELIP"}) =>
    (frame = Vizard(shape) <=> ~(shape.op = "LINE" /\ Tie(shape) /\ ~flip(shape)))

\* The prototypes of le.c that take every line draw what swline does, those
\* that step by columns from left to right do for the lines they are for.
PrototypesAgree ==
  Finished({"LINE"}) =>
    \A i \in DOMAIN style_name :
      LET name == style_name[i] IN
      \/ frame = LinePixels(style_ptr(name, shape))
      \/ /\ name \in {"UI32", "MINI", "FLAT"}
         /\ shape.x0 > shape.x1 \/ spin(shape) \/ (name = "FLAT" /\ shape.y0 # shape.y1)

\* No row between the upper and the lower end of the ellipse is left out.
RowsComplete ==
  \A Y \in (shape.y0 - shape.y1)..(shape.y0 + shape.y1) :
    \E X \in 0..(Columns - 1) : frame[<<X, Y>>] = "EDGE"

\* The engines draw what the program's own functions do (draw.c:4-6) but for
\* two cases: a rectangle given with its lower side first gets a filled upper
\* side (RectangleEngine.v:127), and the ellipse engine completes those that
\* swelip leaves off, because it does not stop at x > a (ElipseEngine.v:261).
HardwareAgrees ==
  Finished({"LINE", "RECT", "ELIP"}) =>
    (frame = Hardware(shape) <=>
       CASE shape.op = "LINE" -> TRUE
         [] shape.op = "RECT" ->
              shape.y0 <= shape.y1 \/ Distance(shape.x0, shape.x1) < 2
         [] shape.op = "ELIP" -> RowsComplete)

\* What the program, its prototypes, the emulator and the hardware draw for one
\* command is the same, but for the cases named.
RenderersAgree == VizardAgrees /\ PrototypesAgree /\ HardwareAgrees

\* The command for a shape drawn in red.
Red == <<255, 0>>
CommandFor(s, fill) ==
  IF s.op = "LINE" THEN Line(Red, <<s.x0, s.y0>>, <<s.x1, s.y1>>)
  ELSE Filled(s.op, Red, <<s.x0, s.y0>>, <<s.x1, s.y1>>, fill)

\* The emulator takes the list apart that the program puts together: the
\* shape's command, alone and with others before or after it.
ListsDecode ==
  Finished({"LINE", "RECT", "ELIP"}) =>
    \A fill \in Fills, c \in Others :
      LET d == CommandFor(shape, fill)
      IN Decodes(<<d>>) /\ Decodes(<<c, d>>) /\ Decodes(<<d, c>>)

\* A circle (swcirc, dd_circ) is drawn whole and as the comments of swelip say:
\* its unsigned comparison does not wrap.
CirclesAsCommented ==
  Finished({"ELIP"}) /\ shape.x1 = shape.y1 =>
    RowsComplete /\ frame = Painted("COMMENT", shape)

\* The same of every ellipse, which does not hold: AAy - BBx is unsigned
\* (graphics.c:221, 233), and where it wraps loop A goes on.
EllipsesAsCommented == Finished({"ELIP"}) => frame = Painted("COMMENT", shape)
=============================================================================
