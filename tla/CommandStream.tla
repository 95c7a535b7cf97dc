--------------------------- MODULE CommandStream ----------------------------
(***************************************************************************)
(* The words of a command list: how graphics.c puts them together and how  *)
(* the emulator Vizard finds the end of a list and takes it apart.         *)
(*                                                                         *)
(* A word is its upper four bits and the two fields that are a point's     *)
(* coordinates if it is one; the bits between them are left out.  A color  *)
(* of 28 bits is those two fields, one of 32 bits the whole word.          *)
(***************************************************************************)
EXTENDS Naturals, Sequences

CONSTANT Fields   \* coordinates fit in 0..(Fields - 1), 10 bits in the words

ASSUME FieldsAssumption == Fields \in Nat \ {0}

GOP == [STOP |-> 0, FILL |-> 1, LINE |-> 2, ELIP |-> 3, RECT |-> 4]
Operations == DOMAIN GOP \ {"STOP"}

CMD_orgb28(gop, rgb) == [hi |-> GOP[gop], rest |-> rgb]
CMD_pnt(x, y) == [hi |-> 0, rest |-> <<x % Fields, y % Fields>>]
CMD_xrgb32(color) == color
CMD_STOP == CMD_orgb28("STOP", <<0, 0>>)

\* Absent arguments are given as values no argument is expected to have:
\* flags of a point that CMD_pnt leaves zero, and one particular color.
null_pnt == [hi |-> 15, rest |-> <<0, 0>>]
null_xrgb32 == [hi |-> 15, rest |-> <<257, 842>>]   \* 0xF101234A

Given(word, null) == IF word # null THEN <<word>> ELSE <<>>

\* The commands: of a fill only the color, of a line its ends, of the others
\* also the color they are filled with.
Rests == Nat \X Nat
CommandWords == [hi : 0..15, rest : Rests]
Coordinates == 0..(Fields - 1)
Commands ==
  [op : {"FILL"}, rgb : Rests]
  \union [op : {"LINE"}, rgb : Rests, x0 : Coordinates, y0 : Coordinates,
          x1 : Coordinates, y1 : Coordinates]
  \union [op : {"ELIP", "RECT"}, rgb : Rests, x0 : Coordinates, y0 : Coordinates,
          x1 : Coordinates, y1 : Coordinates, fill : CommandWords]

Fill(rgb) == [op |-> "FILL", rgb |-> rgb]
Line(rgb, p, q) ==
  [op |-> "LINE", rgb |-> rgb, x0 |-> p[1], y0 |-> p[2], x1 |-> q[1], y1 |-> q[2]]
Filled(op, rgb, p, q, fill) ==
  [op |-> op, rgb |-> rgb, x0 |-> p[1], y0 |-> p[2], x1 |-> q[1], y1 |-> q[2],
   fill |-> fill]

\* Appended to the list bINST.
hw_OpRGB_PP_S(bINST, orgb28, p0, p1, xrgb32) ==
  bINST \o <<orgb28>> \o Given(p0, null_pnt) \o Given(p1, null_pnt)
        \o Given(xrgb32, null_xrgb32)

\* The macros hwq_fill, hwq_line, hwq_elip and hwq_rect.
hwq(bINST, c) ==
  CASE c.op = "FILL" ->
         hw_OpRGB_PP_S(bINST, CMD_orgb28("FILL", c.rgb), null_pnt, null_pnt, null_xrgb32)
    [] c.op = "LINE" ->
         hw_OpRGB_PP_S(bINST, CMD_orgb28("LINE", c.rgb), CMD_pnt(c.x0, c.y0),
                       CMD_pnt(c.x1, c.y1), null_xrgb32)
    [] OTHER ->
         hw_OpRGB_PP_S(bINST, CMD_orgb28(c.op, c.rgb), CMD_pnt(c.x0, c.y0),
                       CMD_pnt(c.x1, c.y1), CMD_xrgb32(c.fill))
hwq_stop(bINST) == Append(bINST, CMD_STOP)

\* A list of the commands cs and the STOP that hwq_stop, or the one-shot
\* call of a command, puts after them.
Written(cs) ==
  LET list[i \in 0..Len(cs)] == IF i = 0 THEN <<>> ELSE hwq(list[i - 1], cs[i])
  IN hwq_stop(list[Len(cs)])
-----------------------------------------------------------------------------
OpcodeOf(word) ==
  IF \E op \in DOMAIN GOP : GOP[op] = word.hi
  THEN CHOOSE op \in DOMAIN GOP : GOP[op] = word.hi ELSE "BAD"

Bug_Trailing(op) == IF op = "FILL" THEN 0 ELSE 2
Trailing(op) == IF op = "FILL" THEN 0 ELSE IF op = "LINE" THEN 2 ELSE 3

\* One turn of vizard_gpu_stream_word_count, from the index after the commands
\* passed; the state says whether the list goes on, ends or is refused.
CountStep(words, max, p) ==
  IF p.state # "ON" THEN p
  ELSE IF p.index >= max THEN [index |-> p.index, state |-> "NO"]
  ELSE LET op == OpcodeOf(words[p.index + 1])
           after == p.index + 1
       IN IF op = "STOP"
          THEN [index |-> after,
                state |-> IF words[p.index + 1] = CMD_STOP THEN "END" ELSE "NO"]
          ELSE IF op = "BAD" \/ after + Trailing(op) > max
          THEN [index |-> after, state |-> "NO"]
          ELSE [index |-> after + Trailing(op), state |-> "ON"]

\* vizard_gpu_stream_word_count: 0 stands for a list that is refused.
WordCount(words, max) ==
  LET at[i \in 0..max] ==
        IF i = 0 THEN [index |-> 0, state |-> "ON"] ELSE CountStep(words, max, at[i - 1])
  IN IF at[max].state = "END" THEN at[max].index ELSE 0

\* The command read from the words at i.
Read(words, i, op) ==
  IF op = "FILL" THEN Fill(words[i].rest)
  ELSE IF op = "LINE" THEN Line(words[i].rest, words[i + 1].rest, words[i + 2].rest)
  ELSE Filled(op, words[i].rest, words[i + 1].rest, words[i + 2].rest, words[i + 3])

\* One turn of vizard_gpu_submit.
SubmitStep(words, p) ==
  IF p.state # "ON" THEN p
  ELSE IF p.index > Len(words) THEN [p EXCEPT !.state = "FAULT"]
  ELSE LET op == OpcodeOf(words[p.index]) IN
    IF op = "STOP"
    THEN [p EXCEPT !.state = IF words[p.index] = CMD_STOP THEN "DONE" ELSE "FAULT"]
    ELSE IF op = "BAD" \/ p.index + Trailing(op) > Len(words)
    THEN [p EXCEPT !.state = "FAULT"]
    ELSE [index |-> p.index + 1 + Trailing(op),
          drawn |-> Append(p.drawn, Read(words, p.index, op)), state |-> "ON"]

\* The commands vizard_gpu_submit draws, and whether it ends with a fault.
Submit(words) ==
  LET at[n \in 0..(Len(words) + 1)] ==
        IF n = 0 THEN [index |-> 1, drawn |-> <<>>, state |-> "ON"]
        ELSE SubmitStep(words, at[n - 1])
  IN at[Len(words) + 1]
-----------------------------------------------------------------------------
\* A fill color whose word is not written, as it has the value that stands for
\* an absent one (graphics.c:24, 36).
Lost(c) == c.op \in {"ELIP", "RECT"} /\ c.fill = null_xrgb32

\* A list of commands put together by the hwq_ macros is what vizard_gpu_submit
\* draws, and vizard_gpu_stream_word_count finds its end, unless it has a fill
\* color whose word is not written.
Decodes(cs) ==
  LET words == Written(cs)
      lost == \E i \in 1..Len(cs) : Lost(cs[i])
  IN /\ lost \/ WordCount(words, Len(words)) = Len(words)
     /\ Submit(words).drawn = cs /\ Submit(words).state = "DONE" <=> ~lost
=============================================================================
