------------------------------ MODULE Console ------------------------------
(***************************************************************************)
(* The console of gios (main_bios) over the command parser it shares with  *)
(* other programs (parse.c): the table of commands, the arguments each     *)
(* reads, and what they do to the memory, the drawing settings and the     *)
(* registers of the graphics.                                              *)
(*                                                                         *)
(* A word is four bytes and is also an address.  What is typed is a        *)
(* command's token, or the number a conversion finds in an argument; text  *)
(* and printing are left out.  A program started with jal is not modelled. *)
(***************************************************************************)
EXTENDS Naturals, Sequences

CONSTANTS
  ByteValues,  \* values of a byte (2^8)
  DumpWords,   \* words of a dumped block (16)
  FrameNumbers, \* numbers of frames (2^6)
  FrameBytes,  \* addresses below a frame number (2^22)
  HostFrames,  \* frames the host has (16)
  Memory0,     \* what memory holds at first
  Inputs,      \* tokens given as commands
  Numbers,     \* numbers given
  Commands,    \* bound on the commands of a behaviour, continued dumps aside
  ExclusiveOr(_, _)    \* exclusive or of two words

VARIABLES
  mem, stash_address, last_result,
  bcs,         \* the command under way, or NULL at the prompt
  last_bcs,    \* the command before, or NULL
  want,        \* conversions of the arguments still to be read
  given,       \* what they gave so far
  p, words, xor, \* store_xor: next word, words to come, result so far
  shown,       \* the block dump_block printed last, [from, count]
  moved,       \* the words the last transfer wrote or summed, [to, count]
  color, back, sw_frame, GP_FRAME, PF_FRAME, GP_GCODE,
  drawn,       \* what the last drawing command had each engine draw
  commands

results == <<mem, last_result, p, words, xor, shown, moved>>
settings == <<color, back, sw_frame, GP_FRAME, PF_FRAME, GP_GCODE, drawn>>
consoleVars == <<results, stash_address, settings, bcs, last_bcs, want, given, commands>>

\* The values of n bytes, up to the four of a word.
Wide(n) ==
  LET B == ByteValues
  IN  CASE n = 0 -> 1 [] n = 1 -> B [] n = 2 -> B * B [] n = 3 -> B * B * B [] n = 4 -> B * B * B * B
Byte == 0..(Wide(1) - 1)
Word == 0..(Wide(4) - 1)
KILLR == Wide(4) - 1
NULL == [token |-> <<>>, cmd |-> "NULL", flags |-> {}]
Engines == {"hw", "sw"}

\* A byte has an even number of values, so words fit in memory; a frame begins
\* at a multiple of the number of frames, and frames fit in memory.
ASSUME ByteAssumption == ByteValues \in Nat \ {0} /\ ByteValues % 2 = 0
ASSUME FrameAssumption ==
  /\ FrameNumbers \in Nat \ {0, 1} /\ FrameBytes \in Nat \ {0} /\ FrameBytes % FrameNumbers = 0
  /\ 2 * FrameNumbers * FrameBytes <= Wide(4)
  /\ HostFrames \in 0..FrameNumbers
ASSUME DumpAssumption == DumpWords \in Nat
ASSUME InputAssumption == Numbers \subseteq Word /\ Memory0 \in [Word -> Byte]
ASSUME XorAssumption == \A a, b \in Word : ExclusiveOr(a, b) \in Word

-----------------------------------------------------------------------------
(* The table of commands.                                                  *)

Entry(t, c, f) == [token |-> t, cmd |-> c, flags |-> f]
ForEngines(t, c) ==
  {Entry(<<t>>, c, Engines), Entry(<<"hw", t>>, c, {"hw"}), Entry(<<"sw", t>>, c, {"sw"})}

bcmd_table ==
  {Entry(<<"file">>, "FILE", {}), Entry(<<"jal">>, "JAL", {})}
  \cup {Entry(<<"l", "w">>, "LOAD", 4), Entry(<<"l", "hu">>, "LOAD", 2), Entry(<<"l", "bu">>, "LOAD", 1)}
  \cup {Entry(<<"s", "w">>, "STORE", 4), Entry(<<"s", "h">>, "STORE", 2), Entry(<<"s", "b">>, "STORE", 1)}
  \cup {Entry(<<"dump">>, "DUMP", {}), Entry(<<"copy">>, "COPY", {}), Entry(<<>>, "BLANK", {}),
        Entry(<<"help">>, "HELP", {}), Entry(<<"result">>, "RESULT", {}),
        Entry(<<"gs">>, "GSTAT", {}), Entry(<<"gc">>, "GCODE", {})}
  \cup {Entry(<<"ff">>, "FRAME", {"pf", "hw", "sw"}), Entry(<<"pf">>, "FRAME", {"pf"}),
        Entry(<<"gf">>, "FRAME", {"hw"}), Entry(<<"sf">>, "FRAME", {"sw"})}
  \cup ForEngines("back", "BACK") \cup ForEngines("color", "COLOR")
  \cup ForEngines("fill", "FILL") \cup ForEngines("line", "LINE")
  \cup ForEngines("elip", "ELIP") \cup ForEngines("rect", "RECT")

UNKNOWN == Entry(<<"??">>, "UNKNOWN", {})

token_cmdspec(input) ==
  IF \E e \in bcmd_table : e.token = input
  THEN CHOOSE e \in bcmd_table : e.token = input
  ELSE UNKNOWN

\* The bytes of the numbers a command reads, in the order it reads them, and
\* Address for an address.  The two calls in BC_FILE's argument list may be made
\* in either order.
Address == 0

Arguments(e) ==
  CASE e.cmd = "FILE" -> {<<Address, 4>>, <<4, Address>>}
    [] e.cmd \in {"JAL", "LOAD", "DUMP", "GCODE", "FRAME"} -> {<<Address>>}
    [] e.cmd = "STORE" -> {<<e.flags, Address>>}
    [] e.cmd = "COPY" -> {<<Address, 4, 4>>}
    [] e.cmd \in {"BACK", "COLOR"} -> {<<4>>}
    [] e.cmd \in {"LINE", "ELIP", "RECT"} -> {<<2, 2, 2, 2>>}
    [] OTHER -> {<<>>}

-----------------------------------------------------------------------------
(* Numbers, and the memory.  The CPU is big-endian; a misaligned access     *)
(* loads 0 and stores nothing.                                              *)

JustMinus == [minus |-> TRUE, value |-> Wide(4)]
Typed == {JustMinus} \cup [minus : BOOLEAN, value : Numbers]

tok_radnum(n, t) ==
  IF t = JustMinus THEN KILLR
  ELSE LET val == t.value % Wide(n)
       IN  IF t.minus THEN (Wide(4) - val) % Wide(4) ELSE val

tok_addr(t) == LET a == tok_radnum(4, t) IN IF a = KILLR THEN stash_address ELSE a

AlignDown(a) == a - (a % 4)
Aligned(a, n) == a % n = 0
Plus(a, n) == (a + n) % Wide(4)

Load(m, a, n) ==
  LET byte(i) == m[Plus(a, i)] * Wide(n - 1 - i)
  IN  IF ~Aligned(a, n) THEN 0
      ELSE CASE n = 1 -> byte(0)
             [] n = 2 -> byte(0) + byte(1)
             [] n = 4 -> byte(0) + byte(1) + byte(2) + byte(3)

Store(m, a, n, v) ==
  IF ~Aligned(a, n) THEN m
  ELSE [x \in Word |->
          IF x - a \in 0..(n - 1) THEN (v \div Wide(n - 1 - (x - a))) % Wide(1) ELSE m[x]]

\* Bug: each word goes one further.
Bug_CopyShifted(src, dst, count, m) ==
  LET after[k \in Nat] ==
        IF k = 0 THEN [m |-> m, xor |-> 0]
        ELSE LET b == after[k - 1]
                 v == Load(b.m, Plus(src, 4 * (k - 1)), 4)
             IN  [m |-> IF dst = 0 THEN b.m ELSE Store(b.m, Plus(dst, 4 * k), 4, v),
                  xor |-> ExclusiveOr(b.xor, v)]
  IN  after[count]

\* The memory after count words from src were copied to dst one by one, and the
\* exclusive or of what was read.
copied(src, dst, count, m) ==
  LET after[k \in Nat] ==
        IF k = 0 THEN [m |-> m, xor |-> 0]
        ELSE LET b == after[k - 1]
                 v == Load(b.m, Plus(src, 4 * (k - 1)), 4)
             IN  [m |-> IF dst = 0 THEN b.m ELSE Store(b.m, Plus(dst, 4 * (k - 1)), 4, v),
                  xor |-> ExclusiveOr(b.xor, v)]
  IN  after[count]

copy_xor(src, bytes, dst, m) ==
  IF \A n \in {src, bytes, dst} : Aligned(n, 4) THEN copied(src, dst, bytes \div 4, m)
  ELSE [m |-> m, xor |-> 0]

\* What dump_block prints and where it stops; from a misaligned address, nothing.
Printed(a) == [from |-> AlignDown(a), count |-> IF Aligned(a, 4) THEN DumpWords ELSE 0]

\* Bug: the pointer goes on by bytes.
Bug_ByBytes(a) == IF Aligned(a, 4) THEN Plus(a, DumpWords) ELSE AlignDown(a)

dump_block(a) == IF Aligned(a, 4) THEN Plus(a, 4 * DumpWords) ELSE AlignDown(a)

\* The pointer std_frame makes of a frame's number or address, and the number
\* the hardware finds in either.
FrameField(w) == (w \div FrameBytes) % FrameNumbers
TopBits(w) == w \div (FrameNumbers * FrameBytes)

\* Bug: only the frame's bits are tested.
Bug_FieldOnly(w) ==
  IF FrameField(w) # 0 THEN w - (w % FrameBytes)
  ELSE FrameNumbers * FrameBytes + (w % FrameNumbers) * FrameBytes

FRAME_PTR(w) ==
  IF w \div FrameBytes # 0 THEN w - (w % FrameBytes)
  ELSE FrameNumbers * FrameBytes + (w % FrameNumbers) * FrameBytes
FRAME_BITS(w) == IF TopBits(w) # 0 THEN FrameField(w) ELSE w % FrameNumbers

\* The same on the host: the number the window and the drawing thread find,
\* the address a number stands for, and the index the library checks, Refused
\* for a number or an index out of range.
Refused == FrameNumbers
frame_number(w) == IF TopBits(w) # 0 THEN FrameField(w) ELSE w % FrameNumbers
frame_address(w) == FrameNumbers * FrameBytes + frame_number(w) * FrameBytes
vizard_frame_index(w) ==
  LET index == IF w \div FrameBytes # 0 THEN FrameField(w) ELSE w
  IN  IF index < HostFrames THEN index ELSE Refused

-----------------------------------------------------------------------------
Nothing == [engine \in Engines |-> NULL]
STD_FRAME1 == FRAME_PTR(1)

ConsoleInit ==
  /\ mem = Memory0 /\ stash_address = FrameNumbers * FrameBytes /\ last_result = KILLR
  /\ bcs = NULL /\ last_bcs = NULL /\ want = <<>> /\ given = <<>>
  /\ p = 0 /\ words = 0 /\ xor = 0 /\ moved = [to |-> 0, count |-> 0] /\ shown = Printed(0)
  /\ color = [hw |-> 1, sw |-> 2] /\ back = [engine \in Engines |-> 0]
  /\ sw_frame = STD_FRAME1 /\ GP_FRAME = STD_FRAME1 /\ PF_FRAME = STD_FRAME1 /\ GP_GCODE = 0
  /\ drawn = Nothing /\ commands = 0

Done(e) == bcs' = NULL /\ last_bcs' = e /\ want' = <<>> /\ given' = <<>>

Untouched == UNCHANGED <<mem, last_result, p, words, xor, moved, settings, bcs, last_bcs, want, given, commands>>

\* A return after a dump.
ContinueDump ==
  /\ bcs = NULL /\ last_bcs.cmd = "DUMP"
  /\ stash_address' = dump_block(stash_address)
  /\ shown' = Printed(stash_address)
  /\ Untouched

Settled == UNCHANGED <<mem, stash_address, last_result, p, words, xor, shown>>

Fill(e) == [engine \in Engines |->
  IF engine \in e.flags
  THEN [op |-> "FILL", frame |-> IF engine = "hw" THEN GP_FRAME ELSE sw_frame,
        color |-> color[engine], points |-> <<>>, back |-> 0]
  ELSE NULL]

\* A command is read; one without arguments is carried out at once.
ReadCommand(input) ==
  LET e == token_cmdspec(input)
  IN  /\ bcs = NULL /\ commands < Commands /\ commands' = commands + 1
      /\ ~(e.cmd = "BLANK" /\ last_bcs.cmd = "DUMP")
      /\ drawn' = IF e.cmd = "FILL" THEN Fill(e) ELSE Nothing
      /\ moved' = [to |-> 0, count |-> 0]
      /\ \E kinds \in Arguments(e) :
           IF kinds = <<>> THEN Done(e)
           ELSE bcs' = e /\ want' = kinds /\ given' = <<>> /\ last_bcs' = last_bcs
      /\ Settled /\ UNCHANGED <<color, back, sw_frame, GP_FRAME, PF_FRAME, GP_GCODE>>

-----------------------------------------------------------------------------
(* The last argument is read and the command carried out.  a is what the    *)
(* arguments gave, s the address kept for a later "-".                      *)

StartFile(a) ==
  LET to == IF want = <<Address>> THEN a[2] ELSE a[1]
      bytes == IF want = <<Address>> THEN a[1] ELSE a[2]
  IN  /\ p' = AlignDown(to) /\ words' = bytes \div 4 /\ xor' = 0
      /\ moved' = [to |-> AlignDown(to), count |-> bytes \div 4]
      /\ IF bytes \div 4 = 0 THEN last_result' = 0 /\ Done(bcs)
         ELSE want' = <<>> /\ given' = <<to, bytes>> /\ UNCHANGED <<last_result, bcs, last_bcs>>
      /\ UNCHANGED <<mem, shown, settings>>

StoreValue(a) ==
  /\ mem' = Store(mem, a[2], bcs.flags, a[1])
  /\ UNCHANGED <<last_result, p, words, xor, shown, moved, settings>>

Dump(a) ==
  /\ shown' = Printed(a[1])
  /\ UNCHANGED <<mem, last_result, p, words, xor, moved, settings>>

Copy(a) ==
  LET end == copy_xor(a[1], a[3], a[2], mem)
  IN  /\ mem' = end.m /\ last_result' = end.xor
      /\ moved' = [to |-> IF a[2] = 0 THEN a[1] ELSE a[2],
                   count |-> IF \A n \in {a[1], a[2], a[3]} : Aligned(n, 4) THEN a[3] \div 4 ELSE 0]
      /\ UNCHANGED <<p, words, xor, shown, settings>>

SetFrame(a) ==
  /\ PF_FRAME' = IF "pf" \in bcs.flags THEN a[1] ELSE PF_FRAME
  /\ GP_FRAME' = IF "hw" \in bcs.flags THEN FRAME_PTR(a[1]) ELSE GP_FRAME
  /\ sw_frame' = IF "sw" \in bcs.flags THEN FRAME_PTR(a[1]) ELSE sw_frame
  /\ UNCHANGED <<results, color, back, GP_GCODE, drawn>>

Chosen(old, c) == [engine \in Engines |-> IF engine \in bcs.flags THEN c ELSE old[engine]]

SetColor(a) ==
  /\ color' = IF bcs.cmd = "COLOR" THEN Chosen(color, a[1]) ELSE color
  /\ back' = IF bcs.cmd = "BACK" THEN Chosen(back, a[1]) ELSE back
  /\ UNCHANGED <<results, sw_frame, GP_FRAME, PF_FRAME, GP_GCODE, drawn>>

Draw(a) ==
  /\ drawn' = [engine \in Engines |->
       IF engine \in bcs.flags
       THEN [op |-> bcs.cmd, frame |-> IF engine = "hw" THEN GP_FRAME ELSE sw_frame,
             color |-> color[engine], points |-> a,
             back |-> IF bcs.cmd = "LINE" THEN 0 ELSE back[engine]]
       ELSE NULL]
  /\ UNCHANGED <<results, color, back, sw_frame, GP_FRAME, PF_FRAME, GP_GCODE>>

LoadOrCall(a) ==
  /\ GP_GCODE' = IF bcs.cmd = "GCODE" THEN a[1] ELSE GP_GCODE
  /\ UNCHANGED <<results, color, back, sw_frame, GP_FRAME, PF_FRAME, drawn>>

Execute(a, s) ==
  /\ stash_address' = IF bcs.cmd = "DUMP" THEN dump_block(a[1]) ELSE s
  /\ \/ bcs.cmd = "FILE" /\ StartFile(a)
     \/ /\ Done(bcs)
        /\ \/ bcs.cmd = "STORE" /\ StoreValue(a)
           \/ bcs.cmd = "DUMP" /\ Dump(a)
           \/ bcs.cmd = "COPY" /\ Copy(a)
           \/ bcs.cmd = "FRAME" /\ SetFrame(a)
           \/ bcs.cmd \in {"COLOR", "BACK"} /\ SetColor(a)
           \/ bcs.cmd \in {"LINE", "ELIP", "RECT"} /\ Draw(a)
           \/ bcs.cmd \in {"JAL", "LOAD", "GCODE"} /\ LoadOrCall(a)

ReadArgument(t) ==
  /\ want # <<>>
  /\ LET addressed == Head(want) = Address
         value == IF addressed THEN tok_addr(t) ELSE tok_radnum(Head(want), t)
         cast == IF Head(want) = 2 /\ bcs.cmd # "STORE" THEN value % Wide(2) ELSE value
         a == Append(given, cast)
         s == IF addressed THEN value ELSE stash_address
     IN  IF Len(want) = 1 THEN Execute(a, s)
         ELSE /\ want' = Tail(want) /\ given' = a /\ stash_address' = s
              /\ UNCHANGED <<results, settings, bcs, last_bcs>>
  /\ commands' = commands

\* One turn of store_xor's loop: eight characters, a word.
ReadWord(v) ==
  /\ bcs.cmd = "FILE" /\ want = <<>>
  /\ mem' = Store(mem, p, 4, v) /\ p' = Plus(p, 4) /\ words' = words - 1 /\ xor' = ExclusiveOr(xor, v)
  /\ IF words = 1 THEN last_result' = ExclusiveOr(xor, v) /\ Done(bcs)
     ELSE UNCHANGED <<last_result, bcs, last_bcs, want, given>>
  /\ UNCHANGED <<stash_address, shown, moved, settings, commands>>

ConsoleNext ==
  \/ ContinueDump
  \/ \E input \in Inputs : ReadCommand(input)
  \/ \E t \in Typed : ReadArgument(t)
  \/ \E v \in Numbers : ReadWord(v)

ConsoleSpec == ConsoleInit /\ [][ConsoleNext]_consoleVars

-----------------------------------------------------------------------------
(* Properties.                                                             *)

Region(a, n) == {Plus(a, i) : i \in 0..(n - 1)}

Sum(m, a, count) ==
  LET sum[k \in Nat] == IF k = 0 THEN 0 ELSE ExclusiveOr(sum[k - 1], Load(m, Plus(a, 4 * (k - 1)), 4))
  IN  sum[count]

\* What "result" prints after a transfer is the exclusive or of the words the
\* transfer left in memory: after a file that came word by word, after a copy
\* onto its own source, after one that only sums, and 0 after a refused copy.
Checksum ==
  bcs = NULL /\ last_bcs.cmd \in {"FILE", "COPY"} => last_result = Sum(mem, moved.to, moved.count)

\* A command changes no byte but those its arguments name: a store its own, a
\* copy the words of its destination, a file the words from the one that holds
\* its address on.
WritesWhereTold ==
  [][\A x \in Word : mem'[x] # mem[x] =>
       \/ bcs.cmd = "STORE" /\ x \in Region(stash_address', bcs.flags)
       \/ bcs.cmd = "COPY" /\ given[2] # 0 /\ x \in Region(given[2], 4 * moved'.count)
       \/ bcs.cmd = "FILE" /\ x \in Region(AlignDown(given[1]), given[2])]_consoleVars

\* Returns after a dump print the memory in order, each block from where the
\* one before it stopped, also after one that was refused.
DumpsContinue == [][ContinueDump => shown'.from = Plus(shown.from, 4 * shown.count)]_consoleVars

\* "ff" has the feeder show, the processor draw in and the software draw in one
\* frame, given its number or its address; an address that lacks the top nibble
\* is the only one that does not.  Where the host's library accepts the same
\* number or address, the host shows and draws in that frame too.
FramesAgree ==
  [][bcs.cmd = "FRAME" /\ bcs.flags = {"pf", "hw", "sw"} /\ bcs' = NULL =>
       /\ (FRAME_BITS(PF_FRAME') = FrameField(sw_frame') /\ FRAME_BITS(GP_FRAME') = FrameField(sw_frame'))
            <=> (TopBits(PF_FRAME') # 0 \/ FrameField(PF_FRAME') = 0)
       /\ vizard_frame_index(PF_FRAME') # Refused =>
            /\ vizard_frame_index(PF_FRAME') = FrameField(sw_frame')
            /\ FRAME_BITS(GP_FRAME') = FrameField(sw_frame') =>
                 frame_number(frame_address(GP_FRAME')) = vizard_frame_index(PF_FRAME')]_consoleVars
=============================================================================
