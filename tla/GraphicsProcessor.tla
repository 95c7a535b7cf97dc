-------------------------- MODULE GraphicsProcessor -------------------------
(***************************************************************************)
(* The command processor of the GPU: it fetches the command list from DDR2 *)
(* a chunk at a time (DDRStage.v), walks through the words of each command *)
(* and hands them to the drawing engines.                                  *)
(*                                                                         *)
(* Edge is one edge of the clock.  Its parameters are the inputs of the    *)
(* module in that cycle.  A word of memory is what its top nibble says: an *)
(* opcode, "STOP" only when the whole word is zero and "BAD" for the rest. *)
(* What an engine captures is represented by the address of the word.      *)
(***************************************************************************)
EXTENDS Naturals

CONSTANTS
  ChunkWords,  \* 8 words are fetched at a time
  Chunks,      \* chunks of memory; code_chunk wraps
  Memories,    \* contents of the memory
  Frames

ASSUME ChunkAssumption == ChunkWords \in Nat \ {0, 1} /\ Chunks \in Nat \ {0}

VARIABLES
  cs_M, cs_S,
  frame_bits, code_chunk, code_index, fault_r, hot_GOP_reg,
  rdf_rden, halfvalid, chunk_valid,
  chunk,       \* number of the chunk asked for last: chunk_data is its words
  captured,    \* the argument registers of the engines
  job,         \* the command last triggered
  memory

gpVars == <<cs_M, cs_S, frame_bits, code_chunk, code_index, fault_r, hot_GOP_reg,
            rdf_rden, halfvalid, chunk_valid, chunk, captured, job, memory>>

Words == ChunkWords * Chunks
Draws == {"FILL", "LINE", "ELIP", "RECT"}
WithPoints == {"LINE", "ELIP", "RECT"}
WithBackground == {"ELIP", "RECT"}

ASSUME MemoriesAssumption ==
  Memories \subseteq [0..(Words - 1) -> Draws \union {"STOP", "BAD"}]
-----------------------------------------------------------------------------
(* Combinational signals; ready is ENGINES_ready. *)

Address == chunk * ChunkWords + code_index
INST == memory[Address]

hot_GOP_sel == cs_S = "TOP"
hot_GOP_cal == IF INST \in Draws THEN INST ELSE "STOP"
hot_GOP == IF hot_GOP_sel THEN hot_GOP_cal ELSE hot_GOP_reg

CMD_advance(ready) == chunk_valid /\ cs_M = "PROC" /\ ready
T_START(GP_vcode) == cs_M = "IDLE" /\ GP_vcode
T_STOPS(ready) == CMD_advance(ready) /\ hot_GOP_sel /\ hot_GOP = "STOP"

\* A point takes two cycles with the same word.
INST_advance(ready) == CMD_advance(ready) /\ cs_S \in {"TOP", "Y0", "YY", "XRGB"}
chunk_last(ready) == code_index = ChunkWords - 1 /\ INST_advance(ready)

ns_S ==
  CASE cs_S = "TOP"  -> IF hot_GOP \in WithPoints THEN "X0" ELSE "TOP"
    [] cs_S = "X0"   -> "Y0"
    [] cs_S = "Y0"   -> "XX"
    [] cs_S = "XX"   -> "YY"
    [] cs_S = "YY"   -> IF hot_GOP \in WithBackground THEN "XRGB" ELSE "TOP"
    [] cs_S = "XRGB" -> "TOP"

Bug_NextChunkNotAwaited(GP_vcode, ready) ==
  CASE cs_M = "RSET" -> IF rdf_rden THEN "RSET" ELSE "IDLE"
    [] cs_M = "IDLE" -> IF GP_vcode THEN "READ" ELSE "IDLE"
    [] cs_M = "READ" -> "PROC"
    [] cs_M = "PROC" -> IF T_STOPS(ready) THEN "RSET" ELSE "PROC"
ns_M(GP_vcode, ready) ==
  CASE cs_M = "RSET" -> IF rdf_rden THEN "RSET" ELSE "IDLE"
    [] cs_M = "IDLE" -> IF GP_vcode THEN "READ" ELSE "IDLE"
    [] cs_M = "READ" -> IF chunk_valid THEN "PROC" ELSE "READ"
    [] cs_M = "PROC" -> IF T_STOPS(ready) THEN "RSET"
                        ELSE IF chunk_last(ready) THEN "READ" ELSE "PROC"

Bug_ReadAfterStop(ready) ==
  /\ ~rdf_rden
  /\ (cs_M = "READ" /\ ~chunk_valid) \/ (cs_M = "PROC" /\ chunk_last(ready))
raf_wren(ready) ==
  /\ ~rdf_rden
  /\ \/ cs_M = "READ" /\ ~chunk_valid
     \/ cs_M = "PROC" /\ chunk_last(ready) /\ ~T_STOPS(ready)

\* Which argument the current word is, and whether it is the command's last.
Argument == [TOP |-> "color", X0 |-> "x0", Y0 |-> "y0", XX |-> "x1", YY |-> "y1",
             XRGB |-> "back"]
Triggers(ready) ==
  /\ CMD_advance(ready)
  /\ \/ cs_S = "TOP" /\ hot_GOP = "FILL"
     \/ cs_S = "YY" /\ hot_GOP = "LINE"
     \/ cs_S = "XRGB"
-----------------------------------------------------------------------------
(* The edge of the clock *)

\* The addresses a command list is started at, and how they move on.
CodeAddress(GP_vcode, GP_wcode, raf_full, ready) ==
  LET asked == raf_wren(ready) /\ ~raf_full
  IN  IF T_START(GP_vcode)
      THEN /\ code_chunk' = GP_wcode \div ChunkWords
           /\ code_index' = GP_wcode % ChunkWords
      ELSE /\ code_index' = IF INST_advance(ready) THEN (code_index + 1) % ChunkWords
                            ELSE code_index
           /\ code_chunk' = IF asked THEN (code_chunk + 1) % Chunks ELSE code_chunk

\* DDRStage gathers two beats into a chunk; it is held in reset while idle.
TakeBeat(rdf_wren) ==
  /\ IF rdf_wren
     THEN rdf_rden' = ~halfvalid /\ chunk_valid' = halfvalid /\ halfvalid' = TRUE
     ELSE UNCHANGED <<rdf_rden, chunk_valid, halfvalid>>
  /\ UNCHANGED chunk

DDRStage(raf_full, rdf_wren, ready) ==
  IF cs_M = "IDLE"
  THEN rdf_rden' = FALSE /\ chunk_valid' = FALSE /\ halfvalid' = FALSE /\ UNCHANGED chunk
  ELSE IF rdf_rden THEN TakeBeat(rdf_wren)
  ELSE IF raf_wren(ready)
  THEN /\ rdf_rden' = ~raf_full /\ chunk_valid' = FALSE /\ halfvalid' = FALSE
       /\ chunk' = IF raf_full THEN chunk ELSE code_chunk
  ELSE UNCHANGED <<rdf_rden, chunk_valid, halfvalid, chunk>>

\* The engine the command names captures the word; the last one triggers it.
Engines(ready) ==
  IF CMD_advance(ready) /\ hot_GOP # "STOP"
  THEN /\ captured' = [captured EXCEPT ![Argument[cs_S]] = Address]
       /\ job' = IF Triggers(ready)
                 THEN [op |-> hot_GOP, frame |-> frame_bits,
                       args |-> [a \in {b \in DOMAIN captured :
                                          \/ b = "color"
                                          \/ b # "back" /\ hot_GOP \in WithPoints
                                          \/ hot_GOP \in WithBackground} |-> captured'[a]]]
                 ELSE job
  ELSE UNCHANGED <<captured, job>>

Edge(GP_vcode, GP_wcode, GP_wframe, raf_full, rdf_wren, ready) ==
  /\ rdf_wren => rdf_rden
  /\ cs_M' = ns_M(GP_vcode, ready)
  /\ cs_S' = IF cs_M = "RSET" THEN "TOP" ELSE IF CMD_advance(ready) THEN ns_S ELSE cs_S
  /\ hot_GOP_reg' = IF CMD_advance(ready) /\ hot_GOP_sel THEN hot_GOP_cal ELSE hot_GOP_reg
  /\ fault_r' = IF T_START(GP_vcode) THEN FALSE
                ELSE IF CMD_advance(ready) /\ hot_GOP_sel /\ INST = "BAD" THEN TRUE ELSE fault_r
  /\ frame_bits' = IF T_START(GP_vcode) THEN GP_wframe ELSE frame_bits
  /\ CodeAddress(GP_vcode, GP_wcode, raf_full, ready)
  /\ DDRStage(raf_full, rdf_wren, ready)
  /\ Engines(ready)
  /\ UNCHANGED memory
-----------------------------------------------------------------------------
Init ==
  /\ cs_M = "RSET" /\ cs_S = "TOP" /\ memory \in Memories
  /\ frame_bits \in Frames /\ code_chunk = 0 /\ code_index = 0
  /\ fault_r = FALSE /\ hot_GOP_reg = "STOP"
  /\ rdf_rden = FALSE /\ halfvalid = FALSE /\ chunk_valid = FALSE /\ chunk = 0
  /\ captured = [a \in {"color", "x0", "y0", "x1", "y1", "back"} |-> 0]
  /\ job = [op |-> "NONE"]
-----------------------------------------------------------------------------
\* A read is never abandoned: DDRStage is held in reset while idle, and beats
\* that came then would be taken for those of the next command list.
NoReadWhenIdle == cs_M \in {"RSET", "IDLE"} => ~rdf_rden

\* The command list, as it stands in memory, is what the engines are given.
Running == cs_M \in {"READ", "PROC"}
Fetched == IF rdf_rden \/ chunk_valid THEN 1 ELSE 0
WordsDone == CASE cs_S = "TOP" -> 0
               [] cs_S \in {"X0", "Y0"} -> 1
               [] cs_S \in {"XX", "YY"} -> 2
               [] cs_S = "XRGB" -> 3
CommandAddress ==
  (((code_chunk + Chunks) - Fetched) * ChunkWords + code_index + Words - WordsDone) % Words

CommandsInOrder ==
  INSTANCE CommandList WITH running <- Running, frame <- frame_bits, fault <- fault_r,
    pc <- IF Running THEN CommandAddress ELSE 0
Finishes == CommandsInOrder!Spec
=============================================================================
