--------------------------- MODULE GraphicsProofs ---------------------------
(***************************************************************************)
(* The graphics hardware.  The credit counter of the pixel feeder is exact *)
(* and its FIFO does not overflow, for every size of the FIFO, target and  *)
(* beat.  The graphics processor keeps its reads, its engines and the scan *)
(* line runner in step and performs the command list in memory, for every  *)
(* size of a chunk and of the memory, every list, and any number of runs   *)
(* of pixels.                                                              *)
(***************************************************************************)
EXTENDS PixelFeeder, GPU, Integers, TLAPS

(* The graphics processor. *)

USE ChunkAssumption, MemoriesAssumption, RunAssumption

-----------------------------------------------------------------------------
(* The inductive invariant *)

Processor ==
  /\ memory \in Memories /\ frame_bits \in Frames
  /\ cs_M \in {"RSET", "IDLE", "READ", "PROC"} /\ cs_S \in DOMAIN Argument
  /\ code_chunk \in 0..(Chunks - 1) /\ chunk \in 0..(Chunks - 1)
  /\ code_index \in 0..(ChunkWords - 1)
  /\ fault_r \in BOOLEAN /\ rdf_rden \in BOOLEAN
  /\ halfvalid \in BOOLEAN /\ chunk_valid \in BOOLEAN
  /\ hot_GOP_reg \in Draws \union {"STOP"}
  /\ captured \in [CommandsInOrder!Arguments("RECT") -> 0..(Words - 1)]
  /\ job.op \in Draws \union {"NONE"} /\ (job.op \in Draws => job.frame \in Frames)

Neighbours ==
  /\ eng \in [Engine -> [cs : {"RSET", "IDLE", "PREP", "RUN", "NEXT"},
                         framebits : Frames \union {0}, left : 0..MaxRuns]]
  /\ \A e \in Engine : eng[e].cs \in {"PREP", "RUN"} => eng[e].left > 0
  /\ slr_M \in {"RSET", "IDLE", "DDR1", "DDR2"} /\ live_SLR \in Engine
  /\ pairs \in 0..MaxPairs /\ (Writing => pairs > 0)
  /\ run \in [frame : Frames \union {0}, current : BOOLEAN]

TypeOK == Processor /\ Neighbours

\* A read is under way only before the chunk it fills is needed, and the chunk
\* at hand is the one before the chunk to be asked for.
FetchInv ==
  /\ rdf_rden => cs_M = "READ" /\ ~chunk_valid
  /\ cs_M = "PROC" => chunk_valid
  /\ Running /\ (rdf_rden \/ chunk_valid) => code_chunk = (chunk + 1) % Chunks

\* The arguments a command has been given when it has come to each state.
Given ==
  [TOP |-> {}, X0 |-> {"color"}, Y0 |-> {"color", "x0"}, XX |-> {"color", "x0", "y0"},
   YY |-> {"color", "x0", "y0", "x1"}, XRGB |-> {"color", "x0", "y0", "x1", "y1"}]

\* A command begun is the one at its address, and what the engines have captured
\* of it are the words that follow.
CommandInv ==
  /\ cs_S # "TOP" =>
       /\ Running /\ hot_GOP_reg = memory[CommandAddress]
       /\ hot_GOP_reg \in WithPoints
  /\ cs_S = "XRGB" => hot_GOP_reg \in WithBackground
  /\ \A a \in Given[cs_S] :
       captured[a] = (CommandAddress + CommandsInOrder!Place[a]) % Words
  /\ Running => ~fault_r

\* An engine at work draws the command triggered last, in the list's frame.
WorkInv ==
  \A e \in Engine : AtWork(e) =>
    /\ Running /\ job.op \in Draws /\ EngineFor[job.op] = e
    /\ eng[e].framebits = job.frame /\ job.frame = frame_bits

\* A run accepted under the list now running is of that list's frame.
RunInv == run.current => run.frame = frame_bits /\ (Writing => RightFrame)

IInv == TypeOK /\ FetchInv /\ CommandInv /\ WorkInv /\ RunInv
-----------------------------------------------------------------------------
(* Remainders *)

LEMMA Divided ==
  ASSUME NEW n \in Nat \ {0}, NEW a \in Int
  PROVE  a % n \in 0..(n - 1) /\ \E q \in Int : a = n * q + (a % n)
<1>1. a \div n \in Int /\ a % n \in 0..(n - 1) /\ a = n * (a \div n) + (a % n)
  OBVIOUS
<1> QED BY <1>1

LEMMA Unique ==
  ASSUME NEW n \in Nat \ {0}, NEW q \in Int, NEW r \in 0..(n - 1)
  PROVE  (n * q + r) % n = r
OBVIOUS

LEMMA SumOfRemainder ==
  ASSUME NEW n \in Nat \ {0}, NEW a \in Int, NEW b \in Int
  PROVE  ((a % n) + b) % n = (a + b) % n
<1> DEFINE r == a % n
           s == (r + b) % n
<1>1. PICK p \in Int : a = n * p + r
  BY Divided
<1>2. r \in Int /\ r + b \in Int
  BY Divided
<1>3. (\E q \in Int : r + b = n * q + s) /\ s \in 0..(n - 1)
  BY <1>2, Divided
<1>4. PICK q \in Int : r + b = n * q + s
  BY <1>3
<1>5. /\ n * (p + q) = n * p + n * q /\ p + q \in Int
      /\ n * p \in Int /\ n * q \in Int
  OBVIOUS
<1>6. a + b = n * (p + q) + s
  <2> HIDE DEF r, s
  <2> QED BY <1>1, <1>2, <1>3, <1>4, <1>5
<1>7. (n * (p + q) + s) % n = s
  BY <1>3, <1>5, Unique
<1> QED BY <1>6, <1>7

LEMMA WholeTurns ==
  ASSUME NEW n \in Nat \ {0}, NEW a \in Int
  PROVE  (a + n) % n = a % n /\ (a + 2 * n) % n = a % n
<1>1. PICK q \in Int : a = n * q + (a % n)
  BY Divided
<1>2. n * (q + 1) = n * q + n /\ n * (q + 2) = n * q + 2 * n
  OBVIOUS
<1>3. a % n \in 0..(n - 1) /\ q + 1 \in Int /\ q + 2 \in Int
  BY Divided
<1>4. (n * (q + 1) + (a % n)) % n = a % n /\ (n * (q + 2) + (a % n)) % n = a % n
  BY <1>3, Unique
<1> QED BY <1>1, <1>2, <1>3, <1>4, SMTT(30)

LEMMA Within ==
  ASSUME NEW n \in Nat \ {0}, NEW a \in 0..(n - 1)
  PROVE  a % n = a
OBVIOUS

LEMMA OneMore ==
  ASSUME NEW n \in Nat \ {0}, NEW a \in 0..(n - 1)
  PROVE  (a + 1) % n = IF a + 1 = n THEN 0 ELSE a + 1
OBVIOUS
-----------------------------------------------------------------------------
(* Words and their chunks *)

\* The next word of the list that is looked at.
Position ==
  IF rdf_rden \/ chunk_valid THEN Address ELSE code_chunk * ChunkWords + code_index

LEMMA Size == Words \in Nat \ {0} /\ Words = ChunkWords * Chunks
<1>1. ChunkWords * 1 <= ChunkWords * Chunks
  OBVIOUS
<1> QED BY <1>1 DEF Words

\* A word of a chunk is a word of the memory; after the last one comes the first
\* word of the next chunk.
LEMMA WordOfChunk ==
  ASSUME NEW c \in 0..(Chunks - 1), NEW i \in 0..(ChunkWords - 1)
  PROVE  /\ c * ChunkWords + i \in 0..(Words - 1)
         /\ (c * ChunkWords + i + 1) % Words =
              IF i + 1 = ChunkWords THEN ((c + 1) % Chunks) * ChunkWords
              ELSE c * ChunkWords + (i + 1)
<1> DEFINE p == c * ChunkWords
<1>1. PICK d \in Nat : Chunks = c + 1 + d
  <2>1. Chunks - (c + 1) \in Nat /\ Chunks = c + 1 + (Chunks - (c + 1))
    OBVIOUS
  <2> QED BY <2>1
<1>2. ChunkWords * (c + 1 + d) = p + ChunkWords + ChunkWords * d /\ ChunkWords * d \in Nat
      /\ p \in Nat /\ (c + 1) * ChunkWords = p + ChunkWords /\ 0 * ChunkWords = 0
  OBVIOUS
<1>3. Words = p + ChunkWords + ChunkWords * d
  BY <1>1, <1>2, Size
<1>4. p + i \in 0..(Words - 1)
  <2> HIDE DEF p
  <2> QED BY <1>2, <1>3, Size
<1>5. (p + i + 1) % Words = IF p + i + 1 = Words THEN 0 ELSE p + i + 1
  BY <1>4, Size, OneMore
<1>6. CASE i + 1 # ChunkWords
  <2>1. p + i + 1 # Words /\ p + i + 1 = p + (i + 1)
    <3> HIDE DEF p
    <3> QED BY <1>2, <1>3, <1>6
  <2> QED BY <1>4, <1>5, <1>6, <2>1
<1>7. CASE i + 1 = ChunkWords /\ c + 1 = Chunks
  <2>1. d = 0 /\ ChunkWords * 0 = 0
    BY <1>1, <1>7
  <2>2. p + i + 1 = Words
    <3> HIDE DEF p
    <3> QED BY <1>2, <1>3, <1>7, <2>1
  <2>3. (c + 1) % Chunks = 0
    BY <1>7, OneMore
  <2> QED BY <1>2, <1>4, <1>5, <1>7, <2>2, <2>3
<1>8. CASE i + 1 = ChunkWords /\ c + 1 # Chunks
  <2>1. ChunkWords * d >= ChunkWords
    <3>1. d >= 1
      BY <1>1, <1>8
    <3>2. ChunkWords * 1 <= ChunkWords * d
      BY <3>1
    <3> QED BY <3>2
  <2>2. p + i + 1 # Words /\ p + i + 1 = (c + 1) * ChunkWords
    <3> HIDE DEF p
    <3> QED BY <1>2, <1>3, <1>8, <2>1
  <2>3. (c + 1) % Chunks = c + 1
    BY <1>8, OneMore
  <2> QED BY <1>4, <1>5, <1>8, <2>2, <2>3
<1> QED BY <1>6, <1>7, <1>8

\* A word before or after another is a word of the memory, and the way back
\* from it leads to the first one.
LEMMA Around ==
  ASSUME NEW a \in 0..(Words - 1), NEW k \in 0..3
  PROVE  /\ (a - k) % Words \in 0..(Words - 1) /\ (a + k) % Words \in 0..(Words - 1)
         /\ (((a - k) % Words) + k) % Words = a
         /\ (((a - k) % Words) + (k + 1)) % Words = (a + 1) % Words
         /\ (((a + 1) % Words) - (k + 1)) % Words = (a - k) % Words
<1> HIDE DEF Words
<1> USE Size
<1>1. /\ a - k \in Int /\ a + k \in Int /\ a + 1 \in Int
      /\ k \in Int /\ k + 1 \in Int /\ -(k + 1) \in Int
  OBVIOUS
<1>2. (a - k) % Words \in 0..(Words - 1) /\ (a + k) % Words \in 0..(Words - 1)
      /\ (a + 1) % Words \in 0..(Words - 1)
  BY <1>1, Divided
<1>3. (((a - k) % Words) + k) % Words = ((a - k) + k) % Words
  BY <1>1, SumOfRemainder
<1>4. (((a - k) % Words) + (k + 1)) % Words = ((a - k) + (k + 1)) % Words
  BY <1>1, SumOfRemainder
<1>5. (((a + 1) % Words) + (-(k + 1))) % Words = ((a + 1) + (-(k + 1))) % Words
  BY <1>1, SumOfRemainder
<1>6. /\ (a - k) + k = a /\ (a - k) + (k + 1) = a + 1
      /\ (a + 1) + (-(k + 1)) = a - k
  OBVIOUS
<1>7. (((a + 1) % Words) + (-(k + 1))) = ((a + 1) % Words) - (k + 1)
  BY <1>2
<1>8. a % Words = a
  BY Within
<1> QED BY <1>2, <1>3, <1>4, <1>5, <1>6, <1>7, <1>8
-----------------------------------------------------------------------------
(* The command processor *)

\* Where the command being performed begins.
LEMMA Here ==
  Processor /\ FetchInv /\ Running
    => /\ Position \in 0..(Words - 1) /\ WordsDone \in 0..3
       /\ CommandAddress = (Position - WordsDone) % Words
<1> SUFFICES ASSUME Processor, FetchInv, Running
             PROVE  /\ Position \in 0..(Words - 1) /\ WordsDone \in 0..3
                    /\ CommandAddress = (Position - WordsDone) % Words
  OBVIOUS
<1> USE Size
<1>1. WordsDone \in 0..3
  BY DEF WordsDone, Processor, Argument
<1>2. Position \in 0..(Words - 1)
  BY WordOfChunk DEF Position, Address, Processor
<1>3. /\ code_chunk \in Nat /\ chunk \in Nat /\ code_index \in Nat
      /\ code_chunk * ChunkWords \in Nat /\ chunk * ChunkWords \in Nat
      /\ (code_chunk + Chunks) * ChunkWords = code_chunk * ChunkWords + Words
  BY DEF Processor
<1>4. CASE ~(rdf_rden \/ chunk_valid)
  <2>1. ((code_chunk + Chunks) - Fetched) * ChunkWords = code_chunk * ChunkWords + Words
    BY <1>3, <1>4 DEF Fetched
  <2>2. ((code_chunk + Chunks) - Fetched) * ChunkWords + code_index + Words - WordsDone
          = (Position - WordsDone) + 2 * Words
    BY <1>1, <1>3, <1>4, <2>1 DEF Position
  <2>3. Position - WordsDone \in Int
    BY <1>1, <1>2
  <2> QED BY <1>1, <1>2, <2>2, <2>3, WholeTurns DEF CommandAddress
<1>5. CASE (rdf_rden \/ chunk_valid) /\ chunk + 1 # Chunks
  <2>1. code_chunk = chunk + 1
    BY <1>5, OneMore DEF FetchInv, Processor
  <2>2. ((code_chunk + Chunks) - Fetched) * ChunkWords = chunk * ChunkWords + Words
    <3>1. (code_chunk + Chunks) - Fetched = chunk + Chunks
      BY <1>3, <1>5, <2>1 DEF Fetched
    <3> QED BY <1>3, <3>1
  <2>3. ((code_chunk + Chunks) - Fetched) * ChunkWords + code_index + Words - WordsDone
          = (Position - WordsDone) + 2 * Words
    BY <1>1, <1>3, <1>5, <2>2 DEF Position, Address
  <2>4. Position - WordsDone \in Int
    BY <1>1, <1>2
  <2> QED BY <1>1, <1>2, <2>3, <2>4, WholeTurns DEF CommandAddress
<1>6. CASE (rdf_rden \/ chunk_valid) /\ chunk + 1 = Chunks
  <2>1. code_chunk = 0
    BY <1>6, OneMore DEF FetchInv, Processor
  <2>2. ((code_chunk + Chunks) - Fetched) * ChunkWords = chunk * ChunkWords
    <3>1. (code_chunk + Chunks) - Fetched = chunk
      BY <1>3, <1>6, <2>1 DEF Fetched
    <3> QED BY <3>1
  <2>3. ((code_chunk + Chunks) - Fetched) * ChunkWords + code_index + Words - WordsDone
          = (Position - WordsDone) + Words
    BY <1>1, <1>3, <1>6, <2>2 DEF Position, Address
  <2>4. Position - WordsDone \in Int
    BY <1>1, <1>2
  <2> QED BY <1>1, <1>2, <2>3, <2>4, WholeTurns DEF CommandAddress
<1> QED BY <1>1, <1>2, <1>4, <1>5, <1>6

\* The opcodes a word may be taken for.
LEMMA Opcode ==
  ASSUME Processor, FetchInv, cs_M = "PROC"
  PROVE  /\ Address = Position /\ INST = memory[Position]
         /\ INST \in Draws \union {"STOP", "BAD"}
         /\ hot_GOP_cal \in Draws \union {"STOP"} /\ hot_GOP \in Draws \union {"STOP"}
<1>1. Address = Position /\ INST = memory[Position]
  BY DEF FetchInv, Position, INST
<1>2. Position \in 0..(Words - 1)
  BY Here DEF Running
<1>3. memory \in [0..(Words - 1) -> Draws \union {"STOP", "BAD"}]
  BY DEF Processor
<1>4. INST \in Draws \union {"STOP", "BAD"}
  BY <1>1, <1>2, <1>3
<1> QED BY <1>1, <1>4 DEF hot_GOP_cal, hot_GOP, Processor

\* One edge of the clock of the processor: the inputs are any.
LEMMA FetchStep ==
  ASSUME Processor, FetchInv, CommandInv,
         NEW v \in BOOLEAN, NEW w \in 0..(Words - 1), NEW f \in Frames,
         NEW full \in BOOLEAN, NEW wren \in BOOLEAN, NEW ready \in BOOLEAN,
         Edge(v, w, f, full, wren, ready)
  PROVE  FetchInv'
<1> USE DEF Edge, CodeAddress, DDRStage, TakeBeat, Processor, FetchInv
<1>1. (rdf_rden => cs_M = "READ" /\ ~chunk_valid)'
  BY DEF ns_M, raf_wren, T_STOPS, chunk_last, INST_advance, CMD_advance
<1>2. (cs_M = "PROC" => chunk_valid)'
  BY DEF ns_M, raf_wren, T_STOPS, chunk_last, INST_advance, CMD_advance
<1>3. (Running /\ (rdf_rden \/ chunk_valid) => code_chunk = (chunk + 1) % Chunks)'
  <2>1. CASE cs_M \in {"RSET", "IDLE"}
    BY <2>1 DEF ns_M, Running
  <2>2. CASE Running /\ ~(raf_wren(ready) /\ ~full)
    BY <2>2 DEF Running, T_START
  <2>3. CASE Running /\ raf_wren(ready) /\ ~full
    BY <2>3 DEF Running, T_START, raf_wren
  <2> QED BY <2>1, <2>2, <2>3 DEF Running
<1> QED BY <1>1, <1>2, <1>3

\* The words are looked at in the order of their addresses, whatever the chunks
\* they are in, and the first one is that the list was started at.
LEMMA Advance ==
  ASSUME Processor, FetchInv, CommandInv,
         NEW v \in BOOLEAN, NEW w \in 0..(Words - 1), NEW f \in Frames,
         NEW full \in BOOLEAN, NEW wren \in BOOLEAN, NEW ready \in BOOLEAN,
         Edge(v, w, f, full, wren, ready)
  PROVE  /\ T_START(v) => Position' = w
         /\ Running /\ ~T_STOPS(ready)
              => Position' = IF INST_advance(ready) THEN (Position + 1) % Words
                             ELSE Position
<1> USE DEF Edge, CodeAddress, DDRStage, TakeBeat
<1>1. CASE T_START(v)
  <2>1. w = (w \div ChunkWords) * ChunkWords + (w % ChunkWords)
    OBVIOUS
  <2>2. ~rdf_rden' /\ ~chunk_valid'
    BY <1>1 DEF T_START
  <2> QED BY <1>1, <2>1, <2>2 DEF T_START, Position, Running
<1>2. CASE Running /\ ~INST_advance(ready)
  <2>1. ~chunk_last(ready) /\ ~T_START(v) /\ code_index' = code_index
    BY <1>2 DEF chunk_last, T_START, Running
  <2>2. CASE rdf_rden \/ chunk_valid
    <3>1. ~raf_wren(ready)
      BY <2>1, <2>2 DEF raf_wren, FetchInv
    <3>2. chunk' = chunk /\ (rdf_rden' \/ chunk_valid')
      BY <1>2, <2>2, <3>1 DEF Running, Processor
    <3> QED BY <1>2, <2>1, <2>2, <3>2 DEF Position, Address
  <2>3. CASE ~rdf_rden /\ ~chunk_valid /\ raf_wren(ready) /\ ~full
    BY <1>2, <2>1, <2>3 DEF Position, Address, Running, T_START
  <2>4. CASE ~rdf_rden /\ ~chunk_valid /\ ~(raf_wren(ready) /\ ~full)
    BY <1>2, <2>1, <2>4 DEF Position, Address, Running, T_START
  <2> QED BY <2>2, <2>3, <2>4
<1>3. CASE Running /\ INST_advance(ready) /\ ~T_STOPS(ready)
  <2>1. /\ cs_M = "PROC" /\ chunk_valid /\ ~rdf_rden /\ ~T_START(v)
        /\ Position = chunk * ChunkWords + code_index
        /\ code_chunk = (chunk + 1) % Chunks
        /\ code_index' = (code_index + 1) % ChunkWords
    BY <1>3 DEF INST_advance, CMD_advance, FetchInv, T_START, Position, Address, Running
  <2>2. (Position + 1) % Words =
          IF code_index + 1 = ChunkWords THEN code_chunk * ChunkWords
          ELSE chunk * ChunkWords + (code_index + 1)
    BY <2>1, WordOfChunk, ZenonT(30) DEF Processor
  <2>3. CASE code_index + 1 # ChunkWords
    <3>1. ~chunk_last(ready)
      BY <2>3 DEF chunk_last, Processor
    <3>2. ~raf_wren(ready) /\ code_index' = code_index + 1
      BY <2>1, <2>3, <3>1, OneMore DEF raf_wren, Processor
    <3>3. chunk' = chunk /\ chunk_valid'
      BY <2>1, <3>2
    <3> QED BY <1>3, <2>1, <2>2, <2>3, <3>2, <3>3 DEF Position, Address, T_START
  <2>4. CASE code_index + 1 = ChunkWords
    <3>1. code_index' = 0
      BY <2>1, <2>4, OneMore DEF Processor
    <3>2. code_chunk * ChunkWords + 0 = code_chunk * ChunkWords
      BY DEF Processor
    <3>3. CASE raf_wren(ready) /\ ~full
      <4>1. chunk' = code_chunk /\ rdf_rden'
        BY <2>1, <3>3
      <4> QED BY <1>3, <2>2, <2>4, <3>1, <3>2, <4>1, <2>1 DEF Position, Address
    <3>4. CASE raf_wren(ready) /\ full
      <4>1. code_chunk' = code_chunk /\ ~rdf_rden' /\ ~chunk_valid'
        BY <2>1, <3>4
      <4> QED BY <1>3, <2>2, <2>4, <3>1, <3>2, <4>1, <2>1 DEF Position, Address
    <3>5. CASE ~raf_wren(ready)
      BY <1>3, <2>1, <2>4, <3>5 DEF raf_wren, chunk_last, Processor
    <3> QED BY <3>3, <3>4, <3>5
  <2> QED BY <2>3, <2>4
<1> QED BY <1>1, <1>2, <1>3 DEF T_START, Running

LEMMA ProcessorStep ==
  ASSUME Processor, FetchInv, CommandInv,
         NEW v \in BOOLEAN, NEW w \in 0..(Words - 1), NEW f \in Frames,
         NEW full \in BOOLEAN, NEW wren \in BOOLEAN, NEW ready \in BOOLEAN,
         Edge(v, w, f, full, wren, ready)
  PROVE  Processor'
<1> USE DEF Edge
<1>1. memory' \in Memories /\ frame_bits' \in Frames
  BY DEF Processor
<1>2. cs_M' \in {"RSET", "IDLE", "READ", "PROC"}
  BY DEF Processor, ns_M
<1>3. cs_S' \in DOMAIN Argument
  BY DEF Processor, ns_S, Argument
<1>4. code_chunk' \in 0..(Chunks - 1) /\ code_index' \in 0..(ChunkWords - 1)
  <2>1. w \div ChunkWords \in 0..(Chunks - 1) /\ w % ChunkWords \in 0..(ChunkWords - 1)
    <3>1. /\ w = ChunkWords * (w \div ChunkWords) + (w % ChunkWords)
          /\ w \div ChunkWords \in Nat /\ w % ChunkWords \in 0..(ChunkWords - 1)
      BY Size
    <3>2. ASSUME w \div ChunkWords >= Chunks PROVE FALSE
      <4>1. PICK d \in Nat : w \div ChunkWords = Chunks + d
        <5>1. (w \div ChunkWords) - Chunks \in Nat
              /\ w \div ChunkWords = Chunks + ((w \div ChunkWords) - Chunks)
          BY <3>1, <3>2
        <5> QED BY <5>1
      <4>2. ChunkWords * (Chunks + d) = Words + ChunkWords * d /\ ChunkWords * d \in Nat
        BY Size
      <4> QED BY <3>1, <4>1, <4>2, Size
    <3> QED BY <3>1, <3>2
  <2>2. (code_chunk + 1) % Chunks \in 0..(Chunks - 1)
        /\ (code_index + 1) % ChunkWords \in 0..(ChunkWords - 1)
    <3>1. code_chunk + 1 \in Int /\ code_index + 1 \in Int
      BY DEF Processor
    <3> QED BY <3>1, Divided
  <2> QED BY <2>1, <2>2 DEF CodeAddress, Processor
<1>5. chunk' \in 0..(Chunks - 1)
  BY DEF DDRStage, TakeBeat, Processor
<1>6. fault_r' \in BOOLEAN
  BY DEF Processor
<1>7. rdf_rden' \in BOOLEAN /\ halfvalid' \in BOOLEAN /\ chunk_valid' \in BOOLEAN
  BY DEF DDRStage, TakeBeat, Processor
<1>8. hot_GOP_reg' \in Draws \union {"STOP"}
  BY DEF Processor, hot_GOP_cal
<1>9. captured' \in [CommandsInOrder!Arguments("RECT") -> 0..(Words - 1)]
  <2>1. Address \in 0..(Words - 1)
    BY WordOfChunk DEF Address, Processor
  <2> QED BY <2>1 DEF Engines, Processor
<1>10. job'.op \in Draws \union {"NONE"} /\ (job'.op \in Draws => job'.frame \in Frames)
  <2>1. CASE job' = job
    BY <2>1 DEF Processor
  <2>2. CASE Triggers(ready) /\ CMD_advance(ready) /\ hot_GOP # "STOP"
    <3>1. hot_GOP \in Draws
      BY <2>2, Opcode DEF CMD_advance
    <3>2. job'.op = hot_GOP /\ job'.frame = frame_bits
      BY <2>2 DEF Engines
    <3> QED BY <3>1, <3>2 DEF Processor
  <2> QED BY <2>1, <2>2 DEF Engines
<1> QED BY <1>1, <1>2, <1>3, <1>4, <1>5, <1>6, <1>7, <1>8, <1>9, <1>10 DEF Processor

\* What the current word is in its command, which begins at CommandAddress.
LEMMA Word ==
  ASSUME Processor, FetchInv, CommandInv, NEW ready \in BOOLEAN, CMD_advance(ready)
  PROVE  /\ hot_GOP = "STOP" <=> cs_S = "TOP" /\ memory[CommandAddress] \notin Draws
         /\ hot_GOP \in Draws => hot_GOP = memory[CommandAddress]
         /\ hot_GOP # "STOP" <=> hot_GOP \in Draws
         /\ T_STOPS(ready) <=> hot_GOP = "STOP"
         /\ cs_S = "TOP" => INST = memory[CommandAddress]
         /\ cs_S # "TOP" => hot_GOP = hot_GOP_reg
         /\ CommandAddress \in 0..(Words - 1)
         /\ Address = (CommandAddress + WordsDone) % Words
<1>1. Running /\ cs_M = "PROC"
  BY DEF CMD_advance, Running
<1>2. /\ Position \in 0..(Words - 1) /\ WordsDone \in 0..3
      /\ CommandAddress = (Position - WordsDone) % Words
  BY <1>1, Here
<1>3. /\ Address = Position /\ INST = memory[Position]
      /\ INST \in Draws \union {"STOP", "BAD"} /\ hot_GOP \in Draws \union {"STOP"}
  BY <1>1, Opcode
<1>4. CommandAddress \in 0..(Words - 1) /\ Address = (CommandAddress + WordsDone) % Words
  BY <1>2, <1>3, Around
<1>5. CASE cs_S = "TOP"
  <2>1. CommandAddress = Position
    <3>1. WordsDone = 0 /\ Position - 0 = Position
      BY <1>2, <1>5 DEF WordsDone
    <3> QED BY <1>2, <3>1, Size, Within
  <2> QED BY <1>3, <1>4, <1>5, <2>1 DEF hot_GOP, hot_GOP_sel, hot_GOP_cal, T_STOPS, Draws
<1>6. CASE cs_S # "TOP"
  <2>1. hot_GOP = hot_GOP_reg /\ hot_GOP_reg \in WithPoints
    BY <1>6 DEF hot_GOP, hot_GOP_sel, CommandInv
  <2> QED BY <1>4, <1>6, <2>1 DEF CommandInv, T_STOPS, hot_GOP_sel, Draws, WithPoints
<1> QED BY <1>5, <1>6

\* How the processor goes through a command: at first, then from word to word,
\* and on to the next command when the engine is triggered.
LEMMA CommandMoves ==
  ASSUME Processor, FetchInv, CommandInv,
         NEW v \in BOOLEAN, NEW w \in 0..(Words - 1), NEW f \in Frames,
         NEW full \in BOOLEAN, NEW wren \in BOOLEAN, NEW ready \in BOOLEAN,
         Edge(v, w, f, full, wren, ready)
  PROVE  /\ ~Running => cs_S' = "TOP" /\ (Running' <=> T_START(v))
         /\ T_START(v) => CommandAddress' = w
         /\ Running => (Running' <=> ~T_STOPS(ready))
         /\ T_STOPS(ready) => cs_S' = "TOP"
         /\ Running /\ Running' /\ ~Triggers(ready) =>
              CommandAddress' = CommandAddress
         /\ Triggers(ready) =>
              /\ Running /\ Running' /\ cs_S' = "TOP" /\ hot_GOP \in Draws
              /\ CommandAddress' = (CommandAddress + CommandsInOrder!Length[hot_GOP]) % Words
<1>0. /\ T_START(v) => Position' = w
      /\ Running /\ ~T_STOPS(ready)
           => Position' = IF INST_advance(ready) THEN (Position + 1) % Words ELSE Position
  BY Advance
<1> USE DEF Edge
<1>1. FetchInv' /\ Processor'
  BY FetchStep, ProcessorStep, ZenonT(30)
<1>2. Running' => /\ Position' \in 0..(Words - 1) /\ WordsDone' \in 0..3
                  /\ CommandAddress' = (Position' - WordsDone') % Words
  <2>1. (Processor /\ FetchInv /\ Running
           => /\ Position \in 0..(Words - 1) /\ WordsDone \in 0..3
              /\ CommandAddress = (Position - WordsDone) % Words)'
    BY Here, PTL
  <2> QED BY <1>1, <2>1
<1>3. ~Running => cs_S' = "TOP" /\ (Running' <=> T_START(v))
  BY DEF Running, ns_M, T_START, CommandInv, CMD_advance, Processor, FetchInv
<1>4. Running => (Running' <=> ~T_STOPS(ready))
  BY DEF Running, ns_M, T_STOPS, CMD_advance, Processor
<1>5. T_STOPS(ready) => cs_S' = "TOP"
  BY DEF T_STOPS, ns_S, hot_GOP_sel, WithPoints
<1>6. T_START(v) => CommandAddress' = w
  <2>1. SUFFICES ASSUME T_START(v) PROVE CommandAddress' = w
    OBVIOUS
  <2>2. Position' = w /\ Running' /\ cs_S' = "TOP"
    BY <1>0, <1>3, <2>1 DEF T_START, Running
  <2>3. WordsDone' = 0 /\ w - 0 = w
    BY <2>2 DEF WordsDone
  <2> QED BY <1>2, <2>2, <2>3, Size, Within
<1>7. CASE ~Running
  BY <1>3, <1>4, <1>5, <1>6, <1>7 DEF Triggers, CMD_advance, Running
<1>8. CASE Running /\ ~CMD_advance(ready)
  <2>1. ~T_STOPS(ready) /\ ~INST_advance(ready) /\ ~Triggers(ready) /\ cs_S' = cs_S
    BY <1>8 DEF T_STOPS, INST_advance, Triggers, Running
  <2>2. Position' = Position /\ WordsDone' = WordsDone
    <3>1. Position' = IF INST_advance(ready) THEN (Position + 1) % Words ELSE Position
      BY <1>0, <1>8, <2>1
    <3>2. WordsDone' = WordsDone
      BY <2>1 DEF WordsDone
    <3> QED BY <2>1, <3>1, <3>2
  <2>3. CommandAddress = (Position - WordsDone) % Words
    BY <1>8, Here
  <2> QED BY <1>2, <1>3, <1>4, <1>5, <1>6, <2>1, <2>2, <2>3
<1>9. CASE Running /\ CMD_advance(ready) /\ hot_GOP = "STOP"
  <2>1. T_STOPS(ready)
    BY <1>9, Word
  <2>2. ~Triggers(ready)
    BY <1>9, Word DEF Triggers
  <2> QED BY <1>3, <1>4, <1>5, <1>6, <2>1, <2>2
<1>10. CASE Running /\ CMD_advance(ready) /\ hot_GOP # "STOP"
  <2>1. hot_GOP \in Draws /\ ~T_STOPS(ready)
    BY <1>10, Word
  <2>2. Position' = IF INST_advance(ready) THEN (Position + 1) % Words ELSE Position
    BY <1>0, <1>10, <2>1
  <2>3. /\ Position \in 0..(Words - 1) /\ WordsDone \in 0..3
        /\ CommandAddress = (Position - WordsDone) % Words
    BY <1>10, Here
  <2>4. Running' /\ CommandAddress' = (Position' - WordsDone') % Words
    BY <1>2, <1>4, <1>10, <2>1
  <2>5. hot_GOP # hot_GOP_reg => cs_S = "TOP"
    BY DEF hot_GOP, hot_GOP_sel
  <2>6. CASE Triggers(ready)
    <3>1. /\ cs_S' = "TOP" /\ INST_advance(ready)
          /\ CommandsInOrder!Length[hot_GOP] = WordsDone + 1
      BY <1>10, <2>1, <2>5, <2>6
         DEF Triggers, INST_advance, ns_S, WordsDone, CommandInv, WithPoints, WithBackground,
             CommandsInOrder!Length
    <3>2. WordsDone' = 0 /\ ((Position + 1) % Words) - 0 = (Position + 1) % Words
      <4>1. WordsDone' = 0
        BY <3>1 DEF WordsDone
      <4>2. Position + 1 \in Int /\ (Position + 1) % Words \in Int
        BY <2>3, Size, Divided
      <4> QED BY <4>1, <4>2
    <3>3. CommandAddress' = (Position + 1) % Words
      <4>1. CommandAddress' = ((Position + 1) % Words) % Words
        BY <2>2, <2>4, <3>1, <3>2
      <4>2. (Position + 1) % Words \in 0..(Words - 1)
        BY <2>3, Size, Around
      <4> QED BY <4>1, <4>2, Size, Within
    <3>4. (CommandAddress + (WordsDone + 1)) % Words = (Position + 1) % Words
      BY <2>3, Around
    <3> QED BY <1>3, <1>4, <1>5, <1>6, <1>10, <2>1, <2>4, <2>6, <3>1, <3>3, <3>4
  <2>7. CASE ~Triggers(ready)
    <3>1. CASE INST_advance(ready)
      <4>1. WordsDone' = WordsDone + 1
        <5>1. cs_S \in {"TOP", "Y0", "YY"} /\ cs_S' = ns_S
          BY <1>10, <2>7, <3>1 DEF INST_advance, Triggers, CMD_advance
        <5>2. cs_S = "TOP" => hot_GOP \in WithPoints
          BY <1>10, <2>1, <2>7 DEF Triggers, Draws, WithPoints
        <5>3. cs_S = "YY" => hot_GOP \in WithBackground
          BY <1>10, <2>1, <2>5, <2>7 DEF Triggers, CommandInv, WithPoints, WithBackground
        <5> QED BY <5>1, <5>2, <5>3 DEF ns_S, WordsDone
      <4> QED BY <1>3, <1>4, <1>5, <1>6, <1>10, <2>2, <2>3, <2>4, <2>7, <3>1, <4>1, Around
    <3>2. CASE ~INST_advance(ready)
      <4>1. cs_S \in {"X0", "XX"} /\ cs_S' = ns_S
        BY <1>10, <3>2 DEF INST_advance, Processor, Argument, CMD_advance
      <4>2. WordsDone' = WordsDone
        BY <4>1 DEF WordsDone, ns_S
      <4> QED BY <1>3, <1>4, <1>5, <1>6, <1>10, <2>2, <2>3, <2>4, <2>7, <3>2, <4>2
    <3> QED BY <3>1, <3>2
  <2> QED BY <2>6, <2>7
<1> QED BY <1>7, <1>8, <1>9, <1>10

LEMMA CommandStep ==
  ASSUME Processor, FetchInv, CommandInv,
         NEW v \in BOOLEAN, NEW w \in 0..(Words - 1), NEW f \in Frames,
         NEW full \in BOOLEAN, NEW wren \in BOOLEAN, NEW ready \in BOOLEAN,
         Edge(v, w, f, full, wren, ready)
  PROVE  CommandInv'
<1>0. /\ ~Running => cs_S' = "TOP" /\ (Running' <=> T_START(v))
      /\ Running => (Running' <=> ~T_STOPS(ready))
      /\ T_STOPS(ready) => cs_S' = "TOP"
      /\ Running /\ Running' /\ ~Triggers(ready) => CommandAddress' = CommandAddress
      /\ Triggers(ready) => Running /\ Running' /\ cs_S' = "TOP" /\ hot_GOP \in Draws
  BY CommandMoves
<1> USE DEF Edge
<1>1. CASE ~Running
  <2>1. cs_S' = "TOP" /\ (Running' => ~fault_r')
    BY <1>0, <1>1
  <2> QED BY <2>1 DEF CommandInv, Given
<1>2. CASE T_STOPS(ready)
  <2>1. cs_S' = "TOP" /\ ~Running'
    BY <1>0, <1>2 DEF T_STOPS, CMD_advance, Running
  <2> QED BY <2>1 DEF CommandInv, Given
<1>3. CASE Triggers(ready)
  <2>1. cs_S' = "TOP" /\ Running /\ hot_GOP \in Draws
    BY <1>0, <1>3
  <2>2. ~fault_r'
    <3>1. ~fault_r /\ ~T_START(v)
      BY <2>1 DEF CommandInv, T_START, Running
    <3>2. hot_GOP_sel => INST # "BAD"
      BY <2>1 DEF hot_GOP, hot_GOP_cal, Draws
    <3> QED BY <3>1, <3>2
  <2> QED BY <2>1, <2>2 DEF CommandInv, Given
<1>4. CASE Running /\ ~CMD_advance(ready)
  <2>1. Running' /\ CommandAddress' = CommandAddress
    BY <1>0, <1>4 DEF T_STOPS, Triggers
  <2>2. cs_S' = cs_S /\ hot_GOP_reg' = hot_GOP_reg /\ captured' = captured
        /\ fault_r' = fault_r
    BY <1>4 DEF Running, Engines, T_START
  <2> QED BY <1>4, <2>1, <2>2 DEF CommandInv, Edge
<1>5. CASE Running /\ CMD_advance(ready) /\ ~T_STOPS(ready) /\ ~Triggers(ready)
  <2>1. Running' /\ CommandAddress' = CommandAddress /\ memory' = memory
    BY <1>0, <1>5
  <2>2. /\ hot_GOP \in Draws /\ hot_GOP = memory[CommandAddress]
        /\ cs_S = "TOP" => INST = memory[CommandAddress]
        /\ cs_S # "TOP" => hot_GOP = hot_GOP_reg
        /\ Address = (CommandAddress + WordsDone) % Words
    BY <1>5, Word
  <2>3. /\ hot_GOP_reg' = hot_GOP /\ cs_S' = ns_S
        /\ captured' = [captured EXCEPT ![Argument[cs_S]] = Address]
    <3>1. hot_GOP # "STOP" /\ cs_M # "RSET"
      BY <1>5, <2>2 DEF Draws, Running
    <3> QED BY <1>5, <2>2, <3>1 DEF Engines, hot_GOP, hot_GOP_sel
  <2>4. ~fault_r'
    <3>1. ~fault_r /\ ~T_START(v)
      BY <1>5 DEF CommandInv, T_START, Running
    <3>2. INST = "BAD" => cs_S # "TOP"
      BY <2>2 DEF Draws
    <3> QED BY <3>1, <3>2 DEF hot_GOP_sel
  <2>5. DOMAIN captured = {"color", "x0", "y0", "x1", "y1", "back"}
    BY DEF Processor, CommandsInOrder!Arguments, CommandsInOrder!Place,
           CommandsInOrder!Length
  <2>6. \A a \in Given[cs_S] :
          captured[a] = (CommandAddress + CommandsInOrder!Place[a]) % Words
    BY DEF CommandInv
  <2>7. \/ cs_S = "TOP" /\ hot_GOP \in WithPoints /\ ns_S = "X0" /\ WordsDone = 0
        \/ cs_S = "X0" /\ hot_GOP \in WithPoints /\ ns_S = "Y0" /\ WordsDone = 1
        \/ cs_S = "Y0" /\ hot_GOP \in WithPoints /\ ns_S = "XX" /\ WordsDone = 1
        \/ cs_S = "XX" /\ hot_GOP \in WithPoints /\ ns_S = "YY" /\ WordsDone = 2
        \/ cs_S = "YY" /\ hot_GOP \in WithBackground /\ ns_S = "XRGB" /\ WordsDone = 2
    <3>1. cs_S \in {"TOP", "X0", "Y0", "XX", "YY"}
      BY <1>5 DEF Processor, Argument, Triggers
    <3>2. cs_S = "TOP" => hot_GOP \in WithPoints
      BY <1>5, <2>2 DEF Triggers, Draws, WithPoints
    <3>3. cs_S # "TOP" => hot_GOP \in WithPoints
      BY <2>2 DEF CommandInv
    <3>4. cs_S = "YY" => hot_GOP \in WithBackground
      BY <1>5, <3>3 DEF Triggers, WithPoints, WithBackground
    <3>5. cs_S = "TOP" => ns_S = "X0" /\ WordsDone = 0
      BY <3>2 DEF ns_S, WordsDone
    <3>6. /\ cs_S = "X0" => ns_S = "Y0" /\ WordsDone = 1
          /\ cs_S = "Y0" => ns_S = "XX" /\ WordsDone = 1
          /\ cs_S = "XX" => ns_S = "YY" /\ WordsDone = 2
      BY DEF ns_S, WordsDone
    <3>7. cs_S = "YY" => ns_S = "XRGB" /\ WordsDone = 2
      BY <3>4 DEF ns_S, WordsDone
    <3> QED BY <3>1, <3>2, <3>3, <3>4, <3>5, <3>6, <3>7
  <2>8. \A a \in Given[cs_S'] :
          captured'[a] = (CommandAddress + CommandsInOrder!Place[a]) % Words
    BY <2>2, <2>3, <2>5, <2>6, <2>7 DEF Given, Argument, CommandsInOrder!Place
  <2>9. WithBackground \subseteq WithPoints
    BY DEF WithBackground, WithPoints
  <2> QED BY <2>1, <2>2, <2>3, <2>4, <2>7, <2>8, <2>9 DEF CommandInv
<1> QED BY <1>1, <1>2, <1>3, <1>4, <1>5
-----------------------------------------------------------------------------
(* The engines *)

\* One of the moves of each engine is made.
LEMMA Moved ==
  ASSUME EngineEdges
  PROVE  DOMAIN eng' = Engine /\ \A e \in Engine : eng'[e] \in NextOf(e)
<1>1. PICK ff \in NextOf("FF"), le \in NextOf("LE"), el \in NextOf("EL"), re \in NextOf("RE") :
        eng' = [FF |-> ff, LE |-> le, EL |-> el, RE |-> re]
  BY DEF EngineEdges
<1> QED BY <1>1 DEF Engine

\* What a move may do to an engine: it may be triggered, in the frame of the
\* list, or go on with its command, in the frame it has, or rest.
LEMMA EngineMove ==
  ASSUME Neighbours, NEW e \in Engine, NEW n \in NextOf(e)
  PROVE  /\ n \in [cs : {"RSET", "IDLE", "PREP", "RUN", "NEXT"},
                   framebits : {frame_bits, eng[e].framebits}, left : 0..MaxRuns]
         /\ n.cs \in {"PREP", "RUN"} => n.left > 0
         /\ Triggered(e) => n.framebits = frame_bits
         /\ ~Triggered(e) => n.framebits = eng[e].framebits
         /\ ~Triggered(e) /\ n.cs \notin {"IDLE", "RSET"} => AtWork(e)
<1>1. eng[e] \in [cs : {"RSET", "IDLE", "PREP", "RUN", "NEXT"},
                  framebits : Frames \union {0}, left : 0..MaxRuns]
  BY DEF Neighbours
<1>2. CASE Triggered(e)
  <2>1. PICK k \in 1..MaxRuns :
          n = [cs |-> IF e \in {"FF", "RE"} THEN "RUN" ELSE "PREP",
               framebits |-> frame_bits, left |-> k]
    BY <1>2 DEF NextOf, Started
  <2> QED BY <1>2, <2>1
<1>3. CASE ~Triggered(e) /\ Accepted(e)
  <2>1. PICK s \in AfterRun(e, eng[e].left - 1) :
          n = [eng[e] EXCEPT !.cs = s, !.left = @ - 1]
    BY <1>3 DEF NextOf
  <2>2. eng[e].cs = "RUN" /\ eng[e].left \in 1..MaxRuns
    BY <1>1, <1>3 DEF Accepted, SLR_valid, Neighbours
  <2>3. /\ s \in {"NEXT", "IDLE", "RUN", "RSET"}
        /\ s = "RUN" => eng[e].left - 1 # 0
    BY <2>1 DEF AfterRun
  <2>4. n = [cs |-> s, framebits |-> eng[e].framebits, left |-> eng[e].left - 1]
    BY <1>1, <2>1
  <2> QED BY <1>1, <1>3, <2>2, <2>3, <2>4 DEF AtWork
<1>4. CASE ~Triggered(e) /\ ~Accepted(e)
  <2>1. PICK s \in Moves(e) : n = [eng[e] EXCEPT !.cs = s]
    BY <1>4 DEF NextOf
  <2>2. n = [cs |-> s, framebits |-> eng[e].framebits, left |-> eng[e].left]
    BY <1>1, <2>1
  <2>3. /\ s \in {"RSET", "IDLE", "PREP", "RUN", "NEXT"}
        /\ s \notin {"IDLE", "RSET"} => AtWork(e)
        /\ s \in {"PREP", "RUN"} => eng[e].left > 0
    <3>1. CASE eng[e].cs = "RSET"
      BY <2>1, <3>1 DEF Moves
    <3>2. CASE eng[e].cs = "PREP"
      BY <2>1, <3>2 DEF Moves, AtWork, Neighbours
    <3>3. CASE eng[e].cs = "NEXT"
      <4>1. s \in AfterNext(e, eng[e].left)
        BY <2>1, <3>3 DEF Moves
      <4> QED BY <1>1, <3>3, <4>1 DEF AfterNext, AtWork
    <3>4. CASE eng[e].cs \in {"IDLE", "RUN"}
      BY <2>1, <3>4 DEF Moves, AtWork, Neighbours
    <3> QED BY <1>1, <3>1, <3>2, <3>3, <3>4
  <2> QED BY <1>1, <1>4, <2>2, <2>3
<1> QED BY <1>2, <1>3, <1>4

\* Only an idle engine is triggered, and only when all of them are.
LEMMA TriggeredAlone ==
  ASSUME IInv, Triggers(ENGINES_ready)
  PROVE  /\ \A e \in Engine : ~AtWork(e) /\ ~SLR_valid(e)
         /\ hot_GOP \in Draws /\ EngineFor[hot_GOP] \in Engine
<1>1. ENGINES_ready /\ CMD_advance(ENGINES_ready)
  BY DEF Triggers, CMD_advance
<1>2. \A e \in Engine : eng[e].cs = "IDLE"
  BY <1>1 DEF ENGINES_ready, Ready
<1>3. hot_GOP \in Draws
  <2>1. hot_GOP \in Draws \union {"STOP"}
    BY <1>1, Opcode DEF CMD_advance, IInv, TypeOK
  <2>2. cs_S \in {"TOP", "YY", "XRGB"} /\ (cs_S = "TOP" => hot_GOP = "FILL")
        /\ (cs_S # "TOP" => hot_GOP \in WithPoints)
    BY DEF Triggers, hot_GOP, hot_GOP_sel, IInv, CommandInv
  <2> QED BY <2>1, <2>2 DEF Draws, WithPoints
<1> QED BY <1>2, <1>3 DEF AtWork, SLR_valid, EngineFor, Engine, Draws

LEMMA WorkStep ==
  ASSUME IInv,
         NEW v \in BOOLEAN, NEW w \in 0..(Words - 1), NEW f \in Frames,
         NEW full \in BOOLEAN, NEW wren \in BOOLEAN,
         Edge(v, w, f, full, wren, ENGINES_ready), EngineEdges
  PROVE  WorkInv'
<1>1. /\ Running => (Running' <=> ~T_STOPS(ENGINES_ready))
      /\ Triggers(ENGINES_ready) => Running /\ Running' /\ hot_GOP \in Draws
  <2>1. ENGINES_ready \in BOOLEAN
    BY DEF ENGINES_ready
  <2> QED BY <2>1, CommandMoves DEF IInv, TypeOK
<1>2. SUFFICES ASSUME NEW e \in Engine, AtWork(e)'
               PROVE  /\ Running' /\ job'.op \in Draws /\ EngineFor[job'.op] = e
                      /\ eng'[e].framebits = job'.frame /\ job'.frame = frame_bits'
  BY DEF WorkInv
<1>3. /\ eng'[e] \in NextOf(e) /\ Neighbours
      /\ eng'[e].cs \notin {"IDLE", "RSET"}
  BY <1>2, Moved DEF AtWork, IInv, TypeOK
<1>4. /\ Triggered(e) => eng'[e].framebits = frame_bits
      /\ ~Triggered(e) => eng'[e].framebits = eng[e].framebits /\ AtWork(e)
  BY <1>3, EngineMove
<1>5. CASE Triggers(ENGINES_ready)
  <2>1. Triggered(e) /\ EngineFor[hot_GOP] = e
    BY <1>4, <1>5, TriggeredAlone DEF Triggered
  <2>2. job'.op = hot_GOP /\ job'.frame = frame_bits
    <3>1. hot_GOP # "STOP" /\ CMD_advance(ENGINES_ready)
      BY <1>1, <1>5 DEF Triggers, Draws
    <3> QED BY <1>5, <3>1 DEF Edge, Engines
  <2>3. frame_bits' = frame_bits
    BY <1>5 DEF Edge, T_START, Triggers, CMD_advance
  <2> QED BY <1>1, <1>4, <1>5, <2>1, <2>2, <2>3
<1>6. CASE ~Triggers(ENGINES_ready)
  <2>1. AtWork(e) /\ eng'[e].framebits = eng[e].framebits
    BY <1>4, <1>6 DEF Triggered
  <2>2. /\ Running /\ job.op \in Draws /\ EngineFor[job.op] = e
        /\ eng[e].framebits = job.frame /\ job.frame = frame_bits
    BY <2>1 DEF IInv, WorkInv
  <2>3. ~ENGINES_ready
    BY <2>1 DEF ENGINES_ready, Ready, AtWork
  <2>4. Running'
    BY <1>1, <2>2, <2>3 DEF T_STOPS, CMD_advance
  <2>5. job' = job /\ frame_bits' = frame_bits
    BY <1>6, <2>2 DEF Edge, Engines, T_START, Running
  <2> QED BY <2>1, <2>2, <2>4, <2>5
<1> QED BY <1>5, <1>6
-----------------------------------------------------------------------------
(* The scan line runner *)

LEMMA NeighboursStep ==
  ASSUME IInv, EngineEdges, Arbitrate, NEW full \in BOOLEAN, WriteRun(full),
         NEW v \in BOOLEAN, Remember(v)
  PROVE  Neighbours'
<1> USE DEF IInv, TypeOK
<1>1. eng' \in [Engine -> [cs : {"RSET", "IDLE", "PREP", "RUN", "NEXT"},
                           framebits : Frames \union {0}, left : 0..MaxRuns]]
      /\ \A e \in Engine : eng'[e].cs \in {"PREP", "RUN"} => eng'[e].left > 0
  <2>1. PICK ff \in NextOf("FF"), le \in NextOf("LE"), el \in NextOf("EL"), re \in NextOf("RE") :
          eng' = [FF |-> ff, LE |-> le, EL |-> el, RE |-> re]
    BY DEF EngineEdges
  <2>2. eng' = [e \in Engine |-> eng'[e]]
    BY <2>1 DEF Engine
  <2>3. ASSUME NEW e \in Engine
        PROVE  /\ eng'[e] \in [cs : {"RSET", "IDLE", "PREP", "RUN", "NEXT"},
                               framebits : Frames \union {0}, left : 0..MaxRuns]
               /\ eng'[e].cs \in {"PREP", "RUN"} => eng'[e].left > 0
    <3>1. /\ eng'[e] \in [cs : {"RSET", "IDLE", "PREP", "RUN", "NEXT"},
                          framebits : {frame_bits, eng[e].framebits}, left : 0..MaxRuns]
          /\ eng'[e].cs \in {"PREP", "RUN"} => eng'[e].left > 0
      BY Moved, EngineMove
    <3>2. frame_bits \in Frames /\ eng[e].framebits \in Frames \union {0}
      BY DEF Processor, Neighbours
    <3> QED BY <3>1, <3>2
  <2> QED BY <2>2, <2>3
<1>2. slr_M' \in {"RSET", "IDLE", "DDR1", "DDR2"} /\ live_SLR' \in Engine
  BY DEF WriteRun, slr_ns_M, Arbitrate, Neighbours
<1>3. pairs' \in 0..MaxPairs /\ (Writing' => pairs' > 0)
  <2>1. CASE Stalled(full)
    BY <2>1 DEF WriteRun, Neighbours, Writing
  <2>2. CASE ~Stalled(full) /\ Accepted(live_SLR)
    <3>1. pairs' \in 1..MaxPairs
      BY <2>2 DEF WriteRun, NextPairs
    <3> QED BY <3>1
  <2>3. CASE ~Stalled(full) /\ ~Accepted(live_SLR)
    <3>1. pairs' = IF slr_M = "DDR2" THEN pairs - 1 ELSE pairs
      BY <2>3 DEF WriteRun, NextPairs
    <3>2. slr_M' = slr_ns_M
      BY <2>3 DEF WriteRun
    <3>3. slr_M = "IDLE" => slr_M' = "IDLE"
      BY <2>3, <3>2 DEF slr_ns_M, Accepted, SLR_ready
    <3> QED BY <3>1, <3>2, <3>3 DEF slr_ns_M, Neighbours, Writing
  <2> QED BY <2>1, <2>2, <2>3
<1>4. run' \in [frame : Frames \union {0}, current : BOOLEAN]
  <2>1. CASE Accepted(live_SLR)
    <3>1. AtWork(live_SLR)
      BY <2>1 DEF Accepted, SLR_valid, AtWork
    <3>2. job.op \in Draws /\ job.frame \in Frames
      BY <3>1 DEF WorkInv, Neighbours, Processor
    <3> QED BY <2>1, <3>2 DEF Remember
  <2>2. CASE ~Accepted(live_SLR)
    BY <2>2 DEF Remember, Neighbours
  <2> QED BY <2>1, <2>2
<1> QED BY <1>1, <1>2, <1>3, <1>4 DEF Neighbours, Writing

\* While a run is written, its engine is not given another frame by the list
\* the run was accepted under.
LEMMA RunStep ==
  ASSUME IInv, NEW full \in BOOLEAN, NEW v \in BOOLEAN, NEW w, NEW f,
         NEW raf_full, NEW wren, Edge(v, w, f, raf_full, wren, ENGINES_ready),
         EngineEdges, Arbitrate, WriteRun(full), Remember(v)
  PROVE  RunInv'
<1> SUFFICES ASSUME run'.current
             PROVE  run'.frame = frame_bits' /\ (Writing' => RightFrame')
  BY DEF RunInv
<1>1. live_SLR \in Engine /\ Neighbours
  BY DEF IInv, TypeOK, Neighbours
<1>2. /\ Triggered(live_SLR) => eng'[live_SLR].framebits = frame_bits
      /\ ~Triggered(live_SLR) => eng'[live_SLR].framebits = eng[live_SLR].framebits
  BY <1>1, Moved, EngineMove
<1>3. CASE Accepted(live_SLR)
  <2>1. AtWork(live_SLR) /\ slr_M = "IDLE" /\ SLR_valid(live_SLR)
    BY <1>3 DEF Accepted, SLR_valid, SLR_ready, AtWork
  <2>2. /\ Running /\ job.frame = frame_bits /\ eng[live_SLR].framebits = job.frame
    BY <1>1, <2>1 DEF IInv, WorkInv
  <2>3. run'.frame = job.frame /\ frame_bits' = frame_bits
    BY <1>3, <2>2 DEF Remember, Edge, T_START, Running
  <2>4. live_SLR' = live_SLR
    BY <2>1 DEF Arbitrate
  <2>5. ~Triggered(live_SLR)
    BY <1>1, <2>1, TriggeredAlone DEF Triggered
  <2> QED BY <1>2, <2>2, <2>3, <2>4, <2>5 DEF RightFrame
<1>4. CASE ~Accepted(live_SLR)
  <2>1. run.current /\ run'.frame = run.frame /\ ~T_START(v)
    BY <1>1, <1>4 DEF Remember, Neighbours
  <2>2. run.frame = frame_bits /\ frame_bits' = frame_bits
    BY <2>1 DEF IInv, RunInv, Edge
  <2>3. ASSUME Writing' PROVE Writing /\ live_SLR' = live_SLR
    <3>1. slr_M \in {"RSET", "IDLE", "DDR1", "DDR2"}
      BY <1>1 DEF Neighbours
    <3>2. slr_M # "IDLE" /\ slr_M # "RSET"
      BY <1>4, <2>3, <3>1
         DEF Writing, WriteRun, Stalled, slr_ns_M, Accepted, SLR_ready
    <3> QED BY <3>1, <3>2 DEF Writing, Arbitrate
  <2>4. Writing' => RightFrame'
    <3>1. Writing => eng[live_SLR].framebits = frame_bits
      BY <2>1, <2>2 DEF IInv, RunInv, RightFrame
    <3> QED BY <1>2, <2>1, <2>2, <2>3, <3>1 DEF RightFrame
  <2> QED BY <2>1, <2>2, <2>4
<1> QED BY <1>3, <1>4
-----------------------------------------------------------------------------
(* The invariant and what it implies *)

LEMMA InitHolds == GPUInit => IInv
<1> SUFFICES ASSUME GPUInit PROVE IInv
  OBVIOUS
<1> USE DEF GPUInit, Init
<1>1. Processor
  <2>1. 0 \in 0..(Words - 1)
    BY Size
  <2>2. captured \in [CommandsInOrder!Arguments("RECT") -> 0..(Words - 1)]
    BY <2>1 DEF CommandsInOrder!Arguments, CommandsInOrder!Place, CommandsInOrder!Length
  <2>3. job.op \in Draws \union {"NONE"} /\ job.op \notin Draws
    BY DEF Draws
  <2>4. cs_S \in DOMAIN Argument
    BY DEF Argument
  <2>5. 0 \in 0..(Chunks - 1) /\ 0 \in 0..(ChunkWords - 1)
    OBVIOUS
  <2> QED BY <2>2, <2>3, <2>4, <2>5 DEF Processor
<1>2. Neighbours
  BY DEF Neighbours, Engine, Writing
<1>3. FetchInv /\ CommandInv
  BY DEF FetchInv, CommandInv, Running, Given
<1>4. WorkInv /\ RunInv
  BY DEF WorkInv, RunInv, AtWork
<1> QED BY <1>1, <1>2, <1>3, <1>4 DEF IInv, TypeOK

LEMMA EdgeHolds ==
  ASSUME IInv,
         NEW v \in BOOLEAN, NEW w \in 0..(Words - 1), NEW f \in Frames,
         NEW full \in BOOLEAN, NEW wren \in BOOLEAN, NEW slr_full \in BOOLEAN,
         GPUEdge(v, w, f, full, wren, slr_full)
  PROVE  IInv'
<1>1. /\ Edge(v, w, f, full, wren, ENGINES_ready)
      /\ EngineEdges /\ Arbitrate /\ WriteRun(slr_full) /\ Remember(v)
  BY DEF GPUEdge
<1>2. ENGINES_ready \in BOOLEAN /\ Processor /\ FetchInv /\ CommandInv
  BY DEF ENGINES_ready, IInv, TypeOK
<1>3. Processor' /\ FetchInv' /\ CommandInv'
  BY <1>1, <1>2, ProcessorStep, FetchStep, CommandStep
<1>4. Neighbours'
  BY <1>1, NeighboursStep
<1>5. WorkInv'
  BY <1>1, WorkStep
<1>6. RunInv'
  BY <1>1, RunStep
<1> QED BY <1>3, <1>4, <1>5, <1>6 DEF IInv, TypeOK

\* What every step of the processor is: an edge with some inputs.
LEMMA SomeEdge ==
  ASSUME IInv, GPUNext
  PROVE  \E v, full, wren, slr_full \in BOOLEAN, w \in 0..(Words - 1), f \in Frames :
           GPUEdge(v, w, f, full, wren, slr_full)
<1>1. PICK full, wren, slr_full \in BOOLEAN : GPUClock(full, wren, slr_full)
  BY DEF GPUNext
<1>2. frame_bits \in Frames /\ 0 \in 0..(Words - 1)
  BY Size DEF IInv, TypeOK, Processor
<1>3. CASE GPUEdge(FALSE, 0, frame_bits, full, wren, slr_full)
  BY <1>2, <1>3
<1>4. CASE \E w \in 0..(IF cs_M = "IDLE" THEN Words - 1 ELSE 0), f \in Frames :
             GPUEdge(TRUE, w, f, full, wren, slr_full)
  <2>1. PICK w \in 0..(IF cs_M = "IDLE" THEN Words - 1 ELSE 0), f \in Frames :
          GPUEdge(TRUE, w, f, full, wren, slr_full)
    BY <1>4
  <2>2. w \in 0..(Words - 1)
    BY Size
  <2> QED BY <2>1, <2>2
<1> QED BY <1>1, <1>3, <1>4 DEF GPUClock

LEMMA StepHolds == IInv /\ [GPUNext]_vars => IInv'
<1> SUFFICES ASSUME IInv, [GPUNext]_vars PROVE IInv'
  OBVIOUS
<1>1. CASE GPUNext
  BY <1>1, SomeEdge, EdgeHolds
<1>2. CASE UNCHANGED vars
  <2>1. UNCHANGED gpVars /\ UNCHANGED <<eng, slr_M, live_SLR, pairs, run>>
    BY <1>2 DEF vars
  <2>2. Processor'
    BY <2>1 DEF gpVars, IInv, TypeOK, Processor
  <2>3. Neighbours'
    BY <2>1 DEF IInv, TypeOK, Neighbours, Writing
  <2>4. FetchInv' /\ Running' = Running
    BY <2>1 DEF gpVars, IInv, FetchInv, Running
  <2>5. CommandAddress' = CommandAddress
    BY <2>1 DEF gpVars, CommandAddress, Fetched, WordsDone
  <2>6. CommandInv'
    BY <2>1, <2>4, <2>5 DEF gpVars, IInv, CommandInv
  <2>7. WorkInv' /\ RunInv'
    BY <2>1, <2>4 DEF gpVars, IInv, WorkInv, RunInv, AtWork, Writing, RightFrame
  <2> QED BY <2>2, <2>3, <2>4, <2>6, <2>7 DEF IInv, TypeOK
<1> QED BY <1>1, <1>2

LEMMA AlwaysIInv == GPUSpec => []IInv
BY InitHolds, StepHolds, PTL DEF GPUSpec

\* Type correctness of the processor, its engines and the scan line runner.
THEOREM TypeCorrect == GPUSpec => []TypeOK
<1>1. IInv => TypeOK
  BY DEF IInv
<1> QED BY <1>1, AlwaysIInv, PTL

\* A read is never abandoned: none is under way when the processor rests, so
\* that no beat of it can be taken for one of the next list.
THEOREM ReadsFinish == GPUSpec => []NoReadWhenIdle
<1>1. IInv => NoReadWhenIdle
  BY DEF IInv, FetchInv, NoReadWhenIdle
<1> QED BY <1>1, AlwaysIInv, PTL

\* One engine draws at a time, the command triggered last and in its frame, and
\* only while a list is being performed.
THEOREM DrawnInOrder == GPUSpec => []InOrder
<1>1. IInv => InOrder
  <2>1. ASSUME IInv, NEW d \in Engine, NEW e \in Engine, AtWork(d), AtWork(e)
        PROVE  d = e
    <3>1. EngineFor[job.op] = d /\ EngineFor[job.op] = e
      BY <2>1 DEF IInv, WorkInv
    <3> QED BY <3>1
  <2> QED BY <2>1 DEF IInv, WorkInv, InOrder
<1> QED BY <1>1, AlwaysIInv, PTL

\* A run is written to the frame of its command, at least until the next list
\* is started.
THEOREM RightFrameWithinList == GPUSpec => []FrameWithinList
<1>1. IInv => FrameWithinList
  BY DEF IInv, RunInv, FrameWithinList
<1> QED BY <1>1, AlwaysIInv, PTL
-----------------------------------------------------------------------------
(* The command list is performed as CommandList says. *)

\* The command an engine is given: the opcode at the address of the command,
\* the frame, and the words that follow as the arguments that opcode has.
LEMMA GivenCommand ==
  ASSUME IInv, NEW v, NEW w, NEW f, NEW full, NEW wren, NEW ready \in BOOLEAN,
         Edge(v, w, f, full, wren, ready), Triggers(ready)
  PROVE  /\ hot_GOP = memory[CommandAddress] /\ hot_GOP \in Draws
         /\ job' = CommandsInOrder!Command(hot_GOP, CommandAddress, frame_bits)
<1>1. CMD_advance(ready) /\ Running /\ cs_M = "PROC"
  BY DEF Triggers, CMD_advance, Running
<1>2. /\ hot_GOP \in Draws => hot_GOP = memory[CommandAddress]
      /\ hot_GOP # "STOP" <=> hot_GOP \in Draws
      /\ cs_S # "TOP" => hot_GOP = hot_GOP_reg
      /\ Address = (CommandAddress + WordsDone) % Words
  BY <1>1, Word DEF IInv, TypeOK
<1>3. \/ cs_S = "TOP" /\ hot_GOP = "FILL" /\ WordsDone = 0
      \/ cs_S = "YY" /\ hot_GOP = "LINE" /\ WordsDone = 2
      \/ cs_S = "XRGB" /\ hot_GOP \in WithBackground /\ WordsDone = 3
  BY <1>2 DEF Triggers, IInv, CommandInv, WordsDone
<1>4. hot_GOP \in Draws /\ hot_GOP # "STOP" /\ hot_GOP = memory[CommandAddress]
  BY <1>2, <1>3 DEF WithBackground, Draws
<1>5. DOMAIN captured = {"color", "x0", "y0", "x1", "y1", "back"}
  BY DEF IInv, TypeOK, Processor, CommandsInOrder!Arguments, CommandsInOrder!Place,
         CommandsInOrder!Length
<1>6. captured' = [captured EXCEPT ![Argument[cs_S]] = Address]
  BY <1>1, <1>4 DEF Edge, Engines
<1>7. \A a \in Given[cs_S] :
        captured[a] = (CommandAddress + CommandsInOrder!Place[a]) % Words
  BY DEF IInv, CommandInv
<1>8. {b \in DOMAIN captured : \/ b = "color"
                               \/ b # "back" /\ hot_GOP \in WithPoints
                               \/ hot_GOP \in WithBackground}
        = CommandsInOrder!Arguments(hot_GOP)
  BY <1>3, <1>5 DEF CommandsInOrder!Arguments, CommandsInOrder!Place,
    CommandsInOrder!Length, WithPoints, WithBackground
<1>9. \A a \in CommandsInOrder!Arguments(hot_GOP) :
        captured'[a] = (CommandAddress + CommandsInOrder!Place[a]) % Words
  <2>1. \A a \in CommandsInOrder!Arguments(hot_GOP) :
          (a \in Given[cs_S] /\ a # Argument[cs_S]) \/ a = Argument[cs_S]
    BY <1>3 DEF CommandsInOrder!Arguments, CommandsInOrder!Place, CommandsInOrder!Length,
      Given, Argument, WithBackground
  <2>2. CommandsInOrder!Place[Argument[cs_S]] = WordsDone /\ Argument[cs_S] \in DOMAIN captured
    BY <1>3, <1>5 DEF Argument, CommandsInOrder!Place
  <2>3. \A a \in CommandsInOrder!Arguments(hot_GOP) : a \in DOMAIN captured
    BY <1>5 DEF CommandsInOrder!Arguments, CommandsInOrder!Place
  <2> QED BY <1>2, <1>6, <1>7, <2>1, <2>2, <2>3
<1>10. job' = [op |-> hot_GOP, frame |-> frame_bits,
               args |-> [a \in CommandsInOrder!Arguments(hot_GOP) |-> captured'[a]]]
  <2>1. job' = [op |-> hot_GOP, frame |-> frame_bits,
                args |-> [a \in {b \in DOMAIN captured :
                                   \/ b = "color"
                                   \/ b # "back" /\ hot_GOP \in WithPoints
                                   \/ hot_GOP \in WithBackground} |-> captured'[a]]]
    BY <1>1, <1>4 DEF Edge, Engines
  <2> QED BY <1>8, <2>1
<1>11. [a \in CommandsInOrder!Arguments(hot_GOP) |-> captured'[a]]
         = [a \in CommandsInOrder!Arguments(hot_GOP) |->
              (CommandAddress + CommandsInOrder!Place[a]) % Words]
  BY <1>9
<1> QED BY <1>4, <1>10, <1>11 DEF CommandsInOrder!Command

\* An edge begins the list, draws a command, finishes, or is not seen.
LEMMA EdgeSimulates ==
  ASSUME IInv,
         NEW v \in BOOLEAN, NEW w \in 0..(Words - 1), NEW f \in Frames,
         NEW full \in BOOLEAN, NEW wren \in BOOLEAN, NEW ready \in BOOLEAN,
         Edge(v, w, f, full, wren, ready)
  PROVE  [CommandsInOrder!Next]_(CommandsInOrder!vars)
<1> DEFINE pc == IF Running THEN CommandAddress ELSE 0
<1>1. /\ ~Running => (Running' <=> T_START(v))
      /\ T_START(v) => CommandAddress' = w
      /\ Running => (Running' <=> ~T_STOPS(ready))
      /\ Running /\ Running' /\ ~Triggers(ready) => CommandAddress' = CommandAddress
      /\ Triggers(ready) =>
           /\ Running /\ Running' /\ hot_GOP \in Draws
           /\ CommandAddress' = (CommandAddress + CommandsInOrder!Length[hot_GOP]) % Words
  BY CommandMoves DEF IInv, TypeOK
<1>2. memory' = memory
  BY DEF Edge
<1>3. Running => ~fault_r
  BY DEF IInv, CommandInv
<1>4. CommandsInOrder!Draws = Draws
  BY DEF CommandsInOrder!Draws, CommandsInOrder!Length, Draws
<1>5. CASE T_START(v)
  <2>1. /\ ~Running /\ Running' /\ pc' = w /\ frame_bits' = f /\ fault_r' = FALSE
        /\ job' = job
    BY <1>1, <1>5 DEF T_START, Running, Edge, Engines, CMD_advance
  <2>2. CommandsInOrder!Begin(w, f)
    BY <1>2, <2>1 DEF CommandsInOrder!Begin
  <2> QED BY <2>2 DEF CommandsInOrder!Next
<1>6. CASE T_STOPS(ready)
  <2>1. CMD_advance(ready) /\ Running /\ ~T_START(v) /\ hot_GOP = "STOP" /\ cs_S = "TOP"
    BY <1>6 DEF T_STOPS, CMD_advance, Running, T_START, hot_GOP_sel
  <2>2. ~Running' /\ pc = CommandAddress /\ pc' = 0
    BY <1>1, <1>6, <2>1
  <2>3. memory[CommandAddress] \notin Draws /\ INST = memory[CommandAddress]
        /\ INST \in Draws \union {"STOP", "BAD"}
    BY <2>1, Word, Opcode DEF IInv, TypeOK, CMD_advance
  <2>4. fault_r' = (INST # "STOP") /\ frame_bits' = frame_bits /\ job' = job
    <3>1. fault_r' = IF INST = "BAD" THEN TRUE ELSE FALSE
      BY <1>3, <2>1 DEF Edge, hot_GOP_sel, IInv, TypeOK, Processor
    <3> QED BY <2>1, <2>3, <3>1 DEF Edge, Engines
  <2>5. CommandsInOrder!Finish
    BY <1>2, <1>4, <2>1, <2>2, <2>3, <2>4 DEF CommandsInOrder!Finish
  <2> QED BY <2>5 DEF CommandsInOrder!Next
<1>7. CASE Triggers(ready)
  <2>1. hot_GOP = memory[CommandAddress] /\ hot_GOP \in Draws
        /\ job' = CommandsInOrder!Command(hot_GOP, CommandAddress, frame_bits)
    BY <1>7, GivenCommand
  <2>2. Running /\ Running' /\ ~T_START(v) /\ frame_bits' = frame_bits
    BY <1>1, <1>7 DEF T_START, Running, Edge
  <2>3. fault_r' = fault_r
    <3>1. hot_GOP_sel => INST # "BAD"
      BY <2>1 DEF hot_GOP, hot_GOP_cal, Draws
    <3> QED BY <2>2, <3>1 DEF Edge
  <2>4. pc = CommandAddress
        /\ pc' = (CommandAddress + CommandsInOrder!Length[hot_GOP]) % Words
    BY <1>1, <1>7, <2>2
  <2>5. CommandsInOrder!Draw
    <3> HIDE DEF pc
    <3> QED BY <1>2, <1>4, <2>1, <2>2, <2>3, <2>4 DEF CommandsInOrder!Draw, pc
  <2> QED BY <2>5 DEF CommandsInOrder!Next
<1>8. CASE ~T_START(v) /\ ~T_STOPS(ready) /\ ~Triggers(ready)
  <2>1. Running' = Running /\ pc' = pc
    BY <1>1, <1>8 DEF Running
  <2>2. frame_bits' = frame_bits /\ job' = job
    BY <1>8 DEF Edge, Engines
  <2>3. fault_r' = fault_r
    <3>1. hot_GOP_sel /\ CMD_advance(ready) => INST # "BAD"
      BY <1>8 DEF hot_GOP, hot_GOP_cal, hot_GOP_sel, T_STOPS, Draws
    <3> QED BY <1>8, <3>1 DEF Edge
  <2> QED BY <1>2, <2>1, <2>2, <2>3 DEF CommandsInOrder!vars
<1> QED BY <1>5, <1>6, <1>7, <1>8

\* The processor performs the commands in memory as CommandList promises: in
\* their order from the address it was given, each with the words that follow
\* it and in the frame of the list, and stops where the list ends.
THEOREM ListPerformed ==
  GPUSpec => CommandsInOrder!Init /\ [][CommandsInOrder!Next]_(CommandsInOrder!vars)
<1>1. GPUInit => CommandsInOrder!Init
  BY DEF GPUInit, Init, CommandsInOrder!Init, CommandsInOrder!Nothing, Running
<1>2. IInv /\ [GPUNext]_vars => [CommandsInOrder!Next]_(CommandsInOrder!vars)
  <2> SUFFICES ASSUME IInv, [GPUNext]_vars
               PROVE  [CommandsInOrder!Next]_(CommandsInOrder!vars)
    OBVIOUS
  <2>1. CASE GPUNext
    <3>1. PICK v, full, wren, slr_full \in BOOLEAN, w \in 0..(Words - 1), f \in Frames :
            GPUEdge(v, w, f, full, wren, slr_full)
      BY <2>1, SomeEdge
    <3>2. Edge(v, w, f, full, wren, ENGINES_ready) /\ ENGINES_ready \in BOOLEAN
      BY <3>1 DEF GPUEdge, ENGINES_ready
    <3> QED BY <3>2, EdgeSimulates
  <2>2. CASE UNCHANGED vars
    BY <2>2 DEF vars, gpVars, CommandsInOrder!vars, Running, CommandAddress, Fetched,
      WordsDone
  <2> QED BY <2>1, <2>2
<1> QED BY <1>1, <1>2, AlwaysIInv, PTL DEF GPUSpec
-----------------------------------------------------------------------------
(* The pixel feeder. *)

\* The four-phase handshake goes round within the first pixels of a chunk.
HandshakeOrder ==
  \/ ~chunk_inc /\ ~chunk_inc_clkCPU /\ ~chunk_ack /\ ~chunk_ack_clkDVI
  \/ /\ chunk_inc /\ ~chunk_inc_clkCPU /\ ~chunk_ack /\ ~chunk_ack_clkDVI
     /\ count_dviread = 0 /\ since = 0
  \/ /\ chunk_inc /\ chunk_inc_clkCPU /\ ~chunk_ack /\ ~chunk_ack_clkDVI
     /\ count_dviread = 0 \/ (count_dviread = 1 /\ since = 0)
  \/ /\ chunk_inc /\ chunk_inc_clkCPU /\ chunk_ack /\ ~chunk_ack_clkDVI
     /\ count_dviread <= 1
  \/ /\ chunk_inc /\ chunk_inc_clkCPU /\ chunk_ack /\ chunk_ack_clkDVI
     /\ count_dviread <= 2
  \/ /\ ~chunk_inc /\ chunk_inc_clkCPU /\ chunk_ack /\ chunk_ack_clkDVI
     /\ count_dviread <= 3 /\ since = 0
  \/ /\ ~chunk_inc /\ ~chunk_inc_clkCPU /\ chunk_ack /\ chunk_ack_clkDVI
     /\ count_dviread <= 3 \/ (count_dviread = 4 /\ since = 0)
  \/ /\ ~chunk_inc /\ ~chunk_inc_clkCPU /\ ~chunk_ack /\ chunk_ack_clkDVI
     /\ count_dviread <= 4

FeederTypeOK ==
  /\ state \in {"IDLE", "FETCH"} /\ pend \in Nat
  /\ chunk_inc_clkCPU \in BOOLEAN /\ chunk_ack \in BOOLEAN
  /\ chunk_inc \in BOOLEAN /\ chunk_ack_clkDVI \in BOOLEAN
  /\ isRunning \in BOOLEAN /\ video_fault_cpu \in BOOLEAN
  /\ count_dviread \in 0..(Chunk - 1)
  /\ owed \in Nat /\ fifo \in Nat /\ underruns \in Nat /\ since \in Nat

\* A request is on its way out only if there is credit for it.
FetchHasCredit == underruns < Request => (state = "FETCH" => pend < Target)

FeederIInv == FeederTypeOK /\ HandshakeOrder /\ FetchHasCredit /\ CreditHolds /\ NeverOverflows

USE BeatAssumption, SizeAssumption, FrameAssumption
-----------------------------------------------------------------------------
(* Units *)

LEMMA Units ==
  /\ Request \in Nat /\ Request >= 4 /\ Request = 2 * Beat
  /\ Chunk \in Nat /\ Chunk = 2 * Request /\ Chunk >= 8
BY DEF Request, Chunk

LEMMA Distribute ==
  ASSUME NEW k \in Nat, NEW n \in Nat
  PROVE  /\ k * n \in Nat
         /\ k * (n + 1) = k * n + k /\ k * (n + 2) = k * n + 2 * k
         /\ n >= 1 => k * (n - 1) = k * n - k
         /\ n >= 2 => k * (n - 2) = k * n - 2 * k
OBVIOUS

\* A counter that is less has at most as many units.
LEMMA Monotone ==
  ASSUME NEW k \in Nat, NEW m \in Nat, NEW n \in Nat, m <= n
  PROVE  k * m <= k * n
<1>1. PICK d \in Nat : n = m + d
  <2>1. n - m \in Nat /\ n = m + (n - m)
    OBVIOUS
  <2> QED BY <2>1
<1>2. k * (m + d) = k * m + k * d /\ k * d \in Nat
  OBVIOUS
<1> QED BY <1>1, <1>2
-----------------------------------------------------------------------------
(* The edge of the CPU clock *)

LEMMA CpuHandshake ==
  ASSUME FeederIInv, NEW full \in BOOLEAN, NEW wren \in BOOLEAN, NEW f \in FrameChoices,
         CpuEdge(full, wren, f)
  PROVE  /\ HandshakeOrder'
         /\ chunk_edge => Uncounted /\ ~Uncounted'
         /\ ~chunk_edge => (Uncounted' <=> Uncounted)
<1>1. /\ chunk_inc_clkCPU' = chunk_inc /\ chunk_ack' = chunk_inc_clkCPU
      /\ chunk_inc' = chunk_inc /\ chunk_ack_clkDVI' = chunk_ack_clkDVI
      /\ count_dviread' = count_dviread
  BY DEF CpuEdge, dviVars
<1> QED BY <1>1 DEF FeederIInv, FeederTypeOK, HandshakeOrder, chunk_edge, Uncounted

LEMMA CpuType ==
  ASSUME FeederIInv, NEW full \in BOOLEAN, NEW wren \in BOOLEAN, NEW f \in FrameChoices,
         CpuEdge(full, wren, f)
  PROVE  FeederTypeOK'
<1>1. /\ chunk_inc_clkCPU' \in BOOLEAN /\ chunk_ack' \in BOOLEAN
      /\ chunk_inc' \in BOOLEAN /\ chunk_ack_clkDVI' \in BOOLEAN
      /\ isRunning' \in BOOLEAN
  BY DEF FeederIInv, FeederTypeOK, CpuEdge, dviVars
<1>2. video_fault_cpu' \in BOOLEAN
  BY Zenon DEF FeederIInv, FeederTypeOK, CpuEdge
<1>3. pend' \in Nat
  BY DEF FeederIInv, FeederTypeOK, CpuEdge, pend_next
<1>4. state' \in {"IDLE", "FETCH"}
  BY DEF CpuEdge, next_state
<1>5. owed' \in Nat /\ fifo' \in Nat /\ since' \in Nat
  BY DEF FeederIInv, FeederTypeOK, CpuEdge
<1>6. count_dviread' \in 0..(Chunk - 1) /\ underruns' \in Nat
  BY DEF FeederIInv, FeederTypeOK, CpuEdge, dviVars, Chunk, Request
<1> QED BY <1>1, <1>2, <1>3, <1>4, <1>5, <1>6 DEF FeederTypeOK

\* With its credit, what is owed fits into the FIFO.
LEMMA Room ==
  ASSUME FeederIInv, underruns < Request, owed > 0
  PROVE  FifoRoom
<1>1. Request * pend + underruns =
        fifo + Beat * owed + count_dviread + (IF Uncounted THEN Chunk ELSE 0)
  BY DEF FeederIInv, CreditHolds, Conservation
<1>2. Request * pend <= Request * Target /\ Request * Target + Request <= Request * Capacity
  <2>1. pend <= Target /\ Target + 1 <= Capacity
    BY DEF FeederIInv, CreditHolds
  <2> QED BY <2>1, Units, Monotone, Distribute DEF FeederIInv, FeederTypeOK
<1>3. Beat * owed >= Beat /\ Beat * owed \in Nat
  <2>1. Beat * 1 <= Beat * owed
    BY Monotone DEF FeederIInv, FeederTypeOK
  <2> QED BY <2>1 DEF FeederIInv, FeederTypeOK
<1>4. Request * pend \in Nat /\ Request * Target \in Nat /\ Request * Capacity \in Nat
      /\ Capacity * Request = Request * Capacity
  BY Units DEF FeederIInv, FeederTypeOK
<1> QED BY <1>1, <1>2, <1>3, <1>4, Units DEF FifoRoom, FeederIInv, FeederTypeOK

LEMMA CpuCredit ==
  ASSUME FeederIInv, NEW full \in BOOLEAN, NEW wren \in BOOLEAN, NEW f \in FrameChoices,
         CpuEdge(full, wren, f), underruns < Request
  PROVE  /\ Conservation' /\ pend' <= Target
         /\ state' = "FETCH" => pend' < Target
         /\ video_fault_cpu' = video_fault_cpu
<1> DEFINE advance == state = "FETCH" /\ ~full
<1>1. Request * pend + underruns =
        fifo + Beat * owed + count_dviread + (IF Uncounted THEN Chunk ELSE 0)
  BY DEF FeederIInv, CreditHolds, Conservation
<1>2. /\ pend \in Nat /\ owed \in Nat /\ fifo \in Nat /\ underruns \in Nat
      /\ count_dviread \in Nat /\ pend <= Target /\ (advance => pend < Target)
      /\ Request * pend \in Nat /\ Beat * owed \in Nat /\ (wren => owed > 0)
  BY Units DEF FeederIInv, FeederTypeOK, CreditHolds, FetchHasCredit, CpuEdge
<1>3. underruns' = underruns /\ count_dviread' = count_dviread
  BY DEF CpuEdge, dviVars
<1>4. /\ owed' = (owed + (IF advance THEN 2 ELSE 0)) - (IF wren THEN 1 ELSE 0)
      /\ fifo' = fifo + (IF wren THEN Beat ELSE 0)
      /\ video_fault_cpu' = video_fault_cpu
  <2>1. wren => owed > 0 /\ FifoRoom
    BY Room DEF CpuEdge
  <2>2. fifo' = fifo + (IF wren THEN Beat ELSE 0)
    BY <1>2, <2>1 DEF CpuEdge
  <2>3. video_fault_cpu' = video_fault_cpu
    <3>1. video_fault_cpu' = (video_fault_cpu \/ (wren /\ ~FifoRoom))
      BY DEF CpuEdge
    <3>2. video_fault_cpu \in BOOLEAN
      BY DEF FeederIInv, FeederTypeOK
    <3> QED BY <2>1, <3>1, <3>2
  <2>4. owed' = (owed + (IF advance THEN 2 ELSE 0)) - (IF wren THEN 1 ELSE 0)
    BY DEF CpuEdge
  <2> QED BY <2>2, <2>3, <2>4
<1>5. Beat * owed' = (Beat * owed + (IF advance THEN Request ELSE 0)) - (IF wren THEN Beat ELSE 0)
  BY <1>2, <1>4, Units, Distribute
<1>6. chunk_edge => pend >= 2
  <2>1. chunk_edge => Uncounted
    BY CpuHandshake
  <2>2. chunk_edge => Request * pend > Request
    BY <1>1, <1>2, <2>1, Units
  <2>3. Request * 1 = Request /\ (pend <= 1 => Request * pend <= Request * 1)
    BY <1>2, Units, Monotone
  <2> QED BY <1>2, <2>2, <2>3, Units
<1>7. /\ pend' = (pend + (IF advance THEN 1 ELSE 0)) - (IF chunk_edge THEN 2 ELSE 0)
      /\ pend' \in Nat /\ pend' <= Target
  <2>1. pend' = pend_next(advance)
    BY DEF CpuEdge
  <2>2. CASE chunk_edge
    BY <1>2, <1>6, <2>1, <2>2 DEF pend_next
  <2>3. CASE ~chunk_edge
    <3>1. pend + (IF advance THEN 1 ELSE 0) \in 0..(Wrap - 1)
      BY <1>2
    <3>2. \A n \in 0..(Wrap - 1) : n % Wrap = n
      OBVIOUS
    <3> QED BY <1>2, <2>1, <2>3, <3>1, <3>2 DEF pend_next
  <2> QED BY <2>2, <2>3
<1>8. state' = "FETCH" => pend' < Target
  BY <1>2, <1>7 DEF CpuEdge, next_state
<1>9. Request * pend' = (Request * pend + (IF advance THEN Request ELSE 0))
                          - (IF chunk_edge THEN Chunk ELSE 0)
  BY <1>2, <1>6, <1>7, Units, Distribute
<1>10. (IF Uncounted' THEN Chunk ELSE 0)
         = (IF Uncounted THEN Chunk ELSE 0) - (IF chunk_edge THEN Chunk ELSE 0)
  <2>1. CASE chunk_edge
    BY <2>1, CpuHandshake, Units
  <2>2. CASE ~chunk_edge
    BY <2>2, CpuHandshake, Units
  <2> QED BY <2>1, <2>2
<1>11. Request * pend' + underruns' =
         fifo' + Beat * owed' + count_dviread' + (IF Uncounted' THEN Chunk ELSE 0)
  BY <1>1, <1>2, <1>3, <1>4, <1>5, <1>9, <1>10, Units
<1>12. Conservation'
  BY <1>11 DEF Conservation, Request, Chunk
<1> QED BY <1>4, <1>7, <1>8, <1>12
-----------------------------------------------------------------------------
(* The edge of the display clock *)

LEMMA DviHandshake ==
  ASSUME FeederIInv, NEW ready \in BOOLEAN, DviEdge(ready)
  PROVE  /\ HandshakeOrder'
         /\ (ready /\ isRunning /\ count_dviread = Chunk - 1) => ~Uncounted /\ Uncounted'
         /\ ~(ready /\ isRunning /\ count_dviread = Chunk - 1) => (Uncounted' <=> Uncounted)
<1>1. /\ chunk_inc_clkCPU' = chunk_inc_clkCPU /\ chunk_ack' = chunk_ack
      /\ chunk_ack_clkDVI' = chunk_ack /\ since' = 0 /\ since > 0
  BY DEF DviEdge, cpuVars
<1>2. count_dviread \in 0..(Chunk - 1)
  BY DEF FeederIInv, FeederTypeOK
<1>3. CASE ready /\ isRunning
  <2>1. SignalChunk /\ count_dviread' = IF count_dviread = Chunk - 1 THEN 0 ELSE count_dviread + 1
    BY <1>3 DEF DviEdge, TakePixel, Following
  <2>2. CASE count_dviread = Chunk - 1
    BY <1>1, <1>2, <1>3, <2>1, <2>2, Units DEF FeederIInv, HandshakeOrder, SignalChunk, Uncounted
  <2>3. CASE count_dviread # Chunk - 1
    <3>1. count_dviread' = count_dviread + 1 /\ chunk_inc' = (chunk_inc /\ ~chunk_ack_clkDVI)
      BY <2>1, <2>3 DEF SignalChunk
    <3>2. count_dviread \in Nat
      BY <1>2, Units
    <3>3. CASE ~chunk_ack_clkDVI
      <4>1. chunk_inc' <=> chunk_inc
        BY <3>1, <3>3
      <4>2. /\ chunk_inc_clkCPU' <=> chunk_inc_clkCPU
            /\ chunk_ack' <=> chunk_ack
            /\ chunk_ack_clkDVI' <=> chunk_ack
        BY <1>1
      <4>3. /\ ~chunk_inc => ~chunk_inc_clkCPU /\ (chunk_ack => count_dviread <= 3)
            /\ chunk_inc /\ chunk_ack => chunk_inc_clkCPU /\ count_dviread <= 1
            /\ chunk_inc /\ ~chunk_ack => chunk_inc_clkCPU /\ count_dviread = 0
        BY <1>1, <3>2, <3>3 DEF FeederIInv, HandshakeOrder
      <4>4. HandshakeOrder'
        BY <1>1, <3>1, <3>2, <4>1, <4>2, <4>3 DEF HandshakeOrder
      <4> QED BY <2>3, <4>1, <4>2, <4>4 DEF Uncounted
    <3>4. CASE chunk_ack_clkDVI
      <4>1. ~chunk_inc'
        BY <3>1, <3>4
      <4>2. /\ chunk_inc_clkCPU' <=> chunk_inc_clkCPU
            /\ chunk_ack' <=> chunk_ack
            /\ chunk_ack_clkDVI' <=> chunk_ack
        BY <1>1
      <4>3. /\ chunk_inc => chunk_ack /\ chunk_inc_clkCPU /\ count_dviread <= 2
            /\ ~chunk_inc => ~chunk_inc_clkCPU /\ (chunk_ack => count_dviread <= 3)
        BY <1>1, <3>2, <3>4 DEF FeederIInv, HandshakeOrder
      <4>4. HandshakeOrder'
        BY <1>1, <3>1, <3>2, <4>1, <4>2, <4>3 DEF HandshakeOrder
      <4> QED BY <2>3, <4>1, <4>2, <4>3, <4>4 DEF Uncounted
    <3> QED BY <2>3, <3>3, <3>4
  <2> QED BY <2>2, <2>3
<1>4. CASE ~(ready /\ isRunning)
  <2>1. chunk_inc' = chunk_inc /\ count_dviread' = count_dviread
    BY <1>4 DEF DviEdge, TakePixel
  <2> QED BY <1>1, <1>2, <1>4, <2>1 DEF FeederIInv, FeederTypeOK, HandshakeOrder, Uncounted
<1> QED BY <1>3, <1>4

LEMMA DviType ==
  ASSUME FeederIInv, NEW ready \in BOOLEAN, DviEdge(ready)
  PROVE  FeederTypeOK' /\ underruns' >= underruns
<1>1. /\ chunk_inc_clkCPU' \in BOOLEAN /\ chunk_ack' \in BOOLEAN
      /\ chunk_ack_clkDVI' \in BOOLEAN /\ video_fault_cpu' \in BOOLEAN
      /\ state' \in {"IDLE", "FETCH"} /\ pend' \in Nat /\ owed' \in Nat /\ since' \in Nat
  BY DEF FeederIInv, FeederTypeOK, DviEdge, cpuVars
<1>2. chunk_inc' \in BOOLEAN
  BY DEF FeederIInv, FeederTypeOK, DviEdge, TakePixel, SignalChunk
<1>3. isRunning' \in BOOLEAN
  BY DEF FeederIInv, FeederTypeOK, DviEdge, StartRunning
<1>4. /\ count_dviread' \in 0..(Chunk' - 1) /\ fifo' \in Nat
      /\ underruns' \in Nat /\ underruns' >= underruns
  BY Units DEF FeederIInv, FeederTypeOK, DviEdge, TakePixel, Following, Chunk, Request
<1> QED BY <1>1, <1>2, <1>3, <1>4 DEF FeederTypeOK

LEMMA DviCredit ==
  ASSUME FeederIInv, NEW ready \in BOOLEAN, DviEdge(ready), underruns' < Request
  PROVE  Conservation'
<1>1. underruns < Request /\ underruns \in Nat /\ count_dviread \in 0..(Chunk - 1)
      /\ fifo \in Nat /\ Request * pend \in Nat /\ Beat * owed \in Nat
  BY DviType, Units DEF FeederIInv, FeederTypeOK
<1>2. Request * pend + underruns =
        fifo + Beat * owed + count_dviread + (IF Uncounted THEN Chunk ELSE 0)
  BY <1>1 DEF FeederIInv, CreditHolds, Conservation
<1>3. pend' = pend /\ owed' = owed
  BY DEF DviEdge, cpuVars
<1>4. Request * pend' + underruns' =
        fifo' + Beat * owed' + count_dviread' + (IF Uncounted' THEN Chunk ELSE 0)
  <2>1. CASE ready /\ isRunning
    <3>1. count_dviread' = IF count_dviread = Chunk - 1 THEN 0 ELSE count_dviread + 1
      BY <2>1 DEF DviEdge, TakePixel, Following
    <3>2. fifo' + underruns + 1 = fifo + underruns' /\ fifo' \in Nat /\ underruns' \in Nat
      BY <1>1, <2>1 DEF DviEdge, TakePixel
    <3>3. (IF Uncounted' THEN Chunk ELSE 0) + count_dviread'
            = (IF Uncounted THEN Chunk ELSE 0) + count_dviread + 1
      <4>1. CASE count_dviread = Chunk - 1
        <5>1. ~Uncounted /\ Uncounted'
          BY <2>1, <4>1, DviHandshake
        <5> QED BY <3>1, <4>1, <5>1, Units
      <4>2. CASE count_dviread # Chunk - 1
        <5>1. Uncounted' <=> Uncounted
          BY <4>2, DviHandshake
        <5>2. CASE Uncounted
          BY <1>1, <3>1, <4>2, <5>1, <5>2, Units
        <5>3. CASE ~Uncounted
          BY <1>1, <3>1, <4>2, <5>1, <5>3, Units
        <5> QED BY <5>2, <5>3
      <4> QED BY <4>1, <4>2
    <3>4. count_dviread' \in Nat /\ count_dviread \in Nat
      BY <1>1, <3>1, Units
    <3>5. PICK a \in Nat, b \in Nat, c \in Nat, x \in Nat, y \in Nat :
            /\ a = Request * pend /\ b = Beat * owed /\ c = count_dviread
            /\ x = (IF Uncounted THEN Chunk ELSE 0) /\ y = (IF Uncounted' THEN Chunk ELSE 0)
      BY <1>1, <3>4, Units
    <3>6. PICK u \in Nat, v \in Nat, f \in Nat, g \in Nat, d \in Nat :
            u = underruns /\ v = underruns' /\ f = fifo /\ g = fifo' /\ d = count_dviread'
      BY <1>1, <3>2, <3>4
    <3>7. a + u = f + b + c + x /\ g + u + 1 = f + v /\ y + d = x + c + 1
      BY <1>2, <3>2, <3>3, <3>5, <3>6
    <3>8. a + v = g + b + d + y
      BY <3>7
    <3> QED BY <1>3, <3>5, <3>6, <3>8
  <2>2. CASE ~(ready /\ isRunning)
    <3>1. fifo' = fifo /\ underruns' = underruns /\ count_dviread' = count_dviread
      BY <2>2 DEF DviEdge, TakePixel
    <3> QED BY <1>2, <1>3, <2>2, <3>1, DviHandshake
  <2> QED BY <2>1, <2>2
<1> QED BY <1>4 DEF Conservation, Request, Chunk
-----------------------------------------------------------------------------
LEMMA FeederInitHolds == FeederInit => FeederIInv
<1> SUFFICES ASSUME FeederInit PROVE FeederIInv
  OBVIOUS
<1>1. FeederTypeOK
  <2>1. count_dviread \in 0..(Chunk - 1)
    BY Units DEF FeederInit
  <2> QED BY <2>1 DEF FeederInit, FeederTypeOK
<1>2. Request * 0 = 0 /\ Beat * 0 = 0
  BY Units
<1>3. Conservation /\ pend <= Target
  BY <1>2 DEF FeederInit, Conservation, Uncounted
<1> QED BY <1>1, <1>3 DEF FeederInit, FeederIInv, HandshakeOrder, FetchHasCredit, CreditHolds, NeverOverflows

LEMMA FeederStepHolds ==
  ASSUME FeederIInv, [FeederNext]_feederVars
  PROVE  FeederIInv'
<1>1. CASE CpuClock
  <2>1. PICK full \in BOOLEAN, wren \in BOOLEAN, f \in FrameChoices : CpuEdge(full, wren, f)
    BY <1>1 DEF CpuClock
  <2>2. underruns' = underruns /\ Request' = Request
    BY <2>1 DEF CpuEdge, dviVars, Request
  <2>3. NeverOverflows'
    BY <2>1, <2>2, CpuCredit DEF FeederIInv, NeverOverflows
  <2> QED BY <2>1, <2>2, <2>3, CpuHandshake, CpuType, CpuCredit
        DEF FeederIInv, FetchHasCredit, CreditHolds
<1>2. CASE DviClock
  <2>1. PICK ready \in BOOLEAN : DviEdge(ready)
    BY <1>2 DEF DviClock
  <2>2. pend' = pend /\ state' = state /\ video_fault_cpu' = video_fault_cpu
    BY <2>1 DEF DviEdge, cpuVars
  <2>3. underruns' < Request' => underruns < Request
    BY <2>1, DviType, Units DEF FeederIInv, FeederTypeOK, Request
  <2> QED BY <2>1, <2>2, <2>3, DviHandshake, DviType, DviCredit
        DEF FeederIInv, FetchHasCredit, CreditHolds, NeverOverflows, Request
<1>3. CASE UNCHANGED feederVars
  BY <1>3 DEF feederVars, cpuVars, dviVars, FeederIInv, FeederTypeOK, HandshakeOrder, FetchHasCredit,
              CreditHolds, Conservation, NeverOverflows, Uncounted, Request, Chunk
<1> QED BY <1>1, <1>2, <1>3 DEF FeederNext

\* The credit counter is exact (pend, chunk_edge, the handshake with chunk_inc).
THEOREM InductiveInvariant == FeederSpec => []FeederIInv
<1> QED BY FeederInitHolds, FeederStepHolds, PTL DEF FeederSpec

\* The counter of the credit equals what it stands for and keeps to PIXFO_TARGET,
\* until a request's worth of pixels was missing.
THEOREM Credit == FeederSpec => []CreditHolds
<1>1. FeederIInv => CreditHolds
  BY DEF FeederIInv
<1> QED BY <1>1, InductiveInvariant, PTL

\* The memory delivers what was asked for without asking whether there is room:
\* there always is.
THEOREM NoOverflow == FeederSpec => []NeverOverflows
<1>1. FeederIInv => NeverOverflows
  BY DEF FeederIInv
<1> QED BY <1>1, InductiveInvariant, PTL
-----------------------------------------------------------------------------
(* The places of the pixels.  InPlace is inductive, given that no beat is    *)
(* dropped and that the counters stay within a frame.                        *)

Places == head \in 0..(FrameRequests - 1) /\ curPIX \in 0..(FramePixels - 1)

Shown == IF isRunning THEN curPIX ELSE 0

\* Two numbers have the same place in a frame when whole frames lie between.
LEMMA SamePlace ==
  ASSUME NEW n \in Nat \ {0}, NEW a \in Int, NEW b \in Int
  PROVE  a % n = b % n <=> \E q \in Int : a = b + n * q
<1>1. \A m \in Int : m % n \in 0..(n - 1) /\ \E p \in Int : m = n * p + (m % n)
  <2> SUFFICES ASSUME NEW m \in Int
               PROVE  m % n \in 0..(n - 1) /\ \E p \in Int : m = n * p + (m % n)
    OBVIOUS
  <2>1. m \div n \in Int /\ m % n \in 0..(n - 1) /\ m = n * (m \div n) + (m % n)
    OBVIOUS
  <2> QED BY <2>1
<1>2. PICK p \in Int : b = n * p + (b % n)
  BY <1>1
<1>3. b % n \in 0..(n - 1)
  BY <1>1
<1>4. ASSUME a % n = b % n PROVE \E q \in Int : a = b + n * q
  <2>1. PICK d \in Int : a = n * d + (a % n)
    BY <1>1
  <2>2. n * (d - p) = n * d - n * p /\ d - p \in Int /\ n * d \in Int /\ n * p \in Int
    OBVIOUS
  <2>3. PICK r \in Nat : r = b % n
    BY <1>3
  <2>4. a = b + n * (d - p)
    BY <1>2, <1>4, <2>1, <2>2, <2>3
  <2> QED BY <2>2, <2>4
<1>5. ASSUME NEW q \in Int, a = b + n * q PROVE a % n = b % n
  <2>1. n * (p + q) = n * p + n * q /\ p + q \in Int /\ n * q \in Int /\ n * p \in Int
    OBVIOUS
  <2>2. PICK r \in 0..(n - 1) : r = b % n
    BY <1>3
  <2>3. a = n * (p + q) + r
    BY <1>2, <1>5, <2>1, <2>2
  <2>4. (n * (p + q) + r) % n = r
    BY <2>1
  <2> QED BY <2>2, <2>3, <2>4
<1> QED BY <1>4, <1>5

LEMMA FrameSize ==
  /\ FramePixels \in Nat \ {0}
  /\ \A h \in Nat : h * Request \in Nat /\ (h + 1) * Request = h * Request + Request
  /\ ((FrameRequests - 1) * Request) + Request = FramePixels
<1>1. Request * 1 <= Request * FrameRequests
  BY Units, Monotone
<1>2. \A h \in Nat : h * Request \in Nat /\ (h + 1) * Request = h * Request + Request
  BY Units
<1>3. (FrameRequests - 1) \in Nat /\ (FrameRequests - 1) + 1 = FrameRequests
  OBVIOUS
<1> QED BY <1>1, <1>2, <1>3, Units DEF FramePixels

LEMMA PlacesStep == ASSUME FeederIInv, Places, [FeederNext]_feederVars PROVE Places'
<1>1. CASE CpuClock
  BY <1>1 DEF CpuClock, CpuEdge, AdvanceHead, Following, Places, dviVars, FramePixels, Request
<1>2. CASE DviClock
  <2>1. PICK ready \in BOOLEAN : DviEdge(ready)
    BY <1>2 DEF DviClock
  <2>2. FramePixels \in Nat \ {0} /\ FramePixels' = FramePixels
    BY FrameSize DEF FramePixels, Request
  <2> QED BY <2>1, <2>2 DEF DviEdge, Following, Places, cpuVars
<1>3. CASE UNCHANGED feederVars
  BY <1>3 DEF feederVars, cpuVars, dviVars, Places, FramePixels, Request
<1> QED BY <1>1, <1>2, <1>3 DEF FeederNext

\* A request moves the place of the next one and what is on the way alike, and
\* a beat that comes goes into the FIFO.
LEMMA CpuInPlace ==
  ASSUME FeederIInv, Places, InPlace, NEW full \in BOOLEAN, NEW wren \in BOOLEAN,
         NEW f \in FrameChoices, CpuEdge(full, wren, f)
  PROVE  InPlace'
<1> DEFINE advance == state = "FETCH" /\ ~full
<1> SUFFICES ASSUME underruns' = 0
             PROVE  (Shown' + fifo' + Beat * owed') % FramePixels
                      = (head' * Request) % FramePixels
  BY DEF InPlace, Shown, FramePixels, Request
<1>1. underruns = 0 /\ Shown' = Shown
  BY DEF CpuEdge, dviVars, Shown
<1>2. /\ Shown \in Nat /\ fifo \in Nat /\ owed \in Nat /\ head \in Nat
      /\ Beat * owed \in Nat /\ head * Request \in Nat /\ (wren => owed > 0)
  <2>1. /\ Shown \in Nat /\ fifo \in Nat /\ owed \in Nat /\ head \in Nat /\ (wren => owed > 0)
    BY FrameSize DEF FeederIInv, FeederTypeOK, Places, Shown, CpuEdge
  <2>2. \A n \in Nat : Beat * n \in Nat OBVIOUS
  <2> QED BY <2>1, <2>2, FrameSize
<1>3. (Shown + fifo + Beat * owed) % FramePixels = (head * Request) % FramePixels
  BY <1>1 DEF InPlace, Shown
<1>4. PICK q \in Int : Shown + fifo + Beat * owed = head * Request + FramePixels * q
  <2>1. Shown + fifo + Beat * owed \in Int /\ head * Request \in Int
    BY <1>2
  <2>2. FramePixels \in Nat \ {0}
    BY FrameSize
  <2> QED BY <1>3, <2>1, <2>2, SamePlace
<1>5. /\ owed' = (owed + (IF advance THEN 2 ELSE 0)) - (IF wren THEN 1 ELSE 0)
      /\ fifo' = fifo + (IF wren THEN Beat ELSE 0)
  <2>1. wren => owed > 0 /\ FifoRoom
    BY <1>1, Room, Units DEF CpuEdge
  <2>2. fifo' = fifo + (IF wren THEN Beat ELSE 0)
    BY <1>2, <2>1 DEF CpuEdge
  <2>3. owed' = (owed + (IF advance THEN 2 ELSE 0)) - (IF wren THEN 1 ELSE 0)
    BY DEF CpuEdge
  <2> QED BY <2>2, <2>3
<1>6. Beat * owed' = (Beat * owed + (IF advance THEN Request ELSE 0)) - (IF wren THEN Beat ELSE 0)
  BY <1>2, <1>5, Units, Distribute
<1>7. Shown' + fifo' + Beat * owed'
        = head * Request + FramePixels * q + (IF advance THEN Request ELSE 0)
  <2>1. PICK z \in Int : z = FramePixels * q
    BY FrameSize
  <2>2. PICK b \in Nat, c \in Nat, h \in Nat, s \in Nat :
          b = Beat * owed /\ c = Beat * owed' /\ h = head * Request /\ s = Shown
    <3>1. owed' \in Nat
      BY <1>2, <1>5
    <3>2. Beat * owed' \in Nat
      BY <3>1, Distribute
    <3> QED BY <1>2, <3>2
  <2>3. /\ s + fifo + b = h + z
        /\ c = (b + (IF advance THEN Request ELSE 0)) - (IF wren THEN Beat ELSE 0)
    BY <1>4, <1>6, <2>1, <2>2
  <2>4. s + fifo' + c = h + z + (IF advance THEN Request ELSE 0)
    BY <1>2, <1>5, <2>3, Units
  <2> QED BY <1>1, <2>1, <2>2, <2>4
<1>8. head' * Request = head * Request + (IF advance THEN Request ELSE 0)
      \/ head' * Request + FramePixels = head * Request + (IF advance THEN Request ELSE 0)
  <2>1. CASE ~advance
    BY <1>2, <2>1 DEF CpuEdge
  <2>2. CASE advance /\ head # FrameRequests - 1
    <3>1. head' = head + 1
      BY <2>2 DEF CpuEdge, AdvanceHead, Following
    <3> QED BY <1>2, <2>2, <3>1, FrameSize
  <2>3. CASE advance /\ head = FrameRequests - 1
    <3>1. head' = 0 /\ 0 * Request = 0
      BY <2>3, Units DEF CpuEdge, AdvanceHead, Following
    <3> QED BY <2>3, <3>1, FrameSize
  <2> QED BY <2>1, <2>2, <2>3
<1>9. head' \in Nat /\ head' * Request \in Nat
      /\ (Shown' + fifo' + Beat * owed') \in Int
  <2>1. Places'
    BY PlacesStep DEF FeederNext, CpuClock
  <2>2. head' \in Nat /\ Shown' \in Nat
    BY <1>1, <1>2, <2>1 DEF Places
  <2>3. fifo' \in Nat /\ owed' \in Nat
    BY <1>2, <1>5
  <2>4. \A n \in Nat : Beat * n \in Nat OBVIOUS
  <2>5. head' * Request \in Nat BY <2>2, FrameSize
  <2> QED BY <2>2, <2>3, <2>4, <2>5
<1>10. \E p \in Int : Shown' + fifo' + Beat * owed' = head' * Request + FramePixels * p
  <2>1. FramePixels * (q + 1) = FramePixels * q + FramePixels /\ FramePixels * q \in Int
        /\ q + 1 \in Int
    BY FrameSize
  <2>2. PICK z \in Int, h \in Nat, k \in Nat, t \in Int :
          /\ z = FramePixels * q /\ h = head * Request /\ k = head' * Request
          /\ t = Shown' + fifo' + Beat * owed'
    BY <1>2, <1>9, <2>1
  <2>3. t = h + z + (IF advance THEN Request ELSE 0)
    BY <1>7, <2>2
  <2>4. CASE k = h + (IF advance THEN Request ELSE 0)
    <3>1. t = k + z
      BY <2>3, <2>4, Units
    <3> QED BY <2>2, <3>1
  <2>5. CASE k + FramePixels = h + (IF advance THEN Request ELSE 0)
    <3>1. t = k + (z + FramePixels)
      BY <2>3, <2>5, Units, FrameSize
    <3> QED BY <2>1, <2>2, <3>1
  <2> QED BY <1>8, <2>2, <2>4, <2>5
<1>11. FramePixels \in Nat \ {0} /\ head' * Request \in Int
  BY <1>9, FrameSize
<1> QED BY <1>9, <1>10, <1>11, SamePlace

\* The display takes the pixel of the place it shows, or none; it starts to take
\* pixels at the place the first one is for.
LEMMA DviInPlace ==
  ASSUME FeederIInv, Places, InPlace, NEW ready \in BOOLEAN, DviEdge(ready)
  PROVE  InPlace'
<1> SUFFICES ASSUME underruns' = 0
             PROVE  (Shown' + fifo' + Beat * owed') % FramePixels
                      = (head' * Request) % FramePixels
  BY DEF InPlace, Shown, FramePixels, Request
<1>1. underruns = 0 /\ head' = head /\ owed' = owed
  <2>1. underruns \in Nat /\ underruns' >= underruns
    BY DviType DEF FeederIInv, FeederTypeOK
  <2> QED BY <2>1 DEF DviEdge, cpuVars
<1>2. /\ Shown \in Nat /\ fifo \in Nat /\ owed \in Nat /\ head \in Nat
      /\ Beat * owed \in Nat /\ head * Request \in Nat
      /\ curPIX \in 0..(FramePixels - 1) /\ FramePixels \in Nat \ {0}
  <2>1. /\ Shown \in Nat /\ fifo \in Nat /\ owed \in Nat /\ head \in Nat
        /\ curPIX \in 0..(FramePixels - 1)
    BY FrameSize DEF FeederIInv, FeederTypeOK, Places, Shown
  <2>2. \A n \in Nat : Beat * n \in Nat OBVIOUS
  <2> QED BY <2>1, <2>2, FrameSize
<1>3. (Shown + fifo + Beat * owed) % FramePixels = (head * Request) % FramePixels
  BY <1>1 DEF InPlace, Shown
<1>4. CASE ready /\ isRunning
  <2>1. fifo' = fifo - 1 /\ fifo > 0
    BY <1>1, <1>2, <1>4 DEF DviEdge, TakePixel
  <2>2. /\ Shown = curPIX /\ isRunning'
        /\ Shown' = IF curPIX = FramePixels - 1 THEN 0 ELSE curPIX + 1
    BY <1>4 DEF DviEdge, Shown, StartRunning, Following
  <2>3. PICK b \in Nat : b = Beat * owed
    BY <1>2
  <2>4. CASE curPIX # FramePixels - 1
    <3>1. Shown' + fifo' + b = Shown + fifo + b
      BY <1>2, <2>1, <2>2, <2>3, <2>4
    <3> QED BY <1>1, <1>3, <2>3, <3>1
  <2>5. CASE curPIX = FramePixels - 1
    <3>1. Shown + fifo + b = (Shown' + fifo' + b) + FramePixels * 1
      BY <1>2, <2>1, <2>2, <2>3, <2>5
    <3>2. Shown + fifo + b \in Int /\ Shown' + fifo' + b \in Int /\ 1 \in Int
      BY <1>2, <2>1, <2>2, <2>3, <2>5
    <3>3. \E q \in Int : Shown + fifo + b = (Shown' + fifo' + b) + FramePixels * q
      BY <3>1, <3>2, Zenon
    <3>4. (Shown + fifo + b) % FramePixels = (Shown' + fifo' + b) % FramePixels
      BY <1>2, <3>2, <3>3, SamePlace, Zenon
    <3> QED BY <1>1, <1>3, <2>3, <3>4
  <2> QED BY <2>4, <2>5
<1>5. CASE ready /\ ~isRunning
  <2>1. fifo' = fifo
    BY <1>5 DEF DviEdge, TakePixel
  <2>2. Shown = 0 /\ Shown' = 0
    BY <1>5 DEF DviEdge, Shown, StartRunning, Following
  <2> QED BY <1>1, <1>3, <2>1, <2>2
<1>6. CASE ~ready
  <2>1. fifo' = fifo /\ Shown' = Shown
    BY <1>6 DEF DviEdge, Shown
  <2> QED BY <1>1, <1>3, <2>1
<1> QED BY <1>4, <1>5, <1>6

\* The pixel at the head of the FIFO is the one of the place the display is at:
\* AdvanceHead, the credit, FifoRoom and the start at a frame's first pixel keep
\* the two counts of a frame together.
THEOREM PixelsInPlace == FeederSpec => []InPlace
<1>1. FeederInit => Places /\ InPlace
  <2> SUFFICES ASSUME FeederInit PROVE Places /\ InPlace
    OBVIOUS
  <2>1. Places
    BY FrameSize DEF FeederInit, Places
  <2>2. Beat * 0 = 0 /\ 0 * Request = 0
    BY Units
  <2> QED BY <2>1, <2>2 DEF FeederInit, InPlace
<1>2. FeederIInv /\ Places /\ InPlace /\ [FeederNext]_feederVars => Places' /\ InPlace'
  <2> SUFFICES ASSUME FeederIInv, Places, InPlace, [FeederNext]_feederVars PROVE Places' /\ InPlace'
    OBVIOUS
  <2>1. CASE CpuClock
    <3>1. PICK full \in BOOLEAN, wren \in BOOLEAN, f \in FrameChoices : CpuEdge(full, wren, f)
      BY <2>1 DEF CpuClock
    <3> QED BY <3>1, CpuInPlace, PlacesStep
  <2>2. CASE DviClock
    <3>1. PICK ready \in BOOLEAN : DviEdge(ready)
      BY <2>2 DEF DviClock
    <3> QED BY <3>1, DviInPlace, PlacesStep
  <2>3. CASE UNCHANGED feederVars
    <3>1. InPlace'
      BY <2>3 DEF feederVars, cpuVars, dviVars, InPlace, FramePixels, Request
    <3> QED BY <3>1, PlacesStep
  <2> QED BY <2>1, <2>2, <2>3 DEF FeederNext
<1> QED BY <1>1, <1>2, InductiveInvariant, PTL DEF FeederSpec
=============================================================================
