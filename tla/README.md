# A verification project for the cs150-1245 system on a chip

The repository holds a small computer for an FPGA board: a three-stage MIPS
processor with caches, a controller that shares one DDR2 memory among its
clients, a graphics processor with four drawing engines, a pixel feeder that
shows frames, a serial port, the software that runs on it, and Vizard, a host on
which the same programs run without a board. This directory holds TLA+ models
of the parts whose correctness depends on the order in which things happen, or
on two implementations of one thing saying the same, the TLC runs that check
them on small instances, and theorems about them with proofs for TLAPS.

Paths without a directory below are in `hardware/src/` (hardware) or
`software/` (programs) of the repository.

## 1. The system

All of the hardware runs on `cpu_clk_g`, except the display side of the pixel
feeder, which runs on `dvi_clk_g`. Resets are released in the order memory, bus,
processor (`ml505top.v` 202-262), and every module begins where that leaves it.

| Component | State it keeps | Operations | Talks to |
|---|---|---|---|
| Caches (`base_mem/Cache.v`, two instances driven by `cpu/MemBank.v`) | state machine, two block RAMs, held access, active line | load, store, hit, miss, fill, write-through, stall | CPU port; request controller |
| Request controller (`base_mem/RequestController.v`, wired in `Memory150.v`) | numbers of the reads under way, reservations of writes | grant a client per cycle, push command and data, route the answers | both caches, command fetch, pixel feeder, scan line runner; DDR2 FIFOs |
| CPU (`cpu/CPUMIPS.v`, `StageF.v`, `StageDX.v`, `COP0150.v`) | PCs of the stages, Status, Cause, EPC | fetch, branch with delay slot, stall, interrupt entry and return, mtc0 | caches, memory-mapped registers, interrupts |
| Serial port (`base_io/UARTRVA.v`, `UATransmit.v`) and driver (`proj_app7/shared7.c`, `isr7.s`) | transmitter, ring buffer | write characters, wait, transmit interrupt | main program and handler share the ring |
| Pixel feeder (`gpu/PixelFeeder.v`) | credit counter, frame and position, chunk handshake, FIFO | ask for a request, take a beat, take a pixel, give back credit, change frame | request controller; display; `pf_wait` |
| Graphics command processor (`gpu/GraphicsProcessor.v`, `base_mem/DDRStage.v`) | two state machines, address, opcode, chunk | start, fetch, walk through a command, trigger an engine, stop | request controller; engines; software |
| Engines and scan line runner (`gpu/*.v`) | state of each engine, the run being written | trigger, offer a run, arbitrate, write beats | each other; request controller |
| Data path (`cpu/InstructionControl.v`, `ALUdec.v`, `ALU.v`, `BranchCMP.v`, `ByteAccess4.v`, `RegFile.v`) | registers, the load under way, COP0 | one instruction | interpreter (compared) |
| Software drawing (`common/graphics.c`, `graphics.h`, `mutmath.c`; prototypes in `tool/line-engine`) | frame, loop variables | line, ellipse, rectangle, fill; the words of a command list | engines, Vizard (compared) |
| Console (`gios/gios.c`, `common/parse.c`) | stashed address, last command, settings of the shapes, memory, frame registers | load, store, dump, copy, fill, file, frame, colours, shapes | serial port; graphics |
| Demo (`proj_app7/proj7.c`) on Vizard (`tool/vizard`) | loop, lists in the frames' tails, start and frame registers; frames, window, receive queue, error | render, generate, wait, swap; poll, serve a key, draw the window; take a list, draw it | application and host share a thread, the graphics thread shares registers and frames with them |
| Vizard's interpreter (`vizard_mips.c`) | registers, COP0, the structure shared with the application | run a handler | host; hardware (compared) |
| Memory-mapped registers (`cpu/MemMapIO.v`), receiver, video output, other programs and tools | see PROJECT.json | | |

What makes each part hard, and what makes it correct:

* **Caches**: a load may meet its row while a store hit rewrites it, a miss may
  overtake the store before it, the other cache stalls the CPU at any moment.
  Correct when it cannot be told from a plain memory that takes one access at a
  time, and when every stall ends.
* **Request controller**: answers carry no name, numbers wrap, the pixel
  feeder's reads have none, the beats of a write are pushed in two cycles.
  Correct when each beat reaches its issuer, pairs stay whole and caches are
  served.
* **CPU**: an interrupt changes the PC one cycle before it saves the old one,
  around branches, delay slots, stalls and writes of COP0. Correct when programs
  execute as if interrupts came between instructions.
* **Serial driver**: program and handler share a ring and a transmitter without
  a lock. Correct when the ring is a queue, nothing is lost and nobody waits for
  ever.
* **Pixel feeder**: it cannot hold the memory back and its two halves have
  different clocks. Correct when its credit counter is exact, the FIFO never
  overflows and pixels are in their places.
* **Graphics processor**: commands straddle chunks, memory and engines make it
  wait in any state, software starts it at any time. Correct when the engines
  get the commands of the list, in order and whole, in the frame of the list.
* **Software drawing**: unsigned words wrap, errors are halved, ties are decided.
  Four implementations of a shape exist. Correct when a line is the nearest one
  and when all draw the same pixels, or differ only where it can be said.
* **Console**: every command leaves an address, a count and a result for the
  next. Correct when a command writes only where its arguments say, and what is
  printed is what memory holds.
* **Demo and host**: list and frame go to another thread through two variables
  without a lock, and a wait may be broken off by an error. Correct when every
  picture made is shown once, whole and in order, and every end is reached.
* **Interpreter**: it runs handlers written for the hardware on another byte
  order, with delay slots but without its late loads. Correct when a handler that
  does nothing on which the two differ leaves the same state.

PROJECT.json lists these hazards line by line with the properties that cover
them, and says of the two no property covers why.

## 2. The modules

| Module | Models | Instances for TLC |
|---|---|---|
| `SerialMemory` | what a program may assume of memory (abstract) | |
| `Cache` | `Cache.v` with its port of `MemBank.v` | `MCCache` |
| `CacheProofs` | theorems | |
| `RequestController` | `RequestController.v` with the request side of its clients | `MCRequestController` |
| `RequestControllerProofs` | theorems | |
| `Instructions` | the instructions that matter to control flow and the handler of `isr7.s` | |
| `PreciseInterrupts` | what a program may assume of interrupts (abstract) | |
| `CPUMIPS` | fetch, delay slots, interrupt entry, COP0 | `MCCPUMIPS` |
| `CPUMIPSProofs` | theorems | |
| `SerialDriver` | `uwrite_int8s_ISR`, `uwait_ISR`, `ISR_UATX`, the transmitter | `MCSerialDriver` |
| `PixelFeeder` | the DDR2 reader of `PixelFeeder.v` | `MCPixelFeeder` |
| `CommandList` | what software may assume of the graphics processor (abstract) | |
| `GraphicsProcessor` | `GraphicsProcessor.v`, `DDRStage.v` | in `GPU` |
| `GPU` | composes `GraphicsProcessor` with engines and runner | `MCGPU` |
| `GraphicsProofs` | theorems about `PixelFeeder` and `GPU` | |
| `Arithmetic` | multiplications of `mutmath.c` and `tool/mutmath`, matrix product of `mmult.c` | `MCDrawing` |
| `Drawing` | `swline`, `swelip`, `swrect`, `swfill` of `graphics.c` as loops, started by `draw.c` | `MCDrawing` |
| `Renderers` | the same shapes by the engines (`LineEngine.v`, `ElipseEngine.v`, `RectangleEngine.v`, `ScanLineRunner.v`), Vizard (`vizard_gpu.c`) and `le.c` | `MCDrawing` |
| `CommandStream` | the words of a list, written by `graphics.c` and read by `vizard_gpu.c` | `MCDrawing` |
| `DrawingProofs` | theorems about `Drawing`, `Arithmetic`, `CommandStream` and `Renderers` | |
| `Console` | `main_bios` of `gios.c` over `parse.c`; frame numbers as hardware, library and host read them | `MCConsole` |
| `SerialProofs` | theorems about `SerialDriver` and `Console` | |
| `Datapath` | one instruction in the hardware | in `Interpreter` |
| `Interpreter` | `vizard_mips.c`, in step with `Datapath` | `MCInterpreter` |
| `DoubleBuffer` | what an application with two frames promises (abstract) | |
| `Vizard` | `proj7.c`, `vizard_host.c`, the receive queue of `uart_vizard.c` | `MCVizard` |
| `VizardProofs` | theorems about `Vizard` and `Interpreter` | |
| `NumberLemmas` | remainders, induction, and what a function recursive in a number is, for the proofs | |

### How state and actions correspond to the code

Hardware modules have one action per clock edge: unprimed operators are the
combinational signals of the Verilog and bear their names (`NextState` is `ns`),
primed variables are what the `always @(posedge clk)` blocks assign, and every
input of a module is a parameter chosen by a quantifier in `Next`. What lies
beyond vendor cores is external: the DDR2 controller answers in order after any
time, FIFOs show full whenever they like and must when they are.

* `Cache`: `CpuTick` is one edge; `Read`, `Store` and `Other` are edges at which
  the CPU moves on, `Stalled` edges at which it does not, for this cache or the
  other. `MigRead`, `MigWrite` are the memory. A line is one value per 128-bit
  half, because a beat carries half a line. A block RAM row that is read while it
  is rewritten returns its old or its new contents; with `CollisionUndefined` it
  returns anything. `golden` is history: memory as the accepted stores leave it.
* `RequestController`: `Tick` is one edge, with or without a `Grant`; the `Start`
  actions are the cycles in which a client begins to ask. The clients' own
  machines are reduced to asking, waiting and having a second beat to push;
  whether a client asks in the same cycle as another is left open. `reads` and
  `writes` are history: whose the operations under way are.
* `CPUMIPS`: `Advance` is an edge at which the pipeline moves, `Stall` one at
  which it does not. A program is any function from addresses to the instructions
  that matter (`Instructions`); whether a branch is taken is any choice. The
  handler is that of `isr7.s`, shortened to entry, acknowledgement, return and
  the delay slot that enables interrupts again. Well-formed programs have no
  branch in a delay slot and do not run off their end.
* `SerialDriver`: one action per access of the program to shared data (`Poll`,
  `Direct`, `FindSlot`, `StoreCharacter`, `Publish`), because interrupts come
  between accesses; the handler is one action, because it runs with interrupts
  off. `Slack` bounds the accesses between an interrupt and its handler.
* `PixelFeeder`: `CpuEdge` and `DviEdge` are the edges of the two clocks in any
  order with at most `MaxEdges` of the first between two of the second; which of
  two coinciding edges comes first stands for the choice of a synchroniser.
* `GraphicsProcessor`: `Edge` is one edge. A word is what its top nibble says and
  an argument is the address of its word, so that the refinement can tell which
  word reached an engine. `TakeBeat` and `DDRStage` are `DDRStage.v`.
* `GPU`: `GPUEdge` is one edge of processor, engines and runner together. An
  engine is what it does to its neighbours; it offers any number of runs up to
  `MaxRuns`, and a run takes any number of pairs of beats up to `MaxPairs`.
* `Drawing`: one action is one turn of a loop in a function of `graphics.c`; a
  frame is a function from pixels to EDGE, FILL and NONE, and the words of the
  ellipse wrap at `WordBits`. `Arithmetic` and `Renderers` are functions: what a
  loop computes is a recursive function of the number of its turns, and what a
  renderer draws is the frame it leaves. The engines of `Renderers` are those
  whose interleaving `GPU` has without their pixels.
* `CommandStream`: a word of a list is its opcode nibble and the two fields that
  are a point's coordinates, which is all that telling commands from arguments
  depends on.
* `Console`: `ReadCommand`, `ReadArgument`, `ReadWord` are the points at which
  the program waits for the line; `Execute` is what one command then does, all of
  it. Memory is bytes, words are big-endian, an address is a word. Text is left
  out: an input is a command's token or the number a conversion finds in it.
* `Datapath` and `Interpreter`: an instruction is the record of its fields, and
  the handler is any sequence of instructions of `Fetched`. `Execute` has both
  machines do the same instruction. The hardware's memory is big-endian and the
  host's little-endian; `Layout` and `ValueOf` say what a field of the shared
  structure is in each. `same` remembers whether the handler has done something
  on which the two differ: used a register in the instruction after its load,
  accessed a part of a field, read Count, or cleared the timer bit by Compare.
* `Vizard`: each action is one access to something the two threads share.
  Application and host are one thread: `at` is where the loop of `proj7.c` is,
  `polling` where `vizard_host_poll` is when a wait or the loop calls it. Frames
  are copied and drawn under `gpu_lock`, so that `GpuSubmit` to `GpuDrawn` and
  `draw_host_view` exclude each other; `GP_GCODE`, `GP_FRAME` and `host_error`
  have no lock. A picture is the number of the iteration that made its list, and a
  list or frame being written is `Torn`. `ServeKey` is an interrupt whose handler
  returns, `ServeFails` one whose handler the interpreter gives up, with the key
  read or not. `reads` is history: the number of keys the handler has read.

Operators named `Bug_...` are mutated forms of the definition that follows them,
used to see that each property can fail; no specification uses them.

## 3. The runs

| Run | Question | Bounds |
|---|---|---|
| `cache_memory` | Is the cache with its DDR2 a memory that takes one access at a time; does DDR2 hold the stores; does every stall end? | both caches; two lines that collide in one row, two values, FIFOs of two commands (194,000 states) |
| `arbiter_soc` | Are beats routed, pairs whole, waits justified, caches served? | the five clients `Memory150.v` connects; counters modulo 4, one read of the pixel feeder, FIFOs of two (548,000 states) |
| `cpu_programs` | Is every program executed precisely; does the handler run alone and return; are requests taken? | all programs of five out of ten instructions, two interrupt sources |
| `cpu_disable` | Does disabling interrupts hold? (fails) | one source |
| `serial_ring` | Is the ring a queue; is each character in one place; does a full ring empty itself; does sending go on? | ring of 4, seven characters, two accesses before an interrupt is taken |
| `serial_lost` | Is no character written to a busy transmitter? (fails) | ring of 2, three characters |
| `pixel_feed` | Does the FIFO never overflow; are pixels in place; does a selected frame go live? | capacity 4, start 2, target 3, frame of 4 requests, two frames, 3 underruns |
| `gpu_engines` | Do the engines draw one at a time, in the list's frame; are lists finished as `CommandList` says; does no read outlive its list? | six lists that follow each engine by another and straddle chunks, any start, two frames, one run of a command, two pairs of a run |
| `drawing` | Is a line the nearest one; do program, engines, prototypes and emulator draw the same pixels; are products products; are lists read as they were written; do the loops end? | all lines and rectangles of a 5 by 5 square, all ellipses with radii up to 7, words of 11 bits, all factors of four bits |
| `console` | Is the checksum that of the memory; are only the arguments' bytes written; do dumps go on; do the users of a frame, and the host's library, agree on which it is? | any two commands, four numbers, sixteen bytes (1,080,000 states) |
| `interpreter` | Do interpreter and hardware agree on any handler that does nothing on which they differ; does an interrupt end? | all handlers of up to four of some seventy instructions (the last two of eight), words of 8 bits, four registers (461,000 states) |
| `vizard` | Is each picture shown once, whole and in order; are list and frame never read while written; is each key given to the handler once and in order; does the screen go on and the program end? | pictures and keys modulo 4, a queue of 2, three keys at once (32,000 states) |

Why the bounds are enough to make the interesting cases happen: two tags in one
row evict each other, which is the only way two lines meet in a direct mapped
cache, and a store followed by a miss needs two commands in the FIFO; numbers
wrap as soon as more reads were issued than the counter holds, which modulo 4 is
the least the assumption `PixfCredit + 3 <= ReadWrap` allows; five instructions
hold a branch, its delay slot, its target, an mtc0 and the closing jump; a
ring of four wraps within seven characters, is full with three and empty again;
three underruns are one less than a request of four pixels, where the promise of
the credit counter ends; chunks of two words make every command of three or four
words straddle chunks at either alignment, and three chunks let `code_chunk` wrap.
Lines of a 5 by 5 square have every slope class, ties and single points; radii of
three bits are to words of 11 bits what coordinates of ten are to 32, so that the
same products wrap, and (4, 7) is a pair of radii where loop A runs past the
diagonal. A memory of sixteen bytes whose addresses are words of four bits has
transfers that overlap and wrap, and two commands are the least a dump and its
continuation need. Three keys overflow a queue of two at once; four pictures are
twice the number of frames, so that one that is two late is told from one on time.
`underruns`, `FrameRequests`, `MaxRuns`, `MaxPairs`, `Slack`, `Count`, `Commands`,
`MaxCount` and `MaxTyped` are the bounds on counters; each is a named constant
and appears in a guard or a range.

`CHECK_DEADLOCK FALSE` appears where the model may stop: a serial program ends
after `Count` characters, a console after `Commands` commands, a handler with its
return, the demo with its program; and a program of the CPU is covered by its own
stall.

### Fairness

* Clocks run: weak fairness of the edges (strong where one condition of an edge
  comes and goes).
* The memory answers and takes what it is given: weak fairness of `MigRead` and
  `MigWrite`. The FIFOs' full flags fall once there is room; for the cache this
  is strong fairness of an edge with the flag down, because the flag it sees
  also falls and rises with other clients. `CachesServed` of `arbiter_soc`
  is the reason why a cache may assume it: only caches come before it in the
  fixed priority, and each has one access at a time.
* For the clients behind the caches (`GraphicsProcessor`, `GPU`, `PixelFeeder`)
  being granted is assumed. The priority is fixed and a program could starve
  them; the code promises no bound (listed as a hazard).
* The CPU leaves stalls (its memories end them: `EveryStallEnds`), and a
  processor between two interrupts executes its main program.
* Engines end their computations (`Computed`): the line engine needs a fixed
  number of cycles and the ellipse engine a bounded number per row.
* Loops of one thread run on: weak fairness of the loops of `Drawing` and of the
  handler in `Interpreter`, which is ordinary code called by the host.
* Vizard's two threads are scheduled (weak fairness of each). A draw is due every
  1/60 s by the clock and a poll that follows finds it due, so among polls
  without end infinitely many draw: strong fairness of `PollDraw`, strong because
  in between are polls that find none due and times in which the lock is held.

No client is ever obliged to start anything.

### Findings

Two runs end with a violation; each states what the repository says and the code
does not do. See `findings` in PROJECT.json for the quotations.

1. `cpu_disable`: interrupts disabled by an mtc0 come back when an interrupt is
   let in while it is in DX, because the return of the handler enables them.
2. `serial_lost`: the test of the transmitter and the store to it are two
   accesses, and the handler may send in between; one of two characters is lost.

Further statements of the repository that do not hold, each a definition that can
be put into a configuration of its module, or a case a property names:

* `SerialDriver!WaitDrains`: a character appended after the handler found the
  ring empty stays there, which a comment of `uwrite_int8s_ISR` suspects; the
  next character sent moves the ring again.
* `PixelFeeder!FullBeforeStart`: the display is started by requests issued and
  not by pixels there; that it starts at the end of a frame hides it.
* `GPU!ReadyMeansDrawn`: the processor is ready while the last row is on its way.
* `GPU!FrameOfRow`, with `MaxRuns` 2: the runner takes the frame of each beat from
  the engine and not from the run, so that the last row of a list can go to the
  frame of the next (`ScanLineRunner.v` 111).
* `Cache` with `CollisionUndefined`: the next access may read a row while a store
  hit rewrites it; the cores are configured WRITE_FIRST, which on the device does
  not define what the other port reads. With either value it is a memory.
* `Renderers!EllipsesAsCommented`: with radii (4, 7) the unsigned difference of
  `graphics.c` 233 wraps and loop A takes one turn too many. `CirclesAsCommented`,
  the same for equal radii, holds.
* `RenderersAgree` names where renderers differ. Vizard's "pixel-for-pixel match"
  (its README.md, 66) fails for lines that pass halfway between two pixels and run
  upwards. The engines fill the upper side of a rectangle given with its lower
  side first (`RectangleEngine.v` 127; `draw.c` 83 draws one), and complete the
  flat ellipses whose last rows `swelip` leaves off.
* Console: the two conversions of `gios.c` 57 that read from the line are
  arguments of one call, so the compiler chooses their order. The model takes
  either, and `Checksum` and `WritesWhereTold` hold for either: they are about the
  address and the length as they were read, and do not say which the user typed
  first. A file for a
  misaligned address is announced as `*ALGN*` and written to the address below.
  `BC_UNKNOWN:` and `BC_BLANK:` of its switch are labels of goto and no cases:
  `default` serves them.

## 4. The proofs

| Theorem | Says, for every value of the constants |
|---|---|
| `CacheProofs!MemoryMatches` | the DDR2 and the commands queued before it hold the stores, whatever the block RAMs return |
| `CacheProofs!CacheImplementsMemory` | the cache with its DDR2 implements `SerialMemory`, if a row read while it is rewritten returns its old or its new contents |
| `RequestControllerProofs!Routing`, `Pairing`, `Waiting`, `TypeCorrect` | each beat goes to its issuer, pairs stay whole, waits are justified |
| `CPUMIPSProofs!Refinement`, `Alone` | the pipeline implements `PreciseInterrupts`; the handler runs alone |
| `SerialProofs!Queue`, `NoneDuplicated` | the ring is a queue; each character is in one place |
| `SerialProofs!ResultIsChecksum`, `CommandsWriteWhereTold`, `DumpsGoOn`, `OneFrameForAll` | of the console: the printed result is that of the memory, only the arguments' bytes are written, dumps go on where they ended, the users of a frame agree on which it is |
| `GraphicsProofs!Credit`, `NoOverflow`, `PixelsInPlace` | credit is exact, the FIFO never overflows and pixels are in their places |
| `GraphicsProofs!TypeCorrect`, `ReadsFinish` | types; no read outlives its list |
| `GraphicsProofs!DrawnInOrder`, `RightFrameWithinList` | the engines draw one at a time and in the right frame |
| `GraphicsProofs!ListPerformed` | processor and engines implement `CommandList`, its fairness left to TLC |
| `DrawingProofs!ErrorMeaning`, `NearestPixels` | what the error of `swline` stands for; every pixel of a line is within half a pixel of it |
| `DrawingProofs!Products`, `MatrixProducts` | every way to multiply gives the product, for words of every width |
| `DrawingProofs!AnyListDecodes`, `ListsRead` | every list of commands is drawn as it was written, and its end is found |
| `DrawingProofs!ShapesAgree`, `CirclesWhole` | program, prototypes, emulator and engines draw the same lines, rectangles and ellipses but for the cases named; circles are whole and as commented |
| `VizardProofs!DrawnApartAlways`, `ListWholeAlways`, `ShownOnce`, `KeysServedInOrder` | the frame drawn is not the one shown; the list read is not the one written; the whole implements `DoubleBuffer`; each key is served once, in the order typed |
| `VizardProofs!InterpreterAgrees` | the interpreter has the hardware's registers, addresses, COP0 and fields, as long as the handler does nothing on which the two differ |

Each module of proofs proves that an inductive invariant always holds
(`InductiveInvariant`, `ConsoleInvariant`, `ErrorMeaning`, `LoopInvariant`, `HandlersAlike`,
`AlwaysIInv`, `QueueHolds` and `RowsCorrect`), and its other theorems follow from it, a few with a further
invariant that is inductive given the first. All of these were checked by TLC on
the instances of the runs before they were proved.

* **Cache.** The invariant has two parts. `QueueInv` does not look into the block
  RAMs: the access in `hold` is the one the CPU asked for last (`AccessInv`), every
  queued write has its two beats but for the one being queued (`Paired`), a command
  queued now finds what the accepted stores left (`StoresQueued`: the last queued
  write of a half line, or the DDR2 when there is none), and a miss has its two
  halves somewhere between the DDR2 and `first_read`, in that order and with nothing
  of another read before them (`MissInv`). `DdrMatchesStores` speaks of the CHOOSE
  of a last write in a queue; a dozen lemmas say how appending and removing
  commands and beats moves that last write and the place of its beats. `RamInv` is
  about the rows: a valid row holds its line but for a store accepted at the last
  edge (`Coherent`), the outputs are the row of the access in hold (`OutputIsRow`),
  a store rewrites only a row of its own line (`HitIsRow`), and a miss ends with
  its line in row and register (`Filled`). It depends on `QueueInv`, which supplies
  what a miss writes into the row, and not conversely. Its hypothesis
  `~CollisionUndefined` is the one thing about the device that the code leaves open
  (3, Findings); without it TLC finds a load that is answered wrongly. Assumption:
  `CacheAssumption`, which asks for FIFOs of two commands or more.
* **Request controller.** `Routing` is not inductive: it speaks of the cycle in
  which a beat is there. `IInv` says which number the k-th read under way has
  (`Numbered`: the number of the oldest plus k - 1, modulo the width), that a
  client has one read at a time (`OneEach`), that a client without a read claims
  nothing (`Unclaimed`), that each read's two beats are somewhere
  (`BeatsConserved`) and how many reads there can be (`ReadsBounded`) - the last
  is what keeps two reads from sharing a number when counters wrap - and, for
  the writes, that a client between its beats keeps all others away (`Exclusive`,
  `Paired`). Assumption: `ControllerAssumption`, of which `PixfCredit + 3 <=
  ReadWrap` is the only one that is more than a type; the code has 1,019 (PIXFO_TARGET)
  and 2,048.
* **CPU.** `IInv` says what may be in F next to what is in DX: in the main
  program the delay slot of a branch, or anything but an mtc0's or a branch's
  successor when an interrupt is being entered; in the handler, the handler's next
  instruction or EPC. From it each edge is a step or a stutter of
  `PreciseInterrupts`. Assumptions: main program and handler do not overlap, and
  programs are well formed.
* **Serial driver.** `IInv` adds to the queue what the program holds between two
  of its accesses: a slot found stays free and a character stored stays there
  until its head is published, because only the handler moves the tail.
  `EachInOnePlace` is not inductive, since it is silent about the character written
  next; `OnceWritten` says of every character how many copies of it there are: one,
  or none if it is not written yet.
* **Console.** `ConsoleIInv` has a part for each thing a command leaves to the
  next: what was given and what is wanted make up the arguments of the command in
  one of their orders (`ArgumentsInOrder`), of a file the words up to p are in
  memory and their exclusive or is `xor` (`FileProgress`), and after a dump the
  address kept is where the block stopped (`DumpEnds`). A destination may overlap
  its source, so what is summed is read while it is changed; that the result is
  nevertheless the one of the memory left behind is by induction over the words
  copied. What a word is in bytes is arithmetic on the powers of `ByteValues`. Of
  the exclusive or only `XorAssumption` is used: of two words it is a word.
  Further assumptions: `ByteAssumption` (a byte has an even number of values),
  `FrameAssumption` (a frame begins at a multiple of the number of frames, and
  twice the frames fit in memory), `DumpAssumption`, `InputAssumption`.
* **Pixel feeder.** `FeederIInv` adds the phase of the handshake: which combinations
  of the signal, its synchronised copy and its acknowledgement occur, how many
  pixels ago the signal was given, and that a chunk is long enough for the
  handshake to end. `InPlace` is inductive next to it: the two counts of a frame,
  of the pixels shown and of those requested, stay congruent modulo the frame
  because no beat is dropped (`NoOverflow`), the display takes none from an empty
  FIFO before an underrun is counted, and it starts at the first pixel of a frame.
  Assumptions: a beat has two pixels or more and the clocks do not drift apart by
  more than `MaxEdges`.
* **Graphics processor.** `FetchInv` says where a read can be under way and which
  chunk is at hand; from it the word at the processor is the next one of the list
  at every step, over chunk boundaries and the wrap of `code_chunk`, which is what
  `CommandAddress` needs. `CommandInv` says that the command begun is the one at
  its address and that what the engines have captured of it are the words that
  follow; `captured` is shared by all commands, so it names for each state the
  arguments taken so far (`Given`). `WorkInv` has the engine at work be that of the
  command last triggered, in the list's frame, while the list runs. `RunInv` says
  so of the run the runner writes. `FrameWithinList` is not inductive without
  `WorkInv`, because the runner follows the engine and not the run. Assumptions:
  `ChunkAssumption` (a chunk has two words or more; the code has eight),
  `MemoriesAssumption`, which is the type of a memory, and `RunAssumption`.
* **Drawing.** `LineInv` says that the error is half a column, less what the
  columns passed used up, plus a column for every step (`graphics.c` 147, 162),
  and that it stays from zero to a column: the comment "guaranteed >= 0". One turn
  takes at most one step because the longer coordinate is the one walked along;
  the lemmas are about that and about halving. From it follows that twice the
  distance to the ideal line is at most a pixel, for lines of any size.
* **Shapes.** `FrameInv` says what a frame holds while a shape is drawn: of a line
  the first pixels (`LineFrame`), of a rectangle the rows above the present one
  (`RectFrame`), of an ellipse what its turns so far have painted, up to the turn at
  which its loops end (`EllipseFrame`). The rest is about pure definitions. The
  points of a line are those of its longer coordinate with the nearest place in the
  other (`Nearest`, one in each column: `OneNearest`); `swline`, the prototypes and
  Vizard are each shown to paint that set, or for Vizard the set that takes the
  other side of a tie (`NearestLast`), and the two differ just for the lines that
  `Tie` describes and that run upwards. The rows that an ellipse paints lie next to
  each other from y outwards (`RowsTurn`), so an ellipse is whole if y has come
  down to zero, and only then do the engine's further turns change nothing. Of a
  circle every number the loops compare is a small multiple of the square of the
  radius (`CircleA`, `CircleB`), so that no unsigned difference wraps and y comes
  down to zero. Assumption: `InsideAssumption`. Shapes are inside the frame, an
  ellipse with two columns to spare on its left because its loops may pass its
  radius; and r^2 (4r + 3) is at most the number of words for a circle, which all
  radii of the commands' ten bits satisfy in 32.
* **Multiplications.** A loop of `Arithmetic` is a recursive function of its turns;
  the sum after k turns is the product with the number the first k bits are
  (`SumIs`), by induction on k, and a factor is below the power of its width
  (`WidthReaches`). Powers of two are a recursive function too, because the provers
  know nothing of `^`. Products of half words fit in a word (`LargestProduct`); of
  signed factors the product is that of the magnitudes with the sign. Assumption:
  `WidthAssumption`.
* **Command lists.** Lemmas say which words a macro appends (`Appended`) and where
  the words of the k-th command are in the list (`CommandAt`). From them, by
  induction on the turns: as long as no command before it has lost its fill color,
  the k-th turn of `vizard_gpu_submit` is at the opcode of the k-th command and has
  drawn those before it (`ReadSoFar`). The first command that lost its color makes
  the turn draw something else or fail, and what was drawn stays (`DrawnStays`).
  Assumptions: `FieldsAssumption`, and `CommandAssumption`: coordinates fit in the
  fields of a word (ten bits).
* **Vizard.** `IInv` follows the loop through its phases. The thread works on what
  it was given (`GpuInv`), a poll past its first look has seen no failure
  (`PollInv`), and the application has the thread quiet before it starts a list
  and after it waited for one, unless it is ending (`LoopInv`): failures are
  sticky (`closing`, `host_error`), so that once a wait was broken off no poll
  shows a frame again, which is why the order of the loop's end does not matter.
  `PictureInv` says by number which picture is in which list and frame;
  `Shows(p)` is the number of pictures shown when p is on the screen, and a lemma
  on counting modulo `Pictures` turns "made less shown" into the two guards of
  `DoubleBuffer`. Assumption: `VizardAssumption`, of which the even number of
  pictures is what makes the parity of `frameCounter` survive its wrap; the code
  has 2^32. `KeysInOrder` compares the key the handler was given last with
  the number of its reads, so that a key read again counts as much as one left out;
  its invariant `KeyQueue` says that the keys in the ring are those that follow the
  last one served, up to the last one received. Ring and numbers of keys wrap with different moduli, so that two
  lemmas about remainders carry it: they add, and fewer than n numbers in a row
  differ modulo n.
* **Interpreter.** `HandlerInv` says what `same` stands for (`Related`): unless it is
  "no", the two machines have well-typed and equal registers (the hardware's with the
  load it has not written back), addresses, Status, Compare and EPC, and each field
  has one value in both orders of bytes; Cause is equal if it is "yes", and equal but
  for the timer's bit if it is "but timer". It differs from `SameAsHardware` by the
  types. One instruction keeps it, and this is shown by kinds of instructions:
  `Kinds` says that the decoder's equations put each instruction the interpreter
  knows into one of them, `ComputesStep`, `LoadsStep`, `StoresStep` and `SetsStep`
  each run both machines on one. Three groups of lemmas carry these. About bits: a
  word is determined by its bits (`SameBits`, by induction on their number), so that
  an identity between And, Or, Xor and complements is one of truth values; `nor` as
  the hardware and as the interpreter compute it, and merging bits into Cause, are
  such. About operands: the hardware reads register 0 where an operand is not
  used, so results agree operation by operation (`Results`), and so do comparisons
  and targets (`Comparisons`, `NextAddresses`; a jump stays in its region only if it
  is not the region's last instruction, see `MapAssumption`). About memory: four bytes
  put together and taken apart again are the same bytes (`FourBytes`), from which
  loads and stores of a whole field agree in both orders, and a store leaves the
  other fields alone because they do not overlap (`SameLoad`, `SameStore`). The bytes
  themselves differ, so no simpler relation than `ValueOf` would do. Assumptions:
  `BitsAssumption` (a byte has a bit or more, a target fits in a word),
  `RegistersAssumption` (0 and `RA` are registers), `MapAssumption` (the memories are
  apart), `InterpreterAssumption` and `FieldsAssumption` (the structure's fields are
  aligned and apart). Words of bits are defined by arithmetic in `Datapath`, a
  recursive function `Power` and a sum (`Number`), because no prover here knows
  bitwise operators.

Only model-checked:

* Liveness: `EveryStallEnds`, `CachesServed`, `HandlerReturns`, `RequestTaken`,
  `FullWaitEnds`, `SendingFeeds`, `SelectedGoesLive`, `Finishes` beyond its safety
  part, `LoopsEnd`, `InterruptEnds`, `FramesGoOn`, `Closes`. Fairness speaks of
  ENABLED, which the prover does not expand.

Every other property of a passing run is stated by a theorem.

## 5. What is not modelled

* The serial receiver of the board, whose sampling needs time as a quantity; the
  keyboard commands and clock display of the handler; Count and Compare of the
  hardware but for the bit that writing Compare clears.
* Forwarding: `Datapath` has its result (the register as the instruction before
  left it, loads excepted) and not the multiplexers; a stall in between is in
  `CPUMIPS`.
* `MemMapIO.v` and the latency of its status bits, the done pulse of `GPU.v`: a
  decoder and single registers.
* Vizard's timer interrupts, cycle counters, status panel, failures of its
  initialisation, `vizard_host_uart_read`, and shapes drawn without a list
  (`hw_OpRGB_PP_S` with a null list), which `proj7.c` does not use. With the timer
  a poll may run the handler more often, which changes nothing the model has but
  the pause flag, and that only by keys; if the handler fails there the poll ends
  as in `ServeFails`.
* Test patterns and status outputs of the feeder; VGA and SRAM of an earlier
  checkpoint; DVI encoding and I2C; the DDR2 controller and FIFO cores, which
  are external; the earlier programs and the tools around the board.
* Resets after power-up.

## 6. Plan

1. (done) Caches with `SerialMemory`; the request controller with its proofs.
2. (done) Fetch and interrupts with `PreciseInterrupts` and its proof.
3. (done) The serial driver and its proofs.
4. (done) The pixel feeder's credit and its proofs.
5. (done) Command processor with `CommandList`, composed with engines and runner.
6. (done) Shapes: `Drawing` and `Renderers`, `CommandStream`, `Arithmetic`, and the
   proof about lines.
7. (done) `Console`; `Datapath` with `Interpreter`.
8. (done) `DoubleBuffer` and `Vizard` with its proofs.
9. (done) Proofs for `Cache` with its refinement, `GraphicsProcessor` and `GPU`, the
   places of pixels and characters, the order of keys; for `Console`, products,
   command lists and all shapes, and `Interpreter` against `Datapath`.
10. Open: the loop of `proj7.c` on the board, with the frame switch of `PixelFeeder`
   and the registers of `MemMapIO`; `SerialLink`, `UATransmit` against `UAReceive`
   with unequal clocks.
