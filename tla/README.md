# A TLA+ model of the multicore MESI simulator

The program (`src/src/MulticoreProccessor`) simulates four cores, each with a
five-stage pipeline and a private direct-mapped data cache, that share a main
memory over a snooping MESI bus. It is single-threaded: the concurrency is that
of the simulated machine, interleaved by the main loop one clock iteration at a
time. This directory holds TLA+ modules translated from the source, the TLC
configurations that check them, and proofs checked by TLAPS.

Line numbers below refer to `src/src/MulticoreProccessor/...` unless a `docs/`
or `README` path is given. `PROJECT.json` maps every definition to its lines.

## 1. Inventory

| Component | State | Operations | Module | Status |
| --- | --- | --- | --- | --- |
| Main loop (`MulticoreProcessor.c`) | `cores` | `main`: one `Bus_Iter`, then `Core_Iter` of each core, until all have halted | `MemorySystem`, `Machine` | modelled |
| Bus (`Interface/src/Bus.c`) | FIFO of packets, `gCurrentPacket`, `gBusInProgress`, `gBusTransactionState`, `gAddressOffset`, `is_first_shared`, the registered caches | `Bus_AddTransaction`, `Bus_InTransaction`, `Bus_Iter`, `bus_fifo_Enqueue`, `bus_fifo_Dequeue` | `Bus`, `BusPacket`, `BusFifo` | modelled |
| Cache (`Core/src/Cache.c`) | per frame: tag, MESI state, block | `Cache_ReadData`, `Cache_WriteData`, callbacks `shared_signal_handle`, `cache_snooping_handle`, `cache_response_handle` | `Cache`, `MemorySystem` | modelled |
| Main memory (`Interface/src/MainMemory.c`) | `gMemory`, `counter`, `gMemoryTransaction` | `bus_transaction_handler`, `MainMemory_Init`, `MainMemory_PrintData` | `MainMemory`, `Assembler` | modelled |
| Pipeline (`Core/src/Pipeline.c`) | the five stages, two stall flags, `halted` | `Pipeline_Execute`, `Pipeline_BubbleCommands`, `Pipeline_PipeFlushed` | `Pipeline` | modelled |
| Core (`Core/src/Core.c`) | `program_counter`, registers, instruction image, `Core_isHalted` | `Core_Init`, `Core_Iter` | `Pipeline`, `Machine` | modelled |
| Opcodes (`Core/src/Opcodes.c`) | none | one function per opcode | `Opcodes` | modelled |
| Statistics (`Cache.c`, `Pipeline.c`, `Core.c`) | the counters of `stats.txt`, `miss_occurred` | updated along the way | `Statistics` | modelled |
| Assembler (`src/src/Assembler`) | `imem`, `dmem`, `labels`, `jumplabels`, `PC`, `imm` | two passes, two files | `Assembler` | modelled |
| Files (`Interface/src/Files.c`) | handles | open, close | - | not modelled: pure I/O |

### How they interact

- The pipeline's MEM stage calls `Cache_ReadData`/`Cache_WriteData` once per
  iteration. `false` means stall: `memory_stall` freezes the pipeline and the
  same access is offered again in the next iteration.
- A cache that misses queues packets with `Bus_AddTransaction` (a `flush` first
  if the frame is dirty, then `busRd`/`busRdX`; for a store to a shared line
  `busRdX` and an *invalid packet* that costs the bus one iteration) and answers
  `false` as long as `Bus_InTransaction` says its core is in a transaction.
- `Bus_Iter` grants the oldest packet, asks every cache for the shared line,
  may give up one iteration, calls the snooping callbacks of all caches, then
  the memory's, and, when a word came back, the response callback of the
  sender. A block moves in eight such iterations after a latency of 16.
- The packet is passed by pointer: an owner rewrites the command to `flush` and
  supplies the word, and whoever is called later sees that.
- A core ends by itself: `Core_Iter` halts it when its pipeline is empty behind
  a `HALT`, and the main loop ends when all have halted. A core whose file is
  empty is halted from the start and never registers its cache.
- The assembler writes the files `init_memory` and `MainMemory_Init` read.

### What is hard here

- **Interleaving**: a transaction takes many iterations, and between any two
  of them every core may load, store or queue packets of its own. A line keeps
  its state until the last word of a snooped block, so a store may hit it in
  between; the packet of an eviction waits in the FIFO while its block is still
  valid and may be taken.
- **Ordering**: caches are called in core order on one shared packet; the
  sender of a read may come before or after the owner. Grants are FIFO.
- **Several counters in step**: `gAddressOffset` and the memory's `counter`,
  the transaction state of each core and the contents of the FIFO,
  `is_first_shared`.
- **Retry**: a core that has been given a block retries its access only after
  the next `Bus_Iter`, which may take the block away again.
- **Stalls meeting stalls**: a data hazard and a memory stall may begin in the
  same iteration, a `HALT` may be decoded in it.
- **Registers the hazard check overlooks**: R0, which write back does change,
  and the link register of `JAL`.
- **Shared counters**: the flag that tells a retry from a hit belongs to all
  caches.

### What would make each component correct

- *Cache*: a block exclusive or modified in one cache is valid in no other; no
  store is lost; a dirty block reaches memory before it disappears; every load
  returns the last stored value.
- *Bus*: every core that waits is served and released; an eviction and its
  follow-up are not separated; the offset and the memory's counter agree.
- *Memory*: the latency is counted exactly once per read, and no word is moved
  outside a block.
- *Pipeline*: whatever the stalls, it computes what the program says, one
  instruction after the other with a single delay slot; it offers the same
  access until it is accepted; hazards end; `HALT` drains it.
- *The machine*: the programs cannot tell it from cores that take turns on one
  memory; it ends with nothing under way; its counters add up.
- *Assembler*: every instruction whose label can be read is where it belongs, and
  the processor starts with what the source meant.

Every hazard, with its line and the properties that would catch it, is in
`PROJECT.json` under `hazards`.

## 2. The modules

```
BusPacket <- MainMemory <- Cache <- Bus <- MemorySystem <- MemoryProperties
                                                             |      |     |
                                         MemoryProofs -------+      |     +--- MCMemorySystem
                                                    Coherence ------+
                                                     |     |
                                            MCCoherence    Machine <- MCMachine
Opcodes <- Pipeline <- PipelineIsa (INSTANCE Isa) <- MCPipeline
Opcodes <- Isa
Assembler <- MCAssembler

MemoryProofs <- LedgerProofs <- CoherenceProofs <- MachineProofs
PipelineIsa <- PipelineProofs <- IsaProofs      BusFifo <- BusFifoProofs <- MachineProofs
Assembler <- AssemblerProofs
```

(`A <- B`: B extends A.) `Machine` also extends `Opcodes` and `BusFifo`, and has
`PipelineIsa` and `Statistics` as instances; `MachineProofs` has `IsaProofs` as one.

**`BusPacket`** names cores, the fields of an address and the packet. A word
address is kept as tag, index and offset; a packet carries a block address
because `Bus_Iter` overwrites the offset of every address it puts on the bus.

**`MainMemory`, `Cache`, `Bus`** keep one component's state each and define
its callbacks as operators, because in the code too they are functions called
within one `Bus_Iter`. The order of the calls is kept: `SnoopingSM` is the
function table `gSnoopingSM`; `CmdSeenBy` is the command a cache sees, which
depends on the owners called before it; `MemorySupplies` is what is left for
the memory when no cache has turned the packet into a flush. `BusIter` has one
disjunct per path through the function:

| Action | Path of `Bus_Iter` |
| --- | --- |
| `BusIdle` | nothing in progress, FIFO empty |
| `BusGap` | the invalid packet is dequeued |
| `BusYield` | the first iteration that sees a modified line returns early |
| `BusWait` | caches snoop, the memory still counts |
| `BusWord` | a word is moved; with the last one the transaction ends |

A packet is dequeued in the iteration that first works on it, so `ActivePacket`,
`ActiveOffset` and `Remaining` read either the packet in progress or the head of
the queue.

**`MemorySystem`** composes them under the main loop. `turn` says who is called
next; a core is its MEM stage: `CoreIdle` (nothing to access), `CoreWait`,
`ReadHit`, `WriteHit`, `WriteUpgrade`, `Miss` are the paths through
`Cache_ReadData` and `Cache_WriteData`. What a core accesses, and when, is
arbitrary within `Workload[c]`; `pending[c]` is the access it is stalled on, and
`Presents` says that a core offers that one again until it is accepted.

**`MemoryProperties`** states the properties and three inductive invariants,
each on top of the one before: `IInv`, `LedgerInv`, `EvictionInv`. A fourth,
`NoConflictInv`, is about the programs in which no two blocks compete for a frame
(`NoConflicts`).

**`Coherence`** adds two history variables to `MemorySystem`: `latest`, the
last value an accepted store gave each word, and `spoiled`, the blocks that one
of three known data-losing events has hit. `CoherentUnlessSpoiled` says that
these are the only ways for data to go wrong; `DataInv` is its inductive form.

**`Opcodes`** are the instruction format and what the opcode functions compute, at
a width that is a parameter (`PowersOfTwo` names the one fact about powers of two
that the proofs take from it, and TLC evaluates). **`Pipeline`** has one action
per kind of `Core_Iter` of a core `c`; whether the data cache accepts the access
in MEM, and with what word, is left to the module that uses it:

| Action | `Core_Iter` |
| --- | --- |
| `CycleStalls` | MEM is refused: only `WRITE_BACK` is emptied |
| `CycleBubbles` | a data hazard: a hole is left in `EXECUTE` |
| `CycleMoves` | all stages move |
| `Crashes` | `EXECUTE` calls a null operation |
| `CoreHalts` | `Pipeline_PipeFlushed`: the core halts |
| `Rests` | a halted core (or a dead process) |

Within a cycle the stages run in the order of `execute_stages`. `DECODE` and
`EXECUTE` read the registers before `WRITE_BACK` writes them; the model reads
`regs` and writes `regs'` once, because MEM, the last to read, also runs before
`WRITE_BACK`. R1 is overwritten with the immediate before every use, so
`Operand` reads the immediate in its place. The program counter is a `uint16_t`
that nothing keeps inside the image: past its end `Fetchable` is any instruction,
for what lies there is not the program's.

**`Isa`** is the abstract specification: the documented instruction set, one
instruction per step, with `at`, the address to execute, and `next`, the one after
it, which makes the delay slot. Its memory consists of cells, to which the
parameter `CellOf` maps the addresses a register can hold: addresses with equal
low bits name one word, and how many bits count is for the memory to say. The code
differs from the documentation in five points, and `Quirks` says which of them to
allow for:

| Quirk | The code | The documentation |
| --- | --- | --- |
| `zero` | R0 is written like any register (`Pipeline.c` 187) | R0 is always zero |
| `immediate` | not sign-extended (`Pipeline.c` 198) | sign-extended |
| `target` | 9 bits (`Opcodes.c` 93) | `R[rd][9:0]` |
| `link` | `JAL` links past its delay slot, and goes there (`Opcodes.c` 158) | R15 = PC+1, to `R[rd]` |
| `halt` | `HALT` passes `WRITE_BACK` and clears its `rd`, unless a stall drops it | stops the core |

**`PipelineIsa`** maps the pipeline to it. An instruction is executed when it
leaves MEM: `at` and `next` are the two addresses of `Upcoming`, the first two
of those held by MEM, EXECUTE and DECODE and those that will be fetched; the
registers are those after the pending `WRITE_BACK`. Two history
variables are needed: `haltAt`, because a decoded `HALT` is forgotten if a stall
begins in the same cycle, and `strayed`, which records that a core has left its
program in one of three ways: an instruction leaves `DECODE` undecoded (`Slips`);
it reads R0 or the link register while an older instruction has yet to write
it (`ReadsStale`); or the program counter, run on to 65535, is the address that
marks an empty stage, and the instruction fetched there is lost (`FetchesNoPc`).
`ImplementsIsaUnlessStrayed` also lets go of a core whose next instruction lies
behind its image (`PastImage`): what it runs into is no program, and is not even
the same when it is fetched again. `SoloSpec` closes the module with a private
memory per core that refuses and accepts at will; like that of `Isa` it is
made of cells.

**`BusFifo`** has the queue as the code has it, nodes on a heap that are linked
both ways, and `HoldsAlong`, which says that such a list holds a given sequence.
**`Statistics`** has the counters, in `CounterBits` bits, and the two flags
`miss_occurred`, which all caches share.

**`Machine`** composes everything: a core's turn is one `Core_Iter`, in which
the instruction in MEM makes the access its registers say, and the answer of the
cache decides how the pipeline goes on. It has one action per answer:

| Action | `Core_Iter` |
| --- | --- |
| `CycleWithoutAccess` | MEM holds neither a load nor a store |
| `CycleLoads`, `CycleStores` | the cache hits |
| `CycleMisses` | the cache queues packets and refuses |
| `CycleWaits` | the core is in a transaction |
| `CoreStops` | the core halts, has halted, or calls a null operation |

`BusServes` is `Bus_Iter`; `BusCrashes` is the `Bus_Iter` that calls for the
cache of a core without a program. Beside the queue of `Bus` it keeps the linked
list; beside the programs it keeps `latest` of `Coherence`, the memory the
programs believe in. An address names the cell of its tag, index and offset, so
registers may be wider than the three together, as they are in the code. Given its
programs the machine is deterministic.

**`Assembler`** has one action per fate of a line and two for the second pass;
the functions below them are the files it writes and how they are read. A line
is a record of what its tokens say; a name is a sequence over `{"a", "n"}`,
because the letter *n* is cut off.

`MC*` modules only give constants their values. An operator under a comment
*Mutant* is a plausible bug, placed before the definition it would replace; the
specifications never use it. `PROJECT.json` pairs each property with the mutant
that breaks it.

## 3. What is checked

| Run | Instance | Properties | What it shows |
| --- | --- | --- | --- |
| `two_cores` | 2 cores, 1 frame, 2 tags, 2-word blocks; every load and store | `TypeOK`, `TransactionLedger`, `EvictionPaired`, `BurstInStep`, `SingleOwner`, `GapGuardsUpgrade`, `BusServesEveryone`, `StallsOnlyWhenContended` | the control of bus, caches and memory, with every eviction and upgrade two cores can provoke; a core that is stalled for ever is contended with again and again |
| `two_frames` | 2 cores, 2 frames with one block each, 2 tags | `NoConflictInv`, `OwnerSuppliesBlock`, `MemoryTakesItsTime`, `OnlyStoresSpoil` | without conflicting tags a modified block is always answered with its owner's words, memory never answers early, and only a store the bus overtakes spoils a block; the inductive invariant behind them |
| `coherence` | 3 cores, 2 tags, 2 values; one core dirties and replaces a block the others store to and load | `CoherentUnlessSpoiled`, `DataInv`, `TransactionLedger`, `OwnEvictionWritesBack` | copies and memory hold the last stored values unless one of the three events of section 5 occurred; the invariant of the proofs with an owner between, before and after other caches; an eviction the owner carries out writes all words back |
| `pipeline` | all 9^4 programs of four entangled instructions and 14^3 of three that may be odd, every pattern of stalls | `IsaInv`, `CrashesOnlyStrayed`, `ImplementsIsaUnlessStrayed`, `RetriesSameAccess`, `HazardEnds`, `HaltDrains` | the pipeline implements `Isa` with its quirks, apart from the lost decoding, the unchecked registers and the end of the image, and calls a null operation only after it has strayed; the inductive invariant of that refinement |
| `machine` | 2 whole cores, 2 frames, 2 tags; pairs of programs that move data and come back to it; one pair with an empty file | `MachineInv`, `StalledOnItsAccess`, `QuietAtEnd`, `FifoHoldsQueue`, `CountersAccounted`, `StatisticsAddUp`, `HitsAccountedInSum`, `SequentiallyConsistent`, `ImplementsMemorySystem`, `EndsUnlessContended` | what programs see of the whole machine, how it ends, and what it counts |
| `assembler` | all sources of up to 4 lines of 19 kinds | `FirstPassInv`, `AssemblesSource`, `RejectsOnlyFaults`, `FilesLoadBack` | instructions and labels end up where the source says, and the processor loads them; the inductive invariant of the proofs about it |

Six further runs are expected to violate their property: section 5.

`GapGuardsUpgrade` says how far the packet behind an upgrade can be relied on. It
always comes right after the upgrade's `busRdX`, releases its sender, and leaves
it the block. If the `busRdX` gave up no iteration for a modified line in the
frame, which is what `isFirstShared` still says, the line is Exclusive: the store
hits before the next `Bus_Iter`. Otherwise an owner may have answered and left it
Shared (section 5); then its store queues another upgrade, a packet that was
already queued may take the block first, and the gap has guarded nothing.

`SequentiallyConsistent` is the refinement that ties the project together: every
step of the machine is one instruction of one core, executed as `Isa` says on one
shared memory, or nothing the programs can see. It is excused once a core has
strayed or run past the end of its image, a block has been spoiled, or the bus has
called for a cache that is not there. `ImplementsMemorySystem` says that pipelines
are an instance of the arbitrary workload of `MemorySystem`, as long as none has
strayed: a core that waits for an access through a stale R0 or link may change its
address, and then it offers the cache another access than the one it was refused.
`StalledOnItsAccess` is the tie between the two: a stalled pipeline is one whose
cache has an access pending, and that is the access in its MEM stage.

`BusServesEveryone` and `StallsOnlyWhenContended` are what is left of two
promises the documentation makes. It says that the bus is granted round robin
(docs 386-402) though `Bus_Iter` grants in order of arrival (`Bus.c` 140;
`prev_origid` is never used): in that order, too, everybody is served. It says
that a stall ends when the data is there (docs 199): it does, unless another core
keeps asking for the same block and one of the two stores. In particular loads
alone, and blocks that evict one another, stall nobody for ever.

`StatisticsAddUp` says what can be believed of `stats.txt`: the instructions are
exact, the `HALT` being one of them, and two to four cycles are neither an
instruction nor a stall. They would be three or four, those in which the pipeline
drains, but for a word that outlives the `HALT`: `DECODE` is marked empty and
keeps its last instruction, and the hazard check, which does not look at the mark
(`Pipeline.c` 231-283, 290-296), goes on counting decode stalls for it.
`CountersAccounted` says it cycle by cycle, of a core that runs and of one that
drains, with counters that wrap.

`HitsAccountedInSum` is as much as can be said of the hits: of a single core
they may be too few or too many, because a miss of one core sets the flag another
core's hit takes back.

### Bounds, and why they are enough

- *Two words per block, latency 1.* What matters is that a block takes several
  iterations, that there is a first and a last word, and an iteration of
  latency; 8 and 16 only add iterations of the same kind (`BusWait`, `BusWord`
  with an offset that is neither first nor last). The proofs need no bound.
- *Two tags per frame* are enough for a conflict. *One frame*: frames meet only
  in the FIFO; `two_frames` and `machine` have two, where packets of different
  frames queue.
- *Two or three cores.* Three are needed for an owner, a sender and a bystander
  called in every relative order.
- *One or two data words.* Control does not depend on data; two values suffice
  to see a wrong word. In `machine` words are register values, for addresses
  are computed from what is loaded.
- *The FIFO* is bounded by the code: a core has at most two packets that name
  it, and one invalid packet each, because it queues nothing while in a
  transaction (`TransactionLedger`). The queue of `machine` reaches four.
- *Workloads* smaller than "every access" are used with three cores to keep the
  state space small; they contain a dirty eviction, a write miss, an upgrade
  and a load of the same block.
- *Pipeline.* Four instructions fill the pipeline up to MEM, which is the
  longest distance at which a hazard exists; the image is filled up with
  `HALT`, which makes every program end or loop. Registers are 3 bits wide,
  immediates and targets 2, so that a sign and a target out of reach exist. The
  instruction set has both orders of a dependency, loads and stores through
  computed addresses, both kinds of branch with computed targets, and two
  instructions that read only R0 and R1, so that a hazard can meet a miss. The
  odd instructions are `JAL`, an ALU operation and a load into R0, a store
  through the link register, and a `HALT` that names a register.
- *Machine.* Programs of three instructions make one run of each pair, and all
  delays are the machine's own, so the number of pairs is what is explored. They
  are chosen so that evictions, upgrades, spoiled blocks, straying, both kinds of
  crash, a `HALT` that a stall swallows, one that waits for a register and leaves
  the phantom hazard of `StatisticsAddUp` behind, and the livelock of two stores
  all occur. Counters have 5 bits, which the longer runs wrap.
- *Assembler.* Four lines hold a label, a reference before or behind it and two
  lines between. The memory counts its words in one bit, so an image of more
  than two words is out of `MainMemory_Init`'s reach: 2^16 and 2^21 in the code.

### Fairness

`FairSpec` of `MemorySystem` is weak fairness of `Next`: the main loop calls
`Bus_Iter` and every `Core_Iter` in turn and nothing in it blocks, so some step
is always taken, and `turn` makes every component's step recur. A core is
*not* forced to make new accesses, but one that is stalled is called again with
its pending access, as the frozen pipeline does.

`FairMachineSpec` of `Machine` is weak fairness of `MachineNext`, for the same
reason; here the cores are real, and `EndsUnlessContended` says that programs
that end do so on the machine.

`FairSoloSpec` of `PipelineIsa` has weak fairness of `Proceeds`, the cycles that
are not refused: besides the main loop this assumes that the data cache accepts
every access in the end, which `StallsOnlyWhenContended` shows and
`store_livelock` limits. So `HaltDrains` and `HazardEnds` are about a core whose
accesses do get through.

Only `assembler` switches the deadlock check off: the assembler stops.

## 4. What is proved

The theorems hold for every number of cores, frames, tags and registers, any block
size, latency, word set, memory image, workload and set of programs. They assume
nothing but the named assumptions on the constants: that sizes are positive
(`SizesArePositive`, `RegistersAndBits`, `CounterBitsIsPositive`), latencies and
widths natural (`LatencyIsNat`, `PowersOfTwo`), images and programs of their types
(`ZeroIsAWord`, `MeminIsAnImage`, `WorkloadIsAccesses`, `ProgramsAreFiles`,
`DataIsAMemory`, `WordsAreValues`, `AnyAccessMayCome`), that a branch target is a
`uint16_t` (`TargetsArePcs`), and that the quirks are among those named
(`QuirksAreKnown`). Of a source they assume what the assembler takes for granted:
that its lines are lines and a name begins with a letter (`LinesAreLines`), and
that it is shorter than the instruction memory (`SizesFit`). TLC evaluates all of
them. Four theorems are about programs without conflicts, and say so
(`NoConflicts`, and `Latency # 0` where it matters); the instance of `two_frames`
is one. Two, `WritesUncontestedAlways` and `GapGuardsEveryUpgrade`, need a
transaction to take more than one iteration (`Latency # 0 \/ BlockSize # 1`),
for in its first a `busRdX` still finds the copies it is about to invalidate.

| Module | Theorem | Statement |
| --- | --- | --- |
| `MemoryProofs` | `InductiveInvariant` | `Spec => []IInv` |
| | `TypeCorrect`, `SingleOwnerAlways`, `EvictionsStayPaired`, `BurstsInStep` | the invariants `TypeOK`, `SingleOwner`, `EvictionPaired`, `BurstInStep` |
| `LedgerProofs` | `LedgerInductive` | `Spec => [](IInv /\ LedgerInv)` |
| | `LedgerAlways` | `TransactionLedger` always |
| `CoherenceProofs` | `EvictionsWriteBack` | the action property `OwnEvictionWritesBack` |
| | `WritesUncontestedAlways`, `GapGuardsEveryUpgrade` | if `Latency # 0 \/ BlockSize # 1`, `Spec => [](IInv /\ LedgerInv /\ WritesUncontested)` and the action property `GapGuardsUpgrade` |
| | `DataInductive`, `CoherentAlways` | `DataInv` and `CoherentUnlessSpoiled` always |
| | `NoConflictInductive` | `NoConflicts` implies `Spec => [](IInv /\ NoConflictInv)` |
| | `OwnersSupplyBlocks`, `MemoryAlwaysTakesItsTime`, `OnlyStoresSpoilBlocks` | under `NoConflicts`, the action properties `OwnerSuppliesBlock`, `MemoryTakesItsTime` (if `Latency # 0`) and `OnlyStoresSpoil` |
| `PipelineProofs` | `PipelineInductive`, `CrashesOnlyAlways` | `PipelineInv` and `CrashesOnlyStrayed` always |
| | `RefusedAlwaysRetried` | the action property `RetriesSameAccess` |
| `IsaProofs` | `IsaInductive` | `SoloSpec => [](IsaInv /\ MemoriesTypeOK)` |
| | `PipelineImplementsIsa` | the pipeline implements `Isa` with all five quirks: `ImplementsIsaUnlessStrayed` |
| `BusFifoProofs` | `EnqueuedHolds`, `DequeuedHolds`, `EmptyWhenHeadless`, `EnqueuedInOrderHolds`, `DequeuedListHolds` | the linked list is a FIFO, of any length |
| `MachineProofs` | `MachineInductive`, `StallsMatchAlways` | `MachineInv` and `StalledOnItsAccess` always |
| | `MachineCoherent` | `CoherentUnlessSpoiled` and `SingleOwner` of the whole machine |
| | `QuietAtEveryEnd`, `FifoAlwaysHolds` | `QuietAtEnd` and `FifoHoldsQueue` always |
| | `MachineImplements` | the machine's steps are those of the memory system: `ImplementsMemorySystem` |
| | `MachineSequentiallyConsistent` | every step of the machine is one instruction of one core, or nothing: `SequentiallyConsistent` |
| | `MachineCountersAccounted`, `MachineStatisticsAddUp` | `CountersAccounted` and `StatisticsAddUp` always |
| `AssemblerProofs` | `FirstPassAlways` | `AssemblerSpec => []FirstPassInv` |
| | `SourceAssembled`, `OnlyFaultsRejected`, `FilesAlwaysLoadBack` | `AssemblesSource`, `RejectsOnlyFaults` and `FilesLoadBack` always |

In every module there is one lemma per action and, where an action disturbs
several conjuncts of the invariant, one step per conjunct.

**A single owner** (`IInv`). `SingleOwner` is not inductive: while a block is on
its way, the sender's frame has the new tag and an old state. So `SingleOwner`
excepts the frame *in transfer*, and the rest of `IInv` says why nobody sees that
frame:

- `SenderIsBusy`: the core of the packet in progress is in state `operation`
  (in `finally` just after its flush), so its cache accepts no access;
- `EvictionPaired`: a frame whose flush is over stays in transfer only until
  the next packet, which must be the read that replaces it;
- `PacketsWellFormed`: the packet without a command is never operated on;
- `BurstInStep`: the memory's counter and the bus's offset agree, from which
  the bound of `counter` in `TypeOK` follows; it has to say what happens if a
  store turns a line modified after the memory has started to count.

The core of the proof is `BusWordStep`: when the last word has been moved, the
sender's new state (`Respond`) and everyone else's (`SnoopedMesi`) must leave a
single owner; `ReadLeavesNoOtherOwner` derives it from what the shared line said,
and `SnoopingSMLowers` from the snooping table.

**Requests and releases** (`LedgerInv`). That a core is in a transaction exactly
as long as the bus owes it one needs to know what the FIFO holds: a core has a
flush and a read queued, or the flush on the bus and the read queued, or the read
on the bus, and its transaction state says which (`OneRequestEach`). For the gap
behind an upgrade there are two more parts: the packet before an invalid one is
the `busRdX` of an upgrade (`UpgradesGuarded`), and what was queued is what the
pending access needs (`RequestsMatch`). The last one alone depends on a core
repeating its access; the other two, `RequestsInOrder`, do not, and are what the
machine keeps even when a core strays.

**Upgrades** (`WritesUncontested`). That the sender of a `busRdX` ends Exclusive
is a fact about the whole transaction: the shared line is read in its last
iteration, the other copies went in its first. `WritesUncontested` carries one to
the other: as long as no iteration was given up, no modified line was in the frame,
so every copy of the block was invalidated when the packet first passed
(`OthersLoseBlock`), none comes back, and the shared line is down when the last
word comes. With `LedgerInv` this is `GapGuardsUpgrade`. It needs the first
iteration not to be the last (`FirstIsNotLast`).

**Evictions** (`EvictionInv`). The flush of an eviction writes back what the line
holds if the frame still has the tag the packet was queued with
(`FlushOfItsFrame`), if what has passed of a dirty block is in memory and stays
there (`FlushUndisturbed`), and if no read replaces a line that is still modified,
for then the line would leave Modified unwritten (`ReadsIntoCleanFrame`).

**Coherence** (`DataInv`). For each block that is not spoiled there is a place
that holds its last stored words: an owner's line if there is one, else memory.
While a block moves, the words that have passed are the last stored ones, in
memory and in the sender's frame (`BurstMovesLatest`). The step that needs most
care is the last word of a snooped read, in which the owner stops being one; the
three events of `Coherence` are exactly the cases in which the argument fails, and
the proof shows there is no fourth.

**Programs without conflicts** (`NoConflictInv`). Three of the ways this code
departs from its documentation need two blocks that compete for a frame. Where no
two do (`NoConflicts`, a condition on the workload alone), a frame holds the block
its core asks for or none, so a miss never finds a modified line, no flush is ever
queued (`OnlyWantedBlocks`), and a modified line in the frame of a read is of the
block it reads (`ModifiedLineAnswers`): memory is not hurried. That the sender does
not answer itself takes `SenderHasNoRival`. When a packet is granted the bus it is
`SingleOwner`, with no flush and so no frame in transfer to except; afterwards the
sender's frame gets no valid block before the last word, and no other core gains a
right to store. So no iteration of the bus spoils a block, and by `CoherentAlways`
such a program reads a stale word only after a store the bus has overtaken, which
needs no conflict (`overtaken_store`).

**The pipeline** (`PipelineInv`). A refused access is offered again unchanged
because no instruction ahead of it writes a register it reads. That is what the
hazard check is for, but the check happens in `DECODE` and the access in `MEM`,
any number of stalls later. `HazardFree` carries it along: no instruction past the
check (`Checked`) reads a register that an older one has yet to write.
`OperationsDecoded`, `HaltEmpties` and `HaltIsLast` say what the stages may hold,
`BranchesUpToDate` and `RewritesSame` that an instruction without a result
rewrites what its register holds, and `ExecuteIsDecoded` that the function pointer
is there. The last four hold of a core that has not strayed; `CrashesOnlyStrayed`
follows from them.

**The pipeline implements the instruction set** (`IsaInv`). The refinement
mapping is a promise about what is not yet done: that the instructions in the
stages, and those still to be fetched, are the ones the program executes next, and
that what they have computed is what they would compute now. `InProgramOrder`
spells it out for a core that has not strayed:

- `HoldsProgram`: a stage holds the instruction its address says;
- `FillsInOrder`: holes do not come out of FETCH, and which stages have already
  done their work when a stall ends. Without it an empty DECODE could hide an
  instruction of which the younger half of the pipeline knows nothing;
- `FollowsBranches`: the second address behind a branch, its delay slot being
  the first, is the one its condition chooses over the registers *as they are
  now*, though the branch was resolved up to two stages and any number of stalls
  ago;
- `HoldsResults`: so for what EXECUTE has computed;
- `RemembersHalt`: where the `HALT` is that stopped the fetching.

The last three are stable because no older instruction in the stages writes what
a younger one has read: `HazardFree` for the registers the hazard check looks
at, and for R0 and the link register that `Watch` has not caught the core
reading them early (`SettledUndisturbed`).

A cycle that is refused writes one instruction back, whose result the mapping
has counted already, and leaves `Upcoming` as it is (`RefusedStutters`). One
that is not takes its first address away: what was behind EXECUTE is then behind
MEM, and one address is added at the other end, whether the cycle moves or
leaves a hole (`AcceptedIsAStep`). The instruction that leaves MEM has the operands,
the target and the result it has in `Isa`, by the parts above. If MEM is empty
nothing is executed, and `FillsInOrder` says that nothing was lost. `Isa` is taken
with all five quirks, as the code has them; that they are needed is TLC's to show
(`jal_falls_through` allows for none).

**The whole machine** (`MachineInv`) needs the tie `StalledOnItsAccess`, and
little else beside the invariants of the parts, `DataInv` and `IsaInv`: what a
cache owes its core is what the pipeline will ask for next. The lemmas of
`PipelineProofs` are about the same pipeline with a private memory per core;
`SamePipelines` shows that the machine's instance of it is one. `QuietAtEnd`
follows without any statement about time: a core with a pending access is stalled,
a stalled core has an instruction in MEM, and so is neither flushed nor halted;
with no access pending the ledger leaves no packet, in the queue or on the bus.

**Sequential consistency.** A cycle that is refused leaves `Upcoming` and the
registers to come as they are, by `IsaInv`. In one that is answered a load is a
hit, and a hit finds the last stored word (`HitFindsLatest`): the frame is valid
and not in transfer, or the core would be in a transaction, so
`CoherentUnlessSpoiled` is about it. A store that hits changes the one cell of
`latest` its address names (`StoreByCell`). So the cache answers as the memory of
`Isa` would (`CacheServes`), and `AcceptedIsAStep` of `IsaProofs`, which asks
nothing else of a memory, makes the cycle an instruction of that core, for `Isa`
with the five quirks the code has (the theorem assumes `Quirks = AllQuirks`). For
the other cores the step is nothing (`OthersSeeNothing`): their part of the
mapping is their own stages, and the memory, which is shared, is a variable of the
instance and not of the core. `StepIsSeen` adds the bus, which no program sees.

**The statistics** (`CountersAccounted`). The counters wrap, so what is proved of
them are congruences modulo their width (`Congruent`). While a core runs
(`CountsRunning`), its counted instructions are those executed and those in the
stages, and no cycle is unaccounted for; a cycle that stalls puts both off by one,
which the next one makes up for (`StalledLast`). When the `HALT` is decoded
(`HaltCounts`), two more than these are counted, and the drain begins.
`CountsDraining` says what it adds: the cycles without an explanation (`Spare`)
and those to come (`Depth`) make up a `level` that a cycle leaves as it is, unless
the word left in `DECODE` finds a hazard in a stage (`Haunts`): that cycle is
counted as a stall, and the level sinks by one. It does not sink below 1, because
each stage is left behind once the instruction in it has caused its hazard or
could not (`HauntsMoveOn`).

**The assembler** (`FirstPassInv`). The address of a line is the number of
instructions above it, a cardinality, not a recursion; all the proofs need to know
is that it grows by one with an instruction and by nothing with any other line,
and that a line more leaves the addresses above it alone (`AddressGrows`,
`AddressStays`). `PlacesInOrder` says that `PC` is the address of the next line
and that every place below it has its instruction; `LabelsKept`, that a label that
is stored belongs to a line with that address, and that a line's label is there
unless a later one has the same address; `ReferencesKept` and `WordsKept`, what
the instruction of a line has left at its address. Then the second pass has for a
plain name exactly one place to choose from, the one its label stands for
(`PlainIsFound`), which makes the words right, and shows that a missed label
belongs to a name that is not plain. The files need only the types: `LengthIs`
says that beyond its length an image is zero.

**The FIFO.** `HoldsAlong` names the nodes along the path from the tail to the
head, and says what each must hold and where each must point. The new node
differs from those on the path because a heap of finitely many nodes has a free
address (`FreshNodeIsFresh`). `FifoAlwaysHolds` needs one fact about the memory
system, that an access queues at most two packets.

### What is only model-checked

- `HitsAccountedInSum`: a sum over the cores is recursion over data, which the
  provers cannot unfold.
- Every liveness property: `ENABLED` is out of the prover's reach.

## 5. Where the code and its documentation disagree

Each is a run TLC ends with a counterexample. The livelock, the stale sender
and the lost decoding were also reproduced by running the simulator.

| Run | Property | What happens |
| --- | --- | --- |
| `store_livelock` | `StallEnds` | Two cores that store to one block take it from each other for ever: a core that is given the block retries only after the `Bus_Iter` that grants the next `busRdX`, whose snoop invalidates the line at once. Neither store is ever accepted. |
| `overtaken_store` | `DirtyWrittenBack` | A modified line stays modified until the last word of a snooped read, and its core may store meanwhile. A word stored behind the words already moved is in neither memory nor the reader's copy. |
| `stale_sender` | `OwnerSuppliesBlock` | The sender's own cache, called after the owner, sees the owner's flush; from the second word on its tag matches, and it overwrites the word on the bus with what its frame held before. |
| `late_flush` | `FlushWritesLiveData` | The flush of an eviction waits in the FIFO with one word. If its block is taken first, no cache supplies words when it is served and that one word is written to the whole block. |
| `lost_decode` | `ImplementsIsa` | A hazard that holds `DECODE` in the iteration a memory stall begins has gone when the stall ends, so the held instruction moves on undecoded and its successor is fetched twice; `EXECUTE` calls a null pointer. |
| `jal_falls_through` | `ImplementsIsaUnlessStrayed` | `JAL` overwrites the register it is to jump through with the link and goes to its own return address; with no quirk allowed for, the pipeline does not implement `Isa`. |

Smaller ones have no run of their own. A modified line of *another* block in the
same frame makes memory answer without its latency (`shared_signal_handle` does
not compare tags; `MemoryTakesItsTime` therefore holds only without conflicting
tags). A `busRdX` that an owner answers leaves its sender with a Shared line, though
no other copy is left: in the iteration of the last word `Bus_Iter` asks for the
shared line before the caches snoop (`Bus.c` 160, 166), and the store needs one
more upgrade, where the documentation has a single `BusRdX` (docs 755, 757;
`GapGuardsUpgrade` excepts this case). The bus is not round robin, and the hits of a single core are not exact,
nor are its decode stalls after a `HALT` (section 3). The other four quirks of section 2 are allowed for in `pipeline` and `machine`. A core with
an empty file makes the next transaction of any other read through a null pointer
(`BusCrashes`).

In the assembler `Plain` says which labels are safe: a reference is cut at its
first letter *n* (`asm.c` 197) and a label is overwritten by a second one at the
same address (`asm.c` 82). An instruction with a missing token or an unknown
register is dropped without a word, an immediate that cannot be read is the one
of the line before, and a line with nothing but its end is taken for an unknown
opcode (`broken`).

## 6. Not modelled, and the plan

Not modelled: file handling, traces, dumps and the teardown (output only);
`Cache_FlushToMemory` and, below it, `MainMemory_DirectWrite`, which nothing
calls; allocation failure in the FIFO; what lies behind the instruction image (any
instruction, if the program counter gets there), and a source that overflows the
arrays of the assembler; how characters become tokens, and a `.word` whose numbers
cannot be read; the bits of a packet that are only printed.

The order of the work:

1. *(done)* bus, caches, memory and main loop; their invariants; the proof of
   `IInv`; coherence of data; the pipeline against the documented instruction
   set.
2. *(done)* the quirks of the instruction set; the counters and the shared flag;
   the linked list; the composition of pipelines and memory system up to the end
   of the main loop, with sequential consistency; the assembler and its files;
   the list proved a FIFO.
3. *(done)* the ledger, the evictions, coherence of data, the stages of the
   pipeline, and the invariant of the whole machine, proved; the machine proved to
   be an instance of the memory system; the refinement of `Isa` by the pipeline.
4. *(done)* sequential consistency of the machine for all constants, with `Isa` over
   memory cells; the counters, with the invariant that explains them; the
   assembler and its files.

What is left for the provers is out of their reach (section 4). What the model
could still take in is what lies outside the arrays: a source longer than the
instruction memory, and an allocation that fails.
