------------------------------ MODULE Machine ------------------------------
(***************************************************************************)
(* The whole machine: the main loop of MulticoreProcessor.c over the bus,  *)
(* the caches and the memory of MemorySystem and the pipelines of          *)
(* Pipeline. A core's turn is one Core_Iter, which may make one access to  *)
(* its cache; the address comes from the registers of its program, and     *)
(* what the cache answers decides how the pipeline goes on. The FIFO of    *)
(* the bus is also kept as the linked list of BusFifo, the counters are    *)
(* those of Statistics. Given the programs the machine is deterministic.   *)
(***************************************************************************)
EXTENDS Coherence, Opcodes, BusFifo

CONSTANTS
  InstructionsMemorySize,  \* INSTRUCTIONS_MEMORY_SIZE (1024)
  Programs,                \* the instruction files the cores may be given
  PcBits,                  \* bits of a branch target in the documentation (10)
  Quirks,                  \* the differences between the machine and Isa
  CounterBits              \* bits of a counter (32)

VARIABLES
  imem, pc, regs, stage, halted, dataHazardStall, memoryStall, coreHalted,
  crashed, haltAt, strayed,  \* see Pipeline and PipelineIsa
  registered,                \* the cores whose cache the bus knows
  fifo,                      \* the linked list of the bus
  statistics, missOccurred,  \* see Statistics
  executed,                  \* instructions core c has executed (history)
  completed                  \* loads and stores of all cores done (history)

-----------------------------------------------------------------------------
(***************************************************************************)
(* Addresses: a number is cut into offset, index and tag, and what is      *)
(* above the tag is lost.                                                  *)
(***************************************************************************)
OffsetOf(v) == v % BlockSize
IndexOf(v)  == (v \div BlockSize) % FrameSize
TagOf(v)    == (v \div (BlockSize * FrameSize)) % NumberOfTags

\* The word of the main memory that an address names.
CellOf == [v \in Values |-> <<TagOf(v), IndexOf(v), OffsetOf(v)>>]

\* An image of the main memory as a program sees it, word by word.
ByCell(image) ==
  [cell \in {CellOf[v] : v \in Values} |-> image[cell[1]][cell[2]][cell[3]]]

P == INSTANCE PipelineIsa WITH
  Data <- ByCell(Memin), dmem <- [c \in Cores |-> ByCell(latest)]

S == INSTANCE Statistics

ASSUME WordsAreValues == Words = Values
ASSUME AnyAccessMayCome == Workload = [c \in Cores |-> Accesses]
ASSUME ProgramsAreFiles == Programs \subseteq [Cores -> Seq(Instructions)]
ASSUME TargetsArePcs == 2^TargetBits \in 1 .. P!NoPc + 1
ASSUME QuirksAreKnown ==
  /\ Quirks \subseteq {"zero", "immediate", "target", "link", "halt"}
  /\ PcBits \in Nat
ASSUME CounterBitsIsPositive ==
  CounterBits \in Nat \ {0} /\ 2^CounterBits \in Nat \ {0}

\* The access the instruction in MEM makes.
AccessOf(c) ==
  LET v == P!DataAddress(c)
  IN  [op |-> stage[c]["mem"].ins.op, tag |-> TagOf(v), index |-> IndexOf(v),
       offset |-> OffsetOf(v), data |-> IF P!Stores(c) THEN P!DataWord(c) ELSE 0]

-----------------------------------------------------------------------------
memorySystemVars == <<vars, history>>
coreVars         == <<imem, pc, regs, stage, halted, dataHazardStall,
                      memoryStall, coreHalted>>
watchVars        == <<haltAt, strayed>>
recordVars       == <<registered, fifo, statistics, missOccurred, executed,
                      completed>>
machineVars      == <<memorySystemVars, coreVars, crashed, watchVars,
                      recordVars>>

MachineInit ==
  /\ Init
  /\ HistoryInit
  /\ P!PipelineInit
  /\ P!WatchInit
  /\ registered = {c \in Cores : ~coreHalted[c]}
  /\ fifo = EmptyFifo
  /\ S!StatisticsInit(coreHalted)
  /\ executed = [c \in Cores |-> 0]
  /\ completed = [op \in {"lw", "sw"} |-> 0]

\* The packets the step hands to Bus_AddTransaction, in their order.
Added == SubSeq(queue', Len(queue) + 1, Len(queue'))

\* The records of a cycle, and the linked list of what it has queued.
Recorded(c, accepted, outcome) ==
  LET op == stage[c]["mem"].ins.op
  IN  /\ P!Watch(c, accepted)
      /\ fifo' = EnqueuedInOrder(fifo, Added)
      /\ S!CountCycle(c, ~halted[c] /\ ~memoryStall[c] /\ ~dataHazardStall[c],
                      dataHazardStall'[c], memoryStall'[c], op, outcome)
      /\ executed' = [executed EXCEPT ![c] =
                        IF accepted /\ P!Full(c, "mem") /\ op # "halt"
                        THEN @ + 1 ELSE @]
      /\ completed' = [k \in {"lw", "sw"} |->
                         IF outcome = "hit" /\ k = op THEN completed[k] + 1
                                                      ELSE completed[k]]
      /\ UNCHANGED registered

\* A cycle of core c in which it gets on; word answers its load.
Cycle(c, word) == P!CycleBubbles(c, word) \/ P!CycleMoves(c, word)

\* The turn of core c passes without a call of its cache.
CorePasses(c) ==
  /\ CoreTurn(c)
  /\ UNCHANGED <<cacheVars, memoryVars, busVars, pending>>

\* MEM holds neither a load nor a store.
CycleWithoutAccess(c) ==
  /\ ~P!AccessesData(c)
  /\ CorePasses(c)
  /\ Cycle(c, 0)
  /\ Recorded(c, TRUE, "none")
  /\ UNCHANGED history

CycleLoads(c) ==
  LET a == AccessOf(c)
  IN  /\ P!AccessesData(c)
      /\ ReadHit(c, a)
      /\ Cycle(c, dsram[c][a.index][a.offset])
      /\ Recorded(c, TRUE, "hit")
      /\ UNCHANGED history

CycleStores(c) ==
  /\ P!AccessesData(c)
  /\ CoherenceStore(c, AccessOf(c))
  /\ Cycle(c, 0)
  /\ Recorded(c, TRUE, "hit")

\* Mutant: the pipeline moves on though its cache has refused the access.
CycleMissesMoving(c) ==
  /\ P!AccessesData(c)
  /\ WriteUpgrade(c, AccessOf(c)) \/ Miss(c, AccessOf(c))
  /\ Cycle(c, 0)
  /\ Recorded(c, FALSE, "miss")
  /\ UNCHANGED history

CycleMisses(c) ==
  /\ P!AccessesData(c)
  /\ WriteUpgrade(c, AccessOf(c)) \/ Miss(c, AccessOf(c))
  /\ P!CycleStalls(c)
  /\ Recorded(c, FALSE, "miss")
  /\ UNCHANGED history

CycleWaits(c) ==
  /\ P!AccessesData(c)
  /\ CoreWait(c, AccessOf(c))
  /\ P!CycleStalls(c)
  /\ Recorded(c, FALSE, "none")
  /\ UNCHANGED history

\* Core_Iter does not get as far as the caches.
CoreStops(c) ==
  /\ P!CoreHalts(c) \/ P!Crashes(c) \/ P!Rests(c)
  /\ CorePasses(c)
  /\ UNCHANGED <<history, watchVars, recordVars>>

CoreIter(c) ==
  \/ CycleWithoutAccess(c)
  \/ CycleLoads(c)
  \/ CycleStores(c)
  \/ CycleMisses(c)
  \/ CycleWaits(c)
  \/ CoreStops(c)

-----------------------------------------------------------------------------
\* ProcessorHalted.
ProcessorHalted == \A c \in Cores : coreHalted[c]

\* The bus runs the callbacks of every cache, registered or not.
CallsUnregistered == InTransaction /\ registered # Cores

BusServes ==
  /\ ~CallsUnregistered
  /\ CoherenceBusStep
  /\ fifo' = IF busInProgress THEN fifo ELSE Dequeued(fifo)
  /\ UNCHANGED <<coreVars, crashed, watchVars, registered, statistics,
                 missOccurred, executed, completed>>

\* A callback reads through the null pointer of a cache that is not there.
BusCrashes ==
  /\ turn = BusTurn
  /\ CallsUnregistered
  /\ crashed' = TRUE
  /\ UNCHANGED <<memorySystemVars, coreVars, watchVars, recordVars>>

\* The loop of main ends, or the process is gone.
Ended == crashed \/ (turn = BusTurn /\ ProcessorHalted)

MachineNext ==
  \/ ~Ended /\ (BusServes \/ BusCrashes)
  \/ ~Ended /\ \E c \in Cores : CoreIter(c)
  \/ Ended /\ UNCHANGED machineVars

MachineSpec == MachineInit /\ [][MachineNext]_machineVars

\* Nothing in the main loop blocks.
FairMachineSpec == MachineSpec /\ WF_machineVars(MachineNext)

-----------------------------------------------------------------------------
(***************************************************************************)
(* A core is stalled exactly while its cache owes it an access, and it     *)
(* does not halt meanwhile. Unless it has strayed, the access is the one   *)
(* its MEM stage would make now, though the stages around it have moved on *)
(* (Pipeline.c 81-113, 165-177, Core.c 53-76).                             *)
(***************************************************************************)
StalledOnItsAccess ==
  \A c \in Cores :
    /\ memoryStall[c] <=> pending[c] # NoAccess
    /\ memoryStall[c] => P!AccessesData(c) /\ ~coreHalted[c]
    /\ memoryStall[c] /\ ~strayed[c] => pending[c] = AccessOf(c)

(***************************************************************************)
(* The inductive invariant of the machine: those of its parts (the stages  *)
(* of a core that has not strayed hold its program, in order and with its  *)
(* results), what ties them together, and that a crash has one of its two  *)
(* causes: a core that has strayed, or a cache that is not there.          *)
(***************************************************************************)
MachineInv ==
  /\ DataInv
  /\ P!IsaInv
  /\ S!StatisticsTypeOK
  /\ registered \subseteq Cores
  /\ StalledOnItsAccess
  /\ crashed => registered # Cores \/ \E c \in Cores : strayed[c]

(***************************************************************************)
(* The events after which nothing is promised any more: a core has strayed *)
(* from its program or run past the end of its image, a block has been     *)
(* spoiled, or the bus has called for a cache that is not there.           *)
(***************************************************************************)
Excused ==
  \/ \E c \in Cores : strayed'[c] \/ P!PastImage(c)
  \/ spoiled' # {}
  \/ registered # Cores /\ crashed'

\* Core c executes one instruction of its program on the shared memory.
Executes(c) ==
  /\ P!I(c)!Next
  /\ \A d \in Cores \ {c} : UNCHANGED P!I(d)!coreVars

\* What a step is to the programs: one instruction of one of them, or none.
SeenByPrograms ==
  \/ \E c \in Cores : Executes(c)
  \/ UNCHANGED <<latest, crashed>> /\ \A c \in Cores : UNCHANGED P!I(c)!coreVars
  \/ Excused

(***************************************************************************)
(* The machine is sequentially consistent: each core executes its program  *)
(* in order, one instruction after the other on one memory, in which a     *)
(* load finds what was last stored by any core, and nothing else happens.  *)
(* Caches, bus, stalls and delays are invisible to the programs.           *)
(***************************************************************************)
SequentiallyConsistent == [][SeenByPrograms]_machineVars

(***************************************************************************)
(* The machine implements MemorySystem, in which a core is only a source   *)
(* of accesses: a pipeline asks its cache for one access at a time, and    *)
(* for the same one until it is done, whatever else it does in the         *)
(* meantime. So what is proved of MemorySystem holds of the machine, until *)
(* a core reads a stale R0 or link: the address it waits for may change.   *)
(***************************************************************************)
ImplementsMemorySystem == [][Next \/ \E c \in Cores : strayed'[c]]_vars

(***************************************************************************)
(* A program's end cuts off no transaction: when the last core has halted  *)
(* nobody waits for the bus, no block is half moved and no packet is left, *)
(* though a core halts without a look at the bus (MulticoreProcessor.c 25, *)
(* Core.c 59-62).                                                          *)
(***************************************************************************)
QuietAtEnd ==
  turn = BusTurn /\ ProcessorHalted =>
    /\ ~busInProgress
    /\ \A c \in Cores : pending[c] = NoAccess
    /\ \A c \in Cores : transactionState[c] = "idle"
    /\ queue = <<>>

(***************************************************************************)
(* The linked list holds the packets of the queue in their order, over     *)
(* every mix of calls of the caches and the bus (Bus.c 234-277).           *)
(***************************************************************************)
FifoHoldsQueue ==
  \E path \in [1 .. Len(queue) -> DOMAIN fifo.node] :
    HoldsAlong(fifo, path, queue)

(***************************************************************************)
(* What stats.txt says of a core that has halted: as many instructions as  *)
(* it has executed, its HALT with them, and no cycle unaccounted for: an   *)
(* instruction, a stall, or one of the last four, in which the pipeline    *)
(* drains (three if a stall swallows the HALT). The word that is left in   *)
(* DECODE, though it is empty, may make this one or two less: the hazard   *)
(* check takes it for an instruction (Pipeline.c 231-283, 290-296).        *)
(***************************************************************************)
NoSources(c) == P!Sources(stage[c]["decode"].ins) \subseteq P!Fixed

\* The cycles of which stats.txt has no more to say.
Unexplained(c) ==
  LET s == statistics[c]
  IN  S!PrintedCycles(c) - S!PrintedInstructions(c) - s.decodeStalls - s.memStalls

StatisticsAddUp ==
  \A c \in registered :
    coreHalted[c] /\ ~strayed[c] =>
      /\ S!PrintedInstructions(c) = (executed[c] + 1) % 2^CounterBits
      /\ \E k \in IF NoSources(c) THEN 3 .. 4 ELSE 2 .. 4 :
           Unexplained(c) % 2^CounterBits = k % 2^CounterBits

-----------------------------------------------------------------------------
(***************************************************************************)
(* Why the statistics add up.                                              *)
(***************************************************************************)
One(condition) == IF condition THEN 1 ELSE 0

\* The counters cannot tell a and b apart.
Congruent(a, b) == (a - b) % 2^CounterBits = 0

\* The instructions that are yet to be executed.
InFlight(c) == One(P!Unfinished(c, "decode")) + One(P!Unfinished(c, "execute"))
                 + One(P!Unfinished(c, "mem"))

\* The cycles until the last of the stages behind DECODE is empty.
Depth(c) == IF P!Full(c, "execute") THEN 3
            ELSE IF P!Full(c, "mem") THEN 2
            ELSE One(P!Full(c, "writeback"))

StalledLast(c) == One(dataHazardStall[c] \/ memoryStall[c])

\* The cycles that are neither of an instruction nor of a stall.
Spare(c) ==
  LET s == statistics[c]
  IN  s.cycles + 1 - s.instructions - s.decodeStalls - s.memStalls

\* The hazard check finds a source of what was left in DECODE in stage s.
Haunts(c, s) ==
  /\ P!Writes(c, s)
  /\ stage[c][s].ins.rd \in P!Sources(stage[c]["decode"].ins) \ P!Fixed

\* An instruction is counted in the cycle after it has left FETCH.
CountsRunning(c) ==
  /\ Congruent(statistics[c].instructions,
               executed[c] + InFlight(c) + StalledLast(c))
  /\ Congruent(Spare(c) + StalledLast(c), 0)
  /\ NoSources(c) /\ P!Full(c, "mem") => P!Full(c, "execute")

\* The HALT counts, and what follows it; level is what the drain will add.
CountsDraining(c) ==
  /\ Congruent(statistics[c].instructions, executed[c] + InFlight(c) + 2)
  /\ \E level \in 1 .. 3 :
       /\ Congruent(Spare(c) + Depth(c), level)
       /\ NoSources(c) => level # 1
       /\ ~Haunts(c, "execute")
       /\ level < 3 => ~Haunts(c, "mem")
       /\ level < 2 => ~Haunts(c, "writeback")

(***************************************************************************)
(* What the counters of a core that has not strayed say while it runs and  *)
(* while it drains, in terms of what its stages hold: the inductive        *)
(* invariant of the statistics.                                            *)
(***************************************************************************)
CoreAccounted(c) ==
  /\ coreHalted[c] => P!Flushed(c)
  /\ ~strayed[c] /\ ~halted[c] => CountsRunning(c)
  /\ ~strayed[c] /\ halted[c] => CountsDraining(c)

CountersAccounted ==
  /\ executed \in [Cores -> Nat]
  /\ \A c \in registered : CoreAccounted(c)

-----------------------------------------------------------------------------
(***************************************************************************)
(* Of one core the hits say little, for miss_occurred is shared: a miss of *)
(* one makes a hit of another go uncounted, or its own retry count as one. *)
(* Summed over the cores they are right: a load that is done was counted   *)
(* as a hit or as the retry of a miss, and no miss is retried twice; so    *)
(* for stores, as long as no counter wraps (Cache.c 67, 80-89, 111,        *)
(* 135-147).                                                               *)
(***************************************************************************)
Summed(counts, op) == MapThenSumSet(LAMBDA c : counts[c][op], Cores)

HitsAccountedInSum ==
  ProcessorHalted => \A op \in {"lw", "sw"} :
    LET hits    == Summed([c \in Cores |-> statistics[c].hits], op)
        misses  == Summed([c \in Cores |-> statistics[c].misses], op)
    IN  completed[op] \in hits .. hits + misses

-----------------------------------------------------------------------------
(***************************************************************************)
(* The programs end, unless cores keep contending for a block for ever.    *)
(***************************************************************************)
EndsUnlessContended ==
  <>Ended \/ []<>(\E c, d \in Cores : Contend(c, d))
=============================================================================
