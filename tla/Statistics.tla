----------------------------- MODULE Statistics -----------------------------
(***************************************************************************)
(* The counters of a core (Core.c 143-148), of its pipeline (Pipeline.c    *)
(* 290-296) and of its cache (Cache.c 66-157), and the two static flags of *)
(* Cache_ReadData and Cache_WriteData, which all the caches share.         *)
(***************************************************************************)
EXTENDS Integers

CONSTANTS
  Cores,       \* the cores
  CounterBits  \* bits of a counter (32)

VARIABLES
  statistics,   \* statistics[c]: the counters of core c
  missOccurred  \* miss_occurred of Cache_ReadData and of Cache_WriteData

statisticsVars == <<statistics, missOccurred>>

Counts == 0 .. 2^CounterBits - 1

\* hits and misses are of loads ("lw") and of stores ("sw").
StatisticsTypeOK ==
  /\ statistics \in [Cores -> [cycles : Counts, instructions : Counts,
                               decodeStalls : Counts, memStalls : Counts,
                               hits : [{"lw", "sw"} -> Counts],
                               misses : [{"lw", "sw"} -> Counts]]]
  /\ missOccurred \in [{"lw", "sw"} -> BOOLEAN]

NoAccesses == [op \in {"lw", "sw"} |-> 0]

\* Mutant: the cycles start at 0.
StatisticsInitAtZero(empty) ==
  /\ statistics = [c \in Cores |->
       [cycles |-> 0, instructions |-> 0, decodeStalls |-> 0, memStalls |-> 0,
        hits |-> NoAccesses, misses |-> NoAccesses]]
  /\ missOccurred = [op \in {"lw", "sw"} |-> FALSE]

\* Core_Init starts the cycles at -1, unless the core has no program.
StatisticsInit(empty) ==
  /\ statistics = [c \in Cores |->
       [cycles |-> IF empty[c] THEN 0 ELSE 2^CounterBits - 1,
        instructions |-> 0, decodeStalls |-> 0, memStalls |-> 0,
        hits |-> NoAccesses, misses |-> NoAccesses]]
  /\ missOccurred = [op \in {"lw", "sw"} |-> FALSE]

\* n, and one more if the condition holds.
CountIf(condition, n) == IF condition THEN (n + 1) % 2^CounterBits ELSE n

\* Mutant: the flag is not taken back.
HitKeepsFlag(op) == missOccurred' = missOccurred

(***************************************************************************)
(* What the cache notes of an access: "hit", "miss", or nothing if its     *)
(* core is in a transaction or makes none.                                 *)
(***************************************************************************)
HitTakesFlag(op) == missOccurred' = [missOccurred EXCEPT ![op] = FALSE]

NoteAccess(op, outcome) ==
  CASE outcome = "hit"  -> HitTakesFlag(op)
    [] outcome = "miss" -> missOccurred' = [missOccurred EXCEPT ![op] = TRUE]
    [] OTHER            -> UNCHANGED missOccurred

CountsAsHit(op, outcome) == outcome = "hit" /\ ~missOccurred[op]

\* Mutant: a stalled cycle of a data hazard is counted twice.
CountsAsDecodeStallAlways(hazard, stalled) == hazard

\* A data hazard is counted unless the memory stalls too.
CountsAsDecodeStall(hazard, stalled) == hazard /\ ~stalled

(***************************************************************************)
(* A cycle of core c: advanced says that it was neither halted nor stalled *)
(* at the end of the cycle before, hazard and stalled are the two stalls   *)
(* of this one, outcome is the answer of the cache to an access of kind op.*)
(***************************************************************************)
CountCycle(c, advanced, hazard, stalled, op, outcome) ==
  /\ statistics' = [statistics EXCEPT
       ![c].cycles = CountIf(TRUE, @),
       ![c].instructions = CountIf(advanced, @),
       ![c].decodeStalls = CountIf(CountsAsDecodeStall(hazard, stalled), @),
       ![c].memStalls = CountIf(stalled, @),
       ![c].hits = [k \in DOMAIN @ |->
                      CountIf(k = op /\ CountsAsHit(op, outcome), @[k])],
       ![c].misses = [k \in DOMAIN @ |->
                        CountIf(k = op /\ outcome = "miss", @[k])]]
  /\ NoteAccess(op, outcome)

\* What print_statistics adds and takes away.
PrintedCycles(c)       == (statistics[c].cycles + 1) % 2^CounterBits
PrintedInstructions(c) == (statistics[c].instructions - 1) % 2^CounterBits
=============================================================================
