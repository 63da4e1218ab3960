---------------------------- MODULE MemorySystem ----------------------------
(***************************************************************************)
(* Cores, caches, bus and main memory under the main loop of               *)
(* MulticoreProcessor.c: one Bus_Iter, then one Core_Iter per core in the  *)
(* order of their ids, for ever. A core is seen through its MEM stage      *)
(* only: a load or a store of its workload may reach the stage in any      *)
(* iteration, and one that misses stalls the pipeline and is tried again   *)
(* in every later iteration until the cache accepts it.                    *)
(***************************************************************************)
EXTENDS Bus

CONSTANT Workload  \* Workload[c]: the accesses the program of core c makes

Accesses == [op : {"lw", "sw"}, tag : Tags, index : Frames,
             offset : Offsets, data : Words]

NoAccess == [op |-> "none", tag |-> 0, index |-> 0, offset |-> 0, data |-> 0]

ASSUME WorkloadIsAccesses == Workload \in [Cores -> SUBSET Accesses]

VARIABLES
  turn,    \* who the main loop calls next: a core, or the bus
  pending  \* pending[c]: the access that stalls the MEM stage of core c

vars == <<cacheVars, memoryVars, busVars, turn, pending>>

BusTurn == NumberOfCores

TypeOK ==
  /\ CacheTypeOK
  /\ MemoryTypeOK
  /\ BusTypeOK
  /\ turn \in Cores \cup {BusTurn}
  /\ pending \in [Cores -> Accesses \cup {NoAccess}]

Init ==
  /\ CacheInit
  /\ MemoryInit
  /\ BusInit
  /\ turn = BusTurn
  /\ pending = [c \in Cores |-> NoAccess]

-----------------------------------------------------------------------------
(***************************************************************************)
(* Core_Iter of core c, as far as the memory system sees it: the calls of  *)
(* the cache with access a.                                                *)
(***************************************************************************)
CoreTurn(c) == turn = c /\ turn' = turn + 1

\* The cache answered true or false, which is memory_stall.
Accepted(c)  == pending' = [pending EXCEPT ![c] = NoAccess]
Stalls(c, a) == pending' = [pending EXCEPT ![c] = a]

Hits(c, a) == Holds(c, a.tag, a.index)

\* No load or store is in the MEM stage, or the core has halted.
CoreIdle(c) ==
  /\ CoreTurn(c)
  /\ pending[c] = NoAccess
  /\ UNCHANGED <<cacheVars, memoryVars, busVars, pending>>

\* The early return of both calls.
CoreWait(c, a) ==
  /\ CoreTurn(c)
  /\ BusInTransaction(c)
  /\ Stalls(c, a)
  /\ UNCHANGED <<cacheVars, memoryVars, busVars>>

ReadHit(c, a) ==
  /\ CoreTurn(c)
  /\ a.op = "lw"
  /\ ~BusInTransaction(c)
  /\ Hits(c, a)
  /\ Accepted(c)
  /\ UNCHANGED <<cacheVars, memoryVars, busVars>>

WriteHit(c, a) ==
  /\ CoreTurn(c)
  /\ a.op = "sw"
  /\ ~BusInTransaction(c)
  /\ Hits(c, a)
  /\ mesi[c][a.index] # "shared"
  /\ dsram' = [dsram EXCEPT ![c][a.index][a.offset] = a.data]
  /\ mesi'  = [mesi EXCEPT ![c][a.index] = "modified"]
  /\ Accepted(c)
  /\ UNCHANGED <<tag, memoryVars, busVars>>

\* Mutant: the invalid packet is queued before the BusRdX.
WriteUpgradeGapFirst(c, a) ==
  /\ CoreTurn(c)
  /\ a.op = "sw"
  /\ ~BusInTransaction(c)
  /\ Hits(c, a)
  /\ mesi[c][a.index] = "shared"
  /\ BusAddTransactions(c, <<InvalidPacket,
                             Packet(c, "busRdX", a.tag, a.index, 0)>>)
  /\ Stalls(c, a)
  /\ UNCHANGED <<cacheVars, memoryVars>>

\* A store to a shared line: BusRdX, and the invalid packet behind it.
WriteUpgrade(c, a) ==
  /\ CoreTurn(c)
  /\ a.op = "sw"
  /\ ~BusInTransaction(c)
  /\ Hits(c, a)
  /\ mesi[c][a.index] = "shared"
  /\ BusAddTransactions(c, <<Packet(c, "busRdX", a.tag, a.index, 0),
                             InvalidPacket>>)
  /\ Stalls(c, a)
  /\ UNCHANGED <<cacheVars, memoryVars>>

(***************************************************************************)
(* dirty_block_handling: a modified block in the frame is queued for       *)
(* flushing before the block that replaces it is asked for. Its packet     *)
(* starts out with the word at the offset of the new address.              *)
(***************************************************************************)
DirtyBlock(c, a) ==
  IF mesi[c][a.index] = "modified"
  THEN <<Packet(c, "flush", tag[c][a.index], a.index,
                dsram[c][a.index][a.offset])>>
  ELSE <<>>

MissCommand(a) == IF a.op = "lw" THEN "busRd" ELSE "busRdX"

\* Mutant: the dirty block is flushed after the read that replaces it.
MissFlushLast(c, a) ==
  /\ CoreTurn(c)
  /\ ~BusInTransaction(c)
  /\ ~Hits(c, a)
  /\ BusAddTransactions(c, <<Packet(c, MissCommand(a), a.tag, a.index, 0)>>
                           \o DirtyBlock(c, a))
  /\ Stalls(c, a)
  /\ UNCHANGED <<cacheVars, memoryVars>>

Miss(c, a) ==
  /\ CoreTurn(c)
  /\ ~BusInTransaction(c)
  /\ ~Hits(c, a)
  /\ BusAddTransactions(c, DirtyBlock(c, a) \o
                           <<Packet(c, MissCommand(a), a.tag, a.index, 0)>>)
  /\ Stalls(c, a)
  /\ UNCHANGED <<cacheVars, memoryVars>>

\* mem() hands a to the cache: the stalled access, or a new one.
Presents(c, a) == pending[c] # NoAccess => a = pending[c]

CoreAccess(c) ==
  \E a \in Workload[c] :
    /\ Presents(c, a)
    /\ \/ CoreWait(c, a)
       \/ ReadHit(c, a)
       \/ WriteHit(c, a)
       \/ WriteUpgrade(c, a)
       \/ Miss(c, a)

BusStep ==
  /\ turn = BusTurn
  /\ turn' = 0
  /\ BusIter
  /\ UNCHANGED pending

Next ==
  \/ BusStep
  \/ \E c \in Cores : CoreIdle(c) \/ CoreAccess(c)

Spec == Init /\ [][Next]_vars

\* The main loop is one thread that never blocks: it keeps taking steps.
FairSpec == Spec /\ WF_vars(Next)
=============================================================================
