-------------------------- MODULE MemoryProperties --------------------------
(***************************************************************************)
(* What the memory system promises: the properties of MemorySystem that    *)
(* its runs check and its proofs are about.                                *)
(***************************************************************************)
EXTENDS MemorySystem

-----------------------------------------------------------------------------
(***************************************************************************)
(* The queue and the transactions.                                         *)
(***************************************************************************)

\* The packet that asks for the block a stalled access needs.
AsksFor(p, a) ==
  /\ p.cmd = MissCommand(a)
  /\ p.tag = a.tag
  /\ p.index = a.index

\* q is the read that Cache_ReadData or Cache_WriteData queues behind flush p.
FollowUp(p, q) ==
  /\ q.origid = p.origid
  /\ q.index = p.index
  /\ q.cmd \in {"busRd", "busRdX"}

QueuedBy(c) == {k \in DOMAIN queue : queue[k].origid = c}

(***************************************************************************)
(* A core's transaction state tells the truth about the bus: an idle core  *)
(* has nothing queued; a waiting one has, last of at most two packets, the *)
(* read its stalled access needs; the operating core is the sender of the  *)
(* packet in progress; and a finished one still owns gCurrentPacket, so    *)
(* the next Bus_Iter finds it and releases it (Bus.c 93-100, 127-146).     *)
(***************************************************************************)
TransactionLedger ==
  \A c \in Cores :
    LET mine == QueuedBy(c)
    IN  /\ transactionState[c] = "idle" => mine = {}
        /\ Cardinality(mine) <= 2
        /\ mine # {} => AsksFor(queue[Max(mine)], pending[c])
        /\ transactionState[c] = "wait" => mine # {}
        /\ transactionState[c] = "operation" <=>
             busInProgress /\ currentPacket.origid = c
        /\ transactionState[c] = "finally" => currentPacket.origid = c
        /\ transactionState[c] \in {"operation", "finally"} /\ mine = {} =>
             AsksFor(currentPacket, pending[c])

(***************************************************************************)
(* An eviction is never torn apart: the flush of a dirty block and the     *)
(* read that replaces it stay neighbours in the queue, and while the flush *)
(* is on the bus the read is next. Otherwise another packet could find the *)
(* frame with its block flushed and not yet replaced (Cache.c 206-222).    *)
(***************************************************************************)
EvictionPaired ==
  /\ \A k \in DOMAIN queue :
       queue[k].cmd = "flush" =>
         k + 1 \in DOMAIN queue /\ FollowUp(queue[k], queue[k + 1])
  /\ currentPacket.cmd = "flush" =>
       queue # <<>> /\ FollowUp(currentPacket, queue[1])

(***************************************************************************)
(* Two counters of two files move together: past its latency the memory's  *)
(* counter stands exactly gAddressOffset words beyond it, before that no   *)
(* word of the block has moved, and the memory is never in a transaction   *)
(* the bus is not in (Bus.c 147, 169-177, MainMemory.c 94-110).            *)
(***************************************************************************)
BurstInStep ==
  /\ memoryTransaction => busInProgress
  /\ busInProgress =>
       addressOffset = IF memoryTransaction /\ counter > Latency
                       THEN counter - Latency ELSE 0

-----------------------------------------------------------------------------
(***************************************************************************)
(* Coherence of the MESI states.                                           *)
(***************************************************************************)

(***************************************************************************)
(* Frame i of cache c is between two contents: its transaction is on the   *)
(* bus, or its eviction is and the read that follows is the next packet.   *)
(* Core c can access no line meanwhile.                                    *)
(***************************************************************************)
InTransfer(c, i) ==
  /\ c = currentPacket.origid
  /\ i = currentPacket.index
  /\ busInProgress \/ currentPacket.cmd = "flush"

(***************************************************************************)
(* A block that a cache holds exclusive or modified is valid in no other   *)
(* cache, frames in transfer aside. Snooping, the shared line and the      *)
(* answer to the sender are three callbacks that have to agree on this     *)
(* over the many iterations of a transaction (Bus.c 159-177).              *)
(***************************************************************************)
SingleOwner ==
  \A c, d \in Cores : \A i \in Frames :
    /\ c # d
    /\ tag[c][i] = tag[d][i]
    /\ mesi[c][i] \in {"exclusive", "modified"}
    /\ ~InTransfer(c, i)
    /\ ~InTransfer(d, i)
    => mesi[d][i] = "invalid"

-----------------------------------------------------------------------------
(***************************************************************************)
(* Why they hold: what the invariants above need to be inductive.          *)
(***************************************************************************)

\* Only the invalid packet is without a command, and it is never operated on.
PacketsWellFormed ==
  /\ \A k \in DOMAIN queue :
       queue[k].cmd = "none" <=> queue[k].origid = InvalidOriginator
  /\ busInProgress \/ currentPacket.cmd = "flush" =>
       currentPacket.cmd # "none" /\ currentPacket.origid \in Cores

\* The core with a frame in transfer is kept from its cache.
SenderIsBusy ==
  /\ busInProgress => transactionState[currentPacket.origid] = "operation"
  /\ ~busInProgress /\ currentPacket.cmd = "flush" =>
       transactionState[currentPacket.origid] = "finally"

(***************************************************************************)
(* The inductive invariant. SingleOwner needs EvictionPaired, for a frame  *)
(* whose flush is over stays in transfer only if the next packet replaces  *)
(* it; that no store disturbs a frame in transfer is SenderIsBusy; and the *)
(* bound of counter in TypeOK comes from BurstInStep.                      *)
(***************************************************************************)
IInv ==
  /\ TypeOK
  /\ PacketsWellFormed
  /\ SenderIsBusy
  /\ EvictionPaired
  /\ BurstInStep
  /\ SingleOwner

(***************************************************************************)
(* A core has one request at a time: at most a flush and a read, both in   *)
(* the queue, or the flush on the bus and the read in the queue, or the    *)
(* read on the bus; and its transaction state says which.                  *)
(***************************************************************************)
OneRequestEach ==
  \A c \in Cores :
    /\ \A j, k \in QueuedBy(c) :
         (queue[j].cmd = "flush" <=> queue[k].cmd = "flush") => j = k
    /\ transactionState[c] = "idle" => QueuedBy(c) = {}
    /\ transactionState[c] = "wait" => QueuedBy(c) # {}
    /\ transactionState[c] = "operation" <=>
         busInProgress /\ currentPacket.origid = c
    /\ transactionState[c] = "finally" => currentPacket.origid = c
    /\ transactionState[c] \in {"operation", "finally"} =>
         \A k \in QueuedBy(c) :
           currentPacket.cmd = "flush" /\ queue[k].cmd # "flush"
    /\ transactionState[c] # "idle" => pending[c] # NoAccess

\* The request is for the access the core is stalled on.
RequestsMatch ==
  \A c \in Cores :
    /\ \A k \in QueuedBy(c) :
         queue[k].cmd # "flush" => AsksFor(queue[k], pending[c])
    /\ transactionState[c] \in {"operation", "finally"}
         /\ currentPacket.cmd # "flush" => AsksFor(currentPacket, pending[c])

(***************************************************************************)
(* The packet before an invalid one, in the queue or on the bus, is the    *)
(* BusRdX of an upgrade, and when a read is over its block is there.       *)
(***************************************************************************)
UpgradesGuarded ==
  /\ \A k \in DOMAIN queue :
       queue[k].origid = InvalidOriginator =>
         LET p == IF k = 1 THEN currentPacket ELSE queue[k - 1]
         IN  /\ p.cmd = "busRdX" /\ p.origid \in Cores
             /\ k = 1 =>
                  transactionState[p.origid] \in {"operation", "finally"}
  /\ \A c \in Cores :
       transactionState[c] = "finally" /\ currentPacket.cmd # "flush" =>
         Holds(c, currentPacket.tag, currentPacket.index)

\* What holds whatever accesses the cores make, even if they give one up for
\* another.
RequestsInOrder == OneRequestEach /\ UpgradesGuarded

(***************************************************************************)
(* The inductive invariant behind TransactionLedger, together with IInv;   *)
(* WritesUncontested is what GapGuardsUpgrade needs besides.               *)
(***************************************************************************)
LedgerInv == OneRequestEach /\ UpgradesGuarded /\ RequestsMatch

(***************************************************************************)
(* While a BusRdX has given up no iteration it has met no modified line in *)
(* its frame: the other copies of the block were invalidated when it first *)
(* passed, and its sender ends as the only one that has the block.         *)
(***************************************************************************)
WritesUncontested ==
  LET o == currentPacket.origid
      t == currentPacket.tag
      i == currentPacket.index
  IN  currentPacket.cmd = "busRdX" /\ isFirstShared =>
        /\ busInProgress => \A d \in Cores \ {o} : ~Holds(d, t, i)
        /\ o \in Cores /\ transactionState[o] = "finally" =>
             mesi[o][i] = "exclusive"

(***************************************************************************)
(* A flush that is queued or on the bus is of the block its frame is       *)
(* labelled with, for its core gets no other block before the flush is     *)
(* over.                                                                   *)
(***************************************************************************)
FlushOfItsFrame ==
  /\ \A k \in DOMAIN queue :
       queue[k].cmd = "flush" =>
         tag[queue[k].origid][queue[k].index] = queue[k].tag
  /\ busInProgress /\ currentPacket.cmd = "flush" =>
       tag[currentPacket.origid][currentPacket.index] = currentPacket.tag

\* A flush comes, or goes on, right before the packet at k.
FlushBefore(k) ==
  IF k = 1 THEN busInProgress /\ currentPacket.cmd = "flush"
           ELSE queue[k - 1].cmd = "flush"

\* A block is read into a frame that is not modified, or will not be by then.
ReadsIntoCleanFrame ==
  /\ \A k \in DOMAIN queue :
       /\ queue[k].cmd \in {"busRd", "busRdX"}
       /\ mesi[queue[k].origid][queue[k].index] = "modified"
       => FlushBefore(k)
  /\ busInProgress /\ currentPacket.cmd # "flush" =>
       mesi[currentPacket.origid][currentPacket.index] # "modified"

(***************************************************************************)
(* While the flush of an eviction is on the bus its line has an owner at   *)
(* most, like any other, and what has passed of a dirty block is in        *)
(* memory.                                                                 *)
(***************************************************************************)
FlushUndisturbed ==
  busInProgress /\ currentPacket.cmd = "flush" =>
    LET o == currentPacket.origid
        t == currentPacket.tag
        i == currentPacket.index
    IN  /\ \A d \in Cores \ {o} :
             Holds(o, t, i) /\ Holds(d, t, i) =>
               {mesi[o][i], mesi[d][i]} \cap {"exclusive", "modified"} = {}
        /\ mesi[o][i] = "modified" =>
             \A w \in Offsets : w < addressOffset =>
               memory[t][i][w] = dsram[o][i][w]

\* The inductive invariant behind OwnEvictionWritesBack, with the two above.
EvictionInv == FlushOfItsFrame /\ ReadsIntoCleanFrame /\ FlushUndisturbed

-----------------------------------------------------------------------------
(***************************************************************************)
(* Programs whose addresses never compete for a frame, as most of those    *)
(* that fit into the caches: what the two properties below need that do    *)
(* not hold of every program, and why they hold of these.                  *)
(***************************************************************************)
\* Some access of the programs is to block <<t, i>>.
Wanted(t, i) == \E c \in Cores : \E a \in Workload[c] : a.tag = t /\ a.index = i

NoConflicts ==
  \A i \in Frames : \A t, u \in Tags : Wanted(t, i) /\ Wanted(u, i) => t = u

(***************************************************************************)
(* No frame ever holds or waits for a block the programs do not access, so *)
(* nothing is evicted: no flush is queued, and none is on the bus.         *)
(***************************************************************************)
OnlyWantedBlocks ==
  /\ \A c \in Cores : \A i \in Frames :
       mesi[c][i] # "invalid" => Wanted(tag[c][i], i)
  /\ \A k \in DOMAIN queue :
       queue[k].cmd # "none" =>
         queue[k].cmd # "flush" /\ Wanted(queue[k].tag, queue[k].index)
  /\ currentPacket.cmd # "flush"
  /\ busInProgress => Wanted(currentPacket.tag, currentPacket.index)

(***************************************************************************)
(* A core that asks for a block it holds has no rival while it waits: no   *)
(* other cache holds the block exclusive or modified.                      *)
(***************************************************************************)
SenderHasNoRival ==
  busInProgress =>
    LET o == currentPacket.origid
        t == currentPacket.tag
        i == currentPacket.index
    IN  Holds(o, t, i) =>
          \A d \in Cores \ {o} :
            Holds(d, t, i) => mesi[d][i] \notin {"exclusive", "modified"}

(***************************************************************************)
(* The inductive invariant of the programs without conflicts, with IInv.   *)
(***************************************************************************)
NoConflictInv == OnlyWantedBlocks /\ SenderHasNoRival

-----------------------------------------------------------------------------
(***************************************************************************)
(* Where the data goes.                                                    *)
(***************************************************************************)

\* The line of cache c in frame i stops being modified in this step.
LeavesModified(c, i) == mesi[c][i] = "modified" /\ mesi'[c][i] # "modified"

WrittenBack(c, i) == memory'[tag[c][i]][i] = dsram[c][i]

(***************************************************************************)
(* A core that evicts its dirty block has written all of it to memory when *)
(* the line leaves Modified: every word, and not the one word its packet   *)
(* was queued with (Cache.c 217-218, 261-264).                             *)
(***************************************************************************)
OwnEvictionWritesBack ==
  [][\A c \in Cores : \A i \in Frames :
       LeavesModified(c, i) /\ currentPacket.cmd = "flush" =>
         WrittenBack(c, i)]_vars

(***************************************************************************)
(* "Modified (M) | Dirty copy, must write back before eviction" and        *)
(* "Modified | BusRd | Flush data, set shared": whoever makes a line leave *)
(* Modified, memory holds its block when it does.                          *)
(***************************************************************************)
DirtyWrittenBack ==
  [][\A c \in Cores : \A i \in Frames :
       LeavesModified(c, i) => WrittenBack(c, i)]_vars

(***************************************************************************)
(* A read of a block some other cache has modified is answered with that   *)
(* cache's words: "M | BusRd | S | Flush | Write-back, share".             *)
(***************************************************************************)
OwnerSuppliesBlock ==
  [][BusWord /\ ActivePacket.cmd # "flush" =>
       LET p == ActivePacket
       IN  \A o \in Owners(p) :
             dsram'[p.origid][p.index][ActiveOffset] =
               dsram[o][p.index][ActiveOffset]]_vars

(***************************************************************************)
(* "Flush | 3 | Write modified block to memory": what the flush of an      *)
(* eviction changes in memory is a word some cache holds for that address, *)
(* so a flush that comes too late for its block overwrites nothing.        *)
(***************************************************************************)
FlushWritesLiveData ==
  [][BusWord /\ ActivePacket.cmd = "flush" /\ memory' # memory =>
       LET p == ActivePacket
       IN  \E c \in Cores :
             /\ Holds(c, p.tag, p.index)
             /\ memory'[p.tag][p.index][ActiveOffset] =
                  dsram[c][p.index][ActiveOffset]]_vars

(***************************************************************************)
(* "Read Latency | 16 cycles": a word that comes from memory has waited    *)
(* for it, so it never comes in the iteration its transaction starts in.   *)
(***************************************************************************)
MemoryTakesItsTime ==
  [][BusWord /\ MemorySupplies(ActivePacket) => memoryTransaction]_vars

-----------------------------------------------------------------------------
(***************************************************************************)
(* Progress.                                                               *)
(***************************************************************************)

(***************************************************************************)
(* What the invalid packet behind an upgrade is for: the iteration it      *)
(* costs comes right after the upgrade's BusRdX, releases the core that    *)
(* sent it, and leaves it the block, Exclusive: its store hits when it is  *)
(* tried again in the same iteration of the main loop, before the next     *)
(* packet can take the block away (Bus.c 143-144, Cache.c 125-131).        *)
(*                                                                         *)
(* Not so if the BusRdX gave up an iteration for a line another cache has  *)
(* modified in the frame: an owner that answered still raised the shared   *)
(* line in the last word (Bus.c 160, 166), the block may be Shared again   *)
(* (Cache.c 298), its store asks for it once more, and a packet that was   *)
(* queued before can take it. Then the invalid packet guards nothing.      *)
(***************************************************************************)
GapGuardsUpgrade ==
  [][BusGap =>
       LET p == currentPacket
       IN  /\ p.origid \in Cores
           /\ p.cmd = "busRdX"
           /\ transactionState'[p.origid] = "idle"
           /\ AsksFor(p, pending[p.origid])
           /\ Holds(p.origid, p.tag, p.index)
           /\ isFirstShared => mesi[p.origid][p.index] = "exclusive"]_vars

(***************************************************************************)
(* The bus serves every core that asks: a transaction ends, whatever the   *)
(* others keep asking for (Bus_Iter is the only one to end it).            *)
(***************************************************************************)
BusServesEveryone ==
  \A c \in Cores : transactionState[c] # "idle" ~> transactionState[c] = "idle"

(***************************************************************************)
(* "Stalls on cache miss until data available": a load or a store that     *)
(* stalls its core is accepted in the end.                                 *)
(***************************************************************************)
StallEnds ==
  \A c \in Cores : pending[c] # NoAccess ~> pending[c] = NoAccess

\* Cores c and d are stalled on one block, and not both by a load.
Contend(c, d) ==
  /\ c # d
  /\ {pending[c].op, pending[d].op} \in {{"sw"}, {"lw", "sw"}}
  /\ pending[c].tag = pending[d].tag
  /\ pending[c].index = pending[d].index

(***************************************************************************)
(* What is left of that promise: an access that never ends is one another  *)
(* core contends for again and again. Loads alone, evictions, and what the *)
(* others do elsewhere stall nobody for ever (Cache.c 268, Bus.c 127-146). *)
(***************************************************************************)
StallsOnlyWhenContended ==
  \A c \in Cores :
    <>[](pending[c] # NoAccess) => []<>(\E d \in Cores : Contend(c, d))
=============================================================================
