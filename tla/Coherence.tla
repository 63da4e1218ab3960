----------------------------- MODULE Coherence -----------------------------
(***************************************************************************)
(* The data side of coherence. MemorySystem is watched by two history      *)
(* variables: the value each word of memory should have, which is that of  *)
(* the last store a cache accepted, and the blocks that one of three       *)
(* events has spoiled. The events are the ways this code can lose data;    *)
(* the module shows that there is no other.                                *)
(***************************************************************************)
EXTENDS MemoryProperties

VARIABLES
  latest,  \* latest[t][i][w]: the last value stored to the word
  spoiled  \* blocks <<t, i>> one of the events has happened to

history == <<latest, spoiled>>

HistoryInit ==
  /\ latest = Memin
  /\ spoiled = {}

(***************************************************************************)
(* A store hits a modified line while the bus is moving that very block to *)
(* another core, and changes a word that has already passed: the snoop     *)
(* leaves the line modified until the last word (Cache.c 141-142, 268).    *)
(***************************************************************************)
OvertakenByBus(c, a) ==
  /\ busInProgress
  /\ currentPacket.origid # c
  /\ currentPacket.tag = a.tag
  /\ currentPacket.index = a.index
  /\ a.offset < addressOffset

(***************************************************************************)
(* The flush of an eviction finds its block in no cache any more and       *)
(* writes the word it was queued with (Cache.c 217-218, 258).              *)
(***************************************************************************)
FlushOutlivedBlock == ActivePacket.cmd = "flush" /\ Suppliers(ActivePacket) = {}

(***************************************************************************)
(* A sender called after the owner sees its flush, finds the tag the first *)
(* word has set and answers with what its frame held before (Cache.c 252,  *)
(* 261-264).                                                               *)
(***************************************************************************)
SenderAnswersItself ==
  /\ ActivePacket.cmd # "flush"
  /\ Snoops(ActivePacket.origid, ActivePacket)

CoherenceBusStep ==
  /\ BusStep
  /\ spoiled' = IF BusWord /\ (FlushOutlivedBlock \/ SenderAnswersItself)
                THEN spoiled \cup {<<ActivePacket.tag, ActivePacket.index>>}
                ELSE spoiled
  /\ UNCHANGED latest

CoherenceStore(c, a) ==
  /\ WriteHit(c, a)
  /\ latest' = [latest EXCEPT ![a.tag][a.index][a.offset] = a.data]
  /\ spoiled' = IF OvertakenByBus(c, a)
                THEN spoiled \cup {<<a.tag, a.index>>} ELSE spoiled

CoherenceAccess(c, a) ==
  /\ CoreWait(c, a) \/ ReadHit(c, a) \/ WriteUpgrade(c, a) \/ Miss(c, a)
  /\ UNCHANGED history

CoherenceNext ==
  \/ CoherenceBusStep
  \/ \E c \in Cores :
       \/ CoreIdle(c) /\ UNCHANGED history
       \/ \E a \in Workload[c] :
            /\ Presents(c, a)
            /\ CoherenceStore(c, a) \/ CoherenceAccess(c, a)

CoherenceSpec ==
  Init /\ HistoryInit /\ [][CoherenceNext]_<<vars, history>>

-----------------------------------------------------------------------------
Blocks == Tags \X Frames

(***************************************************************************)
(* Every copy of an unspoiled block that a core can access has the last    *)
(* stored value of each word, so every load returns it; and memory has     *)
(* them too when no cache holds the block modified.                        *)
(***************************************************************************)
CoherentUnlessSpoiled ==
  \A b \in Blocks \ spoiled :
    LET t == b[1]
        i == b[2]
    IN  /\ \A c \in Cores :
             Holds(c, t, i) /\ ~InTransfer(c, i) => dsram[c][i] = latest[t][i]
        /\ \/ memory[t][i] = latest[t][i]
           \/ \E c \in Cores : Holds(c, t, i) /\ mesi[c][i] = "modified"

(***************************************************************************)
(* Where no two blocks compete for a frame, no iteration of the bus spoils *)
(* one: of the three events only the store that the bus overtakes is left. *)
(***************************************************************************)
OnlyStoresSpoil == [][turn = BusTurn => spoiled' = spoiled]_<<vars, history>>

-----------------------------------------------------------------------------
(***************************************************************************)
(* Why it holds: what the burst on the bus has already moved is right, in  *)
(* memory and in the frame a read fills; a flush that still has its block  *)
(* has the last stored values; and once a read has been snooped a copy     *)
(* elsewhere gives no right to store, unless it is the modified one that   *)
(* answers, which the memory does not keep waiting.                        *)
(***************************************************************************)
BurstMovesLatest ==
  busInProgress =>
    LET o == currentPacket.origid
        t == currentPacket.tag
        i == currentPacket.index
    IN  /\ <<t, i>> \notin spoiled =>
             /\ \A w \in Offsets : w < addressOffset =>
                  /\ memory[t][i][w] = latest[t][i][w]
                  /\ currentPacket.cmd # "flush" =>
                       dsram[o][i][w] = latest[t][i][w]
             /\ currentPacket.cmd = "flush" /\ Holds(o, t, i) =>
                  dsram[o][i] = latest[t][i]
        /\ memoryTransaction /\ currentPacket.cmd # "flush" =>
             \A d \in Cores \ {o} : Holds(d, t, i) =>
               \/ mesi[d][i] = "shared"
               \/ mesi[d][i] = "modified" /\ counter > Latency

HistoryTypeOK ==
  /\ latest \in [Tags -> [Frames -> [Offsets -> Words]]]
  /\ spoiled \subseteq Blocks

(***************************************************************************)
(* The inductive invariant of the memory system and its history. It holds  *)
(* whatever accesses the cores make.                                       *)
(***************************************************************************)
DataInv ==
  /\ IInv
  /\ RequestsInOrder
  /\ EvictionInv
  /\ HistoryTypeOK
  /\ BurstMovesLatest
  /\ CoherentUnlessSpoiled
=============================================================================
