-------------------------------- MODULE Bus --------------------------------
(***************************************************************************)
(* The shared bus (Interface/src/Bus.c): a FIFO of packets, the state of   *)
(* each core's transaction, and Bus_Iter, the iteration the main loop runs *)
(* once per cycle. Bus_Iter calls the caches and the memory synchronously, *)
(* so its actions move their state too.                                    *)
(***************************************************************************)
EXTENDS Cache, MainMemory

VARIABLES
  queue,             \* gQueueTail .. gQueueHead: the oldest packet first
  currentPacket,     \* gCurrentPacket
  busInProgress,     \* gBusInProgress
  transactionState,  \* gBusTransactionState, by core
  addressOffset,     \* gAddressOffset
  isFirstShared      \* is_first_shared, the static local of Bus_Iter

busVars == <<queue, currentPacket, busInProgress, transactionState,
             addressOffset, isFirstShared>>

TransactionStates == {"idle", "wait", "operation", "finally"}

BusTypeOK ==
  /\ queue \in Seq(Packets)
  /\ currentPacket \in Packets
  /\ busInProgress \in BOOLEAN
  /\ transactionState \in [Cores -> TransactionStates]
  /\ addressOffset \in Offsets
  /\ isFirstShared \in BOOLEAN

BusInit ==
  /\ queue = <<>>
  /\ currentPacket = ZeroPacket
  /\ busInProgress = FALSE
  /\ transactionState = [c \in Cores |-> "idle"]
  /\ addressOffset = 0
  /\ isFirstShared = TRUE

-----------------------------------------------------------------------------
(***************************************************************************)
(* What a cache calls.                                                     *)
(***************************************************************************)
BusInTransaction(c) == transactionState[c] # "idle"

\* Mutant: queuing a packet does not make its core wait.
BusAddTransactionsNoWait(c, packets) ==
  /\ queue' = queue \o packets
  /\ UNCHANGED <<currentPacket, busInProgress, transactionState,
                 addressOffset, isFirstShared>>

\* A run of Bus_AddTransaction calls by core c, the first packet first.
BusAddTransactions(c, packets) ==
  /\ queue' = queue \o packets
  /\ transactionState' = [transactionState EXCEPT ![c] = "wait"]
  /\ UNCHANGED <<currentPacket, busInProgress, addressOffset, isFirstShared>>

-----------------------------------------------------------------------------
\* Mutant: the sender is released whatever the state of its transaction.
ReleasedEarly ==
  [c \in Cores |->
     IF c = currentPacket.origid THEN "idle" ELSE transactionState[c]]

(***************************************************************************)
(* Bus_Iter. Its first statement releases the core whose transaction       *)
(* ended in the iteration before.                                          *)
(***************************************************************************)
Released ==
  [c \in Cores |->
     IF c = currentPacket.origid /\ transactionState[c] = "finally"
     THEN "idle" ELSE transactionState[c]]

(***************************************************************************)
(* The packet an iteration works on. It is granted the bus in the          *)
(* iteration itself if none is in progress: dequeued, with the offset back *)
(* at the start of the block and the right to yield restored.              *)
(***************************************************************************)
ActivePacket == IF busInProgress THEN currentPacket ELSE Head(queue)
\* Mutant: the offset is not reset when the bus is granted.
ActiveOffsetNoReset == addressOffset

ActiveOffset == IF busInProgress THEN addressOffset ELSE 0
MayYield     == IF busInProgress THEN isFirstShared ELSE TRUE
Remaining    == IF busInProgress THEN queue ELSE Tail(queue)

InTransaction ==
  \/ busInProgress
  \/ queue # <<>> /\ Head(queue).origid # InvalidOriginator

Granted ==
  IF busInProgress
  THEN Released
  ELSE [Released EXCEPT ![ActivePacket.origid] = "operation"]

\* The part of the bus every iteration of a transaction leaves behind.
BusOperates ==
  /\ queue' = Remaining
  /\ currentPacket' = ActivePacket

\* The transaction is not over: the bus stays with its sender.
BusKeeps ==
  /\ busInProgress' = TRUE
  /\ transactionState' = Granted

\* Nothing to do: no packet is queued and none is in progress.
BusIdle ==
  /\ ~busInProgress
  /\ queue = <<>>
  /\ currentPacket' = [currentPacket EXCEPT !.origid = InvalidOriginator]
  /\ transactionState' = Released
  /\ UNCHANGED <<queue, busInProgress, addressOffset, isFirstShared>>
  /\ UNCHANGED <<cacheVars, memoryVars>>

\* The invalid packet is dequeued, and the iteration ends there.
BusGap ==
  /\ ~busInProgress
  /\ queue # <<>>
  /\ Head(queue).origid = InvalidOriginator
  /\ BusOperates
  /\ isFirstShared' = TRUE
  /\ transactionState' = Released
  /\ UNCHANGED <<busInProgress, addressOffset>>
  /\ UNCHANGED <<cacheVars, memoryVars>>

(***************************************************************************)
(* Some other cache has a modified line in the frame: the first iteration  *)
(* that sees one ends before anybody snoops.                               *)
(***************************************************************************)
Yields == MayYield /\ ModifiedLine(ActivePacket)

\* Mutant: the right to yield is not used up.
BusYieldForEver ==
  /\ InTransaction
  /\ Yields
  /\ BusOperates
  /\ BusKeeps
  /\ addressOffset' = ActiveOffset
  /\ isFirstShared' = TRUE
  /\ UNCHANGED <<cacheVars, memoryVars>>

BusYield ==
  /\ InTransaction
  /\ Yields
  /\ BusOperates
  /\ BusKeeps
  /\ addressOffset' = ActiveOffset
  /\ isFirstShared' = FALSE
  /\ UNCHANGED <<cacheVars, memoryVars>>

\* The caches snoop, the memory is still counting its latency.
BusWait ==
  /\ InTransaction
  /\ ~Yields
  /\ ~MemoryResponds(ModifiedLine(ActivePacket))
  /\ BusOperates
  /\ BusKeeps
  /\ addressOffset' = ActiveOffset
  /\ isFirstShared' = MayYield
  /\ mesi' = MesiAfterSnoop(ActivePacket, ActiveOffset)
  /\ MemoryCounts(ModifiedLine(ActivePacket))
  /\ UNCHANGED <<tag, dsram, memory>>

\* The word the iteration moves, once the caches have snooped.
WordOnBus(p, offset) ==
  IF MemorySupplies(p) THEN memory[p.tag][p.index][offset]
                       ELSE SnoopedData(p, offset)

\* A word crosses the bus, into the memory and into the sender's cache.
BusWord ==
  LET p    == ActivePacket
      word == WordOnBus(p, ActiveOffset)
  IN  /\ InTransaction
      /\ ~Yields
      /\ MemoryResponds(ModifiedLine(p))
      /\ BusOperates
      /\ isFirstShared' = MayYield
      /\ MemoryCounts(ModifiedLine(p))
      /\ MemoryStores(p.tag, p.index, ActiveOffset, word)
      /\ Respond(p, ActiveOffset, word, SharedLine(p))
      /\ \/ /\ ActiveOffset # LastOffset
            /\ BusKeeps
            /\ addressOffset' = ActiveOffset + 1
         \/ /\ ActiveOffset = LastOffset
            /\ busInProgress' = FALSE
            /\ transactionState' = [Granted EXCEPT ![p.origid] = "finally"]
            /\ addressOffset' = ActiveOffset

BusIter ==
  \/ BusIdle
  \/ BusGap
  \/ BusYield
  \/ BusWait
  \/ BusWord
=============================================================================
