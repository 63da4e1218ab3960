----------------------------- MODULE MainMemory -----------------------------
(***************************************************************************)
(* The main memory (Interface/src/MainMemory.c) as the bus sees it: a      *)
(* callback, called once per bus iteration of a transaction, that counts   *)
(* the access latency and then moves one word per call.                    *)
(***************************************************************************)
EXTENDS BusPacket

CONSTANTS
  Latency,  \* iterations before the first word (16)
  Memin     \* the image MainMemory_Init leaves in gMemory

ASSUME LatencyIsNat == Latency \in Nat
ASSUME MeminIsAnImage == Memin \in [Tags -> [Frames -> [Offsets -> Words]]]

VARIABLES
  memory,            \* gMemory, by tag, index and offset of the address
  counter,           \* counter
  memoryTransaction  \* gMemoryTransaction

memoryVars == <<memory, counter, memoryTransaction>>

MemoryTypeOK ==
  /\ memory \in [Tags -> [Frames -> [Offsets -> Words]]]
  /\ counter \in 0 .. Latency + BlockSize
  /\ memoryTransaction \in BOOLEAN

MemoryInit ==
  /\ memory = Memin
  /\ counter = 0
  /\ memoryTransaction = FALSE

\* The count at which the last word of a block is moved (23).
LastCount == Latency + LastOffset

\* Mutant: every transaction is direct.
CountNowDirect(direct) == IF memoryTransaction THEN counter ELSE Latency

(***************************************************************************)
(* The value of counter a call works with. The first call of a transaction *)
(* resets it, past the latency if the transaction is "direct".             *)
(***************************************************************************)
CountNow(direct) ==
  IF memoryTransaction THEN counter ELSE IF direct THEN Latency ELSE 0

\* bus_transaction_handler returns true: a word is on the bus.
MemoryResponds(direct) == CountNow(direct) >= Latency

\* Mutant: the transaction ends one count late.
MemoryCountsTooFar(direct) ==
  /\ counter' = CountNow(direct) + 1
  /\ memoryTransaction' = (CountNow(direct) # LastCount + 1)

\* What every call does to the handler's own state.
MemoryCounts(direct) ==
  /\ counter' = CountNow(direct) + 1
  /\ memoryTransaction' = (CountNow(direct) # LastCount)

(***************************************************************************)
(* process_memory_word: a flush on the bus is stored, a read that no cache *)
(* has answered is turned into a flush of the stored word. Both leave the  *)
(* word on the bus in memory.                                              *)
(***************************************************************************)
MemoryStores(t, i, w, word) == memory' = [memory EXCEPT ![t][i][w] = word]
=============================================================================
