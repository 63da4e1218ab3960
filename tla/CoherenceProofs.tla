-------------------------- MODULE CoherenceProofs --------------------------
(***************************************************************************)
(* The proofs about the data of the blocks. First, evictions: the flush of *)
(* a dirty block writes all of it to memory before the line leaves         *)
(* Modified (OwnEvictionWritesBack). Then, who has a block when a write is *)
(* over (GapGuardsUpgrade), and the programs whose blocks do not compete.  *)
(* Last, that the caches lose data in no way but the three events that     *)
(* spoil a block: CoherentUnlessSpoiled is an invariant of CoherenceSpec.  *)
(* Its bus steps rest on one fact, that the word on the bus is the one     *)
(* last stored (WordOnBusIsLatest); the stores rest on SingleOwner and on  *)
(* what spoils a block. What a word on the bus does to caches and memory   *)
(* is stated once, in WordEffect.                                          *)
(***************************************************************************)
EXTENDS Coherence, LedgerProofs

-----------------------------------------------------------------------------
(***************************************************************************)
(* What an iteration does to the caches and the memory.                    *)
(***************************************************************************)
LEMMA WordEffect ==
  ASSUME IInv, BusWord
  PROVE  LET p    == ActivePacket
             w    == ActiveOffset
             word == WordOnBus(p, w)
         IN  /\ InTransaction /\ BusOperates
             /\ \/ w # LastOffset /\ Continues /\ addressOffset' = w + 1
                \/ w = LastOffset /\ Ends /\ addressOffset' = w
             /\ \A c \in Cores : \A i \in Frames :
                  /\ tag'[c][i] = IF c = p.origid /\ i = p.index
                                  THEN p.tag ELSE tag[c][i]
                  /\ mesi'[c][i] =
                       IF c = p.origid /\ i = p.index /\ w = LastOffset
                       THEN IF SharedLine(p) THEN "shared" ELSE "exclusive"
                       ELSE MesiAfterSnoop(p, w)[c][i]
                  /\ \A k \in Offsets : dsram'[c][i][k] =
                       IF c = p.origid /\ i = p.index /\ k = w
                       THEN word ELSE dsram[c][i][k]
                  /\ ~ (c = p.origid /\ i = p.index) => dsram'[c][i] = dsram[c][i]
             /\ \A t \in Tags : \A i \in Frames : \A k \in Offsets :
                  memory'[t][i][k] =
                    IF t = p.tag /\ i = p.index /\ k = w
                    THEN word ELSE memory[t][i][k]
<1> DEFINE p       == ActivePacket
           w       == ActiveOffset
           word    == WordOnBus(p, w)
           snooped == MesiAfterSnoop(p, w)
           filled  == IF SharedLine(p) THEN "shared" ELSE "exclusive"
<1>1. InTransaction /\ BusOperates
  BY DEF BusWord
<1>2. \/ w # LastOffset /\ Continues /\ addressOffset' = w + 1
      \/ w = LastOffset /\ Ends /\ addressOffset' = w
  BY DEF BusWord, BusKeeps, Continues, Ends
<1>3. /\ p \in Packets /\ p.origid \in Cores /\ w \in Offsets
      /\ p.index \in Frames /\ p.tag \in Tags
  BY <1>1, ActivePacketFacts DEF Packets
<1>4. CacheTypeOK /\ MemoryTypeOK
  BY DEF IInv, TypeOK
<1>5. /\ tag'   = [tag EXCEPT ![p.origid][p.index] = p.tag]
      /\ dsram' = [dsram EXCEPT ![p.origid][p.index][w] = word]
      /\ mesi'  = IF w = LastOffset
                  THEN [snooped EXCEPT ![p.origid][p.index] = filled]
                  ELSE snooped
      /\ memory' = [memory EXCEPT ![p.tag][p.index][w] = word]
  BY Zenon DEF BusWord, Respond, MemoryStores
<1>6. snooped \in [Cores -> [Frames -> MesiStates]]
  BY <1>3, <1>4, MesiAfterSnoopLowers
<1> HIDE DEF p, w, word, snooped, filled
<1>7. ASSUME NEW c \in Cores, NEW i \in Frames
      PROVE  /\ tag'[c][i] = IF c = p.origid /\ i = p.index THEN p.tag ELSE tag[c][i]
             /\ mesi'[c][i] = IF c = p.origid /\ i = p.index /\ w = LastOffset
                              THEN filled ELSE snooped[c][i]
  BY <1>3, <1>4, <1>5, <1>6 DEF CacheTypeOK
<1>8. ASSUME NEW c \in Cores, NEW i \in Frames
      PROVE  /\ \A k \in Offsets : dsram'[c][i][k] =
                  IF c = p.origid /\ i = p.index /\ k = w
                  THEN word ELSE dsram[c][i][k]
             /\ ~ (c = p.origid /\ i = p.index) => dsram'[c][i] = dsram[c][i]
  <2>1. dsram'[c][i] = IF c = p.origid /\ i = p.index
                       THEN [dsram[c][i] EXCEPT ![w] = word] ELSE dsram[c][i]
    BY <1>3, <1>4, <1>5 DEF CacheTypeOK
  <2>2. dsram[c][i] \in [Offsets -> Words]
    BY <1>4 DEF CacheTypeOK
  <2> QED
    BY <2>1, <2>2
<1>9. ASSUME NEW t \in Tags, NEW i \in Frames, NEW k \in Offsets
      PROVE  memory'[t][i][k] = IF t = p.tag /\ i = p.index /\ k = w
                                THEN word ELSE memory[t][i][k]
  <2>1. memory'[t][i] = IF t = p.tag /\ i = p.index
                        THEN [memory[t][i] EXCEPT ![w] = word] ELSE memory[t][i]
    BY <1>3, <1>4, <1>5 DEF MemoryTypeOK
  <2>2. memory[t][i] \in [Offsets -> Words]
    BY <1>4 DEF MemoryTypeOK
  <2> QED
    BY <2>1, <2>2
<1> QED
  BY <1>1, <1>2, <1>7, <1>8, <1>9 DEF p, w, word, snooped, filled

(***************************************************************************)
(* What every iteration of a transaction does to the caches: it changes no *)
(* content but the sender's frame, and makes no line modified.             *)
(***************************************************************************)
LEMMA IterationEffect ==
  ASSUME IInv, BusYield \/ BusWait \/ BusWord
  PROVE  LET o == ActivePacket.origid
             f == ActivePacket.index
         IN  /\ InTransaction /\ BusOperates /\ (Continues \/ Ends)
             /\ o \in Cores /\ f \in Frames
             /\ \A c \in Cores : \A i \in Frames :
                  /\ mesi'[c][i] = "modified" => mesi[c][i] = "modified"
                  /\ ~ (c = o /\ i = f) =>
                       /\ tag'[c][i] = tag[c][i]
                       /\ dsram'[c][i] = dsram[c][i]
                       /\ mesi'[c][i] \in {"exclusive", "modified"} =>
                            mesi'[c][i] = mesi[c][i]
                       /\ mesi[c][i] = "invalid" => mesi'[c][i] = "invalid"
             /\ tag'[o][f] \in {tag[o][f], ActivePacket.tag}
             /\ Ends /\ ~Continues => mesi'[o][f] # "modified"
<1> DEFINE p == ActivePacket
           w == ActiveOffset
<1>1. InTransaction /\ BusOperates
  BY DEF BusYield, BusWait, BusWord
<1>2. /\ p \in Packets /\ p.origid \in Cores /\ w \in Offsets
      /\ p.index \in Frames /\ p.tag \in Tags
  BY <1>1, ActivePacketFacts DEF Packets
<1>3. CacheTypeOK
  BY DEF IInv, TypeOK
<1>4. \A c \in Cores : \A i \in Frames :
        LET s == MesiAfterSnoop(p, w)[c][i]
        IN  /\ s \in {"exclusive", "modified"} => s = mesi[c][i]
            /\ mesi[c][i] = "invalid" => s = "invalid"
            /\ i # p.index => s = mesi[c][i]
  BY <1>2, <1>3, MesiAfterSnoopLowers, Zenon
<1>5. CASE BusYield
  BY <1>1, <1>2, <1>5 DEF BusYield, BusKeeps, Continues, cacheVars
<1>6. CASE BusWait
  BY <1>1, <1>2, <1>4, <1>6 DEF BusWait, BusKeeps, Continues
<1>7. CASE BusWord
  <2>1. /\ \/ w # LastOffset /\ Continues
           \/ w = LastOffset /\ Ends
        /\ \A c \in Cores : \A i \in Frames :
             /\ tag'[c][i] = IF c = p.origid /\ i = p.index
                             THEN p.tag ELSE tag[c][i]
             /\ mesi'[c][i] =
                  IF c = p.origid /\ i = p.index /\ w = LastOffset
                  THEN IF SharedLine(p) THEN "shared" ELSE "exclusive"
                  ELSE MesiAfterSnoop(p, w)[c][i]
             /\ ~ (c = p.origid /\ i = p.index) => dsram'[c][i] = dsram[c][i]
    BY <1>7, WordEffect
  <2> HIDE DEF p, w
  <2>2. \A c \in Cores : \A i \in Frames :
          mesi'[c][i] = "modified" => mesi[c][i] = "modified"
    BY <1>4, <2>1
  <2>3. ASSUME NEW c \in Cores, NEW i \in Frames, ~ (c = p.origid /\ i = p.index)
        PROVE  /\ tag'[c][i] = tag[c][i]
               /\ dsram'[c][i] = dsram[c][i]
               /\ mesi'[c][i] \in {"exclusive", "modified"} =>
                    mesi'[c][i] = mesi[c][i]
               /\ mesi[c][i] = "invalid" => mesi'[c][i] = "invalid"
    BY <1>4, <2>1, <2>3
  <2>4. tag'[p.origid][p.index] = p.tag
    BY <1>2, <2>1
  <2>5. ASSUME Ends, ~Continues
        PROVE  mesi'[p.origid][p.index] # "modified"
    BY <1>2, <2>1, <2>5
  <2>6. Continues \/ Ends
    BY <2>1
  <2> QED
    BY <1>1, <1>2, <2>2, <2>3, <2>4, <2>5, <2>6 DEF p
<1> QED
  BY <1>5, <1>6, <1>7

-----------------------------------------------------------------------------
(***************************************************************************)
(* The invariant: initially, and over the calls of the caches.             *)
(***************************************************************************)
LEMMA InitEviction == Init => EvictionInv
<1> SUFFICES ASSUME Init PROVE EvictionInv
  OBVIOUS
<1> USE DEF Init, BusInit, EvictionInv
<1>1. FlushOfItsFrame
  BY DEF FlushOfItsFrame
<1>2. ReadsIntoCleanFrame
  BY DEF ReadsIntoCleanFrame
<1>3. FlushUndisturbed
  BY DEF FlushUndisturbed
<1> QED
  BY <1>1, <1>2, <1>3

\* Whose packets the queue holds.
LEMMA OwnersOfPackets ==
  ASSUME IInv
  PROVE  /\ \A k \in DOMAIN queue :
              /\ k \in Nat \ {0}
              /\ queue[k].cmd # "none" =>
                   queue[k].origid \in Cores /\ k \in QueuedBy(queue[k].origid)
              /\ queue[k].index \in Frames /\ queue[k].tag \in Tags
         /\ currentPacket.index \in Frames /\ currentPacket.tag \in Tags
         /\ busInProgress => currentPacket.origid \in Cores
<1>1. queue \in Seq(Packets) /\ currentPacket \in Packets
  BY DEF IInv, TypeOK, BusTypeOK
<1>2. \A k \in DOMAIN queue : k \in Nat \ {0} /\ queue[k] \in Packets
  BY <1>1
<1> QED
  BY <1>1, <1>2 DEF IInv, PacketsWellFormed, Packets, QueuedBy

\* An unchanged bus, memory and cache.
LEMMA QuietKeepsEviction ==
  ASSUME EvictionInv, UNCHANGED <<cacheVars, memoryVars, busVars>>
  PROVE  EvictionInv'
<1> USE DEF cacheVars, memoryVars, busVars
<1>1. FlushOfItsFrame'
  BY DEF EvictionInv, FlushOfItsFrame
<1>2. ReadsIntoCleanFrame'
  BY DEF EvictionInv, ReadsIntoCleanFrame, FlushBefore
<1>3. FlushUndisturbed'
  BY DEF EvictionInv, FlushUndisturbed, Holds
<1> QED
  BY <1>1, <1>2, <1>3 DEF EvictionInv

(***************************************************************************)
(* A store makes only a line of an idle core modified: none that a packet  *)
(* is about, and none of a block that is being flushed with its copy.      *)
(***************************************************************************)
LEMMA WriteHitKeepsEviction ==
  ASSUME IInv, OneRequestEach, EvictionInv, NEW c \in Cores, NEW a \in Accesses,
         WriteHit(c, a)
  PROVE  EvictionInv'
<1> USE DEF WriteHit, memoryVars, busVars
<1>1. /\ a.index \in Frames /\ a.offset \in Offsets
      /\ transactionState[c] = "idle"
      /\ QueuedBy(c) = {}
      /\ ~ (busInProgress /\ currentPacket.origid = c)
  BY DEF Accesses, BusInTransaction, OneRequestEach
<1>2. /\ tag[c][a.index] = a.tag
      /\ mesi[c][a.index] \in {"exclusive", "modified"}
  BY <1>1 DEF Hits, Holds, IInv, TypeOK, CacheTypeOK, MesiStates
<1>3. \A d \in Cores : \A i \in Frames :
        /\ mesi'[d][i] = IF d = c /\ i = a.index THEN "modified" ELSE mesi[d][i]
        /\ d # c => dsram'[d][i] = dsram[d][i]
  BY <1>1 DEF IInv, TypeOK, CacheTypeOK
<1>4. FlushOfItsFrame'
  BY DEF EvictionInv, FlushOfItsFrame
<1>5. ReadsIntoCleanFrame'
  <2>1. ASSUME NEW k \in DOMAIN queue, queue[k].cmd \in {"busRd", "busRdX"},
               mesi'[queue[k].origid][queue[k].index] = "modified"
        PROVE  mesi[queue[k].origid][queue[k].index] = "modified"
    <3>1. /\ queue[k].origid \in Cores /\ k \in QueuedBy(queue[k].origid)
          /\ queue[k].index \in Frames
      BY <2>1, OwnersOfPackets
    <3>2. queue[k].origid # c
      BY <1>1, <3>1
    <3> QED
      BY <1>3, <2>1, <3>1, <3>2
  <2>2. busInProgress =>
          mesi'[currentPacket.origid][currentPacket.index]
            = mesi[currentPacket.origid][currentPacket.index]
    BY <1>1, <1>3, OwnersOfPackets
  <2> QED
    BY <2>1, <2>2 DEF EvictionInv, ReadsIntoCleanFrame, FlushBefore
<1>6. FlushUndisturbed'
  <2> DEFINE o == currentPacket.origid
             t == currentPacket.tag
             i == currentPacket.index
  <2>1. SUFFICES ASSUME busInProgress, currentPacket.cmd = "flush"
                 PROVE  /\ \A d \in Cores \ {o} :
                             Holds(o, t, i)' /\ Holds(d, t, i)' =>
                               {mesi'[o][i], mesi'[d][i]}
                                 \cap {"exclusive", "modified"} = {}
                        /\ mesi'[o][i] = "modified" =>
                             \A w \in Offsets : w < addressOffset =>
                               memory[t][i][w] = dsram'[o][i][w]
    BY DEF FlushUndisturbed, Holds
  <2>2. o \in Cores /\ i \in Frames /\ o # c
    BY <1>1, <2>1, OwnersOfPackets
  <2>3. /\ mesi'[o][i] = mesi[o][i] /\ dsram'[o][i] = dsram[o][i]
        /\ Holds(o, t, i)' = Holds(o, t, i)
    BY <1>3, <2>2 DEF Holds
  <2>4. ASSUME NEW d \in Cores \ {o}, Holds(o, t, i)', Holds(d, t, i)'
        PROVE  mesi'[d][i] = mesi[d][i] /\ Holds(d, t, i)
    <3>1. CASE d = c /\ i = a.index
      <4>1. Holds(c, t, i) /\ Holds(o, t, i)
        BY <1>2, <2>3, <2>4, <3>1 DEF Holds
      <4>2. FALSE
        BY <1>2, <2>1, <2>2, <3>1, <4>1 DEF EvictionInv, FlushUndisturbed
      <4> QED
        BY <4>2
    <3>2. CASE ~ (d = c /\ i = a.index)
      BY <1>3, <2>2, <2>4, <3>2 DEF Holds
    <3> QED
      BY <3>1, <3>2
  <2> QED
    BY <2>1, <2>3, <2>4 DEF EvictionInv, FlushUndisturbed
<1> QED
  BY <1>4, <1>5, <1>6 DEF EvictionInv

\* A request: the flush is of the block that is there, and comes first.
LEMMA RequestKeepsEviction ==
  ASSUME IInv, OneRequestEach, EvictionInv, NEW c \in Cores, ~BusInTransaction(c),
         UNCHANGED <<cacheVars, memoryVars>>,
         NEW packets \in Seq(Packets), IsRequest(c, packets),
         EvictsFirst(c, packets), BusAddTransactions(c, packets)
  PROVE  EvictionInv'
<1> DEFINE n == Len(queue)
<1>1. /\ DOMAIN queue' = 1 .. n + Len(packets)
      /\ n \in Nat /\ Len(packets) \in Nat
      /\ \A k \in 1 .. n : queue'[k] = queue[k]
      /\ \A k \in DOMAIN packets : queue'[n + k] = packets[k]
      /\ DOMAIN queue = 1 .. n /\ DOMAIN packets = 1 .. Len(packets)
  <2>1. DOMAIN queue = 1 .. n /\ DOMAIN packets = 1 .. Len(packets)
    BY DEF IInv, TypeOK, BusTypeOK
  <2> QED
    BY <2>1, QueuedByAfter
<1>2. UNCHANGED <<currentPacket, busInProgress, addressOffset, tag, mesi, dsram, memory>>
  BY DEF BusAddTransactions, cacheVars, memoryVars
<1> HIDE DEF n
<1>3. \A k \in DOMAIN queue' :
        \/ k \in 1 .. n /\ queue'[k] = queue[k]
        \/ k - n \in DOMAIN packets /\ queue'[k] = packets[k - n] /\ k = n + (k - n)
  BY <1>1
<1>4. FlushOfItsFrame'
  BY <1>1, <1>2, <1>3 DEF EvictionInv, FlushOfItsFrame, EvictsFirst
<1>5. ASSUME NEW k \in DOMAIN queue', queue'[k].cmd \in {"busRd", "busRdX"},
             mesi[queue'[k].origid][queue'[k].index] = "modified"
      PROVE  FlushBefore(k)'
  <2>1. CASE k \in 1 .. n /\ queue'[k] = queue[k]
    <3>1. FlushBefore(k)
      <4>1. /\ k \in DOMAIN queue /\ queue[k].cmd \in {"busRd", "busRdX"}
            /\ mesi[queue[k].origid][queue[k].index] = "modified"
        BY <1>1, <1>5, <2>1
      <4> QED
        BY <4>1 DEF EvictionInv, ReadsIntoCleanFrame
    <3>2. k # 1 => queue'[k - 1] = queue[k - 1]
      BY <1>1, <2>1
    <3> QED
      BY <1>2, <3>1, <3>2 DEF FlushBefore
  <2>2. CASE k - n \in DOMAIN packets /\ queue'[k] = packets[k - n] /\ k = n + (k - n)
    <3>1. (k - n) - 1 \in DOMAIN packets /\ packets[(k - n) - 1].cmd = "flush"
      BY <1>5, <2>2 DEF EvictsFirst
    <3>2. k - 1 = n + ((k - n) - 1) /\ k # 1
      <4>1. k \in Nat /\ n \in Nat /\ k - n \in 2 .. Len(packets) + 1
        BY <1>1, <1>5, <2>2, <3>1
      <4> QED
        BY ONLY <1>1, <4>1
    <3>3. queue'[k - 1].cmd = "flush"
      BY <1>1, <3>1, <3>2
    <3> QED
      BY <3>2, <3>3 DEF FlushBefore
  <2> QED
    BY <1>3, <2>1, <2>2
<1>6. ReadsIntoCleanFrame'
  BY <1>2, <1>5 DEF EvictionInv, ReadsIntoCleanFrame
<1>7. FlushUndisturbed'
  BY <1>2 DEF EvictionInv, FlushUndisturbed, Holds
<1> QED
  BY <1>4, <1>6, <1>7 DEF EvictionInv

LEMMA CallKeepsEviction ==
  ASSUME IInv, OneRequestEach, EvictionInv, NEW c \in Cores, NEW a \in Accesses,
         CallsCache(c, a)
  PROVE  EvictionInv'
<1>1. CASE CoreWait(c, a) \/ ReadHit(c, a)
  BY <1>1, QuietKeepsEviction DEF CoreWait, ReadHit
<1>2. CASE WriteUpgrade(c, a) \/ Miss(c, a)
  <2>1. ~BusInTransaction(c) /\ UNCHANGED <<cacheVars, memoryVars>>
    BY <1>2 DEF WriteUpgrade, Miss
  <2>2. PICK packets \in Seq(Packets) :
          /\ BusAddTransactions(c, packets)
          /\ IsRequest(c, packets)
          /\ EvictsFirst(c, packets)
    BY <1>2, UpgradeIsRequest, MissIsRequest
  <2> QED
    BY <2>1, <2>2, RequestKeepsEviction
<1> QED
  BY <1>1, <1>2, WriteHitKeepsEviction DEF CallsCache

-----------------------------------------------------------------------------
(***************************************************************************)
(* The invariant over the iterations of the bus.                           *)
(***************************************************************************)

\* An iteration that is granted the bus finds no frame in transfer but its own.
LEMMA GrantedFlushIsFirst ==
  ASSUME IInv, InTransaction, ActivePacket.cmd = "flush", ~busInProgress,
         NEW c \in Cores, NEW i \in Frames
  PROVE  ~InTransfer(c, i)
<1>1. ActivePacket = queue[1] /\ queue # <<>>
  BY DEF ActivePacket, InTransaction, IInv, TypeOK, BusTypeOK
<1> QED
  BY <1>1 DEF InTransfer, IInv, EvictionPaired, FollowUp

(***************************************************************************)
(* The flush an iteration works on, be it granted the bus just now: its    *)
(* block is that of its frame, an owner has no other copy beside it, and   *)
(* what has passed of a dirty block is in memory.                          *)
(***************************************************************************)
LEMMA ActiveFlush ==
  ASSUME IInv, EvictionInv, InTransaction, ActivePacket.cmd = "flush"
  PROVE  LET o == ActivePacket.origid
             t == ActivePacket.tag
             i == ActivePacket.index
         IN  /\ tag[o][i] = t
             /\ \A d \in Cores \ {o} :
                  Holds(o, t, i) /\ Holds(d, t, i) =>
                    {mesi[o][i], mesi[d][i]} \cap {"exclusive", "modified"} = {}
             /\ mesi[o][i] = "modified" =>
                  \A w \in Offsets : w < ActiveOffset =>
                    memory[t][i][w] = dsram[o][i][w]
<1>1. CASE busInProgress
  BY <1>1 DEF EvictionInv, FlushOfItsFrame, FlushUndisturbed, ActivePacket,
              ActiveOffset
<1>2. CASE ~busInProgress
  <2> DEFINE o == ActivePacket.origid
             t == ActivePacket.tag
             i == ActivePacket.index
  <2>1. ActivePacket = queue[1] /\ 1 \in DOMAIN queue
    BY <1>2 DEF ActivePacket, InTransaction, IInv, TypeOK, BusTypeOK
  <2>2. tag[o][i] = t
    BY <2>1 DEF EvictionInv, FlushOfItsFrame
  <2>3. o \in Cores /\ i \in Frames
    BY ActivePacketFacts DEF Packets
  <2>4. \A c \in Cores : ~InTransfer(c, i)
    BY <1>2, <2>3, GrantedFlushIsFirst
  <2> HIDE DEF o, t, i
  <2>5. ASSUME NEW d \in Cores \ {o}, Holds(o, t, i), Holds(d, t, i)
        PROVE  {mesi[o][i], mesi[d][i]} \cap {"exclusive", "modified"} = {}
    BY <2>3, <2>4, <2>5 DEF IInv, SingleOwner, Holds
  <2>6. \A w \in Offsets : ~ (w < ActiveOffset)
    BY <1>2 DEF ActiveOffset, Offsets
  <2> QED
    BY <2>2, <2>5, <2>6 DEF o, t, i
<1> QED
  BY <1>1, <1>2

\* The read an iteration works on fills a frame that is not modified.
LEMMA ActiveRead ==
  ASSUME IInv, EvictionInv, InTransaction, ActivePacket.cmd # "flush"
  PROVE  mesi[ActivePacket.origid][ActivePacket.index] # "modified"
<1>1. CASE busInProgress
  BY <1>1 DEF EvictionInv, ReadsIntoCleanFrame, ActivePacket
<1>2. CASE ~busInProgress
  <2>1. ActivePacket = queue[1] /\ 1 \in DOMAIN queue
    BY <1>2 DEF ActivePacket, InTransaction, IInv, TypeOK, BusTypeOK
  <2>2. ActivePacket.cmd \in {"busRd", "busRdX"}
    BY ActivePacketFacts
  <2>3. ~FlushBefore(1)
    BY <1>2 DEF FlushBefore
  <2> QED
    BY <2>1, <2>2, <2>3 DEF EvictionInv, ReadsIntoCleanFrame
<1> QED
  BY <1>1, <1>2

\* The word of a dirty block that is flushed is its own.
LEMMA FlushedWord ==
  ASSUME IInv, EvictionInv, BusWord, ActivePacket.cmd = "flush",
         mesi[ActivePacket.origid][ActivePacket.index] = "modified"
  PROVE  WordOnBus(ActivePacket, ActiveOffset) =
           dsram[ActivePacket.origid][ActivePacket.index][ActiveOffset]
<1> DEFINE p == ActivePacket
<1>1. InTransaction /\ p.origid \in Cores /\ p.index \in Frames
  BY ActivePacketFacts DEF BusWord, Packets
<1>2. Holds(p.origid, p.tag, p.index)
  BY <1>1, ActiveFlush DEF Holds
<1>3. Owners(p) = {}
  <2>1. ASSUME NEW d \in Owners(p) PROVE FALSE
    <3>1. d \in Cores \ {p.origid} /\ Holds(d, p.tag, p.index)
          /\ mesi[d][p.index] = "modified"
      BY <2>1 DEF Owners
    <3> QED
      BY <1>1, <1>2, <3>1, ActiveFlush
  <2> QED
    BY <2>1
<1>4. Snoops(p.origid, p)
  BY <1>2 DEF Snoops, CmdSeenBy
<1>5. Suppliers(p) = {p.origid}
  BY <1>1, <1>3, <1>4 DEF Suppliers
<1>6. Max(Suppliers(p)) = p.origid
  <2>1. Suppliers(p) \in SUBSET Cores /\ Suppliers(p) # {}
    BY <1>1, <1>5
  <2> QED
    BY <1>5, <2>1, MaxOfCores
<1> QED
  BY <1>5, <1>6 DEF WordOnBus, MemorySupplies, SnoopedData

LEMMA IterationKeepsFlushOfItsFrame ==
  ASSUME IInv, OneRequestEach, EvictionInv, BusYield \/ BusWait \/ BusWord
  PROVE  FlushOfItsFrame'
<1> DEFINE o == ActivePacket.origid
           f == ActivePacket.index
<1>1. /\ InTransaction /\ BusOperates /\ (Continues \/ Ends)
      /\ o \in Cores /\ f \in Frames
      /\ \A c \in Cores : \A i \in Frames :
           ~ (c = o /\ i = f) => tag'[c][i] = tag[c][i]
      /\ tag'[o][f] \in {tag[o][f], ActivePacket.tag}
  BY IterationEffect
<1>2. currentPacket' = ActivePacket
  BY <1>1 DEF BusOperates
<1> HIDE DEF o, f
<1>3. ASSUME NEW k \in DOMAIN queue', queue'[k].cmd = "flush"
      PROVE  tag'[queue'[k].origid][queue'[k].index] = queue'[k].tag
  <2> DEFINE q == queue'[k]
  <2>1. k + Granting \in DOMAIN queue /\ q = queue[k + Granting]
    BY <1>1, Positions
  <2>2. /\ q.origid \in Cores /\ q.index \in Frames
        /\ tag[q.origid][q.index] = q.tag
    BY <1>3, <2>1, OwnersOfPackets DEF EvictionInv, FlushOfItsFrame
  <2>3. q.origid # o
    BY <1>1, <1>3, SenderKeepsItsRead DEF o
  <2> HIDE DEF q
  <2>4. tag'[q.origid][q.index] = q.tag
    BY <1>1, <2>2, <2>3
  <2> QED
    BY <2>4 DEF q
<1>4. ASSUME ActivePacket.cmd = "flush"
      PROVE  tag'[o][f] = ActivePacket.tag
  BY <1>1, <1>4, ActiveFlush DEF o, f
<1> QED
  BY <1>2, <1>3, <1>4 DEF FlushOfItsFrame, o, f

LEMMA IterationKeepsReadsIntoCleanFrame ==
  ASSUME IInv, OneRequestEach, EvictionInv, BusYield \/ BusWait \/ BusWord
  PROVE  ReadsIntoCleanFrame'
<1> DEFINE o == ActivePacket.origid
           f == ActivePacket.index
<1>1. /\ InTransaction /\ BusOperates /\ (Continues \/ Ends)
      /\ o \in Cores /\ f \in Frames
      /\ \A c \in Cores : \A i \in Frames :
           mesi'[c][i] = "modified" => mesi[c][i] = "modified"
      /\ Ends /\ ~Continues => mesi'[o][f] # "modified"
  BY IterationEffect
<1>2. currentPacket' = ActivePacket
  BY <1>1 DEF BusOperates
<1> HIDE DEF o, f
<1>3. ASSUME NEW k \in DOMAIN queue', queue'[k].cmd \in {"busRd", "busRdX"},
             mesi'[queue'[k].origid][queue'[k].index] = "modified"
      PROVE  FlushBefore(k)'
  <2>1. /\ k \in Nat \ {0} /\ k + Granting \in DOMAIN queue
        /\ queue'[k] = queue[k + Granting]
        /\ Granting \in {0, 1}
        /\ ~busInProgress => ActivePacket = queue[1]
    BY <1>1, Positions
  <2>2. /\ queue'[k].origid \in Cores /\ queue'[k].index \in Frames
    BY <1>3, <2>1, OwnersOfPackets
  <2>3. mesi[queue'[k].origid][queue'[k].index] = "modified"
    BY <1>1, <1>3, <2>2
  <2>4. FlushBefore(k + Granting)
    BY <1>3, <2>1, <2>3 DEF EvictionInv, ReadsIntoCleanFrame
  <2>5. CASE k # 1
    <3>1. k - 1 \in DOMAIN queue'
      <4>1. queue' \in Seq(Packets)
        BY <1>1, IterationKeepsOrder
      <4> QED
        BY <2>5, <4>1
    <3>2. queue'[k - 1] = queue[(k - 1) + Granting]
      BY <1>1, <3>1, Positions
    <3>3. (k - 1) + Granting = (k + Granting) - 1 /\ k + Granting # 1
      BY <2>1, <2>5
    <3> QED
      BY <2>4, <2>5, <3>2, <3>3 DEF FlushBefore
  <2>6. CASE k = 1
    <3>1. ActivePacket.cmd = "flush"
      <4>1. CASE busInProgress
        BY <2>4, <2>6, <4>1 DEF Granting, FlushBefore, ActivePacket
      <4>2. CASE ~busInProgress
        <5>1. k + Granting = 2 /\ 2 # 1 /\ 2 - 1 = 1
          BY <2>6, <4>2 DEF Granting
        <5>2. queue[2 - 1].cmd = "flush"
          BY <2>4, <5>1 DEF FlushBefore
        <5> QED
          BY <2>1, <4>2, <5>1, <5>2
      <4> QED
        BY <4>1, <4>2
    <3>2. queue'[1].origid = o /\ queue'[1].index = f
      BY <1>1, <3>1, RemainingIsPaired DEF FollowUp, BusOperates, o, f
    <3>3. Continues
      BY <1>1, <1>3, <2>6, <3>2
    <3> QED
      BY <1>2, <2>6, <3>1, <3>3 DEF FlushBefore, Continues
  <2> QED
    BY <2>5, <2>6
<1>4. ASSUME ActivePacket.cmd # "flush"
      PROVE  mesi'[o][f] # "modified"
  BY <1>1, <1>4, ActiveRead DEF o, f
<1> QED
  BY <1>2, <1>3, <1>4 DEF ReadsIntoCleanFrame, o, f

LEMMA IterationKeepsFlushUndisturbed ==
  ASSUME IInv, EvictionInv, BusYield \/ BusWait \/ BusWord
  PROVE  FlushUndisturbed'
<1> DEFINE o == ActivePacket.origid
           t == ActivePacket.tag
           f == ActivePacket.index
<1>1. /\ InTransaction /\ BusOperates /\ (Continues \/ Ends)
      /\ o \in Cores /\ f \in Frames
      /\ \A c \in Cores : \A i \in Frames :
           /\ mesi'[c][i] = "modified" => mesi[c][i] = "modified"
           /\ ~ (c = o /\ i = f) =>
                /\ tag'[c][i] = tag[c][i]
                /\ mesi'[c][i] \in {"exclusive", "modified"} =>
                     mesi'[c][i] = mesi[c][i]
                /\ mesi[c][i] = "invalid" => mesi'[c][i] = "invalid"
  BY IterationEffect
<1>2. currentPacket' = ActivePacket
  BY <1>1 DEF BusOperates
<1>3. t \in Tags /\ ActiveOffset \in Offsets /\ ActivePacket \in Packets
  BY <1>1, ActivePacketFacts DEF Packets
<1>4. SUFFICES ASSUME busInProgress', ActivePacket.cmd = "flush"
               PROVE  /\ \A d \in Cores \ {o} :
                           /\ tag'[o][f] = t /\ mesi'[o][f] # "invalid"
                           /\ tag'[d][f] = t /\ mesi'[d][f] # "invalid"
                           => {mesi'[o][f], mesi'[d][f]}
                                \cap {"exclusive", "modified"} = {}
                      /\ mesi'[o][f] = "modified" =>
                           \A w \in Offsets : w < addressOffset' =>
                             memory'[t][f][w] = dsram'[o][f][w]
  BY <1>2 DEF FlushUndisturbed, Holds
<1>5. /\ tag[o][f] = t
      /\ \A d \in Cores \ {o} :
           Holds(o, t, f) /\ Holds(d, t, f) =>
             {mesi[o][f], mesi[d][f]} \cap {"exclusive", "modified"} = {}
      /\ mesi[o][f] = "modified" =>
           \A w \in Offsets : w < ActiveOffset => memory[t][f][w] = dsram[o][f][w]
  BY <1>1, <1>4, ActiveFlush
<1>6. Continues
  BY <1>1, <1>4 DEF Ends
<1>7. /\ mesi'[o][f] \in {"exclusive", "modified"} => mesi'[o][f] = mesi[o][f]
      /\ mesi[o][f] = "invalid" => mesi'[o][f] = "invalid"
  <2>1. \/ mesi'[o][f] = mesi[o][f]
        \/ mesi'[o][f] = MesiAfterSnoop(ActivePacket, ActiveOffset)[o][f]
    <3>1. CASE BusYield
      BY <3>1 DEF BusYield, cacheVars
    <3>2. CASE BusWait
      BY <3>2 DEF BusWait
    <3>3. CASE BusWord
      <4>1. ActiveOffset # LastOffset
        BY <1>4, <3>3, WordEffect DEF Ends
      <4> QED
        BY <1>1, <3>3, <4>1, WordEffect
    <3> QED
      BY <3>1, <3>2, <3>3
  <2> HIDE DEF o, f
  <2> QED
    BY <1>1, <1>3, <2>1, MesiAfterSnoopLowers DEF IInv, TypeOK
<1> HIDE DEF o, t, f
<1>8. ASSUME NEW d \in Cores \ {o},
             tag'[o][f] = t, mesi'[o][f] # "invalid",
             tag'[d][f] = t, mesi'[d][f] # "invalid"
      PROVE  {mesi'[o][f], mesi'[d][f]} \cap {"exclusive", "modified"} = {}
  <2>1. Holds(o, t, f) /\ Holds(d, t, f)
    BY <1>1, <1>5, <1>7, <1>8 DEF Holds
  <2> QED
    BY <1>1, <1>5, <1>7, <1>8, <2>1
<1>9. ASSUME mesi'[o][f] = "modified", NEW w \in Offsets, w < addressOffset'
      PROVE  memory'[t][f][w] = dsram'[o][f][w]
  <2>1. mesi[o][f] = "modified"
    BY <1>1, <1>9
  <2>2. CASE BusYield \/ BusWait
    BY <1>5, <1>9, <2>1, <2>2 DEF BusYield, BusWait, cacheVars, memoryVars
  <2>3. CASE BusWord
    <3> DEFINE word == WordOnBus(ActivePacket, ActiveOffset)
    <3>1. /\ addressOffset' = ActiveOffset + 1
          /\ \A k \in Offsets :
               dsram'[o][f][k] = IF k = ActiveOffset THEN word ELSE dsram[o][f][k]
          /\ \A k \in Offsets :
               memory'[t][f][k] = IF k = ActiveOffset THEN word ELSE memory[t][f][k]
      <4>1. ActiveOffset # LastOffset
        BY <1>4, <2>3, WordEffect DEF Ends
      <4> QED
        BY <1>1, <1>3, <2>3, <4>1, WordEffect DEF o, t, f
    <3>2. w = ActiveOffset \/ w < ActiveOffset
      BY <1>3, <1>9, <3>1 DEF Offsets
    <3> HIDE DEF word
    <3> QED
      BY <1>5, <2>1, <3>1, <3>2
  <2> QED
    BY <2>2, <2>3
<1> QED
  BY <1>8, <1>9

LEMMA BusKeepsEviction ==
  ASSUME IInv, OneRequestEach, EvictionInv, BusIter
  PROVE  EvictionInv'
<1>1. CASE BusYield \/ BusWait \/ BusWord
  BY <1>1, IterationKeepsFlushOfItsFrame, IterationKeepsReadsIntoCleanFrame,
     IterationKeepsFlushUndisturbed
  DEF EvictionInv
<1>2. CASE BusIdle
  <2>1. ~busInProgress' /\ queue' = <<>>
    BY <1>2 DEF BusIdle
  <2>2. \A k \in DOMAIN queue' : FALSE
    BY <2>1
  <2> QED
    BY <2>1, <2>2
    DEF EvictionInv, FlushOfItsFrame, ReadsIntoCleanFrame, FlushUndisturbed
<1>3. CASE BusGap
  <2>1. /\ queue' = Tail(queue) /\ queue # <<>> /\ queue \in Seq(Packets)
        /\ Head(queue).origid = InvalidOriginator
        /\ UNCHANGED <<busInProgress, tag, mesi>> /\ ~busInProgress
    BY <1>3
    DEF BusGap, BusOperates, Remaining, cacheVars, IInv, TypeOK, BusTypeOK
  <2>2. /\ Head(queue) = queue[1] /\ 1 \in DOMAIN queue
        /\ \A k \in DOMAIN queue' :
             k \in Nat \ {0} /\ k + 1 \in DOMAIN queue /\ queue'[k] = queue[k + 1]
    BY <2>1, TailPositions
  <2>3. FlushOfItsFrame'
    BY <2>1, <2>2 DEF EvictionInv, FlushOfItsFrame
  <2>4. ASSUME NEW k \in DOMAIN queue', queue'[k].cmd \in {"busRd", "busRdX"},
               mesi[queue'[k].origid][queue'[k].index] = "modified"
        PROVE  FlushBefore(k)'
    <3>1. FlushBefore(k + 1) /\ k + 1 # 1 /\ (k + 1) - 1 = k
      BY <2>2, <2>4 DEF EvictionInv, ReadsIntoCleanFrame
    <3>2. queue[k].cmd = "flush"
      BY <3>1 DEF FlushBefore
    <3>3. k # 1
      BY <2>1, <2>2, <3>2 DEF IInv, PacketsWellFormed
    <3>4. queue'[k - 1] = queue[k]
      <4>1. queue' \in Seq(Packets)
        BY <2>1
      <4>2. k - 1 \in DOMAIN queue' /\ (k - 1) + 1 = k
        BY <2>2, <3>3, <4>1
      <4> QED
        BY <2>2, <4>2
    <3> QED
      BY <3>2, <3>3, <3>4 DEF FlushBefore
  <2>5. ReadsIntoCleanFrame'
    BY <2>1, <2>4 DEF ReadsIntoCleanFrame
  <2> QED
    BY <2>1, <2>3, <2>5 DEF EvictionInv, FlushUndisturbed
<1> QED
  BY <1>1, <1>2, <1>3 DEF BusIter

-----------------------------------------------------------------------------
(***************************************************************************)
(* The theorems.                                                           *)
(***************************************************************************)
LEMMA NextKeepsEviction ==
  IInv /\ OneRequestEach /\ EvictionInv /\ [Next]_vars => EvictionInv'
<1> SUFFICES ASSUME IInv, OneRequestEach, EvictionInv, [Next]_vars
             PROVE  EvictionInv'
  OBVIOUS
<1>1. CASE BusStep
  BY <1>1, BusKeepsEviction DEF BusStep
<1>2. ASSUME NEW c \in Cores, CoreIdle(c) PROVE EvictionInv'
  BY <1>2, QuietKeepsEviction DEF CoreIdle
<1>3. ASSUME NEW c \in Cores, CoreAccess(c) PROVE EvictionInv'
  <2>1. PICK a \in Accesses : CallsCache(c, a)
    BY <1>3, WorkloadIsAccesses DEF CoreAccess, CallsCache
  <2> QED
    BY <2>1, CallKeepsEviction
<1>4. CASE UNCHANGED vars
  BY <1>4, QuietKeepsEviction DEF vars, cacheVars, memoryVars, busVars
<1> QED
  BY <1>1, <1>2, <1>3, <1>4 DEF Next

(***************************************************************************)
(* The invariants of the bus, the requests and the evictions hold in every *)
(* state of the memory system.                                             *)
(***************************************************************************)
THEOREM EvictionInductive == Spec => [](IInv /\ LedgerInv /\ EvictionInv)
<1>1. Init => IInv /\ LedgerInv /\ EvictionInv
  BY InitIInv, InitLedger, InitEviction
<1>2. IInv /\ LedgerInv /\ EvictionInv /\ [Next]_vars =>
        (IInv /\ LedgerInv /\ EvictionInv)'
  BY NextKeepsIInv, NextKeepsLedger, NextKeepsEviction DEF LedgerInv
<1> QED
  BY <1>1, <1>2, PTL DEF Spec

(***************************************************************************)
(* A line leaves Modified after a flush of its own with the last word of   *)
(* the flush, and not in the first iteration of the read that follows it.  *)
(***************************************************************************)
LEMMA LeavesWithLastWord ==
  ASSUME IInv, OneRequestEach, EvictionInv, BusIter, currentPacket.cmd = "flush",
         NEW c \in Cores, NEW i \in Frames, LeavesModified(c, i)
  PROVE  /\ BusWord /\ ActivePacket.cmd = "flush" /\ ActiveOffset = LastOffset
         /\ c = ActivePacket.origid /\ i = ActivePacket.index
<1> DEFINE p == ActivePacket
           w == ActiveOffset
<1>1. ~BusIdle /\ ~BusGap /\ ~BusYield
  BY DEF LeavesModified, BusIdle, BusGap, BusYield, cacheVars
<1>2. BusWait \/ BusWord
  BY <1>1 DEF BusIter
<1>3. InTransaction /\ ~Yields
  BY <1>2 DEF BusWait, BusWord
<1>4. /\ p \in Packets /\ p.origid \in Cores /\ w \in Offsets
      /\ p.index \in Frames /\ CacheTypeOK
      /\ mesi[c][i] \in MesiStates
  BY <1>3, ActivePacketFacts DEF Packets, IInv, TypeOK, CacheTypeOK
<1>5. \/ mesi'[c][i] = MesiAfterSnoop(p, w)[c][i]
      \/ /\ BusWord /\ w = LastOffset
         /\ c = p.origid /\ i = p.index
  BY <1>2, WordEffect DEF BusWait
<1>6. MesiAfterSnoop(p, w)[c][i] =
        IF i = p.index THEN SnoopedMesi(c, p, w) ELSE mesi[c][i]
  BY <1>4 DEF MesiAfterSnoop, CacheTypeOK
<1>7. CASE p.cmd = "flush"
  <2>1. \A s \in MesiStates : SnoopingSM(s, "flush") = s
    BY DEF SnoopingSM
  <2>2. i = p.index => SnoopedMesi(c, p, w) = mesi[c][i]
    BY <1>4, <1>7, <2>1 DEF SnoopedMesi, CmdSeenBy
  <2> QED
    BY <1>5, <1>6, <1>7, <2>2 DEF LeavesModified
<1>8. CASE p.cmd # "flush"
  <2>1. ~busInProgress
    BY <1>8 DEF ActivePacket
  <2>2. ~ (c = p.origid /\ i = p.index)
    BY <1>3, <1>8, ActiveRead DEF LeavesModified
  <2>3. ~ModifiedLine(p)
    BY <1>3, <2>1 DEF Yields, MayYield
  <2>4. i = p.index
    BY <1>5, <1>6, <2>2 DEF LeavesModified
  <2>5. FALSE
    BY <2>2, <2>3, <2>4 DEF ModifiedLine, LeavesModified
  <2> QED
    BY <2>5
<1> QED
  BY <1>7, <1>8

(***************************************************************************)
(* The flush of an eviction takes the whole dirty block to memory.         *)
(***************************************************************************)
THEOREM EvictionsWriteBack == Spec => OwnEvictionWritesBack
<1>1. ASSUME IInv, OneRequestEach, EvictionInv, [Next]_vars, ~UNCHANGED vars,
             NEW c \in Cores, NEW i \in Frames,
             LeavesModified(c, i), currentPacket.cmd = "flush"
      PROVE  WrittenBack(c, i)
  <2>1. BusIter
    <3>1. ASSUME NEW d \in Cores, CoreIdle(d) \/ CoreAccess(d) PROVE FALSE
      <4>1. CASE CoreIdle(d)
        BY <1>1, <4>1 DEF CoreIdle, cacheVars, LeavesModified
      <4>2. CASE CoreAccess(d)
        <5>1. PICK a \in Accesses : CallsCache(d, a)
          BY <4>2, WorkloadIsAccesses DEF CoreAccess, CallsCache
        <5>2. WriteHit(d, a)
          BY <1>1, <5>1
          DEF CallsCache, CoreWait, ReadHit, WriteUpgrade, Miss, cacheVars,
              LeavesModified
        <5>3. mesi'[c][i] = IF c = d /\ i = a.index THEN "modified" ELSE mesi[c][i]
          BY <1>1, <5>2 DEF WriteHit, IInv, TypeOK, CacheTypeOK, Accesses
        <5> QED
          BY <1>1, <5>3 DEF LeavesModified
      <4> QED
        BY <3>1, <4>1, <4>2
    <3> QED
      BY <1>1, <3>1 DEF Next, BusStep
  <2> DEFINE p == ActivePacket
  <2>2. /\ BusWord /\ p.cmd = "flush" /\ ActiveOffset = LastOffset
        /\ c = p.origid /\ i = p.index /\ InTransaction
    BY <1>1, <2>1, LeavesWithLastWord DEF BusWord
  <2>3. mesi[c][i] = "modified"
    BY <1>1 DEF LeavesModified
  <2>4. /\ tag[c][i] = p.tag
        /\ \A w \in Offsets : w < LastOffset => memory[p.tag][i][w] = dsram[c][i][w]
    BY <1>1, <2>2, <2>3, ActiveFlush
  <2>5. WordOnBus(p, LastOffset) = dsram[c][i][LastOffset]
    BY <1>1, <2>2, <2>3, FlushedWord
  <2>6. p.tag \in Tags
    BY <1>1, <2>2, ActivePacketFacts DEF Packets
  <2>7. \A w \in Offsets : memory'[p.tag][i][w] =
          IF w = LastOffset THEN WordOnBus(p, LastOffset) ELSE memory[p.tag][i][w]
    BY <1>1, <2>2, <2>6, WordEffect
  <2>8. \A w \in Offsets : w = LastOffset \/ w < LastOffset
    BY SizesArePositive DEF Offsets, LastOffset
  <2>9. \A w \in Offsets : memory'[p.tag][i][w] = dsram[c][i][w]
    BY <2>4, <2>5, <2>7, <2>8
  <2>10. /\ memory'[p.tag][i] \in [Offsets -> Words]
         /\ dsram[c][i] \in [Offsets -> Words]
    <3>1. MemoryTypeOK' /\ CacheTypeOK
      BY <1>1, NextKeepsIInv DEF IInv, TypeOK
    <3> QED
      BY <1>1, <2>6, <3>1 DEF MemoryTypeOK, CacheTypeOK
  <2> HIDE DEF p
  <2>11. memory'[p.tag][i] = dsram[c][i]
    BY <2>9, <2>10
  <2> QED
    BY <2>4, <2>11 DEF WrittenBack
<1>2. IInv /\ LedgerInv /\ EvictionInv /\ [Next]_vars =>
        [\A c \in Cores : \A i \in Frames :
           LeavesModified(c, i) /\ currentPacket.cmd = "flush" =>
             WrittenBack(c, i)]_vars
  BY <1>1 DEF LedgerInv
<1> QED
  BY <1>2, EvictionInductive, PTL DEF Spec, OwnEvictionWritesBack

-----------------------------------------------------------------------------
(***************************************************************************)
(* Writes. A BusRdX that has given up no iteration has met no modified     *)
(* line, so every other copy of its block is gone after its first          *)
(* iteration, and the shared line is down in its last. It takes more than  *)
(* one iteration unless memory has no latency and a block is one word.     *)
(***************************************************************************)
LEMMA InitUncontested == Init => WritesUncontested
  BY DEF WritesUncontested, Init, BusInit, ZeroPacket, Packet

\* A core that is in no transaction gets a copy of no block by itself, and
\* touches no line of a core that has just been served.
LEMMA CallKeepsUncontested ==
  ASSUME IInv, WritesUncontested, NEW c \in Cores, NEW a \in Accesses,
         CallsCache(c, a)
  PROVE  WritesUncontested'
<1> DEFINE o == currentPacket.origid
           i == currentPacket.index
<1>1. UNCHANGED <<tag, currentPacket, busInProgress, isFirstShared>>
  BY DEF CallsCache, CoreWait, ReadHit, WriteHit, WriteUpgrade, Miss, cacheVars,
         busVars, BusAddTransactions
<1>2. /\ i \in Frames /\ a.index \in Frames /\ CacheTypeOK
      /\ transactionState \in [Cores -> TransactionStates]
  BY DEF Accesses, IInv, TypeOK, BusTypeOK, Packets
<1>3. \/ UNCHANGED mesi
      \/ /\ transactionState[c] = "idle" /\ Holds(c, a.tag, a.index)
         /\ mesi' = [mesi EXCEPT ![c][a.index] = "modified"]
  BY DEF CallsCache, CoreWait, ReadHit, WriteHit, WriteUpgrade, Miss, cacheVars,
         BusInTransaction, Hits
<1>4. \A d \in Cores : \A j \in Frames :
        /\ mesi[d][j] = "invalid" => mesi'[d][j] = "invalid"
        /\ mesi'[d][j] = mesi[d][j] \/ transactionState[d] = "idle"
  <2>1. CASE UNCHANGED mesi
    BY <2>1
  <2>2. CASE ~UNCHANGED mesi
    <3>1. /\ transactionState[c] = "idle" /\ mesi[c][a.index] # "invalid"
          /\ mesi' = [mesi EXCEPT ![c][a.index] = "modified"]
      BY <1>3, <2>2 DEF Holds
    <3>2. \A d \in Cores : \A j \in Frames :
            mesi'[d][j] = IF d = c /\ j = a.index THEN "modified" ELSE mesi[d][j]
      BY <1>2, <3>1 DEF CacheTypeOK
    <3> QED
      BY <3>1, <3>2
  <2> QED
    BY <2>1, <2>2
<1>5. \A d \in Cores :
        transactionState'[d] = "finally" => transactionState[d] = "finally"
  BY <1>2 DEF CallsCache, CoreWait, ReadHit, WriteHit, WriteUpgrade, Miss, busVars,
              BusAddTransactions
<1>6. ASSUME currentPacket.cmd = "busRdX", isFirstShared, busInProgress,
             NEW d \in Cores \ {o}
      PROVE  ~Holds(d, currentPacket.tag, i)'
  <2>1. ~Holds(d, currentPacket.tag, i)
    BY <1>6 DEF WritesUncontested
  <2> QED
    BY <1>1, <1>2, <1>4, <2>1 DEF Holds
<1>7. ASSUME currentPacket.cmd = "busRdX", isFirstShared, o \in Cores,
             transactionState'[o] = "finally"
      PROVE  mesi'[o][i] = "exclusive"
  <2>1. transactionState[o] = "finally" /\ mesi[o][i] = "exclusive"
    BY <1>5, <1>7 DEF WritesUncontested
  <2> QED
    BY <1>2, <1>4, <1>7, <2>1
<1> QED
  BY <1>1, <1>6, <1>7 DEF WritesUncontested

\* The first iteration of a BusRdX that meets no modified line takes every
\* other copy of the block away, and no later one brings one back.
LEMMA OthersLoseBlock ==
  ASSUME IInv, WritesUncontested, BusWait \/ BusWord,
         ActivePacket.cmd = "busRdX", MayYield,
         NEW d \in Cores \ {ActivePacket.origid}
  PROVE  LET t == ActivePacket.tag
             f == ActivePacket.index
         IN  /\ ~ (tag'[d][f] = t /\ mesi'[d][f] # "invalid")
             /\ busInProgress => ~Holds(d, t, f)
<1> DEFINE p == ActivePacket
           w == ActiveOffset
           f == ActivePacket.index
<1>1. /\ InTransaction /\ CacheTypeOK /\ p \in Packets /\ w \in Offsets
      /\ f \in Frames /\ ~Yields
  BY ActivePacketFacts DEF BusWait, BusWord, IInv, TypeOK, Packets
<1>2. mesi[d][f] # "modified" /\ Owners(p) = {}
  BY <1>1 DEF Yields, ModifiedLine, Owners
<1>3. /\ tag'[d][f] = tag[d][f]
      /\ mesi[d][f] = "invalid" => mesi'[d][f] = "invalid"
  BY <1>1, IterationEffect
<1>4. mesi'[d][f] = SnoopedMesi(d, p, w)
  <2>1. MesiAfterSnoop(p, w)[d][f] = SnoopedMesi(d, p, w)
    BY <1>1 DEF MesiAfterSnoop, CacheTypeOK
  <2>2. mesi'[d][f] = MesiAfterSnoop(p, w)[d][f]
    BY <1>1, WordEffect DEF BusWait
  <2> QED
    BY <2>1, <2>2
<1>5. Holds(d, p.tag, f) => mesi'[d][f] = "invalid"
  BY <1>2, <1>4 DEF SnoopedMesi, Snoops, CmdSeenBy, SnoopingSM, Holds
<1>6. busInProgress => ~Holds(d, p.tag, f)
  BY DEF WritesUncontested, ActivePacket, MayYield
<1> QED
  BY <1>3, <1>5, <1>6 DEF Holds

\* A transaction that begins with its last word has one word and no latency.
LEMMA FirstIsNotLast ==
  ASSUME Latency # 0 \/ BlockSize # 1, IInv, BusWord, ~ModifiedLine(ActivePacket),
         ActiveOffset = LastOffset
  PROVE  busInProgress
<1>1. SUFFICES ASSUME ~busInProgress PROVE FALSE
  OBVIOUS
<1>2. BlockSize = 1
  BY <1>1, SizesArePositive DEF ActiveOffset, LastOffset
<1>3. ~memoryTransaction
  BY <1>1 DEF IInv, BurstInStep
<1>4. 0 >= Latency
  BY <1>3 DEF BusWord, MemoryResponds, CountNow
<1> QED
  BY <1>2, <1>4, LatencyIsNat

LEMMA IterationKeepsUncontested ==
  ASSUME Latency # 0 \/ BlockSize # 1, IInv, LedgerInv, WritesUncontested,
         BusYield \/ BusWait \/ BusWord
  PROVE  WritesUncontested'
<1> DEFINE o == ActivePacket.origid
           t == ActivePacket.tag
           f == ActivePacket.index
<1>1. /\ InTransaction /\ BusOperates /\ (Continues \/ Ends)
      /\ o \in Cores /\ f \in Frames
  BY IterationEffect
<1>2. currentPacket' = ActivePacket
  BY <1>1 DEF BusOperates
<1>3. SUFFICES ASSUME ActivePacket.cmd = "busRdX", isFirstShared'
               PROVE  /\ busInProgress' => \A d \in Cores \ {o} :
                           ~ (tag'[d][f] = t /\ mesi'[d][f] # "invalid")
                      /\ transactionState'[o] = "finally" =>
                           mesi'[o][f] = "exclusive"
  BY <1>2 DEF WritesUncontested, Holds
<1>4. (BusWait \/ BusWord) /\ MayYield /\ ~ModifiedLine(ActivePacket)
  BY <1>3 DEF BusYield, BusWait, BusWord, Yields
<1>5. \A d \in Cores \ {o} :
        /\ ~ (tag'[d][f] = t /\ mesi'[d][f] # "invalid")
        /\ busInProgress => ~Holds(d, t, f)
  BY <1>3, <1>4, OthersLoseBlock
<1>6. ASSUME transactionState'[o] = "finally"
      PROVE  mesi'[o][f] = "exclusive"
  <2>1. ~busInProgress'
    BY <1>1, <1>6, StatesAfter DEF LedgerInv
  <2>2. BusWord /\ ActiveOffset = LastOffset
    BY <1>4, <2>1, WordEffect DEF BusWait, BusKeeps, Continues
  <2>3. ~SharedLine(ActivePacket)
    BY <1>4, <1>5, <2>2, FirstIsNotLast DEF SharedLine
  <2> QED
    BY <1>1, <2>2, <2>3, WordEffect
<1> QED
  BY <1>5, <1>6

LEMMA NextKeepsUncontested ==
  ASSUME Latency # 0 \/ BlockSize # 1, IInv, LedgerInv, WritesUncontested,
         [Next]_vars
  PROVE  WritesUncontested'
<1>1. CASE BusStep
  <2>1. CASE BusIdle
    <3>1. /\ currentPacket'.origid = InvalidOriginator /\ ~busInProgress'
      BY <2>1 DEF BusIdle, IInv, TypeOK, BusTypeOK, Packets
    <3>2. InvalidOriginator \notin Cores
      BY SizesArePositive DEF InvalidOriginator, Cores
    <3> QED
      BY <3>1, <3>2 DEF WritesUncontested
  <2>2. CASE BusGap
    <3>1. /\ currentPacket' = queue[1] /\ 1 \in DOMAIN queue
          /\ queue[1].origid = InvalidOriginator
      BY <2>2 DEF BusGap, BusOperates, ActivePacket, IInv, TypeOK, BusTypeOK
    <3>2. currentPacket'.cmd = "none"
      BY <3>1 DEF IInv, PacketsWellFormed
    <3> QED
      BY <3>2 DEF WritesUncontested
  <2> QED
    BY <1>1, <2>1, <2>2, IterationKeepsUncontested DEF BusStep, BusIter
<1>2. ASSUME NEW c \in Cores, CoreIdle(c) PROVE WritesUncontested'
  BY <1>2 DEF CoreIdle, cacheVars, busVars, WritesUncontested, Holds
<1>3. ASSUME NEW c \in Cores, CoreAccess(c) PROVE WritesUncontested'
  <2>1. PICK a \in Accesses : CallsCache(c, a)
    BY <1>3, WorkloadIsAccesses DEF CoreAccess, CallsCache
  <2> QED
    BY <2>1, CallKeepsUncontested
<1>4. CASE UNCHANGED vars
  BY <1>4 DEF vars, cacheVars, busVars, WritesUncontested, Holds
<1> QED
  BY <1>1, <1>2, <1>3, <1>4 DEF Next

(***************************************************************************)
(* A BusRdX that gives up no iteration ends as the only one that has its   *)
(* block, if it takes more than one iteration.                             *)
(***************************************************************************)
THEOREM WritesUncontestedAlways ==
  ASSUME Latency # 0 \/ BlockSize # 1
  PROVE  Spec => [](IInv /\ LedgerInv /\ WritesUncontested)
<1>1. Init => IInv /\ LedgerInv /\ WritesUncontested
  BY InitIInv, InitLedger, InitUncontested
<1>2. IInv /\ LedgerInv /\ WritesUncontested /\ [Next]_vars =>
        (IInv /\ LedgerInv /\ WritesUncontested)'
  BY NextKeepsIInv, NextKeepsLedger, NextKeepsUncontested
<1> QED
  BY <1>1, <1>2, PTL DEF Spec

(***************************************************************************)
(* The invalid packet comes right after the BusRdX of an upgrade and       *)
(* releases its sender, which has the block: Exclusive, so that its store  *)
(* hits before the next Bus_Iter, unless an iteration was given up for a   *)
(* line that was modified.                                                 *)
(***************************************************************************)
THEOREM GapGuardsEveryUpgrade ==
  ASSUME Latency # 0 \/ BlockSize # 1
  PROVE  Spec => GapGuardsUpgrade
<1>1. ASSUME IInv, LedgerInv, WritesUncontested, BusGap
      PROVE  LET p == currentPacket
             IN  /\ p.origid \in Cores
                 /\ p.cmd = "busRdX"
                 /\ transactionState'[p.origid] = "idle"
                 /\ AsksFor(p, pending[p.origid])
                 /\ Holds(p.origid, p.tag, p.index)
                 /\ isFirstShared => mesi[p.origid][p.index] = "exclusive"
  <2>1. Head(queue) = queue[1] /\ 1 \in DOMAIN queue
    BY <1>1 DEF BusGap, IInv, TypeOK, BusTypeOK
  <2>2. /\ currentPacket.cmd = "busRdX" /\ currentPacket.origid \in Cores
        /\ transactionState[currentPacket.origid] \in {"operation", "finally"}
    BY <1>1, <2>1 DEF BusGap, LedgerInv, UpgradesGuarded
  <2>3. transactionState[currentPacket.origid] = "finally"
    BY <1>1, <2>2 DEF BusGap, LedgerInv, OneRequestEach
  <2>4. transactionState'[currentPacket.origid] = "idle"
    BY <1>1, <2>2, <2>3 DEF BusGap, Released
  <2>5. isFirstShared =>
          mesi[currentPacket.origid][currentPacket.index] = "exclusive"
    BY <1>1, <2>2, <2>3 DEF WritesUncontested
  <2> QED
    BY <1>1, <2>2, <2>3, <2>4, <2>5 DEF LedgerInv, UpgradesGuarded, RequestsMatch
<1>2. IInv /\ LedgerInv /\ WritesUncontested /\ [Next]_vars =>
        [BusGap =>
           LET p == currentPacket
           IN  /\ p.origid \in Cores
               /\ p.cmd = "busRdX"
               /\ transactionState'[p.origid] = "idle"
               /\ AsksFor(p, pending[p.origid])
               /\ Holds(p.origid, p.tag, p.index)
               /\ isFirstShared => mesi[p.origid][p.index] = "exclusive"]_vars
  BY <1>1
<1> QED
  BY <1>2, WritesUncontestedAlways, PTL DEF Spec, GapGuardsUpgrade

-----------------------------------------------------------------------------
(***************************************************************************)
(* Programs whose addresses never compete for a frame. They evict nothing, *)
(* the sender of a packet holds no copy that could answer its own read,    *)
(* and a modified line in the frame of a read is of the block it reads.    *)
(***************************************************************************)
LEMMA InitNoConflict == Init => NoConflictInv
<1> SUFFICES ASSUME Init PROVE NoConflictInv
  OBVIOUS
<1>1. OnlyWantedBlocks
  BY DEF OnlyWantedBlocks, Init, BusInit, CacheInit, ZeroPacket, Packet
<1>2. SenderHasNoRival
  BY DEF SenderHasNoRival, Init, BusInit
<1> QED
  BY <1>1, <1>2 DEF NoConflictInv

LEMMA QuietKeepsNoConflict ==
  ASSUME NoConflictInv, UNCHANGED <<cacheVars, busVars>>
  PROVE  NoConflictInv'
<1> USE DEF cacheVars, busVars
<1>1. OnlyWantedBlocks'
  BY DEF NoConflictInv, OnlyWantedBlocks
<1>2. SenderHasNoRival'
  BY DEF NoConflictInv, SenderHasNoRival, Holds
<1> QED
  BY <1>1, <1>2 DEF NoConflictInv

\* The access of a program finds its own block in its frame, or none.
LEMMA FrameHasWantedBlock ==
  ASSUME NoConflicts, IInv, NoConflictInv, NEW c \in Cores, NEW i \in Frames,
         NEW t \in Tags, Wanted(t, i), mesi[c][i] # "invalid"
  PROVE  tag[c][i] = t
<1>1. tag[c][i] \in Tags
  BY DEF IInv, TypeOK, CacheTypeOK
<1>2. Wanted(tag[c][i], i)
  BY DEF NoConflictInv, OnlyWantedBlocks
<1> QED
  BY <1>1, <1>2 DEF NoConflicts

\* A request without a flush, for a block the programs access.
LEMMA RequestKeepsNoConflict ==
  ASSUME IInv, NoConflictInv, NEW c \in Cores, UNCHANGED cacheVars,
         NEW packets \in Seq(Packets), BusAddTransactions(c, packets),
         \A k \in DOMAIN packets :
           packets[k].cmd # "none" =>
             packets[k].cmd # "flush" /\ Wanted(packets[k].tag, packets[k].index)
  PROVE  NoConflictInv'
<1> DEFINE n == Len(queue)
<1>1. /\ queue' = queue \o packets
      /\ UNCHANGED <<currentPacket, busInProgress, tag, mesi>>
      /\ queue \in Seq(Packets)
  BY DEF BusAddTransactions, cacheVars, IInv, TypeOK, BusTypeOK
<1>2. ASSUME NEW k \in DOMAIN queue'
      PROVE  \/ k \in DOMAIN queue /\ queue'[k] = queue[k]
             \/ k - n \in DOMAIN packets /\ queue'[k] = packets[k - n]
  BY <1>1, <1>2
<1> HIDE DEF n
<1>3. OnlyWantedBlocks'
  BY <1>1, <1>2 DEF NoConflictInv, OnlyWantedBlocks
<1>4. SenderHasNoRival'
  BY <1>1 DEF NoConflictInv, SenderHasNoRival, Holds
<1> QED
  BY <1>3, <1>4 DEF NoConflictInv

(***************************************************************************)
(* A store is to a block no packet's sender holds, for the sender of the   *)
(* packet in progress is another core and would have a rival.              *)
(***************************************************************************)
LEMMA WriteHitKeepsNoConflict ==
  ASSUME IInv, NoConflictInv, NEW c \in Cores, NEW a \in Accesses, WriteHit(c, a)
  PROVE  NoConflictInv'
<1>1. /\ a.index \in Frames /\ CacheTypeOK
      /\ Holds(c, a.tag, a.index) /\ mesi[c][a.index] # "shared"
      /\ UNCHANGED <<tag, queue, currentPacket, busInProgress>>
  BY DEF Accesses, WriteHit, Hits, busVars, IInv, TypeOK
<1>2. \A d \in Cores : \A i \in Frames :
        mesi'[d][i] = IF d = c /\ i = a.index THEN "modified" ELSE mesi[d][i]
  BY <1>1 DEF WriteHit, CacheTypeOK
<1>3. mesi[c][a.index] \in {"exclusive", "modified"}
  BY <1>1 DEF CacheTypeOK, MesiStates, Holds
<1>4. OnlyWantedBlocks'
  BY <1>1, <1>2, <1>3 DEF NoConflictInv, OnlyWantedBlocks
<1>5. SenderHasNoRival'
  <2> DEFINE o == currentPacket.origid
             t == currentPacket.tag
             i == currentPacket.index
  <2>1. SUFFICES ASSUME busInProgress, tag[o][i] = t, mesi'[o][i] # "invalid",
                        NEW d \in Cores \ {o}, tag[d][i] = t,
                        mesi'[d][i] \in {"exclusive", "modified"}
                 PROVE  FALSE
    BY <1>1 DEF SenderHasNoRival, Holds
  <2>2. o \in Cores /\ i \in Frames /\ o # c
    BY <2>1, OwnersOfPackets DEF WriteHit, BusInTransaction, IInv, SenderIsBusy
  <2>3. Holds(o, t, i)
    BY <1>2, <2>1, <2>2 DEF Holds
  <2>4. Holds(d, t, i) /\ mesi[d][i] \in {"exclusive", "modified"}
    BY <1>2, <1>3, <2>1, <2>2 DEF Holds
  <2> QED
    BY <2>1, <2>3, <2>4 DEF NoConflictInv, SenderHasNoRival
<1> QED
  BY <1>4, <1>5 DEF NoConflictInv

LEMMA CallKeepsNoConflict ==
  ASSUME NoConflicts, IInv, NoConflictInv,
         NEW c \in Cores, NEW a \in Workload[c], CallsCache(c, a)
  PROVE  NoConflictInv'
<1>1. /\ a \in Accesses /\ a.index \in Frames /\ a.tag \in Tags
      /\ Wanted(a.tag, a.index)
  BY WorkloadIsAccesses DEF Accesses, Wanted
<1>2. MissCommand(a) \in Commands /\ MissCommand(a) # "flush"
  BY DEF MissCommand, Commands
<1>3. CASE CoreWait(c, a) \/ ReadHit(c, a)
  BY <1>3, QuietKeepsNoConflict DEF CoreWait, ReadHit
<1>4. CASE WriteUpgrade(c, a)
  <2> DEFINE packets == <<Packet(c, "busRdX", a.tag, a.index, 0), InvalidPacket>>
  <2>1. packets \in Seq(Packets)
    BY <1>1, SizesArePositive, ZeroIsAWord
    DEF Packet, InvalidPacket, Packets, Commands, Tags, Frames
  <2>2. \A k \in DOMAIN packets :
          packets[k].cmd # "none" =>
            packets[k].cmd # "flush" /\ Wanted(packets[k].tag, packets[k].index)
    BY <1>1 DEF Packet, InvalidPacket
  <2>3. UNCHANGED cacheVars /\ BusAddTransactions(c, packets)
    BY <1>4 DEF WriteUpgrade
  <2> HIDE DEF packets
  <2> QED
    BY <2>1, <2>2, <2>3, RequestKeepsNoConflict
<1>5. CASE Miss(c, a)
  <2> DEFINE packets == <<Packet(c, MissCommand(a), a.tag, a.index, 0)>>
  <2>1. packets \in Seq(Packets)
    BY <1>1, <1>2, ZeroIsAWord DEF Packet, Packets
  <2>2. \A k \in DOMAIN packets :
          packets[k].cmd # "flush" /\ Wanted(packets[k].tag, packets[k].index)
    BY <1>1, <1>2 DEF Packet
  <2>3. DirtyBlock(c, a) = <<>>
    <3>1. mesi[c][a.index] # "modified"
      BY <1>1, <1>5, FrameHasWantedBlock DEF Miss, Hits, Holds
    <3> QED
      BY <3>1 DEF DirtyBlock
  <2>4. DirtyBlock(c, a) \o packets = packets
    BY <2>1, <2>3
  <2>5. UNCHANGED cacheVars /\ BusAddTransactions(c, packets)
    BY <1>5, <2>4 DEF Miss
  <2> HIDE DEF packets
  <2> QED
    BY <2>1, <2>2, <2>5, RequestKeepsNoConflict
<1> QED
  BY <1>1, <1>3, <1>4, <1>5, WriteHitKeepsNoConflict DEF CallsCache

(***************************************************************************)
(* The packet of an iteration is a read of a block the programs access,    *)
(* and its sender has no rival: with no flush about, SingleOwner says so   *)
(* when the packet is granted the bus.                                     *)
(***************************************************************************)
LEMMA ActiveIsWanted ==
  ASSUME IInv, NoConflictInv, InTransaction
  PROVE  LET o == ActivePacket.origid
             t == ActivePacket.tag
             i == ActivePacket.index
         IN  /\ ActivePacket.cmd \in {"busRd", "busRdX"}
             /\ o \in Cores /\ t \in Tags /\ i \in Frames
             /\ Wanted(t, i)
             /\ Holds(o, t, i) =>
                  \A d \in Cores \ {o} :
                    Holds(d, t, i) => mesi[d][i] \notin {"exclusive", "modified"}
<1>1. /\ ActivePacket \in Packets /\ ActivePacket.origid \in Cores
      /\ ActivePacket.cmd \in {"busRd", "busRdX", "flush"}
      /\ ActivePacket.tag \in Tags /\ ActivePacket.index \in Frames
  BY ActivePacketFacts DEF Packets
<1>2. CASE busInProgress
  BY <1>1, <1>2
  DEF NoConflictInv, OnlyWantedBlocks, SenderHasNoRival, ActivePacket
<1>3. CASE ~busInProgress
  <2>1. ActivePacket = queue[1] /\ 1 \in DOMAIN queue
    BY <1>3 DEF ActivePacket, InTransaction, IInv, TypeOK, BusTypeOK
  <2>2. ActivePacket.cmd # "flush" /\ Wanted(ActivePacket.tag, ActivePacket.index)
    BY <1>1, <2>1 DEF NoConflictInv, OnlyWantedBlocks
  <2>3. \A c \in Cores : \A i \in Frames : ~InTransfer(c, i)
    BY <1>3 DEF InTransfer, NoConflictInv, OnlyWantedBlocks
  <2> QED
    BY <1>1, <2>2, <2>3 DEF IInv, SingleOwner, Holds
<1> QED
  BY <1>2, <1>3

\* The lines an iteration leaves valid were so before, but the one it fills.
LEMMA IterationValidates ==
  ASSUME IInv, BusYield \/ BusWait \/ BusWord,
         NEW c \in Cores, NEW i \in Frames, mesi'[c][i] # "invalid"
  PROVE  /\ \/ mesi[c][i] # "invalid" /\ tag'[c][i] = tag[c][i]
            \/ /\ c = ActivePacket.origid
               /\ i = ActivePacket.index
               /\ tag'[c][i] = ActivePacket.tag
         /\ busInProgress' => mesi[c][i] # "invalid"
<1> DEFINE p == ActivePacket
           n == ActiveOffset
<1>1. /\ InTransaction /\ CacheTypeOK /\ p \in Packets /\ n \in Offsets
  BY ActivePacketFacts DEF BusYield, BusWait, BusWord, IInv, TypeOK
<1>2. mesi[c][i] = "invalid" => MesiAfterSnoop(p, n)[c][i] = "invalid"
  BY <1>1, MesiAfterSnoopLowers
<1>3. CASE BusYield
  BY <1>3 DEF BusYield, cacheVars
<1>4. CASE BusWait
  BY <1>2, <1>4 DEF BusWait
<1>5. CASE BusWord
  <2>1. /\ n # LastOffset \/ busInProgress' = FALSE
        /\ tag'[c][i] = IF c = p.origid /\ i = p.index THEN p.tag ELSE tag[c][i]
        /\ mesi'[c][i] =
             IF c = p.origid /\ i = p.index /\ n = LastOffset
             THEN IF SharedLine(p) THEN "shared" ELSE "exclusive"
             ELSE MesiAfterSnoop(p, n)[c][i]
    BY <1>5, WordEffect DEF Ends, Continues
  <2> HIDE DEF p, n
  <2>2. QED
    BY <1>2, <2>1 DEF p
<1> QED
  BY <1>3, <1>4, <1>5

LEMMA IterationKeepsNoConflict ==
  ASSUME NoConflicts, IInv, NoConflictInv, BusYield \/ BusWait \/ BusWord
  PROVE  NoConflictInv'
<1> DEFINE o == ActivePacket.origid
           t == ActivePacket.tag
           f == ActivePacket.index
<1>1. /\ InTransaction /\ BusOperates
      /\ \A c \in Cores : \A i \in Frames :
           ~ (c = o /\ i = f) =>
             /\ tag'[c][i] = tag[c][i]
             /\ mesi'[c][i] \in {"exclusive", "modified"} => mesi'[c][i] = mesi[c][i]
  BY IterationEffect
<1>2. currentPacket' = ActivePacket
  BY <1>1 DEF BusOperates
<1>3. /\ ActivePacket.cmd \in {"busRd", "busRdX"}
      /\ o \in Cores /\ t \in Tags /\ f \in Frames
      /\ Wanted(t, f)
      /\ Holds(o, t, f) =>
           \A d \in Cores \ {o} :
             Holds(d, t, f) => mesi[d][f] \notin {"exclusive", "modified"}
  BY <1>1, ActiveIsWanted
<1>4. ASSUME NEW c \in Cores, NEW i \in Frames, mesi'[c][i] # "invalid"
      PROVE  /\ \/ mesi[c][i] # "invalid" /\ tag'[c][i] = tag[c][i]
                \/ c = o /\ i = f /\ tag'[c][i] = t
             /\ busInProgress' => mesi[c][i] # "invalid"
  BY <1>4, IterationValidates
<1>5. ASSUME NEW k \in DOMAIN queue', queue'[k].cmd # "none"
      PROVE  queue'[k].cmd # "flush" /\ Wanted(queue'[k].tag, queue'[k].index)
  <2>1. k + Granting \in DOMAIN queue /\ queue'[k] = queue[k + Granting]
    BY <1>1, Positions
  <2> QED
    BY <1>5, <2>1 DEF NoConflictInv, OnlyWantedBlocks
<1> HIDE DEF o, t, f
<1>6. ASSUME NEW c \in Cores, NEW i \in Frames, mesi'[c][i] # "invalid"
      PROVE  Wanted(tag'[c][i], i)
  BY <1>3, <1>4, <1>6 DEF NoConflictInv, OnlyWantedBlocks
<1>7. OnlyWantedBlocks'
  BY <1>2, <1>3, <1>5, <1>6 DEF OnlyWantedBlocks, o, t, f
<1>8. ASSUME busInProgress', tag'[o][f] = t, mesi'[o][f] # "invalid",
             NEW d \in Cores \ {o}, tag'[d][f] = t
      PROVE  mesi'[d][f] \notin {"exclusive", "modified"}
  <2>1. SUFFICES ASSUME mesi'[d][f] \in {"exclusive", "modified"} PROVE FALSE
    OBVIOUS
  <2>2. Holds(o, t, f)
    <3>1. mesi[o][f] # "invalid"
      BY <1>3, <1>4, <1>8
    <3> QED
      BY <1>3, <3>1, FrameHasWantedBlock DEF Holds
  <2>3. Holds(d, t, f) /\ mesi[d][f] \in {"exclusive", "modified"}
    BY <1>1, <1>3, <1>8, <2>1 DEF Holds
  <2> QED
    BY <1>3, <2>2, <2>3
<1>9. SenderHasNoRival'
  BY <1>2, <1>8 DEF SenderHasNoRival, Holds, o, t, f
<1> QED
  BY <1>7, <1>9 DEF NoConflictInv

LEMMA NextKeepsNoConflict ==
  ASSUME NoConflicts, IInv, NoConflictInv, [Next]_vars
  PROVE  NoConflictInv'
<1>1. CASE BusStep
  <2>1. CASE BusIdle
    <3>1. /\ queue' = <<>> /\ ~busInProgress' /\ UNCHANGED <<tag, mesi>>
          /\ currentPacket'.cmd = currentPacket.cmd
      BY <2>1 DEF BusIdle, cacheVars, IInv, TypeOK, BusTypeOK, Packets
    <3> QED
      BY <3>1 DEF NoConflictInv, OnlyWantedBlocks, SenderHasNoRival
  <2>2. CASE BusGap
    <3>1. /\ queue' = Tail(queue) /\ queue # <<>> /\ queue \in Seq(Packets)
          /\ currentPacket' = Head(queue) /\ Head(queue).origid = InvalidOriginator
          /\ ~busInProgress' /\ UNCHANGED <<tag, mesi>>
      BY <2>2 DEF BusGap, BusOperates, Remaining, ActivePacket, cacheVars,
                  IInv, TypeOK, BusTypeOK
    <3>2. /\ Head(queue) = queue[1] /\ 1 \in DOMAIN queue
          /\ \A k \in DOMAIN queue' :
               k + 1 \in DOMAIN queue /\ queue'[k] = queue[k + 1]
      BY <3>1, TailPositions
    <3>3. currentPacket'.cmd = "none"
      BY <3>1, <3>2 DEF IInv, PacketsWellFormed
    <3> QED
      BY <3>1, <3>2, <3>3 DEF NoConflictInv, OnlyWantedBlocks, SenderHasNoRival
  <2> QED
    BY <1>1, <2>1, <2>2, IterationKeepsNoConflict DEF BusStep, BusIter
<1>2. ASSUME NEW c \in Cores, CoreIdle(c) PROVE NoConflictInv'
  BY <1>2, QuietKeepsNoConflict DEF CoreIdle
<1>3. ASSUME NEW c \in Cores, CoreAccess(c) PROVE NoConflictInv'
  <2>1. PICK a \in Workload[c] : CallsCache(c, a)
    BY <1>3 DEF CoreAccess, CallsCache
  <2> QED
    BY <2>1, CallKeepsNoConflict
<1>4. CASE UNCHANGED vars
  BY <1>4, QuietKeepsNoConflict DEF vars, cacheVars, busVars
<1> QED
  BY <1>1, <1>2, <1>3, <1>4 DEF Next

(***************************************************************************)
(* Without conflicts no core ever evicts a block, and none that waits for  *)
(* a block it holds has a rival.                                           *)
(***************************************************************************)
THEOREM NoConflictInductive ==
  ASSUME NoConflicts
  PROVE  Spec => [](IInv /\ NoConflictInv)
<1>1. Init => IInv /\ NoConflictInv
  BY InitIInv, InitNoConflict
<1>2. IInv /\ NoConflictInv /\ [Next]_vars => (IInv /\ NoConflictInv)'
  BY NextKeepsIInv, NextKeepsNoConflict
<1> QED
  BY <1>1, <1>2, PTL DEF Spec

\* Then a read with a modified line in its frame is answered by that line.
LEMMA ModifiedLineAnswers ==
  ASSUME NoConflicts, IInv, NoConflictInv, InTransaction
  PROVE  ModifiedLine(ActivePacket) => Owners(ActivePacket) # {}
<1> DEFINE p == ActivePacket
<1>1. /\ p.tag \in Tags /\ p.index \in Frames /\ Wanted(p.tag, p.index)
  BY ActiveIsWanted
<1> HIDE DEF p
<1>2. ASSUME NEW c \in Cores \ {p.origid}, mesi[c][p.index] = "modified"
      PROVE  c \in Owners(p)
  BY <1>1, <1>2, FrameHasWantedBlock DEF Owners, Holds
<1>3. ModifiedLine(p) => Owners(p) # {}
  BY <1>2 DEF ModifiedLine
<1> QED
  BY <1>3 DEF p

(***************************************************************************)
(* Without conflicts, and with any latency at all, no word comes from      *)
(* memory in the iteration its transaction starts in.                      *)
(***************************************************************************)
THEOREM MemoryAlwaysTakesItsTime ==
  ASSUME NoConflicts, Latency # 0
  PROVE  Spec => MemoryTakesItsTime
<1>1. ASSUME IInv, NoConflictInv, BusWord, MemorySupplies(ActivePacket)
      PROVE  memoryTransaction
  <2>1. Owners(ActivePacket) = {} /\ InTransaction
    BY <1>1 DEF MemorySupplies, BusWord
  <2>2. ~ModifiedLine(ActivePacket)
    BY <1>1, <2>1, ModifiedLineAnswers
  <2>3. CountNow(ModifiedLine(ActivePacket)) >= Latency
    BY <1>1 DEF BusWord, MemoryResponds
  <2> QED
    BY <2>2, <2>3, LatencyIsNat DEF CountNow
<1>2. IInv /\ NoConflictInv =>
        [BusWord /\ MemorySupplies(ActivePacket) => memoryTransaction]_vars
  BY <1>1
<1> QED
  BY <1>2, NoConflictInductive, PTL DEF MemoryTakesItsTime

\* The sender of a read that an owner answers holds no copy of the block.
LEMMA OwnerIsAlone ==
  ASSUME IInv, NoConflictInv, InTransaction, NEW d \in Owners(ActivePacket)
  PROVE  /\ ~Holds(ActivePacket.origid, ActivePacket.tag, ActivePacket.index)
         /\ Owners(ActivePacket) = {d}
<1> DEFINE p == ActivePacket
<1>1. /\ p.origid \in Cores /\ p.index \in Frames
      /\ Holds(p.origid, p.tag, p.index) =>
           \A e \in Cores \ {p.origid} :
             Holds(e, p.tag, p.index) =>
               mesi[e][p.index] \notin {"exclusive", "modified"}
  BY ActiveIsWanted
<1>2. \A e \in Owners(p) :
        /\ e \in Cores \ {p.origid} /\ Holds(e, p.tag, p.index)
        /\ mesi[e][p.index] = "modified"
  BY DEF Owners
<1>3. \A e \in Owners(p) : ~InTransfer(e, p.index)
  BY <1>1, <1>2, InTransferIsActive
<1> HIDE DEF p
<1>4. ASSUME NEW e \in Owners(p), NEW g \in Owners(p), e # g PROVE FALSE
  BY <1>1, <1>2, <1>3, <1>4 DEF IInv, SingleOwner, Holds
<1>5. d \in Owners(p)
  BY DEF p
<1>6. ~Holds(p.origid, p.tag, p.index)
  BY <1>1, <1>2, <1>5
<1>7. Owners(p) = {d}
  BY <1>4, <1>5
<1> QED
  BY <1>6, <1>7 DEF p

(***************************************************************************)
(* Without conflicts a read of a block that some other cache has modified  *)
(* is always answered with that cache's words.                             *)
(***************************************************************************)
THEOREM OwnersSupplyBlocks ==
  ASSUME NoConflicts
  PROVE  Spec => OwnerSuppliesBlock
<1> DEFINE p == ActivePacket
           n == ActiveOffset
<1>1. ASSUME IInv, NoConflictInv, BusWord, NEW d \in Owners(p)
      PROVE  dsram'[p.origid][p.index][n] = dsram[d][p.index][n]
  <2>1. /\ InTransaction /\ n \in Offsets
        /\ p.origid \in Cores /\ p.index \in Frames
    BY <1>1, ActivePacketFacts DEF BusWord, Packets
  <2>2. ~Holds(p.origid, p.tag, p.index) /\ Owners(p) = {d}
    BY <1>1, <2>1, OwnerIsAlone
  <2>3. Suppliers(p) = {d} /\ d \in Cores
    BY <2>2 DEF Suppliers, Snoops, Owners
  <2>4. Max(Suppliers(p)) = d
    <3>1. Suppliers(p) \in SUBSET Cores /\ Suppliers(p) # {}
      BY <2>3
    <3> QED
      BY <2>3, <3>1, MaxOfCores
  <2>5. WordOnBus(p, n) = dsram[d][p.index][n]
    BY <2>2, <2>3, <2>4 DEF WordOnBus, MemorySupplies, SnoopedData
  <2>6. dsram'[p.origid][p.index][n] = WordOnBus(p, n)
    BY <1>1, <2>1, WordEffect
  <2> QED
    BY <2>5, <2>6
<1>2. IInv /\ NoConflictInv =>
        [BusWord /\ ActivePacket.cmd # "flush" =>
           LET q == ActivePacket
           IN  \A o \in Owners(q) :
                 dsram'[q.origid][q.index][ActiveOffset] =
                   dsram[o][q.index][ActiveOffset]]_vars
  BY <1>1
<1> QED
  BY <1>2, NoConflictInductive, PTL DEF OwnerSuppliesBlock

-----------------------------------------------------------------------------
(***************************************************************************)
(* The words last stored.                                                  *)
(***************************************************************************)
\* CoherentUnlessSpoiled of one block.
CopiesLatest(t, i) ==
  \A c \in Cores : Holds(c, t, i) /\ ~InTransfer(c, i) => dsram[c][i] = latest[t][i]

MemoryLatest(t, i) ==
  \/ memory[t][i] = latest[t][i]
  \/ \E c \in Cores : Holds(c, t, i) /\ mesi[c][i] = "modified"

EachBlockCoherent ==
  \A t \in Tags : \A i \in Frames :
    <<t, i>> \notin spoiled => CopiesLatest(t, i) /\ MemoryLatest(t, i)

LEMMA CoherentByBlock == CoherentUnlessSpoiled <=> EachBlockCoherent
<1>1. \A b \in Blocks : b[1] \in Tags /\ b[2] \in Frames /\ b = <<b[1], b[2]>>
  BY DEF Blocks
<1>2. ASSUME NEW t \in Tags, NEW i \in Frames
      PROVE  <<t, i>> \in Blocks /\ <<t, i>>[1] = t /\ <<t, i>>[2] = i
  BY DEF Blocks
<1>3. ASSUME CoherentUnlessSpoiled, NEW t \in Tags, NEW i \in Frames,
             <<t, i>> \notin spoiled
      PROVE  CopiesLatest(t, i) /\ MemoryLatest(t, i)
  <2>1. <<t, i>> \in Blocks \ spoiled
    BY <1>2, <1>3
  <2> QED
    BY <1>2, <1>3, <2>1 DEF CoherentUnlessSpoiled, CopiesLatest, MemoryLatest
<1>4. ASSUME EachBlockCoherent
      PROVE  CoherentUnlessSpoiled
  <2>1. SUFFICES ASSUME NEW b \in Blocks \ spoiled
                 PROVE  CopiesLatest(b[1], b[2]) /\ MemoryLatest(b[1], b[2])
    BY DEF CoherentUnlessSpoiled, CopiesLatest, MemoryLatest
  <2>2. b[1] \in Tags /\ b[2] \in Frames /\ <<b[1], b[2]>> \notin spoiled
    BY <1>1
  <2> QED
    BY <1>4, <2>2 DEF EachBlockCoherent
<1> QED
  BY <1>3, <1>4 DEF EachBlockCoherent

LEMMA InitData == Init /\ HistoryInit => DataInv
<1> SUFFICES ASSUME Init, HistoryInit PROVE DataInv
  OBVIOUS
<1>1. IInv /\ RequestsInOrder /\ EvictionInv
  BY InitIInv, InitLedger, InitEviction DEF LedgerInv, RequestsInOrder
<1>2. HistoryTypeOK
  BY MeminIsAnImage DEF HistoryInit, HistoryTypeOK
<1>3. BurstMovesLatest
  BY DEF Init, BusInit, BurstMovesLatest
<1>4. CoherentUnlessSpoiled
  <2>1. ASSUME NEW t \in Tags, NEW i \in Frames
        PROVE  CopiesLatest(t, i) /\ MemoryLatest(t, i)
    BY DEF Init, HistoryInit, CacheInit, MemoryInit, CopiesLatest, MemoryLatest, Holds
  <2> QED
    BY <2>1, CoherentByBlock DEF EachBlockCoherent
<1> QED
  BY <1>1, <1>2, <1>3, <1>4 DEF DataInv

-----------------------------------------------------------------------------
(***************************************************************************)
(* The steps of the cores.                                                 *)
(***************************************************************************)

\* Nothing the data invariants are about has changed.
LEMMA QuietKeepsData ==
  ASSUME BurstMovesLatest, CoherentUnlessSpoiled, HistoryTypeOK,
         UNCHANGED <<cacheVars, memoryVars, history,
                     currentPacket, busInProgress, addressOffset>>
  PROVE  BurstMovesLatest' /\ CoherentUnlessSpoiled' /\ HistoryTypeOK'
<1> USE DEF cacheVars, memoryVars, history
<1>1. BurstMovesLatest'
  BY DEF BurstMovesLatest, Holds
<1>2. CoherentUnlessSpoiled'
  BY DEF CoherentUnlessSpoiled, Holds, InTransfer
<1> QED
  BY <1>1, <1>2 DEF HistoryTypeOK

\* A core that may use its cache has no frame in transfer.
LEMMA IdleHasNoTransfer ==
  ASSUME IInv, NEW c \in Cores, ~BusInTransaction(c), NEW i \in Frames
  PROVE  ~InTransfer(c, i) /\ (busInProgress => currentPacket.origid # c)
  BY DEF BusInTransaction, InTransfer, IInv, SenderIsBusy, TypeOK, BusTypeOK

(***************************************************************************)
(* A store finds no other copy of its block (SingleOwner), and a word that *)
(* has already crossed the bus spoils the block.                           *)
(***************************************************************************)
LEMMA StoreKeepsData ==
  ASSUME DataInv, NEW c \in Cores, NEW a \in Accesses, CoherenceStore(c, a)
  PROVE  BurstMovesLatest' /\ CoherentUnlessSpoiled' /\ HistoryTypeOK'
<1> DEFINE f == a.index
<1>1. /\ a.index \in Frames /\ a.offset \in Offsets /\ a.tag \in Tags
      /\ a.data \in Words
  BY DEF Accesses
<1>2. /\ UNCHANGED <<tag, memory, counter, memoryTransaction, currentPacket,
                     busInProgress, addressOffset>>
      /\ ~BusInTransaction(c)
      /\ dsram' = [dsram EXCEPT ![c][f][a.offset] = a.data]
      /\ mesi'  = [mesi EXCEPT ![c][f] = "modified"]
      /\ latest' = [latest EXCEPT ![a.tag][f][a.offset] = a.data]
      /\ spoiled \subseteq spoiled'
      /\ OvertakenByBus(c, a) => <<a.tag, f>> \in spoiled'
      /\ tag[c][f] = a.tag /\ mesi[c][f] # "invalid" /\ mesi[c][f] # "shared"
  BY DEF CoherenceStore, WriteHit, memoryVars, busVars, Hits, Holds
<1>3. /\ CacheTypeOK /\ HistoryTypeOK
      /\ mesi[c][f] \in {"exclusive", "modified"}
      /\ Holds(c, a.tag, f)
  BY <1>1, <1>2 DEF DataInv, IInv, TypeOK, CacheTypeOK, MesiStates, Holds
<1>4. ~InTransfer(c, f) /\ (busInProgress => currentPacket.origid # c)
  BY <1>1, <1>2, IdleHasNoTransfer DEF DataInv
<1>5. ASSUME NEW d \in Cores \ {c}, Holds(d, a.tag, f), ~InTransfer(d, f)
      PROVE  FALSE
  BY <1>1, <1>2, <1>3, <1>4, <1>5 DEF DataInv, IInv, SingleOwner, Holds
<1>6. \A d \in Cores : \A i \in Frames :
        /\ mesi'[d][i] = IF d = c /\ i = f THEN "modified" ELSE mesi[d][i]
        /\ dsram'[d][i] = IF d = c /\ i = f
                          THEN [dsram[c][f] EXCEPT ![a.offset] = a.data]
                          ELSE dsram[d][i]
  BY <1>1, <1>2, <1>3 DEF CacheTypeOK
<1>7. \A t \in Tags : \A i \in Frames :
        latest'[t][i] = IF t = a.tag /\ i = f
                        THEN [latest[a.tag][f] EXCEPT ![a.offset] = a.data]
                        ELSE latest[t][i]
  BY <1>1, <1>2, <1>3 DEF HistoryTypeOK
<1>8. \A d \in Cores : \A t \in Tags : \A i \in Frames :
        /\ Holds(d, t, i)' <=> Holds(d, t, i)
        /\ InTransfer(d, i)' <=> InTransfer(d, i)
  BY <1>1, <1>2, <1>6 DEF Holds, InTransfer
<1>9. HistoryTypeOK'
  <2>1. spoiled' \subseteq Blocks
    BY <1>1, <1>3 DEF CoherenceStore, HistoryTypeOK, Blocks
  <2>2. latest' \in [Tags -> [Frames -> [Offsets -> Words]]]
    BY <1>1, <1>2, <1>3 DEF HistoryTypeOK
  <2> QED
    BY <2>1, <2>2 DEF HistoryTypeOK
<1>10. CoherentUnlessSpoiled'
  <2>1. ASSUME NEW t \in Tags, NEW i \in Frames, <<t, i>> \notin spoiled'
        PROVE  CopiesLatest(t, i) /\ MemoryLatest(t, i)
    BY <1>2, <2>1, CoherentByBlock DEF DataInv, EachBlockCoherent
  <2>2. ASSUME NEW t \in Tags, NEW i \in Frames, <<t, i>> \notin spoiled',
               NEW d \in Cores, Holds(d, t, i)', ~InTransfer(d, i)'
        PROVE  dsram'[d][i] = latest'[t][i]
    <3>1. Holds(d, t, i) /\ ~InTransfer(d, i) /\ dsram[d][i] = latest[t][i]
      BY <1>8, <2>1, <2>2 DEF CopiesLatest
    <3>2. CASE t = a.tag /\ i = f
      <4>1. d = c
        BY <1>5, <3>1, <3>2
      <4> QED
        BY <1>6, <1>7, <2>2, <3>1, <3>2, <4>1
    <3>3. CASE ~ (t = a.tag /\ i = f)
      <4>1. ~ (d = c /\ i = f)
        BY <1>2, <3>1, <3>3 DEF Holds
      <4> QED
        BY <1>6, <1>7, <2>2, <3>1, <3>3, <4>1
    <3> QED
      BY <3>2, <3>3
  <2>3. ASSUME NEW t \in Tags, NEW i \in Frames, <<t, i>> \notin spoiled'
        PROVE  MemoryLatest(t, i)'
    <3>1. CASE t = a.tag /\ i = f
      <4>1. Holds(c, t, i)' /\ mesi'[c][i] = "modified"
        BY <1>1, <1>3, <1>6, <1>8, <3>1
      <4> QED
        BY <4>1 DEF MemoryLatest
    <3>2. CASE ~ (t = a.tag /\ i = f)
      <4>1. memory[t][i] = latest[t][i] => memory'[t][i] = latest'[t][i]
        BY <1>2, <1>7, <3>2
      <4>2. ASSUME NEW d \in Cores, Holds(d, t, i), mesi[d][i] = "modified"
            PROVE  Holds(d, t, i)' /\ mesi'[d][i] = "modified"
        BY <1>6, <1>8, <4>2
      <4> QED
        BY <2>1, <2>3, <4>1, <4>2 DEF MemoryLatest
    <3> QED
      BY <3>1, <3>2
  <2>4. EachBlockCoherent'
    BY <2>2, <2>3 DEF EachBlockCoherent, CopiesLatest
  <2> QED
    BY <2>4, CoherentByBlock, PTL
<1>11. BurstMovesLatest'
  <2> DEFINE o == currentPacket.origid
             t == currentPacket.tag
             i == currentPacket.index
  <2>1. SUFFICES ASSUME busInProgress
                 PROVE  /\ <<t, i>> \notin spoiled' =>
                             /\ \A w \in Offsets : w < addressOffset =>
                                  /\ memory[t][i][w] = latest'[t][i][w]
                                  /\ currentPacket.cmd # "flush" =>
                                       dsram'[o][i][w] = latest'[t][i][w]
                             /\ currentPacket.cmd = "flush" /\ Holds(o, t, i)' =>
                                  dsram'[o][i] = latest'[t][i]
                        /\ memoryTransaction /\ currentPacket.cmd # "flush" =>
                             \A d \in Cores \ {o} : Holds(d, t, i)' =>
                               \/ mesi'[d][i] = "shared"
                               \/ mesi'[d][i] = "modified" /\ counter > Latency
    BY <1>2, SMTT(30) DEF BurstMovesLatest, Holds
  <2>2. o \in Cores /\ i \in Frames /\ t \in Tags /\ o # c
    BY <1>4, <2>1, OwnersOfPackets DEF DataInv
  <2>3. /\ dsram'[o][i] = dsram[o][i]
        /\ Holds(o, t, i)' <=> Holds(o, t, i)
    BY <1>2, <1>6, <2>2 DEF Holds
  <2>4. BurstMovesLatest
    BY DEF DataInv
  <2>5. ASSUME <<t, i>> \notin spoiled', NEW w \in Offsets, w < addressOffset
        PROVE  latest'[t][i][w] = latest[t][i][w] /\ <<t, i>> \notin spoiled
    <3>1. <<t, i>> \notin spoiled /\ ~ (t = a.tag /\ i = f /\ a.offset < addressOffset)
      BY <1>2, <1>4, <2>1, <2>5 DEF OvertakenByBus
    <3>2. latest[t][i] \in [Offsets -> Words]
      BY <1>3, <2>2 DEF HistoryTypeOK
    <3>3. CASE t = a.tag /\ i = f
      BY <1>7, <2>2, <2>5, <3>1, <3>2, <3>3
    <3>4. CASE ~ (t = a.tag /\ i = f)
      BY <1>7, <2>2, <3>1, <3>4
    <3> QED
      BY <3>3, <3>4
  <2>6. ASSUME <<t, i>> \notin spoiled', currentPacket.cmd = "flush", Holds(o, t, i)
        PROVE  latest'[t][i] = latest[t][i] /\ <<t, i>> \notin spoiled
    <3>1. ~ (t = a.tag /\ i = f)
      BY <1>3, <2>1, <2>2, <2>6 DEF DataInv, EvictionInv, FlushUndisturbed
    <3> QED
      BY <1>2, <1>7, <2>2, <2>6, <3>1
  <2>7. ASSUME memoryTransaction, currentPacket.cmd # "flush",
               NEW d \in Cores \ {o}, Holds(d, t, i)'
        PROVE  \/ mesi'[d][i] = "shared"
               \/ mesi'[d][i] = "modified" /\ counter > Latency
    <3>1. \/ mesi[d][i] = "shared"
          \/ mesi[d][i] = "modified" /\ counter > Latency
      <4>1. Holds(d, t, i)
        BY <1>2, <1>6, <2>2, <2>7 DEF Holds
      <4> QED
        BY <2>1, <2>2, <2>4, <2>7, <4>1 DEF BurstMovesLatest
    <3>2. CASE d = c /\ i = f
      BY <1>3, <1>6, <2>2, <3>1, <3>2
    <3>3. CASE ~ (d = c /\ i = f)
      BY <1>6, <2>2, <3>1, <3>3
    <3> QED
      BY <3>2, <3>3
  <2> QED
    BY <2>1, <2>3, <2>4, <2>5, <2>6, <2>7 DEF BurstMovesLatest
<1> QED
  BY <1>9, <1>10, <1>11

-----------------------------------------------------------------------------
(***************************************************************************)
(* The block the bus is moving, be it granted the bus in this iteration.   *)
(***************************************************************************)
LEMMA ActiveBurst ==
  ASSUME DataInv, InTransaction
  PROVE  LET o == ActivePacket.origid
             t == ActivePacket.tag
             i == ActivePacket.index
         IN  /\ <<t, i>> \notin spoiled =>
                  /\ \A w \in Offsets : w < ActiveOffset =>
                       /\ memory[t][i][w] = latest[t][i][w]
                       /\ ActivePacket.cmd # "flush" =>
                            dsram[o][i][w] = latest[t][i][w]
                  /\ ActivePacket.cmd = "flush" /\ Holds(o, t, i) =>
                       dsram[o][i] = latest[t][i]
             /\ memoryTransaction /\ ActivePacket.cmd # "flush" =>
                  \A d \in Cores \ {o} : Holds(d, t, i) =>
                    \/ mesi[d][i] = "shared"
                    \/ mesi[d][i] = "modified" /\ counter > Latency
<1>1. CASE busInProgress
  BY <1>1 DEF DataInv, BurstMovesLatest, ActivePacket, ActiveOffset
<1>2. CASE ~busInProgress
  <2> DEFINE o == ActivePacket.origid
             t == ActivePacket.tag
             i == ActivePacket.index
  <2>1. o \in Cores /\ i \in Frames /\ t \in Tags
    BY ActivePacketFacts DEF Packets, DataInv
  <2>2. ~memoryTransaction
    BY <1>2 DEF DataInv, IInv, BurstInStep
  <2>3. \A w \in Offsets : ~ (w < ActiveOffset)
    BY <1>2, SizesArePositive DEF ActiveOffset, Offsets
  <2>4. ASSUME <<t, i>> \notin spoiled, ActivePacket.cmd = "flush", Holds(o, t, i)
        PROVE  dsram[o][i] = latest[t][i]
    <3>1. CopiesLatest(t, i)
      BY <2>1, <2>4, CoherentByBlock DEF DataInv, EachBlockCoherent
    <3>2. ~InTransfer(o, i)
      BY <1>2, <2>1, <2>4, GrantedFlushIsFirst DEF DataInv
    <3> QED
      BY <2>1, <2>4, <3>1, <3>2 DEF CopiesLatest
  <2> QED
    BY <2>2, <2>3, <2>4
<1> QED
  BY <1>1, <1>2

(***************************************************************************)
(* The word on the bus is the one last stored, unless the block is spoiled *)
(* by it: it comes from an owner, from the core whose flush it is, or from *)
(* memory, and then no cache holds the block modified.                     *)
(***************************************************************************)
LEMMA WordOnBusIsLatest ==
  ASSUME DataInv, BusWord, <<ActivePacket.tag, ActivePacket.index>> \notin spoiled,
         ~FlushOutlivedBlock, ~SenderAnswersItself
  PROVE  WordOnBus(ActivePacket, ActiveOffset) =
           latest[ActivePacket.tag][ActivePacket.index][ActiveOffset]
<1> DEFINE p == ActivePacket
           o == ActivePacket.origid
           t == ActivePacket.tag
           i == ActivePacket.index
           s == Max(Suppliers(p))
<1>1. InTransaction /\ IInv /\ EvictionInv
  BY DEF BusWord, DataInv
<1>2. o \in Cores /\ i \in Frames /\ t \in Tags
  BY <1>1, ActivePacketFacts DEF Packets
<1>3. CopiesLatest(t, i) /\ MemoryLatest(t, i)
  BY <1>2, CoherentByBlock DEF DataInv, EachBlockCoherent
<1>4. \A d \in Owners(p) : d \in Cores /\ d # o /\ dsram[d][i] = latest[t][i]
  BY <1>1, <1>2, <1>3, InTransferIsActive DEF Owners, CopiesLatest
<1>5. Suppliers(p) # {} => s \in Suppliers(p)
  <2>1. Suppliers(p) \subseteq Cores
    BY DEF Suppliers, Owners
  <2> QED
    BY <2>1, MaxOfCores
<1>6. CASE p.cmd = "flush"
  <2>1. s \in Suppliers(p) /\ ~MemorySupplies(p)
    BY <1>5, <1>6 DEF FlushOutlivedBlock, MemorySupplies
  <2>2. Snoops(o, p) => Holds(o, t, i)
    BY DEF Snoops
  <2>3. Holds(o, t, i) => dsram[o][i] = latest[t][i]
    BY <1>1, <1>6, ActiveBurst
  <2>4. dsram[s][i] = latest[t][i]
    BY <1>4, <2>1, <2>2, <2>3 DEF Suppliers
  <2> QED
    BY <2>1, <2>4 DEF WordOnBus, SnoopedData
<1>7. CASE p.cmd # "flush" /\ Owners(p) # {}
  <2>1. Suppliers(p) = Owners(p) /\ ~MemorySupplies(p)
    BY <1>7 DEF Suppliers, SenderAnswersItself, MemorySupplies
  <2>2. dsram[s][i] = latest[t][i]
    BY <1>4, <1>5, <1>7, <2>1
  <2> QED
    BY <1>7, <2>1, <2>2 DEF WordOnBus, SnoopedData
<1>8. CASE p.cmd # "flush" /\ Owners(p) = {}
  <2>1. mesi[o][i] # "modified"
    BY <1>1, <1>8, ActiveRead
  <2>2. ~ \E d \in Cores : Holds(d, t, i) /\ mesi[d][i] = "modified"
    BY <1>8, <2>1 DEF Owners
  <2>3. memory[t][i] = latest[t][i]
    BY <1>3, <2>2 DEF MemoryLatest
  <2> QED
    BY <1>8, <2>3 DEF WordOnBus, MemorySupplies
<1> QED
  BY <1>6, <1>7, <1>8

\* Once a read has been snooped no other cache holds its block exclusive.
LEMMA ReadLeavesNoExclusive ==
  ASSUME IInv, EvictionInv, InTransaction, ActivePacket.cmd # "flush",
         NEW d \in Cores, d # ActivePacket.origid,
         Holds(d, ActivePacket.tag, ActivePacket.index),
         mesi[d][ActivePacket.index] # "modified"
  PROVE  SnoopedMesi(d, ActivePacket, ActiveOffset) \in {"shared", "invalid"}
<1> DEFINE p == ActivePacket
           i == ActivePacket.index
<1>1. /\ p.origid \in Cores /\ i \in Frames /\ p.cmd \in {"busRd", "busRdX"}
  BY ActivePacketFacts DEF Packets
<1>2. mesi[d][i] \in MesiStates /\ mesi[d][i] # "invalid" /\ Snoops(d, p)
  BY <1>1 DEF IInv, TypeOK, CacheTypeOK, Holds, Snoops
<1>3. SnoopedMesi(d, p, ActiveOffset) = SnoopingSM(mesi[d][i], CmdSeenBy(d, p))
  BY <1>2 DEF SnoopedMesi
<1>4. CASE mesi[d][i] = "exclusive"
  <2>1. ASSUME NEW e \in Owners(p), e < d PROVE FALSE
    <3>1. /\ e \in Cores /\ e # p.origid /\ e # d
          /\ tag[e][i] = tag[d][i] /\ mesi[e][i] = "modified"
      <4>1. e \in Cores /\ e # p.origid /\ Holds(e, p.tag, i) /\ mesi[e][i] = "modified"
        BY <2>1 DEF Owners
      <4>2. e # d
        BY <1>4, <4>1
      <4> QED
        BY <4>1, <4>2 DEF Holds
    <3>2. ~InTransfer(e, i) /\ ~InTransfer(d, i)
      BY <1>1, <3>1, InTransferIsActive
    <3> QED
      BY <1>1, <1>2, <3>1, <3>2 DEF IInv, SingleOwner
  <2>2. CmdSeenBy(d, p) = p.cmd
    BY <2>1 DEF CmdSeenBy
  <2> QED
    BY <1>1, <1>3, <1>4, <2>2 DEF SnoopingSM
<1>5. CASE mesi[d][i] = "shared"
  BY <1>3, <1>5 DEF SnoopingSM
<1> QED
  BY <1>2, <1>4, <1>5 DEF MesiStates

\* The memory does not keep a read waiting whose block is held modified.
LEMMA WaitingReadHasNoOwner ==
  ASSUME DataInv, BusWait, ActivePacket.cmd # "flush",
         NEW d \in Cores, Holds(d, ActivePacket.tag, ActivePacket.index)
  PROVE  mesi[d][ActivePacket.index] # "modified"
<1>1. InTransaction /\ IInv /\ EvictionInv
  BY DEF BusWait, DataInv
<1>2. CASE d = ActivePacket.origid
  BY <1>1, <1>2, ActiveRead
<1>3. CASE d # ActivePacket.origid
  <2>1. SUFFICES ASSUME mesi[d][ActivePacket.index] = "modified" PROVE FALSE
    OBVIOUS
  <2>2. ModifiedLine(ActivePacket)
    BY <1>3, <2>1 DEF ModifiedLine
  <2>3. memoryTransaction => counter > Latency
    BY <1>1, <1>3, <2>1, ActiveBurst
  <2>4. CountNow(ModifiedLine(ActivePacket)) >= Latency
    BY <1>1, <2>2, <2>3, LatencyIsNat DEF CountNow, IInv, TypeOK, MemoryTypeOK
  <2> QED
    BY <2>4 DEF BusWait, MemoryResponds
<1> QED
  BY <1>2, <1>3

-----------------------------------------------------------------------------
(***************************************************************************)
(* The iterations of the bus.                                              *)
(***************************************************************************)
LEMMA BusKeepsHistory ==
  ASSUME DataInv, CoherenceBusStep
  PROVE  /\ HistoryTypeOK' /\ latest' = latest /\ spoiled \subseteq spoiled'
         /\ /\ BusWord
            /\ <<ActivePacket.tag, ActivePacket.index>> \notin spoiled'
            => ~FlushOutlivedBlock /\ ~SenderAnswersItself
<1>1. latest' = latest /\ spoiled \subseteq spoiled'
  BY DEF CoherenceBusStep
<1>2. BusWord /\ (FlushOutlivedBlock \/ SenderAnswersItself) =>
        <<ActivePacket.tag, ActivePacket.index>> \in spoiled'
  BY DEF CoherenceBusStep
<1>3. BusWord => <<ActivePacket.tag, ActivePacket.index>> \in Blocks
  BY ActivePacketFacts DEF BusWord, DataInv, Packets, Blocks
<1>4. spoiled' \subseteq Blocks
  BY <1>3 DEF CoherenceBusStep, DataInv, HistoryTypeOK
<1> QED
  BY <1>1, <1>2, <1>4 DEF DataInv, HistoryTypeOK

\* Between two transactions no frame is in transfer, before and after.
LEMMA GapKeepsData ==
  ASSUME DataInv, CoherenceBusStep, BusIdle \/ BusGap
  PROVE  BurstMovesLatest' /\ CoherentUnlessSpoiled'
<1>1. /\ ~busInProgress /\ busInProgress' = busInProgress
      /\ UNCHANGED <<cacheVars, memoryVars>>
      /\ queue # <<>> => Head(queue).origid = InvalidOriginator
  BY DEF BusIdle, BusGap
<1>2. BurstMovesLatest'
  BY <1>1 DEF BurstMovesLatest
<1>3. \A c \in Cores : \A i \in Frames : ~InTransfer(c, i)
  BY <1>1, NoTransferBetween DEF InTransfer, DataInv
<1>4. latest' = latest /\ spoiled \subseteq spoiled'
  BY BusKeepsHistory
<1>5. ASSUME NEW t \in Tags, NEW i \in Frames, <<t, i>> \notin spoiled'
      PROVE  CopiesLatest(t, i)' /\ MemoryLatest(t, i)'
  <2>1. CopiesLatest(t, i) /\ MemoryLatest(t, i)
    BY <1>4, <1>5, CoherentByBlock DEF DataInv, EachBlockCoherent
  <2>2. CopiesLatest(t, i)'
    BY <1>1, <1>3, <1>4, <2>1 DEF CopiesLatest, Holds, cacheVars
  <2>3. MemoryLatest(t, i)'
    BY <1>1, <1>4, <2>1 DEF MemoryLatest, Holds, cacheVars, memoryVars
  <2> QED
    BY <2>2, <2>3
<1>6. EachBlockCoherent'
  BY <1>5 DEF EachBlockCoherent
<1> QED
  BY <1>2, <1>6, CoherentByBlock, PTL

(***************************************************************************)
(* An iteration that moves no word: no content changes, and no line stops  *)
(* being modified.                                                         *)
(***************************************************************************)
LEMMA NoWordKeepsData ==
  ASSUME DataInv, CoherenceBusStep, BusYield \/ BusWait
  PROVE  BurstMovesLatest' /\ CoherentUnlessSpoiled'
<1> DEFINE p == ActivePacket
           o == p.origid
           t == p.tag
           f == p.index
<1>1. /\ InTransaction /\ IInv /\ EvictionInv
      /\ currentPacket' = p /\ busInProgress' = TRUE
      /\ addressOffset' = ActiveOffset
      /\ UNCHANGED <<tag, dsram, memory>>
  BY DEF BusYield, BusWait, BusOperates, BusKeeps, cacheVars, memoryVars, DataInv
<1>2. /\ o \in Cores /\ f \in Frames /\ t \in Tags /\ p \in Packets
      /\ ActiveOffset \in Offsets /\ CacheTypeOK
  BY <1>1, ActivePacketFacts DEF Packets, IInv, TypeOK
<1>3. \A c \in Cores : \A i \in Frames : InTransfer(c, i) => c = o /\ i = f
  BY <1>1, InTransferIsActive
<1>4. ASSUME NEW c \in Cores, NEW i \in Frames
      PROVE  /\ mesi'[c][i] = mesi[c][i] \/ mesi'[c][i] = MesiAfterSnoop(p, ActiveOffset)[c][i]
             /\ mesi'[c][i] # "invalid" => mesi[c][i] # "invalid"
             /\ mesi[c][i] = "modified" => mesi'[c][i] = "modified"
  <2>1. CASE BusYield
    BY <2>1 DEF BusYield, cacheVars
  <2>2. CASE BusWait
    <3>1. mesi'[c][i] = MesiAfterSnoop(p, ActiveOffset)[c][i]
      BY <2>2 DEF BusWait
    <3>2. mesi[c][i] = "invalid" => mesi'[c][i] = "invalid"
      BY <1>2, <3>1, MesiAfterSnoopLowers
    <3>3. MesiAfterSnoop(p, ActiveOffset)[c][i] =
            IF i = f THEN SnoopedMesi(c, p, ActiveOffset) ELSE mesi[c][i]
      BY <1>2 DEF MesiAfterSnoop, CacheTypeOK
    <3>4. ASSUME i = f, mesi[c][i] = "modified"
          PROVE  SnoopedMesi(c, p, ActiveOffset) = "modified"
      <4>1. CASE p.cmd = "flush"
        BY <3>4, <4>1 DEF SnoopedMesi, CmdSeenBy, SnoopingSM
      <4>2. CASE p.cmd # "flush"
        BY <2>2, <3>4, <4>2, WaitingReadHasNoOwner DEF SnoopedMesi, Snoops
      <4> QED
        BY <4>1, <4>2
    <3> QED
      BY <3>1, <3>2, <3>3, <3>4
  <2> QED
    BY <2>1, <2>2
<1>5. \A c \in Cores : \A u \in Tags : \A i \in Frames :
        (tag'[c][i] = u /\ mesi'[c][i] # "invalid") => Holds(c, u, i)
  BY <1>1, <1>4 DEF Holds
<1>6. latest' = latest /\ spoiled \subseteq spoiled'
  BY BusKeepsHistory
<1>7. ASSUME NEW u \in Tags, NEW i \in Frames, <<u, i>> \notin spoiled'
      PROVE  CopiesLatest(u, i)' /\ MemoryLatest(u, i)'
  <2>1. CopiesLatest(u, i) /\ MemoryLatest(u, i)
    BY <1>6, <1>7, CoherentByBlock DEF DataInv, EachBlockCoherent
  <2>2. \A c \in Cores : InTransfer(c, i) => InTransfer(c, i)'
    BY <1>1, <1>3 DEF InTransfer
  <2>3. CopiesLatest(u, i)'
    BY <1>1, <1>5, <1>6, <2>1, <2>2 DEF CopiesLatest, Holds
  <2>4. MemoryLatest(u, i)'
    BY <1>1, <1>4, <1>6, <2>1 DEF MemoryLatest, Holds
  <2> QED
    BY <2>3, <2>4
<1>8. EachBlockCoherent'
  BY <1>7 DEF EachBlockCoherent
<1>9. ASSUME memoryTransaction', p.cmd # "flush",
             NEW d \in Cores \ {o}, tag'[d][f] = t, mesi'[d][f] # "invalid"
      PROVE  \/ mesi'[d][f] = "shared"
             \/ mesi'[d][f] = "modified" /\ counter' > Latency
  <2>1. Holds(d, t, f)
    BY <1>2, <1>5, <1>9
  <2>2. CASE BusYield
    BY <1>1, <1>9, <2>1, <2>2, ActiveBurst DEF BusYield, cacheVars, memoryVars
  <2>3. CASE BusWait
    <3>1. mesi'[d][f] = SnoopedMesi(d, p, ActiveOffset)
      BY <1>2, <2>3 DEF BusWait, MesiAfterSnoop, CacheTypeOK
    <3>2. mesi[d][f] # "modified"
      BY <1>9, <2>1, <2>3, WaitingReadHasNoOwner
    <3> QED
      BY <1>1, <1>9, <2>1, <3>1, <3>2, ReadLeavesNoExclusive
  <2> QED
    BY <2>2, <2>3
<1>10. <<t, f>> \notin spoiled' =>
         /\ \A w \in Offsets : w < ActiveOffset =>
              /\ memory[t][f][w] = latest[t][f][w]
              /\ p.cmd # "flush" => dsram[o][f][w] = latest[t][f][w]
         /\ p.cmd = "flush" /\ Holds(o, t, f) => dsram[o][f] = latest[t][f]
  BY <1>1, <1>6, ActiveBurst
<1> HIDE DEF p
<1>11. BurstMovesLatest'
  BY <1>1, <1>2, <1>5, <1>6, <1>9, <1>10 DEF BurstMovesLatest, Holds
<1> QED
  BY <1>8, <1>11, CoherentByBlock, PTL

(***************************************************************************)
(* A word on the bus: it is the last stored one, so what has passed of the *)
(* block is right with it, and with the last word all of it is.            *)
(***************************************************************************)
LEMMA WordKeepsData ==
  ASSUME DataInv, CoherenceBusStep, BusWord
  PROVE  BurstMovesLatest' /\ CoherentUnlessSpoiled'
<1> DEFINE p    == ActivePacket
           o    == p.origid
           t    == p.tag
           f    == p.index
           n    == ActiveOffset
           word == WordOnBus(p, n)
<1>1. /\ InTransaction /\ IInv /\ EvictionInv
      /\ currentPacket' = p
      /\ \/ n # LastOffset /\ busInProgress' = TRUE /\ addressOffset' = n + 1
         \/ n = LastOffset /\ busInProgress' = FALSE
  BY DEF BusWord, BusOperates, BusKeeps, DataInv
<1>2. /\ o \in Cores /\ f \in Frames /\ t \in Tags /\ p \in Packets
      /\ n \in Offsets /\ CacheTypeOK /\ MemoryTypeOK /\ HistoryTypeOK
      /\ p.cmd \in {"busRd", "busRdX", "flush"}
  BY <1>1, ActivePacketFacts DEF Packets, IInv, TypeOK, DataInv
<1>3. \A c \in Cores : \A i \in Frames : InTransfer(c, i) => c = o /\ i = f
  BY <1>1, InTransferIsActive
<1>4. /\ HistoryTypeOK' /\ latest' = latest /\ spoiled \subseteq spoiled'
      /\ <<t, f>> \notin spoiled' =>
           /\ <<t, f>> \notin spoiled
           /\ word = latest[t][f][n]
  <2>1. /\ HistoryTypeOK' /\ latest' = latest /\ spoiled \subseteq spoiled'
        /\ <<t, f>> \notin spoiled' => ~FlushOutlivedBlock /\ ~SenderAnswersItself
    BY BusKeepsHistory
  <2> QED
    BY <2>1, WordOnBusIsLatest
<1>5. CacheTypeOK' /\ MemoryTypeOK'
  BY NextKeepsIInv DEF CoherenceBusStep, Next, DataInv, IInv, TypeOK
<1>6. /\ \A c \in Cores : \A i \in Frames :
           /\ tag'[c][i] = IF c = o /\ i = f THEN t ELSE tag[c][i]
           /\ mesi'[c][i] =
                IF c = o /\ i = f /\ n = LastOffset
                THEN IF SharedLine(p) THEN "shared" ELSE "exclusive"
                ELSE MesiAfterSnoop(p, n)[c][i]
           /\ \A k \in Offsets : dsram'[c][i][k] =
                IF c = o /\ i = f /\ k = n THEN word ELSE dsram[c][i][k]
           /\ ~ (c = o /\ i = f) => dsram'[c][i] = dsram[c][i]
      /\ \A u \in Tags : \A i \in Frames : \A k \in Offsets :
           memory'[u][i][k] =
             IF u = t /\ i = f /\ k = n THEN word ELSE memory[u][i][k]
  BY <1>1, WordEffect
<1>7. \A c \in Cores : \A i \in Frames :
        /\ MesiAfterSnoop(p, n)[c][i] =
             IF i = f THEN SnoopedMesi(c, p, n) ELSE mesi[c][i]
        /\ mesi[c][i] = "invalid" => MesiAfterSnoop(p, n)[c][i] = "invalid"
  <2>1. \A c \in Cores : \A i \in Frames :
          mesi[c][i] = "invalid" => MesiAfterSnoop(p, n)[c][i] = "invalid"
    BY <1>2, MesiAfterSnoopLowers
  <2> QED
    BY <1>2, <2>1 DEF MesiAfterSnoop, CacheTypeOK
<1>8. /\ p.cmd = "flush" => tag[o][f] = t
      /\ p.cmd # "flush" => mesi[o][f] # "modified"
  BY <1>1, ActiveFlush, ActiveRead
<1>9. <<t, f>> \notin spoiled' =>
         /\ \A k \in Offsets : k < n =>
              /\ memory[t][f][k] = latest[t][f][k]
              /\ p.cmd # "flush" => dsram[o][f][k] = latest[t][f][k]
         /\ p.cmd = "flush" /\ Holds(o, t, f) => dsram[o][f] = latest[t][f]
  BY <1>1, <1>4, ActiveBurst
<1>10. \A d \in Cores \ {o} :
         Holds(d, t, f) /\ p.cmd # "flush" /\ mesi[d][f] # "modified" =>
           SnoopedMesi(d, p, n) \in {"shared", "invalid"}
  BY <1>1, ReadLeavesNoExclusive
<1>11. CountNow(ModifiedLine(p)) + 1 > Latency
  <2>1. CountNow(ModifiedLine(p)) \in Nat
    BY <1>2, LatencyIsNat DEF CountNow, MemoryTypeOK
  <2> QED
    BY <2>1, LatencyIsNat DEF BusWord, MemoryResponds
<1>12. counter' > Latency
  BY <1>11 DEF BusWord, MemoryCounts
<1> HIDE DEF p, n, word
<1>13. ASSUME NEW x \in [Offsets -> Words], NEW y \in [Offsets -> Words],
              \A k \in Offsets : x[k] = y[k]
       PROVE  x = y
  BY <1>13
<1>14. /\ \A c \in Cores : \A i \in Frames :
            {dsram[c][i], dsram'[c][i]} \subseteq [Offsets -> Words]
       /\ \A u \in Tags : \A i \in Frames :
            {memory[u][i], memory'[u][i], latest[u][i]} \subseteq [Offsets -> Words]
  BY <1>2, <1>5 DEF CacheTypeOK, MemoryTypeOK, HistoryTypeOK
<1>15. \A k \in Offsets : n = LastOffset => k = n \/ k < n
  BY <1>2, SizesArePositive DEF Offsets, LastOffset
<1>16. ASSUME NEW u \in Tags, NEW i \in Frames, <<u, i>> \notin spoiled'
       PROVE  CopiesLatest(u, i) /\ MemoryLatest(u, i)
  BY <1>4, <1>16, CoherentByBlock DEF DataInv, EachBlockCoherent
<1>17. ASSUME NEW u \in Tags, NEW i \in Frames, <<u, i>> \notin spoiled',
              NEW c \in Cores, Holds(c, u, i)', ~InTransfer(c, i)'
       PROVE  dsram'[c][i] = latest[u][i]
  <2>1. CASE c = o /\ i = f
    <3>1. u = t /\ n = LastOffset /\ p.cmd # "flush"
      BY <1>1, <1>2, <1>6, <1>17, <2>1 DEF Holds, InTransfer
    <3>2. \A k \in Offsets : dsram'[c][i][k] = latest[u][i][k]
      BY <1>4, <1>6, <1>9, <1>15, <1>17, <2>1, <3>1
    <3> QED
      BY <1>13, <1>14, <3>2
  <2>2. CASE ~ (c = o /\ i = f)
    <3>1. Holds(c, u, i) /\ ~InTransfer(c, i) /\ dsram'[c][i] = dsram[c][i]
      BY <1>3, <1>6, <1>7, <1>17, <2>2 DEF Holds
    <3> QED
      BY <1>16, <1>17, <3>1 DEF CopiesLatest
  <2> QED
    BY <2>1, <2>2
<1>18. ASSUME NEW u \in Tags, NEW i \in Frames, <<u, i>> \notin spoiled',
              u = t, i = f
       PROVE  MemoryLatest(u, i)'
  <2>1. MemoryLatest(u, i)
    BY <1>16, <1>18
  <2>2. CASE n = LastOffset
    <3>1. \A k \in Offsets : memory'[u][i][k] = latest[u][i][k]
      BY <1>4, <1>6, <1>9, <1>15, <1>18, <2>2
    <3>2. memory'[u][i] = latest[u][i]
      BY <1>13, <1>14, <3>1
    <3> QED
      BY <1>4, <1>18, <3>2 DEF MemoryLatest
  <2>3. CASE n # LastOffset /\ memory[u][i] = latest[u][i]
    <3>1. \A k \in Offsets : memory'[u][i][k] = latest[u][i][k]
      BY <1>4, <1>6, <1>18, <2>3
    <3>2. memory'[u][i] = latest[u][i]
      BY <1>13, <1>14, <3>1
    <3> QED
      BY <1>4, <1>18, <3>2 DEF MemoryLatest
  <2>4. ASSUME n # LastOffset, NEW c \in Cores, Holds(c, u, i), mesi[c][i] = "modified"
        PROVE  MemoryLatest(u, i)'
    <3>1. SnoopedMesi(c, p, n) = "modified"
      BY <1>18, <2>4 DEF SnoopedMesi
    <3>2. tag'[c][i] = u /\ mesi'[c][i] = "modified"
      BY <1>6, <1>7, <1>18, <2>4, <3>1 DEF Holds
    <3> QED
      BY <3>2 DEF MemoryLatest, Holds
  <2> QED
    BY <2>1, <2>2, <2>3, <2>4 DEF MemoryLatest
<1>19. ASSUME NEW u \in Tags, NEW i \in Frames, <<u, i>> \notin spoiled',
              ~ (u = t /\ i = f)
       PROVE  MemoryLatest(u, i)'
  <2>1. memory'[u][i] = memory[u][i]
    <3>1. \A k \in Offsets : memory'[u][i][k] = memory[u][i][k]
      BY <1>6, <1>19
    <3> QED
      BY <1>2, <1>13, <1>14, <3>1
  <2>2. ASSUME NEW c \in Cores, Holds(c, u, i), mesi[c][i] = "modified"
        PROVE  tag'[c][i] = u /\ mesi'[c][i] = "modified"
    <3>1. ~ (c = o /\ i = f)
      BY <1>2, <1>8, <1>19, <2>2 DEF Holds
    <3>2. i = f => SnoopedMesi(c, p, n) = "modified"
      BY <1>19, <2>2 DEF SnoopedMesi, Snoops, Holds
    <3> QED
      BY <1>6, <1>7, <2>2, <3>1, <3>2 DEF Holds
  <2> QED
    BY <1>4, <1>16, <1>19, <2>1, <2>2 DEF MemoryLatest, Holds
<1>20. EachBlockCoherent'
  BY <1>4, <1>17, <1>18, <1>19 DEF EachBlockCoherent, CopiesLatest
<1>21. BurstMovesLatest'
  <2>1. SUFFICES ASSUME busInProgress'
                 PROVE  /\ <<t, f>> \notin spoiled' =>
                             /\ \A k \in Offsets : k < addressOffset' =>
                                  /\ memory'[t][f][k] = latest[t][f][k]
                                  /\ p.cmd # "flush" =>
                                       dsram'[o][f][k] = latest[t][f][k]
                             /\ /\ p.cmd = "flush"
                                /\ tag'[o][f] = t /\ mesi'[o][f] # "invalid"
                                => dsram'[o][f] = latest[t][f]
                        /\ memoryTransaction' /\ p.cmd # "flush" =>
                             \A d \in Cores \ {o} :
                               tag'[d][f] = t /\ mesi'[d][f] # "invalid" =>
                                 \/ mesi'[d][f] = "shared"
                                 \/ mesi'[d][f] = "modified" /\ counter' > Latency
    BY <1>1, <1>4 DEF BurstMovesLatest, Holds
  <2>2. n # LastOffset /\ addressOffset' = n + 1
    BY <1>1, <2>1
  <2>3. \A k \in Offsets : k < addressOffset' => (k < n /\ k # n) \/ k = n
    BY <1>2, <2>2 DEF Offsets
  <2>4. ASSUME <<t, f>> \notin spoiled', NEW k \in Offsets, k < addressOffset'
        PROVE  /\ memory'[t][f][k] = latest[t][f][k]
               /\ p.cmd # "flush" => dsram'[o][f][k] = latest[t][f][k]
    <3>1. CASE k = n
      BY <1>2, <1>4, <1>6, <2>4, <3>1
    <3>2. CASE k < n /\ k # n
      BY <1>2, <1>4, <1>6, <1>9, <2>4, <3>2
    <3> QED
      BY <2>3, <2>4, <3>1, <3>2
  <2>5. ASSUME <<t, f>> \notin spoiled', p.cmd = "flush", mesi'[o][f] # "invalid"
        PROVE  dsram'[o][f] = latest[t][f]
    <3>1. Holds(o, t, f)
      BY <1>2, <1>6, <1>7, <1>8, <2>2, <2>5 DEF Holds
    <3>2. \A k \in Offsets : dsram'[o][f][k] = latest[t][f][k]
      BY <1>2, <1>4, <1>6, <1>9, <2>5, <3>1
    <3> QED
      BY <1>2, <1>13, <1>14, <3>2
  <2>6. ASSUME p.cmd # "flush", NEW d \in Cores \ {o},
               tag'[d][f] = t, mesi'[d][f] # "invalid"
        PROVE  mesi'[d][f] = "shared" \/ mesi'[d][f] = "modified"
    <3>1. /\ Holds(d, t, f)
          /\ mesi'[d][f] = SnoopedMesi(d, p, n)
      BY <1>2, <1>6, <1>7, <2>6 DEF Holds
    <3>2. mesi[d][f] = "modified" => SnoopedMesi(d, p, n) = "modified"
      BY <2>2 DEF SnoopedMesi
    <3> QED
      BY <1>10, <2>6, <3>1, <3>2
  <2> QED
    BY <1>12, <2>4, <2>5, <2>6
<1> QED
  BY <1>20, <1>21, CoherentByBlock, PTL

-----------------------------------------------------------------------------
(***************************************************************************)
(* The invariant over all steps, those of a core with any access.          *)
(***************************************************************************)
LEMMA CallKeepsDataInv ==
  ASSUME DataInv, NEW c \in Cores, NEW a \in Accesses,
         CoherenceStore(c, a) \/ CoherenceAccess(c, a)
  PROVE  DataInv'
<1>1. CallsCache(c, a)
  BY DEF CallsCache, CoherenceStore, CoherenceAccess
<1>2. IInv' /\ RequestsInOrder' /\ EvictionInv'
  BY <1>1, CallKeepsIInv, CallKeepsOrder, CallKeepsEviction DEF DataInv, RequestsInOrder
<1>3. CASE CoherenceStore(c, a)
  BY <1>2, <1>3, StoreKeepsData DEF DataInv
<1>4. CASE CoherenceAccess(c, a)
  <2>1. UNCHANGED <<cacheVars, memoryVars, history,
                    currentPacket, busInProgress, addressOffset>>
    BY <1>4 DEF CoherenceAccess, CoreWait, ReadHit, WriteUpgrade, Miss,
                BusAddTransactions, busVars
  <2> QED
    BY <1>2, <2>1, QuietKeepsData DEF DataInv
<1> QED
  BY <1>3, <1>4

\* The turn of a core that makes no access.
LEMMA PassingKeepsDataInv ==
  ASSUME DataInv, NEW c \in Cores, CoreTurn(c),
         UNCHANGED <<cacheVars, memoryVars, busVars, pending, history>>
  PROVE  DataInv'
<1>1. /\ pending' \in [Cores -> Accesses \cup {NoAccess}]
      /\ BusInTransaction(c) => pending'[c] # NoAccess
  BY DEF DataInv, IInv, TypeOK, RequestsInOrder, OneRequestEach, BusInTransaction
<1>2. IInv'
  BY <1>1, QuietStep DEF DataInv
<1>3. RequestsInOrder'
  BY <1>1, QuietKeepsOrder DEF DataInv, cacheVars, Holds
<1>4. EvictionInv'
  BY QuietKeepsEviction DEF DataInv
<1> QED
  BY <1>2, <1>3, <1>4, QuietKeepsData DEF DataInv, busVars

LEMMA BusKeepsDataInv ==
  ASSUME DataInv, CoherenceBusStep
  PROVE  DataInv'
<1>1. BusStep /\ BusIter /\ UNCHANGED pending
  BY DEF CoherenceBusStep, BusStep
<1>2. IInv' /\ RequestsInOrder' /\ EvictionInv'
  BY <1>1, BusKeepsIInv, BusKeepsOrder, BusKeepsEviction DEF DataInv, RequestsInOrder
<1> QED
  BY <1>1, <1>2, BusKeepsHistory, GapKeepsData, NoWordKeepsData, WordKeepsData
  DEF BusIter, DataInv

LEMMA StutterKeepsDataInv ==
  ASSUME DataInv, UNCHANGED <<vars, history>>
  PROVE  DataInv'
<1>1. IInv' /\ EvictionInv'
  BY NextKeepsIInv, QuietKeepsEviction DEF DataInv, vars
<1>2. RequestsInOrder'
  BY DEF DataInv, RequestsInOrder, OneRequestEach, UpgradesGuarded, QueuedBy, Holds,
         vars, busVars, cacheVars
<1> QED
  BY <1>1, <1>2, QuietKeepsData DEF DataInv, vars, busVars

LEMMA NextKeepsDataInv == DataInv /\ [CoherenceNext]_<<vars, history>> => DataInv'
<1> SUFFICES ASSUME DataInv, [CoherenceNext]_<<vars, history>> PROVE DataInv'
  OBVIOUS
<1>1. ASSUME NEW c \in Cores, NEW a \in Workload[c],
             CoherenceStore(c, a) \/ CoherenceAccess(c, a)
      PROVE  DataInv'
  BY <1>1, WorkloadIsAccesses, CallKeepsDataInv
<1>2. ASSUME NEW c \in Cores, CoreIdle(c), UNCHANGED history
      PROVE  DataInv'
  BY <1>2, PassingKeepsDataInv DEF CoreIdle
<1> QED
  BY <1>1, <1>2, BusKeepsDataInv, StutterKeepsDataInv DEF CoherenceNext

-----------------------------------------------------------------------------
(***************************************************************************)
(* The theorems.                                                           *)
(***************************************************************************)
(***************************************************************************)
(* The inductive invariant of the memory system and its data.              *)
(***************************************************************************)
THEOREM DataInductive == CoherenceSpec => []DataInv
  BY InitData, NextKeepsDataInv, PTL DEF CoherenceSpec

(***************************************************************************)
(* Of a block none of the three events has spoiled, every copy a core can  *)
(* access is the last stored one, and so is memory's unless a cache holds  *)
(* the block modified: there is no fourth way this code loses a store.     *)
(***************************************************************************)
THEOREM CoherentAlways == CoherenceSpec => []CoherentUnlessSpoiled
<1>1. DataInv => CoherentUnlessSpoiled
  BY DEF DataInv
<1> QED
  BY <1>1, DataInductive, PTL

(***************************************************************************)
(* Watching the memory system changes nothing in it.                       *)
(***************************************************************************)
LEMMA CoherenceIsMemorySystem == CoherenceSpec => Spec
<1>1. [CoherenceNext]_<<vars, history>> => [Next]_vars
  <2>1. ASSUME NEW c \in Cores, NEW a \in Workload[c], Presents(c, a),
               CoherenceStore(c, a) \/ CoherenceAccess(c, a)
        PROVE  Next
    BY <2>1 DEF CoherenceStore, CoherenceAccess, CoreAccess, Next
  <2> QED
    BY <2>1 DEF CoherenceNext, CoherenceBusStep, Next
<1> QED
  BY <1>1, PTL DEF CoherenceSpec, Spec

(***************************************************************************)
(* Without conflicts only a store the bus overtakes can spoil a block:     *)
(* there is no flush, and no sender has a copy to answer itself from. With *)
(* CoherentAlways, a program without conflicts reads stale data only after *)
(* such a store.                                                           *)
(***************************************************************************)
THEOREM OnlyStoresSpoilBlocks ==
  ASSUME NoConflicts
  PROVE  CoherenceSpec => OnlyStoresSpoil
<1>1. ASSUME IInv, NoConflictInv, CoherenceBusStep
      PROVE  spoiled' = spoiled
  <2>1. CASE BusWord
    <3>1. InTransaction
      BY <2>1 DEF BusWord
    <3>2. ~FlushOutlivedBlock
      BY <1>1, <3>1, ActiveIsWanted DEF FlushOutlivedBlock
    <3>3. ~SenderAnswersItself
      <4>1. SUFFICES ASSUME SenderAnswersItself PROVE FALSE
        OBVIOUS
      <4>2. /\ Holds(ActivePacket.origid, ActivePacket.tag, ActivePacket.index)
            /\ \E d \in Owners(ActivePacket) : TRUE
        BY <4>1 DEF SenderAnswersItself, Snoops, CmdSeenBy
      <4> QED
        BY <1>1, <3>1, <4>2, OwnerIsAlone
    <3> QED
      BY <1>1, <3>2, <3>3 DEF CoherenceBusStep
  <2> QED
    BY <1>1, <2>1 DEF CoherenceBusStep
<1>2. ASSUME CoherenceNext, turn = BusTurn
      PROVE  CoherenceBusStep
  <2>1. \A c \in Cores : turn # c
    BY <1>2, SizesArePositive DEF BusTurn, Cores
  <2>2. ASSUME NEW c \in Cores, NEW a, CoherenceStore(c, a) \/ CoherenceAccess(c, a)
        PROVE  turn = c
    BY <2>2 DEF CoherenceStore, CoherenceAccess, CoreWait, ReadHit, WriteHit,
                WriteUpgrade, Miss, CoreTurn
  <2>3. \A c \in Cores : CoreIdle(c) => turn = c
    BY DEF CoreIdle, CoreTurn
  <2> QED
    BY <1>2, <2>1, <2>2, <2>3 DEF CoherenceNext
<1>3. IInv /\ NoConflictInv /\ [CoherenceNext]_<<vars, history>> =>
        [turn = BusTurn => spoiled' = spoiled]_<<vars, history>>
  BY <1>1, <1>2
<1> QED
  BY <1>3, CoherenceIsMemorySystem, NoConflictInductive, PTL
  DEF CoherenceSpec, OnlyStoresSpoil
=============================================================================
