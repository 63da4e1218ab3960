---------------------------- MODULE LedgerProofs ----------------------------
(***************************************************************************)
(* Proofs about the requests of the cores: TransactionLedger, and what the *)
(* invalid packet behind an upgrade is for. The invariants are stated in   *)
(* MemoryProperties. The lemmas about a step speak of the cache calls and  *)
(* of Bus_Iter alone, not of a workload, so that they serve any machine    *)
(* built from them; only RequestsMatch needs a core to ask again for what  *)
(* it is stalled on.                                                       *)
(***************************************************************************)
EXTENDS MemoryProofs, FiniteSetTheorems

LEMMA InitLedger == Init => LedgerInv
<1> SUFFICES ASSUME Init PROVE LedgerInv
  OBVIOUS
<1> USE DEF Init, BusInit, QueuedBy
<1>1. OneRequestEach
  BY DEF OneRequestEach
<1>2. UpgradesGuarded
  BY DEF UpgradesGuarded
<1>3. RequestsMatch
  BY DEF RequestsMatch
<1> QED
  BY <1>1, <1>2, <1>3 DEF LedgerInv

-----------------------------------------------------------------------------
(***************************************************************************)
(* The steps of the cores.                                                 *)
(***************************************************************************)

\* A call that queues nothing, and takes no block away.
LEMMA QuietKeepsOrder ==
  ASSUME IInv, RequestsInOrder, NEW c \in Cores, UNCHANGED busVars,
         pending' \in [Cores -> Accesses \cup {NoAccess}],
         \A d \in Cores \ {c} : pending'[d] = pending[d],
         BusInTransaction(c) => pending'[c] # NoAccess,
         \A d \in Cores : \A t \in Tags : \A i \in Frames :
           Holds(d, t, i) => Holds(d, t, i)'
  PROVE  RequestsInOrder'
<1> USE DEF busVars, RequestsInOrder
<1>1. OneRequestEach'
  BY DEF OneRequestEach, QueuedBy, BusInTransaction
<1>2. currentPacket.tag \in Tags /\ currentPacket.index \in Frames
  BY DEF IInv, TypeOK, BusTypeOK, Packets
<1>3. UpgradesGuarded'
  BY <1>2 DEF UpgradesGuarded
<1> QED
  BY <1>1, <1>3

LEMMA QuietKeepsMatch ==
  ASSUME OneRequestEach, RequestsMatch, NEW c \in Cores, UNCHANGED busVars,
         \A d \in Cores \ {c} : pending'[d] = pending[d],
         BusInTransaction(c) => pending'[c] = pending[c]
  PROVE  RequestsMatch'
<1> USE DEF busVars
<1>1. ASSUME NEW d \in Cores, NEW k \in QueuedBy(d), queue[k].cmd # "flush"
      PROVE  AsksFor(queue[k], pending'[d])
  BY <1>1 DEF RequestsMatch, OneRequestEach, BusInTransaction
<1>2. ASSUME NEW d \in Cores, transactionState[d] \in {"operation", "finally"},
             currentPacket.cmd # "flush"
      PROVE  AsksFor(currentPacket, pending'[d])
  BY <1>2 DEF RequestsMatch, BusInTransaction
<1> QED
  BY <1>1, <1>2 DEF RequestsMatch, QueuedBy, AsksFor

(***************************************************************************)
(* The packets of one request of core c: at most one flush and at most one *)
(* read, and an invalid packet only behind the BusRdX of an upgrade.       *)
(***************************************************************************)
IsRequest(c, packets) ==
  /\ \A k \in DOMAIN packets : packets[k].origid \in {c, InvalidOriginator}
  /\ \E k \in DOMAIN packets : packets[k].origid = c
  /\ \A j, k \in DOMAIN packets :
       /\ packets[j].origid = c /\ packets[k].origid = c
       /\ packets[j].cmd = "flush" <=> packets[k].cmd = "flush"
       => j = k
  /\ \A k \in DOMAIN packets :
       packets[k].origid = InvalidOriginator =>
         /\ k - 1 \in DOMAIN packets
         /\ packets[k - 1].cmd = "busRdX" /\ packets[k - 1].origid = c

\* Where the packets of an idle core are once it has queued some.
LEMMA QueuedByAfter ==
  ASSUME IInv, OneRequestEach, NEW c \in Cores, ~BusInTransaction(c),
         NEW packets \in Seq(Packets), IsRequest(c, packets),
         BusAddTransactions(c, packets)
  PROVE  /\ DOMAIN queue' = 1 .. Len(queue) + Len(packets)
         /\ Len(queue) \in Nat /\ Len(packets) \in Nat
         /\ \A k \in 1 .. Len(queue) : queue'[k] = queue[k]
         /\ \A k \in DOMAIN packets : queue'[Len(queue) + k] = packets[k]
         /\ \A d \in Cores \ {c} : QueuedBy(d)' = QueuedBy(d)
         /\ \A k \in QueuedBy(c)' :
              k - Len(queue) \in DOMAIN packets /\ queue'[k] = packets[k - Len(queue)]
         /\ QueuedBy(c)' # {}
<1> DEFINE n == Len(queue)
<1>1. /\ queue \in Seq(Packets) /\ n \in Nat /\ Len(packets) \in Nat
      /\ queue' = queue \o packets
      /\ DOMAIN queue = 1 .. n /\ DOMAIN packets = 1 .. Len(packets)
  BY DEF IInv, TypeOK, BusTypeOK, BusAddTransactions
<1>2. /\ DOMAIN queue' = 1 .. n + Len(packets)
      /\ \A k \in 1 .. n : queue'[k] = queue[k]
      /\ \A k \in DOMAIN packets : queue'[n + k] = packets[k]
  BY <1>1
<1>3. \A k \in DOMAIN queue' : k \in 1 .. n \/ k - n \in DOMAIN packets
  BY <1>1, <1>2
<1>4. \A k \in DOMAIN packets : n + k \in DOMAIN queue' /\ n + k \notin 1 .. n
  BY <1>1, <1>2
<1>5. \A k \in DOMAIN queue : k \in DOMAIN queue'
  BY <1>1, <1>2
<1>6. c # InvalidOriginator /\ \A d \in Cores : d # InvalidOriginator
  BY SizesArePositive DEF Cores, InvalidOriginator
<1>7. \A k \in DOMAIN queue' : k - n \in DOMAIN packets =>
        queue'[k] = packets[k - n]
  BY <1>1, <1>2
<1>8. QueuedBy(c) = {}
  BY DEF OneRequestEach, BusInTransaction
<1> HIDE DEF n
<1>9. ASSUME NEW d \in Cores \ {c}
      PROVE  QueuedBy(d)' = QueuedBy(d)
  <2>1. \A k \in DOMAIN queue' : queue'[k].origid = d => k \in 1 .. n
    BY <1>3, <1>6, <1>7 DEF IsRequest
  <2> QED
    BY <1>1, <1>2, <1>5, <2>1 DEF QueuedBy
<1>10. ASSUME NEW k \in QueuedBy(c)'
       PROVE  k - n \in DOMAIN packets /\ queue'[k] = packets[k - n]
  BY <1>1, <1>2, <1>3, <1>7, <1>8 DEF QueuedBy
<1>11. QueuedBy(c)' # {}
  <2>1. PICK k \in DOMAIN packets : packets[k].origid = c
    BY DEF IsRequest
  <2>2. n + k \in QueuedBy(c)'
    BY <1>2, <1>4, <2>1 DEF QueuedBy
  <2> QED BY <2>2
<1> QED
  BY <1>1, <1>2, <1>9, <1>10, <1>11 DEF n

\* An idle core makes a request: it waits, and its packets are the last.
LEMMA RequestKeepsOrder ==
  ASSUME IInv, RequestsInOrder, NEW c \in Cores, ~BusInTransaction(c),
         UNCHANGED cacheVars,
         NEW a \in Accesses, Stalls(c, a),
         NEW packets \in Seq(Packets), IsRequest(c, packets),
         BusAddTransactions(c, packets)
  PROVE  RequestsInOrder'
<1> DEFINE n == Len(queue)
<1> USE DEF RequestsInOrder
<1>1. /\ DOMAIN queue' = 1 .. n + Len(packets)
      /\ n \in Nat /\ Len(packets) \in Nat
      /\ \A k \in 1 .. n : queue'[k] = queue[k]
      /\ \A k \in DOMAIN packets : queue'[n + k] = packets[k]
      /\ \A d \in Cores \ {c} : QueuedBy(d)' = QueuedBy(d)
      /\ \A k \in QueuedBy(c)' :
           k - n \in DOMAIN packets /\ queue'[k] = packets[k - n]
      /\ QueuedBy(c)' # {}
  BY QueuedByAfter
<1>2. /\ transactionState' = [transactionState EXCEPT ![c] = "wait"]
      /\ UNCHANGED <<currentPacket, busInProgress>>
      /\ transactionState[c] = "idle"
      /\ transactionState \in [Cores -> TransactionStates]
  BY DEF BusAddTransactions, BusInTransaction, IInv, TypeOK, BusTypeOK
<1>3. a # NoAccess
  BY DEF Accesses, NoAccess
<1>4. /\ pending'[c] = a /\ \A d \in Cores \ {c} : pending'[d] = pending[d]
  BY DEF Stalls, IInv, TypeOK
<1>5. \A d \in Cores : \A k \in QueuedBy(d) : k \in 1 .. n
  BY DEF QueuedBy, IInv, TypeOK, BusTypeOK
<1> HIDE DEF n
<1>6. ASSUME NEW d \in Cores
      PROVE  /\ \A j, k \in QueuedBy(d)' :
                  (queue'[j].cmd = "flush" <=> queue'[k].cmd = "flush") => j = k
             /\ transactionState'[d] = "idle" => QueuedBy(d)' = {}
             /\ transactionState'[d] = "wait" => QueuedBy(d)' # {}
             /\ transactionState'[d] = "operation" <=>
                  busInProgress' /\ currentPacket'.origid = d
             /\ transactionState'[d] = "finally" => currentPacket'.origid = d
             /\ transactionState'[d] \in {"operation", "finally"} =>
                  \A k \in QueuedBy(d)' :
                    currentPacket'.cmd = "flush" /\ queue'[k].cmd # "flush"
             /\ transactionState'[d] # "idle" => pending'[d] # NoAccess
  <2>1. CASE d = c
    <3>1. \A j, k \in QueuedBy(c)' :
            (queue'[j].cmd = "flush" <=> queue'[k].cmd = "flush") => j = k
      <4>1. SUFFICES ASSUME NEW j \in QueuedBy(c)', NEW k \in QueuedBy(c)',
                            queue'[j].cmd = "flush" <=> queue'[k].cmd = "flush"
                     PROVE  j = k
        OBVIOUS
      <4>2. /\ queue'[j].origid = c /\ queue'[k].origid = c
            /\ j \in Int /\ k \in Int
        BY <1>1 DEF QueuedBy
      <4>3. j - n = k - n
        BY <1>1, <4>1, <4>2 DEF IsRequest
      <4> QED BY <1>1, <4>2, <4>3
    <3> QED
      BY <1>1, <1>2, <1>3, <1>4, <2>1, <3>1 DEF OneRequestEach
  <2>2. CASE d # c
    <3>1. /\ QueuedBy(d)' = QueuedBy(d)
          /\ \A k \in QueuedBy(d) : queue'[k] = queue[k]
          /\ transactionState'[d] = transactionState[d]
          /\ pending'[d] = pending[d]
      BY <1>1, <1>2, <1>4, <1>5, <2>2
    <3> QED
      BY <1>2, <3>1 DEF OneRequestEach
  <2> QED BY <2>1, <2>2
<1>7. OneRequestEach'
  BY <1>6 DEF OneRequestEach
<1>8. ASSUME NEW k \in DOMAIN queue', queue'[k].origid = InvalidOriginator
      PROVE  LET p == IF k = 1 THEN currentPacket' ELSE queue'[k - 1]
             IN  /\ p.cmd = "busRdX" /\ p.origid \in Cores
                 /\ k = 1 => transactionState'[p.origid] \in {"operation", "finally"}
  <2>1. CASE k \in 1 .. n
    <3>1. k \in DOMAIN queue /\ queue[k].origid = InvalidOriginator
      BY <1>1, <1>8, <2>1 DEF n, IInv, TypeOK, BusTypeOK
    <3>2. CASE k = 1
      BY <1>2, <3>1, <3>2 DEF UpgradesGuarded
    <3>3. CASE k # 1
      <4>1. k - 1 \in 1 .. n
        BY <1>1, <2>1, <3>3
      <4> QED
        BY <1>1, <3>1, <3>3, <4>1 DEF UpgradesGuarded
    <3> QED BY <3>2, <3>3
  <2>2. CASE k \notin 1 .. n
    <3>1. k - n \in DOMAIN packets /\ k = n + (k - n)
      BY <1>1, <1>8, <2>2
    <3>2. packets[k - n].origid = InvalidOriginator
      BY <1>1, <1>8, <3>1
    <3>3. /\ (k - n) - 1 \in DOMAIN packets
          /\ packets[(k - n) - 1].cmd = "busRdX"
          /\ packets[(k - n) - 1].origid = c
      BY <3>1, <3>2 DEF IsRequest
    <3>4. k - 1 = n + ((k - n) - 1) /\ k # 1
      <4>1. DOMAIN packets = 1 .. Len(packets)
        OBVIOUS
      <4> QED
        BY <1>1, <1>8, <3>1, <3>3, <4>1
    <3>5. queue'[k - 1] = packets[(k - n) - 1]
      BY <1>1, <3>3, <3>4
    <3> QED BY <3>3, <3>4, <3>5
  <2> QED BY <2>1, <2>2
<1>9. ASSUME NEW d \in Cores, transactionState'[d] = "finally",
             currentPacket'.cmd # "flush"
      PROVE  Holds(d, currentPacket.tag, currentPacket.index)
  BY <1>2, <1>9 DEF UpgradesGuarded
<1>10. UpgradesGuarded'
  BY <1>2, <1>8, <1>9 DEF UpgradesGuarded, Holds, cacheVars
<1> QED BY <1>7, <1>10

\* The read of the request is for the access that stalls its core from now on.
LEMMA RequestKeepsMatch ==
  ASSUME IInv, OneRequestEach, RequestsMatch,
         NEW c \in Cores, ~BusInTransaction(c),
         NEW a \in Accesses, Stalls(c, a),
         NEW packets \in Seq(Packets), IsRequest(c, packets),
         BusAddTransactions(c, packets),
         \A k \in DOMAIN packets :
           packets[k].origid = c /\ packets[k].cmd # "flush" => AsksFor(packets[k], a)
  PROVE  RequestsMatch'
<1> DEFINE n == Len(queue)
<1>1. /\ \A k \in 1 .. n : queue'[k] = queue[k]
      /\ \A d \in Cores \ {c} : QueuedBy(d)' = QueuedBy(d)
      /\ \A k \in QueuedBy(c)' :
           k - n \in DOMAIN packets /\ queue'[k] = packets[k - n]
  BY QueuedByAfter
<1>2. /\ transactionState' = [transactionState EXCEPT ![c] = "wait"]
      /\ UNCHANGED <<currentPacket, busInProgress>>
      /\ transactionState \in [Cores -> TransactionStates]
  BY DEF BusAddTransactions, IInv, TypeOK, BusTypeOK
<1>3. /\ pending'[c] = a /\ \A d \in Cores \ {c} : pending'[d] = pending[d]
  BY DEF Stalls, IInv, TypeOK
<1>4. \A d \in Cores : \A k \in QueuedBy(d) : k \in 1 .. n
  BY DEF QueuedBy, IInv, TypeOK, BusTypeOK
<1>5. \A k \in QueuedBy(c)' : queue'[k].origid = c
  BY DEF QueuedBy
<1> HIDE DEF n
<1>6. ASSUME NEW d \in Cores, NEW k \in QueuedBy(d)', queue'[k].cmd # "flush"
      PROVE  AsksFor(queue'[k], pending'[d])
  BY <1>1, <1>3, <1>4, <1>5, <1>6 DEF RequestsMatch
<1>7. ASSUME NEW d \in Cores, transactionState'[d] \in {"operation", "finally"},
             currentPacket'.cmd # "flush"
      PROVE  AsksFor(currentPacket', pending'[d])
  BY <1>2, <1>3, <1>7 DEF RequestsMatch
<1> QED
  BY <1>6, <1>7 DEF RequestsMatch, AsksFor

(***************************************************************************)
(* The calls that queue something make requests, in which a block that is  *)
(* modified is flushed before the read that replaces it.                   *)
(***************************************************************************)
EvictsFirst(c, packets) ==
  /\ \A k \in DOMAIN packets :
       packets[k].cmd # "none" => packets[k].origid = c
  /\ \A k \in DOMAIN packets :
       packets[k].cmd = "flush" => tag[c][packets[k].index] = packets[k].tag
  /\ \A k \in DOMAIN packets :
       /\ packets[k].cmd \in {"busRd", "busRdX"}
       /\ mesi[c][packets[k].index] = "modified"
       => k - 1 \in DOMAIN packets /\ packets[k - 1].cmd = "flush"

LEMMA UpgradeIsRequest ==
  ASSUME NEW c \in Cores, NEW a \in Accesses, WriteUpgrade(c, a)
  PROVE  \E packets \in Seq(Packets) :
           /\ BusAddTransactions(c, packets)
           /\ IsRequest(c, packets)
           /\ EvictsFirst(c, packets)
           /\ \A k \in DOMAIN packets :
                packets[k].origid = c /\ packets[k].cmd # "flush" =>
                  AsksFor(packets[k], a)
<1> DEFINE read    == Packet(c, "busRdX", a.tag, a.index, 0)
           packets == <<read, InvalidPacket>>
<1>1. read \in Packets /\ InvalidPacket \in Packets
  BY SizesArePositive, ZeroIsAWord
  DEF Packet, Packets, InvalidPacket, Accesses, Commands, Tags, Frames
<1>2. /\ packets \in Seq(Packets)
      /\ DOMAIN packets = {1, 2}
      /\ packets[1] = read /\ packets[2] = InvalidPacket
  BY <1>1
<1>3. c # InvalidOriginator
  BY SizesArePositive DEF Cores, InvalidOriginator
<1>4. /\ read.origid = c /\ read.cmd = "busRdX" /\ AsksFor(read, a)
      /\ InvalidPacket.origid = InvalidOriginator
      /\ InvalidPacket.cmd = "none"
      /\ mesi[c][read.index] # "modified"
  BY DEF Packet, InvalidPacket, AsksFor, MissCommand, WriteUpgrade
<1>5. BusAddTransactions(c, packets)
  BY DEF WriteUpgrade
<1> HIDE DEF packets, read
<1>6. IsRequest(c, packets)
  BY <1>2, <1>3, <1>4 DEF IsRequest
<1>7. EvictsFirst(c, packets)
  BY <1>2, <1>4 DEF EvictsFirst
<1> QED
  BY <1>2, <1>3, <1>4, <1>5, <1>6, <1>7

LEMMA MissIsRequest ==
  ASSUME IInv, NEW c \in Cores, NEW a \in Accesses, Miss(c, a)
  PROVE  \E packets \in Seq(Packets) :
           /\ BusAddTransactions(c, packets)
           /\ IsRequest(c, packets)
           /\ EvictsFirst(c, packets)
           /\ \A k \in DOMAIN packets :
                packets[k].origid = c /\ packets[k].cmd # "flush" =>
                  AsksFor(packets[k], a)
<1> DEFINE read    == Packet(c, MissCommand(a), a.tag, a.index, 0)
           packets == DirtyBlock(c, a) \o <<read>>
           flush   == Packet(c, "flush", tag[c][a.index], a.index,
                             dsram[c][a.index][a.offset])
<1>1. read \in Packets /\ flush \in Packets
  BY ZeroIsAWord
  DEF Packet, Packets, Accesses, Commands, MissCommand, IInv, TypeOK, CacheTypeOK
<1>2. c # InvalidOriginator
  BY SizesArePositive DEF Cores, InvalidOriginator
<1>3. /\ read.origid = c /\ read.cmd # "flush" /\ AsksFor(read, a)
      /\ flush.origid = c /\ flush.cmd = "flush"
      /\ flush.index = a.index /\ flush.tag = tag[c][a.index]
      /\ read.index = a.index
  BY DEF Packet, AsksFor, MissCommand
<1>4. BusAddTransactions(c, packets)
  BY DEF Miss
<1>5. CASE mesi[c][a.index] = "modified"
  <2>1. packets = <<flush, read>>
    <3>1. DirtyBlock(c, a) = <<flush>>
      BY <1>5 DEF DirtyBlock
    <3> HIDE DEF flush, read
    <3>2. <<flush>> \o <<read>> = <<flush, read>>
      BY <1>1, PairConcat
    <3> QED
      BY <3>1, <3>2
  <2>2. /\ <<flush, read>> \in Seq(Packets)
        /\ DOMAIN <<flush, read>> = {1, 2}
        /\ <<flush, read>>[1] = flush /\ <<flush, read>>[2] = read
    BY <1>1
  <2> HIDE DEF packets, flush, read
  <2>3. IsRequest(c, packets)
    BY <1>2, <1>3, <2>1, <2>2 DEF IsRequest
  <2>4. EvictsFirst(c, packets)
    BY <1>3, <2>1, <2>2 DEF EvictsFirst
  <2> QED
    BY <1>3, <1>4, <2>1, <2>2, <2>3, <2>4
<1>6. CASE mesi[c][a.index] # "modified"
  <2>1. packets = <<read>>
    <3>1. DirtyBlock(c, a) = <<>>
      BY <1>6 DEF DirtyBlock
    <3> HIDE DEF read
    <3>2. <<>> \o <<read>> = <<read>>
      BY <1>1
    <3> QED
      BY <3>1, <3>2
  <2>2. <<read>> \in Seq(Packets) /\ DOMAIN <<read>> = {1} /\ <<read>>[1] = read
    BY <1>1
  <2> HIDE DEF packets, flush, read
  <2>3. IsRequest(c, packets)
    BY <1>2, <1>3, <2>1, <2>2 DEF IsRequest
  <2>4. EvictsFirst(c, packets)
    BY <1>3, <1>6, <2>1, <2>2 DEF EvictsFirst
  <2> QED
    BY <1>3, <1>4, <2>1, <2>2, <2>3, <2>4
<1> QED
  BY <1>5, <1>6

(***************************************************************************)
(* A call of the cache with any access keeps the requests in order; one    *)
(* with the access its core is stalled on keeps them matched to it.        *)
(***************************************************************************)
LEMMA CallKeepsOrder ==
  ASSUME IInv, RequestsInOrder, NEW c \in Cores, NEW a \in Accesses, CallsCache(c, a)
  PROVE  RequestsInOrder'
<1>1. a # NoAccess
  BY DEF Accesses, NoAccess
<1>2. CASE CoreWait(c, a) \/ ReadHit(c, a) \/ WriteHit(c, a)
  <2>1. UNCHANGED busVars
    BY <1>2 DEF CoreWait, ReadHit, WriteHit
  <2>2. /\ pending' \in [Cores -> Accesses \cup {NoAccess}]
        /\ \A d \in Cores \ {c} : pending'[d] = pending[d]
        /\ BusInTransaction(c) => pending'[c] # NoAccess
    BY <1>1, <1>2
    DEF CoreWait, ReadHit, WriteHit, Stalls, Accepted, IInv, TypeOK
  <2>3. \A d \in Cores : \A t \in Tags : \A i \in Frames :
          Holds(d, t, i) => Holds(d, t, i)'
    <3>1. CASE WriteHit(c, a)
      <4>1. /\ tag' = tag
            /\ \A d \in Cores : \A i \in Frames :
                 mesi'[d][i] = mesi[d][i] \/ mesi'[d][i] = "modified"
        BY <3>1 DEF WriteHit, IInv, TypeOK, CacheTypeOK, Accesses
      <4> QED
        BY <4>1 DEF Holds
    <3>2. CASE CoreWait(c, a) \/ ReadHit(c, a)
      BY <3>2 DEF CoreWait, ReadHit, cacheVars, Holds
    <3> QED
      BY <1>2, <3>1, <3>2
  <2> QED
    BY <2>1, <2>2, <2>3, QuietKeepsOrder
<1>3. CASE WriteUpgrade(c, a) \/ Miss(c, a)
  <2>1. ~BusInTransaction(c) /\ Stalls(c, a) /\ UNCHANGED cacheVars
    BY <1>3 DEF WriteUpgrade, Miss
  <2>2. PICK packets \in Seq(Packets) :
          BusAddTransactions(c, packets) /\ IsRequest(c, packets)
    BY <1>3, UpgradeIsRequest, MissIsRequest
  <2> QED
    BY <2>1, <2>2, RequestKeepsOrder
<1> QED
  BY <1>2, <1>3 DEF CallsCache

LEMMA CallKeepsMatch ==
  ASSUME IInv, OneRequestEach, RequestsMatch, NEW c \in Cores, NEW a \in Accesses,
         CallsCache(c, a), Presents(c, a)
  PROVE  RequestsMatch'
<1>1. CASE CoreWait(c, a) \/ ReadHit(c, a) \/ WriteHit(c, a)
  <2>1. UNCHANGED busVars
    BY <1>1 DEF CoreWait, ReadHit, WriteHit
  <2>2. \A d \in Cores \ {c} : pending'[d] = pending[d]
    BY <1>1 DEF CoreWait, ReadHit, WriteHit, Stalls, Accepted, IInv, TypeOK
  <2>3. BusInTransaction(c) => pending'[c] = pending[c]
    <3>1. BusInTransaction(c) => pending[c] # NoAccess
      BY DEF OneRequestEach, BusInTransaction
    <3> QED
      BY <1>1, <3>1
      DEF CoreWait, ReadHit, WriteHit, Stalls, Presents, IInv, TypeOK
  <2> QED
    BY <2>1, <2>2, <2>3, QuietKeepsMatch
<1>2. CASE WriteUpgrade(c, a) \/ Miss(c, a)
  <2>1. ~BusInTransaction(c) /\ Stalls(c, a)
    BY <1>2 DEF WriteUpgrade, Miss
  <2>2. PICK packets \in Seq(Packets) :
          /\ BusAddTransactions(c, packets)
          /\ IsRequest(c, packets)
          /\ \A k \in DOMAIN packets :
               packets[k].origid = c /\ packets[k].cmd # "flush" =>
                 AsksFor(packets[k], a)
    BY <1>2, UpgradeIsRequest, MissIsRequest
  <2> QED
    BY <2>1, <2>2, RequestKeepsMatch
<1> QED
  BY <1>1, <1>2 DEF CallsCache

-----------------------------------------------------------------------------
(***************************************************************************)
(* The iterations of the bus.                                              *)
(***************************************************************************)

\* Dequeuing moves every packet but the first one place forward.
LEMMA TailPositions ==
  ASSUME queue \in Seq(Packets), queue # <<>>, queue' = Tail(queue)
  PROVE  /\ Head(queue) = queue[1] /\ 1 \in DOMAIN queue
         /\ \A k \in DOMAIN queue' :
              k \in Nat \ {0} /\ k + 1 \in DOMAIN queue /\ queue'[k] = queue[k + 1]
         /\ \A k \in DOMAIN queue :
              k \in Nat \ {0} /\ (k # 1 => k - 1 \in DOMAIN queue')
<1>1. /\ Tail(queue) \in Seq(Packets)
      /\ Len(Tail(queue)) = Len(queue) - 1
      /\ \A k \in 1 .. Len(queue) - 1 : Tail(queue)[k] = queue[k + 1]
      /\ Head(queue) = queue[1]
      /\ Len(queue) \in Nat \ {0}
      /\ DOMAIN queue = 1 .. Len(queue)
      /\ DOMAIN Tail(queue) = 1 .. Len(Tail(queue))
  OBVIOUS
<1> QED
  BY <1>1

(***************************************************************************)
(* Where the packets of the cores are after an iteration of a transaction: *)
(* s places further ahead, and the active packet is no longer among them.  *)
(***************************************************************************)
Granting == IF busInProgress THEN 0 ELSE 1

LEMMA Positions ==
  ASSUME IInv, InTransaction, BusOperates
  PROVE  /\ Granting \in {0, 1}
         /\ \A k \in DOMAIN queue' :
              /\ k \in Nat \ {0} /\ k + Granting \in DOMAIN queue
              /\ queue'[k] = queue[k + Granting]
         /\ \A c \in Cores : \A k \in QueuedBy(c)' : k + Granting \in QueuedBy(c)
         /\ \A c \in Cores : c # ActivePacket.origid =>
              \A k \in QueuedBy(c) : k - Granting \in QueuedBy(c)'
         /\ ~busInProgress =>
              /\ 1 \in QueuedBy(ActivePacket.origid)
              /\ ActivePacket = queue[1]
<1> USE DEF BusOperates
<1>1. queue \in Seq(Packets)
  BY DEF IInv, TypeOK, BusTypeOK
<1>2. CASE busInProgress
  <2>1. queue' = queue /\ Granting = 0
    BY <1>2 DEF Remaining, Granting
  <2>2. \A k \in DOMAIN queue : k \in Nat \ {0} /\ k + 0 = k /\ k - 0 = k
    BY <1>1
  <2>3. \A c \in Cores : \A k \in QueuedBy(c) : k \in DOMAIN queue
    BY DEF QueuedBy
  <2>4. \A c \in Cores : QueuedBy(c)' = QueuedBy(c)
    BY <2>1 DEF QueuedBy
  <2> QED
    BY <1>2, <2>1, <2>2, <2>3, <2>4
<1>3. CASE ~busInProgress
  <2>1. /\ queue' = Tail(queue) /\ Granting = 1 /\ queue # <<>>
        /\ ActivePacket = Head(queue)
    BY <1>3 DEF Remaining, Granting, InTransaction, ActivePacket
  <2>2. /\ Head(queue) = queue[1] /\ 1 \in DOMAIN queue
        /\ \A k \in DOMAIN queue' :
             k \in Nat \ {0} /\ k + 1 \in DOMAIN queue /\ queue'[k] = queue[k + 1]
        /\ \A k \in DOMAIN queue :
             k \in Nat \ {0} /\ (k # 1 => k - 1 \in DOMAIN queue')
    BY <1>1, <2>1, TailPositions
  <2>3. \A c \in Cores : \A k \in QueuedBy(c)' : k + 1 \in QueuedBy(c)
    BY <2>2 DEF QueuedBy
  <2>4. ASSUME NEW c \in Cores, c # ActivePacket.origid, NEW k \in QueuedBy(c)
        PROVE  k - 1 \in QueuedBy(c)'
    <3>1. k \in DOMAIN queue /\ k # 1 /\ k \in Nat
      BY <2>1, <2>2, <2>4 DEF QueuedBy
    <3>2. k - 1 \in DOMAIN queue' /\ (k - 1) + 1 = k
      BY <2>2, <3>1
    <3>3. queue'[k - 1] = queue[(k - 1) + 1]
      BY <2>2, <3>2
    <3> QED
      BY <2>4, <3>2, <3>3 DEF QueuedBy
  <2>5. 1 \in QueuedBy(ActivePacket.origid) /\ ActivePacket = queue[1]
    BY <2>1, <2>2 DEF QueuedBy
  <2> QED
    BY <2>1, <2>2, <2>3, <2>4, <2>5
<1> QED
  BY <1>2, <1>3

(***************************************************************************)
(* The release finds the core of the last transaction done: nothing of its *)
(* is queued, unless it is granted the bus again for the read that follows *)
(* its flush.                                                              *)
(***************************************************************************)
LEMMA ReleasedAreDone ==
  ASSUME IInv, OneRequestEach, NEW c \in Cores, Released[c] = "idle",
         busInProgress \/ queue = <<>> \/ Head(queue).origid # c
  PROVE  QueuedBy(c) = {}
<1>1. CASE transactionState[c] = "idle"
  BY <1>1 DEF OneRequestEach
<1>2. CASE transactionState[c] # "idle"
  <2>1. c = currentPacket.origid /\ transactionState[c] = "finally"
    BY <1>2 DEF Released
  <2>2. ~busInProgress
    BY <2>1 DEF OneRequestEach
  <2>3. SUFFICES ASSUME QueuedBy(c) # {} PROVE FALSE
    OBVIOUS
  <2>4. currentPacket.cmd = "flush"
    BY <2>1, <2>3 DEF OneRequestEach
  <2>5. queue # <<>> /\ queue[1].origid = c
    BY <2>1, <2>4 DEF IInv, EvictionPaired, FollowUp
  <2>6. Head(queue) = queue[1]
    BY <2>5 DEF IInv, TypeOK, BusTypeOK
  <2> QED
    BY <2>2, <2>5, <2>6
<1> QED
  BY <1>1, <1>2

\* The states of the cores the transaction is not of, and of its sender.
LEMMA StatesAfter ==
  ASSUME IInv, OneRequestEach, InTransaction, BusOperates, Continues \/ Ends
  PROVE  /\ transactionState'[ActivePacket.origid] =
              IF busInProgress' THEN "operation" ELSE "finally"
         /\ \A c \in Cores : c # ActivePacket.origid =>
              /\ transactionState'[c] \in {"idle", "wait"}
              /\ transactionState'[c] = Released[c]
              /\ transactionState'[c] # "idle" =>
                   transactionState'[c] = transactionState[c]
<1>1. /\ transactionState' \in [Cores -> TransactionStates]
      /\ Granted \in [Cores -> TransactionStates]
      /\ Released \in [Cores -> TransactionStates]
      /\ Granted[ActivePacket.origid] = "operation"
      /\ ActivePacket.origid \in Cores
  BY IterationKeepsOrder, TransactionStays, ActivePacketFacts
<1>2. ASSUME NEW c \in Cores, c # ActivePacket.origid
      PROVE  transactionState'[c] = Released[c]
  <2>1. Granted[c] = Released[c]
    BY <1>1, <1>2 DEF Granted
  <2> QED
    BY <1>1, <1>2, <2>1 DEF Continues, Ends
<1>3. ASSUME NEW c \in Cores, c # ActivePacket.origid
      PROVE  Released[c] \in {"idle", "wait"}
  <2>1. transactionState[c] # "operation"
    BY <1>3 DEF OneRequestEach, ActivePacket
  <2>2. transactionState[c] = "finally" => Released[c] = "idle"
    BY DEF OneRequestEach, Released
  <2>3. transactionState[c] \in TransactionStates
    BY DEF IInv, TypeOK, BusTypeOK
  <2> QED
    BY <2>1, <2>2, <2>3 DEF Released, TransactionStates
<1>4. \A c \in Cores : Released[c] # "idle" => Released[c] = transactionState[c]
  BY DEF Released
<1>5. transactionState'[ActivePacket.origid] =
        IF busInProgress' THEN "operation" ELSE "finally"
  BY <1>1 DEF Continues, Ends
<1> QED
  BY <1>2, <1>3, <1>4, <1>5

(***************************************************************************)
(* A read that is granted the bus leaves nothing of its core behind in the *)
(* queue, and a flush only the read that follows it.                       *)
(***************************************************************************)
LEMMA SenderKeepsItsRead ==
  ASSUME IInv, OneRequestEach, InTransaction, BusOperates,
         NEW k \in DOMAIN queue', queue'[k].origid = ActivePacket.origid
  PROVE  ActivePacket.cmd = "flush" /\ queue'[k].cmd # "flush"
<1> DEFINE o == ActivePacket.origid
<1>1. /\ o \in Cores
      /\ k \in Nat \ {0} /\ k + Granting \in QueuedBy(o)
      /\ queue'[k] = queue[k + Granting]
  BY Positions, ActivePacketFacts DEF QueuedBy
<1>2. CASE busInProgress
  <2>1. transactionState[o] = "operation" /\ currentPacket = ActivePacket
    BY <1>1, <1>2 DEF ActivePacket, OneRequestEach
  <2> QED
    BY <1>1, <2>1 DEF OneRequestEach
<1>3. CASE ~busInProgress
  <2>1. /\ Granting = 1 /\ 1 \in QueuedBy(o) /\ ActivePacket = queue[1]
        /\ k + 1 \in QueuedBy(o) /\ k + 1 # 1 /\ queue'[k] = queue[k + 1]
    BY <1>1, <1>3, Positions DEF Granting
  <2> HIDE DEF o
  <2>2. (queue[k + 1].cmd = "flush") # (queue[1].cmd = "flush")
    BY <1>1, <2>1 DEF OneRequestEach
  <2>3. ASSUME queue[k + 1].cmd = "flush" PROVE FALSE
    <3>1. /\ (k + 1) + 1 \in DOMAIN queue
          /\ FollowUp(queue[k + 1], queue[(k + 1) + 1])
      BY <2>1, <2>3 DEF QueuedBy, IInv, EvictionPaired
    <3>2. (k + 1) + 1 \in QueuedBy(o) /\ queue[(k + 1) + 1].cmd # "flush"
      BY <2>1, <3>1 DEF QueuedBy, FollowUp
    <3>3. (k + 1) + 1 = 1
      BY <1>1, <2>1, <2>2, <2>3, <3>2 DEF OneRequestEach
    <3> QED
      BY <1>1, <3>3
  <2> QED
    BY <2>1, <2>2, <2>3
<1> QED
  BY <1>2, <1>3

LEMMA IterationKeepsRequests ==
  ASSUME IInv, OneRequestEach, InTransaction, BusOperates, Continues \/ Ends,
         UNCHANGED pending
  PROVE  OneRequestEach'
<1> DEFINE o == ActivePacket.origid
<1>1. /\ transactionState'[o] = IF busInProgress' THEN "operation" ELSE "finally"
      /\ \A c \in Cores : c # o =>
           /\ transactionState'[c] \in {"idle", "wait"}
           /\ transactionState'[c] = Released[c]
           /\ transactionState'[c] # "idle" =>
                transactionState'[c] = transactionState[c]
  BY StatesAfter
<1>2. /\ \A k \in DOMAIN queue' :
           /\ k \in Nat \ {0} /\ k + Granting \in DOMAIN queue
           /\ queue'[k] = queue[k + Granting]
      /\ \A c \in Cores : \A k \in QueuedBy(c)' : k + Granting \in QueuedBy(c)
      /\ \A c \in Cores : c # o =>
           \A k \in QueuedBy(c) : k - Granting \in QueuedBy(c)'
      /\ Granting \in {0, 1}
  BY Positions
<1>3. currentPacket' = ActivePacket /\ o \in Cores /\ busInProgress' \in BOOLEAN
  BY ActivePacketFacts DEF BusOperates, Continues, Ends
<1>4. ASSUME NEW c \in Cores, NEW j \in QueuedBy(c)', NEW k \in QueuedBy(c)',
             queue'[j].cmd = "flush" <=> queue'[k].cmd = "flush"
      PROVE  j = k
  <2>1. j \in DOMAIN queue' /\ k \in DOMAIN queue'
    BY DEF QueuedBy
  <2>2. j + Granting = k + Granting
    BY <1>2, <1>4, <2>1 DEF OneRequestEach
  <2> QED
    BY <1>2, <2>1, <2>2
<1>5. ASSUME NEW c \in Cores, transactionState'[c] = "idle"
      PROVE  QueuedBy(c)' = {}
  <2>1. c # o /\ Released[c] = "idle"
    BY <1>1, <1>5
  <2>2. busInProgress \/ queue = <<>> \/ Head(queue).origid # c
    BY <2>1 DEF ActivePacket
  <2>3. QueuedBy(c) = {}
    BY <2>1, <2>2, ReleasedAreDone
  <2> QED
    BY <1>2, <2>3
<1>6. ASSUME NEW c \in Cores, transactionState'[c] = "wait"
      PROVE  QueuedBy(c)' # {}
  <2>1. c # o /\ transactionState[c] = "wait"
    BY <1>1, <1>6
  <2>2. QueuedBy(c) # {}
    BY <2>1 DEF OneRequestEach
  <2> QED
    BY <1>2, <2>1, <2>2
<1>7. ASSUME NEW c \in Cores
      PROVE  /\ transactionState'[c] = "operation" <=>
                  busInProgress' /\ currentPacket'.origid = c
             /\ transactionState'[c] = "finally" => currentPacket'.origid = c
  <2>1. CASE c = o
    BY <1>1, <1>3, <2>1
  <2>2. CASE c # o
    BY <1>1, <1>3, <2>2
  <2> QED
    BY <2>1, <2>2
<1>8. ASSUME NEW c \in Cores, transactionState'[c] \in {"operation", "finally"},
             NEW k \in QueuedBy(c)'
      PROVE  currentPacket'.cmd = "flush" /\ queue'[k].cmd # "flush"
  <2>1. c = o
    BY <1>1, <1>8
  <2> QED
    BY <1>3, <1>8, <2>1, SenderKeepsItsRead DEF QueuedBy
<1>9. ASSUME NEW c \in Cores, transactionState'[c] # "idle"
      PROVE  pending'[c] # NoAccess
  <2>1. CASE c # o
    <3>1. transactionState[c] # "idle"
      BY <1>1, <1>9, <2>1
    <3> QED
      BY <3>1 DEF OneRequestEach
  <2>2. CASE c = o
    <3>1. transactionState[o] # "idle"
      <4>1. CASE busInProgress
        BY <1>3, <4>1 DEF OneRequestEach, ActivePacket
      <4>2. CASE ~busInProgress
        <5>1. QueuedBy(o) # {}
          BY <4>2, Positions
        <5> QED
          BY <1>3, <5>1 DEF OneRequestEach
      <4> QED
        BY <4>1, <4>2
    <3> QED
      BY <1>3, <2>2, <3>1 DEF OneRequestEach
  <2> QED
    BY <2>1, <2>2
<1> QED
  BY <1>4, <1>5, <1>6, <1>7, <1>8, <1>9 DEF OneRequestEach

(***************************************************************************)
(* An invalid packet that becomes the first of the queue has its BusRdX on *)
(* the bus; a read that ends has brought its block.                        *)
(***************************************************************************)
LEMMA IterationKeepsUpgrades ==
  ASSUME IInv, OneRequestEach, UpgradesGuarded,
         InTransaction, BusOperates, Continues \/ Ends,
         ~busInProgress' /\ ActivePacket.cmd # "flush" =>
           /\ tag'[ActivePacket.origid][ActivePacket.index] = ActivePacket.tag
           /\ mesi'[ActivePacket.origid][ActivePacket.index] # "invalid"
  PROVE  UpgradesGuarded'
<1> DEFINE o == ActivePacket.origid
<1>1. /\ transactionState'[o] = IF busInProgress' THEN "operation" ELSE "finally"
      /\ \A c \in Cores : c # o => transactionState'[c] \in {"idle", "wait"}
  BY StatesAfter
<1>2. /\ \A k \in DOMAIN queue' :
           /\ k \in Nat \ {0} /\ k + Granting \in DOMAIN queue
           /\ queue'[k] = queue[k + Granting]
      /\ Granting \in {0, 1}
      /\ ~busInProgress => ActivePacket = queue[1]
  BY Positions
<1>3. currentPacket' = ActivePacket /\ o \in Cores
  BY ActivePacketFacts DEF BusOperates
<1>4. ASSUME NEW k \in DOMAIN queue', queue'[k].origid = InvalidOriginator
      PROVE  LET p == IF k = 1 THEN currentPacket' ELSE queue'[k - 1]
             IN  /\ p.cmd = "busRdX" /\ p.origid \in Cores
                 /\ k = 1 => transactionState'[p.origid] \in {"operation", "finally"}
  <2>1. /\ k + Granting \in DOMAIN queue
        /\ queue[k + Granting].origid = InvalidOriginator
    BY <1>2, <1>4
  <2>2. CASE k # 1
    <3>1. k - 1 \in DOMAIN queue'
      <4>1. queue' \in Seq(Packets)
        BY IterationKeepsOrder
      <4> QED
        BY <2>2, <4>1
    <3>2. /\ queue'[k - 1] = queue[(k - 1) + Granting]
          /\ (k - 1) + Granting = (k + Granting) - 1 /\ k + Granting # 1
      BY <1>2, <2>2, <3>1
    <3>3. /\ queue[(k + Granting) - 1].cmd = "busRdX"
          /\ queue[(k + Granting) - 1].origid \in Cores
      BY <2>1, <3>2 DEF UpgradesGuarded
    <3>4. queue'[k - 1].cmd = "busRdX" /\ queue'[k - 1].origid \in Cores
      BY <3>2, <3>3
    <3> QED
      BY <2>2, <3>4
  <2>3. CASE k = 1
    <3>1. ActivePacket.cmd = "busRdX"
      <4>1. CASE busInProgress
        <5>1. 1 \in DOMAIN queue /\ queue[1].origid = InvalidOriginator
          BY <2>1, <2>3, <4>1 DEF Granting
        <5>2. currentPacket.cmd = "busRdX"
          BY <5>1 DEF UpgradesGuarded
        <5> QED
          BY <4>1, <5>2 DEF ActivePacket
      <4>2. CASE ~busInProgress
        <5>1. 2 \in DOMAIN queue /\ queue[2].origid = InvalidOriginator
          BY <2>1, <2>3, <4>2 DEF Granting
        <5>2. 2 # 1 /\ 2 - 1 = 1
          OBVIOUS
        <5>3. queue[2 - 1].cmd = "busRdX"
          BY <5>1, <5>2 DEF UpgradesGuarded
        <5> QED
          BY <1>2, <4>2, <5>2, <5>3
      <4> QED
        BY <4>1, <4>2
    <3> QED
      BY <1>1, <1>3, <2>3, <3>1
  <2> QED
    BY <2>2, <2>3
<1>5. ASSUME NEW c \in Cores, transactionState'[c] = "finally",
             currentPacket'.cmd # "flush"
      PROVE  Holds(c, currentPacket.tag, currentPacket.index)'
  <2>1. c = o /\ ~busInProgress'
    BY <1>1, <1>5
  <2> QED
    BY <1>3, <1>5, <2>1 DEF Holds
<1> QED
  BY <1>4, <1>5 DEF UpgradesGuarded, Holds

LEMMA IterationKeepsMatch ==
  ASSUME IInv, OneRequestEach, RequestsMatch,
         InTransaction, BusOperates, Continues \/ Ends, UNCHANGED pending
  PROVE  RequestsMatch'
<1> DEFINE o == ActivePacket.origid
<1>1. \A c \in Cores : c # o => transactionState'[c] \in {"idle", "wait"}
  BY StatesAfter
<1>2. /\ \A k \in DOMAIN queue' : queue'[k] = queue[k + Granting]
      /\ \A c \in Cores : \A k \in QueuedBy(c)' : k + Granting \in QueuedBy(c)
      /\ ~busInProgress => 1 \in QueuedBy(o) /\ ActivePacket = queue[1]
  BY Positions
<1>3. currentPacket' = ActivePacket /\ o \in Cores
  BY ActivePacketFacts DEF BusOperates
<1>4. ASSUME NEW c \in Cores, NEW k \in QueuedBy(c)', queue'[k].cmd # "flush"
      PROVE  AsksFor(queue'[k], pending[c])
  <2>1. k \in DOMAIN queue'
    BY DEF QueuedBy
  <2> QED
    BY <1>2, <1>4, <2>1 DEF RequestsMatch
<1>5. ASSUME NEW c \in Cores, transactionState'[c] \in {"operation", "finally"},
             ActivePacket.cmd # "flush"
      PROVE  AsksFor(ActivePacket, pending[c])
  <2>1. c = o
    BY <1>1, <1>5
  <2>2. CASE busInProgress
    <3>1. transactionState[o] = "operation" /\ ActivePacket = currentPacket
      BY <1>3, <2>2 DEF OneRequestEach, ActivePacket
    <3> QED
      BY <1>3, <1>5, <2>1, <3>1 DEF RequestsMatch
  <2>3. CASE ~busInProgress
    BY <1>2, <1>3, <1>5, <2>1, <2>3 DEF RequestsMatch
  <2> QED
    BY <2>2, <2>3
<1> QED
  BY <1>3, <1>4, <1>5 DEF RequestsMatch, AsksFor

(***************************************************************************)
(* An iteration that only releases a core, with no packet to grant: then   *)
(* the core is done, and no core operates any longer.                      *)
(***************************************************************************)
LEMMA ReleaseKeepsRequests ==
  ASSUME IInv, OneRequestEach, ~busInProgress, UNCHANGED <<busInProgress, pending>>,
         queue # <<>> => Head(queue).origid = InvalidOriginator,
         transactionState' = Released,
         currentPacket'.origid = InvalidOriginator,
         NEW s \in {0, 1},
         \A k \in DOMAIN queue' : k \in Nat /\ queue'[k] = queue[k + s],
         \A c \in Cores : \A k \in QueuedBy(c)' : k + s \in QueuedBy(c),
         \A c \in Cores : \A k \in QueuedBy(c) : k - s \in QueuedBy(c)'
  PROVE  /\ OneRequestEach'
         /\ \A c \in Cores : transactionState'[c] \in {"idle", "wait"}
<1>1. InvalidOriginator \notin Cores
  BY SizesArePositive DEF Cores, InvalidOriginator
<1>2. ASSUME NEW c \in Cores, NEW j \in QueuedBy(c)', NEW k \in QueuedBy(c)',
             queue'[j].cmd = "flush" <=> queue'[k].cmd = "flush"
      PROVE  j = k
  <2>1. j \in DOMAIN queue' /\ k \in DOMAIN queue'
    BY DEF QueuedBy
  <2>2. j + s = k + s
    BY <1>2, <2>1 DEF OneRequestEach
  <2> QED
    BY <2>1, <2>2
<1>3. ASSUME NEW c \in Cores
      PROVE  /\ transactionState'[c] = Released[c]
             /\ Released[c] \in {"idle", "wait"}
             /\ Released[c] = "wait" => transactionState[c] = "wait"
             /\ Released[c] = "idle" => QueuedBy(c) = {}
  <2>1. transactionState[c] \in {"idle", "wait", "finally"}
    BY DEF IInv, TypeOK, BusTypeOK, TransactionStates, OneRequestEach
  <2>2. transactionState[c] = "finally" => Released[c] = "idle"
    BY DEF OneRequestEach, Released
  <2>3. Released[c] = "idle" => QueuedBy(c) = {}
    BY <1>1, ReleasedAreDone
  <2> QED
    BY <2>1, <2>2, <2>3 DEF Released
<1>4. ASSUME NEW c \in Cores
      PROVE  /\ transactionState'[c] = "idle" => QueuedBy(c)' = {}
             /\ transactionState'[c] = "wait" => QueuedBy(c)' # {}
             /\ transactionState'[c] # "idle" => pending'[c] # NoAccess
  BY <1>3 DEF OneRequestEach
<1> QED
  BY <1>1, <1>2, <1>3, <1>4 DEF OneRequestEach

LEMMA BusIdleKeepsOrder ==
  ASSUME IInv, RequestsInOrder, BusIdle, UNCHANGED pending
  PROVE  RequestsInOrder' /\ RequestsMatch'
<1> USE DEF BusIdle, RequestsInOrder
<1>1. \A k \in DOMAIN queue : FALSE
  OBVIOUS
<1>2. \A c \in Cores : QueuedBy(c) = {} /\ QueuedBy(c)' = {}
  BY DEF QueuedBy
<1>3. currentPacket'.origid = InvalidOriginator
  BY DEF IInv, TypeOK, BusTypeOK, Packets
<1>4. OneRequestEach' /\ \A c \in Cores : transactionState'[c] \in {"idle", "wait"}
  BY <1>1, <1>2, <1>3, ReleaseKeepsRequests
<1>5. UpgradesGuarded'
  BY <1>1, <1>4 DEF UpgradesGuarded
<1>6. RequestsMatch'
  BY <1>2, <1>4 DEF RequestsMatch
<1> QED
  BY <1>4, <1>5, <1>6

\* Two invalid packets never follow each other: each has its BusRdX before it.
LEMMA BusGapKeepsOrder ==
  ASSUME IInv, RequestsInOrder, BusGap, UNCHANGED pending
  PROVE  /\ RequestsInOrder'
         /\ RequestsMatch => RequestsMatch'
<1> USE DEF BusGap, RequestsInOrder
<1>1. queue \in Seq(Packets) /\ InvalidOriginator \notin Cores
  BY SizesArePositive DEF Cores, InvalidOriginator, IInv, TypeOK, BusTypeOK
<1>2. queue' = Tail(queue) /\ currentPacket' = Head(queue)
  BY DEF BusOperates, Remaining, ActivePacket
<1>3. /\ Head(queue) = queue[1] /\ 1 \in DOMAIN queue
      /\ \A k \in DOMAIN queue' :
           k \in Nat \ {0} /\ k + 1 \in DOMAIN queue /\ queue'[k] = queue[k + 1]
      /\ \A k \in DOMAIN queue :
           k \in Nat \ {0} /\ (k # 1 => k - 1 \in DOMAIN queue')
  BY <1>1, <1>2, TailPositions
<1>4. \A c \in Cores : \A k \in QueuedBy(c)' : k + 1 \in QueuedBy(c)
  BY <1>3 DEF QueuedBy
<1>5. ASSUME NEW c \in Cores, NEW k \in QueuedBy(c)
      PROVE  k - 1 \in QueuedBy(c)'
  <2>1. k \in DOMAIN queue /\ k # 1 /\ k \in Nat
    BY <1>1, <1>3 DEF QueuedBy
  <2>2. k - 1 \in DOMAIN queue' /\ queue'[k - 1] = queue[(k - 1) + 1] /\ (k - 1) + 1 = k
    BY <1>3, <2>1
  <2> QED
    BY <2>2 DEF QueuedBy
<1>6. OneRequestEach' /\ \A c \in Cores : transactionState'[c] \in {"idle", "wait"}
  BY <1>2, <1>3, <1>4, <1>5, ReleaseKeepsRequests
<1>7. ASSUME NEW k \in DOMAIN queue', queue'[k].origid = InvalidOriginator
      PROVE  /\ k # 1
             /\ queue'[k - 1].cmd = "busRdX" /\ queue'[k - 1].origid \in Cores
  <2>1. /\ k + 1 \in DOMAIN queue /\ queue[k + 1].origid = InvalidOriginator
        /\ k + 1 # 1 /\ (k + 1) - 1 = k
    BY <1>3, <1>7
  <2>2. queue[k].cmd = "busRdX" /\ queue[k].origid \in Cores
    BY <2>1 DEF UpgradesGuarded
  <2>3. k # 1
    BY <1>1, <1>3, <2>2
  <2>4. k - 1 \in DOMAIN queue' /\ (k - 1) + 1 = k
    <3>1. queue' \in Seq(Packets)
      BY <1>1, <1>2
    <3> QED
      BY <2>3, <3>1
  <2>5. queue'[k - 1] = queue[k]
    BY <1>3, <2>4
  <2> QED
    BY <2>2, <2>3, <2>5
<1>8. UpgradesGuarded'
  BY <1>6, <1>7 DEF UpgradesGuarded
<1>9. ASSUME RequestsMatch PROVE RequestsMatch'
  <2>1. ASSUME NEW c \in Cores, NEW k \in QueuedBy(c)', queue'[k].cmd # "flush"
        PROVE  AsksFor(queue'[k], pending[c])
    <3>1. k \in DOMAIN queue'
      BY DEF QueuedBy
    <3> QED
      BY <1>3, <1>4, <1>9, <2>1, <3>1 DEF RequestsMatch
  <2> QED
    BY <1>6, <2>1 DEF RequestsMatch, AsksFor
<1> QED
  BY <1>6, <1>8, <1>9

\* The last word of a read leaves its block valid in the sender's cache.
LEMMA WordKeepsOrder ==
  ASSUME IInv, RequestsInOrder, BusWord, UNCHANGED pending
  PROVE  /\ RequestsInOrder'
         /\ RequestsMatch => RequestsMatch'
<1> DEFINE p      == ActivePacket
           offset == ActiveOffset
           word   == WordOnBus(p, offset)
           isShared == SharedLine(p)
<1>1. /\ InTransaction /\ BusOperates /\ Respond(p, offset, word, isShared)
      /\ Continues \/ (offset = LastOffset /\ Ends)
  BY DEF BusWord, BusKeeps, Continues, Ends
<1>2. p \in Packets /\ p.origid \in Cores /\ offset \in Offsets
  BY <1>1, ActivePacketFacts
<1>3. word \in Words /\ isShared \in BOOLEAN /\ CacheTypeOK
  BY <1>2, WordOnBusIsAWord DEF IInv, TypeOK, SharedLine
<1> HIDE DEF offset, word, isShared
<1>4. ASSUME ~busInProgress'
      PROVE  tag'[p.origid][p.index] = p.tag /\ mesi'[p.origid][p.index] # "invalid"
  <2>1. offset = LastOffset
    BY <1>1, <1>4 DEF Continues
  <2>2. /\ p.index \in Frames
        /\ \A c \in Cores : \A i \in Frames :
             IF c = p.origid /\ i = p.index
             THEN /\ tag'[c][i] = p.tag
                  /\ offset = LastOffset =>
                       mesi'[c][i] = IF isShared THEN "shared" ELSE "exclusive"
             ELSE /\ tag'[c][i] = tag[c][i]
                  /\ mesi'[c][i] = MesiAfterSnoop(p, offset)[c][i]
    <3> HIDE DEF p
    <3> QED
      BY <1>1, <1>2, <1>3, RespondEffect DEF Packets
  <2> HIDE DEF p
  <2> QED
    BY <1>2, <2>1, <2>2
<1>5. OneRequestEach'
  BY <1>1, IterationKeepsRequests DEF RequestsInOrder
<1>6. UpgradesGuarded'
  BY <1>1, <1>4, IterationKeepsUpgrades DEF RequestsInOrder
<1>7. RequestsMatch => RequestsMatch'
  BY <1>1, IterationKeepsMatch DEF RequestsInOrder
<1> QED
  BY <1>5, <1>6, <1>7 DEF RequestsInOrder

LEMMA BusKeepsOrder ==
  ASSUME IInv, RequestsInOrder, BusIter, UNCHANGED pending
  PROVE  /\ RequestsInOrder'
         /\ RequestsMatch => RequestsMatch'
<1>1. CASE BusYield \/ BusWait
  <2>1. InTransaction /\ BusOperates /\ Continues /\ busInProgress'
    BY <1>1 DEF BusYield, BusWait, BusKeeps, Continues
  <2>2. OneRequestEach' /\ UpgradesGuarded'
    BY <2>1, IterationKeepsRequests, IterationKeepsUpgrades DEF RequestsInOrder
  <2>3. RequestsMatch => RequestsMatch'
    BY <2>1, IterationKeepsMatch DEF RequestsInOrder
  <2> QED
    BY <2>2, <2>3 DEF RequestsInOrder
<1> QED
  BY <1>1, BusIdleKeepsOrder, BusGapKeepsOrder, WordKeepsOrder DEF BusIter

-----------------------------------------------------------------------------
(***************************************************************************)
(* The theorems.                                                           *)
(***************************************************************************)
LEMMA NextKeepsLedger == IInv /\ LedgerInv /\ [Next]_vars => LedgerInv'
<1> SUFFICES ASSUME IInv, LedgerInv, [Next]_vars PROVE LedgerInv'
  OBVIOUS
<1> USE DEF LedgerInv, RequestsInOrder
<1>1. CASE BusStep
  BY <1>1, BusKeepsOrder DEF BusStep
<1>2. ASSUME NEW c \in Cores, CoreIdle(c) PROVE LedgerInv'
  <2>1. UNCHANGED <<cacheVars, busVars, pending>>
    BY <1>2 DEF CoreIdle
  <2>2. \A d \in Cores : \A t \in Tags : \A i \in Frames :
          Holds(d, t, i) => Holds(d, t, i)'
    BY <2>1 DEF cacheVars, Holds
  <2>3. pending' \in [Cores -> Accesses \cup {NoAccess}]
    BY <2>1 DEF IInv, TypeOK
  <2>4. BusInTransaction(c) => pending'[c] # NoAccess
    BY <2>1 DEF OneRequestEach, BusInTransaction
  <2> QED
    BY <2>1, <2>2, <2>3, <2>4, QuietKeepsOrder, QuietKeepsMatch
<1>3. ASSUME NEW c \in Cores, CoreAccess(c) PROVE LedgerInv'
  <2>1. PICK a \in Accesses : Presents(c, a) /\ CallsCache(c, a)
    BY <1>3, WorkloadIsAccesses DEF CoreAccess, CallsCache
  <2> QED
    BY <2>1, CallKeepsOrder, CallKeepsMatch
<1>4. CASE UNCHANGED vars
  BY <1>4
  DEF OneRequestEach, UpgradesGuarded, RequestsMatch, QueuedBy, AsksFor, Holds,
      vars, busVars, cacheVars
<1> QED
  BY <1>1, <1>2, <1>3, <1>4 DEF Next

(***************************************************************************)
(* Every core has at most one request, for the access it is stalled on.    *)
(***************************************************************************)
THEOREM LedgerInductive == Spec => [](IInv /\ LedgerInv)
<1>1. Init => IInv /\ LedgerInv
  BY InitIInv, InitLedger
<1>2. IInv /\ LedgerInv /\ [Next]_vars => (IInv /\ LedgerInv)'
  BY NextKeepsIInv, NextKeepsLedger
<1> QED
  BY <1>1, <1>2, PTL DEF Spec

\* The packets a core has queued: its read, and the flush right before it.
LEMMA RequestIsPair ==
  ASSUME IInv, OneRequestEach, NEW c \in Cores, QueuedBy(c) # {}
  PROVE  \E r \in QueuedBy(c) :
           /\ r \in Nat \ {0} /\ queue[r].cmd # "flush"
           /\ \A k \in QueuedBy(c) : k \in {r - 1, r}
<1>1. \A k \in QueuedBy(c) :
        k \in DOMAIN queue /\ k \in Nat \ {0} /\ queue[k].origid = c
  BY DEF QueuedBy, IInv, TypeOK, BusTypeOK
<1>2. ASSUME NEW k \in QueuedBy(c), queue[k].cmd = "flush"
      PROVE  k + 1 \in QueuedBy(c) /\ queue[k + 1].cmd # "flush"
  BY <1>1, <1>2 DEF IInv, EvictionPaired, FollowUp, QueuedBy
<1>3. PICK r \in QueuedBy(c) : queue[r].cmd # "flush"
  BY <1>2
<1>4. ASSUME NEW k \in QueuedBy(c) PROVE k \in {r - 1, r}
  <2>1. CASE queue[k].cmd = "flush"
    <3>1. k + 1 = r
      BY <1>2, <1>3, <2>1 DEF OneRequestEach
    <3> QED
      BY <1>1, <3>1
  <2>2. CASE queue[k].cmd # "flush"
    BY <1>3, <2>2 DEF OneRequestEach
  <2> QED
    BY <2>1, <2>2
<1> QED
  BY <1>1, <1>3, <1>4

LEMMA LedgerFromInv == IInv /\ LedgerInv => TransactionLedger
<1> SUFFICES ASSUME IInv, LedgerInv, NEW c \in Cores
             PROVE  LET mine == QueuedBy(c)
                    IN  /\ transactionState[c] = "idle" => mine = {}
                        /\ Cardinality(mine) <= 2
                        /\ mine # {} => AsksFor(queue[Max(mine)], pending[c])
                        /\ transactionState[c] = "wait" => mine # {}
                        /\ transactionState[c] = "operation" <=>
                             busInProgress /\ currentPacket.origid = c
                        /\ transactionState[c] = "finally" =>
                             currentPacket.origid = c
                        /\ transactionState[c] \in {"operation", "finally"}
                             /\ mine = {} => AsksFor(currentPacket, pending[c])
  BY DEF TransactionLedger
<1> USE DEF LedgerInv
<1>1. CASE QueuedBy(c) = {}
  <2>1. Cardinality(QueuedBy(c)) = 0
    BY <1>1, FS_EmptySet
  <2>2. ASSUME transactionState[c] \in {"operation", "finally"}
        PROVE  AsksFor(currentPacket, pending[c])
    <3>1. currentPacket.origid = c
      BY <2>2 DEF OneRequestEach
    <3>2. currentPacket.cmd # "flush"
      <4>1. ASSUME currentPacket.cmd = "flush" PROVE FALSE
        <5>1. queue # <<>> /\ queue[1].origid = c
          BY <3>1, <4>1 DEF IInv, EvictionPaired, FollowUp
        <5>2. 1 \in QueuedBy(c)
          BY <5>1 DEF QueuedBy, IInv, TypeOK, BusTypeOK
        <5> QED
          BY <1>1, <5>2
      <4> QED
        BY <4>1
    <3> QED
      BY <2>2, <3>2 DEF RequestsMatch
  <2> QED
    BY <1>1, <2>1, <2>2 DEF OneRequestEach
<1>2. CASE QueuedBy(c) # {}
  <2>1. PICK r \in QueuedBy(c) :
          /\ r \in Nat \ {0} /\ queue[r].cmd # "flush"
          /\ \A k \in QueuedBy(c) : k \in {r - 1, r}
    BY <1>2, RequestIsPair
  <2>2. Max(QueuedBy(c)) = r
    <3>1. \A k \in QueuedBy(c) : r >= k
      BY <2>1
    <3>2. \A x \in QueuedBy(c) : (\A k \in QueuedBy(c) : x >= k) => x = r
      BY <2>1
    <3> QED
      BY <3>1, <3>2 DEF Max
  <2>3. Cardinality(QueuedBy(c)) <= 2
    <3>1. IsFiniteSet({r}) /\ Cardinality({r}) = 1
      BY FS_Singleton
    <3>2. IsFiniteSet({r} \cup {r - 1}) /\ Cardinality({r} \cup {r - 1}) = 2
      <4>1. r - 1 \notin {r}
        BY <2>1
      <4> QED
        BY <3>1, <4>1, FS_AddElement
    <3>3. QueuedBy(c) \subseteq {r} \cup {r - 1}
      BY <2>1
    <3> QED
      BY <3>2, <3>3, FS_Subset, FS_CardinalityType
  <2>4. AsksFor(queue[r], pending[c])
    BY <2>1 DEF RequestsMatch
  <2> QED
    BY <1>2, <2>2, <2>3, <2>4 DEF OneRequestEach
<1> QED
  BY <1>1, <1>2

(***************************************************************************)
(* The transaction state of a core and what the bus holds of it agree.     *)
(***************************************************************************)
THEOREM LedgerAlways == Spec => []TransactionLedger
  BY LedgerInductive, LedgerFromInv, PTL
=============================================================================
