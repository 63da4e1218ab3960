---------------------------- MODULE MemoryProofs ----------------------------
(***************************************************************************)
(* Proofs about MemorySystem, for any number of cores, frames, tags and    *)
(* words of a block, any latency and any workload.                         *)
(***************************************************************************)
EXTENDS MemoryProperties, SequenceTheorems, WellFoundedInduction, TLAPS

(***************************************************************************)
(* The cache that has the last word in check_cache_snooping exists: a      *)
(* non-empty set of cores has a maximum, and it is one of them.            *)
(***************************************************************************)
LEMMA MaxOfCores ==
  ASSUME NEW S \in SUBSET Cores, S # {}
  PROVE  Max(S) \in S
<1> DEFINE M == {NumberOfCores - 1 - x : x \in S}
<1>a. \A x \in S : NumberOfCores - 1 - x \in Nat
  BY SizesArePositive DEF Cores
<1>1. M \in SUBSET Nat /\ M # {}
  BY <1>a, Zenon
<1>2. PICK m \in M : \A n \in M : m <= n
  <2> HIDE DEF M
  <2>1. PICK m \in M : \A n \in M : <<n, m>> \notin OpToRel(<, Nat)
    BY <1>1, NatLessThanWellFounded, WFMin, Zenon
  <2>2. \A n \in M : ~ (n < m)
    BY <1>1, <2>1 DEF OpToRel
  <2> QED BY <1>1, <2>2
<1>3. PICK s \in S : m = NumberOfCores - 1 - s
  BY <1>2
<1>4. \A x \in S : s >= x
  BY <1>2, <1>3, SizesArePositive DEF Cores
<1>5. \E x \in S : \A y \in S : x >= y
  BY <1>4
<1> QED
  BY <1>5 DEF Max

-----------------------------------------------------------------------------
(***************************************************************************)
(* Snooping only takes rights away, and takes both exclusive rights away   *)
(* when a read passes.                                                     *)
(***************************************************************************)
LEMMA SnoopingSMLowers ==
  ASSUME NEW s \in MesiStates, NEW cmd \in Commands
  PROVE  /\ SnoopingSM(s, cmd) \in MesiStates
         /\ SnoopingSM(s, cmd) \in {"exclusive", "modified"} =>
              SnoopingSM(s, cmd) = s
         /\ s = "invalid" => SnoopingSM(s, cmd) = "invalid"
         /\ cmd \in {"busRd", "busRdX"} =>
              SnoopingSM(s, cmd) \notin {"exclusive", "modified"}
  BY DEF SnoopingSM, MesiStates, Commands

\* So does a snoop of all caches: no line gains a right, none becomes valid.
LEMMA MesiAfterSnoopLowers ==
  ASSUME CacheTypeOK, NEW p \in Packets, NEW offset \in Offsets
  PROVE  /\ MesiAfterSnoop(p, offset) \in [Cores -> [Frames -> MesiStates]]
         /\ \A c \in Cores : \A i \in Frames :
              LET s == MesiAfterSnoop(p, offset)[c][i]
              IN  /\ s \in {"exclusive", "modified"} => s = mesi[c][i]
                  /\ mesi[c][i] = "invalid" => s = "invalid"
                  /\ i # p.index => s = mesi[c][i]
<1>1. p.index \in Frames /\ p.cmd \in Commands
  BY DEF Packets
<1>2. \A c \in Cores : \A i \in Frames : mesi[c][i] \in MesiStates
  BY DEF CacheTypeOK
<1>3. ASSUME NEW c \in Cores
      PROVE  /\ SnoopedMesi(c, p, offset) \in MesiStates
             /\ SnoopedMesi(c, p, offset) \in {"exclusive", "modified"} =>
                  SnoopedMesi(c, p, offset) = mesi[c][p.index]
             /\ mesi[c][p.index] = "invalid" =>
                  SnoopedMesi(c, p, offset) = "invalid"
  <2>1. CmdSeenBy(c, p) \in Commands
    BY <1>1 DEF CmdSeenBy, Commands
  <2> QED
    BY <1>1, <1>2, <2>1, SnoopingSMLowers DEF SnoopedMesi
<1>4. \A c \in Cores : \A i \in Frames :
        MesiAfterSnoop(p, offset)[c][i] =
          IF i = p.index THEN SnoopedMesi(c, p, offset) ELSE mesi[c][i]
  BY <1>1 DEF MesiAfterSnoop, CacheTypeOK
<1>5. MesiAfterSnoop(p, offset) \in [Cores -> [Frames -> MesiStates]]
  BY <1>1, <1>3 DEF MesiAfterSnoop, CacheTypeOK
<1> QED
  BY <1>1, <1>2, <1>3, <1>4, <1>5

(***************************************************************************)
(* The word a flush or a cache puts on the bus is a word.                  *)
(***************************************************************************)
LEMMA WordOnBusIsAWord ==
  ASSUME CacheTypeOK, MemoryTypeOK, NEW p \in Packets, NEW offset \in Offsets
  PROVE  WordOnBus(p, offset) \in Words
<1>1. Suppliers(p) \in SUBSET Cores
  BY DEF Suppliers, Owners
<1>2. SnoopedData(p, offset) \in Words
  <2>1. CASE Suppliers(p) = {}
    BY <2>1 DEF SnoopedData, Packets
  <2>2. CASE Suppliers(p) # {}
    <3>1. Max(Suppliers(p)) \in Cores
      BY <1>1, <2>2, MaxOfCores
    <3> QED
      BY <2>2, <3>1 DEF SnoopedData, CacheTypeOK, Packets
  <2> QED
    BY <2>1, <2>2
<1> QED
  BY <1>2 DEF WordOnBus, MemoryTypeOK, Packets

-----------------------------------------------------------------------------
(***************************************************************************)
(* What the iteration of a transaction works with.                         *)
(***************************************************************************)
LEMMA ActivePacketFacts ==
  ASSUME IInv, InTransaction
  PROVE  /\ ActivePacket \in Packets
         /\ ActivePacket.origid \in Cores
         /\ ActivePacket.cmd \in {"busRd", "busRdX", "flush"}
         /\ ActiveOffset \in Offsets
         /\ MayYield \in BOOLEAN
<1> USE DEF IInv, TypeOK, BusTypeOK
<1>1. CASE busInProgress
  BY <1>1 DEF ActivePacket, ActiveOffset, MayYield, PacketsWellFormed,
              Packets, Commands
<1>2. CASE ~busInProgress
  <2>1. queue # <<>> /\ Head(queue).origid # InvalidOriginator
    BY <1>2 DEF InTransaction
  <2>2. Head(queue) \in Packets /\ Head(queue) = queue[1] /\ 1 \in DOMAIN queue
    BY <2>1
  <2>3. Head(queue).cmd # "none"
    BY <2>1, <2>2 DEF PacketsWellFormed
  <2>4. 0 \in Offsets
    BY SizesArePositive DEF Offsets
  <2> QED
    BY <1>2, <2>1, <2>2, <2>3, <2>4
    DEF ActivePacket, ActiveOffset, MayYield, Packets, Commands
<1> QED
  BY <1>1, <1>2

(***************************************************************************)
(* The frames in transfer: before the iteration, none but the frame of the *)
(* packet it works on; after it, that frame, until a read is over.         *)
(***************************************************************************)
LEMMA InTransferIsActive ==
  ASSUME IInv, InTransaction, NEW c \in Cores, NEW i \in Frames,
         InTransfer(c, i)
  PROVE  c = ActivePacket.origid /\ i = ActivePacket.index
<1>1. CASE busInProgress
  BY <1>1 DEF InTransfer, ActivePacket
<1>2. CASE ~busInProgress
  BY <1>2 DEF InTransfer, ActivePacket, IInv, TypeOK, BusTypeOK,
              EvictionPaired, FollowUp
<1> QED
  BY <1>1, <1>2

\* Whatever the release did, the sender of the active packet operates.
LEMMA TransactionStays ==
  ASSUME IInv, InTransaction
  PROVE  /\ Released \in [Cores -> TransactionStates]
         /\ Granted \in [Cores -> TransactionStates]
         /\ Granted[ActivePacket.origid] = "operation"
<1> USE DEF IInv, TypeOK, BusTypeOK, TransactionStates
<1>1. Released \in [Cores -> TransactionStates]
  BY DEF Released
<1>2. CASE busInProgress
  BY <1>1, <1>2 DEF Granted, Released, ActivePacket, PacketsWellFormed, SenderIsBusy
<1>3. CASE ~busInProgress
  BY <1>1, <1>3, ActivePacketFacts DEF Granted
<1> QED
  BY <1>1, <1>2, <1>3

(***************************************************************************)
(* Dequeuing keeps the queue in order, and puts the read that belongs to a *)
(* flush at its head.                                                      *)
(***************************************************************************)
LEMMA RemainingIsPaired ==
  ASSUME IInv, InTransaction
  PROVE  /\ Remaining \in Seq(Packets)
         /\ \A k \in DOMAIN Remaining :
              /\ Remaining[k].cmd = "none"
                   <=> Remaining[k].origid = InvalidOriginator
              /\ Remaining[k].cmd = "flush" =>
                   k + 1 \in DOMAIN Remaining /\ FollowUp(Remaining[k], Remaining[k + 1])
         /\ ActivePacket.cmd = "flush" =>
              Remaining # <<>> /\ FollowUp(ActivePacket, Remaining[1])
<1> USE DEF IInv, TypeOK, BusTypeOK
<1>1. CASE busInProgress
  BY <1>1 DEF Remaining, ActivePacket, PacketsWellFormed, EvictionPaired
<1>2. CASE ~busInProgress
  <2>1. queue # <<>>
    BY <1>2 DEF InTransaction
  <2>2. /\ Tail(queue) \in Seq(Packets)
        /\ Len(Tail(queue)) = Len(queue) - 1
        /\ \A k \in 1 .. Len(queue) - 1 : Tail(queue)[k] = queue[k + 1]
        /\ Head(queue) = queue[1]
        /\ Len(queue) \in Nat \ {0}
    BY <2>1
  <2>3. ASSUME NEW k \in DOMAIN Tail(queue)
        PROVE  /\ k \in 1 .. Len(queue) - 1
               /\ k + 1 \in DOMAIN queue
               /\ Tail(queue)[k] = queue[k + 1]
    BY <2>2
  <2>4. ASSUME NEW k \in DOMAIN Tail(queue), Tail(queue)[k].cmd = "flush"
        PROVE  /\ k + 1 \in DOMAIN Tail(queue)
               /\ FollowUp(Tail(queue)[k], Tail(queue)[k + 1])
    <3>1. k + 2 \in DOMAIN queue /\ FollowUp(queue[k + 1], queue[k + 2])
      BY <2>3, <2>4 DEF EvictionPaired
    <3>2. k + 1 \in 1 .. Len(queue) - 1
      BY <2>2, <2>3, <3>1
    <3> QED
      BY <2>2, <2>3, <3>1, <3>2
  <2>5. ASSUME Head(queue).cmd = "flush"
        PROVE  Tail(queue) # <<>> /\ FollowUp(Head(queue), Tail(queue)[1])
    <3>1. 1 + 1 \in DOMAIN queue /\ FollowUp(queue[1], queue[1 + 1])
      BY <2>2, <2>5 DEF EvictionPaired
    <3>2. 1 \in 1 .. Len(queue) - 1
      BY <2>2, <3>1
    <3>3. Tail(queue)[1] = queue[1 + 1]
      BY <2>2, <3>2
    <3>4. Tail(queue) # <<>>
      <4>1. Len(Tail(queue)) # 0
        BY <2>2, <3>2
      <4>2. Len(<<>>) = 0
        OBVIOUS
      <4> QED
        BY ONLY <4>1, <4>2
    <3> QED
      BY <2>2, <3>1, <3>3, <3>4
  <2> QED
    BY <1>2, <2>2, <2>3, <2>4, <2>5 DEF Remaining, ActivePacket, PacketsWellFormed
<1> QED
  BY <1>1, <1>2

-----------------------------------------------------------------------------
(***************************************************************************)
(* Initially: nothing is valid, queued or in progress.                     *)
(***************************************************************************)
LEMMA InitIInv == Init => IInv
<1> SUFFICES ASSUME Init PROVE IInv
  OBVIOUS
<1> USE SizesArePositive, ZeroIsAWord, LatencyIsNat DEF Init
<1>1. TypeOK
  <2>1. CacheTypeOK
    BY DEF CacheInit, CacheTypeOK, Tags, Offsets, MesiStates
  <2>2. MemoryTypeOK
    <3>1. 0 \in 0 .. Latency + BlockSize
      OBVIOUS
    <3>2. memory \in [Tags -> [Frames -> [Offsets -> Words]]]
      BY MeminIsAnImage, Zenon DEF MemoryInit
    <3> QED
      BY <3>1, <3>2 DEF MemoryInit, MemoryTypeOK
  <2>3. BusTypeOK
    BY DEF BusInit, BusTypeOK, ZeroPacket, Packet, Packets, Cores, Tags,
           Frames, Offsets, Commands, TransactionStates
  <2> QED
    BY <2>1, <2>2, <2>3 DEF TypeOK, BusTurn
<1>2. PacketsWellFormed
  BY DEF BusInit, PacketsWellFormed, ZeroPacket, Packet
<1>3. SenderIsBusy
  BY DEF BusInit, SenderIsBusy, ZeroPacket, Packet
<1>4. EvictionPaired
  BY DEF BusInit, EvictionPaired, ZeroPacket, Packet
<1>5. BurstInStep
  BY DEF BusInit, MemoryInit, BurstInStep
<1>6. SingleOwner
  BY DEF CacheInit, SingleOwner
<1> QED
  BY <1>1, <1>2, <1>3, <1>4, <1>5, <1>6 DEF IInv

-----------------------------------------------------------------------------
(***************************************************************************)
(* The steps of the cores.                                                 *)
(***************************************************************************)

\* A call that finds its core in a transaction, or is a read hit.
LEMMA QuietStep ==
  ASSUME IInv, NEW c \in Cores, CoreTurn(c),
         pending' \in [Cores -> Accesses \cup {NoAccess}],
         UNCHANGED <<cacheVars, memoryVars, busVars>>
  PROVE  IInv'
<1>1. turn' \in Cores \cup {BusTurn}
  BY SizesArePositive DEF CoreTurn, Cores, BusTurn
<1> QED
  BY <1>1
  DEF IInv, TypeOK, CacheTypeOK, MemoryTypeOK, BusTypeOK, PacketsWellFormed,
      SenderIsBusy, EvictionPaired, BurstInStep, SingleOwner, InTransfer,
      cacheVars, memoryVars, busVars

(***************************************************************************)
(* A store hit: its core is idle, so its frame is not in transfer, and no  *)
(* other cache holds the block.                                            *)
(***************************************************************************)
LEMMA WriteHitStep ==
  ASSUME IInv, NEW c \in Cores, NEW a \in Accesses, WriteHit(c, a)
  PROVE  IInv'
<1> USE DEF WriteHit, memoryVars, busVars
<1>1. a.index \in Frames /\ a.offset \in Offsets /\ a.data \in Words
  BY DEF Accesses
<1>2. TypeOK'
  <2>1. turn' \in Cores \cup {BusTurn}
    BY SizesArePositive DEF CoreTurn, Cores, BusTurn
  <2>2. pending' \in [Cores -> Accesses \cup {NoAccess}]
    BY DEF Accepted, IInv, TypeOK
  <2>3. CacheTypeOK'
    BY <1>1 DEF IInv, TypeOK, CacheTypeOK, MesiStates
  <2> QED
    BY <2>1, <2>2, <2>3 DEF IInv, TypeOK, MemoryTypeOK, BusTypeOK
<1>3. PacketsWellFormed' /\ SenderIsBusy' /\ EvictionPaired' /\ BurstInStep'
  BY DEF IInv, PacketsWellFormed, SenderIsBusy, EvictionPaired, BurstInStep
<1>4. SingleOwner'
  <2>1. \A e \in Cores : \A i \in Frames : InTransfer(e, i)' = InTransfer(e, i)
    BY DEF InTransfer
  <2>2. \A i \in Frames : ~InTransfer(c, i)
    BY DEF IInv, BusInTransaction, InTransfer, SenderIsBusy
  <2>3. /\ tag[c][a.index] = a.tag
        /\ mesi[c][a.index] \in {"exclusive", "modified"}
    BY <1>1 DEF Hits, Holds, IInv, TypeOK, CacheTypeOK, MesiStates
  <2>4. \A e \in Cores : \A i \in Frames :
          mesi'[e][i] = IF e = c /\ i = a.index THEN "modified" ELSE mesi[e][i]
    BY <1>1 DEF IInv, TypeOK, CacheTypeOK
  <2>5. SUFFICES ASSUME NEW e \in Cores, NEW d \in Cores, NEW i \in Frames,
                        e # d, tag[e][i] = tag[d][i],
                        mesi'[e][i] \in {"exclusive", "modified"},
                        ~InTransfer(e, i), ~InTransfer(d, i)
                 PROVE  mesi'[d][i] = "invalid"
    BY <2>1 DEF SingleOwner
  <2>6. mesi[e][i] \in {"exclusive", "modified"}
    BY <2>3, <2>4, <2>5
  <2>7. mesi[d][i] = "invalid"
    BY <2>5, <2>6 DEF IInv, SingleOwner
  <2>8. ~ (d = c /\ i = a.index)
    BY <2>3, <2>7
  <2> QED
    BY <2>4, <2>7, <2>8
<1> QED
  BY <1>2, <1>3, <1>4 DEF IInv

(***************************************************************************)
(* A request: the packets go to the end of the queue, an eviction's flush  *)
(* with its read behind it, and the core waits.                            *)
(***************************************************************************)
LEMMA RequestStep ==
  ASSUME IInv, NEW c \in Cores, ~BusInTransaction(c), CoreTurn(c),
         pending' \in [Cores -> Accesses \cup {NoAccess}],
         UNCHANGED <<cacheVars, memoryVars>>,
         NEW packets \in Seq(Packets),
         BusAddTransactions(c, packets),
         \A k \in DOMAIN packets :
           /\ packets[k].cmd = "none" <=> packets[k].origid = InvalidOriginator
           /\ packets[k].cmd = "flush" =>
                k + 1 \in DOMAIN packets /\ FollowUp(packets[k], packets[k + 1])
  PROVE  IInv'
<1> USE DEF cacheVars, memoryVars, BusAddTransactions
<1>1. turn' \in Cores \cup {BusTurn}
  BY SizesArePositive DEF CoreTurn, Cores, BusTurn
<1>2. TypeOK'
  BY <1>1 DEF IInv, TypeOK, CacheTypeOK, MemoryTypeOK, BusTypeOK,
              TransactionStates
<1> DEFINE n == Len(queue)
<1>3. /\ queue \in Seq(Packets) /\ n \in Nat /\ Len(packets) \in Nat
      /\ DOMAIN queue' = 1 .. n + Len(packets)
      /\ \A k \in 1 .. n : queue'[k] = queue[k]
      /\ \A k \in DOMAIN packets : queue'[n + k] = packets[k]
      /\ \A k \in DOMAIN queue' : k \in 1 .. n \/ k - n \in DOMAIN packets
  BY DEF IInv, TypeOK, BusTypeOK
<1>4. ASSUME NEW k \in DOMAIN queue'
      PROVE  /\ queue'[k].cmd = "none"
                  <=> queue'[k].origid = InvalidOriginator
             /\ queue'[k].cmd = "flush" =>
                  k + 1 \in DOMAIN queue' /\ FollowUp(queue'[k], queue'[k + 1])
  <2>1. CASE k \in 1 .. n
    <3>1. queue'[k].cmd = "flush" =>
            k + 1 \in 1 .. n /\ FollowUp(queue[k], queue[k + 1])
      BY <1>3, <2>1 DEF IInv, EvictionPaired
    <3> QED
      BY <1>3, <2>1, <3>1 DEF IInv, PacketsWellFormed
  <2>2. CASE k - n \in DOMAIN packets
    <3>1. queue'[k] = packets[k - n] /\ k = n + (k - n)
      BY <1>3, <2>2
    <3>2. queue'[k].cmd = "flush" =>
            /\ k - n + 1 \in DOMAIN packets
            /\ FollowUp(packets[k - n], packets[k - n + 1])
            /\ queue'[n + (k - n + 1)] = packets[k - n + 1]
            /\ n + (k - n + 1) = k + 1
      BY <1>3, <2>2, <3>1
    <3>3. queue'[k].cmd = "flush" => k + 1 \in DOMAIN queue'
      BY <1>3, <2>2, <3>2
    <3> QED
      BY <2>2, <3>1, <3>2, <3>3
  <2> QED
    BY <1>3, <1>4, <2>1, <2>2
<1>5. PacketsWellFormed' /\ EvictionPaired'
  <2>1. queue # <<>> => queue' # <<>> /\ queue'[1] = queue[1]
    BY <1>3
  <2> QED
    BY <1>4, <2>1 DEF IInv, PacketsWellFormed, EvictionPaired, FollowUp
<1>6. SenderIsBusy'
  <2>1. busInProgress \/ currentPacket.cmd = "flush" =>
          currentPacket.origid # c /\ currentPacket.origid \in Cores
    BY DEF IInv, BusInTransaction, SenderIsBusy, PacketsWellFormed
  <2> QED
    BY <2>1 DEF IInv, TypeOK, BusTypeOK, SenderIsBusy
<1>7. BurstInStep' /\ SingleOwner'
  BY DEF IInv, BurstInStep, SingleOwner, InTransfer
<1> QED
  BY <1>2, <1>5, <1>6, <1>7 DEF IInv

\* The two packets of an eviction or an upgrade, as one tuple.
LEMMA PairConcat ==
  ASSUME NEW S, NEW x \in S, NEW y \in S
  PROVE  <<x>> \o <<y>> = <<x, y>>
<1> DEFINE s == <<x>> \o <<y>>
           t == <<x, y>>
<1>1. s \in Seq(S) /\ Len(s) = 2 /\ s[1] = x /\ s[2] = y
  <2>1. <<x>> \in Seq(S) /\ <<y>> \in Seq(S) /\ Len(<<x>>) = 1 /\ Len(<<y>>) = 1
    OBVIOUS
  <2> QED
    BY <2>1, ConcatProperties
<1>2. t \in Seq(S) /\ Len(t) = 2 /\ t[1] = x /\ t[2] = y
  OBVIOUS
<1> HIDE DEF s, t
<1>3. \A k \in 1 .. Len(s) : s[k] = t[k]
  BY <1>1, <1>2
<1>4. s = t
  BY <1>1, <1>2, <1>3, SeqEqual
<1> QED
  BY <1>4 DEF s, t

\* An upgrade queues no flush, and its invalid packet names no core.
LEMMA WriteUpgradeStep ==
  ASSUME IInv, NEW c \in Cores, NEW a \in Accesses, WriteUpgrade(c, a)
  PROVE  IInv'
<1> DEFINE read    == Packet(c, "busRdX", a.tag, a.index, 0)
           packets == <<read, InvalidPacket>>
<1>1. read \in Packets /\ InvalidPacket \in Packets
  BY SizesArePositive, ZeroIsAWord
  DEF Packet, Packets, InvalidPacket, Accesses, Commands, Tags, Frames
<1>2. /\ packets \in Seq(Packets)
      /\ DOMAIN packets = {1, 2}
      /\ packets[1] = read /\ packets[2] = InvalidPacket
  BY <1>1
<1>3. c # InvalidOriginator
  BY SizesArePositive DEF Cores, InvalidOriginator
<1>4. \A k \in DOMAIN packets :
        /\ packets[k].cmd = "none" <=> packets[k].origid = InvalidOriginator
        /\ packets[k].cmd # "flush"
  BY <1>2, <1>3 DEF Packet, InvalidPacket
<1>5. pending' \in [Cores -> Accesses \cup {NoAccess}]
  BY DEF WriteUpgrade, Stalls, IInv, TypeOK
<1> HIDE DEF packets
<1>6. BusAddTransactions(c, packets)
  BY DEF WriteUpgrade, packets
<1> QED
  BY <1>2, <1>4, <1>5, <1>6, RequestStep DEF WriteUpgrade

\* A miss queues the read it needs, behind the flush of a dirty block.
LEMMA MissStep ==
  ASSUME IInv, NEW c \in Cores, NEW a \in Accesses, Miss(c, a)
  PROVE  IInv'
<1> DEFINE read    == Packet(c, MissCommand(a), a.tag, a.index, 0)
           packets == DirtyBlock(c, a) \o <<read>>
           flush   == Packet(c, "flush", tag[c][a.index], a.index,
                             dsram[c][a.index][a.offset])
<1>1. read \in Packets /\ flush \in Packets
  BY ZeroIsAWord
  DEF Packet, Packets, Accesses, Commands, MissCommand, IInv, TypeOK, CacheTypeOK
<1>2. c # InvalidOriginator /\ c \in Cores
  BY SizesArePositive DEF Cores, InvalidOriginator
<1>3. MissCommand(a) \in {"busRd", "busRdX"}
  BY DEF MissCommand
<1>4. /\ packets \in Seq(Packets)
      /\ \A k \in DOMAIN packets :
           /\ packets[k].cmd = "none" <=> packets[k].origid = InvalidOriginator
           /\ packets[k].cmd = "flush" =>
                k + 1 \in DOMAIN packets /\ FollowUp(packets[k], packets[k + 1])
  <2>1. CASE mesi[c][a.index] = "modified"
    <3>1. packets = <<flush, read>>
      <4>1. DirtyBlock(c, a) = <<flush>>
        BY <2>1 DEF DirtyBlock
      <4> HIDE DEF flush, read
      <4>2. <<flush>> \o <<read>> = <<flush, read>>
        BY <1>1, PairConcat
      <4> QED
        BY <4>1, <4>2
    <3>2. FollowUp(flush, read)
      BY <1>3 DEF FollowUp, Packet
    <3>3. /\ <<flush, read>> \in Seq(Packets)
          /\ DOMAIN <<flush, read>> = {1, 2}
          /\ <<flush, read>>[1] = flush /\ <<flush, read>>[2] = read
      BY <1>1
    <3>4. /\ flush.origid = c /\ flush.cmd = "flush"
          /\ read.origid = c /\ read.cmd \notin {"none", "flush"}
      BY <1>3 DEF Packet
    <3> HIDE DEF packets, flush, read
    <3> QED
      BY <1>2, <3>1, <3>2, <3>3, <3>4
  <2>2. CASE mesi[c][a.index] # "modified"
    <3>1. packets = <<read>>
      <4>1. DirtyBlock(c, a) = <<>>
        BY <2>2 DEF DirtyBlock
      <4> HIDE DEF read
      <4>2. <<>> \o <<read>> = <<read>>
        BY <1>1
      <4> QED
        BY <4>1, <4>2
    <3>2. /\ read.origid = c /\ read.cmd \notin {"none", "flush"}
      BY <1>3 DEF Packet
    <3>3. <<read>> \in Seq(Packets) /\ DOMAIN <<read>> = {1} /\ <<read>>[1] = read
      BY <1>1
    <3> HIDE DEF packets, read
    <3> QED
      BY <1>2, <3>1, <3>2, <3>3
  <2> QED
    BY <2>1, <2>2
<1>5. pending' \in [Cores -> Accesses \cup {NoAccess}]
  BY DEF Miss, Stalls, IInv, TypeOK
<1> HIDE DEF packets
<1>6. BusAddTransactions(c, packets)
  BY DEF Miss, packets
<1> QED
  BY <1>4, <1>5, <1>6, RequestStep DEF Miss

-----------------------------------------------------------------------------
(***************************************************************************)
(* The iterations of the bus that move no transaction on.                  *)
(***************************************************************************)
\* If no read of a core is next on the bus, its last packet was no flush.
LEMMA NoTransferBetween ==
  ASSUME IInv, ~busInProgress,
         queue # <<>> => Head(queue).origid = InvalidOriginator
  PROVE  currentPacket.cmd # "flush"
<1> SUFFICES ASSUME currentPacket.cmd = "flush" PROVE FALSE
  OBVIOUS
<1>1. /\ queue # <<>> /\ queue[1].origid = currentPacket.origid
      /\ currentPacket.origid \in Cores
  BY DEF IInv, EvictionPaired, FollowUp, PacketsWellFormed
<1>2. Head(queue) = queue[1]
  BY <1>1 DEF IInv, TypeOK, BusTypeOK
<1>3. InvalidOriginator \notin Cores
  BY SizesArePositive DEF Cores, InvalidOriginator
<1> QED
  BY <1>1, <1>2, <1>3

\* The release at the head of Bus_Iter keeps the type of the states.
LEMMA ReleasedType ==
  ASSUME IInv
  PROVE  Released \in [Cores -> TransactionStates]
  BY DEF IInv, TypeOK, BusTypeOK, Released, TransactionStates

\* An iteration with an empty queue only releases a core.
LEMMA BusIdleStep ==
  ASSUME IInv, BusIdle, turn' \in Cores \cup {BusTurn}, UNCHANGED pending
  PROVE  IInv'
<1> USE DEF BusIdle, cacheVars, memoryVars
<1>1. currentPacket.cmd # "flush"
  BY NoTransferBetween
<1>2. /\ currentPacket' \in Packets
      /\ currentPacket'.cmd = currentPacket.cmd
  BY DEF IInv, TypeOK, BusTypeOK, Packets
<1>3. TypeOK'
  BY <1>2, ReleasedType
  DEF IInv, TypeOK, CacheTypeOK, MemoryTypeOK, BusTypeOK
<1>4. PacketsWellFormed' /\ SenderIsBusy' /\ EvictionPaired' /\ BurstInStep'
  BY <1>1, <1>2
  DEF IInv, PacketsWellFormed, SenderIsBusy, EvictionPaired, BurstInStep
<1>5. SingleOwner'
  BY <1>1 DEF IInv, SingleOwner, InTransfer
<1> QED
  BY <1>3, <1>4, <1>5 DEF IInv

\* The invalid packet is dequeued while no frame is in transfer.
LEMMA BusGapStep ==
  ASSUME IInv, BusGap, turn' \in Cores \cup {BusTurn}, UNCHANGED pending
  PROVE  IInv'
<1> USE DEF BusGap, BusOperates, cacheVars, memoryVars
<1>1. currentPacket.cmd # "flush"
  BY NoTransferBetween
<1>2. /\ queue' = Tail(queue) /\ currentPacket' = Head(queue)
      /\ Head(queue) = queue[1] /\ 1 \in DOMAIN queue
      /\ Tail(queue) \in Seq(Packets) /\ Head(queue) \in Packets
      /\ Len(queue) \in Nat \ {0}
      /\ Len(Tail(queue)) = Len(queue) - 1
      /\ \A k \in 1 .. Len(queue) - 1 : Tail(queue)[k] = queue[k + 1]
  BY DEF ActivePacket, Remaining, IInv, TypeOK, BusTypeOK
<1>3. currentPacket'.cmd = "none"
  BY <1>2 DEF IInv, PacketsWellFormed
<1>4. TypeOK'
  BY <1>2, ReleasedType
  DEF IInv, TypeOK, CacheTypeOK, MemoryTypeOK, BusTypeOK
<1>5. ASSUME NEW k \in DOMAIN queue'
      PROVE  /\ k \in 1 .. Len(queue) - 1
             /\ k + 1 \in DOMAIN queue
             /\ queue'[k] = queue[k + 1]
  BY <1>2
<1>6. ASSUME NEW k \in DOMAIN queue', queue'[k].cmd = "flush"
      PROVE  k + 1 \in DOMAIN queue' /\ FollowUp(queue'[k], queue'[k + 1])
  <2>1. k + 2 \in DOMAIN queue /\ FollowUp(queue[k + 1], queue[k + 2])
    BY <1>5, <1>6 DEF IInv, EvictionPaired
  <2>2. k + 1 \in 1 .. Len(queue) - 1
    BY <1>2, <1>5, <2>1
  <2> QED
    BY <1>2, <1>5, <2>1, <2>2
<1>7. EvictionPaired'
  BY <1>3, <1>6 DEF EvictionPaired, FollowUp
<1>8. PacketsWellFormed' /\ SenderIsBusy' /\ BurstInStep'
  BY <1>3, <1>5 DEF IInv, PacketsWellFormed, SenderIsBusy, BurstInStep
<1>9. SingleOwner'
  BY <1>1, <1>3 DEF IInv, SingleOwner, InTransfer
<1> QED
  BY <1>4, <1>7, <1>8, <1>9 DEF IInv

-----------------------------------------------------------------------------
(***************************************************************************)
(* The iterations of a transaction. First what all of them do to the bus.  *)
(***************************************************************************)

\* The bus stays with the sender, or the transaction is over.
Continues == busInProgress' = TRUE /\ transactionState' = Granted

Ends ==
  /\ busInProgress' = FALSE
  /\ transactionState' = [Granted EXCEPT ![ActivePacket.origid] = "finally"]

\* Both ways an iteration leaves the bus keep packets, sender and queue in order.
LEMMA IterationKeepsOrder ==
  ASSUME IInv, InTransaction, BusOperates, Continues \/ Ends
  PROVE  /\ queue' \in Seq(Packets) /\ currentPacket' \in Packets
         /\ transactionState' \in [Cores -> TransactionStates]
         /\ PacketsWellFormed' /\ SenderIsBusy' /\ EvictionPaired'
<1> USE DEF BusOperates, Continues, Ends
<1>1. transactionState' \in [Cores -> TransactionStates]
  BY TransactionStays DEF TransactionStates
<1>2. PacketsWellFormed'
  BY ActivePacketFacts, RemainingIsPaired DEF PacketsWellFormed
<1>3. SenderIsBusy'
  BY ActivePacketFacts, TransactionStays DEF SenderIsBusy
<1>4. EvictionPaired'
  BY RemainingIsPaired DEF EvictionPaired, FollowUp
<1> QED
  BY <1>1, <1>2, <1>3, <1>4, ActivePacketFacts, RemainingIsPaired

(***************************************************************************)
(* As long as the frame stays in transfer, taking rights away from other   *)
(* lines and changing that frame keep the single owner.                    *)
(***************************************************************************)
LEMMA TransferKeepsOwner ==
  ASSUME IInv, InTransaction, BusOperates,
         busInProgress' \/ ActivePacket.cmd = "flush",
         \A c \in Cores : \A i \in Frames :
           \/ c = ActivePacket.origid /\ i = ActivePacket.index
           \/ /\ tag'[c][i] = tag[c][i]
              /\ mesi'[c][i] \in {"exclusive", "modified"} =>
                   mesi'[c][i] = mesi[c][i]
              /\ mesi[c][i] = "invalid" => mesi'[c][i] = "invalid"
  PROVE  SingleOwner'
<1>1. ASSUME NEW c \in Cores, NEW i \in Frames, ~InTransfer(c, i)'
      PROVE  /\ ~ (c = ActivePacket.origid /\ i = ActivePacket.index)
             /\ ~InTransfer(c, i)
  BY <1>1, InTransferIsActive DEF InTransfer, BusOperates
<1> QED
  BY <1>1 DEF SingleOwner, IInv

\* The count and the offset an iteration works with are in step.
LEMMA CountAndOffset ==
  ASSUME IInv, InTransaction, NEW direct \in BOOLEAN
  PROVE  /\ CountNow(direct) \in 0 .. LastCount
         /\ ActiveOffset = IF CountNow(direct) > Latency
                           THEN CountNow(direct) - Latency ELSE 0
<1> USE LatencyIsNat, SizesArePositive
<1>1. /\ counter \in Nat
      /\ memoryTransaction => busInProgress
      /\ busInProgress => addressOffset \in 0 .. LastOffset
  BY DEF IInv, TypeOK, MemoryTypeOK, BusTypeOK, BurstInStep, Offsets, LastOffset
<1>2. LastOffset \in Nat
  BY DEF LastOffset
<1>3. CASE memoryTransaction
  <2>1. addressOffset = IF counter > Latency THEN counter - Latency ELSE 0
    BY <1>1, <1>3 DEF IInv, BurstInStep
  <2>2. counter <= Latency + LastOffset
    BY <1>1, <1>2, <1>3, <2>1
  <2> QED
    BY <1>1, <1>3, <2>1, <2>2 DEF CountNow, ActiveOffset, LastCount
<1>4. CASE ~memoryTransaction
  <2>1. ActiveOffset = 0
    BY <1>4 DEF ActiveOffset, IInv, BurstInStep
  <2> QED
    BY <1>2, <1>4, <2>1 DEF CountNow, LastCount
<1> QED
  BY <1>3, <1>4

\* is_modified is true or false, so CountAndOffset applies to it.
LEMMA ModifiedLineIsBoolean == ModifiedLine(ActivePacket) \in BOOLEAN
  BY DEF ModifiedLine

\* The iteration a modified line costs moves neither word nor state.
LEMMA BusYieldStep ==
  ASSUME IInv, BusYield, turn' \in Cores \cup {BusTurn}, UNCHANGED pending
  PROVE  IInv'
<1> USE DEF BusYield, BusKeeps, cacheVars, memoryVars
<1>1. Continues
  BY DEF Continues
<1>2. TypeOK'
  BY <1>1, IterationKeepsOrder, ActivePacketFacts
  DEF IInv, TypeOK, CacheTypeOK, MemoryTypeOK, BusTypeOK
<1>3. BurstInStep'
  BY DEF IInv, BurstInStep, ActiveOffset
<1>4. SingleOwner'
  BY TransferKeepsOwner
<1> QED
  BY <1>1, <1>2, <1>3, <1>4, IterationKeepsOrder DEF IInv

\* While the memory counts, snooping only lowers lines of other cores.
LEMMA BusWaitStep ==
  ASSUME IInv, BusWait, turn' \in Cores \cup {BusTurn}, UNCHANGED pending
  PROVE  IInv'
<1> DEFINE direct == ModifiedLine(ActivePacket)
<1> USE DEF BusWait, BusKeeps
<1>1. Continues
  BY DEF Continues
<1>2. /\ CountNow(direct) \in Nat /\ CountNow(direct) < Latency
      /\ counter' = CountNow(direct) + 1
      /\ memoryTransaction' = TRUE
      /\ ActiveOffset = 0
  <2>1. CountNow(direct) \in 0 .. LastCount
    BY CountAndOffset, ModifiedLineIsBoolean
  <2>2. ~ (CountNow(direct) >= Latency)
    BY DEF MemoryResponds
  <2> HIDE DEF direct
  <2>3. CountNow(direct) < Latency /\ CountNow(direct) # LastCount
    BY <2>1, <2>2, LatencyIsNat, SizesArePositive DEF LastCount, LastOffset
  <2>4. ActiveOffset = 0
    BY <2>1, <2>3, CountAndOffset, ModifiedLineIsBoolean, LatencyIsNat DEF direct
  <2>5. MemoryCounts(direct)
    BY DEF direct
  <2>6. counter' = CountNow(direct) + 1 /\ memoryTransaction' = TRUE
    BY <2>3, <2>5, Zenon DEF MemoryCounts
  <2> QED
    BY <2>1, <2>3, <2>4, <2>6
<1>3. /\ mesi' \in [Cores -> [Frames -> MesiStates]]
      /\ \A c \in Cores : \A i \in Frames :
           /\ mesi'[c][i] \in {"exclusive", "modified"} =>
                mesi'[c][i] = mesi[c][i]
           /\ mesi[c][i] = "invalid" => mesi'[c][i] = "invalid"
  BY MesiAfterSnoopLowers, ActivePacketFacts DEF IInv, TypeOK
<1>4. TypeOK'
  <2>1. counter' \in 0 .. Latency + BlockSize
    BY <1>2, LatencyIsNat, SizesArePositive
  <2>2. CacheTypeOK'
    BY <1>3 DEF IInv, TypeOK, CacheTypeOK
  <2>3. MemoryTypeOK'
    BY <1>2, <2>1 DEF IInv, TypeOK, MemoryTypeOK
  <2>4. BusTypeOK'
    BY <1>1, IterationKeepsOrder, ActivePacketFacts DEF BusTypeOK
  <2> QED
    BY <2>2, <2>3, <2>4 DEF IInv, TypeOK
<1>5. BurstInStep'
  BY <1>2, LatencyIsNat DEF BurstInStep
<1>6. SingleOwner'
  BY <1>3, TransferKeepsOwner
<1> QED
  BY <1>1, <1>4, <1>5, <1>6, IterationKeepsOrder DEF IInv

(***************************************************************************)
(* What a word on the bus does to the caches: snooping everywhere, and the *)
(* answer in the sender's frame.                                           *)
(***************************************************************************)
LEMMA RespondEffect ==
  ASSUME CacheTypeOK, NEW p \in Packets, p.origid \in Cores,
         NEW offset \in Offsets, NEW word \in Words, NEW isShared \in BOOLEAN,
         Respond(p, offset, word, isShared)
  PROVE  /\ CacheTypeOK'
         /\ \A c \in Cores : \A i \in Frames :
              IF c = p.origid /\ i = p.index
              THEN /\ tag'[c][i] = p.tag
                   /\ offset = LastOffset =>
                        mesi'[c][i] = IF isShared THEN "shared" ELSE "exclusive"
              ELSE /\ tag'[c][i] = tag[c][i]
                   /\ mesi'[c][i] = MesiAfterSnoop(p, offset)[c][i]
<1>1. p.index \in Frames /\ p.tag \in Tags
  BY DEF Packets
<1> DEFINE snooped == MesiAfterSnoop(p, offset)
           filled  == IF isShared THEN "shared" ELSE "exclusive"
<1>2. snooped \in [Cores -> [Frames -> MesiStates]] /\ filled \in MesiStates
  BY MesiAfterSnoopLowers DEF MesiStates
<1>3. /\ tag'   = [tag EXCEPT ![p.origid][p.index] = p.tag]
      /\ dsram' = [dsram EXCEPT ![p.origid][p.index][offset] = word]
      /\ mesi'  = IF offset = LastOffset
                  THEN [snooped EXCEPT ![p.origid][p.index] = filled]
                  ELSE snooped
  BY Zenon DEF Respond
<1> HIDE DEF snooped, filled
<1>4. tag' \in [Cores -> [Frames -> Tags]]
  BY <1>1, <1>3 DEF CacheTypeOK
<1>5. mesi' \in [Cores -> [Frames -> MesiStates]]
  BY <1>1, <1>2, <1>3
<1>6. dsram' \in [Cores -> [Frames -> [Offsets -> Words]]]
  BY <1>1, <1>3 DEF CacheTypeOK
<1>7. ASSUME NEW c \in Cores, NEW i \in Frames
      PROVE  /\ tag'[c][i] = IF c = p.origid /\ i = p.index
                             THEN p.tag ELSE tag[c][i]
             /\ mesi'[c][i] = IF c = p.origid /\ i = p.index /\ offset = LastOffset
                              THEN filled ELSE snooped[c][i]
  BY <1>1, <1>2, <1>3 DEF CacheTypeOK
<1> QED
  BY <1>4, <1>5, <1>6, <1>7 DEF CacheTypeOK, snooped, filled

(***************************************************************************)
(* A read that is over has left no exclusive copy of its block elsewhere:  *)
(* a cache that sees the read gives the copy up or shares it, and one that *)
(* sees the flush of an owner before it had none to begin with.            *)
(***************************************************************************)
LEMMA ReadLeavesNoOtherOwner ==
  ASSUME IInv, NEW p \in Packets, p.cmd \in {"busRd", "busRdX"},
         \A c \in Cores : \A i \in Frames : InTransfer(c, i) => c = p.origid,
         NEW d \in Cores, d # p.origid, tag[d][p.index] = p.tag
  PROVE  /\ MesiAfterSnoop(p, LastOffset)[d][p.index]
              \notin {"exclusive", "modified"}
         /\ ~SharedLine(p) =>
              MesiAfterSnoop(p, LastOffset)[d][p.index] = "invalid"
<1>1. /\ p.index \in Frames /\ p.cmd \in Commands
      /\ LastOffset \in Offsets
      /\ CacheTypeOK
      /\ mesi[d][p.index] \in MesiStates
  BY SizesArePositive
  DEF Packets, IInv, TypeOK, CacheTypeOK, LastOffset, Offsets
<1>2. CASE mesi[d][p.index] = "invalid"
  BY <1>1, <1>2, MesiAfterSnoopLowers
<1>3. CASE mesi[d][p.index] # "invalid"
  <2>1. Holds(d, p.tag, p.index) /\ Snoops(d, p)
    BY <1>3 DEF Holds, Snoops
  <2>2. SharedLine(p)
    BY <2>1 DEF SharedLine
  <2>3. Owners(p) \cap {e \in Cores : e # d} = {}
    <3>1. SUFFICES ASSUME NEW e \in Owners(p), e # d PROVE FALSE
      OBVIOUS
    <3>2. /\ e \in Cores /\ e # p.origid /\ tag[e][p.index] = p.tag
          /\ mesi[e][p.index] = "modified"
      BY <3>1 DEF Owners, Holds
    <3>3. mesi[d][p.index] = "invalid"
      BY <1>1, <3>1, <3>2 DEF IInv, SingleOwner
    <3> QED
      BY <1>3, <3>3
  <2>4. CmdSeenBy(d, p) = p.cmd
    BY <2>3 DEF CmdSeenBy, Owners, Cores
  <2>5. MesiAfterSnoop(p, LastOffset)[d][p.index]
          = SnoopingSM(mesi[d][p.index], p.cmd)
    BY <1>1, <2>1, <2>4 DEF MesiAfterSnoop, SnoopedMesi, CacheTypeOK
  <2> QED
    BY <1>1, <2>2, <2>5, SnoopingSMLowers
<1> QED
  BY <1>2, <1>3

\* A word: with the last one the sender becomes owner only if it is alone.
LEMMA BusWordStep ==
  ASSUME IInv, BusWord, turn' \in Cores \cup {BusTurn}, UNCHANGED pending
  PROVE  IInv'
<1> DEFINE p      == ActivePacket
           offset == ActiveOffset
           direct == ModifiedLine(p)
           count  == CountNow(direct)
           word   == WordOnBus(p, offset)
<1>1. /\ InTransaction /\ BusOperates
      /\ Respond(p, offset, word, SharedLine(p))
      /\ MemoryStores(p.tag, p.index, offset, word)
      /\ MemoryCounts(direct)
      /\ MemoryResponds(direct)
      /\ isFirstShared' = MayYield
  BY DEF BusWord
<1>2. \/ offset # LastOffset /\ Continues /\ addressOffset' = offset + 1
      \/ offset = LastOffset /\ Ends /\ addressOffset' = offset
  BY DEF BusWord, BusKeeps, Continues, Ends
<1>3. /\ p \in Packets /\ p.origid \in Cores
      /\ p.cmd \in {"busRd", "busRdX", "flush"}
      /\ offset \in Offsets /\ MayYield \in BOOLEAN
  BY <1>1, ActivePacketFacts
<1>4. word \in Words /\ direct \in BOOLEAN /\ SharedLine(p) \in BOOLEAN
  BY <1>3, WordOnBusIsAWord, ModifiedLineIsBoolean DEF IInv, TypeOK, SharedLine
<1>5. /\ count \in 0 .. LastCount /\ count >= Latency
      /\ offset = IF count > Latency THEN count - Latency ELSE 0
      /\ counter' = count + 1
      /\ memoryTransaction' = (count # LastCount)
  BY <1>1, <1>4, CountAndOffset, Zenon DEF MemoryResponds, MemoryCounts
<1> HIDE DEF p, offset, direct, count, word
<1>6. /\ CacheTypeOK'
      /\ \A c \in Cores : \A i \in Frames :
           IF c = p.origid /\ i = p.index
           THEN /\ tag'[c][i] = p.tag
                /\ offset = LastOffset =>
                     mesi'[c][i] = IF SharedLine(p) THEN "shared" ELSE "exclusive"
           ELSE /\ tag'[c][i] = tag[c][i]
                /\ mesi'[c][i] = MesiAfterSnoop(p, offset)[c][i]
  <2> DEFINE isShared == SharedLine(p)
  <2>1. Respond(p, offset, word, isShared) /\ isShared \in BOOLEAN /\ CacheTypeOK
    BY <1>1, <1>4 DEF IInv, TypeOK
  <2> HIDE DEF isShared
  <2>2. /\ CacheTypeOK'
        /\ \A c \in Cores : \A i \in Frames :
             IF c = p.origid /\ i = p.index
             THEN /\ tag'[c][i] = p.tag
                  /\ offset = LastOffset =>
                       mesi'[c][i] = IF isShared THEN "shared" ELSE "exclusive"
             ELSE /\ tag'[c][i] = tag[c][i]
                  /\ mesi'[c][i] = MesiAfterSnoop(p, offset)[c][i]
    BY <1>3, <1>4, <2>1, RespondEffect
  <2> QED
    BY <2>2 DEF isShared
<1>7. TypeOK'
  <2>1. MemoryTypeOK'
    <3>1. counter' \in 0 .. Latency + BlockSize
      BY <1>5, LatencyIsNat, SizesArePositive DEF LastCount, LastOffset
    <3>2. memory' \in [Tags -> [Frames -> [Offsets -> Words]]]
      BY <1>1, <1>3, <1>4 DEF MemoryStores, IInv, TypeOK, MemoryTypeOK, Packets
    <3>3. memoryTransaction' \in BOOLEAN
      BY <1>5
    <3> QED
      BY <3>1, <3>2, <3>3 DEF MemoryTypeOK
  <2>2. BusTypeOK'
    <3>1. addressOffset' \in Offsets
      BY <1>2, <1>3, SizesArePositive DEF Offsets, LastOffset
    <3>2. busInProgress' \in BOOLEAN
      BY <1>2 DEF Continues, Ends
    <3> QED
      BY <1>1, <1>2, <1>3, <3>1, <3>2, IterationKeepsOrder DEF BusTypeOK
  <2> QED
    BY <1>6, <2>1, <2>2 DEF TypeOK, IInv
<1>8. PacketsWellFormed' /\ SenderIsBusy' /\ EvictionPaired'
  BY <1>1, <1>2, IterationKeepsOrder
<1>9. BurstInStep'
  <2>1. CASE offset # LastOffset
    <3>1. /\ busInProgress' /\ addressOffset' = offset + 1
      BY <1>2, <2>1 DEF Continues
    <3>2. counter' > Latency /\ counter' - Latency = offset + 1
      BY <1>5, LatencyIsNat, SizesArePositive DEF LastCount, LastOffset
    <3>3. count # LastCount
      BY <1>5, <2>1, LatencyIsNat, SizesArePositive DEF LastCount, LastOffset
    <3>4. memoryTransaction'
      BY <1>5, <3>3, Zenon
    <3> QED
      BY <3>1, <3>2, <3>4 DEF BurstInStep
  <2>2. CASE offset = LastOffset
    <3>1. ~busInProgress'
      BY <1>2, <2>2 DEF Ends
    <3>2. count = LastCount
      BY <1>5, <2>2, LatencyIsNat, SizesArePositive DEF LastCount, LastOffset
    <3>3. ~memoryTransaction'
      BY <1>5, <3>2, Zenon
    <3> QED
      BY <3>1, <3>3 DEF BurstInStep
  <2> QED
    BY <2>1, <2>2
<1>10. \A c \in Cores : \A i \in Frames :
         LET s == MesiAfterSnoop(p, offset)[c][i]
         IN  /\ s \in {"exclusive", "modified"} => s = mesi[c][i]
             /\ mesi[c][i] = "invalid" => s = "invalid"
             /\ i # p.index => s = mesi[c][i]
  BY <1>3, MesiAfterSnoopLowers, Zenon DEF IInv, TypeOK
<1>11. SingleOwner'
  <2>1. CASE offset # LastOffset \/ p.cmd = "flush"
    <3>1. busInProgress' \/ p.cmd = "flush"
      BY <1>2, <2>1 DEF Continues
    <3> QED
      BY <1>1, <1>6, <1>10, <3>1, TransferKeepsOwner DEF p
  <2>2. CASE offset = LastOffset /\ p.cmd \in {"busRd", "busRdX"}
    <3>1. \A c \in Cores : \A i \in Frames :
            InTransfer(c, i) => c = p.origid /\ i = p.index
      BY <1>1, InTransferIsActive DEF p
    <3>2. SUFFICES ASSUME NEW c \in Cores, NEW d \in Cores, NEW i \in Frames,
                          c # d, tag'[c][i] = tag'[d][i],
                          mesi'[c][i] \in {"exclusive", "modified"}
                   PROVE  mesi'[d][i] = "invalid"
      BY DEF SingleOwner
    <3>3. CASE c = p.origid /\ i = p.index
      <4>1. ~SharedLine(p) /\ tag'[c][i] = p.tag
        BY <1>6, <2>2, <3>2, <3>3
      <4>2. /\ tag[d][i] = p.tag
            /\ mesi'[d][i] = MesiAfterSnoop(p, LastOffset)[d][p.index]
        BY <1>6, <2>2, <3>2, <3>3, <4>1
      <4> QED
        BY <1>3, <2>2, <3>1, <3>2, <3>3, <4>1, <4>2, ReadLeavesNoOtherOwner
    <3>4. CASE d = p.origid /\ i = p.index
      <4>1. /\ tag[c][i] = p.tag
            /\ mesi'[c][i] = MesiAfterSnoop(p, LastOffset)[c][p.index]
        BY <1>6, <2>2, <3>2, <3>4
      <4>2. mesi'[c][i] \notin {"exclusive", "modified"}
        BY <1>3, <2>2, <3>1, <3>2, <3>4, <4>1, ReadLeavesNoOtherOwner
      <4> QED
        BY <3>2, <4>2
    <3>5. CASE ~ (c = p.origid /\ i = p.index) /\ ~ (d = p.origid /\ i = p.index)
      <4>1. /\ tag[c][i] = tag[d][i]
            /\ mesi[c][i] \in {"exclusive", "modified"}
        BY <1>6, <1>10, <3>2, <3>5
      <4>2. mesi[d][i] = "invalid"
        BY <3>1, <3>2, <3>5, <4>1 DEF IInv, SingleOwner
      <4> QED
        BY <1>6, <1>10, <3>5, <4>2
    <3> QED
      BY <3>3, <3>4, <3>5
  <2> QED
    BY <1>3, <2>1, <2>2
<1> QED
  BY <1>7, <1>8, <1>9, <1>11 DEF IInv

-----------------------------------------------------------------------------
(***************************************************************************)
(* The theorems.                                                           *)
(***************************************************************************)
\* Every step of the main loop keeps the inductive invariant.
\* A call of the cache of core c, in whatever program.
CallsCache(c, a) ==
  \/ CoreWait(c, a)
  \/ ReadHit(c, a)
  \/ WriteHit(c, a)
  \/ WriteUpgrade(c, a)
  \/ Miss(c, a)

LEMMA CallKeepsIInv ==
  ASSUME IInv, NEW c \in Cores, NEW a \in Accesses, CallsCache(c, a)
  PROVE  IInv'
<1>1. CASE CoreWait(c, a)
  <2>1. pending' \in [Cores -> Accesses \cup {NoAccess}]
    BY <1>1 DEF CoreWait, Stalls, IInv, TypeOK
  <2> QED
    BY <1>1, <2>1, QuietStep DEF CoreWait
<1>2. CASE ReadHit(c, a)
  <2>1. pending' \in [Cores -> Accesses \cup {NoAccess}]
    BY <1>2 DEF ReadHit, Accepted, IInv, TypeOK
  <2> QED
    BY <1>2, <2>1, QuietStep DEF ReadHit
<1> QED
  BY <1>1, <1>2, WriteHitStep, WriteUpgradeStep, MissStep DEF CallsCache

LEMMA BusKeepsIInv ==
  ASSUME IInv, BusStep
  PROVE  IInv'
<1>1. turn' \in Cores \cup {BusTurn} /\ UNCHANGED pending
  BY SizesArePositive DEF BusStep, Cores
<1> QED
  BY <1>1, BusIdleStep, BusGapStep, BusYieldStep, BusWaitStep, BusWordStep
  DEF BusStep, BusIter

LEMMA NextKeepsIInv == IInv /\ [Next]_vars => IInv'
<1> SUFFICES ASSUME IInv, [Next]_vars PROVE IInv'
  OBVIOUS
<1>1. ASSUME NEW c \in Cores, CoreIdle(c) PROVE IInv'
  BY <1>1, QuietStep DEF CoreIdle, IInv, TypeOK
<1>2. ASSUME NEW c \in Cores, CoreAccess(c) PROVE IInv'
  <2>1. PICK a \in Accesses : CallsCache(c, a)
    BY <1>2, WorkloadIsAccesses DEF CoreAccess, CallsCache
  <2> QED
    BY <2>1, CallKeepsIInv
<1>3. CASE UNCHANGED vars
  BY <1>3
  DEF IInv, TypeOK, CacheTypeOK, MemoryTypeOK, BusTypeOK, PacketsWellFormed,
      SenderIsBusy, EvictionPaired, BurstInStep, SingleOwner, InTransfer,
      vars, cacheVars, memoryVars, busVars
<1> QED
  BY <1>1, <1>2, <1>3, BusKeepsIInv DEF Next

(***************************************************************************)
(* The inductive invariant holds in every state of the memory system.      *)
(***************************************************************************)
THEOREM InductiveInvariant == Spec => []IInv
  BY InitIInv, NextKeepsIInv, PTL DEF Spec

(***************************************************************************)
(* Every variable keeps its type: no index, offset or count of the code    *)
(* runs out of its array or past the end of a block.                       *)
(***************************************************************************)
THEOREM TypeCorrect == Spec => []TypeOK
<1>1. IInv => TypeOK
  BY DEF IInv
<1> QED
  BY <1>1, InductiveInvariant, PTL

(***************************************************************************)
(* MESI: a block one cache holds exclusive or modified is valid in no      *)
(* other, whatever the cores do and in whatever order.                     *)
(***************************************************************************)
THEOREM SingleOwnerAlways == Spec => []SingleOwner
<1>1. IInv => SingleOwner
  BY DEF IInv
<1> QED
  BY <1>1, InductiveInvariant, PTL

(***************************************************************************)
(* A flush is followed by the read of the same core for the same frame.    *)
(***************************************************************************)
THEOREM EvictionsStayPaired == Spec => []EvictionPaired
<1>1. IInv => EvictionPaired
  BY DEF IInv
<1> QED
  BY <1>1, InductiveInvariant, PTL

(***************************************************************************)
(* The memory's count and the bus's offset never drift apart.              *)
(***************************************************************************)
THEOREM BurstsInStep == Spec => []BurstInStep
<1>1. IInv => BurstInStep
  BY DEF IInv
<1> QED
  BY <1>1, InductiveInvariant, PTL
=============================================================================
