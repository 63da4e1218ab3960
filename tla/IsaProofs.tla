------------------------------ MODULE IsaProofs ------------------------------
(***************************************************************************)
(* The pipeline implements Isa (ImplementsIsaUnlessStrayed), for every     *)
(* program and any refusals of the data memory. A cycle the memory refuses *)
(* leaves the addresses to execute as they are; one it accepts removes the *)
(* first of them, and moves what follows each instruction along with it.   *)
(* As in PipelineProofs the lemmas about a cycle speak of one core.        *)
(***************************************************************************)
EXTENDS PipelineProofs

\* Core c has followed its program so far.
Follows(c) ==
  /\ PipelineTypeOK
  /\ haltAt \in [Cores -> Nat \X Nat]
  /\ InstructionsInOrder(c)
  /\ Following(c)
  /\ InProgramOrder(c)

\* A cycle in which it goes on to do so.
FollowsOn(c, word) ==
  /\ Cycles(c, word)
  /\ ~Slips(c, ~memoryStall'[c])
  /\ ~ReadsStale(c)
  /\ ~FetchesNoPc(c)
  /\ haltAt' = IF Halts(c)
               THEN [haltAt EXCEPT ![c] = <<stage[c]["decode"].pc, pc[c]>>]
               ELSE haltAt

-----------------------------------------------------------------------------
(***************************************************************************)
(* What a cycle does to FETCH, DECODE and the program counter.             *)
(***************************************************************************)
LEMMA FollowsFacts ==
  ASSUME NEW c \in Cores, Follows(c)
  PROVE  /\ \A s \in Stages : stage[c][s] \in StageRecords
         /\ pc[c] \in Pcs /\ regs[c] \in [Registers -> Values]
         /\ {halted[c], memoryStall[c]} \subseteq BOOLEAN
         /\ OperationsDecoded(c) /\ HazardFree(c) /\ HaltEmpties(c)
         /\ HaltIsLast(c) /\ BranchesUpToDate(c) /\ RewritesSame(c)
         /\ HoldsProgram(c) /\ FillsInOrder(c) /\ FollowsBranches(c)
         /\ HoldsResults(c) /\ RemembersHalt(c)
<1>1. \A s \in Stages : stage[c][s] \in StageRecords
  BY StagesAreRecords DEF Follows
<1>2. /\ pc[c] \in Pcs /\ regs[c] \in [Registers -> Values]
      /\ {halted[c], memoryStall[c]} \subseteq BOOLEAN
  BY DEF Follows, PipelineTypeOK
<1> QED
  BY <1>1, <1>2 DEF Follows, InstructionsInOrder, Following, InProgramOrder

LEMMA ExecuteSets ==
  ASSUME NEW c \in Cores, PipelineTypeOK, NEW accepted \in BOOLEAN,
         Execute(c, accepted)
  PROVE  /\ pc'[c] = PcResolved(c) /\ regs'[c] = RegistersWritten(c)
         /\ halted'[c] = (halted[c] \/ Halts(c))
         /\ memoryStall'[c] = ~accepted /\ imem' = imem
  BY DEF Execute, PipelineTypeOK, Halts, Decodes

LEMMA FetchStep ==
  ASSUME NEW c \in Cores, Follows(c), ~FetchesNoPc(c), NEW f \in FetchExecuted(c)
  PROVE  /\ f \in StageRecords /\ f.operation = "null" /\ f.result = 0
         /\ Fetches(c) => /\ f.pc = pc[c] /\ f.pc # NoPc
                          /\ pc[c] \in Addresses => f.ins = imem[c][pc[c]]
         /\ ~Fetches(c) => f = stage[c]["fetch"]
<1>1. f \in StageRecords /\ stage[c]["fetch"] \in StageRecords
  BY FetchAndDecodeTypes, FollowsFacts DEF Follows, Stages
<1>2. stage[c]["fetch"].operation = "null" /\ stage[c]["fetch"].result = 0
  BY FollowsFacts DEF OperationsDecoded, RemembersHalt
<1>3. CASE Fetches(c)
  <2>1. pc[c] # NoPc
    BY <1>3 DEF FetchesNoPc
  <2>2. PICK ins \in Fetchable(c) :
          f = [stage[c]["fetch"] EXCEPT !.pc = pc[c], !.ins = ins]
    BY <1>3 DEF FetchExecuted
  <2>3. pc[c] \in Addresses => ins = imem[c][pc[c]]
    BY <2>2 DEF Fetchable
  <2> QED
    BY <1>1, <1>2, <1>3, <2>1, <2>2, <2>3 DEF StageRecords
<1>4. CASE ~Fetches(c)
  BY <1>1, <1>2, <1>4 DEF FetchExecuted
<1> QED
  BY <1>3, <1>4

\* Where the program goes on, by the registers rr.
AddressBy(rr, ins, next) ==
  LET Word(r) == IF r = ImmediateRegister THEN ins.imm ELSE rr[r]
  IN  IF ins.op = "jal" THEN Wrap(next + 1) % 2^TargetBits
      ELSE IF ins.op \in BranchOps /\ Taken(ins.op, Word(ins.rs), Word(ins.rt))
      THEN Word(ins.rd) % 2^TargetBits
      ELSE next + 1

LEMMA AddressBySame ==
  ASSUME NEW rr, NEW qq, NEW ins, NEW next,
         ins.op \in BranchOps =>
           \A r \in Sources(ins) \ {ImmediateRegister} : rr[r] = qq[r]
  PROVE  AddressBy(rr, ins, next) = AddressBy(qq, ins, next)
<1>1. CASE ins.op \notin BranchOps
  BY <1>1 DEF AddressBy, BranchOps
<1>2. CASE ins.op \in BranchOps
  <2>1. {ins.rs, ins.rt, ins.rd} \subseteq Sources(ins)
    BY <1>2 DEF Sources, BranchOps, AluOps
  <2> QED
    BY <1>2, <2>1 DEF AddressBy
<1> QED
  BY <1>1, <1>2

LEMMA AddressAfterBy ==
  ASSUME NEW c, NEW ins, NEW next
  PROVE  AddressAfter(c, ins, next) = AddressBy(regs[c], ins, next)
  BY DEF AddressAfter, AddressBy, Operand

\* The program counter after FETCH and DECODE.
LEMMA PcStep ==
  ASSUME NEW c \in Cores, Follows(c), ~FetchesNoPc(c)
  PROVE  /\ Fetches(c) /\ ~Hazard(c) => PcFetched(c) = pc[c] + 1
         /\ ~(Fetches(c) /\ ~Hazard(c)) => PcFetched(c) = pc[c]
         /\ ~Decodes(c) => PcResolved(c) = PcFetched(c)
         /\ pc[c] \in Nat
<1>1. pc[c] \in 0 .. NoPc /\ NoPc \in Nat
  BY FollowsFacts, NoPcIsNatural DEF Pcs
<1>2. ASSUME Fetches(c), ~Hazard(c) PROVE PcFetched(c) = pc[c] + 1
  <2>1. pc[c] # NoPc
    BY <1>2 DEF FetchesNoPc
  <2>2. (pc[c] + 1) % (NoPc + 1) = pc[c] + 1
    <3>1. pc[c] + 1 \in 0 .. NoPc
      BY <1>1, <2>1
    <3> QED
      BY <1>1, <3>1
  <2> QED
    BY <1>2, <2>2 DEF PcFetched
<1> QED
  BY <1>1, <1>2 DEF PcFetched, PcResolved, Branches, Resolves

LEMMA DecodeStep ==
  ASSUME NEW c \in Cores, Follows(c), ~FetchesNoPc(c), Decodes(c)
  PROVE  LET ins == stage[c]["decode"].ins
         IN  /\ Fetches(c) /\ ~halted[c] /\ ~Hazard(c) /\ Full(c, "decode")
             /\ PcResolved(c) = AddressBy(regs[c], ins, pc[c])
             /\ ~Halts(c) => /\ DecodeExecuted(c).operation = ins.op
                             /\ ins.op # "null" /\ ins.op # "halt"
             /\ ins.op = "jal" => DecodeExecuted(c).result = Wrap(pc[c] + 1)
<1> DEFINE d == stage[c]["decode"]
<1>1. d \in StageRecords /\ d.ins \in Instructions
  BY FollowsFacts DEF StageRecords, Stages
<1>2. Fetches(c) /\ ~halted[c] /\ ~Hazard(c) /\ Full(c, "decode")
  BY FollowsFacts DEF HaltEmpties, Fetches, Decodes
<1>3. PcFetched(c) = pc[c] + 1
  BY <1>2, PcStep
<1>4. ASSUME ~Halts(c)
      PROVE  DecodeExecuted(c).operation = d.ins.op /\ d.ins.op # "null" /\ d.ins.op # "halt"
  BY <1>1, <1>4 DEF DecodeExecuted, Halts, StageRecords, Instructions, Ops, AluOps,
                    BranchOps, MemoryOps
<1>5. CASE d.ins.op = "jal"
  <2>1. Resolves(c) /\ ~Halts(c) /\ Branches(c)
    BY <1>5 DEF Resolves, Halts, Branches, BranchOps, Taken
  <2>2. DecodeExecuted(c).result = Wrap(pc[c] + 1)
    BY <1>1, <1>3, <1>5, <2>1 DEF DecodeExecuted, StageRecords
  <2> QED
    BY <1>2, <1>4, <1>5, <2>1, <2>2 DEF PcResolved, AddressBy
<1>6. CASE d.ins.op \in BranchOps \ {"jal"}
  <2>1. Resolves(c) /\ ~Halts(c)
    BY <1>6 DEF Resolves, Halts, BranchOps
  <2>2. DecodeExecuted(c).result = Operand(c, d.ins, d.ins.rd)
    BY <1>1, <1>6, <2>1 DEF DecodeExecuted, StageRecords
  <2> QED
    BY <1>2, <1>3, <1>4, <1>6, <2>1, <2>2 DEF PcResolved, AddressBy, Operand, Branches
<1>7. CASE d.ins.op \notin BranchOps
  <2>1. ~Branches(c) /\ d.ins.op # "jal"
    BY <1>7 DEF Branches, Resolves, BranchOps
  <2> QED
    BY <1>2, <1>3, <1>4, <1>7, <2>1 DEF PcResolved, AddressBy
<1> QED
  BY <1>5, <1>6, <1>7

\* A hazard or a stall finds DECODE full, and the hazard finds it undecoded.
LEMMA HeldByHazard ==
  ASSUME NEW c \in Cores, Follows(c), ~halted[c]
  PROVE  /\ Hazard(c) \/ AccessesData(c) => Full(c, "decode")
         /\ Hazard(c) => Held(c)
<1>1. Hazard(c) \/ AccessesData(c) => Full(c, "decode")
  BY FollowsFacts DEF FillsInOrder, Hazard, Writes, AccessesData
<1>2. ASSUME Hazard(c) PROVE Held(c)
  <2>1. PICK s \in {"execute", "mem", "writeback"} :
          /\ Writes(c, s)
          /\ stage[c][s].ins.rd \in Sources(stage[c]["decode"].ins) \ Fixed
    BY <1>2 DEF Hazard
  <2>2. ~Checked(c, "decode")
    BY <2>1, FollowsFacts DEF HazardFree, Before, Stages
  <2> QED
    BY <1>1, <1>2, <2>2 DEF Checked, Held
<1> QED
  BY <1>1, <1>2

-----------------------------------------------------------------------------
(***************************************************************************)
(* A refused cycle.                                                        *)
(***************************************************************************)
LEMMA StallFront ==
  ASSUME NEW c \in Cores, Follows(c), ~FetchesNoPc(c), CycleStalls(c)
  PROVE  /\ memoryStall'[c] /\ halted'[c] = (halted[c] \/ Halts(c))
         /\ pc'[c] = PcResolved(c)
         /\ ~halted'[c] => /\ Full(c, "decode") /\ Full(c, "fetch")'
                           /\ stage'[c]["decode"] = DecodeExecuted(c)
                           /\ stage'[c]["fetch"] \in FetchExecuted(c)
         /\ halted'[c] => ~Full(c, "decode")' /\ ~Full(c, "fetch")'
         /\ stage'[c]["fetch"].result = 0
<1>1. PICK f \in FetchExecuted(c) :
        StagesBecome(c, f, DecodeExecuted(c), ExecuteExecuted(c),
                     MemRefused(c), Emptied(stage[c]["writeback"]))
  BY DEF CycleStalls
<1>2. /\ stage'[c]["fetch"] = EmptiedIf(halted'[c], f)
      /\ stage'[c]["decode"] = EmptiedIf(halted'[c], DecodeExecuted(c))
  BY <1>1, StagesAfter DEF Follows
<1>3. /\ memoryStall'[c] /\ halted'[c] = (halted[c] \/ Halts(c))
      /\ pc'[c] = PcResolved(c)
  BY ExecuteSets DEF CycleStalls, Follows
<1>4. f \in StageRecords /\ DecodeExecuted(c) \in StageRecords /\ f.result = 0
  BY <1>1, FetchStep, FetchAndDecodeTypes DEF Follows
<1>5. ASSUME ~halted'[c]
      PROVE  /\ Full(c, "decode") /\ f.pc # NoPc
             /\ stage'[c]["decode"] = DecodeExecuted(c) /\ stage'[c]["fetch"] = f
  <2>1. Full(c, "decode")
    BY <1>3, <1>5, HeldByHazard DEF CycleStalls
  <2>2. CASE Fetches(c)
    BY <1>2, <1>5, <2>1, <2>2, FetchStep DEF EmptiedIf
  <2>3. CASE ~Fetches(c)
    BY <1>2, <1>3, <1>5, <2>1, <2>3, FetchStep, FollowsFacts
       DEF EmptiedIf, Fetches, FillsInOrder, Full
  <2> QED
    BY <2>2, <2>3
<1>6. halted'[c] => ~Full(c, "decode")' /\ ~Full(c, "fetch")'
  BY <1>2, <1>4 DEF EmptiedIf, Emptied, StageRecords, Full
<1>7. stage'[c]["fetch"].result = 0
  BY <1>2, <1>4 DEF EmptiedIf, Emptied, StageRecords
<1> QED
  BY <1>1, <1>3, <1>5, <1>6, <1>7 DEF Full

LEMMA StallRear ==
  ASSUME NEW c \in Cores, Follows(c), CycleStalls(c)
  PROVE  /\ stage'[c]["execute"] = ExecuteExecuted(c)
         /\ stage'[c]["mem"] = MemRefused(c)
         /\ ~Full(c, "writeback")' /\ Full(c, "mem") /\ Full(c, "mem")'
         /\ AccessesData(c)'
         /\ \A s \in {"execute", "mem"} :
              /\ stage'[c][s].pc = stage[c][s].pc
              /\ stage'[c][s].ins = stage[c][s].ins
              /\ Unfinished(c, s)' = Unfinished(c, s)
<1>1. /\ stage'[c]["execute"] = ExecuteExecuted(c)
      /\ stage'[c]["mem"] = MemRefused(c)
      /\ stage'[c]["writeback"] = Emptied(stage[c]["writeback"])
  BY StagesAfter DEF CycleStalls, Follows
<1>2. ~Full(c, "writeback")'
  BY <1>1, FollowsFacts DEF Full, Emptied, StageRecords, Stages
<1>3. \A s \in {"execute", "mem"} : /\ stage'[c][s].pc = stage[c][s].pc
                                    /\ stage'[c][s].ins = stage[c][s].ins
  BY <1>1, ExecutedKeeps DEF Follows
<1>4. AccessesData(c)
  BY DEF CycleStalls
<1>5. \A s \in {"execute", "mem"} : Unfinished(c, s)' = Unfinished(c, s)
  <2>1. halted'[c] = (halted[c] \/ Halts(c))
    BY ExecuteSets DEF CycleStalls, Follows
  <2>2. \A s \in {"execute", "mem"} :
          Full(c, s) /\ stage[c][s].ins.op = "halt" => halted[c]
    BY FollowsFacts DEF HaltIsLast, Before, Stages
  <2> QED
    BY <1>3, <2>1, <2>2 DEF Unfinished, Full
<1> QED
  BY <1>1, <1>2, <1>3, <1>4, <1>5 DEF AccessesData, Full

\* What follows the instructions in the stages stays the same, and an
\* instruction decoded in the cycle is followed by its delay slot and target.
LEMMA StallBehind ==
  ASSUME NEW c \in Cores, NEW word, FollowsOn(c, word), Follows(c), CycleStalls(c)
  PROVE  /\ \A s \in {"execute", "mem"} : Behind(c, s)' = Behind(c, s)
         /\ Upcoming(c)' = Upcoming(c)
         /\ ~halted'[c] =>
              IF Decodes(c)
              THEN Behind(c, "decode")' = <<pc[c], PcResolved(c)>>
              ELSE Behind(c, "decode")' = Behind(c, "decode")
<1> DEFINE d == stage[c]["decode"]
           Decoded == ~halted'[c] =>
                        IF Decodes(c)
                        THEN Behind(c, "decode")' = <<pc[c], PcResolved(c)>>
                        ELSE Behind(c, "decode")' = Behind(c, "decode")
           Executes == Behind(c, "execute")' = Behind(c, "execute")
<1>1. /\ memoryStall'[c] /\ halted'[c] = (halted[c] \/ Halts(c))
      /\ pc'[c] = PcResolved(c)
      /\ ~halted'[c] => /\ Full(c, "decode") /\ Full(c, "fetch")'
                        /\ stage'[c]["decode"] = DecodeExecuted(c)
                        /\ stage'[c]["fetch"] \in FetchExecuted(c)
      /\ halted'[c] => ~Full(c, "decode")' /\ ~Full(c, "fetch")'
  BY StallFront DEF FollowsOn
<1>2. /\ DecodeExecuted(c).pc = d.pc /\ DecodeExecuted(c).ins = d.ins
      /\ d \in StageRecords
  BY ExecutedKeeps, FollowsFacts DEF Follows, Stages
<1>3. ASSUME halted[c] PROVE Decoded /\ Executes
  <2>1. ~Full(c, "decode")
    BY <1>3, FollowsFacts DEF HaltEmpties
  <2>2. ~Halts(c) /\ haltAt' = haltAt /\ halted'[c] /\ ~Full(c, "decode")'
    BY <1>1, <1>3, <2>1 DEF Halts, Decodes, FollowsOn
  <2>3. ToFetch(c)' = ToFetch(c)
    BY <1>3, <2>2 DEF ToFetch
  <2> QED
    BY <1>1, <1>3, <2>1, <2>2, <2>3 DEF Behind, Ahead, Unfinished
<1>4. ASSUME ~halted[c], Halts(c) PROVE Decoded /\ Executes
  <2>1. haltAt'[c] = <<d.pc, pc[c]>> /\ halted'[c] /\ ~Full(c, "decode")'
    BY <1>1, <1>4 DEF FollowsOn, Follows
  <2>2. ~memoryStall[c] /\ Unfinished(c, "decode")
    BY <1>4 DEF Halts, Decodes, Unfinished
  <2>3. ToFetch(c)' = <<d.pc, pc[c]>>
    BY <2>1 DEF ToFetch
  <2>4. ToFetch(c) = <<pc[c], pc[c] + 1>>
    BY <1>4, <2>2 DEF ToFetch
  <2> QED
    BY <2>1, <2>2, <2>3, <2>4 DEF Behind, Ahead, Unfinished
<1>5. ASSUME ~halted[c], ~Halts(c) PROVE Decoded /\ Executes
  <2>1. ~halted'[c] /\ haltAt' = haltAt
    BY <1>1, <1>5 DEF FollowsOn
  <2>2. Unfinished(c, "decode") /\ Unfinished(c, "decode")' /\ stage'[c]["decode"].pc = d.pc
    BY <1>1, <1>2, <1>5, <2>1 DEF Unfinished, Full
  <2>3. CASE Decodes(c)
    <3>1. Fetches(c) /\ ~memoryStall[c] /\ stage'[c]["decode"].operation # "null"
      BY <1>1, <1>5, <2>1, <2>3, DecodeStep DEF Decodes, FollowsOn
    <3>2. stage'[c]["fetch"].pc = pc[c]
      BY <1>1, <2>1, <3>1, FetchStep DEF FollowsOn
    <3>3. ToFetch(c)' = <<pc[c], PcResolved(c)>>
      BY <1>1, <2>1, <3>1, <3>2 DEF ToFetch, Held
    <3>4. ToFetch(c) = <<pc[c], pc[c] + 1>>
      BY <1>5, <3>1 DEF ToFetch
    <3> QED
      BY <2>2, <2>3, <3>3, <3>4 DEF Behind, Ahead
  <2>4. CASE ~Decodes(c)
    <3>1. stage'[c]["decode"] = d /\ Held(c)' = Held(c)
      BY <1>1, <2>1, <2>4 DEF DecodeExecuted, Held, Full
    <3>2. pc'[c] = pc[c]
      BY <1>1, <1>5, <2>1, <2>4, PcStep DEF FollowsOn, Decodes, Fetches
    <3>3. ToFetch(c)' = ToFetch(c)
      <4>1. CASE memoryStall[c]
        <5>1. stage'[c]["fetch"] = stage[c]["fetch"]
          BY <1>1, <2>1, <4>1 DEF FetchExecuted, Fetches
        <5> QED
          BY <1>1, <1>5, <2>1, <3>1, <3>2, <4>1, <5>1 DEF ToFetch
      <4>2. CASE ~memoryStall[c]
        <5>1. Held(c)
          BY <1>1, <2>1, <4>2, FollowsFacts DEF FillsInOrder
        <5> QED
          BY <1>1, <1>5, <2>1, <3>1, <3>2, <4>2, <5>1 DEF ToFetch
      <4> QED
        BY <4>1, <4>2
    <3> QED
      BY <2>2, <2>4, <3>3 DEF Behind, Ahead
  <2> QED
    BY <2>3, <2>4
<1>6. Decoded /\ Executes
  BY <1>3, <1>4, <1>5
<1>7. Behind(c, "mem")' = Behind(c, "mem") /\ Upcoming(c)' = Upcoming(c)
  BY <1>6, StallRear DEF Behind, Ahead, Upcoming
<1> QED
  BY <1>6, <1>7

-----------------------------------------------------------------------------
(***************************************************************************)
(* An accepted cycle.                                                      *)
(***************************************************************************)
Accepts(c, word) == CycleBubbles(c, word) \/ CycleMoves(c, word)

LEMMA AcceptedSets ==
  ASSUME NEW c \in Cores, Follows(c), NEW word, Accepts(c, word)
  PROVE  /\ ~memoryStall'[c] /\ halted'[c] = (halted[c] \/ Halts(c))
         /\ pc'[c] = PcResolved(c) /\ regs'[c] = RegistersWritten(c)
         /\ imem' = imem
  BY ExecuteSets DEF Accepts, CycleBubbles, CycleMoves, Follows

LEMMA AcceptedRear ==
  ASSUME NEW c \in Cores, Follows(c), NEW word \in Values, Accepts(c, word)
  PROVE  /\ Full(c, "mem")' <=> Full(c, "execute")
         /\ Full(c, "execute") =>
              /\ stage'[c]["mem"] = ExecuteExecuted(c)
              /\ stage'[c]["mem"].pc = stage[c]["execute"].pc
              /\ stage'[c]["mem"].ins = stage[c]["execute"].ins
         /\ Full(c, "writeback")' <=> Full(c, "mem")
         /\ Full(c, "mem") =>
              /\ stage'[c]["writeback"] = MemExecuted(c, word)
              /\ stage'[c]["writeback"].pc = stage[c]["mem"].pc
              /\ stage'[c]["writeback"].ins = stage[c]["mem"].ins
         /\ Unfinished(c, "mem")' <=> Unfinished(c, "execute")
<1>1. /\ stage'[c]["mem"] = Bubbled(ExecuteExecuted(c), stage[c]["mem"])
      /\ stage'[c]["writeback"] =
           Bubbled(MemExecuted(c, word), stage[c]["writeback"])
  <2>1. CASE CycleBubbles(c, word)
    <3>1. PICK f \in FetchExecuted(c) :
            StagesBecome(c, f, DecodeExecuted(c), Emptied(ExecuteExecuted(c)),
                         Bubbled(ExecuteExecuted(c), stage[c]["mem"]),
                         Bubbled(MemExecuted(c, word), stage[c]["writeback"]))
      BY <2>1 DEF CycleBubbles
    <3> QED
      BY <3>1, StagesAfter DEF Follows
  <2>2. CASE CycleMoves(c, word)
    <3>1. PICK f \in FetchExecuted(c) :
            StagesBecome(c, f, Bubbled(f, stage[c]["decode"]),
                         Bubbled(DecodeExecuted(c), stage[c]["execute"]),
                         Bubbled(ExecuteExecuted(c), stage[c]["mem"]),
                         Bubbled(MemExecuted(c, word), stage[c]["writeback"]))
      BY <2>2 DEF CycleMoves
    <3> QED
      BY <3>1, StagesAfter DEF Follows
  <2> QED
    BY <2>1, <2>2 DEF Accepts
<1>2. \A s \in Stages : stage[c][s] \in StageRecords
  BY FollowsFacts
<1>3. /\ ExecuteExecuted(c).pc = stage[c]["execute"].pc
      /\ ExecuteExecuted(c).ins = stage[c]["execute"].ins
      /\ MemExecuted(c, word).pc = stage[c]["mem"].pc
      /\ MemExecuted(c, word).ins = stage[c]["mem"].ins
  BY ExecutedKeeps DEF Follows
<1>4. /\ Full(c, "mem")' <=> Full(c, "execute")
      /\ Full(c, "execute") => stage'[c]["mem"] = ExecuteExecuted(c)
      /\ Full(c, "writeback")' <=> Full(c, "mem")
      /\ Full(c, "mem") => stage'[c]["writeback"] = MemExecuted(c, word)
  BY <1>1, <1>2, <1>3 DEF Full, Bubbled, StageRecords, Stages
<1>5. Unfinished(c, "mem")' <=> Unfinished(c, "execute")
  <2>1. halted'[c] = (halted[c] \/ Halts(c))
    BY AcceptedSets
  <2>2. Full(c, "execute") /\ stage[c]["execute"].ins.op = "halt" => halted[c]
    BY FollowsFacts DEF HaltIsLast, Before, Stages
  <2> QED
    BY <1>3, <1>4, <2>1, <2>2 DEF Unfinished
<1> QED
  BY <1>3, <1>4, <1>5

\* A hazard holds DECODE, and leaves a hole in EXECUTE.
LEMMA BubbleFront ==
  ASSUME NEW c \in Cores, NEW word \in Values, FollowsOn(c, word), Follows(c),
         CycleBubbles(c, word)
  PROVE  /\ ~Decodes(c) /\ pc'[c] = pc[c] /\ halted'[c] = halted[c]
         /\ haltAt' = haltAt
         /\ ~Full(c, "execute")'
         /\ ~halted[c] => stage'[c]["decode"] = stage[c]["decode"] /\ Held(c)
         /\ halted[c] => ~Full(c, "decode") /\ ~Full(c, "decode")'
         /\ stage'[c]["fetch"].result = 0
<1>1. PICK f \in FetchExecuted(c) :
        StagesBecome(c, f, DecodeExecuted(c), Emptied(ExecuteExecuted(c)),
                     Bubbled(ExecuteExecuted(c), stage[c]["mem"]),
                     Bubbled(MemExecuted(c, word), stage[c]["writeback"]))
  BY DEF CycleBubbles
<1>2. /\ stage'[c]["fetch"] = EmptiedIf(halted'[c], f)
      /\ stage'[c]["decode"] = EmptiedIf(halted'[c], DecodeExecuted(c))
      /\ stage'[c]["execute"] = Emptied(ExecuteExecuted(c))
  BY <1>1, StagesAfter DEF Follows
<1>3. Hazard(c) /\ ~Decodes(c) /\ ~Halts(c)
  BY DEF CycleBubbles, Decodes, Halts
<1>4. /\ halted'[c] = halted[c] /\ pc'[c] = pc[c] /\ haltAt' = haltAt
      /\ halted[c] \in BOOLEAN
  BY <1>3, AcceptedSets, PcStep, FollowsFacts DEF FollowsOn, Accepts
<1>5. /\ f \in StageRecords /\ f.result = 0 /\ ExecuteExecuted(c) \in StageRecords
      /\ DecodeExecuted(c) = stage[c]["decode"] /\ stage[c]["decode"] \in StageRecords
  BY <1>1, <1>3, FetchStep, CycleRecords, FollowsFacts
     DEF FollowsOn, Follows, InstructionsInOrder, DecodeExecuted, Stages
<1>6. stage'[c]["fetch"].result = 0 /\ ~Full(c, "execute")'
  BY <1>2, <1>5 DEF EmptiedIf, Emptied, StageRecords, Full
<1>7. halted[c] => ~Full(c, "decode") /\ ~Full(c, "decode")'
  BY <1>2, <1>4, <1>5, FollowsFacts
     DEF HaltEmpties, Full, EmptiedIf, Emptied, StageRecords
<1>8. ~halted[c] => stage'[c]["decode"] = stage[c]["decode"] /\ Held(c)
  BY <1>2, <1>3, <1>4, <1>5, HeldByHazard DEF EmptiedIf
<1> QED
  BY <1>3, <1>4, <1>6, <1>7, <1>8

\* Every stage moves: what was fetched, in this cycle or before a stall, is in
\* DECODE, and what is in EXECUTE has been decoded.
LEMMA MoveFront ==
  ASSUME NEW c \in Cores, NEW word \in Values, FollowsOn(c, word), Follows(c),
         CycleMoves(c, word)
  PROVE  /\ Full(c, "execute")' <=> Full(c, "decode")
         /\ Full(c, "decode") =>
              /\ stage'[c]["execute"] = DecodeExecuted(c)
              /\ stage'[c]["execute"].pc = stage[c]["decode"].pc
              /\ stage'[c]["execute"].ins = stage[c]["decode"].ins
              /\ ~Decodes(c) => Checked(c, "decode") /\ memoryStall[c]
         /\ ~halted'[c] => /\ Full(c, "decode")'
                           /\ stage'[c]["decode"] \in FetchExecuted(c)
         /\ halted'[c] => ~Full(c, "decode")'
         /\ stage'[c]["fetch"].result = 0
<1>1. PICK f \in FetchExecuted(c) :
        StagesBecome(c, f, Bubbled(f, stage[c]["decode"]),
                     Bubbled(DecodeExecuted(c), stage[c]["execute"]),
                     Bubbled(ExecuteExecuted(c), stage[c]["mem"]),
                     Bubbled(MemExecuted(c, word), stage[c]["writeback"]))
  BY DEF CycleMoves
<1>2. /\ stage'[c]["fetch"] = EmptiedIf(halted'[c], f)
      /\ stage'[c]["decode"] = EmptiedIf(halted'[c], Bubbled(f, stage[c]["decode"]))
      /\ stage'[c]["execute"] = Bubbled(DecodeExecuted(c), stage[c]["execute"])
  BY <1>1, StagesAfter DEF Follows
<1>3. /\ f \in StageRecords /\ f.result = 0
      /\ stage[c]["decode"] \in StageRecords /\ stage[c]["execute"] \in StageRecords
      /\ DecodeExecuted(c).pc = stage[c]["decode"].pc
      /\ DecodeExecuted(c).ins = stage[c]["decode"].ins
  BY <1>1, FetchStep, ExecutedKeeps, FollowsFacts DEF FollowsOn, Follows, Stages
<1>4. /\ Full(c, "execute")' <=> Full(c, "decode")
      /\ Full(c, "decode") => stage'[c]["execute"] = DecodeExecuted(c)
  BY <1>2, <1>3 DEF Full, Bubbled, StageRecords
<1>5. ~memoryStall'[c] /\ halted'[c] = (halted[c] \/ Halts(c)) /\ ~Hazard(c)
  BY AcceptedSets DEF Accepts, CycleMoves
<1>6. ASSUME Full(c, "decode"), ~Decodes(c)
      PROVE  Checked(c, "decode") /\ memoryStall[c]
  BY <1>5, <1>6 DEF FollowsOn, Slips, Held, Decodes, Checked
<1>7. ASSUME ~halted'[c]
      PROVE  Full(c, "decode")' /\ stage'[c]["decode"] \in FetchExecuted(c)
  <2>1. f.pc # NoPc
    <3>1. CASE Fetches(c)
      BY <1>1, <3>1, FetchStep DEF FollowsOn
    <3>2. CASE ~Fetches(c)
      <4>1. memoryStall[c] /\ ~halted[c]
        BY <1>5, <1>7, <3>2 DEF Fetches
      <4> QED
        BY <1>1, <3>2, <4>1, FetchStep, FollowsFacts DEF FollowsOn, FillsInOrder, Full
    <3> QED
      BY <3>1, <3>2
  <2> QED
    BY <1>1, <1>2, <1>7, <2>1 DEF EmptiedIf, Bubbled, Full
<1>8. halted'[c] => ~Full(c, "decode")'
  <2>1. Bubbled(f, stage[c]["decode"]) \in StageRecords
    BY <1>3, BubbledTypes
  <2> QED
    BY <1>2, <2>1 DEF EmptiedIf, Emptied, StageRecords, Full
<1>9. stage'[c]["fetch"].result = 0
  BY <1>2, <1>3 DEF EmptiedIf, Emptied, StageRecords
<1> QED
  BY <1>3, <1>4, <1>6, <1>7, <1>8, <1>9

\* The first of the addresses to execute is gone, and an instruction decoded in
\* the cycle is followed by its delay slot and target.
LEMMA AcceptedBehind ==
  ASSUME NEW c \in Cores, NEW word \in Values, FollowsOn(c, word), Follows(c),
         Accepts(c, word)
  PROVE  /\ Behind(c, "mem")' = Behind(c, "execute")
         /\ Upcoming(c)' = Behind(c, "mem")
         /\ Unfinished(c, "execute")' =>
              Behind(c, "execute")' = IF Decodes(c) THEN <<pc[c], PcResolved(c)>>
                                                    ELSE Behind(c, "decode")
<1> DEFINE d == stage[c]["decode"]
           Decoded == Unfinished(c, "execute")' =>
                        Behind(c, "execute")' =
                          IF Decodes(c) THEN <<pc[c], PcResolved(c)>>
                                        ELSE Behind(c, "decode")
           Executes == Behind(c, "mem")' = Behind(c, "execute")
<1>1. /\ ~memoryStall'[c] /\ halted'[c] = (halted[c] \/ Halts(c))
      /\ pc'[c] = PcResolved(c)
  BY AcceptedSets
<1>2. ASSUME CycleBubbles(c, word) PROVE Decoded /\ Executes
  <2>1. /\ pc'[c] = pc[c] /\ halted'[c] = halted[c] /\ haltAt' = haltAt
        /\ ~Full(c, "execute")'
        /\ ~halted[c] => stage'[c]["decode"] = d /\ Held(c)
        /\ halted[c] => ~Full(c, "decode") /\ ~Full(c, "decode")'
    BY <1>2, BubbleFront
  <2>2. ToFetch(c)' = ToFetch(c)
    BY <1>1, <2>1 DEF ToFetch
  <2>3. Behind(c, "execute")' = Behind(c, "execute")
    BY <2>1, <2>2 DEF Behind, Ahead, Unfinished, Full
  <2> QED
    BY <2>1, <2>3 DEF Behind, Ahead, Unfinished
<1>3. ASSUME CycleMoves(c, word) PROVE Decoded /\ Executes
  <2>1. /\ Full(c, "execute")' <=> Full(c, "decode")
        /\ Full(c, "decode") =>
             /\ stage'[c]["execute"] = DecodeExecuted(c)
             /\ stage'[c]["execute"].pc = d.pc
             /\ stage'[c]["execute"].ins = d.ins
             /\ ~Decodes(c) => Checked(c, "decode") /\ memoryStall[c]
        /\ ~halted'[c] => /\ Full(c, "decode")'
                          /\ stage'[c]["decode"] \in FetchExecuted(c)
        /\ halted'[c] => ~Full(c, "decode")'
    BY <1>3, MoveFront
  <2>2. ASSUME halted[c] PROVE Decoded /\ Executes
    <3>1. ~Full(c, "decode") /\ ~Full(c, "execute")' /\ ~Full(c, "decode")'
      BY <1>1, <2>1, <2>2, FollowsFacts DEF HaltEmpties
    <3>2. haltAt' = haltAt /\ halted'[c]
      BY <1>1, <2>2, <3>1 DEF FollowsOn, Halts, Decodes
    <3> QED
      BY <2>2, <3>1, <3>2 DEF Behind, Ahead, Unfinished, ToFetch
  <2>3. ASSUME ~halted[c], Halts(c) PROVE Decoded /\ Executes
    <3>1. haltAt'[c] = <<d.pc, pc[c]>> /\ halted'[c] /\ ~Full(c, "decode")'
      BY <1>1, <2>1, <2>3 DEF FollowsOn, Follows
    <3>2. /\ ~memoryStall[c] /\ Unfinished(c, "decode") /\ d.ins.op = "halt"
          /\ Full(c, "decode")
      BY <2>3 DEF Halts, Decodes, Unfinished
    <3>3. ~Unfinished(c, "execute")' /\ ~Unfinished(c, "decode")'
      BY <2>1, <3>1, <3>2 DEF Unfinished
    <3>4. ToFetch(c)' = <<d.pc, pc[c]>>
      BY <3>1 DEF ToFetch
    <3>5. ToFetch(c) = <<pc[c], pc[c] + 1>>
      BY <2>3, <3>2 DEF ToFetch
    <3> QED
      BY <3>2, <3>3, <3>4, <3>5 DEF Behind, Ahead
  <2>4. ASSUME ~halted[c], ~Halts(c) PROVE Decoded /\ Executes
    <3>1. ~halted'[c]
      BY <1>1, <2>4
    <3>2. Full(c, "decode")' /\ stage'[c]["decode"] \in FetchExecuted(c)
      BY <2>1, <3>1
    <3>3. stage'[c]["decode"].operation = "null"
      BY <3>2, FetchStep DEF FollowsOn
    <3>4. Unfinished(c, "decode")' /\ Held(c)'
      BY <3>1, <3>2, <3>3 DEF Unfinished, Held
    <3>5. ToFetch(c)' = <<PcResolved(c), PcResolved(c) + 1>>
      BY <1>1, <3>1 DEF ToFetch
    <3>6. ~Hazard(c)
      BY <1>3 DEF CycleMoves
    <3>7. CASE Decodes(c)
      <4>1. Fetches(c) /\ ~memoryStall[c] /\ Full(c, "decode")
        BY <3>7, DecodeStep DEF Decodes, FollowsOn
      <4>2. stage'[c]["decode"].pc = pc[c]
        BY <3>2, <4>1, FetchStep DEF FollowsOn
      <4>3. Behind(c, "execute")' = <<pc[c], PcResolved(c)>>
        BY <3>4, <3>5, <4>2 DEF Behind, Ahead
      <4>4. ToFetch(c) = <<pc[c], pc[c] + 1>>
        BY <2>4, <4>1 DEF ToFetch
      <4>5. Unfinished(c, "decode") /\ Unfinished(c, "execute")'
        BY <2>1, <2>4, <3>1, <4>1 DEF Unfinished
      <4> QED
        BY <2>1, <3>7, <4>1, <4>3, <4>4, <4>5 DEF Behind, Ahead
    <3>8. CASE ~Decodes(c) /\ Full(c, "decode")
      <4>1. memoryStall[c] /\ ~Held(c) /\ ~Fetches(c)
        BY <2>1, <3>8 DEF Held, Checked, Fetches
      <4>2. stage'[c]["decode"] = stage[c]["fetch"] /\ PcResolved(c) = pc[c]
        BY <3>2, <3>8, <4>1, FetchStep, PcStep DEF FollowsOn
      <4>3. ToFetch(c) = <<stage[c]["fetch"].pc, pc[c]>>
        BY <2>4, <4>1 DEF ToFetch
      <4>4. Behind(c, "execute")' = <<stage[c]["fetch"].pc, pc[c]>>
        BY <3>4, <3>5, <4>2 DEF Behind, Ahead
      <4>5. Unfinished(c, "decode") /\ Unfinished(c, "execute")'
        BY <2>1, <2>4, <3>1, <3>8 DEF Unfinished
      <4> QED
        BY <2>1, <3>8, <4>3, <4>4, <4>5 DEF Behind, Ahead
    <3>9. CASE ~Full(c, "decode")
      <4>1. ~memoryStall[c] /\ Fetches(c) /\ ~Decodes(c)
        BY <2>4, <3>9, FollowsFacts
           DEF FillsInOrder, AccessesData, Fetches, Decodes
      <4>2. stage'[c]["decode"].pc = pc[c] /\ PcResolved(c) = pc[c] + 1
        BY <3>2, <3>6, <4>1, FetchStep, PcStep DEF FollowsOn
      <4>3. ToFetch(c) = <<pc[c], pc[c] + 1>>
        BY <2>4, <4>1 DEF ToFetch
      <4>4. Behind(c, "execute")' = <<pc[c], pc[c] + 1>>
        BY <3>4, <3>5, <4>2 DEF Behind, Ahead
      <4>5. ~Unfinished(c, "decode") /\ ~Unfinished(c, "execute")'
        BY <2>1, <3>9 DEF Unfinished
      <4> QED
        BY <4>3, <4>4, <4>5 DEF Behind, Ahead
    <3> QED
      BY <3>7, <3>8, <3>9
  <2> QED
    BY <2>2, <2>3, <2>4
<1>4. Decoded /\ Executes
  BY <1>2, <1>3 DEF Accepts
<1>5. Upcoming(c)' = Behind(c, "mem")
  <2>1. /\ Unfinished(c, "mem")' <=> Unfinished(c, "execute")
        /\ Full(c, "execute") => stage'[c]["mem"].pc = stage[c]["execute"].pc
    BY AcceptedRear
  <2> QED
    BY <1>4, <2>1 DEF Upcoming, Behind, Ahead, Unfinished
<1> QED
  BY <1>4, <1>5

-----------------------------------------------------------------------------
(***************************************************************************)
(* A core that follows its program goes on to hold it.                     *)
(***************************************************************************)
CycleSets(c) ==
  /\ halted'[c] = (halted[c] \/ Halts(c))
  /\ pc'[c] = PcResolved(c) /\ regs'[c] = RegistersWritten(c)
  /\ imem' = imem

LEMMA CyclesAre ==
  ASSUME NEW c \in Cores, NEW word, FollowsOn(c, word), Follows(c)
  PROVE  /\ CycleSets(c)
         /\ \/ CycleStalls(c) /\ memoryStall'[c]
            \/ Accepts(c, word) /\ ~memoryStall'[c]
<1>1. CASE CycleStalls(c)
  BY <1>1, ExecuteSets DEF CycleSets, CycleStalls, Follows
<1>2. CASE Accepts(c, word)
  BY <1>2, AcceptedSets DEF CycleSets
<1> QED
  BY <1>1, <1>2 DEF FollowsOn, Cycles, Accepts

\* What FETCH holds is of the program, once it has fetched.
LEMMA FetchedIsProgram ==
  ASSUME NEW c \in Cores, NEW word, FollowsOn(c, word), Follows(c), ~halted[c],
         NEW f \in FetchExecuted(c), f.pc \in Addresses
  PROVE  f.ins = imem[c][f.pc]
<1>1. CASE Fetches(c)
  BY <1>1, FetchStep DEF FollowsOn
<1>2. CASE ~Fetches(c)
  <2>1. f = stage[c]["fetch"] /\ memoryStall[c]
    BY <1>2, FetchStep DEF FollowsOn, Fetches
  <2>2. Full(c, "fetch")
    BY <2>1, FollowsFacts DEF FillsInOrder
  <2> QED
    BY <2>1, <2>2, FollowsFacts DEF HoldsProgram, Stages
<1> QED
  BY <1>1, <1>2

LEMMA CycleHoldsProgram ==
  ASSUME NEW c \in Cores, NEW word \in Values, FollowsOn(c, word), Follows(c)
  PROVE  HoldsProgram(c)'
<1> SUFFICES ASSUME NEW s \in Stages, Full(c, s)', s = "fetch" => memoryStall'[c],
                    stage'[c][s].pc \in Addresses
             PROVE  stage'[c][s].ins = imem[c][stage'[c][s].pc]
  BY CyclesAre DEF HoldsProgram, CycleSets
<1>1. halted'[c] = (halted[c] \/ Halts(c))
  BY CyclesAre DEF CycleSets
<1>2. ASSUME NEW o \in Stages \ {"fetch"}, Full(c, o),
             stage'[c][s].pc = stage[c][o].pc, stage'[c][s].ins = stage[c][o].ins
      PROVE  stage'[c][s].ins = imem[c][stage'[c][s].pc]
  BY <1>2, FollowsFacts DEF HoldsProgram
<1>3. ASSUME stage'[c][s] \in FetchExecuted(c), ~halted'[c]
      PROVE  stage'[c][s].ins = imem[c][stage'[c][s].pc]
  BY <1>1, <1>3, FetchedIsProgram
<1>4. DecodeExecuted(c).pc = stage[c]["decode"].pc
      /\ DecodeExecuted(c).ins = stage[c]["decode"].ins
  BY ExecutedKeeps DEF Follows
<1>5. CASE CycleStalls(c)
  <2>1. CASE s = "fetch"
    BY <1>3, <1>5, <2>1, StallFront DEF FollowsOn
  <2>2. CASE s = "decode"
    BY <1>2, <1>4, <1>5, <2>2, StallFront DEF FollowsOn, Full, Stages
  <2>3. CASE s \in {"execute", "mem"}
    BY <1>2, <1>5, <2>3, StallRear DEF Full
  <2>4. s # "writeback"
    BY <1>5, StallRear
  <2> QED
    BY <2>1, <2>2, <2>3, <2>4 DEF Stages
<1>6. CASE Accepts(c, word) /\ ~memoryStall'[c]
  <2>1. CASE s = "decode" /\ CycleBubbles(c, word)
    BY <1>2, <2>1, BubbleFront DEF Full, Stages
  <2>2. CASE s = "decode" /\ CycleMoves(c, word)
    BY <1>3, <2>2, MoveFront
  <2>3. CASE s = "execute"
    <3>1. CycleMoves(c, word)
      BY <1>6, <2>3, BubbleFront DEF Accepts
    <3> QED
      BY <1>2, <2>3, <3>1, MoveFront DEF Stages
  <2>4. CASE s \in {"mem", "writeback"}
    BY <1>2, <1>6, <2>4, AcceptedRear DEF Stages
  <2> QED
    BY <1>6, <2>1, <2>2, <2>3, <2>4 DEF Accepts, Stages
<1> QED
  BY <1>5, <1>6, CyclesAre

LEMMA CycleFillsInOrder ==
  ASSUME NEW c \in Cores, NEW word \in Values, FollowsOn(c, word), Follows(c)
  PROVE  FillsInOrder(c)'
<1>1. halted'[c] = (halted[c] \/ Halts(c))
  BY CyclesAre DEF CycleSets
<1>2. CASE CycleStalls(c)
  <2>1. memoryStall'[c] /\ AccessesData(c)'
    BY <1>2, StallFront, StallRear DEF FollowsOn
  <2>2. ~halted'[c] => Full(c, "fetch")' /\ Full(c, "decode")'
    <3>1. ~halted'[c] => /\ Full(c, "decode") /\ Full(c, "fetch")'
                         /\ stage'[c]["decode"] = DecodeExecuted(c)
      BY <1>2, StallFront DEF FollowsOn
    <3> QED
      BY <3>1, ExecutedKeeps DEF Full, Follows
  <2> QED
    BY <2>1, <2>2 DEF FillsInOrder
<1>3. CASE Accepts(c, word) /\ ~memoryStall'[c]
  <2>1. CASE CycleBubbles(c, word)
    <3>1. ~halted'[c] => Held(c)' /\ Full(c, "decode")'
      BY <2>1, BubbleFront DEF Held, Full
    <3>2. halted'[c] => ~Full(c, "decode")'
      BY <2>1, BubbleFront
    <3> QED
      BY <1>3, <3>1, <3>2 DEF FillsInOrder
  <2>2. CASE CycleMoves(c, word)
    <3>1. ~halted'[c] => Full(c, "decode")' /\ stage'[c]["decode"] \in FetchExecuted(c)
      BY <2>2, MoveFront
    <3>2. ~halted'[c] => Held(c)'
      BY <3>1, FetchStep DEF Held, FollowsOn
    <3>3. halted'[c] => ~Full(c, "decode")'
      BY <2>2, MoveFront
    <3> QED
      BY <1>3, <3>1, <3>2, <3>3 DEF FillsInOrder
  <2> QED
    BY <1>3, <2>1, <2>2 DEF Accepts
<1> QED
  BY <1>2, <1>3, CyclesAre

\* An instruction that has moved on, or was decoded in the cycle, is followed by
\* what followed it, by the registers as they are written in the cycle.
BranchFollowed(c, s) ==
  /\ Behind(c, s)'[2] =
       AddressBy(regs'[c], stage'[c][s].ins, Behind(c, s)'[1])
  /\ stage'[c][s].ins.op = "jal" =>
       stage'[c][s].result = Wrap(Behind(c, s)'[1] + 1)

LEMMA KeptIsFollowed ==
  ASSUME NEW c \in Cores, NEW word \in Values, FollowsOn(c, word), Follows(c),
         NEW s \in {"decode", "execute", "mem"},
         NEW o \in {"decode", "execute", "mem"}, Checked(c, o), Unfinished(c, o),
         stage[c][o].pc \in Addresses, stage'[c][s].ins = stage[c][o].ins,
         stage[c][o].ins.op \in BranchOps =>
           stage'[c][s].result = stage[c][o].result,
         Behind(c, s)' = Behind(c, o)
  PROVE  BranchFollowed(c, s)
<1> DEFINE ins == stage[c][o].ins
<1>1. /\ Behind(c, o)[2] = AddressBy(regs[c], ins, Behind(c, o)[1])
      /\ ins.op = "jal" => stage[c][o].result = Wrap(Behind(c, o)[1] + 1)
  BY FollowsFacts, AddressAfterBy DEF FollowsBranches
<1>2. o \in Stages /\ "writeback" \in Before(o) /\ "writeback" \in Stages
  BY DEF Stages, Before
<1>3. ASSUME ins.op \in BranchOps, NEW r \in Sources(ins) \ {ImmediateRegister}
      PROVE  regs'[c][r] = regs[c][r]
  <2>1. Full(c, "writeback") =>
          UncheckedResult(stage[c]["writeback"].ins) \cap Sources(ins) = {}
    BY <1>2, <1>3, FollowsFacts DEF BranchesUpToDate
  <2>2. RegistersWritten(c)[r] = regs[c][r]
    BY <1>3, <2>1, SettledUndisturbed, FollowsFacts DEF Follows, Checked
  <2> QED
    BY <2>2, CyclesAre DEF CycleSets
<1> DEFINE next == Behind(c, o)[1]
<1>4. AddressBy(regs'[c], ins, next) = AddressBy(regs[c], ins, next)
  <2> HIDE DEF next, ins
  <2> QED
    BY <1>3, AddressBySame
<1> QED
  BY <1>1, <1>4 DEF BranchFollowed, BranchOps

LEMMA DecodedIsFollowed ==
  ASSUME NEW c \in Cores, NEW word \in Values, FollowsOn(c, word), Follows(c),
         NEW s \in {"decode", "execute"}, Decodes(c),
         stage'[c][s] = DecodeExecuted(c), Behind(c, s)' = <<pc[c], PcResolved(c)>>
  PROVE  BranchFollowed(c, s)
<1> DEFINE ins == stage[c]["decode"].ins
<1>1. /\ PcResolved(c) = AddressBy(regs[c], ins, pc[c])
      /\ ins.op = "jal" => DecodeExecuted(c).result = Wrap(pc[c] + 1)
      /\ ~Hazard(c) /\ Full(c, "decode")
  BY DecodeStep DEF FollowsOn
<1>2. stage'[c][s].ins = ins
  BY ExecutedKeeps DEF Follows
<1>3. ASSUME ins.op \in BranchOps, NEW r \in Sources(ins) \ {ImmediateRegister}
      PROVE  regs'[c][r] = regs[c][r]
  <2>1. Reads(c, "decode")
    BY <1>3 DEF Reads, Resolves
  <2>2. RegistersWritten(c)[r] = regs[c][r]
    BY <1>1, <1>3, <2>1, ReadersUndisturbed, FollowsFacts DEF Follows, FollowsOn
  <2> QED
    BY <2>2, CyclesAre DEF CycleSets
<1>4. AddressBy(regs'[c], ins, pc[c]) = AddressBy(regs[c], ins, pc[c])
  <2> HIDE DEF ins
  <2> QED
    BY <1>3, AddressBySame
<1> QED
  BY <1>1, <1>2, <1>4 DEF BranchFollowed

LEMMA CycleFollowsBranches ==
  ASSUME NEW c \in Cores, NEW word \in Values, FollowsOn(c, word), Follows(c)
  PROVE  FollowsBranches(c)'
<1> SUFFICES ASSUME NEW s \in {"decode", "execute", "mem"}, Checked(c, s)',
                    Unfinished(c, s)', stage'[c][s].pc \in Addresses
             PROVE  BranchFollowed(c, s)
  BY AddressAfterBy DEF FollowsBranches, BranchFollowed, AddressAfter, AddressBy, Operand
<1>1. s \in Stages /\ OperationsDecoded(c)
  BY FollowsFacts DEF Stages
<1>2. Came(c, s, Origin(memoryStall'[c], s))
  BY <1>1, StagesCame DEF FollowsOn, Follows
<1>3. halted'[c] = (halted[c] \/ Halts(c))
  BY CyclesAre DEF CycleSets
<1>4. ASSUME NEW o \in {"decode", "execute", "mem"}, Came(c, s, o),
             ~(o = "decode" /\ Decodes(c)),
             stage'[c][s].pc = stage[c][o].pc, Behind(c, s)' = Behind(c, o)
      PROVE  BranchFollowed(c, s)
  <2>1. /\ Checked(c, o) /\ stage'[c][s].ins = stage[c][o].ins
        /\ stage[c][o].ins.op \in BranchOps =>
             stage'[c][s].result = stage[c][o].result
    BY <1>4 DEF Came, FollowsOn
  <2>2. Unfinished(c, o)
    BY <1>3, <1>4, <2>1 DEF Unfinished, Came
  <2> QED
    BY <1>4, <2>1, <2>2, KeptIsFollowed
<1>5. CASE CycleStalls(c) /\ memoryStall'[c]
  <2>1. CASE s = "decode"
    <3>1. ~halted'[c]
      BY <1>5, <2>1, StallFront DEF FollowsOn, Checked
    <3>2. stage'[c]["decode"] = DecodeExecuted(c)
      BY <1>5, <3>1, StallFront DEF FollowsOn
    <3>3. CASE Decodes(c)
      BY <1>5, <2>1, <3>1, <3>2, <3>3, StallBehind, DecodedIsFollowed
    <3>4. CASE ~Decodes(c)
      <4>1. Behind(c, "decode")' = Behind(c, "decode")
        BY <1>5, <3>1, <3>4, StallBehind
      <4>2. stage'[c]["decode"].pc = stage[c]["decode"].pc
        BY <3>2, ExecutedKeeps DEF Follows
      <4> QED
        BY <1>2, <1>4, <1>5, <2>1, <3>4, <4>1, <4>2 DEF Origin
    <3> QED
      BY <3>3, <3>4
  <2>2. CASE s \in {"execute", "mem"}
    BY <1>2, <1>4, <1>5, <2>2, StallRear, StallBehind DEF Origin
  <2> QED
    BY <2>1, <2>2
<1>6. CASE Accepts(c, word) /\ ~memoryStall'[c]
  <2>1. s # "decode"
    <3>1. CycleMoves(c, word) => s # "decode"
      BY <1>1, MoveCame DEF Follows
    <3>2. CycleBubbles(c, word) => s # "decode"
      BY BubbleFront DEF Checked, Held, Full
    <3> QED
      BY <1>6, <3>1, <3>2 DEF Accepts
  <2>2. CASE s = "execute"
    <3>1. CycleMoves(c, word)
      BY <1>6, <2>2, BubbleFront DEF Accepts, Checked
    <3>2. /\ stage'[c]["execute"] = DecodeExecuted(c)
          /\ stage'[c]["execute"].pc = stage[c]["decode"].pc
      BY <2>2, <3>1, MoveFront DEF Checked
    <3>3. Behind(c, "execute")' = IF Decodes(c) THEN <<pc[c], PcResolved(c)>>
                                                ELSE Behind(c, "decode")
      BY <1>6, <2>2, AcceptedBehind
    <3>4. CASE Decodes(c)
      BY <2>2, <3>2, <3>3, <3>4, DecodedIsFollowed
    <3>5. CASE ~Decodes(c)
      BY <1>2, <1>4, <1>6, <2>2, <3>2, <3>3, <3>5 DEF Origin
    <3> QED
      BY <3>4, <3>5
  <2>3. CASE s = "mem"
    <3>1. Behind(c, "mem")' = Behind(c, "execute")
      BY <1>6, AcceptedBehind
    <3>2. stage'[c]["mem"].pc = stage[c]["execute"].pc
      BY <1>6, <2>3, AcceptedRear DEF Checked
    <3> QED
      BY <1>2, <1>4, <1>6, <2>3, <3>1, <3>2 DEF Origin
  <2> QED
    BY <2>1, <2>2, <2>3
<1> QED
  BY <1>5, <1>6, CyclesAre

\* EXECUTE reads registers that hold what the older instructions computed, but
\* for R1, which is read as the immediate.
ResultBy(rr, ins) ==
  LET Word(r) == IF r = ImmediateRegister THEN ins.imm ELSE rr[r]
  IN  Alu(ins.op, Word(ins.rs), Word(ins.rt))

LEMMA ComputedHolds ==
  ASSUME NEW c \in Cores, NEW word \in Values, FollowsOn(c, word), Follows(c),
         Full(c, "execute"), stage[c]["execute"].ins.op \in AluOps
  PROVE  LET ins == stage[c]["execute"].ins
         IN  /\ ExecuteExecuted(c).result = ResultBy(regs'[c], ins)
             /\ \A older \in {"mem", "writeback"} : Full(c, older) =>
                  UncheckedResult(stage[c][older].ins) \cap Sources(ins) = {}
<1> DEFINE e   == stage[c]["execute"]
           ins == e.ins
<1>1. /\ Before("execute") = {"mem", "writeback"}
      /\ "execute" \in Stages /\ "writeback" \in Stages
      /\ e \in StageRecords
  BY FollowsFacts DEF Before, Stages
<1>2. /\ ExecuteExecuted(c).result = ResultBy(regs[c], ins)
      /\ \A older \in {"mem", "writeback"} : Full(c, older) =>
           UncheckedResult(stage[c][older].ins) \cap Sources(ins) = {}
  <2>1. CASE memoryStall[c]
    <3>1. ExecuteExecuted(c) = e
      BY <2>1 DEF ExecuteExecuted, Computes
    <3> QED
      BY <1>1, <2>1, <3>1, FollowsFacts DEF HoldsResults, ResultBy, Operand
  <2>2. CASE ~memoryStall[c]
    <3>1. Computes(c) /\ Reads(c, "execute")
      BY <2>2 DEF Computes, Reads
    <3>2. e.operation = ins.op
      <4>1. ~CallsNull(c)
        BY CycleRecords, FollowsFacts DEF FollowsOn, Follows
      <4> QED
        BY <1>1, <3>1, <4>1, FollowsFacts DEF CallsNull, OperationsDecoded
    <3>3. ExecuteExecuted(c).result = ResultBy(regs[c], ins)
      BY <1>1, <3>1, <3>2 DEF ExecuteExecuted, ResultBy, Operand, StageRecords
    <3>4. \A older \in {"mem", "writeback"} : Full(c, older) =>
            UncheckedResult(stage[c][older].ins) \cap Sources(ins) = {}
      BY <1>1, <3>1 DEF ReadsStale, FollowsOn
    <3> QED
      BY <3>3, <3>4
  <2> QED
    BY <2>1, <2>2
<1>3. ASSUME NEW r \in Sources(ins) \ {ImmediateRegister}
      PROVE  regs'[c][r] = regs[c][r]
  <2>1. RegistersWritten(c)[r] = regs[c][r]
    BY <1>2, <1>3, SettledUndisturbed, FollowsFacts DEF Follows, Checked
  <2> QED
    BY <2>1, CyclesAre DEF CycleSets
<1>4. ResultBy(regs'[c], ins) = ResultBy(regs[c], ins)
  <2>1. {ins.rs, ins.rt} \subseteq Sources(ins)
    BY DEF Sources
  <2> QED
    BY <1>3, <2>1 DEF ResultBy
<1> QED
  BY <1>2, <1>4

LEMMA CycleHoldsResults ==
  ASSUME NEW c \in Cores, NEW word \in Values, FollowsOn(c, word), Follows(c)
  PROVE  HoldsResults(c)'
<1> SUFFICES ASSUME NEW s \in {"execute", "mem"}, Full(c, s)',
                    stage'[c][s].ins.op \in AluOps, s = "mem" \/ memoryStall'[c]
             PROVE  /\ stage'[c][s].result = ResultBy(regs'[c], stage'[c][s].ins)
                    /\ \A older \in Before(s) : Full(c, older)' =>
                         UncheckedResult(stage'[c][older].ins)
                           \cap Sources(stage'[c][s].ins) = {}
  BY DEF HoldsResults, ResultBy, Operand
<1>1. /\ Before("execute") = {"mem", "writeback"} /\ Before("mem") = {"writeback"}
      /\ ExecuteExecuted(c).ins = stage[c]["execute"].ins
  BY ExecutedKeeps DEF Before, Follows
<1>2. CASE CycleStalls(c) /\ memoryStall'[c]
  <2>1. s = "execute"
    BY <1>2, StallRear DEF AccessesData, MemoryOps, AluOps
  <2>2. Full(c, "execute") /\ stage[c]["execute"].ins.op \in AluOps
    BY <1>2, <2>1, StallRear DEF Full
  <2> QED
    BY <1>1, <1>2, <2>1, <2>2, StallRear, ComputedHolds DEF Full
<1>3. CASE Accepts(c, word) /\ ~memoryStall'[c]
  <2>1. s = "mem"
    BY <1>3
  <2>2. /\ Full(c, "execute") /\ stage[c]["execute"].ins.op \in AluOps
        /\ stage'[c]["mem"] = ExecuteExecuted(c)
    BY <1>1, <1>3, <2>1, AcceptedRear
  <2> QED
    BY <1>1, <1>3, <2>1, <2>2, AcceptedRear, ComputedHolds
<1> QED
  BY <1>2, <1>3, CyclesAre

LEMMA CycleRemembersHalt ==
  ASSUME NEW c \in Cores, NEW word \in Values, FollowsOn(c, word), Follows(c)
  PROVE  /\ RemembersHalt(c)'
         /\ haltAt' \in [Cores -> Nat \X Nat]
<1> DEFINE d == stage[c]["decode"]
<1>1. CycleSets(c) /\ OperationsDecoded(c)
  BY CyclesAre, FollowsFacts
<1>2. haltAt' \in [Cores -> Nat \X Nat]
  <2>1. d.pc \in Nat /\ pc[c] \in Nat
    BY FollowsFacts, NoPcIsNatural DEF Stages, StageRecords, Pcs
  <2> QED
    BY <2>1 DEF FollowsOn, Follows
<1>3. Halts(c) => /\ haltAt'[c] = <<d.pc, pc[c]>> /\ ~halted[c]
                  /\ Full(c, "decode") /\ d.ins.op = "halt"
  BY FollowsFacts DEF FollowsOn, Follows, Halts, Decodes, HaltEmpties
<1>4. ASSUME halted'[c], haltAt'[c][1] \in Addresses
      PROVE  imem'[c][haltAt'[c][1]].op = "halt"
  <2>1. CASE Halts(c)
    BY <1>1, <1>3, <1>4, <2>1, FollowsFacts DEF CycleSets, HoldsProgram, Stages
  <2>2. CASE ~Halts(c)
    BY <1>1, <1>4, <2>2, FollowsFacts DEF CycleSets, RemembersHalt, FollowsOn
  <2> QED
    BY <2>1, <2>2
<1>5. stage'[c]["fetch"].result = 0
  BY CyclesAre, StallFront, BubbleFront, MoveFront DEF FollowsOn, Accepts
<1>6. ASSUME NEW s \in Stages, Full(c, s)', stage'[c][s].ins.op = "halt"
      PROVE  /\ stage'[c][s].result = 0
             /\ s \in {"execute", "mem", "writeback"} =>
                  haltAt'[c][1] = stage'[c][s].pc
  <2>1. ASSUME NEW o \in {"execute", "mem", "writeback"}, Full(c, o),
               stage[c][o].ins.op = "halt"
        PROVE  stage[c][o].result = 0 /\ haltAt'[c][1] = stage[c][o].pc
    <3>1. halted[c]
      BY <2>1, FollowsFacts DEF HaltIsLast, Before, Stages
    <3> QED
      BY <1>3, <2>1, <3>1, FollowsFacts DEF RemembersHalt, Stages, FollowsOn
  <2>2. Full(c, "decode") /\ d.ins.op = "halt" => d.result = 0 /\ d.operation = "null"
    BY <1>1, FollowsFacts DEF RemembersHalt, OperationsDecoded, Stages
  <2>3. d.ins.op = "halt" => DecodeExecuted(c) = d
    BY DEF DecodeExecuted, Halts
  <2>4. \A f \in FetchExecuted(c) : f.result = 0
    BY FetchStep DEF FollowsOn
  <2>5. /\ stage[c]["execute"].ins.op = "halt" =>
             ExecuteExecuted(c) = stage[c]["execute"]
        /\ stage[c]["mem"].ins.op = "halt" =>
             MemExecuted(c, word) = stage[c]["mem"]
        /\ DecodeExecuted(c).ins = d.ins
        /\ ExecuteExecuted(c).ins = stage[c]["execute"].ins
        /\ MemExecuted(c, word).ins = stage[c]["mem"].ins
    BY ExecutedKeeps DEF Follows, ExecuteExecuted, Computes, AluOps, MemExecuted, Loads,
                         Stores
  <2>6. CASE CycleStalls(c) /\ memoryStall'[c]
    <3>1. CASE s = "fetch"
      BY <1>5, <3>1
    <3>2. CASE s = "decode"
      BY <1>6, <2>2, <2>3, <2>5, <2>6, <3>2, StallFront DEF FollowsOn
    <3>3. CASE s = "execute"
      BY <1>6, <2>1, <2>5, <2>6, <3>3, StallRear DEF Full
    <3>4. s \notin {"mem", "writeback"}
      BY <1>6, <2>6, StallRear DEF AccessesData, MemoryOps
    <3> QED
      BY <3>1, <3>2, <3>3, <3>4 DEF Stages
  <2>7. CASE Accepts(c, word) /\ ~memoryStall'[c]
    <3>1. CASE s = "fetch"
      BY <1>5, <3>1
    <3>2. CASE s = "decode" /\ CycleBubbles(c, word)
      <4>1. stage'[c]["decode"] = d
        BY <1>6, <3>2, BubbleFront, FollowsFacts
      <4> QED
        BY <1>6, <2>2, <3>2, <4>1 DEF Full
    <3>3. CASE s = "decode" /\ CycleMoves(c, word)
      BY <1>6, <2>4, <3>3, MoveFront
    <3>4. CASE s = "execute"
      <4>1. CycleMoves(c, word)
        BY <1>6, <2>7, <3>4, BubbleFront DEF Accepts
      <4>2. /\ Full(c, "decode") /\ d.ins.op = "halt" /\ stage'[c]["execute"] = d
            /\ stage'[c]["execute"].result = 0
        BY <1>6, <2>2, <2>3, <2>5, <3>4, <4>1, MoveFront
      <4>3. Decodes(c)
        BY <2>2, <4>1, <4>2, MoveFront DEF Checked
      <4>4. Halts(c)
        BY <4>2, <4>3 DEF Halts
      <4> QED
        BY <1>3, <3>4, <4>2, <4>4
    <3>5. CASE s \in {"mem", "writeback"}
      BY <1>6, <2>1, <2>5, <2>7, <3>5, AcceptedRear
    <3> QED
      BY <2>7, <3>1, <3>2, <3>3, <3>4, <3>5 DEF Accepts, Stages
  <2> QED
    BY <2>6, <2>7, CyclesAre
<1> QED
  BY <1>2, <1>4, <1>5, <1>6 DEF RemembersHalt

(***************************************************************************)
(* How far the instructions of a core that follows its program get in a    *)
(* cycle: held by a stall, moved on behind a hole by a hazard, or moved on *)
(* with one behind them, unless the HALT has been decoded.                 *)
(***************************************************************************)
LEMMA CycleShifts ==
  ASSUME NEW c \in Cores, NEW word \in Values, FollowsOn(c, word), Follows(c)
  PROVE  /\ dataHazardStall'[c] = Hazard(c)
         /\ halted'[c] = (halted[c] \/ Halts(c))
         /\ Full(c, "decode")' <=> ~halted'[c]
         /\ halted[c] \/ Hazard(c) \/ memoryStall'[c] =>
              stage'[c]["decode"].ins = stage[c]["decode"].ins
         /\ memoryStall'[c] =>
              /\ Full(c, "mem") /\ ~Full(c, "writeback")'
              /\ \A s \in {"execute", "mem"} :
                   /\ Full(c, s)' <=> Full(c, s)
                   /\ stage'[c][s].ins = stage[c][s].ins
         /\ ~memoryStall'[c] =>
              /\ Full(c, "mem")' <=> Full(c, "execute")
              /\ Full(c, "execute") => stage'[c]["mem"].ins = stage[c]["execute"].ins
              /\ Full(c, "writeback")' <=> Full(c, "mem")
              /\ Full(c, "mem") => stage'[c]["writeback"].ins = stage[c]["mem"].ins
              /\ Full(c, "execute")' <=> Full(c, "decode") /\ ~Hazard(c)
              /\ Full(c, "execute")' =>
                   stage'[c]["execute"].ins = stage[c]["decode"].ins
         /\ halted[c] => ~Full(c, "decode")
         /\ ~halted[c] /\ Full(c, "execute") => stage[c]["execute"].ins.op # "halt"
         /\ ~halted[c] /\ Full(c, "mem") => stage[c]["mem"].ins.op # "halt"
         /\ ~halted[c] /\ ~Full(c, "decode") =>
              ~Full(c, "execute") /\ ~Full(c, "mem") /\ ~Full(c, "writeback")
<1>1. dataHazardStall'[c] = Hazard(c)
  <2>1. dataHazardStall' = [dataHazardStall EXCEPT ![c] = Hazard(c)]
    BY DEF FollowsOn, Cycles, CycleStalls, CycleBubbles, CycleMoves, Execute
  <2> QED
    BY <2>1 DEF Follows, PipelineTypeOK
<1>2. /\ halted[c] => ~Full(c, "decode") /\ ~Full(c, "fetch")
      /\ ~halted[c] /\ Full(c, "execute") => stage[c]["execute"].ins.op # "halt"
      /\ ~halted[c] /\ Full(c, "mem") => stage[c]["mem"].ins.op # "halt"
      /\ ~halted[c] /\ ~Full(c, "decode") =>
           ~Full(c, "execute") /\ ~Full(c, "mem") /\ ~Full(c, "writeback")
  BY FollowsFacts DEF HaltEmpties, HaltIsLast, FillsInOrder, Before, Stages
<1>3. /\ DecodeExecuted(c).ins = stage[c]["decode"].ins
      /\ DecodeExecuted(c).pc = stage[c]["decode"].pc
      /\ DecodeExecuted(c) \in StageRecords /\ stage[c]["decode"] \in StageRecords
  BY ExecutedKeeps, FetchAndDecodeTypes, FollowsFacts DEF Follows, Stages
<1>4. CASE CycleStalls(c)
  <2>1. PICK f \in FetchExecuted(c) :
          StagesBecome(c, f, DecodeExecuted(c), ExecuteExecuted(c),
                       MemRefused(c), Emptied(stage[c]["writeback"]))
    BY <1>4 DEF CycleStalls
  <2>2. stage'[c]["decode"] = EmptiedIf(halted'[c], DecodeExecuted(c))
    BY <2>1, StagesAfter DEF Follows
  <2>3. stage'[c]["decode"].ins = stage[c]["decode"].ins
    BY <1>3, <2>2 DEF EmptiedIf, Emptied, StageRecords
  <2>4. ~halted'[c] => Full(c, "decode")'
    BY <1>3, <1>4, StallFront DEF FollowsOn, Full
  <2> QED
    BY <1>1, <1>2, <1>4, <2>3, <2>4, StallFront, StallRear DEF FollowsOn, Full
<1>5. CASE CycleBubbles(c, word)
  <2>1. PICK f \in FetchExecuted(c) :
          StagesBecome(c, f, DecodeExecuted(c), Emptied(ExecuteExecuted(c)),
                       Bubbled(ExecuteExecuted(c), stage[c]["mem"]),
                       Bubbled(MemExecuted(c, word), stage[c]["writeback"]))
    BY <1>5 DEF CycleBubbles
  <2>2. stage'[c]["decode"] = EmptiedIf(halted'[c], DecodeExecuted(c))
    BY <2>1, StagesAfter DEF Follows
  <2>3. stage'[c]["decode"].ins = stage[c]["decode"].ins
    BY <1>3, <2>2 DEF EmptiedIf, Emptied, StageRecords
  <2>4. Hazard(c) /\ Accepts(c, word) /\ ~Halts(c)
    BY <1>5 DEF CycleBubbles, Accepts, Halts, Decodes
  <2>5. Full(c, "decode")' <=> ~halted'[c]
    BY <1>5, BubbleFront DEF Held, Full
  <2> QED
    BY <1>1, <1>2, <1>5, <2>3, <2>4, <2>5, BubbleFront, AcceptedSets, AcceptedRear
<1>6. CASE CycleMoves(c, word)
  <2>1. PICK f \in FetchExecuted(c) :
          StagesBecome(c, f, Bubbled(f, stage[c]["decode"]),
                       Bubbled(DecodeExecuted(c), stage[c]["execute"]),
                       Bubbled(ExecuteExecuted(c), stage[c]["mem"]),
                       Bubbled(MemExecuted(c, word), stage[c]["writeback"]))
    BY <1>6 DEF CycleMoves
  <2>2. stage'[c]["decode"] = EmptiedIf(halted'[c], Bubbled(f, stage[c]["decode"]))
    BY <2>1, StagesAfter DEF Follows
  <2>3. ~Hazard(c) /\ Accepts(c, word)
    BY <1>6 DEF CycleMoves, Accepts
  <2>4. ~memoryStall'[c] /\ halted'[c] = (halted[c] \/ Halts(c))
    BY <2>3, AcceptedSets
  <2>5. ASSUME halted[c] PROVE stage'[c]["decode"].ins = stage[c]["decode"].ins
    <3>1. f = stage[c]["fetch"]
      BY <2>1, <2>5 DEF FetchExecuted, Fetches
    <3>2. f.pc = NoPc
      BY <1>2, <2>5, <3>1 DEF Full
    <3> QED
      BY <1>3, <2>2, <3>2 DEF EmptiedIf, Emptied, Bubbled, StageRecords
  <2> QED
    BY <1>1, <1>2, <1>6, <2>3, <2>4, <2>5, MoveFront, AcceptedRear
<1> QED
  BY <1>4, <1>5, <1>6 DEF FollowsOn, Cycles

-----------------------------------------------------------------------------
(***************************************************************************)
(* The invariant over the steps of all cores.                              *)
(***************************************************************************)
CoreUnchanged(c) ==
  /\ stage'[c] = stage[c] /\ regs'[c] = regs[c] /\ halted'[c] = halted[c]
  /\ memoryStall'[c] = memoryStall[c] /\ pc'[c] = pc[c] /\ imem'[c] = imem[c]
  /\ haltAt'[c] = haltAt[c]

LEMMA UnchangedViews ==
  ASSUME NEW c \in Cores, CoreUnchanged(c)
  PROVE  /\ \A s \in Stages : /\ Full(c, s)' = Full(c, s)
                              /\ Checked(c, s)' = Checked(c, s)
                              /\ Unfinished(c, s)' = Unfinished(c, s)
         /\ Held(c)' = Held(c) /\ AccessesData(c)' = AccessesData(c)
         /\ ToFetch(c)' = ToFetch(c)
         /\ \A s \in {"decode", "execute", "mem"} : Behind(c, s)' = Behind(c, s)
         /\ Upcoming(c)' = Upcoming(c)
         /\ RegistersWritten(c)' = RegistersWritten(c)
         /\ Stopped(c)' = Stopped(c)
<1>1. /\ \A s \in Stages : /\ Full(c, s)' = Full(c, s)
                           /\ Checked(c, s)' = Checked(c, s)
                           /\ Unfinished(c, s)' = Unfinished(c, s)
      /\ Held(c)' = Held(c) /\ AccessesData(c)' = AccessesData(c)
  BY DEF CoreUnchanged, Full, Checked, Unfinished, Held, AccessesData
<1>2. ToFetch(c)' = ToFetch(c)
  BY <1>1 DEF ToFetch, CoreUnchanged
<1>3. /\ \A s \in {"decode", "execute", "mem"} : Behind(c, s)' = Behind(c, s)
      /\ Upcoming(c)' = Upcoming(c)
  BY <1>1, <1>2 DEF Behind, Ahead, Upcoming, CoreUnchanged, Stages
<1>4. RegistersWritten(c)' = RegistersWritten(c)
  BY DEF RegistersWritten, CoreUnchanged, Full
<1>5. Stopped(c)' = Stopped(c)
  BY DEF Stopped, CoreUnchanged, Full
<1> QED
  BY <1>1, <1>2, <1>3, <1>4, <1>5

LEMMA OtherCoreHoldsProgram ==
  ASSUME NEW c \in Cores, CoreUnchanged(c), InProgramOrder(c)
  PROVE  InProgramOrder(c)'
<1>1. \A s \in Stages : /\ Full(c, s)' = Full(c, s)
                        /\ Checked(c, s)' = Checked(c, s)
                        /\ Unfinished(c, s)' = Unfinished(c, s)
  BY UnchangedViews
<1>2. \A s \in Stages : Before(s) \subseteq Stages
  BY DEF Before, Stages
<1>3. HoldsProgram(c)' = HoldsProgram(c)
  BY <1>1 DEF HoldsProgram, CoreUnchanged
<1>4. FillsInOrder(c)' = FillsInOrder(c)
  BY <1>1, UnchangedViews DEF FillsInOrder, CoreUnchanged, Stages
<1>5. FollowsBranches(c)'
  <2>1. SUFFICES ASSUME NEW s \in {"decode", "execute", "mem"}, Checked(c, s)',
                        Unfinished(c, s)', stage'[c][s].pc \in Addresses
                 PROVE  BranchFollowed(c, s)
    BY AddressAfterBy
       DEF FollowsBranches, BranchFollowed, AddressAfter, AddressBy, Operand
  <2>2. s \in Stages /\ Behind(c, s)' = Behind(c, s)
    BY UnchangedViews DEF Stages
  <2> QED
    BY <1>1, <2>1, <2>2, AddressAfterBy
       DEF InProgramOrder, FollowsBranches, BranchFollowed, CoreUnchanged
<1>6. HoldsResults(c)' = HoldsResults(c)
  BY <1>1, <1>2 DEF HoldsResults, CoreUnchanged, Operand, Stages
<1>7. RemembersHalt(c)' = RemembersHalt(c)
  BY <1>1 DEF RemembersHalt, CoreUnchanged
<1> QED
  BY <1>3, <1>4, <1>5, <1>6, <1>7 DEF InProgramOrder

LEMMA CycleLeavesCores ==
  ASSUME PipelineTypeOK, haltAt \in [Cores -> Nat \X Nat], NEW c \in Cores,
         NEW word, Cycles(c, word), NEW accepted, Watch(c, accepted),
         NEW o \in Cores \ {c}
  PROVE  CoreUnchanged(o)
<1>1. PICK b \in BOOLEAN : Execute(c, b)
  BY DEF Cycles, CycleStalls, CycleBubbles, CycleMoves
<1>2. pc'[o] = pc[o] /\ imem' = imem
  BY <1>1 DEF Execute, PipelineTypeOK
<1>3. haltAt'[o] = haltAt[o]
  BY DEF Watch
<1> QED
  BY <1>2, <1>3, CycleLeavesOthers DEF CoreUnchanged

LEMMA WatchedHaltType ==
  ASSUME PipelineTypeOK, haltAt \in [Cores -> Nat \X Nat], NEW c \in Cores,
         NEW accepted, Watch(c, accepted)
  PROVE  haltAt' \in [Cores -> Nat \X Nat]
<1>1. stage[c]["decode"].pc \in Nat /\ pc[c] \in Nat
  BY StagesAreRecords, NoPcIsNatural DEF PipelineTypeOK, Stages, Pcs
<1> QED
  BY <1>1 DEF Watch

LEMMA FollowsWhileNotStrayed ==
  ASSUME IsaInv, NEW c \in Cores, NEW word \in Values, Cycles(c, word),
         NEW accepted \in BOOLEAN, accepted = ~memoryStall'[c], Watch(c, accepted),
         ~strayed'[c]
  PROVE  Follows(c) /\ FollowsOn(c, word)
<1>1. ~strayed[c] /\ ~Slips(c, accepted) /\ ~ReadsStale(c) /\ ~FetchesNoPc(c)
  BY WatchSees DEF IsaInv, PipelineInv
<1> QED
  BY <1>1 DEF IsaInv, PipelineInv, InstructionsInOrder, Follows, FollowsOn, Watch

LEMMA CycleKeepsIsaInv ==
  ASSUME IsaInv, NEW c \in Cores, NEW word \in Values, Cycles(c, word),
         NEW accepted \in BOOLEAN, accepted = ~memoryStall'[c], Watch(c, accepted)
  PROVE  IsaInv'
<1>1. PipelineInv' /\ haltAt' \in [Cores -> Nat \X Nat]
  BY CycleKeepsPipelineInv, WatchedHaltType DEF IsaInv, PipelineInv
<1>2. ASSUME ~strayed'[c] PROVE InProgramOrder(c)'
  <2>1. Follows(c) /\ FollowsOn(c, word)
    BY <1>2, FollowsWhileNotStrayed
  <2> QED
    BY <2>1, CycleHoldsProgram, CycleFillsInOrder, CycleFollowsBranches,
       CycleHoldsResults, CycleRemembersHalt DEF InProgramOrder
<1>3. ASSUME NEW o \in Cores \ {c}, ~strayed'[o] PROVE InProgramOrder(o)'
  <2>1. ~strayed[o]
    BY <1>3, WatchSees DEF IsaInv, PipelineInv
  <2> QED
    BY <1>3, <2>1, CycleLeavesCores, OtherCoreHoldsProgram DEF IsaInv, PipelineInv
<1> QED
  BY <1>1, <1>2, <1>3 DEF IsaInv

LEMMA StopKeepsIsaInv ==
  ASSUME IsaInv, NEW c \in Cores,
         Crashes(c) \/ CoreHalts(c) \/ UNCHANGED pipelineVars, UNCHANGED watchVars
  PROVE  /\ IsaInv' /\ \A o \in Cores : CoreUnchanged(o)
<1>1. /\ UNCHANGED <<imem, pc, regs, stage, halted, memoryStall, haltAt, strayed>>
  BY DEF Crashes, CoreHalts, pipelineVars, coreVars, watchVars
<1>2. PipelineInv'
  BY <1>1, StopKeepsPipelineInv DEF IsaInv
<1>3. \A o \in Cores : CoreUnchanged(o)
  BY <1>1 DEF CoreUnchanged
<1> QED
  BY <1>1, <1>2, <1>3, OtherCoreHoldsProgram DEF IsaInv

LEMMA InitIsaInv ==
  ASSUME PipelineInit, WatchInit
  PROVE  IsaInv
<1>1. PipelineInv
  BY InitPipelineInv
<1>2. ASSUME NEW c \in Cores PROVE InProgramOrder(c)
  <2>1. /\ \A s \in Stages \ {"fetch"} : stage[c][s] = EmptyStage
        /\ stage[c]["fetch"] = [EmptyStage EXCEPT !.pc = 0]
        /\ ~halted[c] /\ ~memoryStall[c]
    BY DEF PipelineInit, InitialStages, Stages
  <2>2. \A s \in Stages \ {"fetch"} : ~Full(c, s)
    BY <2>1 DEF Full, EmptyStage
  <2>3. stage[c]["fetch"].result = 0 /\ stage[c]["fetch"].ins.op = "add"
    BY <2>1 DEF EmptyStage, ZeroInstruction
  <2>4. HoldsProgram(c) /\ FillsInOrder(c)
    BY <2>1, <2>2 DEF HoldsProgram, FillsInOrder, Stages
  <2>5. FollowsBranches(c) /\ HoldsResults(c)
    BY <2>2 DEF FollowsBranches, HoldsResults, Unfinished, Stages
  <2>6. RemembersHalt(c)
    BY <2>1, <2>2, <2>3 DEF RemembersHalt, Stages
  <2> QED
    BY <2>4, <2>5, <2>6 DEF InProgramOrder
<1>3. haltAt \in [Cores -> Nat \X Nat]
  BY DEF WatchInit
<1> QED
  BY <1>1, <1>2, <1>3 DEF IsaInv

LEMMA SoloStepKeepsIsaInv ==
  ASSUME IsaInv, MemoriesTypeOK, [SoloNext]_soloVars
  PROVE  IsaInv'
<1>1. ASSUME NEW c \in Cores, Refused(c) \/ Answered(c) PROVE IsaInv'
  BY <1>1, AnswerIsACycle, CycleKeepsIsaInv DEF IsaInv
<1>2. ASSUME NEW c \in Cores,
             (Crashes(c) \/ CoreHalts(c) \/ UNCHANGED pipelineVars),
             UNCHANGED watchVars
      PROVE  IsaInv'
  BY <1>2, StopKeepsIsaInv
<1>3. CASE UNCHANGED soloVars
  <2>1. UNCHANGED <<imem, pc, regs, stage, halted, memoryStall, haltAt, strayed>>
    BY <1>3 DEF soloVars, pipelineVars, coreVars, watchVars
  <2>2. PipelineInv' /\ \A o \in Cores : CoreUnchanged(o)
    BY <1>3, <2>1, SoloStepKeeps DEF IsaInv, CoreUnchanged
  <2> QED
    BY <2>1, <2>2, OtherCoreHoldsProgram DEF IsaInv
<1> QED
  BY <1>1, <1>2, <1>3 DEF SoloNext, Proceeds, SoloRests, soloVars, Rests

(***************************************************************************)
(* The stages hold the program in every reachable state in which the core  *)
(* has not strayed from it.                                                *)
(***************************************************************************)
THEOREM IsaInductive == SoloSpec => [](IsaInv /\ MemoriesTypeOK)
<1>1. SoloInit => IsaInv
  BY InitIsaInv DEF SoloInit
<1>2. IsaInv /\ MemoriesTypeOK /\ [SoloNext]_soloVars => IsaInv'
  BY SoloStepKeepsIsaInv
<1> QED
  BY <1>1, <1>2, PipelineInductive, PTL DEF SoloSpec

-----------------------------------------------------------------------------
(***************************************************************************)
(* The refinement: what a cycle of core c is in Isa.                       *)
(***************************************************************************)

\* The differences between the machine and its documentation.
AllQuirks == {"zero", "immediate", "target", "link", "halt"}

\* The registers that are not read as the immediate.
Kept == Registers \ {ImmediateRegister}

LEMMA GeneralIs ==
  ASSUME Quirks = AllQuirks, NEW c
  PROVE  GeneralAfterWriteback(c) = [r \in Kept |-> RegistersWritten(c)[r]]
<1>1. Registers \ ({ImmediateRegister} \cup
                   (IF "zero" \in Quirks THEN {} ELSE {ZeroRegister})) = Kept
  BY DEF Kept, AllQuirks
<1> QED
  BY <1>1 DEF GeneralAfterWriteback

\* The access in MEM is done on the memory that core c sees, and word answers it.
Served(c, word) ==
  /\ Loads(c) => word = dmem[c][DataCell(c)]
  /\ dmem'[c] = DataStored(c)

\* A core whose part of the state stays as it is takes no step in Isa.
LEMMA UnchangedStutters ==
  ASSUME NEW c \in Cores, CoreUnchanged(c)
  PROVE  UNCHANGED I(c)!coreVars
<1>1. /\ Upcoming(c)' = Upcoming(c) /\ RegistersWritten(c)' = RegistersWritten(c)
      /\ Stopped(c)' = Stopped(c) /\ imem'[c] = imem[c]
  BY UnchangedViews DEF CoreUnchanged
<1>2. GeneralAfterWriteback(c)' = GeneralAfterWriteback(c)
  BY <1>1 DEF GeneralAfterWriteback
<1> QED
  BY <1>1, <1>2 DEF I!coreVars

\* Isa has its own copy of the definitions in Opcodes.
LEMMA IsaVocabulary ==
  ASSUME NEW c
  PROVE  /\ I(c)!AluOps = AluOps /\ I(c)!BranchOps = BranchOps
         /\ I(c)!ImmediateRegister = ImmediateRegister
         /\ I(c)!LinkRegister = LinkRegister /\ I(c)!Registers = Registers
         /\ \A x : I(c)!Wrap(x) = Wrap(x)
         /\ \A op, a, b : I(c)!Taken(op, a, b) = Taken(op, a, b)
<1>1. /\ I(c)!AluOps = AluOps /\ I(c)!BranchOps = BranchOps
      /\ I(c)!ImmediateRegister = ImmediateRegister
      /\ I(c)!LinkRegister = LinkRegister /\ I(c)!Registers = Registers
  BY DEF I!AluOps, AluOps, I!BranchOps, BranchOps, I!ImmediateRegister,
         ImmediateRegister, I!LinkRegister, LinkRegister, I!Registers, Registers
<1>2. \A x : I(c)!Wrap(x) = Wrap(x)
  BY DEF I!Wrap, Wrap
<1>3. \A op, a, b : I(c)!Taken(op, a, b) = Taken(op, a, b)
  BY DEF I!Taken, Taken
<1> QED
  BY <1>1, <1>2, <1>3

LEMMA IsaAlu ==
  ASSUME NEW c, NEW op \in AluOps, NEW a, NEW b
  PROVE  I(c)!Alu(op, a, b) = Alu(op, a, b)
<1>1. \A x : I(c)!Wrap(x) = Wrap(x)
  BY IsaVocabulary
<1>2. \A x : I(c)!OneBits(x) = OneBits(x)
  BY DEF I!OneBits, OneBits
<1>3. \A S : I(c)!WordOf(S) = WordOf(S)
  BY <1>2 DEF I!WordOf, WordOf, I!Values, Values
<1>4. \A x : I(c)!Signed(x) = Signed(x)
  BY DEF I!Signed, Signed
<1>5. \A x : I(c)!ShiftCount(x) = ShiftCount(x)
  BY DEF I!ShiftCount, ShiftCount
<1>6. CASE op \in {"add", "sub", "mul"}
  BY <1>1, <1>6 DEF I!Alu, Alu
<1>7. CASE op \in {"and", "or", "xor"}
  <2> DEFINE A == OneBits(a)
             B == OneBits(b)
  <2>1. I(c)!OneBits(a) = A /\ I(c)!OneBits(b) = B
    BY <1>2
  <2>2. /\ I(c)!WordOf(A \cap B) = WordOf(A \cap B)
        /\ I(c)!WordOf(A \cup B) = WordOf(A \cup B)
        /\ I(c)!WordOf((A \cup B) \ (A \cap B)) = WordOf((A \cup B) \ (A \cap B))
    <3> HIDE DEF A, B
    <3> QED
      BY <1>3, Zenon
  <2>3. CASE op = "and"
    BY <2>1, <2>2, <2>3 DEF I!Alu, Alu
  <2>4. CASE op = "or"
    BY <2>1, <2>2, <2>4 DEF I!Alu, Alu
  <2>5. CASE op = "xor"
    BY <2>1, <2>2, <2>5 DEF I!Alu, Alu
  <2> QED
    BY <1>7, <2>3, <2>4, <2>5
<1>8. CASE op \in {"sll", "sra", "srl"}
  BY <1>1, <1>4, <1>5, <1>8 DEF I!Alu, Alu
<1> QED
  BY <1>6, <1>7, <1>8 DEF AluOps

\* A refused cycle changes nothing that Isa sees.
LEMMA RefusedStutters ==
  ASSUME NEW c \in Cores, NEW word \in Values, FollowsOn(c, word), Follows(c),
         CycleStalls(c), dmem'[c] = dmem[c]
  PROVE  UNCHANGED I(c)!isaVars
<1>1. Upcoming(c)' = Upcoming(c)
  BY StallBehind
<1>2. ~Full(c, "writeback")' /\ Full(c, "mem") /\ Full(c, "mem")'
  BY StallRear
<1>3. regs'[c] = RegistersWritten(c) /\ imem' = imem
  BY CyclesAre DEF CycleSets
<1>4. RegistersWritten(c)' = RegistersWritten(c)
  BY <1>2, <1>3 DEF RegistersWritten
<1>5. GeneralAfterWriteback(c)' = GeneralAfterWriteback(c)
  BY <1>4 DEF GeneralAfterWriteback
<1>6. Stopped(c)' = Stopped(c)
  BY <1>2 DEF Stopped, Stages
<1> QED
  BY <1>1, <1>3, <1>5, <1>6 DEF I!isaVars, I!coreVars

\* The registers, with the instruction that leaves MEM written.
LEMMA WrittenNext ==
  ASSUME NEW c \in Cores, NEW word \in Values, FollowsOn(c, word), Follows(c),
         Accepts(c, word)
  PROVE  LET m == stage[c]["mem"]
             G == RegistersWritten(c)
         IN  /\ G \in [Registers -> Values]
             /\ Full(c, "mem") =>
                  RegistersWritten(c)' =
                    [G EXCEPT ![Destination(m.ins)] = MemExecuted(c, word).result]
             /\ ~Full(c, "mem") => RegistersWritten(c)' = G
<1>1. regs'[c] = RegistersWritten(c)
  BY AcceptedSets
<1>2. /\ Full(c, "writeback")' <=> Full(c, "mem")
      /\ Full(c, "mem") => stage'[c]["writeback"] = MemExecuted(c, word)
      /\ MemExecuted(c, word).ins = stage[c]["mem"].ins
  BY AcceptedRear, ExecutedKeeps DEF Follows
<1>3. RegistersWritten(c) \in [Registers -> Values]
  BY CycleRecords, LaterStagesTypes, FollowsFacts DEF FollowsOn, Follows
<1> QED
  BY <1>1, <1>2, <1>3 DEF RegistersWritten

\* Nothing leaves MEM: nothing is executed, or a HALT that was dropped is.
LEMMA HoleIsStop ==
  ASSUME Quirks = AllQuirks, NEW c \in Cores, NEW word \in Values,
         FollowsOn(c, word), Follows(c), Accepts(c, word), ~Full(c, "mem"),
         dmem'[c] = dmem[c], Upcoming(c)[1] \in Addresses
  PROVE  I(c)!Next \/ UNCHANGED I(c)!isaVars
<1>1. Upcoming(c)' = Upcoming(c)
  BY AcceptedBehind DEF Upcoming, Ahead, Unfinished
<1>2. /\ imem' = imem /\ halted'[c] = (halted[c] \/ Halts(c))
      /\ GeneralAfterWriteback(c)' = GeneralAfterWriteback(c)
  BY AcceptedSets, WrittenNext DEF GeneralAfterWriteback
<1>3. /\ Full(c, "mem")' <=> Full(c, "execute")
      /\ ~Full(c, "writeback")'
  BY AcceptedRear
<1>4. Stopped(c) => Stopped(c)'
  <2>1. SUFFICES ASSUME Stopped(c) PROVE Stopped(c)'
    OBVIOUS
  <2>2. /\ halted'[c] /\ ~Full(c, "decode") /\ ~Full(c, "execute")
    BY <1>2, <2>1 DEF Stopped, Stages
  <2>3. ~Full(c, "fetch")' /\ ~Full(c, "decode")'
    BY <2>2, CycleKeepsHaltEmpties DEF HaltEmpties, FollowsOn, Follows,
                                       InstructionsInOrder
  <2>4. ~Full(c, "execute")'
    BY <2>2, BubbleFront, MoveFront DEF Accepts
  <2> QED
    BY <1>3, <2>2, <2>3, <2>4 DEF Stopped, Stages
<1>5. CASE Stopped(c)' = Stopped(c)
  BY <1>1, <1>2, <1>5 DEF I!isaVars, I!coreVars
<1>6. CASE Stopped(c)' # Stopped(c)
  <2>1. Stopped(c)' /\ ~Stopped(c)
    BY <1>4, <1>6 DEF Stopped
  <2>2. halted'[c] /\ ~Full(c, "execute")' /\ ~Full(c, "mem")'
    BY <2>1 DEF Stopped, Stages
  <2>3. ~Full(c, "execute")
    BY <1>3, <2>2
  <2>4. halted[c]
    <3>1. SUFFICES ASSUME Halts(c) PROVE FALSE
      BY <1>2, <2>2
    <3>2. Full(c, "decode") /\ Decodes(c)
      BY <3>1 DEF Halts, Decodes
    <3> QED
      BY <2>2, <3>2, BubbleFront, MoveFront DEF Accepts
  <2>5. ~Full(c, "decode") /\ ~Full(c, "fetch")
    BY <2>4, FollowsFacts DEF HaltEmpties
  <2>6. Upcoming(c)[1] = haltAt[c][1]
    BY <2>3, <2>4, <2>5 DEF Upcoming, Behind, Ahead, Unfinished, ToFetch
  <2>7. imem[c][Upcoming(c)[1]].op = "halt"
    BY <2>4, <2>6, FollowsFacts DEF RemembersHalt
  <2>8. I(c)!Stop
    BY <1>1, <1>2, <2>1, <2>7 DEF I!Stop, I!Current
  <2> QED
    BY <2>8 DEF I!Next
<1> QED
  BY <1>5, <1>6

\* What leaves MEM is written to the registers of Isa.
LEMMA WritesRegister ==
  ASSUME Quirks = AllQuirks, NEW c \in Cores, NEW r, NEW v,
         RegistersWritten(c) \in [Registers -> Values],
         RegistersWritten(c)' = [RegistersWritten(c) EXCEPT ![r] = v]
  PROVE  GeneralAfterWriteback(c)' = I(c)!With(r, v)
<1>1. I(c)!GeneralRegisters = Kept
  BY DEF I!GeneralRegisters, I!ReadOnly, I!Registers, Registers, Kept, AllQuirks,
         I!ImmediateRegister, ImmediateRegister
<1>2. /\ GeneralAfterWriteback(c) = [k \in Kept |-> RegistersWritten(c)[k]]
      /\ GeneralAfterWriteback(c)' = [k \in Kept |-> RegistersWritten(c)'[k]]
  BY GeneralIs DEF GeneralAfterWriteback, Kept, AllQuirks
<1> QED
  BY <1>1, <1>2 DEF I!With, Kept

\* A HALT leaves MEM, with nothing behind it.
LEMMA HaltIsStop ==
  ASSUME Quirks = AllQuirks, NEW c \in Cores, NEW word \in Values,
         FollowsOn(c, word), Follows(c), Accepts(c, word), Full(c, "mem"),
         stage[c]["mem"].ins.op = "halt", dmem'[c] = dmem[c],
         Upcoming(c)[1] \in Addresses
  PROVE  I(c)!Stop
<1> DEFINE m == stage[c]["mem"]
<1>1. /\ halted[c] /\ ~Full(c, "decode") /\ ~Full(c, "execute")
      /\ ~Full(c, "fetch")
  BY FollowsFacts DEF HaltIsLast, HaltEmpties, Before, Stages
<1>2. /\ halted'[c] /\ imem' = imem /\ ~Halts(c)
  BY <1>1, AcceptedSets DEF Halts, Decodes
<1>3. Upcoming(c) = haltAt[c]
  BY <1>1 DEF Upcoming, Behind, Ahead, Unfinished, ToFetch
<1>4. Upcoming(c)' = Upcoming(c)
  BY AcceptedBehind, <1>1 DEF Upcoming, Ahead, Unfinished
<1>5. m.result = 0 /\ haltAt[c][1] = m.pc
  BY FollowsFacts DEF RemembersHalt, Stages
<1>6. imem[c][Upcoming(c)[1]] = m.ins
  BY <1>3, <1>5, FollowsFacts DEF HoldsProgram, Stages
<1>7. ~Stopped(c) /\ Stopped(c)'
  <2>1. ~Stopped(c)
    BY DEF Stopped, Stages
  <2>2. /\ ~Full(c, "mem")'
        /\ Full(c, "writeback")' => stage'[c]["writeback"].ins.op = "halt"
    BY <1>1, AcceptedRear
  <2>3. ~Full(c, "fetch")' /\ ~Full(c, "decode")'
    BY <1>2, CycleKeepsHaltEmpties DEF HaltEmpties, FollowsOn, Follows,
                                       InstructionsInOrder
  <2>4. ~Full(c, "execute")'
    BY <1>1, BubbleFront, MoveFront DEF Accepts
  <2> QED
    BY <1>2, <2>1, <2>2, <2>3, <2>4 DEF Stopped, Stages
<1>8. RegistersWritten(c)' = [RegistersWritten(c) EXCEPT ![m.ins.rd] = 0]
  <2>1. MemExecuted(c, word).result = 0
    BY <1>5, ExecutedKeeps DEF Follows, MemoryOps
  <2> QED
    BY <2>1, WrittenNext DEF Destination
<1>9. GeneralAfterWriteback(c)' = I(c)!With(m.ins.rd, 0)
  BY <1>8, WrittenNext, WritesRegister
<1>10. "halt" \in Quirks
  BY DEF AllQuirks
<1> QED
  BY <1>2, <1>4, <1>6, <1>7, <1>9, <1>10 DEF I!Stop, I!Current, I!Set

\* Any other instruction leaves MEM, and is the one to execute.
Leaves(c, word) ==
  /\ FollowsOn(c, word) /\ Follows(c) /\ Accepts(c, word)
  /\ Full(c, "mem") /\ stage[c]["mem"].ins.op # "halt"
  /\ Upcoming(c)[1] \in Addresses

LEMMA LeavesInOrder ==
  ASSUME NEW c \in Cores, NEW word \in Values, Leaves(c, word)
  PROVE  /\ I(c)!Current = stage[c]["mem"].ins
         /\ I(c)!Proceed(AddressBy(regs[c], stage[c]["mem"].ins, Upcoming(c)[2]))
         /\ stage[c]["mem"].ins.op = "jal" =>
              stage[c]["mem"].result = Wrap(Upcoming(c)[2] + 1)
<1> DEFINE m == stage[c]["mem"]
           next == Behind(c, "mem")[1]
<1>1. Unfinished(c, "mem") /\ Checked(c, "mem")
  BY DEF Leaves, Unfinished, Checked
<1>2. Upcoming(c)[1] = m.pc /\ Upcoming(c)[2] = next
  BY <1>1 DEF Upcoming, Ahead
<1>3. imem[c][Upcoming(c)[1]] = m.ins /\ m.pc \in Addresses
  BY <1>2, FollowsFacts DEF Leaves, HoldsProgram, Stages
<1>4. Upcoming(c)' = Behind(c, "mem") /\ imem' = imem
  BY AcceptedBehind, AcceptedSets DEF Leaves
<1>5. /\ Behind(c, "mem")[2] = AddressBy(regs[c], m.ins, next)
      /\ m.ins.op = "jal" => m.result = Wrap(next + 1)
  BY <1>1, <1>3, FollowsFacts, AddressAfterBy DEF Leaves, FollowsBranches
<1>6. Stopped(c) = FALSE /\ Stopped(c)' = FALSE
  <2>1. ~Stopped(c)
    BY DEF Stopped, Stages, Leaves
  <2>2. Full(c, "writeback")' /\ stage'[c]["writeback"].ins.op # "halt"
    BY AcceptedRear DEF Leaves
  <2> QED
    BY <2>1, <2>2 DEF Stopped
<1> QED
  BY <1>2, <1>3, <1>4, <1>5, <1>6 DEF I!Current, I!Proceed

\* The registers it reads are those of Isa, for nothing older is yet to change
\* them.
LEMMA LeavesReading ==
  ASSUME Quirks = AllQuirks, NEW c \in Cores, NEW word \in Values, Leaves(c, word),
         NEW r \in Sources(stage[c]["mem"].ins)
  PROVE  /\ I(c)!R(r) = Operand(c, stage[c]["mem"].ins, r)
         /\ r # ImmediateRegister => RegistersWritten(c)[r] = regs[c][r]
<1> DEFINE ins == stage[c]["mem"].ins
<1>1. /\ ins \in Instructions /\ "writeback" \in Before("mem")
      /\ "mem" \in Stages /\ "writeback" \in Stages
  BY FollowsFacts DEF Leaves, Before, Stages, StageRecords
<1>2. Full(c, "mem") /\ Checked(c, "mem")
  BY DEF Leaves, Checked
<1>3. Full(c, "writeback") =>
        UncheckedResult(stage[c]["writeback"].ins) \cap Sources(ins) = {}
  <2>1. CASE ins.op \in BranchOps
    BY <1>1, <1>2, <2>1, FollowsFacts DEF Leaves, BranchesUpToDate
  <2>2. CASE ins.op \in AluOps
    BY <1>1, <1>2, <2>2, FollowsFacts DEF Leaves, HoldsResults
  <2>3. CASE ins.op \in MemoryOps
    <3>1. Reads(c, "mem")
      BY <1>2, <2>3 DEF Reads, AccessesData
    <3> QED
      BY <1>1, <3>1 DEF Leaves, FollowsOn, ReadsStale
  <2> QED
    BY <1>1, <2>1, <2>2, <2>3 DEF Leaves, Instructions, Ops
<1>4. r # ImmediateRegister => RegistersWritten(c)[r] = regs[c][r]
  BY <1>2, <1>3, SettledUndisturbed, FollowsFacts DEF Leaves, Follows
<1>5. /\ I(c)!GeneralRegisters = Kept /\ I(c)!ImmediateRegister = ImmediateRegister
      /\ "immediate" \in Quirks
  BY DEF I!GeneralRegisters, I!ReadOnly, I!Registers, Registers, Kept, AllQuirks,
         I!ImmediateRegister, ImmediateRegister
<1>6. GeneralAfterWriteback(c) = [k \in Kept |-> RegistersWritten(c)[k]]
  BY GeneralIs
<1>7. I(c)!Current = ins
  BY LeavesInOrder
<1>8. r \in Registers
  BY <1>1 DEF Sources, Instructions
<1>9. I(c)!R(r) = Operand(c, ins, r)
  <2>1. CASE r = ImmediateRegister
    BY <1>5, <1>7, <2>1 DEF I!R, Operand, Kept
  <2>2. CASE r # ImmediateRegister
    <3>1. r \in Kept
      BY <1>8, <2>2 DEF Kept
    <3>2. I(c)!R(r) = GeneralAfterWriteback(c)[r]
      BY <1>5, <2>2, <3>1 DEF I!R
    <3> QED
      BY <1>4, <1>6, <2>2, <3>1, <3>2 DEF Operand
  <2> QED
    BY <2>1, <2>2
<1> QED
  BY <1>4, <1>9

\* A general register that is given its own value stays as it is.
LEMMA RewritesNothing ==
  ASSUME Quirks = AllQuirks, NEW c \in Cores, NEW r \in Registers, NEW v,
         RegistersWritten(c) \in [Registers -> Values],
         RegistersWritten(c)' = [RegistersWritten(c) EXCEPT ![r] = v],
         r # ImmediateRegister => v = RegistersWritten(c)[r]
  PROVE  GeneralAfterWriteback(c)' = GeneralAfterWriteback(c)
<1>1. \A k \in Kept : RegistersWritten(c)'[k] = RegistersWritten(c)[k]
  BY DEF Kept
<1>2. GeneralAfterWriteback(c)' = [k \in Kept |-> RegistersWritten(c)'[k]]
  BY GeneralIs DEF GeneralAfterWriteback, Kept, AllQuirks
<1> QED
  BY <1>1, <1>2, GeneralIs

LEMMA ComputeLeaves ==
  ASSUME Quirks = AllQuirks, NEW c \in Cores, NEW word \in Values, Leaves(c, word),
         stage[c]["mem"].ins.op \in AluOps, Served(c, word)
  PROVE  I(c)!Compute
<1> DEFINE m   == stage[c]["mem"]
           ins == m.ins
           next == Upcoming(c)[2]
<1>1. /\ ins.rs \in Sources(ins) /\ ins.rt \in Sources(ins) /\ "mem" \in Stages
      /\ ins.op \notin BranchOps /\ ins.op \notin MemoryOps /\ ins.op # "jal"
  BY DEF Sources, AluOps, BranchOps, MemoryOps, Stages
<1>2. I(c)!Current = ins /\ I(c)!Proceed(next + 1)
  BY <1>1, LeavesInOrder DEF AddressBy
<1>3. /\ I(c)!R(ins.rs) = Operand(c, ins, ins.rs)
      /\ I(c)!R(ins.rt) = Operand(c, ins, ins.rt)
  BY <1>1, LeavesReading
<1>4. MemExecuted(c, word).result =
        Alu(ins.op, Operand(c, ins, ins.rs), Operand(c, ins, ins.rt))
  BY <1>1, ExecutedKeeps, FollowsFacts DEF Leaves, Follows, HoldsResults
<1>5. /\ RegistersWritten(c) \in [Registers -> Values]
      /\ RegistersWritten(c)' =
           [RegistersWritten(c) EXCEPT ![ins.rd] = MemExecuted(c, word).result]
  BY <1>1, WrittenNext DEF Leaves, Destination
<1>6. GeneralAfterWriteback(c)' = I(c)!With(ins.rd, MemExecuted(c, word).result)
  BY <1>5, WritesRegister
<1>7. dmem'[c] = dmem[c]
  BY <1>1 DEF Served, DataStored, Stores, MemoryOps
<1>8. I(c)!Alu(ins.op, I(c)!R(ins.rs), I(c)!R(ins.rt)) = MemExecuted(c, word).result
  BY <1>3, <1>4, IsaAlu
<1>9. I(c)!AluOps = AluOps
  BY IsaVocabulary
<1> QED
  BY <1>2, <1>6, <1>7, <1>8, <1>9 DEF I!Compute, I!Set

LEMMA BranchLeaves ==
  ASSUME Quirks = AllQuirks, NEW c \in Cores, NEW word \in Values, Leaves(c, word),
         stage[c]["mem"].ins.op \in BranchOps \ {"jal"}, Served(c, word)
  PROVE  I(c)!Branch
<1> DEFINE m   == stage[c]["mem"]
           ins == m.ins
           next == Upcoming(c)[2]
<1>1. /\ ins.rs \in Sources(ins) /\ ins.rt \in Sources(ins) /\ ins.rd \in Sources(ins)
      /\ "mem" \in Stages /\ ins.op \notin MemoryOps /\ ins.op # "jal"
      /\ ins.rd \in Registers
  BY FollowsFacts
     DEF Leaves, Sources, AluOps, BranchOps, MemoryOps, Stages, StageRecords, Instructions
<1>2. I(c)!Current = ins /\ I(c)!Proceed(AddressBy(regs[c], ins, next))
  BY <1>1, LeavesInOrder
<1>3. /\ I(c)!R(ins.rs) = Operand(c, ins, ins.rs)
      /\ I(c)!R(ins.rt) = Operand(c, ins, ins.rt)
      /\ I(c)!R(ins.rd) = Operand(c, ins, ins.rd)
  BY <1>1, LeavesReading
<1>4. AddressBy(regs[c], ins, next) =
        IF I(c)!Taken(ins.op, I(c)!R(ins.rs), I(c)!R(ins.rt))
        THEN I(c)!Target(I(c)!R(ins.rd)) ELSE next + 1
  <2>1. /\ \A op, a, b : I(c)!Taken(op, a, b) = Taken(op, a, b)
        /\ I(c)!Target(I(c)!R(ins.rd)) = I(c)!R(ins.rd) % 2^TargetBits
    BY IsaVocabulary DEF I!Target, AllQuirks
  <2> QED
    BY <1>1, <1>3, <2>1 DEF AddressBy, Operand
<1>5. /\ RegistersWritten(c) \in [Registers -> Values]
      /\ RegistersWritten(c)' = [RegistersWritten(c) EXCEPT ![ins.rd] = m.result]
  BY <1>1, WrittenNext, ExecutedKeeps DEF Leaves, Follows, Destination
<1>6. ins.rd # ImmediateRegister => m.result = RegistersWritten(c)[ins.rd]
  <2>1. ins.rd # ImmediateRegister => RegistersWritten(c)[ins.rd] = regs[c][ins.rd]
    BY <1>1, LeavesReading
  <2>2. Checked(c, "mem")
    BY DEF Leaves, Checked
  <2>3. ins.rd # ImmediateRegister => m.result = regs[c][ins.rd]
    BY <1>1, <2>2, FollowsFacts DEF Leaves, RewritesSame
  <2> QED
    BY <2>1, <2>3
<1>7. GeneralAfterWriteback(c)' = GeneralAfterWriteback(c)
  BY <1>1, <1>5, <1>6, RewritesNothing
<1>8. dmem'[c] = dmem[c]
  BY <1>1 DEF Served, DataStored, Stores, MemoryOps
<1>9. I(c)!BranchOps = BranchOps
  BY IsaVocabulary
<1> QED
  BY <1>2, <1>4, <1>7, <1>8, <1>9 DEF I!Branch

LEMMA JumpLeaves ==
  ASSUME Quirks = AllQuirks, NEW c \in Cores, NEW word \in Values, Leaves(c, word),
         stage[c]["mem"].ins.op = "jal", Served(c, word)
  PROVE  I(c)!JumpAndLink
<1> DEFINE m   == stage[c]["mem"]
           ins == m.ins
           next == Upcoming(c)[2]
<1>1. ins.op \notin MemoryOps
  BY DEF MemoryOps
<1>2. /\ I(c)!Current = ins /\ I(c)!Proceed(Wrap(next + 1) % 2^TargetBits)
      /\ m.result = Wrap(next + 1)
  BY LeavesInOrder DEF AddressBy
<1>3. /\ RegistersWritten(c) \in [Registers -> Values]
      /\ RegistersWritten(c)' =
           [RegistersWritten(c) EXCEPT ![LinkRegister] = m.result]
  BY <1>1, WrittenNext, ExecutedKeeps DEF Leaves, Follows, Destination
<1>4. GeneralAfterWriteback(c)' = I(c)!With(LinkRegister, Wrap(next + 1))
  BY <1>2, <1>3, WritesRegister
<1>5. dmem'[c] = dmem[c]
  BY <1>1 DEF Served, DataStored, Stores, MemoryOps
<1>6. /\ "link" \in Quirks /\ "target" \in Quirks
      /\ I(c)!Wrap(next + 1) = Wrap(next + 1) /\ I(c)!LinkRegister = LinkRegister
  BY IsaVocabulary DEF AllQuirks
<1> QED
  BY <1>2, <1>4, <1>5, <1>6 DEF I!JumpAndLink, I!Set, I!Target

\* The word a load or a store is about is the one of Isa.
LEMMA LeavesAddress ==
  ASSUME Quirks = AllQuirks, NEW c \in Cores, NEW word \in Values, Leaves(c, word),
         AccessesData(c)
  PROVE  LET ins == stage[c]["mem"].ins
         IN  /\ I(c)!Cell = DataCell(c)
             /\ I(c)!Current = ins /\ I(c)!Proceed(Upcoming(c)[2] + 1)
<1> DEFINE ins == stage[c]["mem"].ins
<1>1. /\ ins.rs \in Sources(ins) /\ ins.rt \in Sources(ins)
      /\ ins.op \notin BranchOps /\ ins.op # "jal"
  BY DEF Sources, AccessesData, MemoryOps, BranchOps
<1>2. /\ I(c)!R(ins.rs) = Operand(c, ins, ins.rs)
      /\ I(c)!R(ins.rt) = Operand(c, ins, ins.rt)
  BY <1>1, LeavesReading
<1>3. I(c)!Current = ins /\ I(c)!Proceed(Upcoming(c)[2] + 1)
  BY <1>1, LeavesInOrder DEF AddressBy
<1>4. I(c)!Cell = CellOf[I(c)!Wrap(I(c)!R(ins.rs) + I(c)!R(ins.rt))]
  BY <1>3 DEF I!Cell
<1> QED
  BY <1>2, <1>3, <1>4, IsaVocabulary DEF DataAddress, DataCell

LEMMA LoadLeaves ==
  ASSUME Quirks = AllQuirks, NEW c \in Cores, NEW word \in Values, Leaves(c, word),
         stage[c]["mem"].ins.op = "lw", Served(c, word)
  PROVE  I(c)!Load
<1> DEFINE m   == stage[c]["mem"]
           ins == m.ins
<1>1. Loads(c) /\ AccessesData(c) /\ ~Stores(c)
  BY DEF Loads, Stores, AccessesData, Leaves, MemoryOps
<1>2. /\ I(c)!Cell = DataCell(c)
      /\ I(c)!Current = ins /\ I(c)!Proceed(Upcoming(c)[2] + 1)
  BY <1>1, LeavesAddress
<1>3. MemExecuted(c, word).result = word
  BY <1>1, FollowsFacts DEF MemExecuted, Leaves, StageRecords, Stages
<1>4. /\ RegistersWritten(c) \in [Registers -> Values]
      /\ RegistersWritten(c)' = [RegistersWritten(c) EXCEPT ![ins.rd] = word]
  BY <1>3, WrittenNext DEF Leaves, Destination
<1>5. GeneralAfterWriteback(c)' = I(c)!With(ins.rd, word)
  BY <1>4, WritesRegister
<1>6. dmem'[c] = dmem[c] /\ word = dmem[c][DataCell(c)]
  BY <1>1 DEF Served, DataStored
<1> QED
  BY <1>2, <1>5, <1>6 DEF I!Load, I!Set

LEMMA StoreLeaves ==
  ASSUME Quirks = AllQuirks, NEW c \in Cores, NEW word \in Values, Leaves(c, word),
         stage[c]["mem"].ins.op = "sw", Served(c, word)
  PROVE  I(c)!Store
<1> DEFINE m   == stage[c]["mem"]
           ins == m.ins
<1>1. /\ AccessesData(c) /\ Stores(c) /\ ins.rd \in Sources(ins) /\ ins.op # "jal"
      /\ ins.rd \in Registers
  BY FollowsFacts DEF Stores, AccessesData, Leaves, MemoryOps, Sources, AluOps,
                      StageRecords, Instructions, Stages
<1>2. /\ I(c)!Cell = DataCell(c)
      /\ I(c)!Current = ins /\ I(c)!Proceed(Upcoming(c)[2] + 1)
  BY <1>1, LeavesAddress
<1>3. /\ I(c)!R(ins.rd) = DataWord(c)
      /\ ins.rd # ImmediateRegister => RegistersWritten(c)[ins.rd] = DataWord(c)
  BY <1>1, LeavesReading DEF DataWord, Operand
<1>4. /\ RegistersWritten(c) \in [Registers -> Values]
      /\ RegistersWritten(c)' = [RegistersWritten(c) EXCEPT ![ins.rd] = DataWord(c)]
  BY <1>1, WrittenNext, ExecutedKeeps DEF Leaves, Follows, Destination
<1>5. GeneralAfterWriteback(c)' = GeneralAfterWriteback(c)
  BY <1>1, <1>3, <1>4, RewritesNothing
<1>6. dmem'[c] = [dmem[c] EXCEPT ![DataCell(c)] = DataWord(c)]
  BY <1>1 DEF Served, DataStored
<1> QED
  BY <1>2, <1>3, <1>5, <1>6 DEF I!Store

\* An instruction that leaves MEM is executed, and a hole, at most the HALT.
LEMMA AcceptedIsAStep ==
  ASSUME Quirks = AllQuirks, NEW c \in Cores, NEW word \in Values,
         FollowsOn(c, word), Follows(c), Accepts(c, word), Served(c, word),
         Upcoming(c)[1] \in Addresses
  PROVE  /\ I(c)!Next \/ UNCHANGED I(c)!isaVars
         /\ Full(c, "mem") => I(c)!Next
<1> DEFINE m == stage[c]["mem"]
<1>1. CASE ~Full(c, "mem")
  <2>1. dmem'[c] = dmem[c]
    BY <1>1 DEF Served, DataStored, Stores, AccessesData
  <2> QED
    BY <1>1, <2>1, HoleIsStop
<1>2. CASE Full(c, "mem") /\ m.ins.op = "halt"
  <2>1. dmem'[c] = dmem[c]
    BY <1>2 DEF Served, DataStored, Stores
  <2> QED
    BY <1>2, <2>1, HaltIsStop DEF I!Next
<1>3. CASE Full(c, "mem") /\ m.ins.op # "halt"
  <2>1. Leaves(c, word)
    BY <1>3 DEF Leaves
  <2>2. m.ins.op \in AluOps \cup BranchOps \cup MemoryOps
    BY <1>3, FollowsFacts DEF StageRecords, Instructions, Ops, Stages
  <2>3. CASE m.ins.op \in AluOps
    BY <2>1, <2>3, ComputeLeaves DEF I!Next
  <2>4. CASE m.ins.op \in BranchOps \ {"jal"}
    BY <2>1, <2>4, BranchLeaves DEF I!Next
  <2>5. CASE m.ins.op = "jal"
    BY <2>1, <2>5, JumpLeaves DEF I!Next
  <2>6. CASE m.ins.op = "lw"
    BY <2>1, <2>6, LoadLeaves DEF I!Next
  <2>7. CASE m.ins.op = "sw"
    BY <2>1, <2>7, StoreLeaves DEF I!Next
  <2> QED
    BY <2>2, <2>3, <2>4, <2>5, <2>6, <2>7 DEF MemoryOps
<1> QED
  BY <1>1, <1>2, <1>3

LEMMA AnsweredIsAStep ==
  ASSUME Quirks = AllQuirks, IsaInv, MemoriesTypeOK, NEW c \in Cores, Answered(c),
         ~strayed'[c], Upcoming(c)[1] \in Addresses
  PROVE  I(c)!Next \/ UNCHANGED I(c)!isaVars
<1> DEFINE word == dmem[c][DataCell(c)]
<1>1. word \in Values
  BY DataCellIsACell DEF IsaInv, PipelineInv, MemoriesTypeOK
<1>2. Accepts(c, word) /\ Cycles(c, word) /\ Watch(c, TRUE)
  BY DEF Answered, Accepts, Cycles
<1>3. Served(c, word)
  BY DEF Answered, Served, MemoriesTypeOK
<1>4. memoryStall'[c] = FALSE
  BY <1>2 DEF Accepts, CycleBubbles, CycleMoves, Execute, IsaInv, PipelineInv,
              PipelineTypeOK
<1>5. Follows(c) /\ FollowsOn(c, word)
  BY <1>1, <1>2, <1>4, FollowsWhileNotStrayed
<1> HIDE DEF word
<1> QED
  BY <1>1, <1>2, <1>3, <1>5, AcceptedIsAStep

LEMMA SoloStepIsSeen ==
  ASSUME Quirks = AllQuirks, IsaInv, MemoriesTypeOK, SoloNext, NEW o \in Cores
  PROVE  SeenAsIsa(o)
<1>1. PICK c \in Cores : Refused(c) \/ Proceeds(c) \/ SoloRests(c)
  BY DEF SoloNext
<1>2. CASE Refused(c) \/ Answered(c)
  <2>1. PICK word \in Values, accepted \in BOOLEAN :
          Cycles(c, word) /\ Watch(c, accepted) /\ accepted = ~memoryStall'[c]
    BY <1>2, AnswerIsACycle DEF IsaInv
  <2>2. CASE o # c
    <3>1. CoreUnchanged(o)
      BY <2>1, <2>2, CycleLeavesCores DEF IsaInv, PipelineInv
    <3>2. dmem'[o] = dmem[o]
      BY <1>2, <2>2 DEF Refused, Answered, MemoriesTypeOK
    <3> QED
      BY <3>1, <3>2, UnchangedStutters DEF SeenAsIsa, I!isaVars
  <2>3. CASE o = c /\ ~strayed'[o] /\ ~PastImage(o)
    <3>1. CASE Refused(c)
      <4>1. Follows(c) /\ FollowsOn(c, word)
        BY <2>1, <2>3, FollowsWhileNotStrayed
      <4> QED
        BY <2>3, <3>1, <4>1, RefusedStutters DEF SeenAsIsa, Refused
    <3>2. CASE Answered(c)
      BY <2>3, <3>2, AnsweredIsAStep DEF SeenAsIsa, PastImage
    <3> QED
      BY <1>2, <3>1, <3>2
  <2> QED
    BY <2>2, <2>3 DEF SeenAsIsa
<1>3. CASE (Crashes(c) \/ CoreHalts(c) \/ UNCHANGED pipelineVars)
           /\ UNCHANGED <<watchVars, dmem>>
  <2>1. CoreUnchanged(o) /\ dmem' = dmem
    BY <1>3, StopKeepsIsaInv
  <2> QED
    BY <2>1, UnchangedStutters DEF SeenAsIsa, I!isaVars
<1> QED
  BY <1>1, <1>2, <1>3 DEF Proceeds, SoloRests, soloVars

(***************************************************************************)
(* Every cycle executes the next instruction of the program or none, for   *)
(* every program and whatever the memory refuses, until the core strays or *)
(* runs past its image. Isa differs from the documentation in the five     *)
(* quirks.                                                                 *)
(***************************************************************************)
THEOREM PipelineImplementsIsa ==
  ASSUME Quirks = AllQuirks
  PROVE  SoloSpec => ImplementsIsaUnlessStrayed
<1>1. IsaInv /\ MemoriesTypeOK /\ [SoloNext]_soloVars
        => [\A c \in Cores : SeenAsIsa(c)]_soloVars
  BY SoloStepIsSeen
<1> QED
  BY <1>1, IsaInductive, PTL DEF SoloSpec, ImplementsIsaUnlessStrayed
=============================================================================
