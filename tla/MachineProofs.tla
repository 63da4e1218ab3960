--------------------------- MODULE MachineProofs ---------------------------
(***************************************************************************)
(* Proofs about the whole machine, from those about its parts: for any     *)
(* number of cores and any programs its inductive invariant holds, and     *)
(* with it what is proved of the memory system, of the pipeline and of the *)
(* linked list; and the programs are executed on one memory, sequentially  *)
(* consistent.                                                             *)
(***************************************************************************)
EXTENDS Machine, CoherenceProofs, BusFifoProofs

\* The pipelines of the machine, with what is proved of them.
Q == INSTANCE IsaProofs WITH
  Data <- ByCell(Memin), dmem <- [c \in Cores |-> ByCell(latest)]

-----------------------------------------------------------------------------
(***************************************************************************)
(* P and Q are two instances of the same definitions.                      *)
(***************************************************************************)
LEMMA SameNames ==
  /\ Q!Values = Values /\ Q!Instructions = Instructions /\ P!NoPc = Q!NoPc
  /\ Q!MemoryOps = MemoryOps
BY DEF Q!Values, Values, P!NoPc, Q!NoPc, Q!Instructions, Instructions, Q!Registers,
       Registers, Q!Immediates, Immediates, Q!Ops, Ops, Q!AluOps, AluOps,
       Q!BranchOps, BranchOps, Q!MemoryOps, MemoryOps

\* A number is an address of the memory system, whatever its size.
LEMMA AddressParts ==
  ASSUME NEW v \in Values
  PROVE  TagOf(v) \in Tags /\ IndexOf(v) \in Frames /\ OffsetOf(v) \in Offsets
<1>1. v \in Nat
  BY RegistersAndBits, PowersOfTwo DEF Values
<1>2. /\ BlockSize \in Nat \ {0} /\ FrameSize \in Nat \ {0}
      /\ NumberOfTags \in Nat \ {0}
  BY SizesArePositive
<1>3. BlockSize * FrameSize \in Nat \ {0}
  BY <1>2
<1>4. v \div BlockSize \in Int /\ v \div (BlockSize * FrameSize) \in Int
  BY <1>1, <1>2, <1>3
<1> QED
  BY <1>1, <1>2, <1>4 DEF TagOf, IndexOf, OffsetOf, Tags, Frames, Offsets

LEMMA CellParts ==
  \A cell \in {CellOf[v] : v \in Values} :
    cell[1] \in Tags /\ cell[2] \in Frames /\ cell[3] \in Offsets
BY AddressParts DEF CellOf

\* What the instance assumes.
LEMMA PipelinesAssume ==
  /\ ByCell(Memin) \in [Q!Cells -> Q!Values]
  /\ Programs \subseteq [Cores -> Seq(Q!Instructions)]
  /\ 2^TargetBits \in 1 .. Q!NoPc + 1
<1>1. Q!Cells = {CellOf[v] : v \in Values}
  BY SameNames DEF Q!Cells
<1>2. ByCell(Memin) \in [{CellOf[v] : v \in Values} -> Values]
  BY CellParts, MeminIsAnImage, WordsAreValues DEF ByCell
<1> QED
  BY <1>1, <1>2, SameNames, ProgramsAreFiles, TargetsArePcs

LEMMA SamePipelines ==
  /\ P!PipelineInit /\ P!WatchInit <=> Q!PipelineInit /\ Q!WatchInit
  /\ P!PipelineInv <=> Q!PipelineInv
  /\ P!PipelineInv' <=> Q!PipelineInv'
  /\ P!IsaInv <=> Q!IsaInv
  /\ P!IsaInv' <=> Q!IsaInv'
  /\ \A c, word, accepted :
       /\ P!CycleStalls(c) <=> Q!CycleStalls(c)
       /\ P!CycleBubbles(c, word) <=> Q!CycleBubbles(c, word)
       /\ P!CycleMoves(c, word) <=> Q!CycleMoves(c, word)
       /\ P!Crashes(c) <=> Q!Crashes(c)
       /\ P!CoreHalts(c) <=> Q!CoreHalts(c)
       /\ P!Rests(c) <=> Q!Rests(c)
       /\ P!Watch(c, accepted) <=> Q!Watch(c, accepted)
       /\ P!DataAddress(c) = Q!DataAddress(c) /\ P!DataWord(c) = Q!DataWord(c)
       /\ P!RequestedAccess(c) = Q!RequestedAccess(c)
       /\ P!RequestedAccess(c)' = Q!RequestedAccess(c)'
       /\ P!PastImage(c) <=> Q!PastImage(c)
       /\ P!Upcoming(c) = Q!Upcoming(c) /\ P!Upcoming(c)' = Q!Upcoming(c)'
       /\ P!GeneralAfterWriteback(c) = Q!GeneralAfterWriteback(c)
       /\ P!GeneralAfterWriteback(c)' = Q!GeneralAfterWriteback(c)'
       /\ P!Stopped(c) = Q!Stopped(c) /\ P!Stopped(c)' = Q!Stopped(c)'
<1> USE DEF P!Registers, Q!Registers, P!ZeroRegister, Q!ZeroRegister,
            P!ImmediateRegister, Q!ImmediateRegister,
            P!LinkRegister, Q!LinkRegister, P!Values, Q!Values,
            P!Immediates, Q!Immediates, P!AluOps, Q!AluOps,
            P!BranchOps, Q!BranchOps, P!MemoryOps, Q!MemoryOps,
            P!Ops, Q!Ops, P!Instructions, Q!Instructions,
            P!ZeroInstruction, Q!ZeroInstruction, P!Wrap, Q!Wrap,
            P!Signed, Q!Signed, P!OneBits, Q!OneBits, P!WordOf, Q!WordOf,
            P!ShiftCount, Q!ShiftCount, P!Alu, Q!Alu, P!Taken, Q!Taken,
            P!Addresses, Q!Addresses, P!NoPc, Q!NoPc, P!Pcs, Q!Pcs,
            P!coreVars, Q!coreVars, P!pipelineVars, Q!pipelineVars,
            P!Stages, Q!Stages, P!StageRecords, Q!StageRecords,
            P!PipelineTypeOK, Q!PipelineTypeOK, P!Image, Q!Image,
            P!EmptyStage, Q!EmptyStage, P!InitialStages, Q!InitialStages,
            P!PipelineInit, Q!PipelineInit, P!Full, Q!Full,
            P!Writes, Q!Writes, P!Sources, Q!Sources, P!Fixed, Q!Fixed,
            P!Hazard, Q!Hazard, P!Operand, Q!Operand,
            P!Fetches, Q!Fetches, P!Fetchable, Q!Fetchable,
            P!FetchExecuted, Q!FetchExecuted, P!PcFetched, Q!PcFetched,
            P!Decodes, Q!Decodes, P!Halts, Q!Halts,
            P!Resolves, Q!Resolves, P!DecodeExecuted, Q!DecodeExecuted,
            P!Branches, Q!Branches, P!PcResolved, Q!PcResolved,
            P!Computes, Q!Computes, P!CallsNull, Q!CallsNull,
            P!ExecuteExecuted, Q!ExecuteExecuted,
            P!AccessesData, Q!AccessesData, P!DataAddress, Q!DataAddress,
            P!DataWord, Q!DataWord, P!Loads, Q!Loads, P!Stores, Q!Stores,
            P!MemRefused, Q!MemRefused, P!MemExecuted, Q!MemExecuted,
            P!Destination, Q!Destination,
            P!RegistersWritten, Q!RegistersWritten, P!Bubbled, Q!Bubbled,
            P!Emptied, Q!Emptied, P!EmptiedIf, Q!EmptiedIf,
            P!StagesBecome, Q!StagesBecome, P!Flushed, Q!Flushed,
            P!Runs, Q!Runs, P!Execute, Q!Execute,
            P!CycleStalls, Q!CycleStalls, P!CycleBubbles, Q!CycleBubbles,
            P!CycleMoves, Q!CycleMoves, P!Crashes, Q!Crashes,
            P!CoreHalts, Q!CoreHalts, P!Rests, Q!Rests, P!Slips, Q!Slips,
            P!Held, Q!Held, P!FetchesNoPc, Q!FetchesNoPc,
            P!Reads, Q!Reads, P!Before, Q!Before,
            P!UncheckedResult, Q!UncheckedResult,
            P!ReadsStale, Q!ReadsStale, P!WatchInit, Q!WatchInit,
            P!Watch, Q!Watch, P!Checked, Q!Checked,
            P!OperationsDecoded, Q!OperationsDecoded,
            P!HazardFree, Q!HazardFree, P!HaltEmpties, Q!HaltEmpties,
            P!HaltIsLast, Q!HaltIsLast,
            P!BranchesUpToDate, Q!BranchesUpToDate,
            P!RewritesSame, Q!RewritesSame,
            P!ExecuteIsDecoded, Q!ExecuteIsDecoded,
            P!Following, Q!Following,
            P!InstructionsInOrder, Q!InstructionsInOrder,
            P!PipelineInv, Q!PipelineInv,
            P!RequestedAccess, Q!RequestedAccess,
            P!Unfinished, Q!Unfinished, P!Ahead, Q!Ahead,
            P!ToFetch, Q!ToFetch, P!Behind, Q!Behind,
            P!Upcoming, Q!Upcoming, P!PastImage, Q!PastImage,
            P!GeneralAfterWriteback, Q!GeneralAfterWriteback,
            P!Stopped, Q!Stopped, P!AddressAfter, Q!AddressAfter,
            P!HoldsProgram, Q!HoldsProgram, P!FillsInOrder, Q!FillsInOrder,
            P!FollowsBranches, Q!FollowsBranches,
            P!HoldsResults, Q!HoldsResults, P!RemembersHalt, Q!RemembersHalt,
            P!InProgramOrder, Q!InProgramOrder, P!IsaInv, Q!IsaInv
<1>1. P!PipelineInit /\ P!WatchInit <=> Q!PipelineInit /\ Q!WatchInit
  BY SMTT(30)
<1>2. P!PipelineInv <=> Q!PipelineInv
  BY SMTT(30)
<1>3. P!PipelineInv' <=> Q!PipelineInv'
  BY SMTT(30)
<1>4. P!IsaInv <=> Q!IsaInv
  BY SMTT(30)
<1>5. P!IsaInv' <=> Q!IsaInv'
  BY SMTT(30)
<1>6. ASSUME NEW c, NEW word
      PROVE  /\ P!CycleStalls(c) <=> Q!CycleStalls(c)
             /\ P!CycleBubbles(c, word) <=> Q!CycleBubbles(c, word)
  BY SMTT(30)
<1>7. ASSUME NEW c, NEW word PROVE P!CycleMoves(c, word) <=> Q!CycleMoves(c, word)
  BY SMTT(30)
<1>8. ASSUME NEW c, NEW accepted
      PROVE  /\ P!Crashes(c) <=> Q!Crashes(c)
             /\ P!CoreHalts(c) <=> Q!CoreHalts(c)
             /\ P!Rests(c) <=> Q!Rests(c)
             /\ P!Watch(c, accepted) <=> Q!Watch(c, accepted)
  BY SMTT(30)
<1>9. ASSUME NEW c
      PROVE  /\ P!DataAddress(c) = Q!DataAddress(c) /\ P!DataWord(c) = Q!DataWord(c)
             /\ P!RequestedAccess(c) = Q!RequestedAccess(c)
             /\ P!RequestedAccess(c)' = Q!RequestedAccess(c)'
  BY SMTT(30)
<1>10. ASSUME NEW c
      PROVE  /\ P!PastImage(c) <=> Q!PastImage(c)
             /\ P!Stopped(c) = Q!Stopped(c) /\ P!Stopped(c)' = Q!Stopped(c)'
  BY SMTT(30)
<1>11. ASSUME NEW c PROVE P!Upcoming(c) = Q!Upcoming(c)
  BY SMTT(30)
<1>12. ASSUME NEW c PROVE P!Upcoming(c)' = Q!Upcoming(c)'
  BY SMTT(30)
<1>13. ASSUME NEW c PROVE P!GeneralAfterWriteback(c) = Q!GeneralAfterWriteback(c)
  BY SMTT(30)
<1>14. ASSUME NEW c PROVE P!GeneralAfterWriteback(c)' = Q!GeneralAfterWriteback(c)'
  BY SMTT(30)
<1> HIDE DEF P!PipelineInit, Q!PipelineInit, P!WatchInit, Q!WatchInit,
             P!PipelineInv, Q!PipelineInv, P!IsaInv, Q!IsaInv, P!CycleStalls,
             Q!CycleStalls, P!CycleBubbles, Q!CycleBubbles, P!CycleMoves,
             Q!CycleMoves, P!Crashes, Q!Crashes, P!CoreHalts, Q!CoreHalts,
             P!Rests, Q!Rests, P!Watch, Q!Watch, P!DataAddress, Q!DataAddress,
             P!DataWord, Q!DataWord, P!RequestedAccess, Q!RequestedAccess,
             P!PastImage, Q!PastImage, P!Upcoming, Q!Upcoming,
             P!GeneralAfterWriteback, Q!GeneralAfterWriteback, P!Stopped,
             Q!Stopped
<1> QED
  BY ONLY <1>1, <1>2, <1>3, <1>4, <1>5, <1>6, <1>7, <1>8, <1>9, <1>10, <1>11, <1>12,
          <1>13, <1>14

\* What is an instruction to P is the same to Q.
LEMMA SameSteps ==
  ASSUME NEW c 
  PROVE  /\ P!I(c)!Next <=> Q!I(c)!Next
         /\ P!I(c)!coreVars' = P!I(c)!coreVars <=> Q!I(c)!coreVars' = Q!I(c)!coreVars
<1> DEFINE up == Q!Upcoming(c)
           G == Q!GeneralAfterWriteback(c)
           st == Q!Stopped(c)
<1>1. P!Upcoming(c) = up /\ P!Upcoming(c)' = up'
       /\ P!GeneralAfterWriteback(c) = G /\ P!GeneralAfterWriteback(c)' = G'
       /\ P!Stopped(c) = st /\ P!Stopped(c)' = st'
  BY SamePipelines
<1>2. P!I(c)!coreVars' = P!I(c)!coreVars <=> Q!I(c)!coreVars' = Q!I(c)!coreVars
  BY <1>1 DEF P!I!coreVars, Q!I!coreVars
<1>3. P!I(c)!Current = Q!I(c)!Current
  BY <1>1 DEF P!I!Current, Q!I!Current
<1> USE DEF P!I!Registers, Q!I!Registers, P!I!ReadOnly, Q!I!ReadOnly,
    P!I!ImmediateRegister, Q!I!ImmediateRegister, P!I!ZeroRegister, Q!I!ZeroRegister, P!I!Wrap, Q!I!Wrap
<1>4. P!I(c)!GeneralRegisters = Q!I(c)!GeneralRegisters
  BY DEF P!I!GeneralRegisters, Q!I!GeneralRegisters
<1>5. \A r : P!I(c)!R(r) = Q!I(c)!R(r)
  BY <1>1, <1>3, <1>4 DEF P!I!R, Q!I!R, P!I!SignExtended, Q!I!SignExtended
<1>6. \A r, v : P!I(c)!Set(r, v) <=> Q!I(c)!Set(r, v)
  BY <1>1, <1>4 DEF P!I!Set, Q!I!Set, P!I!With, Q!I!With
<1>7. \A v : P!I(c)!Proceed(v) <=> Q!I(c)!Proceed(v)
  BY <1>1 DEF P!I!Proceed, Q!I!Proceed
<1>8. \A v : P!I(c)!Target(v) = Q!I(c)!Target(v)
  BY DEF P!I!Target, Q!I!Target
<1>9. P!I(c)!AluOps = Q!I(c)!AluOps /\ P!I(c)!BranchOps = Q!I(c)!BranchOps
    /\ P!I(c)!LinkRegister = Q!I(c)!LinkRegister
    /\ \A op, a, b : P!I(c)!Taken(op, a, b) <=> Q!I(c)!Taken(op, a, b)
  BY DEF P!I!AluOps, Q!I!AluOps, P!I!BranchOps, Q!I!BranchOps,P!I!LinkRegister, Q!I!LinkRegister,
     P!I!Taken, Q!I!Taken
<1>10. \A op, a, b : P!I(c)!Alu(op, a, b) = Q!I(c)!Alu(op, a, b)
  BY DEF P!I!Alu, Q!I!Alu, P!I!Signed, Q!I!Signed,
    P!I!OneBits, Q!I!OneBits, P!I!WordOf, Q!I!WordOf, P!I!Values, Q!I!Values, P!I!ShiftCount, Q!I!ShiftCount
<1>11. P!I(c)!Compute <=> Q!I(c)!Compute
  BY <1>1, <1>3, <1>5, <1>6, <1>7, <1>9, <1>10 DEF P!I!Compute, Q!I!Compute
<1>12. P!I(c)!Branch <=> Q!I(c)!Branch
  BY <1>1, <1>3, <1>5, <1>7, <1>8, <1>9 DEF P!I!Branch, Q!I!Branch
<1>13. P!I(c)!JumpAndLink <=> Q!I(c)!JumpAndLink
  BY <1>1, <1>3, <1>5, <1>6, <1>7, <1>8, <1>9 DEF P!I!JumpAndLink, Q!I!JumpAndLink
<1>14. P!I(c)!Load <=> Q!I(c)!Load
  BY <1>1, <1>3, <1>5, <1>6, <1>7 DEF P!I!Load, Q!I!Load, P!I!Cell, Q!I!Cell
<1>15. P!I(c)!Store <=> Q!I(c)!Store
  BY <1>1, <1>3, <1>5, <1>6, <1>7 DEF P!I!Store, Q!I!Store, P!I!Cell, Q!I!Cell
<1>16. P!I(c)!Stop <=> Q!I(c)!Stop
  BY <1>1, <1>3, <1>6 DEF P!I!Stop, Q!I!Stop
<1> QED
  BY <1>2, <1>11, <1>12, <1>13, <1>14, <1>15, <1>16 DEF P!I!Next, Q!I!Next

-----------------------------------------------------------------------------
(***************************************************************************)
(* The accesses of the pipelines.                                          *)
(***************************************************************************)
\* What a core hands to its cache is an access.
LEMMA AccessOfIsAnAccess ==
  ASSUME P!IsaInv, NEW c \in Cores, P!AccessesData(c)
  PROVE  AccessOf(c) \in Accesses
<1>1. Q!PipelineTypeOK
  BY SamePipelines DEF Q!IsaInv, Q!PipelineInv
<1>2. P!DataAddress(c) \in Values /\ P!DataWord(c) \in Values
  BY <1>1, SamePipelines, SameNames, PipelinesAssume, RegistersAndBits, PowersOfTwo,
     QuirksAreKnown, Q!DataAddressIsAValue
<1>3. stage[c]["mem"].ins.op \in {"lw", "sw"}
  BY DEF P!AccessesData, P!MemoryOps
<1>4. 0 \in Words /\ P!DataWord(c) \in Words
  BY <1>2, ZeroIsAWord, WordsAreValues
<1> DEFINE d == IF P!Stores(c) THEN P!DataWord(c) ELSE 0
<1>5. d \in Words
  BY <1>4
<1>6. AccessOf(c) = [op |-> stage[c]["mem"].ins.op, tag |-> TagOf(P!DataAddress(c)),
                     index |-> IndexOf(P!DataAddress(c)),
                     offset |-> OffsetOf(P!DataAddress(c)), data |-> d]
  BY DEF AccessOf
<1> HIDE DEF d
<1> QED
  BY <1>2, <1>3, <1>5, <1>6, AddressParts DEF Accesses

\* The access of a core whose MEM stage and registers are left alone.
LEMMA AccessStays ==
  ASSUME NEW c \in Cores, stage'[c] = stage[c], regs'[c] = regs[c]
  PROVE  AccessOf(c)' = AccessOf(c) /\ P!AccessesData(c)' = P!AccessesData(c)
BY DEF AccessOf, P!DataAddress, P!DataWord, P!Operand, P!Stores, P!AccessesData, P!Full

LEMMA NoAccessIsNone == \A a \in Accesses : a # NoAccess
BY DEF Accesses, NoAccess

-----------------------------------------------------------------------------
(***************************************************************************)
(* The cycles of a core.                                                   *)
(***************************************************************************)
CoreCycles(c) ==
  \/ CycleWithoutAccess(c)
  \/ CycleLoads(c)
  \/ CycleStores(c)
  \/ CycleMisses(c)
  \/ CycleWaits(c)

\* What the pipeline knows of its invariant in the machine.
LEMMA PipelineInMachine ==
  ASSUME P!IsaInv
  PROVE  /\ Q!IsaInv /\ Q!PipelineInv /\ Q!PipelineTypeOK
         /\ {halted, dataHazardStall, memoryStall, coreHalted} \subseteq [Cores -> BOOLEAN]
         /\ strayed \in [Cores -> BOOLEAN]
         /\ \A c \in Cores : /\ Q!OperationsDecoded(c) /\ Q!HazardFree(c)
                             /\ ~strayed[c] => Q!Following(c)
BY SamePipelines DEF Q!IsaInv, Q!PipelineInv, Q!PipelineTypeOK, Q!InstructionsInOrder

\* A load is answered with a word.
LEMMA LoadedWord ==
  ASSUME TypeOK, NEW c \in Cores, NEW a \in Accesses
  PROVE  dsram[c][a.index][a.offset] \in Q!Values
BY WordsAreValues, SameNames DEF TypeOK, CacheTypeOK, Accesses

\* Whatever the cache answers, the pipeline takes one of its steps.
LEMMA CyclesOfCore ==
  ASSUME MachineInv, NEW c \in Cores, CoreCycles(c)
  PROVE  /\ \E word \in Q!Values : Q!Cycles(c, word)
         /\ memoryStall'[c] \in BOOLEAN
         /\ Q!Watch(c, ~memoryStall'[c])
         /\ memoryStall'[c] <=> CycleMisses(c) \/ CycleWaits(c)
         /\ memoryStall'[c] => Q!CycleStalls(c)
<1>1. /\ memoryStall \in [Cores -> BOOLEAN] /\ P!IsaInv /\ TypeOK
  BY PipelineInMachine DEF MachineInv, DataInv, IInv
<1>2. 0 \in Q!Values
  BY SameNames, ZeroIsAWord, WordsAreValues
<1>3. ASSUME NEW word \in Q!Values, Cycle(c, word), P!Watch(c, TRUE)
      PROVE  /\ Q!Cycles(c, word) /\ memoryStall'[c] = FALSE
             /\ Q!Watch(c, ~memoryStall'[c])
  <2>1. memoryStall'[c] = FALSE
    BY <1>1, <1>3 DEF Cycle, P!CycleBubbles, P!CycleMoves, P!Execute
  <2> QED
    BY <1>3, <2>1, SamePipelines DEF Cycle, Q!Cycles
<1>4. ASSUME P!CycleStalls(c) PROVE memoryStall'[c] = TRUE
  BY <1>1, <1>4 DEF P!CycleStalls, P!Execute
<1>5. ASSUME NEW word, Cycle(c, word) PROVE memoryStall'[c] = FALSE
  BY <1>1, <1>5 DEF Cycle, P!CycleBubbles, P!CycleMoves, P!Execute
<1>6. CASE CycleMisses(c) \/ CycleWaits(c)
  <2>1. P!CycleStalls(c) /\ P!Watch(c, FALSE)
    BY <1>6 DEF CycleMisses, CycleWaits, Recorded
  <2>2. memoryStall'[c] = TRUE
    BY <1>4, <2>1
  <2>3. Q!CycleStalls(c) /\ Q!Watch(c, ~memoryStall'[c])
    BY <2>1, <2>2, SamePipelines
  <2> QED
    BY <1>2, <1>6, <2>2, <2>3 DEF Q!Cycles
<1>7. CASE CycleWithoutAccess(c) \/ CycleStores(c)
  <2>1. Cycle(c, 0) /\ P!Watch(c, TRUE)
    BY <1>7 DEF CycleWithoutAccess, CycleStores, Recorded
  <2> QED
    BY <1>2, <1>3, <1>4, <1>5, <2>1 DEF CycleMisses, CycleWaits
<1>8. CASE CycleLoads(c)
  <2> DEFINE word == dsram[c][AccessOf(c).index][AccessOf(c).offset]
  <2>1. Cycle(c, word) /\ P!Watch(c, TRUE) /\ P!AccessesData(c)
    BY <1>8 DEF CycleLoads, Recorded
  <2>2. word \in Q!Values
    BY <1>1, <2>1, AccessOfIsAnAccess, LoadedWord
  <2> HIDE DEF word
  <2> QED
    BY <1>2, <1>3, <1>4, <1>5, <2>1, <2>2 DEF CycleMisses, CycleWaits
<1> QED
  BY <1>6, <1>7, <1>8 DEF CoreCycles

\* A cycle keeps the invariant of the pipelines, and crashes nothing.
LEMMA CycleKeepsPipelines ==
  ASSUME MachineInv, NEW c \in Cores, CoreCycles(c)
  PROVE  /\ P!IsaInv'
         /\ UNCHANGED <<registered, crashed, coreHalted>> /\ ~coreHalted[c]
         /\ \A o \in Cores : strayed[o] => strayed'[o]
<1>1. PICK word \in Q!Values : Q!Cycles(c, word)
  BY CyclesOfCore
<1>2. PICK accepted \in BOOLEAN :
        accepted = ~memoryStall'[c] /\ Q!Watch(c, accepted)
  BY CyclesOfCore
<1>3. Q!IsaInv /\ Q!PipelineInv
  BY PipelineInMachine DEF MachineInv
<1>4. Q!IsaInv'
  BY <1>1, <1>2, <1>3, SameNames, PipelinesAssume, RegistersAndBits, PowersOfTwo,
     QuirksAreKnown, Q!CycleKeepsIsaInv
<1>5. UNCHANGED <<crashed, coreHalted>> /\ ~coreHalted[c]
  BY <1>1 DEF Q!Cycles, Q!CycleStalls, Q!CycleBubbles, Q!CycleMoves, Q!Execute, Q!Runs
<1>6. UNCHANGED registered
  BY DEF CoreCycles, CycleWithoutAccess, CycleLoads, CycleStores, CycleMisses,
         CycleWaits, Recorded
<1>7. \A o \in Cores : strayed[o] => strayed'[o]
  BY <1>2, <1>3, PipelinesAssume, RegistersAndBits, PowersOfTwo, QuirksAreKnown,
     Q!StrayedForGood
<1> QED
  BY <1>4, <1>5, <1>6, <1>7, SamePipelines

\* A cycle that accesses the cache is a step of the memory system.
LEMMA CycleIsACall ==
  ASSUME P!IsaInv, NEW c \in Cores, CoreCycles(c), ~CycleWithoutAccess(c)
  PROVE  /\ P!AccessesData(c) /\ AccessOf(c) \in Accesses
         /\ CoherenceStore(c, AccessOf(c)) \/ CoherenceAccess(c, AccessOf(c))
<1>1. P!AccessesData(c)
  BY DEF CoreCycles, CycleLoads, CycleStores, CycleMisses, CycleWaits
<1>2. CoherenceStore(c, AccessOf(c)) \/ CoherenceAccess(c, AccessOf(c))
  BY DEF CoreCycles, CycleLoads, CycleStores, CycleMisses, CycleWaits, CoherenceAccess
<1> QED
  BY <1>1, <1>2, AccessOfIsAnAccess

LEMMA CycleKeepsData ==
  ASSUME MachineInv, NEW c \in Cores, CoreCycles(c)
  PROVE  DataInv'
<1>1. DataInv /\ P!IsaInv
  BY DEF MachineInv
<1>2. CASE CycleWithoutAccess(c)
  BY <1>1, <1>2, PassingKeepsDataInv DEF CycleWithoutAccess, CorePasses
<1>3. CASE ~CycleWithoutAccess(c)
  BY <1>1, <1>3, CycleIsACall, CallKeepsDataInv
<1> QED
  BY <1>2, <1>3

-----------------------------------------------------------------------------
(***************************************************************************)
(* The counters stay in their width.                                       *)
(***************************************************************************)
LEMMA CountedInWidth ==
  ASSUME NEW n \in S!Counts, NEW condition
  PROVE  S!CountIf(condition, n) \in S!Counts
<1>1. n \in Nat /\ 2^CounterBits \in Nat \ {0}
  BY CounterBitsIsPositive DEF S!Counts
<1>2. (n + 1) % 2^CounterBits \in 0 .. 2^CounterBits - 1
  BY <1>1
<1> QED
  BY <1>2 DEF S!CountIf, S!Counts

\* The counters of core c after a cycle.
Counted(c, advanced, hazard, stalled) ==
  /\ statistics' = [statistics EXCEPT ![c] = statistics'[c]]
  /\ \A o \in Cores \ {c} : statistics'[o] = statistics[o]
  /\ statistics'[c].cycles = S!CountIf(TRUE, statistics[c].cycles)
  /\ statistics'[c].instructions = S!CountIf(advanced, statistics[c].instructions)
  /\ statistics'[c].decodeStalls =
       S!CountIf(S!CountsAsDecodeStall(hazard, stalled), statistics[c].decodeStalls)
  /\ statistics'[c].memStalls = S!CountIf(stalled, statistics[c].memStalls)
  /\ statistics'[c] \in [cycles : S!Counts, instructions : S!Counts,
                         decodeStalls : S!Counts, memStalls : S!Counts,
                         hits : [{"lw", "sw"} -> S!Counts],
                         misses : [{"lw", "sw"} -> S!Counts]]

LEMMA CycleCountsEach ==
  ASSUME S!StatisticsTypeOK, NEW c \in Cores, NEW op, NEW outcome,
         NEW advanced, NEW hazard, NEW stalled,
         S!CountCycle(c, advanced, hazard, stalled, op, outcome)
  PROVE  Counted(c, advanced, hazard, stalled)
<1> DEFINE s == statistics[c]
<1>1. s \in [cycles : S!Counts, instructions : S!Counts, decodeStalls : S!Counts,
              memStalls : S!Counts, hits : [{"lw", "sw"} -> S!Counts],
              misses : [{"lw", "sw"} -> S!Counts]]
      /\ DOMAIN statistics = Cores
  BY DEF S!StatisticsTypeOK
<1>2. PICK cy, ins, d, m, h, mi :
        /\ cy = S!CountIf(TRUE, s.cycles)
        /\ ins = S!CountIf(advanced, s.instructions)
        /\ d = S!CountIf(S!CountsAsDecodeStall(hazard, stalled), s.decodeStalls)
        /\ m = S!CountIf(stalled, s.memStalls)
        /\ h = [k \in DOMAIN s.hits |->
                  S!CountIf(k = op /\ S!CountsAsHit(op, outcome), s.hits[k])]
        /\ mi = [k \in DOMAIN s.misses |->
                   S!CountIf(k = op /\ outcome = "miss", s.misses[k])]
  OBVIOUS
<1>3. /\ statistics'[c] = [cycles |-> cy, instructions |-> ins, decodeStalls |-> d,
                           memStalls |-> m, hits |-> h, misses |-> mi]
      /\ statistics' = [statistics EXCEPT ![c] = statistics'[c]]
  BY <1>1, <1>2 DEF S!CountCycle, S!StatisticsTypeOK
<1>4. \A o \in Cores \ {c} : statistics'[o] = statistics[o]
  BY <1>1, <1>3
<1>5. h \in [{"lw", "sw"} -> S!Counts] /\ mi \in [{"lw", "sw"} -> S!Counts]
  BY <1>1, <1>2, CountedInWidth
<1>6. cy \in S!Counts /\ ins \in S!Counts /\ d \in S!Counts /\ m \in S!Counts
  BY <1>1, <1>2, CountedInWidth
<1>7. statistics'[c] \in [cycles : S!Counts, instructions : S!Counts,
                         decodeStalls : S!Counts, memStalls : S!Counts,
                         hits : [{"lw", "sw"} -> S!Counts],
                         misses : [{"lw", "sw"} -> S!Counts]]
  BY <1>3, <1>5, <1>6
<1>8. /\ statistics'[c].cycles = cy /\ statistics'[c].instructions = ins
      /\ statistics'[c].decodeStalls = d /\ statistics'[c].memStalls = m
  BY <1>3
<1>9. /\ cy = S!CountIf(TRUE, s.cycles)
      /\ ins = S!CountIf(advanced, s.instructions)
      /\ d = S!CountIf(S!CountsAsDecodeStall(hazard, stalled), s.decodeStalls)
      /\ m = S!CountIf(stalled, s.memStalls)
  BY <1>2, Zenon
<1> QED
  BY ONLY <1>3, <1>4, <1>7, <1>8, <1>9, Zenon DEF Counted

LEMMA CycleKeepsCounters ==
  ASSUME S!StatisticsTypeOK, NEW c \in Cores, NEW op, NEW outcome,
         NEW advanced, NEW hazard, NEW stalled,
         S!CountCycle(c, advanced, hazard, stalled, op, outcome)
  PROVE  S!StatisticsTypeOK'
<1> DEFINE Counters == [cycles : S!Counts, instructions : S!Counts,
                        decodeStalls : S!Counts, memStalls : S!Counts,
                        hits : [{"lw", "sw"} -> S!Counts],
                        misses : [{"lw", "sw"} -> S!Counts]]
<1>1. statistics \in [Cores -> Counters] /\ statistics[c] \in Counters
  BY DEF S!StatisticsTypeOK
<1>2. missOccurred' \in [{"lw", "sw"} -> BOOLEAN]
  BY DEF S!CountCycle, S!NoteAccess, S!HitTakesFlag, S!StatisticsTypeOK
<1>3. Counted(c, advanced, hazard, stalled)
  BY CycleCountsEach
<1>4. /\ statistics'[c] \in Counters
      /\ statistics' = [statistics EXCEPT ![c] = statistics'[c]]
  BY ONLY <1>3 DEF Counted
<1>5. statistics' \in [Cores -> Counters]
  BY <1>1, <1>4
<1> QED
  BY <1>2, <1>5 DEF S!StatisticsTypeOK

-----------------------------------------------------------------------------
(***************************************************************************)
(* What a core is stalled on.                                              *)
(***************************************************************************)
StalledOn(c) ==
  /\ memoryStall[c] <=> pending[c] # NoAccess
  /\ memoryStall[c] => P!AccessesData(c) /\ ~coreHalted[c]
  /\ memoryStall[c] /\ ~strayed[c] => pending[c] = AccessOf(c)

LEMMA OthersStayStalled ==
  ASSUME NEW c \in Cores, StalledOn(c), stage'[c] = stage[c], regs'[c] = regs[c],
         memoryStall'[c] = memoryStall[c], coreHalted'[c] = coreHalted[c],
         strayed'[c] = strayed[c], pending'[c] = pending[c]
  PROVE  StalledOn(c)'
<1>1. AccessOf(c)' = AccessOf(c) /\ P!AccessesData(c)' = P!AccessesData(c)
  BY AccessStays
<1> HIDE DEF AccessOf, P!AccessesData
<1> QED
  BY <1>1 DEF StalledOn

\* The access a core has been refused is the one it repeats.
LEMMA RefusedAccessStays ==
  ASSUME MachineInv, NEW c \in Cores, Q!CycleStalls(c), Q!Watch(c, FALSE),
         P!AccessesData(c)
  PROVE  P!AccessesData(c)' /\ (~strayed'[c] => AccessOf(c)' = AccessOf(c))
<1>1. Q!PipelineInv /\ Q!PipelineTypeOK
  BY PipelineInMachine DEF MachineInv
<1>2. stage'[c]["mem"] = [stage[c]["mem"] EXCEPT !.result = Q!DataWord(c)]
  BY <1>1 DEF Q!CycleStalls, Q!StagesBecome, Q!PipelineTypeOK, Q!Stages, Q!MemRefused
<1>3. stage'[c]["mem"].pc = stage[c]["mem"].pc /\ stage'[c]["mem"].ins = stage[c]["mem"].ins
  BY <1>1, <1>2 DEF Q!PipelineTypeOK, Q!Stages, Q!StageRecords
<1>4. P!AccessesData(c)'
  BY <1>3 DEF P!AccessesData, P!Full
<1>5. ASSUME ~strayed'[c] PROVE AccessOf(c)' = AccessOf(c)
  <2>1. ~strayed[c] /\ ~Q!ReadsStale(c)
    BY <1>1, <1>5, PipelinesAssume, RegistersAndBits, PowersOfTwo, QuirksAreKnown,
       Q!WatchSees DEF Q!PipelineInv
  <2>2. Q!OperationsDecoded(c) /\ Q!HazardFree(c) /\ Q!Following(c)
    BY <2>1, PipelineInMachine DEF MachineInv
  <2>3. Q!RequestedAccess(c)' = Q!RequestedAccess(c)
    BY <1>1, <2>1, <2>2, PipelinesAssume, RegistersAndBits, PowersOfTwo, QuirksAreKnown,
       Q!RefusedStaysSame
  <2>4. P!RequestedAccess(c)' = P!RequestedAccess(c)
    BY <2>3, SamePipelines
  <2>5. stage[c]["mem"].ins.op \in {"lw", "sw"}
    BY DEF P!AccessesData, P!MemoryOps
  <2>6. P!DataAddress(c)' = P!DataAddress(c)
    BY <1>3, <2>4, <2>5 DEF P!RequestedAccess
  <2>7. P!Stores(c)' = P!Stores(c)
    BY <1>3, <1>4 DEF P!Stores
  <2>8. P!Stores(c) => P!DataWord(c)' = P!DataWord(c)
    BY <1>3, <2>4 DEF P!RequestedAccess, P!Stores
  <2> QED
    BY <1>3, <2>6, <2>7, <2>8 DEF AccessOf
<1> QED
  BY <1>4, <1>5

\* What the cache answers is what the core goes on with.
LEMMA AnswerIsPending ==
  ASSUME MachineInv, NEW c \in Cores, CoreCycles(c)
  PROVE  /\ \A o \in Cores \ {c} : pending'[o] = pending[o]
         /\ pending'[c] = IF CycleMisses(c) \/ CycleWaits(c) THEN AccessOf(c) ELSE NoAccess
<1>1. pending \in [Cores -> Accesses \cup {NoAccess}]
  BY DEF MachineInv, DataInv, IInv, TypeOK
<1>2. CASE CycleMisses(c) \/ CycleWaits(c)
  <2>1. Stalls(c, AccessOf(c))
    BY <1>2 DEF CycleMisses, CycleWaits, WriteUpgrade, Miss, CoreWait
  <2> QED
    BY <1>1, <1>2, <2>1 DEF Stalls
<1>3. CASE ~(CycleMisses(c) \/ CycleWaits(c))
  <2>1. CASE CycleLoads(c) \/ CycleStores(c)
    <3>1. Accepted(c)
      BY <2>1 DEF CycleLoads, CycleStores, CoherenceStore, ReadHit, WriteHit
    <3> QED
      BY <1>1, <1>3, <3>1 DEF Accepted
  <2>2. CASE CycleWithoutAccess(c)
    <3>1. ~P!AccessesData(c) /\ pending' = pending
      BY <2>2 DEF CycleWithoutAccess, CorePasses
    <3>2. pending[c] = NoAccess
      BY <3>1 DEF MachineInv, StalledOnItsAccess
    <3> QED
      BY <1>3, <3>1, <3>2
  <2> QED
    BY <1>3, <2>1, <2>2 DEF CoreCycles
<1> QED
  BY <1>2, <1>3

LEMMA CycleKeepsStalls ==
  ASSUME MachineInv, NEW c \in Cores, CoreCycles(c)
  PROVE  StalledOnItsAccess'
<1>1. \A o \in Cores : StalledOn(o)
  BY DEF MachineInv, StalledOnItsAccess, StalledOn
<1>2. coreHalted' = coreHalted /\ ~coreHalted[c]
  BY CycleKeepsPipelines
<1>3. PICK word \in Q!Values : Q!Cycles(c, word)
  BY CyclesOfCore
<1>4. Q!PipelineInv /\ Q!PipelineTypeOK
  BY PipelineInMachine DEF MachineInv
<1>5. ASSUME NEW o \in Cores \ {c} PROVE StalledOn(o)'
  <2>1. /\ stage'[o] = stage[o] /\ regs'[o] = regs[o]
        /\ memoryStall'[o] = memoryStall[o]
    BY <1>3, <1>4, PipelinesAssume, RegistersAndBits, PowersOfTwo, QuirksAreKnown,
       Q!CycleLeavesOthers
  <2>2. strayed'[o] = strayed[o]
    BY <1>4, CyclesOfCore DEF Q!PipelineInv, Q!Watch
  <2> QED
    BY <1>1, <1>2, <2>1, <2>2, AnswerIsPending, OthersStayStalled
<1>6. StalledOn(c)'
  <2>1. CASE CycleMisses(c) \/ CycleWaits(c)
    <3>1. memoryStall'[c] = TRUE /\ pending'[c] = AccessOf(c)
      BY <2>1, CyclesOfCore, AnswerIsPending
    <3>2. Q!CycleStalls(c) /\ P!AccessesData(c)
      BY <2>1, <3>1, CyclesOfCore DEF CycleMisses, CycleWaits
    <3>3. P!Watch(c, FALSE)
      BY <2>1 DEF CycleMisses, CycleWaits, Recorded
    <3>4. P!AccessesData(c)' /\ (~strayed'[c] => AccessOf(c)' = AccessOf(c))
      BY <3>2, <3>3, RefusedAccessStays, SamePipelines
    <3>5. AccessOf(c) # NoAccess
      BY <3>2, AccessOfIsAnAccess, NoAccessIsNone DEF MachineInv
    <3> QED
      BY <1>2, <3>1, <3>4, <3>5 DEF StalledOn
  <2>2. CASE ~(CycleMisses(c) \/ CycleWaits(c))
    <3>1. ~memoryStall'[c] /\ pending'[c] = NoAccess
      BY <2>2, CyclesOfCore, AnswerIsPending
    <3> QED
      BY <3>1 DEF StalledOn
  <2> QED
    BY <2>1, <2>2
<1>7. \A o \in Cores : StalledOn(o)'
  BY <1>5, <1>6
<1> QED
  BY <1>7 DEF StalledOn, StalledOnItsAccess

-----------------------------------------------------------------------------
(***************************************************************************)
(* The invariant over the steps of the machine.                            *)
(***************************************************************************)
LEMMA CycleKeepsMachineInv ==
  ASSUME MachineInv, NEW c \in Cores, CoreCycles(c)
  PROVE  MachineInv'
<1>1. S!StatisticsTypeOK'
  <2>1. PICK advanced, hazard, stalled, op, outcome :
          S!CountCycle(c, advanced, hazard, stalled, op, outcome)
    BY DEF CoreCycles, CycleWithoutAccess, CycleLoads, CycleStores, CycleMisses,
           CycleWaits, Recorded
  <2> QED
    BY <2>1, CycleKeepsCounters DEF MachineInv
<1>2. registered' \subseteq Cores
      /\ (crashed' => registered' # Cores \/ \E o \in Cores : strayed'[o])
  BY CycleKeepsPipelines DEF MachineInv
<1> QED
  BY <1>1, <1>2, CycleKeepsPipelines, CycleKeepsData, CycleKeepsStalls DEF MachineInv

\* A core that stops has its cache owe it nothing.
LEMMA StoppingIsNotStalled ==
  ASSUME MachineInv, NEW c \in Cores, CoreStops(c)
  PROVE  ~memoryStall[c] /\ pending[c] = NoAccess
<1>1. P!CoreHalts(c) => ~P!AccessesData(c)
  BY DEF P!CoreHalts, P!Flushed, P!AccessesData, P!Stages
<1>2. P!Crashes(c) => ~memoryStall[c]
  BY DEF P!Crashes, P!CallsNull, P!Computes
<1>3. P!Rests(c) => coreHalted[c]
  BY DEF P!Rests
<1> QED
  BY <1>1, <1>2, <1>3 DEF CoreStops, MachineInv, StalledOnItsAccess

\* A step that leaves the stages alone.
LEMMA QuietKeepsPipelines ==
  ASSUME P!IsaInv,
         UNCHANGED <<imem, pc, regs, stage, halted, dataHazardStall, memoryStall>>,
         UNCHANGED watchVars, coreHalted' \in [Cores -> BOOLEAN], crashed' \in BOOLEAN
  PROVE  P!IsaInv' /\ \A o \in Cores : Q!CoreUnchanged(o)
<1>1. Q!IsaInv /\ Q!PipelineInv /\ haltAt' = haltAt /\ strayed' = strayed
  BY PipelineInMachine DEF watchVars
<1>2. Q!PipelineTypeOK'
  BY <1>1 DEF Q!PipelineInv, Q!PipelineTypeOK
<1>3. \A o \in Cores : Q!InstructionsInOrder(o)'
  BY <1>1, PipelinesAssume, RegistersAndBits, PowersOfTwo, QuirksAreKnown,
     Q!OtherCoreInOrder DEF Q!PipelineInv
<1>4. \A o \in Cores : Q!CoreUnchanged(o)
  BY <1>1 DEF Q!CoreUnchanged
<1>5. \A o \in Cores : ~strayed'[o] => Q!InProgramOrder(o)'
  BY <1>1, <1>4, PipelinesAssume, RegistersAndBits, PowersOfTwo, QuirksAreKnown,
     Q!OtherCoreHoldsProgram DEF Q!IsaInv
<1> QED
  BY <1>1, <1>2, <1>3, <1>4, <1>5, SamePipelines DEF Q!IsaInv, Q!PipelineInv

LEMMA StopKeepsMachineInv ==
  ASSUME MachineInv, NEW c \in Cores, CoreStops(c)
  PROVE  MachineInv'
<1>1. /\ DataInv /\ P!IsaInv /\ Q!PipelineInv /\ Q!PipelineTypeOK
      /\ \A o \in Cores : StalledOn(o)
  BY PipelineInMachine DEF MachineInv, StalledOnItsAccess, StalledOn
<1>2. UNCHANGED <<history, watchVars, recordVars, cacheVars, memoryVars, busVars, pending>>
      /\ CoreTurn(c)
  BY DEF CoreStops, CorePasses
<1>3. UNCHANGED <<imem, pc, regs, stage, halted, dataHazardStall, memoryStall>>
      /\ coreHalted' \in [Cores -> BOOLEAN] /\ crashed' \in BOOLEAN
      /\ \A o \in Cores \ {c} : coreHalted'[o] = coreHalted[o]
  BY <1>1 DEF CoreStops, P!CoreHalts, P!Crashes, P!Rests, P!coreVars, P!pipelineVars,
              Q!PipelineTypeOK
<1>4. DataInv'
  BY <1>1, <1>2, PassingKeepsDataInv
<1>5. P!IsaInv'
  BY <1>1, <1>2, <1>3, QuietKeepsPipelines
<1>6. S!StatisticsTypeOK' /\ registered' \subseteq Cores
  BY <1>2 DEF recordVars, MachineInv, S!StatisticsTypeOK
<1>7. StalledOnItsAccess'
  <2>1. ASSUME NEW o \in Cores \ {c} PROVE StalledOn(o)'
    BY <1>1, <1>2, <1>3, OthersStayStalled DEF watchVars
  <2>2. StalledOn(c)'
    BY <1>2, <1>3, StoppingIsNotStalled DEF StalledOn
  <2>3. \A o \in Cores : StalledOn(o)'
    BY <2>1, <2>2
  <2> QED
    BY <2>3 DEF StalledOn, StalledOnItsAccess
<1>8. crashed' => registered' # Cores \/ \E o \in Cores : strayed'[o]
  <2>1. CASE P!Crashes(c)
    <3>1. Q!CallsNull(c)
      BY <2>1, SamePipelines DEF Q!Crashes
    <3>2. strayed[c]
      BY <1>1, <3>1, PipelinesAssume, RegistersAndBits, PowersOfTwo, QuirksAreKnown,
         Q!CrashingHasStrayed
    <3> QED
      BY <1>2, <3>2 DEF watchVars
  <2>2. CASE ~P!Crashes(c)
    <3>1. crashed' = crashed
      BY <2>2 DEF CoreStops, P!CoreHalts, P!Rests, P!pipelineVars
    <3> QED
      BY <1>2, <3>1 DEF watchVars, recordVars, MachineInv
  <2> QED
    BY <2>1, <2>2
<1> QED
  BY <1>4, <1>5, <1>6, <1>7, <1>8 DEF MachineInv

\* A step of the bus alone, or none.
LEMMA RestKeepsMachineInv ==
  ASSUME MachineInv, DataInv', UNCHANGED <<coreVars, watchVars, registered, statistics,
                                           missOccurred, pending>>,
         crashed' = crashed \/ (crashed' = TRUE /\ registered # Cores)
  PROVE  MachineInv'
<1>1. /\ P!IsaInv /\ \A o \in Cores : StalledOn(o)
      /\ coreHalted \in [Cores -> BOOLEAN] /\ crashed \in BOOLEAN
  BY PipelineInMachine DEF MachineInv, StalledOnItsAccess, StalledOn, Q!PipelineTypeOK
<1>2. UNCHANGED <<imem, pc, regs, stage, halted, dataHazardStall, memoryStall, coreHalted,
                  strayed>>
      /\ crashed' \in BOOLEAN
  BY <1>1 DEF coreVars, watchVars
<1>3. P!IsaInv'
  BY <1>1, <1>2, QuietKeepsPipelines
<1>4. S!StatisticsTypeOK' /\ registered' \subseteq Cores
  BY DEF MachineInv, S!StatisticsTypeOK
<1>5. \A o \in Cores : StalledOn(o)'
  BY <1>1, <1>2, OthersStayStalled
<1>6. StalledOnItsAccess'
  BY <1>5 DEF StalledOn, StalledOnItsAccess
<1>7. crashed' => registered' # Cores \/ \E o \in Cores : strayed'[o]
  BY <1>2 DEF MachineInv
<1> QED
  BY <1>3, <1>4, <1>6, <1>7 DEF MachineInv

LEMMA MachineStepKeeps == MachineInv /\ [MachineNext]_machineVars => MachineInv'
<1> SUFFICES ASSUME MachineInv, [MachineNext]_machineVars PROVE MachineInv'
  OBVIOUS
<1>1. DataInv
  BY DEF MachineInv
<1>2. CASE BusServes
  <2>1. DataInv' /\ UNCHANGED pending
    BY <1>1, <1>2, BusKeepsDataInv DEF BusServes, CoherenceBusStep, BusStep
  <2> QED
    BY <1>2, <2>1, RestKeepsMachineInv DEF BusServes
<1>3. CASE BusCrashes
  <2>1. UNCHANGED <<vars, history>>
    BY <1>3 DEF BusCrashes, memorySystemVars
  <2>2. DataInv' /\ UNCHANGED pending
    BY <1>1, <2>1, StutterKeepsDataInv DEF vars
  <2> QED
    BY <1>3, <2>2, RestKeepsMachineInv DEF BusCrashes, CallsUnregistered, recordVars
<1>4. CASE UNCHANGED machineVars
  <2>1. UNCHANGED <<vars, history>>
    BY <1>4 DEF machineVars, memorySystemVars
  <2>2. DataInv' /\ UNCHANGED pending
    BY <1>1, <2>1, StutterKeepsDataInv DEF vars
  <2> QED
    BY <1>4, <2>2, RestKeepsMachineInv DEF machineVars, recordVars
<1>5. ASSUME NEW c \in Cores, CoreIter(c) PROVE MachineInv'
  BY <1>5, CycleKeepsMachineInv, StopKeepsMachineInv DEF CoreIter, CoreCycles
<1> QED
  BY <1>2, <1>3, <1>4, <1>5 DEF MachineNext

LEMMA InitMachineInv == MachineInit => MachineInv
<1> SUFFICES ASSUME MachineInit PROVE MachineInv
  OBVIOUS
<1>1. DataInv
  BY InitData DEF MachineInit
<1>2. P!IsaInv
  BY SamePipelines, PipelinesAssume, RegistersAndBits, PowersOfTwo, QuirksAreKnown,
     Q!InitIsaInv DEF MachineInit
<1>3. S!StatisticsTypeOK
  <2>1. 0 \in S!Counts /\ 2^CounterBits - 1 \in S!Counts
    BY CounterBitsIsPositive DEF S!Counts
  <2>2. S!NoAccesses \in [{"lw", "sw"} -> S!Counts]
    BY <2>1 DEF S!NoAccesses
  <2> QED
    BY <2>1, <2>2 DEF MachineInit, S!StatisticsInit, S!StatisticsTypeOK
<1>4. StalledOnItsAccess /\ ~crashed
  BY DEF MachineInit, Init, P!PipelineInit, StalledOnItsAccess
<1> QED
  BY <1>1, <1>2, <1>3, <1>4 DEF MachineInv, MachineInit

(***************************************************************************)
(* The invariant of the machine, whatever the programs and however many    *)
(* cores: of the memory system and its data, of the stages, of the         *)
(* counters, and of what a stalled core waits for.                         *)
(***************************************************************************)
THEOREM MachineInductive == MachineSpec => []MachineInv
  BY InitMachineInv, MachineStepKeeps, PTL DEF MachineSpec

(***************************************************************************)
(* A stalled core waits for the access in its MEM stage, and does not halt.*)
(***************************************************************************)
THEOREM StallsMatchAlways == MachineSpec => []StalledOnItsAccess
<1>1. MachineInv => StalledOnItsAccess
  BY DEF MachineInv
<1> QED
  BY <1>1, MachineInductive, PTL

(***************************************************************************)
(* The caches stay coherent under the programs of the cores: every copy of *)
(* a block a core can access is the last stored one, but for the blocks    *)
(* that one of the three events has spoiled.                               *)
(***************************************************************************)
THEOREM MachineCoherent == MachineSpec => [](CoherentUnlessSpoiled /\ SingleOwner)
<1>1. MachineInv => CoherentUnlessSpoiled /\ SingleOwner
  BY DEF MachineInv, DataInv, IInv
<1> QED
  BY <1>1, MachineInductive, PTL

-----------------------------------------------------------------------------
(***************************************************************************)
(* The end of the programs.                                                *)
(***************************************************************************)
LEMMA QuietFromInv == MachineInv => QuietAtEnd
<1> SUFFICES ASSUME MachineInv, ProcessorHalted
             PROVE  /\ ~busInProgress
                    /\ \A c \in Cores : pending[c] = NoAccess
                    /\ \A c \in Cores : transactionState[c] = "idle"
                    /\ queue = <<>>
  BY DEF QuietAtEnd
<1>1. /\ TypeOK /\ PacketsWellFormed /\ SenderIsBusy /\ OneRequestEach /\ UpgradesGuarded
  BY DEF MachineInv, DataInv, IInv, RequestsInOrder
<1>2. \A c \in Cores : pending[c] = NoAccess
  BY DEF MachineInv, StalledOnItsAccess, ProcessorHalted
<1>3. \A c \in Cores : transactionState[c] = "idle" /\ QueuedBy(c) = {}
  BY <1>1, <1>2 DEF OneRequestEach
<1>4. ~busInProgress
  BY <1>1, <1>3 DEF PacketsWellFormed, SenderIsBusy
<1>5. queue \in Seq(Packets)
  BY <1>1 DEF TypeOK, BusTypeOK
<1>6. ASSUME NEW k \in DOMAIN queue PROVE queue[k].origid = InvalidOriginator
  <2>1. queue[k] \in Packets
    BY <1>5, <1>6, ElementOfSeq, LenProperties
  <2> QED
    BY <1>3, <2>1 DEF QueuedBy, Packets
<1>7. ASSUME queue # <<>> PROVE FALSE
  <2>1. 1 \in DOMAIN queue
    BY <1>5, <1>7, EmptySeq, LenProperties
  <2>2. /\ currentPacket.origid \in Cores
        /\ transactionState[currentPacket.origid] \in {"operation", "finally"}
    BY <1>1, <1>6, <2>1 DEF UpgradesGuarded
  <2> QED
    BY <1>3, <2>2
<1> QED
  BY <1>2, <1>3, <1>4, <1>7

(***************************************************************************)
(* When all cores have halted the bus is quiet: no program's end cuts off  *)
(* a transaction, and no store is still on its way.                        *)
(***************************************************************************)
THEOREM QuietAtEveryEnd == MachineSpec => []QuietAtEnd
  BY QuietFromInv, MachineInductive, PTL

-----------------------------------------------------------------------------
(***************************************************************************)
(* The linked list and the queue.                                          *)
(***************************************************************************)
FifoInv == ListHolds(fifo, queue)

\* What is appended to the queue is what is enqueued.
LEMMA AddedIsAppended ==
  ASSUME queue \in Seq(Packets), NEW items \in Seq(Packets), queue' = queue \o items
  PROVE  Added = items
<1> DEFINE n == Len(queue)
           m == Len(items)
           sum == queue \o items
<1>1. /\ n \in Nat /\ m \in Nat /\ sum \in Seq(Packets) /\ Len(sum) = n + m
      /\ \A i \in 1 .. n + m : sum[i] = IF i <= n THEN queue[i] ELSE items[i - n]
  BY ConcatProperties, LenProperties
<1>2. Added = SubSeq(sum, n + 1, n + m)
  BY <1>1 DEF Added
<1>3. \A i \in n + 1 .. n + m : sum[i] \in Packets
  BY <1>1, ElementOfSeq
<1> HIDE DEF n, m, sum
<1>4. /\ SubSeq(sum, n + 1, n + m) \in Seq(Packets)
      /\ Len(SubSeq(sum, n + 1, n + m)) = m
      /\ \A i \in 1 .. m : SubSeq(sum, n + 1, n + m)[i] = sum[n + i]
  <2>1. n + 1 \in Int /\ n + m \in Int /\ (n + 1 <= n + m <=> m # 0)
        /\ n + m - (n + 1) + 1 = m /\ \A i \in Int : n + 1 + i - 1 = n + i
    BY <1>1
  <2> QED
    BY <1>1, <1>3, <2>1, SubSeqProperties
<1>5. \A i \in 1 .. m : sum[n + i] = items[i]
  BY <1>1
<1>6. SubSeq(sum, n + 1, n + m) = items
  BY <1>4, <1>5, SeqEqual DEF m
<1> QED
  BY <1>2, <1>6

\* An access queues two packets at most.
LEMMA AccessQueues ==
  ASSUME TypeOK, NEW c \in Cores, NEW a \in Accesses, WriteUpgrade(c, a) \/ Miss(c, a)
  PROVE  \E items \in Seq(Packets) : Len(items) <= 2 /\ queue' = queue \o items
<1> DEFINE upgrade == Packet(c, "busRdX", a.tag, a.index, 0)
           read    == Packet(c, MissCommand(a), a.tag, a.index, 0)
           flush   == Packet(c, "flush", tag[c][a.index], a.index,
                             dsram[c][a.index][a.offset])
<1>1. upgrade \in Packets /\ read \in Packets /\ flush \in Packets
      /\ InvalidPacket \in Packets
  BY SMTT(30), SizesArePositive, ZeroIsAWord
  DEF Packet, Packets, InvalidPacket, Accesses, Commands, MissCommand, TypeOK,
      CacheTypeOK, Tags, Frames
<1>2. \/ queue' = queue \o <<upgrade, InvalidPacket>>
      \/ queue' = queue \o (<<flush>> \o <<read>>)
      \/ queue' = queue \o (<<>> \o <<read>>)
  BY DEF WriteUpgrade, Miss, BusAddTransactions, DirtyBlock
<1> HIDE DEF upgrade, read, flush
<1>3. <<flush>> \o <<read>> = <<flush, read>> /\ <<>> \o <<read>> = <<read>>
  BY <1>1, PairConcat
<1>4. \A x, y \in Packets : /\ <<x, y>> \in Seq(Packets) /\ Len(<<x, y>>) <= 2
                            /\ <<x>> \in Seq(Packets) /\ Len(<<x>>) <= 2
  OBVIOUS
<1>5. PICK items : /\ items \in {<<upgrade, InvalidPacket>>, <<flush, read>>, <<read>>}
                   /\ queue' = queue \o items
  BY <1>2, <1>3
<1>6. items \in Seq(Packets) /\ Len(items) <= 2
  BY <1>1, <1>4, <1>5
<1> QED
  BY <1>5, <1>6

LEMMA CycleQueues ==
  ASSUME MachineInv, NEW c \in Cores, CoreCycles(c)
  PROVE  \E items \in Seq(Packets) : Len(items) <= 2 /\ queue' = queue \o items
<1>1. TypeOK /\ P!IsaInv /\ queue \in Seq(Packets)
  BY DEF MachineInv, DataInv, IInv, TypeOK, BusTypeOK
<1>2. CASE CycleMisses(c)
  <2>1. AccessOf(c) \in Accesses
    BY <1>1, <1>2, AccessOfIsAnAccess DEF CycleMisses
  <2> QED
    BY <1>1, <1>2, <2>1, AccessQueues DEF CycleMisses
<1>3. CASE ~CycleMisses(c)
  <2>1. queue' = queue
    BY <1>3 DEF CoreCycles, CycleWithoutAccess, CycleLoads, CycleStores, CycleWaits,
                CorePasses, ReadHit, CoherenceStore, WriteHit, CoreWait, busVars
  <2>2. queue' = queue \o <<>> /\ <<>> \in Seq(Packets) /\ Len(<<>>) <= 2
    BY <1>1, <2>1, ConcatEmptySeq, EmptySeq
  <2> QED
    BY <2>2
<1> QED
  BY <1>2, <1>3

LEMMA FifoStepKeeps == MachineInv /\ FifoInv /\ [MachineNext]_machineVars => FifoInv'
<1> SUFFICES ASSUME MachineInv, FifoInv, [MachineNext]_machineVars PROVE FifoInv'
  OBVIOUS
<1>1. queue \in Seq(Packets)
  BY DEF MachineInv, DataInv, IInv, TypeOK, BusTypeOK
<1>2. CASE UNCHANGED <<queue, fifo>>
  BY <1>2 DEF FifoInv
<1>3. ASSUME NEW c \in Cores, CoreCycles(c) PROVE FifoInv'
  <2>1. PICK items \in Seq(Packets) : Len(items) <= 2 /\ queue' = queue \o items
    BY <1>3, CycleQueues
  <2>2. fifo' = EnqueuedInOrder(fifo, items)
    BY <1>1, <1>3, <2>1, AddedIsAppended
    DEF CoreCycles, CycleWithoutAccess, CycleLoads, CycleStores, CycleMisses, CycleWaits,
        Recorded
  <2> QED
    BY <1>1, <2>1, <2>2, EnqueuedInOrderHolds DEF FifoInv
<1>4. CASE BusServes
  <2>1. BusIter
    BY <1>4 DEF BusServes, CoherenceBusStep, BusStep
  <2>2. queue' = IF busInProgress THEN queue
                 ELSE IF queue = <<>> THEN queue ELSE Tail(queue)
    BY <2>1 DEF BusIter, BusIdle, BusGap, BusYield, BusWait, BusWord, BusOperates,
                Remaining, InTransaction
  <2>3. ListHolds(Dequeued(fifo), IF queue = <<>> THEN queue ELSE Tail(queue))
    BY <1>1, DequeuedListHolds DEF FifoInv
  <2> QED
    BY <1>4, <2>2, <2>3 DEF BusServes, FifoInv
<1>5. CASE BusCrashes \/ UNCHANGED machineVars \/ \E c \in Cores : CoreStops(c)
  <2>1. UNCHANGED <<queue, fifo>>
    BY <1>5 DEF BusCrashes, machineVars, memorySystemVars, vars, busVars, recordVars,
                CoreStops, CorePasses
  <2> QED
    BY <1>2, <2>1
<1> QED
  BY <1>3, <1>4, <1>5 DEF MachineNext, CoreIter, CoreCycles

LEMMA FifoFromInv == MachineInv /\ FifoInv => FifoHoldsQueue
<1> SUFFICES ASSUME MachineInv, FifoInv PROVE FifoHoldsQueue
  OBVIOUS
<1>1. PICK path \in Seq(Nat) : HoldsAlong(fifo, path, queue)
  BY DEF FifoInv, ListHolds
<1>2. path \in [1 .. Len(path) -> Nat] /\ Len(path) = Len(queue)
  BY <1>1, LenProperties DEF HoldsAlong
<1>3. \A k \in 1 .. Len(queue) : path[k] \in DOMAIN fifo.node
  BY <1>1 DEF HoldsAlong
<1>4. path \in [1 .. Len(queue) -> DOMAIN fifo.node]
  BY <1>2, <1>3
<1> QED
  BY <1>1, <1>4 DEF FifoHoldsQueue

(***************************************************************************)
(* The linked list on the heap holds the packets of the queue in their     *)
(* order, however many cores queue theirs: no packet is lost, no node      *)
(* leaks and no pointer dangles.                                           *)
(***************************************************************************)
THEOREM FifoAlwaysHolds == MachineSpec => []FifoHoldsQueue
<1>1. MachineInit => FifoInv
  <2>1. <<>> \in Seq(Nat) /\ IsList(EmptyFifo)
    BY EmptySeq DEF IsList, EmptyFifo
  <2> QED
    BY <2>1, EmptyFifoHoldsNothing DEF MachineInit, Init, BusInit, FifoInv, ListHolds
<1> QED
  BY <1>1, FifoStepKeeps, FifoFromInv, MachineInductive, PTL DEF MachineSpec

-----------------------------------------------------------------------------
(***************************************************************************)
(* The machine implements the memory system.                               *)
(***************************************************************************)

\* A core that has not strayed repeats its access.
LEMMA PresentsItsAccess ==
  ASSUME MachineInv, NEW c \in Cores, CoreCycles(c), ~strayed'[c]
  PROVE  Presents(c, AccessOf(c))
<1>1. ~strayed[c]
  BY CycleKeepsPipelines
<1> QED
  BY <1>1 DEF MachineInv, StalledOnItsAccess, Presents

LEMMA CycleImplements ==
  ASSUME MachineInv, NEW c \in Cores, CoreCycles(c), ~strayed'[c]
  PROVE  CoreIdle(c) \/ CoreAccess(c)
<1>1. CASE CycleWithoutAccess(c)
  <2>1. pending[c] = NoAccess
    BY <1>1 DEF CycleWithoutAccess, MachineInv, StalledOnItsAccess
  <2> QED
    BY <1>1, <2>1 DEF CycleWithoutAccess, CorePasses, CoreIdle
<1>2. CASE ~CycleWithoutAccess(c)
  <2>1. AccessOf(c) \in Workload[c]
    BY <1>2, CycleIsACall, AnyAccessMayCome DEF MachineInv
  <2>2. CoherenceStore(c, AccessOf(c)) \/ CoherenceAccess(c, AccessOf(c))
    BY <1>2, CycleIsACall DEF MachineInv
  <2> QED
    BY <2>1, <2>2, PresentsItsAccess DEF CoreAccess, CoherenceStore, CoherenceAccess
<1> QED
  BY <1>1, <1>2

LEMMA StepImplements ==
  ASSUME MachineInv, [MachineNext]_machineVars
  PROVE  [Next \/ \E c \in Cores : strayed'[c]]_vars
<1>1. CASE BusServes
  BY <1>1 DEF BusServes, CoherenceBusStep, Next
<1>2. CASE BusCrashes \/ UNCHANGED machineVars
  BY <1>2 DEF BusCrashes, machineVars, memorySystemVars
<1>3. ASSUME NEW c \in Cores, CoreCycles(c)
      PROVE  Next \/ \E o \in Cores : strayed'[o]
  BY <1>3, CycleImplements DEF Next
<1>4. ASSUME NEW c \in Cores, CoreStops(c) PROVE Next
  BY <1>4, StoppingIsNotStalled DEF CoreStops, CorePasses, CoreIdle, Next
<1> QED
  BY <1>1, <1>2, <1>3, <1>4 DEF MachineNext, CoreIter, CoreCycles

(***************************************************************************)
(* Every step of the machine is one of the memory system, or none, as long *)
(* as no core has strayed from its program.                                *)
(***************************************************************************)
THEOREM MachineImplements == MachineSpec => ImplementsMemorySystem
<1>1. MachineInv /\ [MachineNext]_machineVars => [Next \/ \E c \in Cores : strayed'[c]]_vars
  BY StepImplements
<1> QED
  BY <1>1, MachineInductive, PTL DEF MachineSpec, ImplementsMemorySystem

-----------------------------------------------------------------------------
(***************************************************************************)
(* The programs see one memory.                                            *)
(***************************************************************************)

\* The access in MEM, to P and to Q.
LEMMA SameAccess ==
  ASSUME NEW c
  PROVE  /\ P!AccessesData(c) <=> Q!AccessesData(c)
         /\ P!Stores(c) <=> Q!Stores(c)
         /\ P!DataCell(c) = Q!DataCell(c) /\ P!DataWord(c) = Q!DataWord(c)
<1>1. P!AccessesData(c) <=> Q!AccessesData(c)
  BY DEF P!AccessesData, Q!AccessesData, P!Full, Q!Full, P!NoPc, Q!NoPc, P!MemoryOps,
         Q!MemoryOps
<1> QED
  BY <1>1, SamePipelines DEF P!Stores, Q!Stores, P!DataCell, Q!DataCell

\* A load that hits finds what was last stored.
LEMMA HitFindsLatest ==
  ASSUME DataInv, spoiled = {}, NEW c \in Cores, NEW a \in Accesses, ReadHit(c, a)
  PROVE  dsram[c][a.index][a.offset] = latest[a.tag][a.index][a.offset]
<1>1. /\ a.index \in Frames /\ a.tag \in Tags
      /\ ~BusInTransaction(c) /\ Holds(c, a.tag, a.index)
  BY DEF Accesses, ReadHit, Hits
<1>2. ~InTransfer(c, a.index)
  BY <1>1, IdleHasNoTransfer DEF DataInv
<1>3. <<a.tag, a.index>> \in Blocks \ spoiled
  BY <1>1 DEF Blocks
<1>4. \A b \in Blocks \ spoiled : \A d \in Cores :
        Holds(d, b[1], b[2]) /\ ~InTransfer(d, b[2]) => dsram[d][b[2]] = latest[b[1]][b[2]]
  BY DEF DataInv, CoherentUnlessSpoiled
<1>5. dsram[c][a.index] = latest[a.tag][a.index]
  BY <1>1, <1>2, <1>3, <1>4
<1> QED
  BY <1>5

\* A store changes the word its address names, and no other.
LEMMA StoreByCell ==
  ASSUME HistoryTypeOK, NEW v \in Values, NEW d,
         latest' = [latest EXCEPT ![TagOf(v)][IndexOf(v)][OffsetOf(v)] = d]
  PROVE  ByCell(latest') = [ByCell(latest) EXCEPT ![CellOf[v]] = d]
<1> DEFINE Words3 == {CellOf[u] : u \in Values}
<1>1. /\ CellOf[v] = <<TagOf(v), IndexOf(v), OffsetOf(v)>>
      /\ \A u \in Values : CellOf[u] = <<TagOf(u), IndexOf(u), OffsetOf(u)>>
  BY DEF CellOf
<1>2. ASSUME NEW u \in Values
      PROVE  latest'[TagOf(u)][IndexOf(u)][OffsetOf(u)] =
               IF CellOf[u] = CellOf[v] THEN d ELSE latest[TagOf(u)][IndexOf(u)][OffsetOf(u)]
  BY <1>1, AddressParts DEF HistoryTypeOK
<1>3. \A cell \in Words3 : latest'[cell[1]][cell[2]][cell[3]] =
        IF cell = CellOf[v] THEN d ELSE latest[cell[1]][cell[2]][cell[3]]
  BY <1>1, <1>2
<1>4. CellOf[v] \in Words3
  OBVIOUS
<1> HIDE DEF Words3
<1>5. /\ ByCell(latest') = [cell \in Words3 |-> latest'[cell[1]][cell[2]][cell[3]]]
      /\ ByCell(latest) = [cell \in Words3 |-> latest[cell[1]][cell[2]][cell[3]]]
  BY DEF ByCell, Words3
<1> QED
  BY <1>3, <1>4, <1>5

\* The cache serves a core as a memory of its own would.
LEMMA CacheServes ==
  ASSUME MachineInv, NEW c \in Cores, CoreCycles(c), ~memoryStall'[c], spoiled' = {}
  PROVE  \E word \in Q!Values : /\ Q!Accepts(c, word) /\ Q!Served(c, word)
                                /\ latest' # latest => Q!Full(c, "mem")
<1> DEFINE a == AccessOf(c)
<1>1. /\ DataInv /\ P!IsaInv /\ TypeOK /\ Q!PipelineTypeOK
      /\ 0 \in Q!Values
  BY PipelineInMachine, SameNames, ZeroIsAWord, WordsAreValues
     DEF MachineInv, DataInv, IInv, Q!PipelineInv
<1>2. \A o \in Cores : [d \in Cores |-> ByCell(latest)][o] = ByCell(latest)
  OBVIOUS
<1>3. ~CycleMisses(c) /\ ~CycleWaits(c)
  BY CyclesOfCore
<1>4. CASE CycleWithoutAccess(c)
  <2>1. Q!Accepts(c, 0) /\ latest' = latest /\ ~Q!AccessesData(c)
    BY <1>4, SamePipelines, SameAccess
       DEF CycleWithoutAccess, Cycle, Q!Accepts, history
  <2>2. Q!Served(c, 0)
    BY <2>1 DEF Q!Served, Q!Loads, Q!DataStored, Q!Stores
  <2> QED
    BY <1>1, <2>1, <2>2
<1>5. P!DataAddress(c) \in Values /\ P!DataCell(c) = CellOf[P!DataAddress(c)]
  BY <1>1, SamePipelines, SameNames, PipelinesAssume, RegistersAndBits, PowersOfTwo,
     QuirksAreKnown, Q!DataAddressIsAValue DEF P!DataCell
<1>6. /\ CellOf[P!DataAddress(c)] = <<a.tag, a.index, a.offset>>
      /\ a.tag = TagOf(P!DataAddress(c)) /\ a.index = IndexOf(P!DataAddress(c))
      /\ a.offset = OffsetOf(P!DataAddress(c))
  BY <1>5 DEF CellOf, AccessOf
<1>7. CASE CycleLoads(c)
  <2> DEFINE word == dsram[c][a.index][a.offset]
  <2>1. /\ P!AccessesData(c) /\ ReadHit(c, a) /\ latest' = latest /\ spoiled = {}
        /\ Cycle(c, word)
    BY <1>7 DEF CycleLoads, history
  <2>2. a \in Accesses
    BY <1>1, <2>1, AccessOfIsAnAccess
  <2>3. word \in Q!Values
    BY <1>1, <2>2, LoadedWord
  <2>4. word = latest[a.tag][a.index][a.offset]
    BY <1>1, <2>1, <2>2, HitFindsLatest
  <2>5. ByCell(latest)[P!DataCell(c)] = latest[a.tag][a.index][a.offset]
    BY <1>5, <1>6 DEF ByCell
  <2>6. ~P!Stores(c)
    BY <2>1 DEF ReadHit, AccessOf, P!Stores
  <2>7. ByCell(latest)[Q!DataCell(c)] = word /\ ~Q!Stores(c)
    BY <2>4, <2>5, <2>6, SameAccess
  <2> HIDE DEF word
  <2>8. Q!Accepts(c, word)
    BY <2>1, SamePipelines DEF Cycle, Q!Accepts
  <2>9. Q!Served(c, word)
    BY <1>2, <2>1, <2>7 DEF Q!Served, Q!DataStored
  <2> QED
    BY <2>1, <2>3, <2>8, <2>9
<1>8. CASE CycleStores(c)
  <2>1. /\ P!AccessesData(c) /\ Cycle(c, 0) /\ a.op = "sw"
        /\ latest' = [latest EXCEPT ![a.tag][a.index][a.offset] = a.data]
    BY <1>8 DEF CycleStores, CoherenceStore, WriteHit
  <2>2. P!Stores(c) /\ a.data = P!DataWord(c)
    BY <2>1 DEF AccessOf, P!Stores
  <2>3. ByCell(latest') = [ByCell(latest) EXCEPT ![P!DataCell(c)] = P!DataWord(c)]
    BY <1>1, <1>5, <1>6, <2>1, <2>2, StoreByCell DEF DataInv
  <2>4. Q!Stores(c) /\ Q!AccessesData(c)
        /\ ByCell(latest') = [ByCell(latest) EXCEPT ![Q!DataCell(c)] = Q!DataWord(c)]
    BY <2>1, <2>2, <2>3, SameAccess
  <2>5. ~Q!Loads(c) /\ Q!Full(c, "mem")
    BY <2>4 DEF Q!Loads, Q!Stores, Q!AccessesData
  <2>6. Q!Accepts(c, 0)
    BY <2>1, SamePipelines DEF Cycle, Q!Accepts
  <2>7. Q!Served(c, 0)
    BY <1>2, <2>4, <2>5 DEF Q!Served, Q!DataStored
  <2> QED
    BY <1>1, <2>5, <2>6, <2>7
<1> QED
  BY <1>3, <1>4, <1>7, <1>8 DEF CoreCycles

\* The other cores see nothing of a cycle but the memory.
LEMMA OthersSeeNothing ==
  ASSUME MachineInv, NEW c \in Cores, CoreCycles(c), NEW o \in Cores \ {c}
  PROVE  UNCHANGED P!I(o)!coreVars
<1>1. PICK word \in Q!Values : Q!Cycles(c, word)
  BY CyclesOfCore
<1>2. Q!Watch(c, ~memoryStall'[c]) /\ Q!IsaInv
  BY CyclesOfCore, PipelineInMachine DEF MachineInv
<1>3. Q!CoreUnchanged(o)
  BY <1>1, <1>2, PipelinesAssume, RegistersAndBits, PowersOfTwo, QuirksAreKnown,
     Q!CycleLeavesCores DEF Q!IsaInv, Q!PipelineInv
<1>4. UNCHANGED Q!I(o)!coreVars
  BY <1>3, PipelinesAssume, RegistersAndBits, PowersOfTwo, QuirksAreKnown,
     Q!UnchangedStutters
<1> QED
  BY <1>4, SameSteps

\* A cycle of a core that follows its program executes an instruction or none.
LEMMA CycleIsSeen ==
  ASSUME Quirks = Q!AllQuirks, MachineInv, NEW c \in Cores, CoreCycles(c), ~Excused
  PROVE  SeenByPrograms
<1>1. /\ ~strayed'[c] /\ ~P!PastImage(c) /\ spoiled' = {}
  BY DEF Excused
<1>2. /\ Q!IsaInv /\ memoryStall'[c] \in BOOLEAN /\ Q!Watch(c, ~memoryStall'[c])
  BY CyclesOfCore, PipelineInMachine DEF MachineInv
<1>3. ASSUME NEW word \in Q!Values, Q!Cycles(c, word)
      PROVE  Q!Follows(c) /\ Q!FollowsOn(c, word)
  <2>1. PICK accepted \in BOOLEAN : accepted = ~memoryStall'[c]
    BY <1>2
  <2> QED
    BY <1>1, <1>2, <1>3, <2>1, SameNames, PipelinesAssume, RegistersAndBits,
       PowersOfTwo, QuirksAreKnown, Q!FollowsWhileNotStrayed
<1>4. \A o \in Cores \ {c} : UNCHANGED P!I(o)!coreVars
  BY OthersSeeNothing
<1>5. crashed' = crashed
  BY CycleKeepsPipelines
<1>6. CASE memoryStall'[c]
  <2>1. Q!CycleStalls(c) /\ (CycleMisses(c) \/ CycleWaits(c))
    BY <1>6, CyclesOfCore
  <2>2. latest' = latest
    BY <2>1 DEF CycleMisses, CycleWaits, history
  <2>3. PICK word \in Q!Values : Q!Cycles(c, word)
    BY CyclesOfCore
  <2>4. [d \in Cores |-> ByCell(latest')][c] = [d \in Cores |-> ByCell(latest)][c]
    BY <2>2
  <2>5. UNCHANGED Q!I(c)!isaVars
    BY <1>3, <2>1, <2>3, <2>4, PipelinesAssume, RegistersAndBits, PowersOfTwo,
       QuirksAreKnown, Q!RefusedStutters
  <2>6. UNCHANGED P!I(c)!coreVars
    BY <2>5, SameSteps DEF Q!I!isaVars
  <2> QED
    BY <1>4, <1>5, <2>2, <2>6 DEF SeenByPrograms
<1>7. CASE ~memoryStall'[c]
  <2>1. PICK word \in Q!Values : /\ Q!Accepts(c, word) /\ Q!Served(c, word)
                                 /\ latest' # latest => Q!Full(c, "mem")
    BY <1>1, <1>7, CacheServes
  <2>2. Q!Follows(c) /\ Q!FollowsOn(c, word)
    BY <1>3, <2>1 DEF Q!Accepts, Q!Cycles
  <2>3. Q!Upcoming(c)[1] \in Q!Addresses
    BY <1>1, SamePipelines DEF Q!PastImage
  <2>4. /\ Q!I(c)!Next \/ UNCHANGED Q!I(c)!isaVars
        /\ Q!Full(c, "mem") => Q!I(c)!Next
    BY <2>1, <2>2, <2>3, PipelinesAssume, RegistersAndBits, PowersOfTwo,
       QuirksAreKnown, Q!AcceptedIsAStep
  <2>5. CASE Q!I(c)!Next
    <3>1. Executes(c)
      BY <1>4, <2>5, SameSteps DEF Executes
    <3> QED
      BY <3>1 DEF SeenByPrograms
  <2>6. CASE ~Q!I(c)!Next
    <3>1. latest' = latest /\ UNCHANGED Q!I(c)!isaVars
      BY <2>1, <2>4, <2>6
    <3>2. UNCHANGED P!I(c)!coreVars
      BY <3>1, SameSteps DEF Q!I!isaVars
    <3> QED
      BY <1>4, <1>5, <3>1, <3>2 DEF SeenByPrograms
  <2> QED
    BY <2>5, <2>6
<1> QED
  BY <1>2, <1>6, <1>7

\* A step that no pipeline takes executes nothing.
LEMMA QuietIsSeen ==
  ASSUME MachineInv, UNCHANGED <<imem, pc, regs, stage, halted, dataHazardStall,
                                 memoryStall>>,
         UNCHANGED <<watchVars, latest, crashed>>, coreHalted' \in [Cores -> BOOLEAN]
  PROVE  SeenByPrograms
<1>1. P!IsaInv /\ crashed' \in BOOLEAN
  BY PipelineInMachine DEF MachineInv, Q!PipelineTypeOK
<1>2. \A o \in Cores : Q!CoreUnchanged(o)
  BY <1>1, QuietKeepsPipelines
<1>3. \A o \in Cores : UNCHANGED Q!I(o)!coreVars
  BY <1>2, PipelinesAssume, RegistersAndBits, PowersOfTwo, QuirksAreKnown,
     Q!UnchangedStutters
<1>4. \A o \in Cores : UNCHANGED P!I(o)!coreVars
  BY <1>3, SameSteps
<1> QED
  BY <1>4 DEF SeenByPrograms

\* A core that stops executes nothing, and one that crashes has strayed.
LEMMA StopIsSeen ==
  ASSUME MachineInv, NEW c \in Cores, CoreStops(c), ~Excused
  PROVE  SeenByPrograms
<1>1. /\ P!IsaInv /\ Q!PipelineInv /\ coreHalted \in [Cores -> BOOLEAN]
      /\ strayed' = strayed /\ latest' = latest /\ UNCHANGED watchVars
  BY PipelineInMachine DEF MachineInv, CoreStops, history, watchVars
<1>2. ~P!Crashes(c)
  <2>1. SUFFICES ASSUME P!Crashes(c) PROVE FALSE
    OBVIOUS
  <2>2. Q!CallsNull(c)
    BY <2>1, SamePipelines DEF Q!Crashes
  <2>3. strayed[c]
    BY <1>1, <2>2, PipelinesAssume, RegistersAndBits, PowersOfTwo, QuirksAreKnown,
       Q!CrashingHasStrayed
  <2> QED
    BY <1>1, <2>3 DEF Excused
<1>3. /\ UNCHANGED <<imem, pc, regs, stage, halted, dataHazardStall, memoryStall, crashed>>
      /\ coreHalted' \in [Cores -> BOOLEAN]
  BY <1>1, <1>2 DEF CoreStops, P!CoreHalts, P!Rests, P!coreVars, P!pipelineVars
<1> QED
  BY <1>1, <1>3, QuietIsSeen

LEMMA StepIsSeen ==
  ASSUME Quirks = Q!AllQuirks, MachineInv, [MachineNext]_machineVars, ~Excused
  PROVE  SeenByPrograms
<1>1. coreHalted \in [Cores -> BOOLEAN]
  BY PipelineInMachine DEF MachineInv
<1>2. CASE BusServes \/ UNCHANGED machineVars
  <2>1. UNCHANGED <<coreVars, watchVars, latest, crashed>>
    BY <1>2 DEF BusServes, CoherenceBusStep, machineVars, memorySystemVars, history
  <2> QED
    BY <1>1, <2>1, QuietIsSeen DEF coreVars
<1>3. CASE BusCrashes
  <2>1. registered # Cores /\ crashed'
    BY <1>3, SizesArePositive
    DEF BusCrashes, CallsUnregistered
  <2> QED
    BY <2>1 DEF Excused
<1>4. ASSUME NEW c \in Cores, CoreIter(c) PROVE SeenByPrograms
  BY <1>4, CycleIsSeen, StopIsSeen DEF CoreIter, CoreCycles
<1> QED
  BY <1>2, <1>3, <1>4 DEF MachineNext

(***************************************************************************)
(* The programs of any number of cores are executed on one memory, one     *)
(* instruction after the other, whatever the caches and the bus do, until  *)
(* one of the events of Excused: the machine is sequentially consistent.   *)
(***************************************************************************)
THEOREM MachineSequentiallyConsistent ==
  ASSUME Quirks = Q!AllQuirks
  PROVE  MachineSpec => SequentiallyConsistent
<1>1. MachineInv /\ [MachineNext]_machineVars => [SeenByPrograms]_machineVars
  BY StepIsSeen DEF SeenByPrograms
<1> QED
  BY <1>1, MachineInductive, PTL DEF MachineSpec, SequentiallyConsistent

-----------------------------------------------------------------------------
(***************************************************************************)
(* Numbers the counters cannot tell apart.                                 *)
(***************************************************************************)
LEMMA CongruentMeans ==
  ASSUME NEW a \in Int, NEW b \in Int
  PROVE  Congruent(a, b) <=> \E q \in Int : a = b + q * 2^CounterBits
<1> DEFINE m == 2^CounterBits
           d == (a - b) \div m
           r == (a - b) % m
<1>1. m \in Nat \ {0}
  BY CounterBitsIsPositive
<1> HIDE DEF m
<1>2. d \in Int /\ r \in 0 .. m - 1 /\ a - b = m * d + r
  BY <1>1
<1> HIDE DEF d, r
<1>3. ASSUME r = 0 PROVE a = b + d * m
  BY <1>1, <1>2, <1>3
<1>4. ASSUME NEW q \in Int, a = b + q * m PROVE r = 0
  <2>1. (q - d) * m = r /\ q - d \in Int
    BY <1>1, <1>2, <1>4
  <2>2. q - d >= 1 => (q - d) * m >= m
    BY <1>1, <2>1
  <2>3. q - d <= -1 => (q - d) * m <= -m
    BY <1>1, <2>1
  <2>4. q - d = 0
    BY <1>1, <1>2, <2>1, <2>2, <2>3
  <2> QED
    BY <1>1, <2>1, <2>4
<1>5. r = 0 <=> \E q \in Int : a = b + q * m
  BY <1>2, <1>3, <1>4
<1> QED
  BY <1>5 DEF m, r, Congruent

LEMMA CongruentSame == \A a \in Int : Congruent(a, a)
<1> SUFFICES ASSUME NEW a \in Int PROVE Congruent(a, a)
  OBVIOUS
<1>1. a = a + 0 * 2^CounterBits
  BY CounterBitsIsPositive
<1> QED
  BY <1>1, CongruentMeans

LEMMA CongruentAdds ==
  ASSUME NEW a \in Int, NEW b \in Int, NEW k \in Int, NEW n \in Int,
         Congruent(a, b), Congruent(k, n)
  PROVE  Congruent(a + k, b + n) /\ Congruent(a - k, b - n)
<1>1. PICK q \in Int : a = b + q * 2^CounterBits
  BY CongruentMeans
<1>2. PICK p \in Int : k = n + p * 2^CounterBits
  BY CongruentMeans
<1>3. 2^CounterBits \in Int
  BY CounterBitsIsPositive
<1>4. /\ (q + p) * 2^CounterBits = q * 2^CounterBits + p * 2^CounterBits
      /\ (q - p) * 2^CounterBits = q * 2^CounterBits - p * 2^CounterBits
      /\ q * 2^CounterBits \in Int /\ p * 2^CounterBits \in Int
  BY <1>3
<1>5. /\ a + k = (b + n) + (q + p) * 2^CounterBits
      /\ a - k = (b - n) + (q - p) * 2^CounterBits
  BY <1>1, <1>2, <1>4
<1> QED
  BY <1>5, CongruentMeans

LEMMA CongruentTransitive ==
  ASSUME NEW a \in Int, NEW b \in Int, NEW k \in Int, Congruent(a, b), Congruent(b, k)
  PROVE  Congruent(a, k)
<1>1. Congruent(a + b, b + k)
  BY CongruentAdds
<1>2. Congruent((a + b) - b, (b + k) - b)
  BY <1>1, CongruentAdds, CongruentSame
<1>3. (a + b) - b = a /\ (b + k) - b = k
  OBVIOUS
<1> QED
  BY <1>2, <1>3

LEMMA CongruentRemainder ==
  ASSUME NEW a \in Int, NEW b \in Int, Congruent(a, b)
  PROVE  a % 2^CounterBits = b % 2^CounterBits
<1> DEFINE m == 2^CounterBits
           d == a \div m
           r == a % m
           e == b \div m
           s == b % m
<1>1. m \in Nat \ {0}
  BY CounterBitsIsPositive
<1>2. PICK q \in Int : a = b + q * m
  BY CongruentMeans
<1> HIDE DEF m
<1>3. /\ d \in Int /\ r \in 0 .. m - 1 /\ a = m * d + r
      /\ e \in Int /\ s \in 0 .. m - 1 /\ b = m * e + s
  BY <1>1
<1> HIDE DEF d, r, e, s
<1>4. (q + e - d) * m = r - s /\ q + e - d \in Int
  BY <1>1, <1>2, <1>3
<1>5. q + e - d >= 1 => (q + e - d) * m >= m
  BY <1>1, <1>4
<1>6. q + e - d <= -1 => (q + e - d) * m <= -m
  BY <1>1, <1>4
<1>7. q + e - d = 0
  BY <1>1, <1>3, <1>4, <1>5, <1>6
<1>8. r = s
  BY <1>1, <1>3, <1>4, <1>7
<1> QED
  BY <1>8 DEF m, r, s

LEMMA RemainderIsCongruent ==
  ASSUME NEW a \in Int
  PROVE  a % 2^CounterBits \in Int /\ Congruent(a % 2^CounterBits, a)
<1> DEFINE m == 2^CounterBits
           d == a \div m
           r == a % m
<1>1. m \in Nat \ {0}
  BY CounterBitsIsPositive
<1> HIDE DEF m
<1>2. d \in Int /\ r \in Int /\ a = m * d + r
  BY <1>1
<1> HIDE DEF d, r
<1>3. r = a + (-d) * m /\ -d \in Int
  BY <1>1, <1>2
<1>4. Congruent(r, a)
  BY <1>2, <1>3, CongruentMeans DEF m
<1> QED
  BY <1>2, <1>4 DEF r, m

\* A counter counts, but for its width.
LEMMA CountIfCounts ==
  ASSUME NEW n \in S!Counts, NEW condition \in BOOLEAN
  PROVE  /\ n \in Int /\ S!CountIf(condition, n) \in Int
         /\ Congruent(S!CountIf(condition, n), n + One(condition))
<1>1. n \in Int /\ n + 1 \in Int /\ n + 0 = n
  BY CounterBitsIsPositive DEF S!Counts
<1>2. CASE condition
  BY <1>1, <1>2, RemainderIsCongruent DEF S!CountIf, One
<1>3. CASE ~condition
  BY <1>1, <1>3, CongruentSame DEF S!CountIf, One
<1> QED
  BY <1>2, <1>3

-----------------------------------------------------------------------------
(***************************************************************************)
(* What a cycle does to the counters of its core, and to its stages.       *)
(***************************************************************************)
Advanced(c) == ~halted[c] /\ ~memoryStall[c] /\ ~dataHazardStall[c]

\* The instruction in MEM leaves it.
Leaves(c) == ~memoryStall'[c] /\ P!Full(c, "mem") /\ stage[c]["mem"].ins.op # "halt"

LEMMA CycleCounts ==
  ASSUME MachineInv, executed \in [Cores -> Nat], NEW c \in Cores, CoreCycles(c)
  PROVE  /\ statistics[c].instructions \in Int /\ Spare(c) \in Int
         /\ statistics'[c].instructions \in Int /\ Spare(c)' \in Int
         /\ Congruent(statistics'[c].instructions,
                      statistics[c].instructions + One(Advanced(c)))
         /\ Congruent(Spare(c)', Spare(c) + 1 - One(Advanced(c))
                        - One(dataHazardStall'[c] /\ ~memoryStall'[c])
                        - One(memoryStall'[c]))
         /\ executed' \in [Cores -> Nat]
         /\ executed'[c] = executed[c] + One(Leaves(c))
         /\ \A o \in Cores \ {c} : /\ statistics'[o] = statistics[o]
                                   /\ executed'[o] = executed[o]
<1> DEFINE s == statistics[c]
           hz == dataHazardStall'[c]
           ms == memoryStall'[c]
           adv == Advanced(c)
<1>1. S!StatisticsTypeOK /\ s.cycles \in S!Counts /\ s.instructions \in S!Counts
      /\ s.decodeStalls \in S!Counts /\ s.memStalls \in S!Counts
  BY DEF MachineInv, S!StatisticsTypeOK
<1>2. ms <=> CycleMisses(c) \/ CycleWaits(c)
  BY CyclesOfCore
<1>3. hz \in BOOLEAN /\ ms \in BOOLEAN /\ adv \in BOOLEAN
  <2>1. Q!PipelineTypeOK'
    BY CycleKeepsPipelines, SamePipelines DEF Q!IsaInv, Q!PipelineInv
  <2> QED
    BY <2>1 DEF Q!PipelineTypeOK, Advanced
<1>4. PICK op, outcome : S!CountCycle(c, adv, hz, ms, op, outcome)
  BY DEF CoreCycles, CycleWithoutAccess, CycleLoads, CycleStores, CycleMisses,
         CycleWaits, Recorded, Advanced
<1>5. executed' = [executed EXCEPT ![c] = executed[c] + One(Leaves(c))]
  <2>1. PICK accepted \in BOOLEAN, answer \in {"none", "hit", "miss"} :
          Recorded(c, accepted, answer) /\ accepted = ~ms
    BY <1>2, <1>3 DEF CoreCycles, CycleWithoutAccess, CycleLoads, CycleStores,
                      CycleMisses, CycleWaits
  <2>2. executed' = [executed EXCEPT ![c] =
                       IF accepted /\ P!Full(c, "mem") /\ stage[c]["mem"].ins.op # "halt"
                       THEN @ + 1 ELSE @]
    BY <2>1 DEF Recorded
  <2>3. executed[c] \in Nat
    OBVIOUS
  <2>4. CASE Leaves(c)
    BY <2>1, <2>2, <2>4 DEF Leaves, One
  <2>5. CASE ~Leaves(c)
    <3>1. executed[c] + One(Leaves(c)) = executed[c]
      BY <2>3, <2>5 DEF One
    <3>2. executed' = [executed EXCEPT ![c] = executed[c]]
      BY <2>1, <2>2, <2>5 DEF Leaves
    <3> QED
      BY <3>1, <3>2
  <2> QED
    BY <2>4, <2>5
<1>6. executed' \in [Cores -> Nat] /\ executed'[c] = executed[c] + One(Leaves(c))
      /\ \A o \in Cores \ {c} : executed'[o] = executed[o]
  BY <1>5 DEF One
<1>7. /\ statistics'[c].cycles = S!CountIf(TRUE, s.cycles)
      /\ statistics'[c].instructions = S!CountIf(adv, s.instructions)
      /\ statistics'[c].decodeStalls = S!CountIf(hz /\ ~ms, s.decodeStalls)
      /\ statistics'[c].memStalls = S!CountIf(ms, s.memStalls)
      /\ \A o \in Cores \ {c} : statistics'[o] = statistics[o]
  <2> HIDE DEF hz, ms, adv
  <2>1. Counted(c, adv, hz, ms)
    BY <1>1, <1>4, CycleCountsEach
  <2> QED
    BY ONLY <2>1, Zenon DEF Counted, S!CountsAsDecodeStall
<1>8. DEFINE y == statistics'[c].cycles
             i == statistics'[c].instructions
             d == statistics'[c].decodeStalls
             m == statistics'[c].memStalls
<1>9. /\ s.cycles \in Int /\ s.instructions \in Int /\ s.decodeStalls \in Int
      /\ s.memStalls \in Int /\ y \in Int /\ i \in Int /\ d \in Int /\ m \in Int
      /\ Congruent(y, s.cycles + 1) /\ Congruent(i, s.instructions + One(adv))
      /\ Congruent(d, s.decodeStalls + One(hz /\ ~ms))
      /\ Congruent(m, s.memStalls + One(ms))
  <2>1. One(TRUE) = 1
    BY DEF One
  <2> HIDE DEF hz, ms, adv
  <2> QED
    BY <1>1, <1>3, <1>7, <2>1, CountIfCounts
<1>10. /\ Spare(c) = s.cycles + 1 - s.instructions - s.decodeStalls - s.memStalls
       /\ Spare(c)' = y + 1 - i - d - m
  BY DEF Spare
<1>11. Congruent(Spare(c)', Spare(c) + 1 - One(adv) - One(hz /\ ~ms) - One(ms))
  <2>1. One(adv) \in Int /\ One(hz /\ ~ms) \in Int /\ One(ms) \in Int
    BY DEF One
  <2> DEFINE y0 == s.cycles
             i0 == s.instructions
             d0 == s.decodeStalls
             m0 == s.memStalls
             i1 == One(adv)
             d1 == One(hz /\ ~ms)
             m1 == One(ms)
  <2>2. /\ y0 \in Int /\ i0 \in Int /\ d0 \in Int /\ m0 \in Int
        /\ i1 \in Int /\ d1 \in Int /\ m1 \in Int
        /\ y \in Int /\ i \in Int /\ d \in Int /\ m \in Int
        /\ Congruent(y, y0 + 1) /\ Congruent(i, i0 + i1)
        /\ Congruent(d, d0 + d1) /\ Congruent(m, m0 + m1)
    BY <1>9, <2>1
  <2>3. Spare(c) = y0 + 1 - i0 - d0 - m0 /\ Spare(c)' = y + 1 - i - d - m
    BY <1>10
  <2> HIDE DEF y, i, d, m, y0, i0, d0, m0, i1, d1, m1
  <2> DEFINE e == y + 1
             e0 == (y0 + 1) + 1
             f == e - i
             f0 == e0 - (i0 + i1)
             g == f - d
             g0 == f0 - (d0 + d1)
  <2>4. Congruent(y + 1 - i - d - m, (y0 + 1 - i0 - d0 - m0) + 1 - i1 - d1 - m1)
    <3>1. Congruent(1, 1)
      BY CongruentSame
    <3>2. Congruent(e, e0) /\ e \in Int /\ e0 \in Int
      BY <2>2, <3>1, CongruentAdds
    <3> HIDE DEF e, e0
    <3>3. i0 + i1 \in Int /\ d0 + d1 \in Int /\ m0 + m1 \in Int
      BY <2>2
    <3>4. Congruent(f, f0) /\ f \in Int /\ f0 \in Int
      BY <2>2, <3>2, <3>3, CongruentAdds
    <3> HIDE DEF f, f0
    <3>5. Congruent(g, g0) /\ g \in Int /\ g0 \in Int
      BY <2>2, <3>3, <3>4, CongruentAdds
    <3> HIDE DEF g, g0
    <3>6. Congruent(g - m, g0 - (m0 + m1))
      BY <2>2, <3>3, <3>5, CongruentAdds
    <3>7. g - m = y + 1 - i - d - m
          /\ g0 - (m0 + m1) = (y0 + 1 - i0 - d0 - m0) + 1 - i1 - d1 - m1
      BY <2>2 DEF g, g0, f, f0, e, e0
    <3> QED
      BY <3>6, <3>7
  <2>5. Congruent(Spare(c)', Spare(c) + 1 - i1 - d1 - m1)
    BY <2>3, <2>4
  <2> QED
    BY <2>5 DEF i1, d1, m1
<1>12. Spare(c) \in Int /\ Spare(c)' \in Int
  BY <1>9, <1>10
<1> QED
  BY <1>6, <1>7, <1>9, <1>11, <1>12

\* A cycle of a core that has not strayed, as its counters see it.
LEMMA CycleInMachine ==
  ASSUME MachineInv, NEW c \in Cores, CoreCycles(c), ~strayed'[c]
  PROVE  /\ {halted[c], memoryStall[c], dataHazardStall[c]} \subseteq BOOLEAN
         /\ {halted'[c], memoryStall'[c], dataHazardStall'[c]} \subseteq BOOLEAN
         /\ dataHazardStall'[c] <=> \E s \in {"execute", "mem", "writeback"} : Haunts(c, s)
         /\ halted'[c] /\ ~halted[c] =>
              /\ P!Full(c, "decode") /\ stage[c]["decode"].ins.op = "halt"
              /\ ~dataHazardStall'[c]
         /\ halted[c] => halted'[c]
         /\ halted[c] => \E s \in {"execute", "mem", "writeback"} : P!Full(c, s)
         /\ P!Full(c, "decode")' <=> ~halted'[c]
         /\ halted[c] \/ dataHazardStall'[c] \/ memoryStall'[c] =>
              stage'[c]["decode"].ins = stage[c]["decode"].ins
         /\ memoryStall'[c] =>
              /\ P!Full(c, "mem") /\ ~P!Full(c, "writeback")'
              /\ \A s \in {"execute", "mem"} :
                   /\ P!Full(c, s)' <=> P!Full(c, s)
                   /\ stage'[c][s].ins = stage[c][s].ins
         /\ ~memoryStall'[c] =>
              /\ P!Full(c, "mem")' <=> P!Full(c, "execute")
              /\ P!Full(c, "execute") => stage'[c]["mem"].ins = stage[c]["execute"].ins
              /\ P!Full(c, "writeback")' <=> P!Full(c, "mem")
              /\ P!Full(c, "mem") => stage'[c]["writeback"].ins = stage[c]["mem"].ins
              /\ P!Full(c, "execute")' <=> P!Full(c, "decode") /\ ~dataHazardStall'[c]
              /\ P!Full(c, "execute")' =>
                   stage'[c]["execute"].ins = stage[c]["decode"].ins
         /\ halted[c] => ~P!Full(c, "decode")
         /\ ~halted[c] /\ P!Full(c, "execute") => stage[c]["execute"].ins.op # "halt"
         /\ ~halted[c] /\ P!Full(c, "mem") => stage[c]["mem"].ins.op # "halt"
         /\ ~halted[c] /\ ~P!Full(c, "decode") =>
              ~P!Full(c, "execute") /\ ~P!Full(c, "mem") /\ ~P!Full(c, "writeback")
<1>1. PICK word \in Q!Values : Q!Cycles(c, word)
  BY CyclesOfCore
<1>2. PICK accepted \in BOOLEAN :
        accepted = ~memoryStall'[c] /\ Q!Watch(c, accepted)
  BY CyclesOfCore
<1>3. Q!IsaInv /\ Q!PipelineInv /\ Q!PipelineTypeOK
  BY PipelineInMachine DEF MachineInv
<1>4. Q!PipelineTypeOK'
  BY CycleKeepsPipelines, SamePipelines DEF Q!IsaInv, Q!PipelineInv
<1>5. Q!Follows(c) /\ Q!FollowsOn(c, word)
  BY <1>1, <1>2, <1>3, PipelinesAssume, RegistersAndBits, PowersOfTwo, QuirksAreKnown,
     Q!FollowsWhileNotStrayed
<1>6. \A s : /\ P!Full(c, s) <=> Q!Full(c, s)
             /\ P!Full(c, s)' <=> Q!Full(c, s)'
  BY SameNames DEF P!Full, Q!Full
<1>7. Q!Hazard(c) <=> \E s \in {"execute", "mem", "writeback"} : Haunts(c, s)
  <2>1. \A s : P!Writes(c, s) <=> Q!Writes(c, s)
    BY <1>6 DEF Q!Writes, P!Writes, Q!BranchOps, P!BranchOps
  <2>2. P!Sources(stage[c]["decode"].ins) = Q!Sources(stage[c]["decode"].ins)
    BY DEF Q!Sources, P!Sources, Q!AluOps, P!AluOps
  <2>3. P!Fixed = Q!Fixed
    BY DEF Q!Fixed, P!Fixed, Q!ZeroRegister, P!ZeroRegister, Q!ImmediateRegister,
           P!ImmediateRegister
  <2> QED
    BY <2>1, <2>2, <2>3 DEF Q!Hazard, Haunts
<1>8. /\ {halted[c], memoryStall[c], dataHazardStall[c]} \subseteq BOOLEAN
      /\ {halted'[c], memoryStall'[c], dataHazardStall'[c]} \subseteq BOOLEAN
  BY <1>3, <1>4 DEF Q!PipelineTypeOK
<1>9. Q!Halts(c) => /\ Q!Full(c, "decode") /\ stage[c]["decode"].ins.op = "halt"
                    /\ ~Q!Hazard(c)
  BY DEF Q!Halts, Q!Decodes
<1>10. ~Q!Flushed(c)
  BY <1>1 DEF Q!Cycles, Q!CycleStalls, Q!CycleBubbles, Q!CycleMoves, Q!Execute, Q!Runs
<1>11. halted[c] => \E s \in {"execute", "mem", "writeback"} : P!Full(c, s)
  BY <1>5, <1>6, <1>10 DEF Q!Follows, Q!InstructionsInOrder, Q!HaltEmpties, Q!Flushed,
                           Q!Stages
<1> HIDE DEF Haunts, P!Full
<1>12. dataHazardStall'[c] = Q!Hazard(c) /\ halted'[c] = (halted[c] \/ Q!Halts(c))
  BY <1>5, PipelinesAssume, RegistersAndBits, PowersOfTwo, QuirksAreKnown, Q!CycleShifts
<1>13. /\ dataHazardStall'[c] <=> \E s \in {"execute", "mem", "writeback"} : Haunts(c, s)
       /\ halted'[c] /\ ~halted[c] =>
            /\ P!Full(c, "decode") /\ stage[c]["decode"].ins.op = "halt"
            /\ ~dataHazardStall'[c]
       /\ halted[c] => halted'[c]
  BY <1>6, <1>7, <1>9, <1>12
<1>14. /\ P!Full(c, "decode")' <=> ~halted'[c]
       /\ halted[c] \/ dataHazardStall'[c] \/ memoryStall'[c] =>
            stage'[c]["decode"].ins = stage[c]["decode"].ins
       /\ memoryStall'[c] =>
            /\ P!Full(c, "mem") /\ ~P!Full(c, "writeback")'
            /\ \A s \in {"execute", "mem"} :
                 /\ P!Full(c, s)' <=> P!Full(c, s)
                 /\ stage'[c][s].ins = stage[c][s].ins
  BY <1>5, <1>6, <1>12, PipelinesAssume, RegistersAndBits, PowersOfTwo, QuirksAreKnown,
     Q!CycleShifts
<1>15. ~memoryStall'[c] =>
         /\ P!Full(c, "mem")' <=> P!Full(c, "execute")
         /\ P!Full(c, "execute") => stage'[c]["mem"].ins = stage[c]["execute"].ins
         /\ P!Full(c, "writeback")' <=> P!Full(c, "mem")
         /\ P!Full(c, "mem") => stage'[c]["writeback"].ins = stage[c]["mem"].ins
         /\ P!Full(c, "execute")' <=> P!Full(c, "decode") /\ ~dataHazardStall'[c]
         /\ P!Full(c, "execute")' => stage'[c]["execute"].ins = stage[c]["decode"].ins
  BY <1>5, <1>6, <1>12, PipelinesAssume, RegistersAndBits, PowersOfTwo, QuirksAreKnown,
     Q!CycleShifts
<1>16. /\ halted[c] => ~P!Full(c, "decode")
       /\ ~halted[c] /\ P!Full(c, "execute") => stage[c]["execute"].ins.op # "halt"
       /\ ~halted[c] /\ P!Full(c, "mem") => stage[c]["mem"].ins.op # "halt"
       /\ ~halted[c] /\ ~P!Full(c, "decode") =>
            ~P!Full(c, "execute") /\ ~P!Full(c, "mem") /\ ~P!Full(c, "writeback")
  BY <1>5, <1>6, PipelinesAssume, RegistersAndBits, PowersOfTwo, QuirksAreKnown,
     Q!CycleShifts
<1> QED
  BY <1>8, <1>11, <1>13, <1>14, <1>15, <1>16

\* A core that runs: an instruction is counted once it is behind FETCH.
LEMMA RunningCounts ==
  ASSUME MachineInv, executed \in [Cores -> Nat], NEW c \in Cores, CoreCycles(c),
         ~strayed'[c], ~halted[c], ~halted'[c], CountsRunning(c)
  PROVE  CountsRunning(c)'
<1> DEFINE n == statistics[c].instructions
           n1 == statistics'[c].instructions
           x == executed[c]
           x1 == executed'[c]
           p == InFlight(c)
           p1 == InFlight(c)'
           k == StalledLast(c)
           k1 == StalledLast(c)'
           sp == Spare(c)
           sp1 == Spare(c)'
           a == One(Advanced(c))
           h == One(dataHazardStall'[c] /\ ~memoryStall'[c])
           m == One(memoryStall'[c])
           l == One(Leaves(c))
<1>1. /\ n \in Int /\ sp \in Int /\ n1 \in Int /\ sp1 \in Int /\ x \in Int
      /\ Congruent(n1, n + a) /\ Congruent(sp1, sp + 1 - a - h - m) /\ x1 = x + l
  BY CycleCounts
<1>2. Congruent(n, x + p + k) /\ Congruent(sp + k, 0)
  BY DEF CountsRunning
<1>3. a = 1 - k /\ k1 = h + m
  BY CycleInMachine DEF Advanced, StalledLast, One
<1>4. p1 + l = p + 1 - k1
  <2> DEFINE d == P!Full(c, "decode")
             e == P!Full(c, "execute")
             f == P!Full(c, "mem")
             d1 == P!Full(c, "decode")'
             e1 == P!Full(c, "execute")'
             f1 == P!Full(c, "mem")'
             hz == dataHazardStall'[c]
             ms == memoryStall'[c]
  <2>1. p = One(d) + One(e) + One(f) /\ p1 = One(d1) + One(e1) + One(f1)
    BY DEF InFlight, P!Unfinished, One
  <2>2. /\ d1
        /\ f => stage[c]["mem"].ins.op # "halt"
        /\ ~d => ~e /\ ~f /\ ~hz
    BY CycleInMachine DEF Haunts, P!Writes
  <2>3. ms => f /\ (e1 <=> e) /\ (f1 <=> f)
    BY CycleInMachine
  <2>4. ~ms => (f1 <=> e) /\ (e1 <=> d /\ ~hz)
    BY CycleInMachine
  <2>5. l = One(~ms /\ f)
    BY <2>2 DEF Leaves, One
  <2>6. k1 = One(hz \/ ms)
    BY DEF StalledLast
  <2> HIDE DEF p, p1, l, k1, d, e, f, d1, e1, f1, hz, ms
  <2> QED
    BY ONLY <2>1, <2>2, <2>3, <2>4, <2>5, <2>6 DEF One
<1>5. /\ p \in Int /\ p1 \in Int /\ k \in Int /\ k1 \in Int /\ a \in Int /\ h \in Int
      /\ m \in Int /\ l \in Int
  BY DEF InFlight, StalledLast, One
<1>6. (NoSources(c) /\ P!Full(c, "mem") => P!Full(c, "execute"))'
  BY CycleInMachine DEF CountsRunning, NoSources, Haunts
<1>7. CountsRunning(c)' <=>
        (/\ Congruent(n1, x1 + p1 + k1) /\ Congruent(sp1 + k1, 0)
         /\ (NoSources(c) /\ P!Full(c, "mem") => P!Full(c, "execute"))')
  BY DEF CountsRunning, Congruent
<1> HIDE DEF n, n1, x, x1, p, p1, k, k1, sp, sp1, a, h, m, l
<1>8. Congruent(n1, x1 + p1 + k1)
  <2>1. Congruent(a, a) /\ x + p + k \in Int
    BY <1>1, <1>5, CongruentSame
  <2>3. Congruent(n + a, (x + p + k) + a)
    BY <1>1, <1>2, <1>5, <2>1, CongruentAdds
  <2>2. (x + p + k) + a = x1 + p1 + k1
    BY <1>1, <1>3, <1>4, <1>5
  <2> QED
    BY <1>1, <1>5, <2>2, <2>3, CongruentTransitive
<1>9. Congruent(sp1 + k1, 0)
  <2>1. sp + 1 - a - h - m = (sp + k) - k1
    BY <1>1, <1>3, <1>5
  <2>4. Congruent(sp1, (sp + k) - k1) /\ Congruent(k1, k1) /\ (sp + k) - k1 \in Int
    BY <1>1, <1>5, <2>1, CongruentSame
  <2>2. Congruent(sp1 + k1, ((sp + k) - k1) + k1)
    BY <1>1, <1>5, <2>4, CongruentAdds
  <2>3. ((sp + k) - k1) + k1 = sp + k
    BY <1>1, <1>5
  <2> QED
    BY <1>1, <1>2, <1>5, <2>2, <2>3, CongruentTransitive
<1> QED
  BY <1>6, <1>7, <1>8, <1>9

\* What the hazard check finds after the cycle it found before, a stage back.
LEMMA HauntsMoveOn ==
  ASSUME MachineInv, NEW c \in Cores, CoreCycles(c), ~strayed'[c],
         stage'[c]["decode"].ins = stage[c]["decode"].ins
  PROVE  /\ NoSources(c)' <=> NoSources(c)
         /\ memoryStall'[c] =>
              /\ ~Haunts(c, "writeback")'
              /\ \A s \in {"execute", "mem"} : Haunts(c, s)' <=> Haunts(c, s)
         /\ ~memoryStall'[c] =>
              /\ Haunts(c, "mem")' <=> Haunts(c, "execute")
              /\ Haunts(c, "writeback")' <=> Haunts(c, "mem")
<1>1. NoSources(c)' <=> NoSources(c)
  BY DEF NoSources
<1>2. \A s \in {"execute", "mem", "writeback"} :
        Haunts(c, s)' <=>
          /\ P!Full(c, s)'
          /\ stage'[c][s].ins.op \notin P!BranchOps \cup {"sw", "halt"}
          /\ stage'[c][s].ins.rd \in P!Sources(stage[c]["decode"].ins) \ P!Fixed
  BY DEF Haunts, P!Writes
<1>3. \A s \in {"execute", "mem", "writeback"} :
        Haunts(c, s) <=>
          /\ P!Full(c, s)
          /\ stage[c][s].ins.op \notin P!BranchOps \cup {"sw", "halt"}
          /\ stage[c][s].ins.rd \in P!Sources(stage[c]["decode"].ins) \ P!Fixed
  BY DEF Haunts, P!Writes
<1>4. memoryStall'[c] =>
        /\ ~P!Full(c, "writeback")'
        /\ \A s \in {"execute", "mem"} : /\ P!Full(c, s)' <=> P!Full(c, s)
                                         /\ stage'[c][s].ins = stage[c][s].ins
  BY CycleInMachine
<1>5. ~memoryStall'[c] =>
        /\ P!Full(c, "mem")' <=> P!Full(c, "execute")
        /\ P!Full(c, "execute") => stage'[c]["mem"].ins = stage[c]["execute"].ins
        /\ P!Full(c, "writeback")' <=> P!Full(c, "mem")
        /\ P!Full(c, "mem") => stage'[c]["writeback"].ins = stage[c]["mem"].ins
  BY CycleInMachine
<1> QED
  BY ONLY <1>1, <1>2, <1>3, <1>4, <1>5

\* The HALT is decoded: it goes on into EXECUTE, or the stall swallows it.
LEMMA HaltCounts ==
  ASSUME MachineInv, executed \in [Cores -> Nat], NEW c \in Cores, CoreCycles(c),
         ~strayed'[c], ~halted[c], halted'[c], CountsRunning(c)
  PROVE  CountsDraining(c)'
<1> DEFINE n == statistics[c].instructions
           n1 == statistics'[c].instructions
           x == executed[c]
           x1 == executed'[c]
           p == InFlight(c)
           p1 == InFlight(c)'
           k == StalledLast(c)
           sp == Spare(c)
           sp1 == Spare(c)'
           a == One(Advanced(c))
           h == One(dataHazardStall'[c] /\ ~memoryStall'[c])
           m == One(memoryStall'[c])
           l == One(Leaves(c))
           z1 == Depth(c)'
           level == z1 - m
<1>1. /\ n \in Int /\ sp \in Int /\ n1 \in Int /\ sp1 \in Int /\ x \in Int
      /\ Congruent(n1, n + a) /\ Congruent(sp1, sp + 1 - a - h - m) /\ x1 = x + l
  BY CycleCounts
<1>2. Congruent(n, x + p + k) /\ Congruent(sp + k, 0)
  BY DEF CountsRunning
<1>3. a = 1 - k /\ h = 0
  BY CycleInMachine DEF Advanced, StalledLast, One
<1>4. /\ ~P!Full(c, "decode")' /\ P!Full(c, "decode") /\ ~dataHazardStall'[c]
      /\ stage[c]["decode"].ins.op = "halt"
      /\ P!Full(c, "execute") => stage[c]["execute"].ins.op # "halt"
      /\ P!Full(c, "mem") => stage[c]["mem"].ins.op # "halt"
      /\ memoryStall'[c] \in BOOLEAN
  BY CycleInMachine
<1>5. memoryStall'[c] =>
        /\ P!Full(c, "mem")
        /\ stage'[c]["decode"].ins = stage[c]["decode"].ins
        /\ \A s \in {"execute", "mem"} : /\ P!Full(c, s)' <=> P!Full(c, s)
                                         /\ stage'[c][s].ins = stage[c][s].ins
  BY CycleInMachine
<1>6. ~memoryStall'[c] =>
        /\ P!Full(c, "mem")' <=> P!Full(c, "execute")
        /\ P!Full(c, "execute") => stage'[c]["mem"].ins = stage[c]["execute"].ins
        /\ P!Full(c, "execute")'
        /\ stage'[c]["execute"].ins = stage[c]["decode"].ins
  BY <1>4, CycleInMachine
<1>7. p1 + l + 1 = p
  <2> DEFINE e == P!Full(c, "execute")
             f == P!Full(c, "mem")
             u1 == P!Unfinished(c, "execute")'
             v1 == P!Unfinished(c, "mem")'
             ms == memoryStall'[c]
  <2>1. p = 1 + One(e) + One(f) /\ p1 = One(u1) + One(v1)
    BY <1>4 DEF InFlight, P!Unfinished, One
  <2>2. ms => f /\ (u1 <=> e) /\ (v1 <=> f)
    BY <1>4, <1>5 DEF P!Unfinished
  <2>3. ~ms => ~u1 /\ (v1 <=> e)
    BY <1>4, <1>6 DEF P!Unfinished
  <2>4. l = One(~ms /\ f)
    BY <1>4 DEF Leaves, One
  <2> HIDE DEF p, p1, l, e, f, u1, v1, ms
  <2> QED
    BY ONLY <2>1, <2>2, <2>3, <2>4 DEF One
<1>8. /\ z1 \in 2 .. 3 /\ level \in 1 .. 3
      /\ level < 3 => memoryStall'[c]
      /\ level = 1 => ~P!Full(c, "execute") /\ P!Full(c, "mem")
  BY <1>4, <1>5, <1>6 DEF Depth, One
<1>9. NoSources(c)' => level # 1
  <2>1. memoryStall'[c] => (NoSources(c)' <=> NoSources(c))
    BY <1>5 DEF NoSources
  <2>2. NoSources(c) /\ P!Full(c, "mem") => P!Full(c, "execute")
    BY DEF CountsRunning
  <2>3. level < 3 => memoryStall'[c]
    BY <1>8
  <2>4. level = 1 => ~P!Full(c, "execute") /\ P!Full(c, "mem")
    BY <1>8
  <2>5. level = 1 => level < 3
    OBVIOUS
  <2> HIDE DEF level
  <2> QED
    BY ONLY <2>1, <2>2, <2>3, <2>4, <2>5
<1>10. /\ ~Haunts(c, "execute")'
       /\ level < 3 => ~Haunts(c, "mem")'
       /\ level < 2 => ~Haunts(c, "writeback")'
  <2>1. CASE memoryStall'[c]
    <3>1. \A s \in {"execute", "mem"} : ~Haunts(c, s)
      BY <1>4, CycleInMachine
    <3>2. stage'[c]["decode"].ins = stage[c]["decode"].ins
      BY <1>5, <2>1
    <3>3. ~Haunts(c, "writeback")'
          /\ \A s \in {"execute", "mem"} : Haunts(c, s)' <=> Haunts(c, s)
      BY <2>1, <3>2, HauntsMoveOn
    <3> QED
      BY ONLY <3>1, <3>3
  <2>2. CASE ~memoryStall'[c]
    <3>1. ~Haunts(c, "execute")'
      BY <1>4, <1>6, <2>2 DEF Haunts, P!Writes
    <3> QED
      BY <1>8, <2>2, <3>1
  <2> QED
    BY <2>1, <2>2
<1>11. /\ p \in Int /\ p1 \in Int /\ k \in Int /\ a \in Int /\ m \in Int /\ l \in Int
       /\ level = z1 - m
  BY DEF InFlight, StalledLast, One
<1>12. /\ Congruent(n1, x1 + p1 + 2) /\ Congruent(sp1 + z1, level)
       => CountsDraining(c)'
  <2>1. CountsDraining(c)' <=>
          /\ Congruent(n1, x1 + p1 + 2)
          /\ \E v \in 1 .. 3 :
               /\ Congruent(sp1 + z1, v)
               /\ NoSources(c)' => v # 1
               /\ ~Haunts(c, "execute")'
               /\ v < 3 => ~Haunts(c, "mem")'
               /\ v < 2 => ~Haunts(c, "writeback")'
    BY DEF CountsDraining, Congruent
  <2>2. level \in 1 .. 3
    BY <1>8
  <2> HIDE DEF n1, x1, p1, sp1, z1, level
  <2> QED
    BY ONLY <1>9, <1>10, <2>1, <2>2
<1> HIDE DEF n, n1, x, x1, p, p1, k, sp, sp1, a, h, m, l, z1, level
<1>13. Congruent(n1, x1 + p1 + 2)
  <2>1. Congruent(a, a) /\ x + p + k \in Int
    BY <1>1, <1>11, CongruentSame
  <2>2. Congruent(n + a, (x + p + k) + a)
    BY <1>1, <1>2, <1>11, <2>1, CongruentAdds
  <2>3. (x + p + k) + a = x1 + p1 + 2 /\ x1 + p1 + 2 \in Int /\ n + a \in Int
    BY <1>1, <1>3, <1>7, <1>11
  <2> QED
    BY <1>1, <1>11, <2>2, <2>3, CongruentTransitive
<1>14. Congruent(sp1 + z1, level)
  <2>1. sp + 1 - a - h - m = (sp + k) - m
    BY <1>1, <1>3, <1>11
  <2>2. Congruent(sp1, (sp + k) - m) /\ Congruent(level, level) /\ Congruent(z1, z1)
        /\ (sp + k) - m \in Int /\ sp + k \in Int /\ z1 \in Int /\ level \in Int
    BY <1>1, <1>8, <1>11, <2>1, CongruentSame
  <2>3. Congruent(sp1 + z1, ((sp + k) - m) + z1)
    BY <1>1, <2>2, CongruentAdds
  <2>4. Congruent((sp + k) + level, 0 + level)
    BY <1>2, <2>2, CongruentAdds
  <2>5. ((sp + k) - m) + z1 = (sp + k) + level /\ 0 + level = level
    BY <1>1, <1>11, <2>2
  <2> QED
    BY <1>1, <2>2, <2>3, <2>4, <2>5, CongruentTransitive
<1> QED
  BY <1>12, <1>13, <1>14

\* The core drains: only the hazards that are left move the level.
LEMMA DrainingCounts ==
  ASSUME MachineInv, executed \in [Cores -> Nat], NEW c \in Cores, CoreCycles(c),
         ~strayed'[c], halted[c], CountsDraining(c)
  PROVE  CountsDraining(c)'
<1> DEFINE n == statistics[c].instructions
           n1 == statistics'[c].instructions
           x == executed[c]
           x1 == executed'[c]
           p == InFlight(c)
           p1 == InFlight(c)'
           sp == Spare(c)
           sp1 == Spare(c)'
           a == One(Advanced(c))
           hz == dataHazardStall'[c]
           ms == memoryStall'[c]
           h == One(hz /\ ~ms)
           m == One(ms)
           l == One(Leaves(c))
           z == Depth(c)
           z1 == Depth(c)'
<1>1. /\ n \in Int /\ sp \in Int /\ n1 \in Int /\ sp1 \in Int /\ x \in Int
      /\ Congruent(n1, n + a) /\ Congruent(sp1, sp + 1 - a - h - m) /\ x1 = x + l
  BY CycleCounts
<1>2. Congruent(n, x + p + 2)
  BY DEF CountsDraining
<1>3. PICK level \in 1 .. 3 :
        /\ Congruent(sp + z, level)
        /\ NoSources(c) => level # 1
        /\ ~Haunts(c, "execute")
        /\ level < 3 => ~Haunts(c, "mem")
        /\ level < 2 => ~Haunts(c, "writeback")
  BY DEF CountsDraining
<1> DEFINE level1 == level - h
<1>4. a = 0
  BY DEF Advanced, One
<1>5. /\ halted[c] /\ halted'[c]
      /\ ~P!Full(c, "decode") /\ ~P!Full(c, "decode")'
      /\ stage'[c]["decode"].ins = stage[c]["decode"].ins
      /\ hz \in BOOLEAN /\ ms \in BOOLEAN
      /\ \E s \in {"execute", "mem", "writeback"} : P!Full(c, s)
      /\ hz <=> \E s \in {"execute", "mem", "writeback"} : Haunts(c, s)
  BY CycleInMachine
<1>6. ms => /\ P!Full(c, "mem")
            /\ \A s \in {"execute", "mem"} : /\ P!Full(c, s)' <=> P!Full(c, s)
                                             /\ stage'[c][s].ins = stage[c][s].ins
  BY CycleInMachine
<1>7. ~ms => /\ P!Full(c, "mem")' <=> P!Full(c, "execute")
             /\ P!Full(c, "execute") => stage'[c]["mem"].ins = stage[c]["execute"].ins
             /\ P!Full(c, "writeback")' <=> P!Full(c, "mem")
             /\ ~P!Full(c, "execute")'
  BY <1>5, CycleInMachine
<1>8. p1 + l = p
  <2> DEFINE u == P!Unfinished(c, "execute")
             v == P!Unfinished(c, "mem")
             u1 == P!Unfinished(c, "execute")'
             v1 == P!Unfinished(c, "mem")'
  <2>1. p = One(u) + One(v) /\ p1 = One(u1) + One(v1)
    <3>1. ~P!Unfinished(c, "decode") /\ ~P!Unfinished(c, "decode")'
      BY <1>5 DEF P!Unfinished
    <3>2. /\ One(P!Unfinished(c, "decode")) = 0
          /\ One(P!Unfinished(c, "decode")') = 0
          /\ One(u) \in Int /\ One(v) \in Int /\ One(u1) \in Int /\ One(v1) \in Int
      BY ONLY <3>1 DEF One
    <3>3. /\ p = One(P!Unfinished(c, "decode")) + One(u) + One(v)
          /\ p1 = One(P!Unfinished(c, "decode")') + One(u1) + One(v1)
      BY DEF InFlight, One
    <3> HIDE DEF p, p1, u, v, u1, v1
    <3> QED
      BY ONLY <3>2, <3>3
  <2>2. ms => (u1 <=> u) /\ (v1 <=> v)
    BY ONLY <1>5, <1>6 DEF P!Unfinished
  <2>3. ~ms => ~u1 /\ (v1 <=> u)
    BY ONLY <1>5, <1>7 DEF P!Unfinished
  <2>4. l = One(~ms /\ v)
    BY DEF Leaves, P!Unfinished, One
  <2> HIDE DEF p, p1, l, u, v, u1, v1, ms
  <2> QED
    BY ONLY <2>1, <2>2, <2>3, <2>4 DEF One
<1>9. z1 = z - 1 + m /\ z \in Int
  <2> DEFINE e == P!Full(c, "execute")
             f == P!Full(c, "mem")
             w == P!Full(c, "writeback")
             e1 == P!Full(c, "execute")'
             f1 == P!Full(c, "mem")'
             w1 == P!Full(c, "writeback")'
  <2>1. /\ z = IF e THEN 3 ELSE IF f THEN 2 ELSE One(w)
        /\ z1 = IF e1 THEN 3 ELSE IF f1 THEN 2 ELSE One(w1)
    BY DEF Depth
  <2>2. e \/ f \/ w
    BY <1>5
  <2>3. ms => f /\ (e1 <=> e) /\ (f1 <=> f)
    BY <1>6
  <2>4. ~ms => (f1 <=> e) /\ (w1 <=> f) /\ ~e1
    BY <1>7
  <2> HIDE DEF z, z1, e, f, w, e1, f1, w1, ms
  <2> QED
    BY ONLY <2>1, <2>2, <2>3, <2>4 DEF One, m
<1>10. /\ NoSources(c)' <=> NoSources(c)
       /\ ms => /\ ~Haunts(c, "writeback")'
                /\ Haunts(c, "execute")' <=> Haunts(c, "execute")
                /\ Haunts(c, "mem")' <=> Haunts(c, "mem")
       /\ ~ms => /\ Haunts(c, "mem")' <=> Haunts(c, "execute")
                 /\ Haunts(c, "writeback")' <=> Haunts(c, "mem")
  BY <1>5, HauntsMoveOn
<1>11. NoSources(c) => ~hz
  BY <1>5 DEF NoSources, Haunts
<1>12. ~ms => ~Haunts(c, "execute")'
  BY <1>7 DEF Haunts, P!Writes
<1>13. /\ level1 \in 1 .. 3
       /\ NoSources(c)' => level1 # 1
       /\ ~Haunts(c, "execute")'
       /\ level1 < 3 => ~Haunts(c, "mem")'
       /\ level1 < 2 => ~Haunts(c, "writeback")'
  <2> DEFINE e == Haunts(c, "execute")
             f == Haunts(c, "mem")
             w == Haunts(c, "writeback")
             e1 == Haunts(c, "execute")'
             f1 == Haunts(c, "mem")'
             w1 == Haunts(c, "writeback")'
             o == NoSources(c)
             o1 == NoSources(c)'
  <2>1. /\ level \in 1 .. 3
        /\ o => level # 1
        /\ ~e
        /\ level < 3 => ~f
        /\ level < 2 => ~w
    BY <1>3
  <2>2. hz => e \/ f \/ w
    BY <1>5
  <2>3. /\ o1 <=> o
        /\ ms => ~w1 /\ (e1 <=> e) /\ (f1 <=> f)
        /\ ~ms => ~e1 /\ (f1 <=> e) /\ (w1 <=> f)
        /\ o => ~hz
    BY <1>10, <1>11, <1>12
  <2>4. hz \in BOOLEAN /\ ms \in BOOLEAN
    BY <1>5
  <2> HIDE DEF e, f, w, e1, f1, w1, o, o1, hz, ms
  <2>5. /\ level1 \in 1 .. 3
        /\ o1 => level1 # 1
        /\ ~e1
        /\ level1 < 3 => ~f1
        /\ level1 < 2 => ~w1
    <3>1. CASE hz /\ ~ms
      BY ONLY <3>1, <2>1, <2>2, <2>3 DEF One, h, level1
    <3>2. CASE ~(hz /\ ~ms)
      BY ONLY <3>2, <2>1, <2>2, <2>3 DEF One, h, level1
    <3> QED
      BY <3>1, <3>2
  <2> QED
    BY <2>5 DEF e, f, w, e1, f1, w1, o, o1
<1>14. /\ p \in Int /\ p1 \in Int /\ h \in Int /\ m \in Int /\ l \in Int
       /\ level1 = level - h
  BY DEF InFlight, One
<1>15. /\ Congruent(n1, x1 + p1 + 2) /\ Congruent(sp1 + z1, level1)
       => CountsDraining(c)'
  <2>1. CountsDraining(c)' <=>
          /\ Congruent(n1, x1 + p1 + 2)
          /\ \E v \in 1 .. 3 :
               /\ Congruent(sp1 + z1, v)
               /\ NoSources(c)' => v # 1
               /\ ~Haunts(c, "execute")'
               /\ v < 3 => ~Haunts(c, "mem")'
               /\ v < 2 => ~Haunts(c, "writeback")'
    BY DEF CountsDraining, Congruent
  <2> HIDE DEF n1, x1, p1, sp1, z1, level1
  <2> QED
    BY ONLY <1>13, <2>1
<1> HIDE DEF n, n1, x, x1, p, p1, sp, sp1, a, h, m, l, z, z1, level1
<1>16. Congruent(n1, x1 + p1 + 2)
  <2>1. x1 + p1 + 2 = x + p + 2 /\ n + a = n /\ x + p + 2 \in Int
    BY <1>1, <1>4, <1>8, <1>14
  <2> QED
    BY <1>1, <1>2, <2>1, CongruentTransitive
<1>17. Congruent(sp1 + z1, level1)
  <2>1. sp + 1 - a - h - m \in Int /\ z1 \in Int /\ sp + z \in Int /\ level \in Int
    BY <1>1, <1>3, <1>4, <1>9, <1>14
  <2>2. Congruent(z1, z1) /\ Congruent(h, h)
    BY <1>14, <2>1, CongruentSame
  <2>3. Congruent(sp1 + z1, (sp + 1 - a - h - m) + z1)
    BY <1>1, <2>1, <2>2, CongruentAdds
  <2>4. Congruent((sp + z) - h, level - h)
    BY <1>3, <1>14, <2>1, <2>2, CongruentAdds
  <2>5. (sp + 1 - a - h - m) + z1 = (sp + z) - h
    BY <1>1, <1>4, <1>9, <1>14
  <2>6. sp1 + z1 \in Int /\ (sp + z) - h \in Int /\ level1 \in Int
    BY <1>1, <1>14, <2>1
  <2> QED
    BY <1>14, <2>3, <2>4, <2>5, <2>6, CongruentTransitive
<1> QED
  BY <1>15, <1>16, <1>17

-----------------------------------------------------------------------------
(***************************************************************************)
(* The counters over the steps of the machine.                             *)
(***************************************************************************)
LEMMA AccountsStay ==
  ASSUME NEW c \in Cores, CoreAccounted(c), stage'[c] = stage[c], halted'[c] = halted[c],
         dataHazardStall'[c] = dataHazardStall[c], memoryStall'[c] = memoryStall[c],
         strayed'[c] = strayed[c], statistics'[c] = statistics[c],
         executed'[c] = executed[c], coreHalted'[c] => coreHalted[c] \/ P!Flushed(c)
  PROVE  CoreAccounted(c)'
<1>1. /\ \A s : P!Full(c, s)' = P!Full(c, s) /\ P!Unfinished(c, s)' = P!Unfinished(c, s)
      /\ NoSources(c)' = NoSources(c)
      /\ \A s : Haunts(c, s)' = Haunts(c, s)
  BY DEF P!Full, P!Unfinished, NoSources, Haunts, P!Writes
<1>2. /\ InFlight(c)' = InFlight(c) /\ Depth(c)' = Depth(c)
      /\ StalledLast(c)' = StalledLast(c) /\ Spare(c)' = Spare(c)
  BY <1>1 DEF InFlight, Depth, StalledLast, Spare
<1>3. P!Flushed(c)' = P!Flushed(c)
  BY <1>1 DEF P!Flushed
<1>4. CountsRunning(c)' = CountsRunning(c)
  <2> HIDE DEF P!Full, NoSources, InFlight, StalledLast, Spare
  <2> QED
    BY <1>1, <1>2 DEF CountsRunning, Congruent
<1>5. CountsDraining(c)' = CountsDraining(c)
  <2> HIDE DEF NoSources, Haunts, InFlight, Depth, Spare
  <2> QED
    BY <1>1, <1>2 DEF CountsDraining, Congruent
<1> HIDE DEF CountsRunning, CountsDraining, P!Flushed
<1> QED
  BY <1>3, <1>4, <1>5 DEF CoreAccounted

LEMMA CycleKeepsAccounts ==
  ASSUME MachineInv, CountersAccounted, NEW c \in Cores, CoreCycles(c)
  PROVE  CountersAccounted'
<1>1. executed' \in [Cores -> Nat] /\ registered' = registered
  BY CycleCounts
  DEF CountersAccounted, CoreCycles, CycleWithoutAccess, CycleLoads, CycleStores,
      CycleMisses, CycleWaits, Recorded
<1>2. PICK word \in Q!Values : Q!Cycles(c, word)
  BY CyclesOfCore
<1>3. /\ Q!PipelineTypeOK /\ coreHalted' = coreHalted /\ ~coreHalted[c]
      /\ dataHazardStall' = [dataHazardStall EXCEPT ![c] = Q!Hazard(c)]
  BY <1>2, PipelineInMachine
  DEF MachineInv, Q!Cycles, Q!CycleStalls, Q!CycleBubbles, Q!CycleMoves, Q!Execute, Q!Runs
<1>4. /\ \A o \in Cores \ {c} : strayed'[o] = strayed[o]
      /\ strayed[c] => strayed'[c]
  BY CyclesOfCore, PipelineInMachine DEF MachineInv, Q!Watch, Q!IsaInv, Q!PipelineInv
<1>5. ASSUME NEW o \in registered \ {c} PROVE CoreAccounted(o)'
  <2>1. o \in Cores /\ CoreAccounted(o)
    BY <1>5 DEF CountersAccounted, MachineInv
  <2>2. /\ stage'[o] = stage[o] /\ halted'[o] = halted[o]
        /\ memoryStall'[o] = memoryStall[o]
    BY <1>2, <1>3, <2>1, PipelinesAssume, RegistersAndBits, PowersOfTwo, QuirksAreKnown,
       Q!CycleLeavesOthers
  <2>3. dataHazardStall'[o] = dataHazardStall[o]
    BY <1>3, <2>1
  <2>4. statistics'[o] = statistics[o] /\ executed'[o] = executed[o]
    BY <2>1, CycleCounts DEF CountersAccounted
  <2> QED
    BY <1>3, <1>4, <2>1, <2>2, <2>3, <2>4, AccountsStay
<1>6. ASSUME c \in registered PROVE CoreAccounted(c)'
  <2>1. CoreAccounted(c) /\ executed \in [Cores -> Nat]
    BY <1>6 DEF CountersAccounted
  <2>2. ~strayed'[c] => ~strayed[c] /\ (halted[c] => halted'[c])
    BY <1>4, CycleInMachine
  <2>3. ~strayed'[c] /\ ~halted'[c] => CountsRunning(c)'
    BY <2>1, <2>2, RunningCounts DEF CoreAccounted
  <2>4. ~strayed'[c] /\ halted'[c] => CountsDraining(c)'
    BY <2>1, <2>2, HaltCounts, DrainingCounts DEF CoreAccounted
  <2>5. ~coreHalted'[c]
    BY <1>3
  <2> HIDE DEF CountsRunning, CountsDraining, P!Flushed
  <2> QED
    BY <2>3, <2>4, <2>5 DEF CoreAccounted
<1> HIDE DEF CoreAccounted
<1> QED
  BY SMTT(30), <1>1, <1>5, <1>6 DEF CountersAccounted

LEMMA OthersKeepAccounts ==
  ASSUME MachineInv, CountersAccounted, UNCHANGED <<registered, statistics, executed>>,
         UNCHANGED <<stage, halted, dataHazardStall, memoryStall, strayed>>,
         \A c \in Cores : coreHalted'[c] => coreHalted[c] \/ P!Flushed(c)
  PROVE  CountersAccounted'
<1>1. registered' = registered /\ registered \subseteq Cores
  BY DEF MachineInv
<1>2. ASSUME NEW c \in registered PROVE CoreAccounted(c)'
  BY <1>1, AccountsStay DEF CountersAccounted
<1> HIDE DEF CoreAccounted
<1> QED
  BY <1>1, <1>2 DEF CountersAccounted

LEMMA StepKeepsAccounts ==
  MachineInv /\ CountersAccounted /\ [MachineNext]_machineVars => CountersAccounted'
<1> SUFFICES ASSUME MachineInv, CountersAccounted, [MachineNext]_machineVars
             PROVE  CountersAccounted'
  OBVIOUS
<1>1. CASE BusServes
  BY <1>1, OthersKeepAccounts DEF BusServes, coreVars, watchVars
<1>2. CASE BusCrashes \/ UNCHANGED machineVars
  BY <1>2, OthersKeepAccounts DEF BusCrashes, coreVars, watchVars, recordVars, machineVars
<1>3. ASSUME NEW c \in Cores, CoreStops(c) PROVE CountersAccounted'
  <2>1. UNCHANGED <<registered, statistics, executed, strayed>>
    BY <1>3 DEF CoreStops, watchVars, recordVars
  <2>2. /\ UNCHANGED <<stage, halted, dataHazardStall, memoryStall>>
        /\ \A o \in Cores : coreHalted'[o] => coreHalted[o] \/ P!Flushed(o)
    <3>1. coreHalted \in [Cores -> BOOLEAN]
      BY PipelineInMachine DEF MachineInv
    <3> QED
      BY <1>3, <3>1
      DEF CoreStops, P!CoreHalts, P!Crashes, P!Rests, P!coreVars, P!pipelineVars
  <2> QED
    BY <2>1, <2>2, OthersKeepAccounts
<1>4. ASSUME NEW c \in Cores, CoreIter(c) PROVE CountersAccounted'
  BY <1>3, <1>4, CycleKeepsAccounts DEF CoreIter, CoreCycles
<1> QED
  BY <1>1, <1>2, <1>4 DEF MachineNext

LEMMA InitAccounts == MachineInit => CountersAccounted
<1> SUFFICES ASSUME MachineInit PROVE CountersAccounted
  OBVIOUS
<1>1. executed = [c \in Cores |-> 0] /\ executed \in [Cores -> Nat]
  BY DEF MachineInit
<1>2. ASSUME NEW c \in registered PROVE CoreAccounted(c)
  <2>1. /\ c \in Cores /\ ~coreHalted[c]
        /\ ~strayed[c] /\ ~halted[c] /\ ~memoryStall[c] /\ ~dataHazardStall[c]
        /\ stage[c] = P!InitialStages
    BY DEF MachineInit, P!WatchInit, P!PipelineInit
  <2>2. \A s \in {"decode", "execute", "mem"} : ~P!Full(c, s)
    BY <2>1 DEF P!Full, P!InitialStages, P!EmptyStage, P!Stages
  <2>3. InFlight(c) = 0 /\ StalledLast(c) = 0
    BY <2>1, <2>2 DEF InFlight, StalledLast, P!Unfinished, One
  <2>4. /\ statistics[c].cycles = 2^CounterBits - 1 /\ statistics[c].instructions = 0
        /\ statistics[c].decodeStalls = 0 /\ statistics[c].memStalls = 0
    BY <2>1 DEF MachineInit, S!StatisticsInit
  <2>5. Spare(c) + StalledLast(c) = 0 + 1 * 2^CounterBits /\ 2^CounterBits \in Int
    BY <2>3, <2>4, CounterBitsIsPositive DEF Spare
  <2>6. Congruent(Spare(c) + StalledLast(c), 0)
    BY <2>5, CongruentMeans
  <2>7. Congruent(statistics[c].instructions, executed[c] + InFlight(c) + StalledLast(c))
    BY <1>1, <2>1, <2>3, <2>4, CongruentSame
  <2> QED
    BY <2>1, <2>2, <2>6, <2>7 DEF CoreAccounted, CountsRunning
<1> QED
  BY <1>1, <1>2 DEF CountersAccounted

(***************************************************************************)
(* The counters of every core that has not strayed are in step with what   *)
(* its stages hold, however long the programs and however wide the         *)
(* counters: the inductive invariant of the statistics.                    *)
(***************************************************************************)
THEOREM MachineCountersAccounted == MachineSpec => []CountersAccounted
  BY InitAccounts, StepKeepsAccounts, MachineInductive, PTL DEF MachineSpec

-----------------------------------------------------------------------------
(***************************************************************************)
(* What is printed.                                                        *)
(***************************************************************************)
LEMMA AddUpFromAccounts ==
  ASSUME MachineInv, CountersAccounted, NEW c \in registered, coreHalted[c], ~strayed[c]
  PROVE  /\ S!PrintedInstructions(c) = (executed[c] + 1) % 2^CounterBits
         /\ \E k \in IF NoSources(c) THEN 3 .. 4 ELSE 2 .. 4 :
              Unexplained(c) % 2^CounterBits = k % 2^CounterBits
<1> DEFINE m == 2^CounterBits
           y == statistics[c].cycles
           i == statistics[c].instructions
           d == statistics[c].decodeStalls
           s == statistics[c].memStalls
           x == executed[c]
           py == S!PrintedCycles(c)
           pi == S!PrintedInstructions(c)
<1>1. /\ c \in Cores
      /\ y \in Int /\ i \in Int /\ d \in Int /\ s \in Int /\ x \in Int
  BY CounterBitsIsPositive DEF MachineInv, CountersAccounted, S!StatisticsTypeOK, S!Counts
<1>2. CountsDraining(c) /\ P!Flushed(c)
  BY DEF CountersAccounted, CoreAccounted, P!Flushed
<1>3. InFlight(c) = 0 /\ Depth(c) = 0
  <2>1. \A t \in {"decode", "execute", "mem", "writeback"} : ~P!Full(c, t)
    BY <1>2 DEF P!Flushed, P!Stages
  <2> HIDE DEF P!Full
  <2> QED
    BY <2>1 DEF InFlight, Depth, P!Unfinished, One
<1>4. PICK level \in 1 .. 3 :
        Congruent(Spare(c) + Depth(c), level) /\ (NoSources(c) => level # 1)
  BY <1>2 DEF CountsDraining
<1>5. Congruent(i, x + 2) /\ Congruent(y + 1 - i - d - s, level)
  <2>1. Congruent(i, x + 0 + 2)
    BY <1>2, <1>3 DEF CountsDraining
  <2>2. Congruent((y + 1 - i - d - s) + 0, level)
    BY <1>3, <1>4 DEF Spare
  <2>3. x + 0 + 2 = x + 2 /\ (y + 1 - i - d - s) + 0 = y + 1 - i - d - s
    BY <1>1
  <2> QED
    BY <2>1, <2>2, <2>3
<1>6. /\ py \in Int /\ pi \in Int /\ Congruent(py, y + 1) /\ Congruent(pi, i - 1)
      /\ pi = (i - 1) % 2^CounterBits
  BY <1>1, RemainderIsCongruent DEF S!PrintedCycles, S!PrintedInstructions
<1>7. Unexplained(c) = py - pi - d - s
  BY DEF Unexplained
<1> HIDE DEF m, y, i, d, s, x, py, pi
<1>8. pi = (x + 1) % 2^CounterBits
  <2>1. Congruent(1, 1)
    BY CongruentSame
  <2>2. Congruent(i - 1, (x + 2) - 1)
    BY <1>1, <1>5, <2>1, CongruentAdds
  <2>3. (x + 2) - 1 = x + 1 /\ x + 1 \in Int /\ i - 1 \in Int
    BY <1>1
  <2> QED
    BY <1>6, <2>2, <2>3, CongruentRemainder
<1>9. Congruent(py - pi - d - s, level + 1)
  <2> DEFINE e == py - pi
             e0 == (y + 1) - (i - 1)
             f == e - d
             f0 == e0 - d
             g0 == (y + 1 - i - d - s) + 1
  <2>1. Congruent(e, e0) /\ e \in Int /\ e0 \in Int
    <3> DEFINE u == y + 1
               v == i - 1
    <3>1. /\ u \in Int /\ v \in Int /\ py \in Int /\ pi \in Int
          /\ Congruent(py, u) /\ Congruent(pi, v)
      BY <1>1, <1>6
    <3> HIDE DEF u, v
    <3>2. Congruent(py - pi, u - v) /\ py - pi \in Int /\ u - v \in Int
      BY <3>1, CongruentAdds
    <3> QED
      BY <3>2 DEF u, v
  <2> HIDE DEF e, e0
  <2>2. Congruent(d, d) /\ Congruent(s, s) /\ Congruent(1, 1)
    BY <1>1, CongruentSame
  <2>3. Congruent(f, f0) /\ f \in Int /\ f0 \in Int
    BY <1>1, <2>1, <2>2, CongruentAdds
  <2> HIDE DEF f, f0
  <2>4. Congruent(f - s, f0 - s)
    BY <1>1, <2>2, <2>3, CongruentAdds
  <2>5. f - s = py - pi - d - s /\ f0 - s = g0 /\ y + 1 - i - d - s \in Int
        /\ level \in Int /\ g0 \in Int /\ level + 1 \in Int /\ py - pi - d - s \in Int
    BY <1>1, <1>4, <1>6 DEF e, e0, f, f0
  <2>6. Congruent(g0, level + 1)
    BY <1>5, <2>2, <2>5, CongruentAdds
  <2> HIDE DEF g0
  <2> QED
    BY <2>4, <2>5, <2>6, CongruentTransitive
<1>10. Unexplained(c) % 2^CounterBits = (level + 1) % 2^CounterBits
  <2>1. py - pi - d - s \in Int /\ level + 1 \in Int
    BY <1>1, <1>4, <1>6
  <2> QED
    BY <1>7, <1>9, <2>1, CongruentRemainder
<1>11. level + 1 \in IF NoSources(c) THEN 3 .. 4 ELSE 2 .. 4
  <2> HIDE DEF NoSources
  <2> QED
    BY <1>4
<1> QED
  BY <1>8, <1>10, <1>11 DEF pi, x

(***************************************************************************)
(* stats.txt adds up, however long the programs and however wide the       *)
(* counters: of a core that has not strayed it tells the instructions      *)
(* executed, and explains all of its cycles but four at most.              *)
(***************************************************************************)
THEOREM MachineStatisticsAddUp == MachineSpec => []StatisticsAddUp
<1>1. MachineInv /\ CountersAccounted => StatisticsAddUp
  BY AddUpFromAccounts DEF StatisticsAddUp
<1> QED
  BY <1>1, MachineInductive, MachineCountersAccounted, PTL
=============================================================================
