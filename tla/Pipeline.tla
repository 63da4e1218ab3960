------------------------------ MODULE Pipeline ------------------------------
(***************************************************************************)
(* The five-stage pipelines of the cores (Core/src/Pipeline.c) under       *)
(* Core_Init and Core_Iter (Core/src/Core.c). An action is one call of     *)
(* Core_Iter for core c: the stages are executed from DECODE, EXECUTE or   *)
(* MEM on, depending on the stalls, and then bubbled. Whether the data     *)
(* cache accepts the access in MEM, and the word it answers a load with,   *)
(* are the environment's: PipelineIsa and Machine supply them.             *)
(*                                                                         *)
(* R1 is written with the immediate before every use, so the model reads   *)
(* the immediate in its place.                                             *)
(***************************************************************************)
EXTENDS Opcodes, Sequences

CONSTANTS
  Cores,                   \* the cores
  InstructionsMemorySize,  \* INSTRUCTIONS_MEMORY_SIZE (1024)
  Programs                 \* the instruction files the cores may be given

Addresses == 0 .. InstructionsMemorySize - 1

\* UINT16_MAX, the pc of a stage that holds no instruction.
NoPc == 65535

\* A uint16_t. Nothing keeps it below InstructionsMemorySize.
Pcs == 0 .. NoPc

ASSUME ProgramsAreFiles == Programs \subseteq [Cores -> Seq(Instructions)]
ASSUME TargetsArePcs == 2^TargetBits \in 1 .. NoPc + 1

VARIABLES
  imem,             \* instructions_memory_image
  pc,               \* program_counter
  regs,             \* register_array
  stage,            \* pipe_stages
  halted,           \* pipeline.halted
  dataHazardStall,  \* data_hazard_stall
  memoryStall,      \* memory_stall
  coreHalted,       \* Core_isHalted
  crashed           \* the process has called or read through a null pointer

\* All but crashed are functions of the core.
coreVars == <<imem, pc, regs, stage, halted, dataHazardStall, memoryStall,
              coreHalted>>
pipelineVars == <<coreVars, crashed>>

Stages == {"fetch", "decode", "execute", "mem", "writeback"}

\* operation is the function pointer of the stage; result, execute_result.
StageRecords == [pc : Pcs, ins : Instructions,
                 operation : Ops \cup {"null"}, result : Values]

PipelineTypeOK ==
  /\ imem \in [Cores -> [Addresses -> Instructions]]
  /\ pc \in [Cores -> Pcs]
  /\ regs \in [Cores -> [Registers -> Values]]
  /\ stage \in [Cores -> [Stages -> StageRecords]]
  /\ {halted, dataHazardStall, memoryStall, coreHalted}
       \subseteq [Cores -> BOOLEAN]
  /\ crashed \in BOOLEAN

(***************************************************************************)
(* init_memory: the words of the file, as many as fit, in a zeroed image.  *)
(* Its result is the number of words read; without any the core is halted  *)
(* from the start.                                                         *)
(***************************************************************************)
Image(file) == [a \in Addresses |-> IF a < Len(file) THEN file[a + 1]
                                                     ELSE ZeroInstruction]

EmptyStage ==
  [pc |-> NoPc, ins |-> ZeroInstruction, operation |-> "null", result |-> 0]

InitialStages ==
  [s \in Stages |-> IF s = "fetch" THEN [EmptyStage EXCEPT !.pc = 0]
                                   ELSE EmptyStage]

PipelineInit ==
  /\ \E files \in Programs :
       /\ imem = [c \in Cores |-> Image(files[c])]
       /\ coreHalted = [c \in Cores |-> files[c] = <<>>]
  /\ pc = [c \in Cores |-> 0]
  /\ regs = [c \in Cores |-> [r \in Registers |-> 0]]
  /\ stage = [c \in Cores |-> InitialStages]
  /\ halted = [c \in Cores |-> FALSE]
  /\ dataHazardStall = [c \in Cores |-> FALSE]
  /\ memoryStall = [c \in Cores |-> FALSE]
  /\ crashed = FALSE

-----------------------------------------------------------------------------
(***************************************************************************)
(* Data hazards.                                                           *)
(***************************************************************************)
Full(c, s) == stage[c][s].pc # NoPc

\* The instruction in stage s is taken to write its rd.
Writes(c, s) ==
  /\ Full(c, s)
  /\ stage[c][s].ins.op \notin BranchOps \cup {"sw", "halt"}

Sources(ins) ==
  IF ins.op \in AluOps \cup {"lw"} THEN {ins.rs, ins.rt}
                                   ELSE {ins.rd, ins.rs, ins.rt}

Fixed == {ZeroRegister, ImmediateRegister}

\* Mutant: the instruction in MEM is not looked at.
HazardWithoutMem(c) ==
  \E s \in {"execute", "writeback"} :
    /\ Writes(c, s)
    /\ stage[c][s].ins.rd \in Sources(stage[c]["decode"].ins) \ Fixed

\* is_pipeline_needs_data_hazard_stall.
Hazard(c) ==
  \E s \in {"execute", "mem", "writeback"} :
    /\ Writes(c, s)
    /\ stage[c][s].ins.rd \in Sources(stage[c]["decode"].ins) \ Fixed

-----------------------------------------------------------------------------
(***************************************************************************)
(* The stages, in the order execute_stages runs them. Each Executed is     *)
(* the stage after its function, or as it was if the function is not run.  *)
(***************************************************************************)
Operand(c, ins, r) == IF r = ImmediateRegister THEN ins.imm ELSE regs[c][r]

Fetches(c) == ~halted[c] /\ ~memoryStall[c]

(***************************************************************************)
(* What FETCH may hold. Past the end of the image the code reads on into   *)
(* what follows it (Pipeline.c 126): any instruction, for all it knows.    *)
(***************************************************************************)
Fetchable(c) ==
  IF pc[c] \in Addresses THEN {imem[c][pc[c]]} ELSE Instructions

FetchExecuted(c) ==
  IF Fetches(c)
  THEN {[stage[c]["fetch"] EXCEPT !.pc = pc[c], !.ins = ins] :
          ins \in Fetchable(c)}
  ELSE {stage[c]["fetch"]}

\* Mutant: the program counter goes on though a hazard holds FETCH.
PcFetchedInHazard(c) ==
  IF Fetches(c) THEN (pc[c] + 1) % (NoPc + 1) ELSE pc[c]

PcFetched(c) ==
  IF Fetches(c) /\ ~Hazard(c) THEN (pc[c] + 1) % (NoPc + 1) ELSE pc[c]

\* Mutant: an instruction that was held the cycle before is not decoded.
DecodesUnlessHeld(c) ==
  ~memoryStall[c] /\ ~Hazard(c) /\ ~dataHazardStall[c] /\ Full(c, "decode")

Decodes(c)  == ~memoryStall[c] /\ ~Hazard(c) /\ Full(c, "decode")
Halts(c)    == Decodes(c) /\ stage[c]["decode"].ins.op = "halt"
Resolves(c) == Decodes(c) /\ stage[c]["decode"].ins.op \in BranchOps

\* JAL writes the link over its target. OpcodeMapping has no function for LW
\* and SW; their names stand for that null, which nothing calls.
DecodeExecuted(c) ==
  LET d == stage[c]["decode"]
  IN  IF ~Decodes(c) \/ Halts(c)
      THEN d
      ELSE [d EXCEPT !.operation = d.ins.op,
                     !.result = IF ~Resolves(c) THEN @
                                ELSE IF d.ins.op = "jal" THEN Wrap(PcFetched(c))
                                ELSE Operand(c, d.ins, d.ins.rd)]

Branches(c) ==
  LET ins == stage[c]["decode"].ins
  IN  Resolves(c) /\ Taken(ins.op, Operand(c, ins, ins.rs),
                                   Operand(c, ins, ins.rt))

PcResolved(c) ==
  IF Branches(c) THEN DecodeExecuted(c).result % 2^TargetBits
                 ELSE PcFetched(c)

Computes(c) ==
  /\ ~memoryStall[c]
  /\ Full(c, "execute")
  /\ stage[c]["execute"].ins.op \in AluOps

\* The operation of an instruction that was never decoded is null.
CallsNull(c) == Computes(c) /\ stage[c]["execute"].operation = "null"

ExecuteExecuted(c) ==
  LET e == stage[c]["execute"]
  IN  IF Computes(c)
      THEN [e EXCEPT !.result = Alu(e.operation, Operand(c, e.ins, e.ins.rs),
                                                 Operand(c, e.ins, e.ins.rt))]
      ELSE e

AccessesData(c) == Full(c, "mem") /\ stage[c]["mem"].ins.op \in MemoryOps

DataAddress(c) ==
  LET ins == stage[c]["mem"].ins
  IN  Wrap(Operand(c, ins, ins.rs) + Operand(c, ins, ins.rt))

\* The word a store writes; a load that is refused leaves it in the stage.
DataWord(c) == Operand(c, stage[c]["mem"].ins, stage[c]["mem"].ins.rd)

Loads(c)  == AccessesData(c) /\ stage[c]["mem"].ins.op = "lw"
Stores(c) == AccessesData(c) /\ stage[c]["mem"].ins.op = "sw"

MemRefused(c) == [stage[c]["mem"] EXCEPT !.result = DataWord(c)]

MemExecuted(c, word) ==
  IF Loads(c) THEN [stage[c]["mem"] EXCEPT !.result = word]
  ELSE IF Stores(c) THEN MemRefused(c)
  ELSE stage[c]["mem"]

\* The register the instruction in WRITE_BACK is written to: any of them.
Destination(ins) == IF ins.op = "jal" THEN LinkRegister ELSE ins.rd

RegistersWritten(c) ==
  LET w == stage[c]["writeback"]
  IN  IF Full(c, "writeback")
      THEN [regs[c] EXCEPT ![Destination(w.ins)] = w.result]
      ELSE regs[c]

-----------------------------------------------------------------------------
(***************************************************************************)
(* Pipeline_BubbleCommands. A full stage is copied to the next one, an     *)
(* empty one only empties it.                                              *)
(***************************************************************************)
Bubbled(from, to) == IF from.pc = NoPc THEN [to EXCEPT !.pc = NoPc] ELSE from
Emptied(s) == [s EXCEPT !.pc = NoPc]
\* Mutant: a HALT does not empty FETCH and DECODE.
EmptiedIfNever(condition, s) == s

EmptiedIf(condition, s) == IF condition THEN Emptied(s) ELSE s

\* The stages of core c after the cycle.
StagesBecome(c, f, d, e, m, w) ==
  stage' = [stage EXCEPT ![c] =
    [s \in Stages |-> CASE s = "fetch"     -> EmptiedIf(halted'[c], f)
                        [] s = "decode"    -> EmptiedIf(halted'[c], d)
                        [] s = "execute"   -> e
                        [] s = "mem"       -> m
                        [] s = "writeback" -> w]]

\* Mutant: the instructions before the HALT are not waited for.
FlushedAtHalt(c) == halted[c]

\* Pipeline_PipeFlushed.
Flushed(c) == halted[c] /\ \A s \in Stages : ~Full(c, s)

\* Core_Iter calls Pipeline_Execute.
Runs(c) == ~crashed /\ ~coreHalted[c] /\ ~Flushed(c)

\* Pipeline_Execute, but for the stages.
Execute(c, accepted) ==
  /\ Runs(c)
  /\ ~CallsNull(c)
  /\ dataHazardStall' = [dataHazardStall EXCEPT ![c] = Hazard(c)]
  /\ pc' = [pc EXCEPT ![c] = PcResolved(c)]
  /\ regs' = [regs EXCEPT ![c] = RegistersWritten(c)]
  /\ halted' = [halted EXCEPT ![c] = @ \/ Halts(c)]
  /\ memoryStall' = [memoryStall EXCEPT ![c] = ~accepted]
  /\ UNCHANGED <<imem, coreHalted, crashed>>

\* Mutant: the instruction in EXECUTE moves on into MEM during the stall.
CycleStallsInWritebackOnly(c) ==
  /\ AccessesData(c)
  /\ Execute(c, FALSE)
  /\ \E f \in FetchExecuted(c) :
       StagesBecome(c, f, DecodeExecuted(c), ExecuteExecuted(c),
                    Bubbled(ExecuteExecuted(c), MemRefused(c)),
                    Emptied(stage[c]["writeback"]))

\* The cache refuses the access: only WRITE_BACK is emptied.
CycleStalls(c) ==
  /\ AccessesData(c)
  /\ Execute(c, FALSE)
  /\ \E f \in FetchExecuted(c) :
       StagesBecome(c, f, DecodeExecuted(c), ExecuteExecuted(c),
                    MemRefused(c), Emptied(stage[c]["writeback"]))

\* Mutant: no hole is left in EXECUTE.
CycleBubblesKeepingExecute(c, word) ==
  /\ Hazard(c)
  /\ Execute(c, TRUE)
  /\ \E f \in FetchExecuted(c) :
       StagesBecome(c, f, DecodeExecuted(c), ExecuteExecuted(c),
                    Bubbled(ExecuteExecuted(c), stage[c]["mem"]),
                    Bubbled(MemExecuted(c, word), stage[c]["writeback"]))

\* A data hazard: the stages from EXECUTE on move, and leave a hole. Here and
\* below word is what the cache answers, if MEM holds a load.
CycleBubbles(c, word) ==
  /\ Hazard(c)
  /\ Execute(c, TRUE)
  /\ \E f \in FetchExecuted(c) :
       StagesBecome(c, f, DecodeExecuted(c),
                    Emptied(ExecuteExecuted(c)),
                    Bubbled(ExecuteExecuted(c), stage[c]["mem"]),
                    Bubbled(MemExecuted(c, word), stage[c]["writeback"]))

\* Every stage moves.
CycleMoves(c, word) ==
  /\ ~Hazard(c)
  /\ Execute(c, TRUE)
  /\ \E f \in FetchExecuted(c) :
       StagesBecome(c, f, Bubbled(f, stage[c]["decode"]),
                    Bubbled(DecodeExecuted(c), stage[c]["execute"]),
                    Bubbled(ExecuteExecuted(c), stage[c]["mem"]),
                    Bubbled(MemExecuted(c, word), stage[c]["writeback"]))

\* A null function pointer is called: the process is gone.
Crashes(c) ==
  /\ Runs(c)
  /\ CallsNull(c)
  /\ crashed' = TRUE
  /\ UNCHANGED coreVars

CoreHalts(c) ==
  /\ ~crashed
  /\ ~coreHalted[c]
  /\ Flushed(c)
  /\ coreHalted' = [coreHalted EXCEPT ![c] = TRUE]
  /\ UNCHANGED <<imem, pc, regs, stage, halted, dataHazardStall, memoryStall,
                 crashed>>

\* Core_Iter of a halted core.
Rests(c) == coreHalted[c] /\ UNCHANGED pipelineVars
=============================================================================
