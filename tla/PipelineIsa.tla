---------------------------- MODULE PipelineIsa ----------------------------
(***************************************************************************)
(* The pipeline executes the program: it implements Isa, which steps when  *)
(* an instruction leaves MEM. Two history variables watch it: the address  *)
(* of the HALT that was decoded, which the pipeline forgets if a stall     *)
(* begins in the same cycle, and whether the core has strayed from its     *)
(* program in one of three ways.                                           *)
(*                                                                         *)
(* The specification here is of cores that share nothing, each with a data *)
(* memory that refuses an access for any number of cycles. Machine puts    *)
(* the caches in its place and uses the mapping and the properties alone.  *)
(***************************************************************************)
EXTENDS Pipeline

CONSTANTS
  CellOf,  \* CellOf[v]: the word of the data memory that address v names
  PcBits,  \* bits of a branch target in the documentation (10)
  Quirks,  \* the differences from the documentation to allow for (see Isa)
  Data     \* the data memory at the start

ASSUME QuirksAreKnown ==
  /\ Quirks \subseteq {"zero", "immediate", "target", "link", "halt"}
  /\ PcBits \in Nat

\* The words of the data memory.
Cells == {CellOf[v] : v \in Values}

ASSUME DataIsAMemory == Data \in [Cells -> Values]

VARIABLES
  haltAt,   \* the HALT, and the address that followed it into FETCH
  strayed,  \* core c does no longer follow its program
  dmem      \* dmem[c]: the data memory as core c sees it

watchVars == <<haltAt, strayed>>

(***************************************************************************)
(* A data hazard held the instruction in DECODE in the cycle a stall       *)
(* began. The producer leaves WRITE_BACK in that cycle, so nothing holds   *)
(* the instruction when the stall ends, and it moves on before decode()    *)
(* has seen it (Pipeline.c 91-107, 211-221).                               *)
(***************************************************************************)
Held(c) == Full(c, "decode") /\ stage[c]["decode"].operation = "null"

Slips(c, accepted) == accepted /\ memoryStall[c] /\ ~Hazard(c) /\ Held(c)

(***************************************************************************)
(* An instruction reads R0, or the link register, while an older one has   *)
(* yet to write it back: the hazard check looks neither at R0 nor at JAL   *)
(* (Pipeline.c 237, 267).                                                  *)
(***************************************************************************)
Reads(c, s) ==
  \/ s = "decode"  /\ Resolves(c)
  \/ s = "execute" /\ Computes(c)
  \/ s = "mem"     /\ AccessesData(c)

Before(s) == CASE s = "decode"  -> {"execute", "mem", "writeback"}
               [] s = "execute" -> {"mem", "writeback"}
               [] s = "mem"     -> {"writeback"}
               [] OTHER         -> {}

UncheckedResult(ins) ==
  IF ins.op = "jal" THEN {LinkRegister} ELSE {ins.rd} \cap {ZeroRegister}

ReadsStale(c) ==
  \E s \in Stages : \E older \in Before(s) :
    /\ Reads(c, s)
    /\ Full(c, older)
    /\ UncheckedResult(stage[c][older].ins) \cap Sources(stage[c][s].ins) # {}

(***************************************************************************)
(* The core has run on, far past its image, to the address that marks an   *)
(* empty stage, and what it fetches there is lost (Pipeline.c 126-129).    *)
(***************************************************************************)
FetchesNoPc(c) == Fetches(c) /\ pc[c] = NoPc

WatchInit ==
  /\ haltAt = [c \in Cores |-> <<0, 0>>]
  /\ strayed = [c \in Cores |-> FALSE]

\* What the history variables see of a cycle of core c.
Watch(c, accepted) ==
  /\ haltAt' = IF Halts(c)
               THEN [haltAt EXCEPT ![c] = <<stage[c]["decode"].pc, pc[c]>>]
               ELSE haltAt
  /\ strayed' = [strayed EXCEPT ![c] =
                   @ \/ Slips(c, accepted) \/ ReadsStale(c) \/ FetchesNoPc(c)]

-----------------------------------------------------------------------------
(***************************************************************************)
(* Cores with private memories. A refusing cycle may happen at any access. *)
(***************************************************************************)
soloVars == <<pipelineVars, watchVars, dmem>>

SoloInit ==
  /\ PipelineInit
  /\ WatchInit
  /\ dmem = [c \in Cores |-> Data]

Refused(c) == CycleStalls(c) /\ Watch(c, FALSE) /\ UNCHANGED dmem

\* The word of the memory the access in MEM is about.
DataCell(c) == CellOf[DataAddress(c)]

\* What core c sees of its memory after the access in MEM.
DataStored(c) ==
  IF Stores(c) THEN [dmem[c] EXCEPT ![DataCell(c)] = DataWord(c)] ELSE dmem[c]

Answered(c) ==
  /\ \/ CycleBubbles(c, dmem[c][DataCell(c)])
     \/ CycleMoves(c, dmem[c][DataCell(c)])
  /\ Watch(c, TRUE)
  /\ dmem' = [dmem EXCEPT ![c] = DataStored(c)]

Proceeds(c) ==
  \/ Answered(c)
  \/ (Crashes(c) \/ CoreHalts(c)) /\ UNCHANGED <<watchVars, dmem>>

\* Nothing runs after a crash.
SoloRests(c) == (Rests(c) \/ crashed) /\ UNCHANGED soloVars

SoloNext == \E c \in Cores : Refused(c) \/ Proceeds(c) \/ SoloRests(c)

SoloSpec == SoloInit /\ [][SoloNext]_soloVars

(***************************************************************************)
(* The main loop runs for ever, and the data cache accepts every access in *)
(* the end: an assumption here, which StallsOnlyWhenContended qualifies.   *)
(***************************************************************************)
FairSoloSpec == SoloSpec /\ \A c \in Cores : WF_soloVars(Proceeds(c))

-----------------------------------------------------------------------------
\* The instruction in stage s has yet to be executed.
Unfinished(c, s) ==
  Full(c, s) /\ ~(halted[c] /\ stage[c][s].ins.op = "halt")

\* The next two addresses, if behind are the next two from the stage before s.
Ahead(c, s, behind) ==
  IF Unfinished(c, s) THEN <<stage[c][s].pc, behind[1]>> ELSE behind

\* The two addresses that follow those in the stages. What is in FETCH counts
\* only in a stall, and not if a hazard has held the instruction before it.
ToFetch(c) ==
  IF halted[c] THEN haltAt[c]
  ELSE IF memoryStall[c] /\ ~Held(c) THEN <<stage[c]["fetch"].pc, pc[c]>>
  ELSE <<pc[c], pc[c] + 1>>

\* The two addresses that follow the instruction in stage s.
Behind(c, s) ==
  CASE s = "decode"  -> ToFetch(c)
    [] s = "execute" -> Ahead(c, "decode", ToFetch(c))
    [] s = "mem"     -> Ahead(c, "execute", Ahead(c, "decode", ToFetch(c)))

\* The addresses of the instruction that is executed next and of the one after.
Upcoming(c) == Ahead(c, "mem", Behind(c, "mem"))

\* The registers once the instruction in WRITE_BACK is written.
GeneralAfterWriteback(c) ==
  [r \in Registers \ ({ImmediateRegister} \cup
                      (IF "zero" \in Quirks THEN {} ELSE {ZeroRegister})) |->
     RegistersWritten(c)[r]]

\* The instructions before the HALT are written, and the HALT has left MEM.
Stopped(c) ==
  /\ halted[c]
  /\ \A s \in Stages \ {"writeback"} : ~Full(c, s)
  /\ Full(c, "writeback") => stage[c]["writeback"].ins.op = "halt"

I(c) == INSTANCE Isa WITH
  image <- imem[c], at <- Upcoming(c)[1], next <- Upcoming(c)[2],
  general <- GeneralAfterWriteback(c), memory <- dmem[c], stopped <- Stopped(c)

\* An instruction is executed, and the process survives it.
IsaStep(c) == I(c)!Next /\ ~crashed'

(***************************************************************************)
(* A cycle executes one instruction of the program, the next one in the    *)
(* order the documentation gives, or none: stalls, holes and the delay     *)
(* slot change no result (docs/Project_Documentation.md 182-225).          *)
(***************************************************************************)
ImplementsIsa ==
  [][\A c \in Cores : IsaStep(c) \/ UNCHANGED <<I(c)!isaVars, crashed>>]_soloVars

\* The program is at its end and has not halted: what it runs into is not its
\* own (Pipeline.c 126).
PastImage(c) == Upcoming(c)[1] \notin Addresses

\* What a step is to core c: one instruction, none, or the core strays.
SeenAsIsa(c) ==
  \/ I(c)!Next
  \/ UNCHANGED I(c)!isaVars
  \/ strayed'[c]
  \/ PastImage(c)

(***************************************************************************)
(* The lost decoding, the unchecked registers and the end of the image are *)
(* the only ways to stray from the program.                                *)
(***************************************************************************)
ImplementsIsaUnlessStrayed == [][\A c \in Cores : SeenAsIsa(c)]_soloVars

(***************************************************************************)
(* An access the cache has refused is offered again unchanged, so that the *)
(* cache answers, in the end, the request it was first given               *)
(* (Pipeline.c 165-177). Write back goes on in the meantime, and changes   *)
(* the request of a core that has read a stale register.                   *)
(***************************************************************************)
RequestedAccess(c) ==
  LET ins == stage[c]["mem"].ins
  IN  IF ins.op = "sw" THEN <<"sw", DataAddress(c), DataWord(c)>>
                       ELSE <<"lw", DataAddress(c), ins.rd>>

RetriesSameAccess ==
  [][\A c \in Cores :
       memoryStall'[c] =>
         RequestedAccess(c)' = RequestedAccess(c) \/ strayed'[c]]_soloVars

-----------------------------------------------------------------------------
(***************************************************************************)
(* Why a refused access stays the same: what the stages hold of it.        *)
(***************************************************************************)

\* Past the hazard check: decoded, or beyond DECODE.
Checked(c, s) ==
  /\ Full(c, s)
  /\ \/ s \in {"execute", "mem", "writeback"}
     \/ s = "decode" /\ stage[c][s].operation # "null"

\* A stage is given no function but its instruction's, and a HALT none.
OperationsDecoded(c) ==
  /\ \A s \in Stages :
       stage[c][s].operation \in {"null", stage[c][s].ins.op} \ {"halt"}
  /\ stage[c]["fetch"].operation = "null"

\* No register an instruction past the check reads is yet to be written.
HazardFree(c) ==
  \A s \in Stages : \A older \in Before(s) :
    Checked(c, s) /\ Writes(c, older) =>
      stage[c][older].ins.rd \notin Sources(stage[c][s].ins) \ Fixed

\* What follows a HALT is dropped.
HaltEmpties(c) == halted[c] => ~Full(c, "fetch") /\ ~Full(c, "decode")

HaltIsLast(c) ==
  \A s \in Stages : \A older \in Before(s) :
    Full(c, older) /\ stage[c][older].ins.op = "halt" => halted[c] /\ ~Full(c, s)

\* A branch was resolved with no unchecked register yet to be written.
BranchesUpToDate(c) ==
  \A s \in Stages : \A older \in Before(s) :
    /\ Checked(c, s)
    /\ stage[c][s].ins.op \in BranchOps
    /\ Full(c, older)
    => UncheckedResult(stage[c][older].ins) \cap Sources(stage[c][s].ins) = {}

(***************************************************************************)
(* WRITE_BACK writes the rd of a branch and of a store too: the value that *)
(* is there.                                                               *)
(***************************************************************************)
RewritesSame(c) ==
  \A s \in Stages :
    LET st == stage[c][s]
    IN  /\ Checked(c, s)
        /\ \/ st.ins.op \in BranchOps \ {"jal"}
           \/ st.ins.op = "sw" /\ s = "writeback"
        /\ st.ins.rd # ImmediateRegister
        => st.result = regs[c][st.ins.rd]

\* EXECUTE holds nothing that was never decoded, but for a HALT.
ExecuteIsDecoded(c) ==
  Full(c, "execute") /\ stage[c]["execute"].ins.op # "halt" =>
    stage[c]["execute"].operation # "null"

\* A core that has not strayed from its program.
Following(c) ==
  /\ HaltIsLast(c)
  /\ BranchesUpToDate(c)
  /\ RewritesSame(c)
  /\ ExecuteIsDecoded(c)

InstructionsInOrder(c) ==
  /\ OperationsDecoded(c)
  /\ HazardFree(c)
  /\ HaltEmpties(c)
  /\ ~strayed[c] => Following(c)

(***************************************************************************)
(* What the stages hold is what the hazard check and the HALT promise, for *)
(* any program (Pipeline.c 81-113, 231-283): the inductive invariant.      *)
(***************************************************************************)
PipelineInv ==
  /\ PipelineTypeOK
  /\ strayed \in [Cores -> BOOLEAN]
  /\ \A c \in Cores : InstructionsInOrder(c)

-----------------------------------------------------------------------------
(***************************************************************************)
(* Why the pipeline implements Isa: what a core that has not strayed holds *)
(* of its program.                                                         *)
(***************************************************************************)

\* A stage holds the instruction its address says, FETCH once it has fetched.
HoldsProgram(c) ==
  \A s \in Stages :
    /\ Full(c, s)
    /\ s = "fetch" => memoryStall[c]
    /\ stage[c][s].pc \in Addresses
    =>
      stage[c][s].ins = imem[c][stage[c][s].pc]

\* No hole comes into the pipeline from FETCH, and DECODE works in the cycle a
\* stall begins, or in that in which its instruction moves on.
FillsInOrder(c) ==
  /\ memoryStall[c] => AccessesData(c)
  /\ memoryStall[c] /\ ~halted[c] => Full(c, "fetch")
  /\ ~memoryStall[c] /\ Full(c, "decode") => Held(c)
  /\ ~halted[c] /\ ~Full(c, "decode") =>
       \A s \in {"execute", "mem", "writeback"} : ~Full(c, s)

\* Where the program goes on behind ins and its delay slot at next.
AddressAfter(c, ins, next) ==
  IF ins.op = "jal" THEN Wrap(next + 1) % 2^TargetBits
  ELSE IF ins.op \in BranchOps /\ Taken(ins.op, Operand(c, ins, ins.rs),
                                                Operand(c, ins, ins.rt))
  THEN Operand(c, ins, ins.rd) % 2^TargetBits
  ELSE next + 1

\* A branch has been taken, or not, by the registers as they still are.
FollowsBranches(c) ==
  \A s \in {"decode", "execute", "mem"} :
    LET ins  == stage[c][s].ins
        next == Behind(c, s)[1]
    IN  Checked(c, s) /\ Unfinished(c, s) /\ stage[c][s].pc \in Addresses =>
          /\ Behind(c, s)[2] = AddressAfter(c, ins, next)
          /\ ins.op = "jal" => stage[c][s].result = Wrap(next + 1)

\* What EXECUTE has computed is what it would compute now.
HoldsResults(c) ==
  \A s \in {"execute", "mem"} :
    LET ins == stage[c][s].ins
    IN  Full(c, s) /\ ins.op \in AluOps /\ (s = "mem" \/ memoryStall[c]) =>
          /\ stage[c][s].result = Alu(ins.op, Operand(c, ins, ins.rs),
                                              Operand(c, ins, ins.rt))
          /\ \A older \in Before(s) : Full(c, older) =>
               UncheckedResult(stage[c][older].ins) \cap Sources(ins) = {}

\* haltAt is the address of the HALT in the stages, and of one if it was lost;
\* a HALT computes nothing.
RemembersHalt(c) ==
  /\ halted[c] /\ haltAt[c][1] \in Addresses =>
       imem[c][haltAt[c][1]].op = "halt"
  /\ stage[c]["fetch"].result = 0
  /\ \A s \in Stages :
       Full(c, s) /\ stage[c][s].ins.op = "halt" =>
         /\ stage[c][s].result = 0
         /\ s \in {"execute", "mem", "writeback"} =>
              haltAt[c][1] = stage[c][s].pc

InProgramOrder(c) ==
  /\ HoldsProgram(c)
  /\ FillsInOrder(c)
  /\ FollowsBranches(c)
  /\ HoldsResults(c)
  /\ RemembersHalt(c)

(***************************************************************************)
(* The stages of a core that follows its program hold it: its instructions *)
(* one after the other, delay slots and branches in their places, and the  *)
(* results they have in Isa (Pipeline.c 81-223): the inductive invariant   *)
(* of the refinement.                                                      *)
(***************************************************************************)
IsaInv ==
  /\ PipelineInv
  /\ haltAt \in [Cores -> Nat \X Nat]
  /\ \A c \in Cores : ~strayed[c] => InProgramOrder(c)

(***************************************************************************)
(* EXECUTE calls the function pointer it finds. It is null only if a core  *)
(* let an instruction past DECODE undecoded, or lost the HALT that way     *)
(* (Pipeline.c 151-157, 211-221).                                          *)
(***************************************************************************)
CrashesOnlyStrayed == crashed => \E c \in Cores : strayed[c]

-----------------------------------------------------------------------------
(***************************************************************************)
(* A data hazard ends: the producer moves on and leaves a hole behind it,  *)
(* so that no instruction waits in DECODE for ever (Pipeline.c 91-113,     *)
(* 231-283).                                                               *)
(***************************************************************************)
HazardEnds == \A c \in Cores : Hazard(c) ~> ~Hazard(c) \/ crashed

(***************************************************************************)
(* A HALT stops its core: once it is decoded the pipeline drains, through  *)
(* any stall, and the core reports that it has halted.                     *)
(***************************************************************************)
HaltDrains == \A c \in Cores : halted[c] ~> coreHalted[c] \/ crashed
=============================================================================
