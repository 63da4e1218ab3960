-------------------------------- MODULE Isa --------------------------------
(***************************************************************************)
(* What a program means to a core, one instruction at a time: the          *)
(* documented instruction set (docs/Project_Documentation.md, sections     *)
(* 3.1, 4.3 and 9.2), where R0 is zero and R1 the sign-extended immediate, *)
(* both read-only, and the instruction after a branch is executed in any   *)
(* case. Quirks names the points in which the machine differs from it.     *)
(***************************************************************************)
EXTENDS Opcodes

CONSTANTS
  CellOf,  \* CellOf[v]: the word of the memory that address v names
  PcBits,  \* "Branch target is R[rd][9:0]": bits of a target (10)
  Quirks   \* the differences to allow for

(***************************************************************************)
(* The quirks the machine has:                                             *)
(* zero       R0 is a register like any other                              *)
(* immediate  the immediate is not sign-extended                           *)
(* target     a target has TargetBits bits                                 *)
(* link       JAL links past its delay slot, and goes there                *)
(* halt       HALT clears its rd, unless it is dropped on the way          *)
(***************************************************************************)

VARIABLES
  image,    \* the program
  at,       \* the address of the instruction to execute
  next,     \* the address of the one after it
  general,  \* the registers that hold a value
  memory,   \* the data memory
  stopped   \* a HALT has been executed

coreVars == <<image, at, next, general, stopped>>
isaVars  == <<coreVars, memory>>

ReadOnly == {ImmediateRegister} \cup
            (IF "zero" \in Quirks THEN {} ELSE {ZeroRegister})

GeneralRegisters == Registers \ ReadOnly

SignExtended(imm) ==
  IF imm < 2^(ImmediateBits - 1) THEN imm ELSE Wrap(imm - 2^ImmediateBits)

Current == image[at]

R(r) == CASE r \in GeneralRegisters  -> general[r]
          [] r = ImmediateRegister -> IF "immediate" \in Quirks
                                      THEN Current.imm
                                      ELSE SignExtended(Current.imm)
          [] OTHER                 -> 0

With(r, value) ==
  IF r \in GeneralRegisters THEN [general EXCEPT ![r] = value] ELSE general

Set(r, value) == general' = With(r, value)

Proceed(target) ==
  /\ ~stopped
  /\ at' = next
  /\ next' = target
  /\ UNCHANGED <<image, stopped>>

Target(word) == word % 2^(IF "target" \in Quirks THEN TargetBits ELSE PcBits)

Compute ==
  /\ Current.op \in AluOps
  /\ Set(Current.rd, Alu(Current.op, R(Current.rs), R(Current.rt)))
  /\ Proceed(next + 1)
  /\ UNCHANGED memory

Branch ==
  /\ Current.op \in BranchOps \ {"jal"}
  /\ Proceed(IF Taken(Current.op, R(Current.rs), R(Current.rt))
             THEN Target(R(Current.rd)) ELSE next + 1)
  /\ UNCHANGED <<general, memory>>

JumpAndLink ==
  LET link == Wrap(IF "link" \in Quirks THEN next + 1 ELSE at + 1)
  IN  /\ Current.op = "jal"
      /\ Set(LinkRegister, link)
      /\ Proceed(Target(IF "link" \in Quirks THEN link ELSE R(Current.rd)))
      /\ UNCHANGED memory

\* The word of the memory a load or a store is about.
Cell == CellOf[Wrap(R(Current.rs) + R(Current.rt))]

Load ==
  /\ Current.op = "lw"
  /\ Set(Current.rd, memory[Cell])
  /\ Proceed(next + 1)
  /\ UNCHANGED memory

Store ==
  /\ Current.op = "sw"
  /\ memory' = [memory EXCEPT ![Cell] = R(Current.rd)]
  /\ Proceed(next + 1)
  /\ UNCHANGED general

Stop ==
  /\ ~stopped
  /\ Current.op = "halt"
  /\ stopped' = TRUE
  /\ \/ UNCHANGED general
     \/ "halt" \in Quirks /\ Set(Current.rd, 0)
  /\ UNCHANGED <<image, at, next, memory>>

Next == Compute \/ Branch \/ JumpAndLink \/ Load \/ Store \/ Stop
=============================================================================
