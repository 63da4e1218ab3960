------------------------------ MODULE Opcodes ------------------------------
(***************************************************************************)
(* The instructions of a core: their format (Interface/include/Helpers.h)  *)
(* and what the functions of Core/src/Opcodes.c compute. A word is a       *)
(* number below 2^RegisterBits and every result is taken modulo that.      *)
(***************************************************************************)
EXTENDS Integers

CONSTANTS
  NumberOfRegisters,  \* NUMBER_OF_REGISTERS (16)
  RegisterBits,       \* bits of a register (32)
  ImmediateBits,      \* bits of the immediate field (12)
  TargetBits          \* bits of a branch target that survive & 0x1FF (9)

ASSUME RegistersAndBits ==
  /\ NumberOfRegisters \in Nat /\ NumberOfRegisters > 2
  /\ RegisterBits \in Nat \ {0}
  /\ ImmediateBits \in 1 .. RegisterBits
  /\ TargetBits \in Nat

\* Arithmetic the provers do not know of.
ASSUME PowersOfTwo ==
  /\ \A n \in 0 .. RegisterBits : 2^n \in Nat \ {0} /\ 2^(n + 1) = 2 * 2^n
  /\ 2^ImmediateBits <= 2^RegisterBits

Registers         == 0 .. NumberOfRegisters - 1
ZeroRegister      == 0
ImmediateRegister == 1
LinkRegister      == NumberOfRegisters - 1

Values     == 0 .. 2^RegisterBits - 1
Immediates == 0 .. 2^ImmediateBits - 1

AluOps    == {"add", "sub", "and", "or", "xor", "mul", "sll", "sra", "srl"}
BranchOps == {"beq", "bne", "blt", "bgt", "ble", "bge", "jal"}
MemoryOps == {"lw", "sw"}

\* Opcodes above HALT, and 18 and 19, are no instructions.
Ops       == AluOps \cup BranchOps \cup MemoryOps \cup {"halt"}

Instructions == [op : Ops, rd : Registers, rs : Registers, rt : Registers,
                 imm : Immediates]

\* The all-zero instruction is add $zero, $zero, $zero.
ZeroInstruction ==
  [op |-> "add", rd |-> 0, rs |-> 0, rt |-> 0, imm |-> 0]

Wrap(x) == x % 2^RegisterBits

\* The word as a signed number, the set of its one bits, and back.
Signed(x)  == IF x < 2^(RegisterBits - 1) THEN x ELSE x - 2^RegisterBits
OneBits(x) == {k \in 0 .. RegisterBits - 1 : (x \div 2^k) % 2 = 1}
WordOf(S)  == CHOOSE x \in Values : OneBits(x) = S

(***************************************************************************)
(* The processor the simulator runs on takes a shift count modulo the      *)
(* width; C leaves larger counts open.                                     *)
(***************************************************************************)
ShiftCount(b) == b % RegisterBits

Alu(op, a, b) ==
  CASE op = "add" -> Wrap(a + b)
    [] op = "sub" -> Wrap(a - b)
    [] op = "and" -> WordOf(OneBits(a) \cap OneBits(b))
    [] op = "or"  -> WordOf(OneBits(a) \cup OneBits(b))
    [] op = "xor" -> WordOf((OneBits(a) \cup OneBits(b))
                              \ (OneBits(a) \cap OneBits(b)))
    [] op = "mul" -> Wrap(a * b)
    [] op = "sll" -> Wrap(a * 2^ShiftCount(b))
    [] op = "sra" -> Wrap(Signed(a) \div 2^ShiftCount(b))
    [] op = "srl" -> a \div 2^ShiftCount(b)

\* The condition of a branch; operands are compared without sign.
Taken(op, a, b) ==
  CASE op = "beq" -> a = b
    [] op = "bne" -> a # b
    [] op = "blt" -> a < b
    [] op = "bgt" -> a > b
    [] op = "ble" -> a <= b
    [] op = "bge" -> a >= b
    [] op = "jal" -> TRUE
=============================================================================
