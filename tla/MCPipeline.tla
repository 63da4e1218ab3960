----------------------------- MODULE MCPipeline -----------------------------
(***************************************************************************)
(* Instances of the pipeline for TLC: all programs of a given length over  *)
(* a few instructions, in a memory filled up with HALT.                    *)
(***************************************************************************)
EXTENDS PipelineIsa

Ins(op, rd, rs, rt, imm) ==
  [op |-> op, rd |-> rd, rs |-> rs, rt |-> rt, imm |-> imm]

HaltIns == Ins("halt", 0, 0, 0, 0)

\* The programs of core 0, the only core.
Files(length, instructions) ==
  {[c \in {0} |-> [k \in 1 .. InstructionsMemorySize |->
                     IF k <= length THEN p[k] ELSE HaltIns]] :
     p \in [1 .. length -> instructions]}

\* R2 and R3 depend on each other, on memory and on branches; two of the
\* instructions depend on neither, so that a hazard can meet a stall.
Entangled ==
  {Ins("add", 2, 3, 1, 3), Ins("sub", 3, 2, 1, 1), Ins("add", 3, 0, 1, 2),
   Ins("lw", 2, 3, 0, 0), Ins("lw", 3, 0, 1, 2), Ins("sw", 2, 3, 1, 1),
   Ins("beq", 1, 2, 0, 3), Ins("bne", 2, 3, 0, 0), HaltIns}

\* JAL, whose link is R3; a result, a load and a link that go to or come
\* from R0; a HALT that names a register.
Odd ==
  {Ins("jal", 2, 0, 0, 0), Ins("add", 0, 3, 1, 3), Ins("lw", 0, 0, 1, 1),
   Ins("sw", 0, 0, 3, 0), Ins("halt", 2, 0, 0, 0)}

EntangledPrograms == Files(4, Entangled)

AllPrograms == EntangledPrograms \cup Files(3, Entangled \cup Odd)

\* JAL to the address in R2, over two instructions.
JalPrograms ==
  {[c \in {0} |-> <<Ins("add", 2, 0, 1, 1), Ins("jal", 2, 0, 0, 0)>> \o
                  [k \in 1 .. InstructionsMemorySize - 2 |-> HaltIns]]}

\* A memory of four words: two addresses name the same one.
MCCellOf == [v \in Values |-> v % 4]

MCData == [w \in 0 .. 3 |-> (w + 2) % 2^RegisterBits]
=============================================================================
