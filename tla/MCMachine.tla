----------------------------- MODULE MCMachine -----------------------------
(***************************************************************************)
(* Instances of the machine for TLC: pairs of short programs, each filled  *)
(* up with HALT, and a pair of which one has no program.                   *)
(***************************************************************************)
EXTENDS Machine

\* Word a of the memory starts out as a + 5.
MCMemin ==
  [t \in Tags |-> [i \in Frames |-> [w \in Offsets |->
     Wrap(BlockSize * (FrameSize * t + i) + w + 5)]]]

AnyAccess == [c \in Cores |-> Accesses]

Ins(op, rd, rs, rt, imm) ==
  [op |-> op, rd |-> rd, rs |-> rs, rt |-> rt, imm |-> imm]

HaltIns == Ins("halt", 0, 0, 0, 0)

File(program) ==
  [k \in 1 .. InstructionsMemorySize |->
     IF k <= Len(program) THEN program[k] ELSE HaltIns]

\* A store to address a stores a.
\* Address a is word a % BlockSize of block a \div BlockSize.
LoadFrom(a) == Ins("lw", 2, 0, 1, a)
StoreTo(a)  == Ins("sw", 1, 0, 1, a)
StoreSum    == Ins("sw", 3, 0, 1, 1)
AddLoaded   == Ins("add", 3, 2, 1, 1)
LoadThere   == Ins("lw", 3, 2, 0, 0)
SkipUnless  == Ins("bne", 1, 2, 0, 3)

\* Programs that move data about, and may meet a hazard in a stall.
Movers ==
  {File(<<a, b, d>>) :
     a \in {LoadFrom(0), StoreTo(1)},
     b \in {LoadFrom(4), StoreTo(1), AddLoaded},
     d \in {AddLoaded, LoadThere, SkipUnless}}

\* Programs that come back to a block, with the other frame in use or their
\* own block replaced in between.
Returners ==
  {File(<<a, b, d>>) :
     a \in {LoadFrom(0), StoreTo(1)},
     b \in {LoadFrom(2), StoreTo(4), AddLoaded},
     d \in {LoadFrom(1), StoreTo(0), StoreSum}}

\* Programs with a HALT that waits for a register, or a word behind the HALT
\* that would wait for one.
HaltOnRegister == Ins("halt", 2, 0, 0, 0)

Haunted ==
  {File(<<a, HaltOnRegister, d>>) :
     a \in {LoadFrom(0), AddLoaded}, d \in {HaltIns, AddLoaded}}
  \cup {File(<<LoadFrom(0), HaltIns, AddLoaded>>),
        File(<<LoadFrom(0), StoreTo(4), HaltOnRegister>>)}

MCPrograms ==
  {[c \in Cores |-> IF c = 0 THEN f ELSE g] :
     f \in Returners, g \in Movers \cup Returners}
  \cup {[c \in Cores |-> IF c = 0 THEN f ELSE g] : f \in Haunted, g \in Movers}
  \cup {[c \in Cores |-> IF c = 0 THEN File(<<StoreTo(1)>>) ELSE <<>>]}
=============================================================================
