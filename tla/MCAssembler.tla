---------------------------- MODULE MCAssembler ----------------------------
(***************************************************************************)
(* Instances of the assembler for TLC.                                     *)
(***************************************************************************)
EXTENDS Assembler

Line(label, body, code, address, value, name) ==
  [label |-> label, body |-> body, code |-> code, address |-> address,
   value |-> value, name |-> name]

Number(label, code, value) == Line(label, "number", code, 0, value, NoName)
Reference(label, name)     == Line(label, "reference", 1, 0, 0, name)
Data(address, value)       == Line(NoName, "data", 0, address, value, NoName)

A  == <<"a">>
AA == <<"a", "a">>
AN == <<"a", "n">>

(***************************************************************************)
(* References to plain names, to a name that is cut to another one, and to *)
(* one of which nothing is left; labels alone, before an instruction and   *)
(* before nothing; an instruction that is all zero, one whose immediate is *)
(* too wide; data at either end of the memory, and beyond it.              *)
(***************************************************************************)
MCLines ==
  {Reference(NoName, n) : n \in {A, AA, AN, <<"n">>}} \cup
  {Line(l, "nothing", 0, 0, 0, NoName) : l \in {NoName, A, AA}} \cup
  {Number(AN, 1, 2), Number(NoName, 0, 0), Number(A, 1, 2^ImmediateBits + 3),
   Reference(AA, A), Line(NoName, "unreadable", 1, 0, 0, NoName),
   Line(AA, "partial", 0, 0, 0, NoName), Line(NoName, "broken", 0, 0, 0, NoName),
   Data(0, 1), Data(DmemSize - 1, 1), Data(1, 0), Data(DmemSize, 1)}
=============================================================================
