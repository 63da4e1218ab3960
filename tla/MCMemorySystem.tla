--------------------------- MODULE MCMemorySystem ---------------------------
(***************************************************************************)
(* Instances of MemorySystem for TLC: memory images and workloads.         *)
(***************************************************************************)
EXTENDS MemoryProperties

MCMemin == [t \in Tags |-> [i \in Frames |-> [w \in Offsets |-> 0]]]

Access(op, t, w, d) ==
  [op |-> op, tag |-> t, index |-> 0, offset |-> w, data |-> d]

Loads  == {a \in Accesses : a.op = "lw" /\ a.data = 0}
Stores == {a \in Accesses : a.op = "sw"}

\* Every core makes every load and every store.
AnyAccess == [c \in Cores |-> Loads \cup Stores]

\* Every core stores to one and the same word.
StoresToOneWord == [c \in Cores |-> {Access("sw", 0, 0, 0)}]

(***************************************************************************)
(* Core 0 stores to a block and then replaces it, the others store to it   *)
(* and load it.                                                            *)
(***************************************************************************)
EvictionRace ==
  [c \in Cores |->
     IF c = 0 THEN {Access("sw", 0, 1, 1), Access("lw", 1, 0, 0)}
              ELSE {Access("sw", 0, 0, 1), Access("lw", 0, 0, 0)}]

\* Core 0 stores to block 1, the others load block 0 and then block 1.
StaleSender ==
  [c \in Cores |->
     IF c = 0 THEN {Access("sw", 1, 1, 1)}
              ELSE {Access("lw", 0, 0, 0), Access("lw", 1, 1, 0)}]
=============================================================================
