---------------------------- MODULE MCCoherence ----------------------------
(***************************************************************************)
(* Instances of Coherence for TLC.                                         *)
(***************************************************************************)
EXTENDS Coherence

MCMemin == [t \in Tags |-> [i \in Frames |-> [w \in Offsets |-> 0]]]

Access(op, t, w, d) ==
  [op |-> op, tag |-> t, index |-> 0, offset |-> w, data |-> d]

(***************************************************************************)
(* Three cores store to both words of block 0, and core 2 loads it; core 0 *)
(* also replaces it by a load, core 2 by a store.                          *)
(***************************************************************************)
ThreeCores ==
  [c \in Cores |->
     CASE c = 0 -> {Access("sw", 0, 1, 1), Access("lw", 1, 0, 0)}
       [] c = 1 -> {Access("sw", 0, 0, 1), Access("sw", 0, 1, 0)}
       [] OTHER -> {Access("lw", 0, 0, 0), Access("sw", 0, 1, 1),
                    Access("sw", 1, 0, 1)}]

(***************************************************************************)
(* Every core loads and stores in two frames, each of which has one block  *)
(* the programs access, with a tag of its own; a store to the first word   *)
(* of block 0 may be overtaken by the bus.                                 *)
(***************************************************************************)
TwoFrames ==
  [c \in Cores |->
     {[op |-> "sw", tag |-> i, index |-> i, offset |-> i, data |-> d] :
        i \in Frames, d \in {0, 1}} \cup
     {[op |-> "lw", tag |-> i, index |-> i, offset |-> 0, data |-> 0] :
        i \in Frames}]
=============================================================================
