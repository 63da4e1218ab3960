----------------------------- MODULE BusPacket -----------------------------
(***************************************************************************)
(* The vocabulary the caches, the bus and the main memory share: core ids, *)
(* the parts of a word address, and the packet that travels on the bus     *)
(* (Interface/include/Bus.h, Core/include/Cache.h).                        *)
(*                                                                         *)
(* A word address is 21 bits: a 12-bit tag, a 6-bit index (the frame) and  *)
(* a 3-bit offset in the block. The model keeps the three fields and makes *)
(* their ranges parameters. Bus_Iter overwrites the offset of every        *)
(* address it puts on the bus, so a packet carries only the block address. *)
(***************************************************************************)
EXTENDS Integers, Sequences, FiniteSets

CONSTANTS
  NumberOfCores,  \* NUMBER_OF_CORES (4 in the program)
  FrameSize,      \* FRAME_SIZE: frames of a cache (64)
  NumberOfTags,   \* distinct tags an address can have (4096)
  BlockSize,      \* BLOCK_SIZE: words of a block (8)
  Words           \* the 32-bit data words the model tells apart

ASSUME SizesArePositive ==
  /\ NumberOfCores \in Nat \ {0}
  /\ FrameSize     \in Nat \ {0}
  /\ NumberOfTags  \in Nat \ {0}
  /\ BlockSize     \in Nat \ {0}

\* memset() clears the SRAMs, so zero is one of the words.
ASSUME ZeroIsAWord == 0 \in Words

Cores   == 0 .. NumberOfCores - 1
Frames  == 0 .. FrameSize - 1
Tags    == 0 .. NumberOfTags - 1
Offsets == 0 .. BlockSize - 1

LastOffset == BlockSize - 1

(***************************************************************************)
(* bus_invalid_originator is any number that names no core; the code uses  *)
(* 0xFFFF.                                                                 *)
(***************************************************************************)
InvalidOriginator == NumberOfCores + 1

Commands == {"none", "busRd", "busRdX", "flush"}

(***************************************************************************)
(* Bus_packet_s. bus_original_sender equals bus_origid in every queued     *)
(* packet and in gCurrentPacket; the copy of the packet whose bus_origid   *)
(* the responders overwrite is only printed, and bus_shared is computed    *)
(* afresh in every iteration.                                              *)
(***************************************************************************)
Packets == [origid : Cores \cup {InvalidOriginator}, cmd : Commands,
            tag : Tags, index : Frames, data : Words]

Packet(c, cmd, t, i, d) ==
  [origid |-> c, cmd |-> cmd, tag |-> t, index |-> i, data |-> d]

\* A zeroed gCurrentPacket: core 0, no command, address 0.
ZeroPacket == Packet(0, "none", 0, 0, 0)

(***************************************************************************)
(* The packet Cache_WriteData queues behind an upgrade. It starts no       *)
(* transaction: dequeuing it only costs the bus one iteration.             *)
(***************************************************************************)
InvalidPacket == Packet(InvalidOriginator, "none", 0, 0, 0)
=============================================================================
