------------------------------- MODULE Cache -------------------------------
(***************************************************************************)
(* The private, direct-mapped caches of the cores and the callbacks the    *)
(* bus runs on them (Core/src/Cache.c): the shared line, snooping, and the *)
(* answer to the cache that asked. The calls the pipeline makes,           *)
(* Cache_ReadData and Cache_WriteData, are in MemorySystem.                *)
(***************************************************************************)
EXTENDS BusPacket, FiniteSetsExt

VARIABLES
  tag,    \* tag[c][i]: tsram[i].fields.tag of cache c
  mesi,   \* mesi[c][i]: tsram[i].fields.mesi of cache c
  dsram   \* dsram[c][i][w]: word w of the block in frame i of cache c

cacheVars == <<tag, mesi, dsram>>

MesiStates == {"invalid", "shared", "exclusive", "modified"}

CacheTypeOK ==
  /\ tag   \in [Cores -> [Frames -> Tags]]
  /\ mesi  \in [Cores -> [Frames -> MesiStates]]
  /\ dsram \in [Cores -> [Frames -> [Offsets -> Words]]]

CacheInit ==
  /\ tag   = [c \in Cores |-> [i \in Frames |-> 0]]
  /\ mesi  = [c \in Cores |-> [i \in Frames |-> "invalid"]]
  /\ dsram = [c \in Cores |-> [i \in Frames |-> [w \in Offsets |-> 0]]]

\* Cache c has a valid copy of block <<t, i>>.
Holds(c, t, i) == tag[c][i] = t /\ mesi[c][i] # "invalid"

\* Mutant: only a modified copy raises the shared line.
SharedLineOfModified(p) ==
  \E c \in Cores \ {p.origid} :
    tag[c][p.index] = p.tag /\ mesi[c][p.index] = "modified"

(***************************************************************************)
(* shared_signal_handle: its result and its is_modified argument. Only the *)
(* result compares the tags.                                               *)
(***************************************************************************)
SharedLine(p) == \E c \in Cores \ {p.origid} : Holds(c, p.tag, p.index)

ModifiedLine(p) == \E c \in Cores \ {p.origid} : mesi[c][p.index] = "modified"

\* Mutant: an exclusive line ignores a read.
SnoopingSMKeepsExclusive(state, cmd) ==
  CASE state = "modified"  /\ cmd = "busRd"  -> "shared"
    [] state # "invalid"   /\ cmd = "busRdX" -> "invalid"
    [] OTHER                                 -> state

\* Mutant: every read takes the line away.
SnoopingSMDropsOnRead(state, cmd) ==
  IF cmd \in {"busRd", "busRdX"} THEN "invalid" ELSE state

(***************************************************************************)
(* gSnoopingSM: the state a valid line goes to when cmd passes on the bus. *)
(***************************************************************************)
SnoopingSM(state, cmd) ==
  CASE state = "modified"  /\ cmd = "busRd"  -> "shared"
    [] state = "exclusive" /\ cmd = "busRd"  -> "shared"
    [] state # "invalid"   /\ cmd = "busRdX" -> "invalid"
    [] OTHER                                 -> state

(***************************************************************************)
(* check_cache_snooping calls the caches in the order of their ids on one  *)
(* packet. A modified line answers by turning the packet into a flush of   *)
(* its word, and the caches called after it see that flush.                *)
(***************************************************************************)
Owners(p) ==
  {c \in Cores \ {p.origid} :
     Holds(c, p.tag, p.index) /\ mesi[c][p.index] = "modified"}

CmdSeenBy(c, p) == IF \E d \in Owners(p) : d < c THEN "flush" ELSE p.cmd

(***************************************************************************)
(* The caches that get past the early returns of cache_snooping_handle.    *)
(* The sender's is one of them if it sees a flush, its own or the answer   *)
(* of an owner called before it.                                           *)
(***************************************************************************)
Snoops(c, p) ==
  /\ Holds(c, p.tag, p.index)
  /\ c = p.origid => CmdSeenBy(c, p) = "flush"

\* Mutant: a modified line changes state with the first word.
SnoopedMesiAtOnce(c, p, offset) ==
  IF Snoops(c, p) THEN SnoopingSM(mesi[c][p.index], CmdSeenBy(c, p))
                  ELSE mesi[c][p.index]

\* Mutant: no line, modified or not, changes state before the last word.
SnoopedMesiAtEnd(c, p, offset) ==
  IF Snoops(c, p) /\ offset = LastOffset
  THEN SnoopingSM(mesi[c][p.index], CmdSeenBy(c, p))
  ELSE mesi[c][p.index]

SnoopedMesi(c, p, offset) ==
  IF Snoops(c, p) /\ (offset = LastOffset \/ mesi[c][p.index] # "modified")
  THEN SnoopingSM(mesi[c][p.index], CmdSeenBy(c, p))
  ELSE mesi[c][p.index]

\* mesi of all caches after the snooping of p at this offset.
MesiAfterSnoop(p, offset) ==
  [c \in Cores |-> [mesi[c] EXCEPT ![p.index] = SnoopedMesi(c, p, offset)]]

\* Mutant: the sender of a flush does not put its own words on the bus.
SuppliersWithoutSender(p) == Owners(p)

(***************************************************************************)
(* The caches that write bus_data while they snoop: the owners, and the    *)
(* sender if it gets there. The last one called wins. If there is none,    *)
(* the packet keeps the data it was queued with.                           *)
(***************************************************************************)
Suppliers(p) == Owners(p) \cup {c \in Cores : c = p.origid /\ Snoops(c, p)}

SnoopedData(p, offset) ==
  IF Suppliers(p) = {} THEN p.data ELSE dsram[Max(Suppliers(p))][p.index][offset]

\* Mutant: memory answers a read that an owner has answered.
MemorySuppliesAlways(p) == p.cmd # "flush"

\* Memory has to supply the word: no cache turned the read into a flush.
MemorySupplies(p) == p.cmd # "flush" /\ Owners(p) = {}

(***************************************************************************)
(* cache_response_handle on the sender's cache: the tag and one word per   *)
(* call, the state with the last word.                                     *)
(***************************************************************************)
Respond(p, offset, word, isShared) ==
  LET c == p.origid
      i == p.index
      snooped == MesiAfterSnoop(p, offset)
      filled  == IF isShared THEN "shared" ELSE "exclusive"
  IN  /\ tag'   = [tag EXCEPT ![c][i] = p.tag]
      /\ dsram' = [dsram EXCEPT ![c][i][offset] = word]
      /\ mesi'  = IF offset = LastOffset
                  THEN [snooped EXCEPT ![c][i] = filled]
                  ELSE snooped
=============================================================================
