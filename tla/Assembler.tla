----------------------------- MODULE Assembler -----------------------------
(***************************************************************************)
(* The assembler (Assembler/ca2025asm/ca2025asm/asm.c), and the files it   *)
(* writes as init_memory of Core.c and MainMemory_Init read them. A line   *)
(* is seen as what its tokens say; a name as a sequence of letters, for    *)
(* the letter n matters. The first pass reads a line per step, the second  *)
(* is one step.                                                            *)
(***************************************************************************)
EXTENDS Integers, Sequences, FiniteSetsExt, SequencesExt

CONSTANTS
  ImemSize,       \* IMEM_SIZE (1024)
  DmemSize,       \* DMEM_SIZE and MAIN_MEMORY_SIZE (2^21)
  ImmediateBits,  \* bits of the immediate field (12)
  LineBits,       \* bits of lineInProgram in MainMemory_Init (16)
  Lines,          \* the lines a source may have
  MaxLines        \* lines of the longest source: a bound of the model

VARIABLES
  source,      \* the lines read (history)
  PC,          \* PC of the first pass
  imem,        \* imem
  dmem,        \* dmem
  labels,      \* labels
  jumplabels,  \* jumplabels
  imm,         \* imm: a number that cannot be read leaves it as it was
  phase        \* the assembler reads, or has ended in one of two ways

assemblerVars == <<source, PC, imem, dmem, labels, jumplabels, imm, phase>>

Letters   == {"a", "n"}
NoName    == <<>>
ImemPlace == 0 .. ImemSize - 1
DmemPlace == 0 .. DmemSize - 1

\* An instruction without its immediate is a number, and 0 is that of add
\* $zero, $zero, $zero.
WordOf(code, value) == code * 2^ImmediateBits + value

(***************************************************************************)
(* A line has a label, or none, and one of these bodies.                   *)
(*   nothing      the rest is spaces or a comment                          *)
(*   broken       no opcode, or nothing but the end of the line            *)
(*   partial      a token is missing or an operand is no register          *)
(*   data         .word address value                                      *)
(*   number       an instruction, immediate value                          *)
(*   unreadable   an instruction, an immediate that is no number           *)
(*   reference    an instruction, the name of a label as immediate         *)
(***************************************************************************)
LineFormat ==
  [label : Seq(Letters),
   body : {"nothing", "broken", "partial", "data", "number", "unreadable",
           "reference"},
   code : Nat, address : Int, value : Int, name : Seq(Letters)]

\* A name begins with a letter (asm.c 193).
ASSUME LinesAreLines ==
  /\ Lines \subseteq LineFormat
  /\ \A line \in Lines : line.body = "reference" => line.name # NoName

\* No source is so long that labels or imem overflow, which nothing guards.
ASSUME SizesFit ==
  /\ {ImemSize, DmemSize} \subseteq Nat \ {0}
  /\ MaxLines \in Nat
  /\ {2^ImmediateBits, 2^LineBits} \subseteq Nat \ {0}
  /\ MaxLines < ImemSize
  /\ ImemSize <= 2^ImmediateBits

AssemblerTypeOK ==
  /\ source \in Seq(Lines)
  /\ PC \in ImemPlace
  /\ imem \in [ImemPlace -> Nat]
  /\ dmem \in [DmemPlace -> Int]
  /\ {labels, jumplabels} \subseteq [ImemPlace -> Seq(Letters)]
  /\ imm \in 0 .. 2^ImmediateBits - 1
  /\ phase \in {"read", "error", "written"}

\* Nothing initializes imm.
AssemblerInit ==
  /\ source = <<>>
  /\ PC = 0
  /\ imem = [k \in ImemPlace |-> 0]
  /\ dmem = [k \in DmemPlace |-> 0]
  /\ labels = [k \in ImemPlace |-> NoName]
  /\ jumplabels = [k \in ImemPlace |-> NoName]
  /\ imm \in 0 .. 2^ImmediateBits - 1
  /\ phase = "read"

-----------------------------------------------------------------------------
(***************************************************************************)
(* The first pass.                                                         *)
(***************************************************************************)

\* Mutant: a label is stored behind the instruction that follows it.
LabelledPlaceAfter(line) ==
  IF line.body \in {"number", "reference"} THEN PC + 1 ELSE PC

LabelledPlace(line) == PC

\* A label is stored before the rest of its line is looked at, and over the
\* label that was there.
StoresLabel(line) ==
  labels' = IF line.label = NoName THEN labels
            ELSE [labels EXCEPT ![LabelledPlace(line)] = line.label]

\* Mutant: the last letter goes with the end of the line.
CutBeforeEnd(name) == SubSeq(name, 1, Len(name) - 1)

\* The loop that looks for the end of the line stops at a letter n too.
CutAtEnd(name) ==
  LET n == SelectInSeq(name, LAMBDA l : l = "n")
  IN  IF n = 0 THEN name ELSE SubSeq(name, 1, n - 1)

Reads(line) ==
  /\ phase = "read"
  /\ Len(source) < MaxLines
  /\ source' = Append(source, line)
  /\ StoresLabel(line)

\* The line is over, or is passed over without a word.
ReadsNothing(line) ==
  /\ Reads(line)
  /\ line.body \in {"nothing", "partial"}
  /\ UNCHANGED <<PC, imem, dmem, jumplabels, imm, phase>>

ReadsError(line) ==
  /\ Reads(line)
  /\ \/ line.body = "broken"
     \/ line.body = "data" /\ line.address \notin DmemPlace
  /\ phase' = "error"
  /\ UNCHANGED <<PC, imem, dmem, jumplabels, imm>>

ReadsData(line) ==
  /\ Reads(line)
  /\ line.body = "data"
  /\ line.address \in DmemPlace
  /\ dmem' = [dmem EXCEPT ![line.address] = line.value]
  /\ UNCHANGED <<PC, imem, jumplabels, imm, phase>>

Masked(value) == value % 2^ImmediateBits

\* imem[PC++].
Assembles(line, value) ==
  /\ imm' = Masked(value)
  /\ imem' = [imem EXCEPT ![PC] = WordOf(line.code, imm')]
  /\ PC' = PC + 1
  /\ UNCHANGED <<dmem, phase>>

ReadsInstruction(line) ==
  /\ Reads(line)
  /\ \/ line.body = "number" /\ Assembles(line, line.value)
     \/ line.body = "unreadable" /\ Assembles(line, imm)
  /\ UNCHANGED jumplabels

\* Mutant: the immediate of an earlier line is left in the word.
ReadsReferenceOver(line) ==
  /\ Reads(line)
  /\ line.body = "reference"
  /\ jumplabels' = [jumplabels EXCEPT ![PC] = CutAtEnd(line.name)]
  /\ Assembles(line, imm)

ReadsReference(line) ==
  /\ Reads(line)
  /\ line.body = "reference"
  /\ jumplabels' = [jumplabels EXCEPT ![PC] = CutAtEnd(line.name)]
  /\ Assembles(line, 0)

-----------------------------------------------------------------------------
(***************************************************************************)
(* The second pass: every word with a reference gets the first place that  *)
(* has a label of that name. A reference of which nothing is left is none. *)
(***************************************************************************)
Referring == {k \in ImemPlace : jumplabels[k] # NoName}

PlacesFor(k) == {p \in ImemPlace : labels[p] = jumplabels[k]}

FixesLabels ==
  /\ phase = "read"
  /\ \A k \in Referring : PlacesFor(k) # {}
  /\ imem' = [k \in ImemPlace |->
                IF k \in Referring THEN imem[k] + Min(PlacesFor(k)) ELSE imem[k]]
  /\ phase' = "written"
  /\ UNCHANGED <<source, PC, dmem, labels, jumplabels, imm>>

MissesLabel ==
  /\ phase = "read"
  /\ \E k \in Referring : PlacesFor(k) = {}
  /\ phase' = "error"
  /\ UNCHANGED <<source, PC, imem, dmem, labels, jumplabels, imm>>

AssemblerNext ==
  \/ \E line \in Lines :
       \/ ReadsNothing(line)
       \/ ReadsError(line)
       \/ ReadsData(line)
       \/ ReadsInstruction(line)
       \/ ReadsReference(line)
  \/ FixesLabels
  \/ MissesLabel

AssemblerSpec == AssemblerInit /\ [][AssemblerNext]_assemblerVars

-----------------------------------------------------------------------------
(***************************************************************************)
(* The files: an image is written up to its last word that is not zero.    *)
(***************************************************************************)

\* Mutant: the last word is taken for the number of words.
LengthWithoutLast(image) ==
  Max({0} \cup {k \in DOMAIN image : image[k] # 0})

LengthOf(image) == Max({0} \cup {k + 1 : k \in {j \in DOMAIN image : image[j] # 0}})

FileOf(image) == [k \in 1 .. LengthOf(image) |-> image[k - 1]]

\* init_memory of Core.c: a word per place, from the first on.
CoreLoaded(file) ==
  [k \in ImemPlace |-> IF k < Len(file) THEN file[k + 1] ELSE 0]

\* MainMemory_Init: the place of a word is counted in LineBits bits.
MemoryLoaded(file) ==
  [k \in DmemPlace |->
     LET lines == {l \in DOMAIN file : (l - 1) % 2^LineBits = k}
     IN  IF lines = {} THEN 0 ELSE file[Max(lines)]]

\* MainMemory_PrintData writes one word at least.
MemoryPrinted(memory) ==
  [k \in 1 .. Max({1, LengthOf(memory)}) |-> memory[k - 1]]

-----------------------------------------------------------------------------
(***************************************************************************)
(* What an assembler promises.                                             *)
(***************************************************************************)
HasInstruction(line) == line.body \in {"number", "unreadable", "reference"}

\* The address of line j, or of the first instruction after it.
AddressOf(j) == Cardinality({k \in 1 .. j - 1 : HasInstruction(source[k])})

LabelLines(name) == {j \in DOMAIN source : source[j].label = name}

\* A later label has the address of the label of line j.
Overwritten(j) ==
  \E k \in DOMAIN source :
    k > j /\ source[k].label # NoName /\ AddressOf(k) = AddressOf(j)

(***************************************************************************)
(* A label the assembler gets right: no n in its name, defined once, and   *)
(* no other label at its address after it.                                 *)
(***************************************************************************)
Plain(name) ==
  /\ "n" \notin Range(name)
  /\ \E j \in LabelLines(name) : LabelLines(name) = {j} /\ ~Overwritten(j)

Meant(line) ==
  IF line.body = "number" THEN line.value % 2^ImmediateBits
  ELSE AddressOf(CHOOSE j \in LabelLines(line.name) : TRUE)

(***************************************************************************)
(* What the arrays hold of the lines that have been read, while the first  *)
(* pass reads them and after it: the inductive invariant.                  *)
(***************************************************************************)
PlacesInOrder ==
  /\ Len(source) <= MaxLines
  /\ PC = AddressOf(Len(source) + 1)
  /\ \A k \in 0 .. PC - 1 :
       \E j \in DOMAIN source : HasInstruction(source[j]) /\ AddressOf(j) = k

LabelsKept ==
  /\ \A p \in ImemPlace :
       labels[p] # NoName =>
         \E j \in LabelLines(labels[p]) : AddressOf(j) = p
  /\ \A j \in DOMAIN source :
       source[j].label # NoName /\ ~Overwritten(j) =>
         labels[AddressOf(j)] = source[j].label

ReferencesKept ==
  /\ \A j \in DOMAIN source :
       HasInstruction(source[j]) =>
         jumplabels[AddressOf(j)] = IF source[j].body = "reference"
                                    THEN CutAtEnd(source[j].name) ELSE NoName
  /\ \A k \in ImemPlace : k >= PC => jumplabels[k] = NoName

WordsKept ==
  /\ \A j \in DOMAIN source :
       LET line == source[j]
           k    == AddressOf(j)
       IN  /\ line.body = "number" =>
                imem[k] = WordOf(line.code, line.value % 2^ImmediateBits)
           /\ line.body = "reference" /\ phase # "written" =>
                imem[k] = WordOf(line.code, 0)
  /\ \A k \in ImemPlace : k >= PC => imem[k] = 0

FirstPassInv ==
  /\ AssemblerTypeOK
  /\ PlacesInOrder
  /\ LabelsKept
  /\ ReferencesKept
  /\ WordsKept

(***************************************************************************)
(* Every instruction with a number or with a label that is plain is where  *)
(* its address says, with that number or the address the label stands for, *)
(* be the label before or behind it, and behind the last instruction there *)
(* is nothing (asm.c 80-88, 184-230).                                      *)
(***************************************************************************)
AssemblesSource ==
  phase = "written" =>
    /\ \A j \in DOMAIN source :
         \/ source[j].body = "number"
         \/ source[j].body = "reference" /\ Plain(source[j].name)
         => imem[AddressOf(j)] = WordOf(source[j].code, Meant(source[j]))
    /\ \A k \in ImemPlace : k >= AddressOf(Len(source) + 1) => imem[k] = 0

(***************************************************************************)
(* A source is turned down only for a line without an opcode, data that    *)
(* has no place, or a reference to a label that is not plain               *)
(* (asm.c 120-136, 225-228).                                               *)
(***************************************************************************)
RejectsOnlyFaults ==
  phase = "error" =>
    \E j \in DOMAIN source :
      LET line == source[j]
      IN  \/ line.body = "broken"
          \/ line.body = "data" /\ line.address \notin DmemPlace
          \/ line.body = "reference" /\ ~Plain(line.name)

(***************************************************************************)
(* What the assembler had in mind is what the processor starts with, and   *)
(* the memory it prints can be loaded again, as long as the image has no   *)
(* more words than MainMemory_Init can count (asm.c 232-244, Core.c        *)
(* 102-110, MainMemory.c 30-50, 113-122).                                  *)
(***************************************************************************)
FilesLoadBack ==
  phase = "written" =>
    /\ CoreLoaded(FileOf(imem)) = imem
    /\ LengthOf(dmem) <= 2^LineBits =>
         /\ MemoryLoaded(FileOf(dmem)) = dmem
         /\ MemoryLoaded(MemoryPrinted(dmem)) = dmem
=============================================================================
