--------------------------- MODULE AssemblerProofs ---------------------------
(***************************************************************************)
(* Proofs about the assembler, for sources of any length: the invariant of *)
(* the first pass, what the second pass makes of it, and that the files    *)
(* bring back what was written. An address is a count of lines, so all     *)
(* that the proofs need to know of a source is how Address grows with it.  *)
(***************************************************************************)
EXTENDS Assembler, FiniteSetTheorems, SequenceTheorems, WellFoundedInduction, TLAPS

(***************************************************************************)
(* Places.                                                                 *)
(***************************************************************************)
LEMMA MinOfPlaces ==
  ASSUME NEW S \in SUBSET Nat, S # {}
  PROVE  Min(S) \in S /\ \A x \in S : Min(S) <= x
<1>1. PICK m \in S : \A x \in S : <<x, m>> \notin OpToRel(<, Nat)
  BY NatLessThanWellFounded, WFMin, Zenon
<1>2. \A x \in S : ~(x < m)
  BY <1>1 DEF OpToRel
<1>3. \A x \in S : m <= x
  BY <1>2
<1> QED
  BY <1>3 DEF Min

LEMMA MaxOfPlaces ==
  ASSUME NEW n \in Nat, NEW S \in SUBSET (0 .. n), S # {}
  PROVE  Max(S) \in S /\ \A x \in S : x <= Max(S)
<1> DEFINE T == {n - x : x \in S}
<1>1. T \in SUBSET Nat /\ T # {}
  <2>1. \A x \in S : n - x \in Nat
    OBVIOUS
  <2> QED
    BY <2>1, Zenon
<1> HIDE DEF T
<1>2. Min(T) \in T /\ \A y \in T : Min(T) <= y
  BY <1>1, MinOfPlaces
<1>3. PICK m \in S : Min(T) = n - m
  BY <1>2 DEF T
<1>4. ASSUME NEW x \in S PROVE m >= x
  <2>1. n - x \in T
    BY DEF T
  <2>2. n - m <= n - x
    BY <1>2, <1>3, <2>1
  <2> QED
    BY <2>2
<1> QED
  BY <1>4 DEF Max

-----------------------------------------------------------------------------
(***************************************************************************)
(* Addresses.                                                              *)
(***************************************************************************)
Before(s, j)  == {k \in 1 .. j - 1 : HasInstruction(s[k])}
Address(s, j) == Cardinality(Before(s, j))
Step(line)    == IF HasInstruction(line) THEN 1 ELSE 0

LEMMA AddressBounds ==
  ASSUME NEW s, NEW j \in Nat \ {0}
  PROVE  IsFiniteSet(Before(s, j)) /\ Address(s, j) \in 0 .. j - 1
<1>1. IsFiniteSet(1 .. j - 1) /\ Cardinality(1 .. j - 1) = j - 1
  BY FS_Interval
<1>2. Before(s, j) \in SUBSET (1 .. j - 1)
  BY DEF Before
<1>3. IsFiniteSet(Before(s, j)) /\ Cardinality(Before(s, j)) <= j - 1
  BY <1>1, <1>2, FS_Subset
<1>4. Cardinality(Before(s, j)) \in Nat
  BY <1>3, FS_CardinalityType
<1> QED
  BY <1>3, <1>4 DEF Address

LEMMA AddressGrows ==
  ASSUME NEW s, NEW j \in Nat \ {0}
  PROVE  Address(s, j + 1) = Address(s, j) + Step(s[j])
<1>1. IsFiniteSet(Before(s, j)) /\ j \notin Before(s, j)
  BY AddressBounds DEF Before
<1>2. CASE HasInstruction(s[j])
  <2>1. Before(s, j + 1) = Before(s, j) \cup {j}
    BY <1>2 DEF Before
  <2> QED
    BY <1>1, <1>2, <2>1, FS_AddElement DEF Address, Step
<1>3. CASE ~HasInstruction(s[j])
  <2>1. Before(s, j + 1) = Before(s, j)
    BY <1>3 DEF Before
  <2> QED
    BY <1>3, <2>1, AddressBounds DEF Address, Step
<1> QED
  BY <1>2, <1>3

LEMMA AddressOrdered ==
  ASSUME NEW s, NEW k \in Nat \ {0}, NEW j \in 1 .. k
  PROVE  /\ Address(s, j) <= Address(s, k)
         /\ j < k /\ HasInstruction(s[j]) => Address(s, j) < Address(s, k)
<1>1. ASSUME NEW i \in 1 .. k PROVE Address(s, i) <= Address(s, k)
  <2>1. Before(s, i) \in SUBSET Before(s, k)
    BY DEF Before
  <2> QED
    BY <2>1, AddressBounds, FS_Subset DEF Address
<1>2. ASSUME j < k, HasInstruction(s[j]) PROVE Address(s, j) < Address(s, k)
  <2>1. j + 1 \in 1 .. k /\ Address(s, j + 1) = Address(s, j) + 1
    BY <1>2, AddressGrows DEF Step
  <2>2. Address(s, j) \in Nat /\ Address(s, k) \in Nat
    BY AddressBounds
  <2> QED
    BY <1>1, <2>1, <2>2
<1> QED
  BY <1>1, <1>2

\* A line more leaves the addresses of those before it, and its own, alone.
LEMMA AddressStays ==
  ASSUME NEW s, NEW t, NEW n \in Nat, \A k \in 1 .. n : t[k] = s[k],
         NEW j \in 1 .. n + 1
  PROVE  Address(t, j) = Address(s, j)
<1>1. Before(t, j) = Before(s, j)
  BY DEF Before
<1> QED
  BY <1>1 DEF Address

-----------------------------------------------------------------------------
(***************************************************************************)
(* Names.                                                                  *)
(***************************************************************************)
LEMMA CutIsAName ==
  ASSUME NEW name \in Seq(Letters)
  PROVE  /\ CutAtEnd(name) \in Seq(Letters)
         /\ "n" \notin Range(name) => CutAtEnd(name) = name
<1> DEFINE I == {i \in 1 .. Len(name) : name[i] = "n"}
           n == SelectInSeq(name, LAMBDA l : l = "n")
<1>1. n = IF I # {} THEN Min(I) ELSE 0
  BY DEF SelectInSeq
<1>2. CutAtEnd(name) = IF n = 0 THEN name ELSE SubSeq(name, 1, n - 1)
  BY DEF CutAtEnd
<1>3. /\ Len(name) \in Nat /\ DOMAIN name = 1 .. Len(name)
      /\ \A i \in 1 .. Len(name) : name[i] \in Letters
  BY LenProperties, ElementOfSeq
<1> HIDE DEF n
<1>4. CASE I = {}
  BY <1>1, <1>2, <1>4
<1>5. CASE I # {}
  <2>1. I \in SUBSET Nat
    BY <1>3
  <2>2. Min(I) \in I
    BY <1>5, <2>1, MinOfPlaces
  <2>3. n \in 1 .. Len(name) /\ name[n] = "n"
    BY <1>1, <1>5, <2>2
  <2>4. "n" \in Range(name)
    BY <1>3, <2>3 DEF Range
  <2>5. SubSeq(name, 1, n - 1) \in Seq(Letters)
    BY <1>3, <2>3, SubSeqProperties
  <2> QED
    BY <1>2, <2>3, <2>4, <2>5
<1> QED
  BY <1>4, <1>5

-----------------------------------------------------------------------------
(***************************************************************************)
(* The first pass.                                                         *)
(***************************************************************************)
LEMMA AddressOfIs ==
  /\ \A j : AddressOf(j) = Address(source, j)
  /\ \A j : AddressOf(j)' = Address(source', j)
  BY DEF AddressOf, Address, Before

\* What a line more does to the addresses.
Longer(line) ==
  /\ source' \in Seq(Lines)
  /\ Len(source) \in Nat /\ Len(source') = Len(source) + 1
  /\ DOMAIN source = 1 .. Len(source) /\ DOMAIN source' = 1 .. Len(source) + 1
  /\ source'[Len(source) + 1] = line
  /\ Address(source', Len(source) + 1) = PC
  /\ Address(source', Len(source) + 2) = PC + Step(line)
  /\ PC \in 0 .. Len(source)
  /\ \A j \in DOMAIN source :
       /\ source[j] \in Lines /\ source'[j] = source[j]
       /\ AddressOf(j)' = AddressOf(j) /\ AddressOf(j) \in 0 .. PC
       /\ HasInstruction(source[j]) => AddressOf(j) < PC

LEMMA ReadIsLonger ==
  ASSUME FirstPassInv, NEW line \in Lines, Reads(line)
  PROVE  Longer(line)
<1> DEFINE n == Len(source)
<1>1. source \in Seq(Lines) /\ source' = Append(source, line)
      /\ PC = Address(source, n + 1)
  BY AddressOfIs DEF FirstPassInv, AssemblerTypeOK, PlacesInOrder, Reads
<1>2. n \in Nat /\ DOMAIN source = 1 .. n /\ \A j \in 1 .. n : source[j] \in Lines
  BY <1>1, LenProperties, ElementOfSeq
<1>3. /\ source' \in Seq(Lines) /\ Len(source') = n + 1 /\ source'[n + 1] = line
      /\ \A j \in 1 .. n : source'[j] = source[j]
  BY <1>1, <1>2, AppendProperties
<1>4. DOMAIN source' = 1 .. n + 1
  BY <1>3, LenProperties
<1> HIDE DEF n
<1>5. \A j \in 1 .. n + 1 : Address(source', j) = Address(source, j)
  BY <1>2, <1>3, AddressStays, AddressOfIs
<1>6. PC \in 0 .. n
  BY <1>1, <1>2, AddressBounds, AddressOfIs
<1>7. Address(source', n + 2) = PC + Step(line) /\ Address(source', n + 1) = PC
  <2>1. Address(source', (n + 1) + 1) = Address(source', n + 1) + Step(line)
    BY <1>2, <1>3, AddressGrows
  <2>2. (n + 1) + 1 = n + 2 /\ n + 1 \in 1 .. n + 1
    BY <1>2
  <2> QED
    BY <1>1, <1>5, <2>1, <2>2, AddressOfIs
<1>8. ASSUME NEW j \in 1 .. n
      PROVE  AddressOf(j) \in 0 .. PC /\ (HasInstruction(source[j]) => AddressOf(j) < PC)
  <2>1. j \in 1 .. n + 1 /\ n + 1 \in Nat \ {0} /\ j < n + 1 /\ j \in Nat \ {0}
    BY <1>2
  <2>2. /\ Address(source, j) <= Address(source, n + 1)
        /\ HasInstruction(source[j]) => Address(source, j) < Address(source, n + 1)
    BY <2>1, AddressOrdered
  <2>3. Address(source, j) \in Nat
    BY <2>1, AddressBounds
  <2> QED
    BY <1>1, <1>6, <2>2, <2>3, AddressOfIs
<1>9. \A j \in 1 .. n : AddressOf(j)' = AddressOf(j)
  BY <1>2, <1>5, AddressOfIs
<1> QED
  BY <1>2, <1>3, <1>4, <1>6, <1>7, <1>8, <1>9 DEF Longer, n

\* Labels are kept, whatever comes of the line.
LEMMA ReadKeepsLabels ==
  ASSUME FirstPassInv, NEW line \in Lines, Reads(line), Longer(line)
  PROVE  LabelsKept' /\ labels' \in [ImemPlace -> Seq(Letters)]
<1> DEFINE n == Len(source)
<1>1. /\ labels \in [ImemPlace -> Seq(Letters)] /\ PC \in ImemPlace
      /\ line.label \in Seq(Letters)
      /\ labels' = IF line.label = NoName THEN labels
                   ELSE [labels EXCEPT ![PC] = line.label]
  BY LinesAreLines
  DEF FirstPassInv, AssemblerTypeOK, LineFormat, Reads, StoresLabel, LabelledPlace
<1>2. LabelsKept
  BY DEF FirstPassInv
<1>3. ASSUME NEW p \in ImemPlace, labels'[p] # NoName
      PROVE  \E j \in DOMAIN source' : source'[j].label = labels'[p] /\ AddressOf(j)' = p
  <2>1. CASE line.label # NoName /\ p = PC
    <3>1. labels'[p] = line.label
      BY <1>1, <2>1
    <3> QED
      BY <2>1, <3>1, AddressOfIs DEF Longer
  <2>2. CASE ~(line.label # NoName /\ p = PC)
    <3>1. labels'[p] = labels[p]
      BY <1>1, <2>2
    <3>2. PICK j \in DOMAIN source : source[j].label = labels[p] /\ AddressOf(j) = p
      BY <1>2, <1>3, <3>1 DEF LabelsKept, LabelLines
    <3> QED
      BY <3>1, <3>2 DEF Longer
  <2> QED
    BY <2>1, <2>2
<1>4. ASSUME NEW j \in DOMAIN source', source'[j].label # NoName, ~Overwritten(j)'
      PROVE  labels'[AddressOf(j)'] = source'[j].label
  <2>1. CASE j = n + 1
    BY <1>1, <1>4, <2>1, AddressOfIs DEF Longer
  <2>2. CASE j # n + 1
    <3>1. j \in DOMAIN source /\ j < n + 1
      BY <2>2 DEF Longer
    <3>2. ~Overwritten(j)
      BY <1>4, <3>1 DEF Overwritten, Longer
    <3>3. labels[AddressOf(j)] = source[j].label
      BY <1>2, <1>4, <3>1, <3>2 DEF LabelsKept, Longer
    <3>4. line.label # NoName => AddressOf(j) # PC
      <4>1. n + 1 \in DOMAIN source' /\ n + 1 > j
        BY <3>1 DEF Longer
      <4> QED
        BY <1>4, <3>1, <4>1, AddressOfIs DEF Overwritten, Longer
    <3> QED
      BY <1>1, <3>1, <3>3, <3>4 DEF Longer
  <2> QED
    BY <2>1, <2>2
<1>5. labels' \in [ImemPlace -> Seq(Letters)]
  BY <1>1
<1> QED
  BY <1>3, <1>4, <1>5 DEF LabelsKept, LabelLines

LEMMA ReadKeepsPlaces ==
  ASSUME FirstPassInv, NEW line \in Lines, Reads(line), Longer(line),
         PC' = PC + Step(line)
  PROVE  PlacesInOrder' /\ PC' \in ImemPlace
<1>1. Len(source') <= MaxLines /\ MaxLines \in Nat
  BY SizesFit DEF Reads, Longer
<1>2. PC' = Address(source', Len(source') + 1)
  <2>1. Len(source') + 1 = Len(source) + 2
    BY DEF Longer
  <2> QED
    BY <2>1 DEF Longer
<1>3. PC' \in 0 .. Len(source')
  BY DEF Longer, Step
<1>4. PC' \in ImemPlace
  BY <1>1, <1>3, SizesFit DEF ImemPlace, Longer
<1>5. ASSUME NEW k \in 0 .. PC' - 1
      PROVE  \E j \in DOMAIN source' : HasInstruction(source'[j]) /\ AddressOf(j)' = k
  <2>1. CASE k < PC
    <3>1. k \in 0 .. PC - 1
      BY <2>1 DEF Longer
    <3>2. PICK j \in DOMAIN source : HasInstruction(source[j]) /\ AddressOf(j) = k
      BY <3>1 DEF FirstPassInv, PlacesInOrder
    <3> QED
      BY <3>2 DEF Longer
  <2>2. CASE ~(k < PC)
    <3>1. HasInstruction(line) /\ k = PC
      BY <2>2 DEF Step, Longer
    <3> QED
      BY <3>1, AddressOfIs DEF Longer
  <2> QED
    BY <2>1, <2>2
<1>6. (PC = AddressOf(Len(source) + 1))'
  BY <1>2 DEF AddressOf, Address, Before
<1> QED
  BY <1>1, <1>4, <1>5, <1>6 DEF PlacesInOrder

\* A line without an instruction leaves the words and the references alone.
LEMMA OtherLineKeeps ==
  ASSUME FirstPassInv, NEW line \in Lines, Longer(line), ~HasInstruction(line),
         UNCHANGED <<PC, imem, jumplabels>>, phase = "read"
  PROVE  ReferencesKept' /\ WordsKept'
<1>1. ReferencesKept /\ WordsKept
  BY DEF FirstPassInv
<1>2. ASSUME NEW j \in DOMAIN source', HasInstruction(source'[j])
      PROVE  j \in DOMAIN source
  BY <1>2 DEF Longer
<1>3. ReferencesKept'
  BY <1>1, <1>2 DEF ReferencesKept, Longer
<1>4. ASSUME NEW j \in DOMAIN source'
      PROVE  /\ source'[j].body = "number" =>
                  imem'[AddressOf(j)'] =
                    WordOf(source'[j].code, source'[j].value % 2^ImmediateBits)
             /\ source'[j].body = "reference" =>
                  imem'[AddressOf(j)'] = WordOf(source'[j].code, 0)
  <2>1. CASE j \in DOMAIN source
    BY <1>1, <2>1 DEF WordsKept, Longer
  <2>2. CASE j \notin DOMAIN source
    BY <1>2, <2>2 DEF HasInstruction
  <2> QED
    BY <2>1, <2>2
<1>5. WordsKept'
  BY <1>1, <1>4 DEF WordsKept
<1> QED
  BY <1>3, <1>5

LEMMA AssemblesKeeps ==
  ASSUME FirstPassInv, NEW line \in Lines, Longer(line), HasInstruction(line),
         NEW value \in Int, Assembles(line, value), phase = "read",
         line.body = "number" => value = line.value,
         line.body = "reference" => value = 0,
         jumplabels' = IF line.body = "reference"
                       THEN [jumplabels EXCEPT ![PC] = CutAtEnd(line.name)]
                       ELSE jumplabels
  PROVE  /\ ReferencesKept' /\ WordsKept' /\ imem' \in [ImemPlace -> Nat]
         /\ jumplabels' \in [ImemPlace -> Seq(Letters)]
         /\ imm' \in 0 .. 2^ImmediateBits - 1
<1> DEFINE m == 2^ImmediateBits
           last == Len(source) + 1
<1>1. /\ AssemblerTypeOK /\ ReferencesKept /\ WordsKept
      /\ PC \in ImemPlace /\ PC \in Nat /\ m \in Nat \ {0}
  BY SizesFit DEF FirstPassInv, AssemblerTypeOK, ImemPlace
<1>2. line.code \in Nat /\ line.name \in Seq(Letters)
  BY LinesAreLines DEF LineFormat
<1>3. imm' = value % m /\ imm' \in 0 .. m - 1
  <2> HIDE DEF m
  <2>1. value % m \in 0 .. m - 1
    BY <1>1
  <2> QED
    BY <2>1 DEF Assembles, Masked, m
<1>4. imem' = [imem EXCEPT ![PC] = WordOf(line.code, imm')] /\ PC' = PC + 1
  BY DEF Assembles
<1> HIDE DEF m
<1>5. WordOf(line.code, imm') \in Nat
  BY <1>1, <1>2, <1>3 DEF WordOf, m
<1>6. imem' \in [ImemPlace -> Nat]
  BY <1>1, <1>4, <1>5 DEF AssemblerTypeOK
<1>7. jumplabels' \in [ImemPlace -> Seq(Letters)]
  BY <1>1, <1>2, CutIsAName DEF AssemblerTypeOK
<1>8. /\ imem'[PC] = WordOf(line.code, imm')
      /\ jumplabels'[PC] = IF line.body = "reference" THEN CutAtEnd(line.name) ELSE NoName
  BY <1>1, <1>4 DEF AssemblerTypeOK, ReferencesKept
<1>9. \A k \in ImemPlace \ {PC} : imem'[k] = imem[k] /\ jumplabels'[k] = jumplabels[k]
  BY <1>1, <1>4 DEF AssemblerTypeOK
<1>10. /\ last \in DOMAIN source' /\ source'[last] = line
       /\ \A j \in DOMAIN source' : j = last => AddressOf(j)' = PC
       /\ \A j \in DOMAIN source' : j # last => j \in DOMAIN source
  BY AddressOfIs DEF Longer
<1>11. ASSUME NEW j \in DOMAIN source, HasInstruction(source[j])
       PROVE  AddressOf(j)' = AddressOf(j) /\ AddressOf(j) \in ImemPlace \ {PC}
              /\ source'[j] = source[j]
  <2>1. AddressOf(j) \in 0 .. PC /\ AddressOf(j) < PC
    BY <1>11 DEF Longer
  <2>2. PC \in 0 .. ImemSize - 1 /\ ImemSize \in Nat
    BY <1>1, SizesFit DEF ImemPlace
  <2>3. ASSUME NEW a \in 0 .. PC, a < PC PROVE a \in ImemPlace \ {PC}
    BY <2>2, <2>3 DEF ImemPlace
  <2>4. AddressOf(j) \in ImemPlace \ {PC}
    BY <2>1, <2>3
  <2> QED
    BY <1>11, <2>4 DEF Longer
<1>12. PC + 1 > PC /\ \A k \in ImemPlace : k >= PC + 1 => k >= PC /\ k # PC
  BY <1>1 DEF ImemPlace
<1> HIDE DEF last
<1>13. ReferencesKept'
  <2>1. ASSUME NEW j \in DOMAIN source', HasInstruction(source'[j])
        PROVE  jumplabels'[AddressOf(j)'] = IF source'[j].body = "reference"
                                            THEN CutAtEnd(source'[j].name) ELSE NoName
    <3>1. CASE j = last
      BY <1>8, <1>10, <3>1
    <3>2. CASE j # last
      <4>1. j \in DOMAIN source /\ source'[j] = source[j]
        BY <1>10, <3>2 DEF Longer
      <4> QED
        BY <1>1, <1>9, <1>11, <2>1, <4>1 DEF ReferencesKept
    <3> QED
      BY <3>1, <3>2
  <2>2. \A k \in ImemPlace : k >= PC' => jumplabels'[k] = NoName
    BY <1>1, <1>4, <1>9, <1>12 DEF ReferencesKept
  <2> QED
    BY <2>1, <2>2 DEF ReferencesKept
<1>14. WordsKept'
  <2>1. ASSUME NEW j \in DOMAIN source'
        PROVE  /\ source'[j].body = "number" =>
                    imem'[AddressOf(j)'] =
                      WordOf(source'[j].code, source'[j].value % 2^ImmediateBits)
               /\ source'[j].body = "reference" =>
                    imem'[AddressOf(j)'] = WordOf(source'[j].code, 0)
    <3>1. CASE j = last
      <4>1. 0 % m = 0
        BY <1>1
      <4> QED
        BY <1>3, <1>8, <1>10, <3>1, <4>1 DEF m
    <3>2. CASE j # last /\ HasInstruction(source'[j])
      <4>1. j \in DOMAIN source /\ source'[j] = source[j]
        BY <1>10, <3>2 DEF Longer
      <4> QED
        BY <1>1, <1>9, <1>11, <3>2, <4>1 DEF WordsKept
    <3>3. CASE ~HasInstruction(source'[j])
      BY <3>3 DEF HasInstruction
    <3> QED
      BY <3>1, <3>2, <3>3
  <2>2. \A k \in ImemPlace : k >= PC' => imem'[k] = 0
    BY <1>1, <1>4, <1>9, <1>12 DEF WordsKept
  <2> QED
    BY <2>1, <2>2 DEF WordsKept
<1> QED
  BY <1>3, <1>6, <1>7, <1>13, <1>14 DEF m

-----------------------------------------------------------------------------
(***************************************************************************)
(* Every step keeps the invariant of the first pass.                       *)
(***************************************************************************)
LEMMA LineKeeps ==
  ASSUME FirstPassInv, NEW line \in Lines,
         \/ ReadsNothing(line) \/ ReadsError(line) \/ ReadsData(line)
         \/ ReadsInstruction(line) \/ ReadsReference(line)
  PROVE  FirstPassInv'
<1>1. Reads(line) /\ phase = "read"
  BY DEF ReadsNothing, ReadsError, ReadsData, ReadsInstruction, ReadsReference, Reads
<1>2. Longer(line)
  BY <1>1, ReadIsLonger
<1>3. LabelsKept' /\ labels' \in [ImemPlace -> Seq(Letters)]
  BY <1>1, <1>2, ReadKeepsLabels
<1>4. AssemblerTypeOK /\ source' \in Seq(Lines) /\ PC \in Int
  BY <1>2, SizesFit DEF FirstPassInv, AssemblerTypeOK, Longer, ImemPlace
<1>5. CASE ~HasInstruction(line)
  <2>1. /\ UNCHANGED <<PC, imem, jumplabels, imm>>
        /\ phase' \in {"read", "error"}
    BY <1>1, <1>5
    DEF ReadsNothing, ReadsError, ReadsData, ReadsInstruction, ReadsReference,
        HasInstruction
  <2>2. dmem' \in [DmemPlace -> Int]
    <3>1. line.value \in Int
      BY LinesAreLines DEF LineFormat
    <3> QED
      BY <1>4, <1>5, <3>1
      DEF ReadsNothing, ReadsError, ReadsData, ReadsInstruction, ReadsReference,
          HasInstruction, AssemblerTypeOK
  <2>3. ReferencesKept' /\ WordsKept'
    BY <1>1, <1>2, <1>5, <2>1, OtherLineKeeps
  <2>4. PC' = PC + Step(line)
    BY <1>4, <1>5, <2>1 DEF Step
  <2>5. PlacesInOrder' /\ PC' \in ImemPlace
    BY <1>1, <1>2, <2>4, ReadKeepsPlaces
  <2> QED
    BY <1>3, <1>4, <2>1, <2>2, <2>3, <2>5 DEF FirstPassInv, AssemblerTypeOK
<1>6. CASE HasInstruction(line)
  <2>1. PICK value \in Int :
          /\ Assembles(line, value)
          /\ line.body = "number" => value = line.value
          /\ line.body = "reference" => value = 0
          /\ jumplabels' = IF line.body = "reference"
                           THEN [jumplabels EXCEPT ![PC] = CutAtEnd(line.name)]
                           ELSE jumplabels
    <3>1. line.value \in Int /\ imm \in Int /\ 0 \in Int
      BY <1>4, LinesAreLines, SizesFit DEF LineFormat, AssemblerTypeOK
    <3>2. CASE ReadsInstruction(line)
      BY <3>1, <3>2 DEF ReadsInstruction
    <3>3. CASE ReadsReference(line)
      BY <3>1, <3>3 DEF ReadsReference
    <3> QED
      BY <1>6, <3>2, <3>3
      DEF ReadsNothing, ReadsError, ReadsData, HasInstruction
  <2>2. /\ ReferencesKept' /\ WordsKept' /\ imem' \in [ImemPlace -> Nat]
        /\ jumplabels' \in [ImemPlace -> Seq(Letters)]
        /\ imm' \in 0 .. 2^ImmediateBits - 1
    BY <1>1, <1>2, <1>6, <2>1, AssemblesKeeps
  <2>3. PC' = PC + Step(line) /\ UNCHANGED <<dmem, phase>>
    BY <1>6, <2>1 DEF Assembles, Step
  <2>4. PlacesInOrder' /\ PC' \in ImemPlace
    BY <1>1, <1>2, <2>3, ReadKeepsPlaces
  <2> QED
    BY <1>3, <1>4, <2>2, <2>3, <2>4 DEF FirstPassInv, AssemblerTypeOK
<1> QED
  BY <1>5, <1>6

LEMMA NothingReadKeeps ==
  ASSUME UNCHANGED <<source, PC, dmem, labels, jumplabels, imm>>
  PROVE  /\ PlacesInOrder => PlacesInOrder'
         /\ LabelsKept => LabelsKept'
         /\ ReferencesKept => ReferencesKept'
         /\ \A j : AddressOf(j)' = AddressOf(j)
<1>1. \A j : AddressOf(j)' = AddressOf(j)
  BY AddressOfIs
<1>2. PlacesInOrder => PlacesInOrder'
  <2>1. (PC = AddressOf(Len(source) + 1))' <=> PC = AddressOf(Len(source) + 1)
    BY DEF AddressOf
  <2> QED
    BY <1>1, <2>1 DEF PlacesInOrder
<1>3. LabelsKept => LabelsKept'
  <2>1. \A j : Overwritten(j)' <=> Overwritten(j)
    BY <1>1 DEF Overwritten
  <2> QED
    BY <1>1, <2>1 DEF LabelsKept, LabelLines
<1>4. ReferencesKept => ReferencesKept'
  BY <1>1 DEF ReferencesKept
<1> QED
  BY <1>1, <1>2, <1>3, <1>4

\* What an image has to hold, when no line is read.
LEMMA SourceStays ==
  ASSUME UNCHANGED source,
         phase' = "written" =>
           /\ \A j \in DOMAIN source :
                \/ source[j].body = "number"
                \/ source[j].body = "reference" /\ Plain(source[j].name)
                => imem'[AddressOf(j)] = WordOf(source[j].code, Meant(source[j]))
           /\ \A k \in ImemPlace : k >= AddressOf(Len(source) + 1) => imem'[k] = 0
  PROVE  AssemblesSource'
<1>1. \A j : AddressOf(j)' = AddressOf(j)
  BY AddressOfIs
<1>2. \A j \in DOMAIN source :
        /\ Plain(source[j].name)' <=> Plain(source[j].name)
        /\ Meant(source[j])' = Meant(source[j])
  BY <1>1 DEF Plain, Meant, LabelLines, Overwritten
<1>3. AddressOf(Len(source) + 1)' = AddressOf(Len(source) + 1)
  BY DEF AddressOf
<1>4. ASSUME NEW j \in DOMAIN source, phase' = "written",
             (\/ source[j].body = "number"
              \/ source[j].body = "reference" /\ Plain(source[j].name))'
      PROVE  (imem[AddressOf(j)] = WordOf(source[j].code, Meant(source[j])))'
  BY <1>1, <1>2, <1>4
<1>5. ASSUME NEW k \in ImemPlace, phase' = "written",
             (k >= AddressOf(Len(source) + 1))'
      PROVE  (imem[k] = 0)'
  BY <1>3, <1>5
<1> QED
  BY <1>4, <1>5 DEF AssemblesSource, Plain, Meant, LabelLines, Overwritten

\* Where the instruction of a line is, and what the first pass left there.
LEMMA InstructionAt ==
  ASSUME FirstPassInv, NEW j \in DOMAIN source
  PROVE  /\ source[j] \in LineFormat /\ source[j] \in Lines
         /\ AddressOf(j) \in ImemPlace /\ AddressOf(j) \in Nat
<1>1. /\ source \in Seq(Lines) /\ Len(source) <= MaxLines
      /\ PC = Address(source, Len(source) + 1) /\ PC \in ImemPlace
  BY AddressOfIs DEF FirstPassInv, AssemblerTypeOK, PlacesInOrder
<1>2. Len(source) \in Nat /\ DOMAIN source = 1 .. Len(source) /\ source[j] \in Lines
  BY <1>1, LenProperties, ElementOfSeq
<1>3. Address(source, j) \in 0 .. j - 1 /\ j \in 1 .. Len(source)
  BY <1>2, AddressBounds
<1>4. Address(source, j) \in ImemPlace /\ Address(source, j) \in Nat
  <2> DEFINE a == Address(source, j)
             n == Len(source)
  <2>1. a \in Nat /\ a <= j - 1 /\ j \in Nat /\ j <= n
    BY <1>2, <1>3
  <2>2. n \in Nat /\ n <= MaxLines /\ MaxLines \in Nat /\ ImemSize \in Nat
        /\ MaxLines < ImemSize
    BY <1>1, <1>2, SizesFit
  <2> HIDE DEF a, n
  <2>3. a \in 0 .. ImemSize - 1
    BY <2>1, <2>2
  <2> QED
    BY <2>1, <2>3 DEF a, ImemPlace
<1> QED
  BY <1>2, <1>4, AddressOfIs, LinesAreLines

\* The places a reference to a plain name finds: the one its label stands for.
LEMMA PlainIsFound ==
  ASSUME FirstPassInv, NEW j \in DOMAIN source,
         source[j].body = "reference", Plain(source[j].name)
  PROVE  /\ AddressOf(j) \in Referring
         /\ PlacesFor(AddressOf(j)) = {Meant(source[j])}
         /\ Meant(source[j]) \in ImemPlace
<1> DEFINE name == source[j].name
           k    == AddressOf(j)
<1>1. /\ source[j] \in Lines /\ k \in ImemPlace
      /\ name \in Seq(Letters) /\ name # NoName
  BY InstructionAt, LinesAreLines DEF LineFormat
<1>2. jumplabels[k] = name
  <2>1. jumplabels[k] = CutAtEnd(name)
    BY DEF FirstPassInv, ReferencesKept, HasInstruction
  <2> QED
    BY <1>1, <2>1, CutIsAName DEF Plain
<1>3. PICK that \in LabelLines(name) : LabelLines(name) = {that} /\ ~Overwritten(that)
  BY DEF Plain
<1>4. Meant(source[j]) = AddressOf(that)
  <2>1. (CHOOSE i \in LabelLines(name) : TRUE) = that
    BY <1>3
  <2> QED
    BY <2>1 DEF Meant
<1>5. that \in DOMAIN source /\ source[that].label = name
  BY DEF LabelLines
<1>6. AddressOf(that) \in ImemPlace /\ labels[AddressOf(that)] = name
  BY <1>1, <1>3, <1>5, InstructionAt DEF FirstPassInv, LabelsKept
<1>7. ASSUME NEW p \in ImemPlace, labels[p] = name PROVE p = AddressOf(that)
  BY <1>1, <1>3, <1>7 DEF FirstPassInv, LabelsKept
<1> QED
  BY <1>1, <1>2, <1>4, <1>6, <1>7 DEF Referring, PlacesFor

LEMMA FixesKeeps ==
  ASSUME FirstPassInv, FixesLabels
  PROVE  FirstPassInv' /\ AssemblesSource'
<1> DEFINE m == 2^ImmediateBits
<1>1. /\ AssemblerTypeOK /\ PlacesInOrder /\ LabelsKept /\ ReferencesKept /\ WordsKept
      /\ phase = "read" /\ phase' = "written" /\ m \in Nat
      /\ UNCHANGED <<source, PC, dmem, labels, jumplabels, imm>>
  BY SizesFit DEF FirstPassInv, FixesLabels
<1>2. \A k \in ImemPlace \ Referring : imem'[k] = imem[k]
  BY DEF FixesLabels
<1>3. \A k \in Referring : imem'[k] = imem[k] + Min(PlacesFor(k)) /\ PlacesFor(k) # {}
  BY DEF FixesLabels, Referring
<1>4. ASSUME NEW k \in Referring PROVE Min(PlacesFor(k)) \in PlacesFor(k)
  <2>1. PlacesFor(k) \in SUBSET Nat
    BY SizesFit DEF PlacesFor, ImemPlace
  <2> QED
    BY <1>3, <2>1, MinOfPlaces
<1>5. imem' \in [ImemPlace -> Nat]
  <2>1. ASSUME NEW k \in ImemPlace
        PROVE  (IF k \in Referring THEN imem[k] + Min(PlacesFor(k)) ELSE imem[k]) \in Nat
    <3>1. imem[k] \in Nat
      BY <1>1 DEF AssemblerTypeOK
    <3>2. ASSUME k \in Referring PROVE Min(PlacesFor(k)) \in Nat
      BY <1>4, <3>2, SizesFit DEF PlacesFor, ImemPlace
    <3> QED
      BY <3>1, <3>2
  <2> QED
    BY <2>1 DEF FixesLabels
<1>6. AssemblerTypeOK'
  BY <1>1, <1>5 DEF AssemblerTypeOK
<1>7. /\ PlacesInOrder' /\ LabelsKept' /\ ReferencesKept'
      /\ \A j : AddressOf(j)' = AddressOf(j)
  BY <1>1, NothingReadKeeps
<1>8. ASSUME NEW j \in DOMAIN source, source[j].body = "number"
      PROVE  imem'[AddressOf(j)] = WordOf(source[j].code, source[j].value % m)
  <2>1. AddressOf(j) \in ImemPlace \ Referring
    BY <1>1, <1>8, InstructionAt DEF Referring, ReferencesKept, HasInstruction
  <2> QED
    BY <1>1, <1>2, <1>8, <2>1 DEF WordsKept
<1>9. ASSUME NEW k \in ImemPlace, k >= PC PROVE imem'[k] = 0
  BY <1>1, <1>2, <1>9 DEF Referring, ReferencesKept, WordsKept
<1>10. ASSUME NEW j \in DOMAIN source, source[j].body = "reference",
              Plain(source[j].name)
       PROVE  imem'[AddressOf(j)] = WordOf(source[j].code, Meant(source[j]))
  <2>1. /\ AddressOf(j) \in Referring /\ Meant(source[j]) \in ImemPlace
        /\ PlacesFor(AddressOf(j)) = {Meant(source[j])}
    BY <1>10, PlainIsFound
  <2>2. imem'[AddressOf(j)] = imem[AddressOf(j)] + Meant(source[j])
    BY <1>3, <1>4, <2>1
  <2>3. imem[AddressOf(j)] = source[j].code * m + 0
    BY <1>1, <1>10 DEF WordsKept, WordOf
  <2>4. source[j].code \in Nat /\ Meant(source[j]) \in Int
    BY <2>1, InstructionAt, SizesFit DEF LineFormat, ImemPlace
  <2> HIDE DEF m
  <2>5. imem'[AddressOf(j)] = source[j].code * m + Meant(source[j])
    <3> DEFINE c == source[j].code * m
    <3>1. c \in Int
      BY <1>1, <2>4
    <3> HIDE DEF c
    <3> QED
      BY <2>2, <2>3, <2>4, <3>1 DEF c
  <2> QED
    BY <2>5 DEF WordOf, m
<1>11. WordsKept'
  BY <1>1, <1>7, <1>8, <1>9 DEF WordsKept
<1>12. AssemblesSource'
  <2>1. \A k \in ImemPlace : k >= AddressOf(Len(source) + 1) => imem'[k] = 0
    BY <1>1, <1>9 DEF PlacesInOrder
  <2> QED
    BY <1>1, <1>8, <1>10, <2>1, SourceStays DEF Meant
<1> QED
  BY <1>6, <1>7, <1>11, <1>12 DEF FirstPassInv

\* A label that is missed belongs to a reference that is not plain.
LEMMA MissesFault ==
  ASSUME FirstPassInv, MissesLabel
  PROVE  \E j \in DOMAIN source :
           source[j].body = "reference" /\ ~Plain(source[j].name)
<1>1. PICK k \in Referring : PlacesFor(k) = {}
  BY DEF MissesLabel
<1>2. k \in ImemPlace /\ k \in Nat /\ jumplabels[k] # NoName /\ PC \in Nat
  BY SizesFit DEF Referring, FirstPassInv, AssemblerTypeOK, ImemPlace
<1>3. k \in 0 .. PC - 1
  BY <1>2 DEF FirstPassInv, ReferencesKept
<1>4. PICK j \in DOMAIN source : HasInstruction(source[j]) /\ AddressOf(j) = k
  BY <1>3 DEF FirstPassInv, PlacesInOrder
<1>5. source[j].body = "reference"
  BY <1>2, <1>4 DEF FirstPassInv, ReferencesKept
<1>6. ~Plain(source[j].name)
  BY <1>1, <1>4, <1>5, PlainIsFound
<1> QED
  BY <1>5, <1>6

AssemblerInv == FirstPassInv /\ AssemblesSource /\ RejectsOnlyFaults

LEMMA AssemblerStarts ==
  ASSUME AssemblerInit PROVE AssemblerInv
<1>1. AssemblerTypeOK
  <2>1. 0 \in ImemPlace
    BY SizesFit DEF ImemPlace
  <2>2. <<>> \in Seq(Letters) /\ source \in Seq(Lines)
    BY EmptySeq DEF AssemblerInit
  <2> QED
    BY <2>1, <2>2 DEF AssemblerInit, AssemblerTypeOK, NoName
<1>2. Len(source) = 0 /\ DOMAIN source = {}
  BY EmptySeq DEF AssemblerInit
<1>3. PlacesInOrder
  <2>1. Address(source, 1) = 0
    BY AddressBounds
  <2> QED
    BY <1>2, <2>1, SizesFit, AddressOfIs DEF AssemblerInit, PlacesInOrder
<1>4. LabelsKept /\ ReferencesKept /\ WordsKept
  BY <1>2 DEF AssemblerInit, LabelsKept, ReferencesKept, WordsKept
<1> QED
  BY <1>1, <1>3, <1>4
  DEF AssemblerInv, FirstPassInv, AssemblerInit, AssemblesSource, RejectsOnlyFaults

LEMMA AssemblerMoves ==
  ASSUME AssemblerInv, [AssemblerNext]_assemblerVars PROVE AssemblerInv'
<1>1. ASSUME NEW line \in Lines,
             \/ ReadsNothing(line) \/ ReadsError(line) \/ ReadsData(line)
             \/ ReadsInstruction(line) \/ ReadsReference(line)
      PROVE  AssemblerInv'
  <2>1. FirstPassInv'
    BY <1>1, LineKeeps DEF AssemblerInv
  <2>2. phase' # "written" /\ (phase' = "error" => ReadsError(line))
    BY <1>1
    DEF ReadsNothing, ReadsError, ReadsData, ReadsInstruction, ReadsReference,
        Reads, Assembles
  <2>3. ASSUME ReadsError(line)
        PROVE  \E j \in DOMAIN source' :
                 \/ source'[j].body = "broken"
                 \/ source'[j].body = "data" /\ source'[j].address \notin DmemPlace
    <3>1. Longer(line)
      BY <2>3, ReadIsLonger DEF AssemblerInv, ReadsError
    <3> QED
      BY <2>3, <3>1 DEF ReadsError, Longer
  <2>4. RejectsOnlyFaults'
    BY <2>2, <2>3 DEF RejectsOnlyFaults
  <2> QED
    BY <2>1, <2>2, <2>4 DEF AssemblerInv, AssemblesSource
<1>2. CASE FixesLabels
  BY <1>2, FixesKeeps DEF AssemblerInv, FixesLabels, RejectsOnlyFaults
<1>3. CASE MissesLabel
  <2>1. /\ UNCHANGED <<source, PC, imem, dmem, labels, jumplabels, imm>>
        /\ phase = "read" /\ phase' = "error"
    BY <1>3 DEF MissesLabel
  <2>2. /\ PlacesInOrder' /\ LabelsKept' /\ ReferencesKept'
        /\ \A j : AddressOf(j)' = AddressOf(j)
    BY <2>1, NothingReadKeeps DEF AssemblerInv, FirstPassInv
  <2>3. AssemblerTypeOK' /\ WordsKept'
    BY <2>1, <2>2 DEF AssemblerInv, FirstPassInv, AssemblerTypeOK, WordsKept
  <2>4. \A j \in DOMAIN source : Plain(source[j].name)' <=> Plain(source[j].name)
    BY <2>1, <2>2 DEF Plain, LabelLines, Overwritten
  <2>5. RejectsOnlyFaults'
    <3>1. PICK j \in DOMAIN source :
            source[j].body = "reference" /\ ~Plain(source[j].name)
      BY <1>3, MissesFault DEF AssemblerInv
    <3> QED
      BY <2>1, <2>4, <3>1 DEF RejectsOnlyFaults
  <2> QED
    BY <2>1, <2>2, <2>3, <2>5 DEF AssemblerInv, FirstPassInv, AssemblesSource
<1>4. CASE UNCHANGED assemblerVars
  <2>1. UNCHANGED <<source, PC, imem, dmem, labels, jumplabels, imm, phase>>
    BY <1>4 DEF assemblerVars
  <2>2. FirstPassInv'
    BY <2>1, NothingReadKeeps
    DEF AssemblerInv, FirstPassInv, AssemblerTypeOK, WordsKept
  <2>3. AssemblesSource'
    <3>1. phase' = "written" => AssemblesSource /\ phase = "written"
      BY <2>1 DEF AssemblerInv
    <3> QED
      BY <2>1, <3>1, SourceStays DEF AssemblesSource
  <2>4. RejectsOnlyFaults'
    BY <2>1
    DEF AssemblerInv, RejectsOnlyFaults, Plain, LabelLines, Overwritten, AddressOf
  <2> QED
    BY <2>2, <2>3, <2>4 DEF AssemblerInv
<1> QED
  BY <1>1, <1>2, <1>3, <1>4 DEF AssemblerNext

LEMMA AssemblerAlways == AssemblerSpec => []AssemblerInv
  BY AssemblerStarts, AssemblerMoves, PTL DEF AssemblerSpec

\* What the arrays hold of the lines read: labels, references and words are
\* where the addresses of their lines say, in the first pass and after it.
THEOREM FirstPassAlways == AssemblerSpec => []FirstPassInv
<1>1. AssemblerInv => FirstPassInv
  BY DEF AssemblerInv
<1> QED
  BY <1>1, AssemblerAlways, PTL

\* An image that is written has every instruction with a number or a plain label
\* at its address, with the number or the label's, and zeros behind the last.
THEOREM SourceAssembled == AssemblerSpec => []AssemblesSource
<1>1. AssemblerInv => AssemblesSource
  BY DEF AssemblerInv
<1> QED
  BY <1>1, AssemblerAlways, PTL

\* A source is turned down only for a fault of one of its lines, or for the
\* label that one refers to.
THEOREM OnlyFaultsRejected == AssemblerSpec => []RejectsOnlyFaults
<1>1. AssemblerInv => RejectsOnlyFaults
  BY DEF AssemblerInv
<1> QED
  BY <1>1, AssemblerAlways, PTL

-----------------------------------------------------------------------------
(***************************************************************************)
(* The files.                                                              *)
(***************************************************************************)
LEMMA LengthIs ==
  ASSUME NEW n \in Nat \ {0}, NEW image \in [0 .. n - 1 -> Int]
  PROVE  /\ LengthOf(image) \in 0 .. n
         /\ \A k \in 0 .. n - 1 : k >= LengthOf(image) => image[k] = 0
<1> DEFINE S == {0} \cup {k + 1 : k \in {j \in DOMAIN image : image[j] # 0}}
<1>1. S \in SUBSET (0 .. n) /\ S # {}
  OBVIOUS
<1>2. \A k \in 0 .. n - 1 : image[k] # 0 => k + 1 \in S
  OBVIOUS
<1>3. LengthOf(image) = Max(S)
  BY DEF LengthOf
<1> HIDE DEF S
<1>4. Max(S) \in S /\ \A x \in S : x <= Max(S)
  BY <1>1, MaxOfPlaces
<1>5. Max(S) \in 0 .. n
  BY <1>1, <1>4
<1>6. ASSUME NEW k \in 0 .. n - 1, k >= Max(S) PROVE image[k] = 0
  BY <1>2, <1>4, <1>5, <1>6
<1> QED
  BY <1>3, <1>5, <1>6

LEMMA LengthOfWords ==
  ASSUME NEW n \in Nat, NEW file \in [1 .. n -> Int]
  PROVE  Len(file) = n /\ DOMAIN file = 1 .. n
<1>1. file \in Seq(Int)
  BY SeqDef
<1>2. Len(file) \in Nat /\ DOMAIN file = 1 .. Len(file)
  BY <1>1, LenProperties
<1> QED
  BY <1>2

\* A file of at least the words of the memory that are not zero, and of no more
\* than can be counted, is the memory again.
LEMMA MemoryComesBack ==
  ASSUME NEW mem \in [DmemPlace -> Int], NEW n \in Nat,
         LengthOf(mem) <= n, n <= DmemSize, n <= 2^LineBits
  PROVE  MemoryLoaded([k \in 1 .. n |-> mem[k - 1]]) = mem
<1> DEFINE file == [k \in 1 .. n |-> mem[k - 1]]
           m == 2^LineBits
           of(k) == {l \in DOMAIN file : (l - 1) % m = k}
<1>1. DmemPlace = 0 .. DmemSize - 1 /\ DmemSize \in Nat \ {0} /\ m \in Nat \ {0}
  BY SizesFit DEF DmemPlace
<1>2. \A l \in 1 .. n : l - 1 \in 0 .. m - 1 /\ l - 1 \in DmemPlace
  BY <1>1
<1>3. \A l \in 1 .. n : (l - 1) % m = l - 1
  <2> HIDE DEF m
  <2>1. \A i \in 0 .. m - 1 : i % m = i
    BY <1>1
  <2> QED
    BY <1>2, <2>1
<1>4. LengthOf(mem) \in 0 .. DmemSize
      /\ \A k \in DmemPlace : k >= LengthOf(mem) => mem[k] = 0
  BY <1>1, LengthIs
<1>5. ASSUME NEW k \in DmemPlace
      PROVE  (IF of(k) = {} THEN 0 ELSE file[Max(of(k))]) = mem[k]
  <2>1. k \in Nat
    BY <1>1
  <2>2. CASE k < n
    <3>1. of(k) = {k + 1} /\ k + 1 \in 1 .. n
      BY <1>3, <2>1, <2>2
    <3>2. {k + 1} \in SUBSET (0 .. n) /\ {k + 1} # {}
      BY <3>1
    <3>3. Max({k + 1}) \in {k + 1}
      BY <3>2, MaxOfPlaces
    <3>4. (k + 1) - 1 = k
      BY <2>1
    <3> QED
      BY <3>1, <3>3, <3>4
  <2>3. CASE ~(k < n)
    <3>1. of(k) = {}
      BY <1>3, <2>1, <2>3
    <3>2. k >= LengthOf(mem)
      BY <1>4, <2>1, <2>3
    <3> QED
      BY <1>4, <3>1, <3>2
  <2> QED
    BY <2>2, <2>3
<1>6. MemoryLoaded(file) = [k \in DmemPlace |-> IF of(k) = {} THEN 0 ELSE file[Max(of(k))]]
  BY DEF MemoryLoaded
<1> HIDE DEF file, of
<1> QED
  BY <1>5, <1>6 DEF file

LEMMA FilesComeBack ==
  ASSUME AssemblerTypeOK PROVE FilesLoadBack
<1>1. /\ ImemSize \in Nat \ {0} /\ imem \in [0 .. ImemSize - 1 -> Int]
      /\ DmemSize \in Nat \ {0} /\ dmem \in [0 .. DmemSize - 1 -> Int]
      /\ dmem \in [DmemPlace -> Int] /\ imem \in [ImemPlace -> Nat]
      /\ 2^LineBits \in Nat \ {0}
  BY SizesFit DEF AssemblerTypeOK, ImemPlace, DmemPlace
<1>2. CoreLoaded(FileOf(imem)) = imem
  <2> DEFINE n == LengthOf(imem)
  <2>1. n \in 0 .. ImemSize /\ \A k \in 0 .. ImemSize - 1 : k >= n => imem[k] = 0
    BY <1>1, LengthIs
  <2> HIDE DEF n
  <2>2. \A k \in 1 .. n : k - 1 \in 0 .. ImemSize - 1
    BY <1>1, <2>1
  <2>3. FileOf(imem) = [k \in 1 .. n |-> imem[k - 1]]
    BY DEF FileOf, n
  <2>4. FileOf(imem) \in [1 .. n -> Int]
    BY <1>1, <2>2, <2>3
  <2>5. Len(FileOf(imem)) = n
    BY <2>1, <2>4, LengthOfWords
  <2>6. ASSUME NEW k \in ImemPlace
        PROVE  (IF k < n THEN FileOf(imem)[k + 1] ELSE 0) = imem[k]
    <3>1. k \in 0 .. ImemSize - 1 /\ k \in Nat
      BY DEF ImemPlace
    <3>2. CASE k < n
      <4>1. k + 1 \in 1 .. n /\ (k + 1) - 1 = k
        BY <2>1, <3>1, <3>2
      <4> QED
        BY <2>3, <3>2, <4>1
    <3>3. CASE ~(k < n)
      BY <2>1, <3>1, <3>3
    <3> QED
      BY <3>2, <3>3
  <2> QED
    BY <1>1, <2>5, <2>6 DEF CoreLoaded
<1>3. ASSUME LengthOf(dmem) <= 2^LineBits
      PROVE  /\ MemoryLoaded(FileOf(dmem)) = dmem
             /\ MemoryLoaded(MemoryPrinted(dmem)) = dmem
  <2> DEFINE n == LengthOf(dmem)
  <2>1. n \in 0 .. DmemSize
    BY <1>1, LengthIs
  <2>2. MemoryLoaded(FileOf(dmem)) = dmem
    <3>1. FileOf(dmem) = [k \in 1 .. n |-> dmem[k - 1]]
      BY DEF FileOf
    <3>2. n \in Nat /\ n <= n /\ n <= DmemSize /\ n <= 2^LineBits
      BY <1>1, <1>3, <2>1
    <3> HIDE DEF n
    <3>3. LengthOf(dmem) <= n
      BY <3>2 DEF n
    <3> QED
      BY <1>1, <3>1, <3>2, <3>3, MemoryComesBack
  <2>3. Max({1, n}) \in {1, n} /\ n <= Max({1, n})
    <3>1. {1, n} \in SUBSET (0 .. DmemSize) /\ {1, n} # {}
      BY <1>1, <2>1
    <3> QED
      BY <1>1, <3>1, MaxOfPlaces
  <2>4. /\ Max({1, n}) \in Nat /\ Max({1, n}) <= DmemSize
        /\ Max({1, n}) <= 2^LineBits
    BY <1>1, <1>3, <2>1, <2>3
  <2>5. MemoryLoaded(MemoryPrinted(dmem)) = dmem
    BY <1>1, <2>3, <2>4, MemoryComesBack DEF MemoryPrinted
  <2> QED
    BY <2>2, <2>5
<1> QED
  BY <1>2, <1>3 DEF FilesLoadBack

\* The image in the files is the one the processor starts with, and the memory
\* it prints can be loaded again.
THEOREM FilesAlwaysLoadBack == AssemblerSpec => []FilesLoadBack
<1>1. FirstPassInv => FilesLoadBack
  BY FilesComeBack DEF FirstPassInv
<1> QED
  BY <1>1, FirstPassAlways, PTL
=============================================================================
