--------------------------- MODULE PipelineProofs ---------------------------
(***************************************************************************)
(* Proofs about the pipelines: every word a core computes is a word        *)
(* (PipelineTypeOK), and an access the cache has refused is offered again  *)
(* unchanged (RetriesSameAccess). The lemmas about a cycle speak of one    *)
(* core and of the word its load is answered with, so that they serve the  *)
(* cores with private memories here and the machine alike.                 *)
(***************************************************************************)
EXTENDS PipelineIsa, WellFoundedInduction, TLAPS

-----------------------------------------------------------------------------
(***************************************************************************)
(* Words. Division by a power of two, bit by bit.                          *)
(***************************************************************************)
LEMMA Quotient ==
  ASSUME NEW m \in Nat \ {0}, NEW q \in Int, NEW r \in 0 .. m - 1
  PROVE  (q * m + r) \div m = q
<1> DEFINE d == (q * m + r) \div m
           s == (q * m + r) % m
<1>1. d \in Int /\ s \in 0 .. m - 1 /\ q * m + r = m * d + s
  OBVIOUS
<1> HIDE DEF d, s
<1>2. (q - d) * m = s - r /\ q - d \in Int
  BY <1>1
<1>3. CASE q - d >= 1
  <2>1. (q - d) * m >= m
    BY <1>2, <1>3
  <2> QED
    BY <1>1, <1>2, <2>1
<1>4. CASE q - d <= -1
  <2>1. (q - d) * m <= -m
    BY <1>2, <1>4
  <2> QED
    BY <1>1, <1>2, <2>1
<1>5. d = q
  BY <1>1, <1>2, <1>3, <1>4
<1> QED
  BY <1>5 DEF d

LEMMA Doubled ==
  ASSUME NEW m \in Nat \ {0}, NEW y \in Nat, NEW b \in {0, 1}
  PROVE  (2 * y + b) \div (2 * m) = y \div m
<1> DEFINE q == y \div m
           r == y % m
<1>1. q \in Int /\ r \in 0 .. m - 1 /\ y = m * q + r
  OBVIOUS
<1> HIDE DEF q, r
<1>2. 2 * m \in Nat \ {0} /\ 2 * r + b \in 0 .. 2 * m - 1
  BY <1>1
<1>3. 2 * y + b = q * (2 * m) + (2 * r + b)
  BY <1>1
<1>4. (q * (2 * m) + (2 * r + b)) \div (2 * m) = q
  BY <1>1, <1>2, Quotient
<1> QED
  BY <1>3, <1>4 DEF q

LEMMA NoPcIsNatural == NoPc \in Nat
  BY DEF NoPc

LEMMA Remainder ==
  ASSUME NEW x \in Int, NEW m \in Nat \ {0}
  PROVE  x % m \in 0 .. m - 1
  OBVIOUS

LEMMA DivLowers ==
  ASSUME NEW a \in Nat, NEW m \in Nat \ {0}
  PROVE  a \div m \in 0 .. a
<1> DEFINE q == a \div m
           r == a % m
<1>1. q \in Int /\ r \in 0 .. m - 1 /\ a = m * q + r
  OBVIOUS
<1> HIDE DEF q, r
<1>2. q >= 0
  <2>1. SUFFICES ASSUME q <= -1 PROVE FALSE
    BY <1>1
  <2>2. m * q <= -m
    BY <1>1, <2>1
  <2> QED
    BY <1>1, <2>2
<1>3. m * q >= q
  BY <1>1, <1>2
<1>4. q \in 0 .. a
  BY <1>1, <1>2, <1>3
<1> QED
  BY <1>4 DEF q

LEMMA PowerFacts ==
  /\ \A k \in 0 .. RegisterBits : 2^k \in Nat \ {0}
  /\ 2^0 = 1
  /\ \A k \in 0 .. RegisterBits - 1 :
       k + 1 \in 0 .. RegisterBits /\ 2^(k + 1) = 2 * 2^k
<1>1. RegisterBits \in Nat \ {0}
  BY RegistersAndBits
<1>2. \A k \in 0 .. RegisterBits - 1 : k + 1 \in 0 .. RegisterBits
  BY <1>1
<1>3. \A k \in 0 .. RegisterBits - 1 : k \in 0 .. RegisterBits
  BY <1>1
<1>4. 2^0 = 1
  OBVIOUS
<1> QED
  BY <1>2, <1>3, <1>4, PowersOfTwo

\* The words with no bit from place n on, and one of them for any such bits.
Short(n) == {x \in Nat : x < 2^n}

ShortWordFor(n) ==
  \A S \in SUBSET (0 .. n - 1) : \E x \in Short(n) : OneBits(x) = S

LEMMA ShortWordGrows ==
  ASSUME NEW n \in 0 .. RegisterBits - 1, ShortWordFor(n)
  PROVE  ShortWordFor(n + 1)
<1> SUFFICES ASSUME NEW S \in SUBSET (0 .. n)
             PROVE  \E x \in Short(n + 1) : OneBits(x) = S
  BY DEF ShortWordFor
<1> DEFINE T == {k - 1 : k \in S \ {0}}
           b == IF 0 \in S THEN 1 ELSE 0
<1>1. RegisterBits \in Nat \ {0} /\ n \in Nat
  BY RegistersAndBits
<1>2. T \in SUBSET (0 .. n - 1) /\ b \in {0, 1}
  BY <1>1
<1>3. \A k \in Nat \ {0} : k - 1 \in T <=> k \in S
  BY <1>1
<1>4. PICK y \in Short(n) : OneBits(y) = T
  BY <1>2 DEF ShortWordFor
<1> HIDE DEF T, b
<1>5. y \in Nat /\ y < 2^n /\ 2^n \in Nat /\ 2^(n + 1) = 2 * 2^n
  BY <1>1, <1>4, PowerFacts DEF Short
<1>6. 2 * y + b \in Short(n + 1)
  BY <1>2, <1>5 DEF Short
<1>7. ASSUME NEW k \in 0 .. RegisterBits - 1
      PROVE  ((2 * y + b) \div 2^k) % 2 = 1 <=> k \in S
  <2>1. CASE k = 0
    <3>1. (2 * y + b) \div 2^k = 2 * y + b
      BY <1>2, <1>5, <2>1, PowerFacts
    <3>2. (2 * y + b) % 2 = b
      BY <1>2, <1>5
    <3> QED
      BY <2>1, <3>1, <3>2 DEF b
  <2>2. CASE k # 0
    <3>1. k - 1 \in 0 .. RegisterBits - 1 /\ (k - 1) + 1 = k /\ k \in Nat \ {0}
      BY <1>1, <2>2
    <3>2. 2^k = 2 * 2^(k - 1) /\ 2^(k - 1) \in Nat \ {0}
      BY <3>1, PowerFacts, PowersOfTwo
    <3>3. (2 * y + b) \div 2^k = y \div 2^(k - 1)
      BY <1>2, <1>5, <3>2, Doubled
    <3>4. (y \div 2^(k - 1)) % 2 = 1 <=> k - 1 \in T
      BY <1>4, <3>1 DEF OneBits
    <3> QED
      BY <1>3, <3>1, <3>3, <3>4
  <2> QED
    BY <2>1, <2>2
<1>8. S \subseteq 0 .. RegisterBits - 1
  BY <1>1
<1>9. OneBits(2 * y + b) = S
  BY <1>7, <1>8 DEF OneBits
<1> QED
  BY <1>6, <1>9

\* Every set of bits is a word: the least length without one would be too short.
LEMMA WordExists ==
  ASSUME NEW S \in SUBSET (0 .. RegisterBits - 1)
  PROVE  WordOf(S) \in Values
<1>1. RegisterBits \in Nat \ {0}
  BY RegistersAndBits
<1>2. ShortWordFor(0)
  <2>1. 0 \in Short(0)
    BY PowerFacts DEF Short
  <2>2. OneBits(0) = {}
    <3>1. ASSUME NEW k \in 0 .. RegisterBits - 1 PROVE (0 \div 2^k) % 2 # 1
      <4>1. 2^k \in Nat \ {0}
        BY <1>1, <3>1, PowersOfTwo
      <4>2. 0 \div 2^k = 0
        BY <4>1, DivLowers
      <4>3. 0 % 2 # 1
        OBVIOUS
      <4> QED
        BY <4>2, <4>3, Zenon
    <3>2. ~ \E k \in 0 .. RegisterBits - 1 : (0 \div 2^k) % 2 = 1
      BY <3>1, Zenon
    <3> QED
      BY <3>2, Zenon DEF OneBits
  <2>3. \A S1 \in SUBSET (0 .. 0 - 1) : S1 = {}
    OBVIOUS
  <2> QED
    BY <2>1, <2>2, <2>3 DEF ShortWordFor
<1>3. ShortWordFor(RegisterBits)
  <2> DEFINE Bad == {n \in 0 .. RegisterBits : ~ShortWordFor(n)}
  <2>1. SUFFICES ASSUME Bad # {} PROVE FALSE
    BY <1>1
  <2>2. Bad \in SUBSET Nat
    BY <1>1
  <2>3. PICK m \in Bad : \A n \in Bad : m <= n
    <3> HIDE DEF Bad
    <3>1. PICK m \in Bad : \A n \in Bad : <<n, m>> \notin OpToRel(<, Nat)
      BY <2>1, <2>2, NatLessThanWellFounded, WFMin, Zenon
    <3>2. \A n \in Bad : ~ (n < m)
      BY <2>2, <3>1 DEF OpToRel
    <3> QED
      BY <2>2, <3>2
  <2>4. m # 0 /\ m \in 0 .. RegisterBits
    BY <1>2, <2>3
  <2>5. m - 1 \in 0 .. RegisterBits - 1 /\ m - 1 \in 0 .. RegisterBits
        /\ (m - 1) + 1 = m /\ ~ (m <= m - 1)
    BY <1>1, <2>4
  <2>6. ShortWordFor(m - 1)
    BY <2>3, <2>5
  <2>7. ShortWordFor(m)
    BY <2>5, <2>6, ShortWordGrows
  <2> QED
    BY <2>3, <2>7
<1>4. PICK x \in Short(RegisterBits) : OneBits(x) = S
  BY <1>3 DEF ShortWordFor
<1>5. x \in Values
  <2>1. 2^RegisterBits \in Nat
    BY <1>1, PowersOfTwo
  <2> QED
    BY <1>4, <2>1 DEF Short, Values
<1> QED
  BY <1>4, <1>5 DEF WordOf

LEMMA WrapIsAValue ==
  ASSUME NEW x \in Int
  PROVE  Wrap(x) \in Values
<1>1. 2^RegisterBits \in Nat \ {0}
  BY RegistersAndBits, PowersOfTwo
<1> QED
  BY <1>1 DEF Wrap, Values

(***************************************************************************)
(* Every function of Opcodes.c computes a word from two words.             *)
(***************************************************************************)
LEMMA AluIsAValue ==
  ASSUME NEW op \in AluOps, NEW a \in Values, NEW b \in Values
  PROVE  Alu(op, a, b) \in Values
<1> DEFINE k == ShiftCount(b)
<1>1. RegisterBits \in Nat \ {0} /\ 2^RegisterBits \in Nat \ {0}
  BY RegistersAndBits, PowersOfTwo
<1>2. a \in Nat /\ b \in Nat /\ a < 2^RegisterBits
  BY <1>1 DEF Values
<1>3. k \in 0 .. RegisterBits - 1 /\ k \in 0 .. RegisterBits
  BY <1>1, <1>2 DEF ShiftCount
<1>4. 2^k \in Nat \ {0}
  BY <1>3, PowersOfTwo
<1> HIDE DEF k
<1>5. OneBits(a) \subseteq 0 .. RegisterBits - 1 /\ OneBits(b) \subseteq 0 .. RegisterBits - 1
  BY DEF OneBits
<1>6. CASE op \in {"add", "sub", "mul"}
  <2>1. a + b \in Int /\ a - b \in Int /\ a * b \in Int
    BY <1>2
  <2>2. Wrap(a + b) \in Values /\ Wrap(a - b) \in Values /\ Wrap(a * b) \in Values
    BY <2>1, WrapIsAValue
  <2> QED
    BY <1>6, <2>2 DEF Alu
<1>7. CASE op \in {"and", "or", "xor"}
  <2> DEFINE A == OneBits(a)
             B == OneBits(b)
  <2>1. /\ WordOf(A \cap B) \in Values /\ WordOf(A \cup B) \in Values
        /\ WordOf((A \cup B) \ (A \cap B)) \in Values
    <3> HIDE DEF A, B
    <3>1. A \subseteq 0 .. RegisterBits - 1 /\ B \subseteq 0 .. RegisterBits - 1
      BY <1>5 DEF A, B
    <3> QED
      BY <3>1, WordExists
  <2> QED
    BY <1>7, <2>1 DEF Alu
<1>8. CASE op = "sll"
  <2>1. a * 2^k \in Int
    BY <1>2, <1>4
  <2> QED
    BY <1>8, <2>1, WrapIsAValue DEF Alu, k
<1>9. CASE op = "sra"
  <2>1. Signed(a) \in Int
    BY <1>1, <1>2 DEF Signed
  <2>2. Signed(a) \div 2^k \in Int
    BY <1>4, <2>1
  <2> QED
    BY <1>9, <2>2, WrapIsAValue DEF Alu, k
<1>10. CASE op = "srl"
  <2>1. a \div 2^k \in 0 .. a
    BY <1>2, <1>4, DivLowers
  <2>2. a \div 2^k \in Values
    BY <1>1, <1>2, <2>1 DEF Values
  <2> QED
    BY <1>10, <2>2 DEF Alu, k
<1> QED
  BY <1>6, <1>7, <1>8, <1>9, <1>10 DEF AluOps

-----------------------------------------------------------------------------
(***************************************************************************)
(* What the functions of the stages leave in them.                         *)
(***************************************************************************)
LEMMA StagesAreRecords ==
  ASSUME PipelineTypeOK, NEW c \in Cores, NEW s \in Stages
  PROVE  /\ stage[c][s] \in StageRecords
         /\ stage[c][s].pc \in Pcs /\ stage[c][s].ins \in Instructions
         /\ stage[c][s].operation \in Ops \cup {"null"}
         /\ stage[c][s].result \in Values
<1>1. stage[c][s] \in StageRecords
  BY DEF PipelineTypeOK
<1> QED
  BY <1>1 DEF StageRecords

LEMMA OperandIsAValue ==
  ASSUME PipelineTypeOK, NEW c \in Cores, NEW ins \in Instructions,
         NEW r \in Registers
  PROVE  Operand(c, ins, r) \in Values
<1>1. Immediates \subseteq Values
  <2>1. 2^ImmediateBits \in Nat /\ 2^RegisterBits \in Nat
    BY RegistersAndBits, PowersOfTwo
  <2> QED
    BY <2>1, PowersOfTwo DEF Immediates, Values
<1> QED
  BY <1>1 DEF Operand, Instructions, PipelineTypeOK

LEMMA DataAddressIsAValue ==
  ASSUME PipelineTypeOK, NEW c \in Cores
  PROVE  DataAddress(c) \in Values /\ DataWord(c) \in Values
<1> DEFINE ins == stage[c]["mem"].ins
<1>1. ins \in Instructions
  BY StagesAreRecords DEF Stages
<1>2. ins.rs \in Registers /\ ins.rt \in Registers /\ ins.rd \in Registers
  BY <1>1 DEF Instructions
<1> HIDE DEF ins
<1>3. /\ Operand(c, ins, ins.rs) \in Values /\ Operand(c, ins, ins.rt) \in Values
      /\ Operand(c, ins, ins.rd) \in Values
  BY <1>1, <1>2, OperandIsAValue
<1>4. Operand(c, ins, ins.rs) + Operand(c, ins, ins.rt) \in Int
  BY <1>3, RegistersAndBits, PowersOfTwo DEF Values
<1>5. Wrap(Operand(c, ins, ins.rs) + Operand(c, ins, ins.rt)) \in Values
  BY <1>4, WrapIsAValue
<1> QED
  BY <1>3, <1>5 DEF DataAddress, DataWord, ins

\* DECODE and FETCH, and the program counter they leave.
LEMMA FetchAndDecodeTypes ==
  ASSUME PipelineTypeOK, NEW c \in Cores
  PROVE  /\ FetchExecuted(c) \subseteq StageRecords
         /\ DecodeExecuted(c) \in StageRecords
         /\ PcFetched(c) \in Pcs /\ PcResolved(c) \in Pcs
<1> DEFINE d == stage[c]["decode"]
           f == stage[c]["fetch"]
<1>1. /\ d \in StageRecords /\ d.ins \in Instructions /\ d.result \in Values
      /\ f \in StageRecords
  BY StagesAreRecords DEF Stages
<1>2. pc[c] \in Pcs
  BY DEF PipelineTypeOK
<1>3. PcFetched(c) \in Pcs
  <2>1. pc[c] + 1 \in Int /\ NoPc + 1 \in Nat \ {0}
    BY <1>2, NoPcIsNatural DEF Pcs
  <2>2. (pc[c] + 1) % (NoPc + 1) \in Pcs
    <3>1. (pc[c] + 1) % (NoPc + 1) \in 0 .. (NoPc + 1) - 1
      BY <2>1, Remainder
    <3> QED
      BY <3>1, NoPcIsNatural DEF Pcs
  <2> QED
    BY <1>2, <2>2 DEF PcFetched
<1>4. Fetchable(c) \subseteq Instructions
  BY DEF Fetchable, PipelineTypeOK
<1>5. FetchExecuted(c) \subseteq StageRecords
  <2>1. ASSUME NEW ins \in Instructions
        PROVE  [f EXCEPT !.pc = pc[c], !.ins = ins] \in StageRecords
    BY <1>1, <1>2 DEF StageRecords
  <2> QED
    BY <1>1, <1>4, <2>1 DEF FetchExecuted
<1>6. Operand(c, d.ins, d.ins.rd) \in Values
  BY <1>1, OperandIsAValue DEF Instructions
<1>7. Wrap(PcFetched(c)) \in Values
  BY <1>3, WrapIsAValue DEF Pcs
<1>8. DecodeExecuted(c) \in StageRecords
  <2>1. ASSUME NEW v \in Values
        PROVE  [d EXCEPT !.operation = d.ins.op, !.result = v] \in StageRecords
    BY <1>1 DEF StageRecords, Instructions
  <2>2. CASE ~Decodes(c) \/ Halts(c)
    BY <1>1, <2>2 DEF DecodeExecuted
  <2>3. CASE ~(~Decodes(c) \/ Halts(c))
    <3> DEFINE v == IF ~Resolves(c) THEN d.result
                    ELSE IF d.ins.op = "jal" THEN Wrap(PcFetched(c))
                    ELSE Operand(c, d.ins, d.ins.rd)
    <3>1. v \in Values
      BY <1>1, <1>6, <1>7
    <3>2. DecodeExecuted(c) = [d EXCEPT !.operation = d.ins.op, !.result = v]
      BY <2>3 DEF DecodeExecuted
    <3> QED
      BY <2>1, <3>1, <3>2
  <2> QED
    BY <2>2, <2>3
<1>9. PcResolved(c) \in Pcs
  <2>1. DecodeExecuted(c).result \in Int
    BY <1>8, RegistersAndBits, PowersOfTwo DEF StageRecords, Values
  <2>2. DecodeExecuted(c).result % 2^TargetBits \in Pcs
    <3>1. 2^TargetBits \in Nat \ {0} /\ 2^TargetBits - 1 <= NoPc
      BY TargetsArePcs, NoPcIsNatural
    <3> DEFINE m == 2^TargetBits
    <3> HIDE DEF m
    <3>2. DecodeExecuted(c).result % m \in 0 .. m - 1
      BY <2>1, <3>1, Remainder DEF m
    <3>3. 0 .. m - 1 \subseteq Pcs
      BY <3>1, NoPcIsNatural DEF m, Pcs
    <3> QED
      BY <3>2, <3>3 DEF m
  <2> QED
    BY <1>3, <2>2 DEF PcResolved
<1> QED
  BY <1>3, <1>5, <1>8, <1>9

\* EXECUTE, MEM and WRITE_BACK.
LEMMA LaterStagesTypes ==
  ASSUME PipelineTypeOK, NEW c \in Cores, OperationsDecoded(c), ~CallsNull(c),
         NEW word \in Values
  PROVE  /\ ExecuteExecuted(c) \in StageRecords
         /\ MemRefused(c) \in StageRecords
         /\ MemExecuted(c, word) \in StageRecords
         /\ RegistersWritten(c) \in [Registers -> Values]
<1> DEFINE e == stage[c]["execute"]
           m == stage[c]["mem"]
           w == stage[c]["writeback"]
<1>1. /\ e \in StageRecords /\ e.ins \in Instructions
      /\ m \in StageRecords /\ w \in StageRecords
      /\ w.ins \in Instructions /\ w.result \in Values
  BY StagesAreRecords DEF Stages
<1>2. ExecuteExecuted(c) \in StageRecords
  <2>1. CASE ~Computes(c)
    BY <1>1, <2>1 DEF ExecuteExecuted
  <2>2. CASE Computes(c)
    <3> DEFINE a == Operand(c, e.ins, e.ins.rs)
               b == Operand(c, e.ins, e.ins.rt)
    <3>1. e.operation \in AluOps
      BY <2>2 DEF CallsNull, Computes, OperationsDecoded, Stages
    <3>2. a \in Values /\ b \in Values
      BY <1>1, OperandIsAValue DEF Instructions
    <3>3. Alu(e.operation, a, b) \in Values
      BY <3>1, <3>2, AluIsAValue
    <3>4. ExecuteExecuted(c) = [e EXCEPT !.result = Alu(e.operation, a, b)]
      BY <2>2 DEF ExecuteExecuted
    <3> QED
      BY <1>1, <3>3, <3>4 DEF StageRecords
  <2> QED
    BY <2>1, <2>2
<1>3. MemRefused(c) \in StageRecords
  BY <1>1, DataAddressIsAValue DEF MemRefused, StageRecords
<1>4. MemExecuted(c, word) \in StageRecords
  <2>1. [m EXCEPT !.result = word] \in StageRecords
    BY <1>1 DEF StageRecords
  <2> QED
    BY <1>1, <1>3, <2>1 DEF MemExecuted
<1>5. RegistersWritten(c) \in [Registers -> Values]
  <2>1. regs[c] \in [Registers -> Values]
    BY DEF PipelineTypeOK
  <2> QED
    BY <1>1, <2>1 DEF RegistersWritten
<1> QED
  BY <1>2, <1>3, <1>4, <1>5

\* Bubbling makes no other records than those it is given.
LEMMA BubbledTypes ==
  ASSUME NEW from \in StageRecords, NEW to \in StageRecords, NEW b \in BOOLEAN
  PROVE  /\ Bubbled(from, to) \in StageRecords
         /\ Emptied(from) \in StageRecords
         /\ EmptiedIf(b, from) \in StageRecords
<1>1. NoPc \in Pcs
  BY NoPcIsNatural DEF Pcs
<1>2. ASSUME NEW r \in StageRecords PROVE [r EXCEPT !.pc = NoPc] \in StageRecords
  BY <1>1 DEF StageRecords
<1> QED
  BY <1>2 DEF Bubbled, Emptied, EmptiedIf

\* A cycle of core c, of whatever kind, answered with word.
Cycles(c, word) == CycleStalls(c) \/ CycleBubbles(c, word) \/ CycleMoves(c, word)

\* The stages of core c after the cycle, and of the other cores.
LEMMA StagesAfter ==
  ASSUME PipelineTypeOK, NEW c \in Cores,
         NEW f, NEW d, NEW e, NEW m, NEW w, StagesBecome(c, f, d, e, m, w)
  PROVE  /\ stage'[c]["fetch"]     = EmptiedIf(halted'[c], f)
         /\ stage'[c]["decode"]    = EmptiedIf(halted'[c], d)
         /\ stage'[c]["execute"]   = e
         /\ stage'[c]["mem"]       = m
         /\ stage'[c]["writeback"] = w
         /\ \A o \in Cores \ {c} : stage'[o] = stage[o]
  BY DEF StagesBecome, PipelineTypeOK, Stages

LEMMA StagesStayRecords ==
  ASSUME PipelineTypeOK, NEW c \in Cores, halted'[c] \in BOOLEAN,
         NEW f \in StageRecords, NEW d \in StageRecords, NEW e \in StageRecords,
         NEW m \in StageRecords, NEW w \in StageRecords,
         StagesBecome(c, f, d, e, m, w)
  PROVE  stage' \in [Cores -> [Stages -> StageRecords]]
<1> DEFINE T == [s \in Stages |-> CASE s = "fetch"     -> EmptiedIf(halted'[c], f)
                                    [] s = "decode"    -> EmptiedIf(halted'[c], d)
                                    [] s = "execute"   -> e
                                    [] s = "mem"       -> m
                                    [] s = "writeback" -> w]
<1>1. /\ EmptiedIf(halted'[c], f) \in StageRecords
      /\ EmptiedIf(halted'[c], d) \in StageRecords
  BY BubbledTypes
<1>2. T \in [Stages -> StageRecords]
  BY <1>1 DEF Stages
<1>3. stage' = [stage EXCEPT ![c] = T]
  BY DEF StagesBecome
<1>4. stage \in [Cores -> [Stages -> StageRecords]]
  BY DEF PipelineTypeOK
<1> HIDE DEF T
<1> QED
  BY <1>2, <1>3, <1>4

\* What every cycle of core c does besides its stages.
LEMMA ExecuteKeepsTypes ==
  ASSUME PipelineTypeOK, NEW c \in Cores, OperationsDecoded(c), ~CallsNull(c),
         NEW accepted \in BOOLEAN, Execute(c, accepted)
  PROVE  /\ imem' \in [Cores -> [Addresses -> Instructions]]
         /\ pc' \in [Cores -> Pcs]
         /\ regs' \in [Cores -> [Registers -> Values]]
         /\ {halted, dataHazardStall, memoryStall, coreHalted}'
              \subseteq [Cores -> BOOLEAN]
         /\ crashed' \in BOOLEAN
<1>1. PcResolved(c) \in Pcs
  BY FetchAndDecodeTypes
<1>2. RegistersWritten(c) \in [Registers -> Values]
  <2>1. 0 \in Values
    BY RegistersAndBits, PowersOfTwo DEF Values
  <2> QED
    BY <2>1, LaterStagesTypes
<1>3. imem' = imem /\ coreHalted' = coreHalted /\ crashed' = crashed
  BY DEF Execute
<1>4. pc' = [pc EXCEPT ![c] = PcResolved(c)]
      /\ regs' = [regs EXCEPT ![c] = RegistersWritten(c)]
  BY DEF Execute
<1>5. halted' \in [Cores -> BOOLEAN]
  <2>1. halted' = [halted EXCEPT ![c] = halted[c] \/ Halts(c)]
    BY DEF Execute
  <2> QED
    BY <2>1 DEF PipelineTypeOK, Halts, Decodes
<1>6. dataHazardStall' \in [Cores -> BOOLEAN]
  BY DEF Execute, PipelineTypeOK, Hazard
<1>7. memoryStall' \in [Cores -> BOOLEAN]
  BY DEF Execute, PipelineTypeOK
<1> QED
  BY <1>1, <1>2, <1>3, <1>4, <1>5, <1>6, <1>7 DEF PipelineTypeOK

(***************************************************************************)
(* The stages before bubbling are f, d, e, m, all of them records.         *)
(***************************************************************************)
LEMMA CycleKeepsTypes ==
  ASSUME PipelineTypeOK, NEW c \in Cores, OperationsDecoded(c),
         NEW word \in Values, Cycles(c, word)
  PROVE  PipelineTypeOK'
<1>1. ~CallsNull(c) /\ \E accepted \in BOOLEAN : Execute(c, accepted)
  BY DEF Cycles, CycleStalls, CycleBubbles, CycleMoves, Execute
<1>2. halted'[c] \in BOOLEAN
  BY <1>1, ExecuteKeepsTypes
<1>3. FetchExecuted(c) \subseteq StageRecords
      /\ DecodeExecuted(c) \in StageRecords
  BY FetchAndDecodeTypes
<1>4. /\ ExecuteExecuted(c) \in StageRecords /\ MemRefused(c) \in StageRecords
      /\ MemExecuted(c, word) \in StageRecords
  BY <1>1, LaterStagesTypes
<1>5. \A s \in Stages : stage[c][s] \in StageRecords
  BY StagesAreRecords
<1>6. /\ Emptied(stage[c]["writeback"]) \in StageRecords
      /\ Emptied(ExecuteExecuted(c)) \in StageRecords
      /\ Bubbled(ExecuteExecuted(c), stage[c]["mem"]) \in StageRecords
      /\ Bubbled(MemExecuted(c, word), stage[c]["writeback"]) \in StageRecords
      /\ Bubbled(DecodeExecuted(c), stage[c]["execute"]) \in StageRecords
      /\ \A f \in StageRecords : Bubbled(f, stage[c]["decode"]) \in StageRecords
  BY <1>3, <1>4, <1>5, BubbledTypes DEF Stages
<1>7. stage' \in [Cores -> [Stages -> StageRecords]]
  <2>1. CASE CycleStalls(c)
    BY <1>2, <1>3, <1>4, <1>6, <2>1, StagesStayRecords DEF CycleStalls
  <2>2. CASE CycleBubbles(c, word)
    BY <1>2, <1>3, <1>4, <1>6, <2>2, StagesStayRecords DEF CycleBubbles
  <2>3. CASE CycleMoves(c, word)
    <3>1. PICK f \in FetchExecuted(c) :
            StagesBecome(c, f, Bubbled(f, stage[c]["decode"]),
                         Bubbled(DecodeExecuted(c), stage[c]["execute"]),
                         Bubbled(ExecuteExecuted(c), stage[c]["mem"]),
                         Bubbled(MemExecuted(c, word), stage[c]["writeback"]))
      BY <2>3 DEF CycleMoves
    <3>2. f \in StageRecords /\ Bubbled(f, stage[c]["decode"]) \in StageRecords
      BY <1>3, <1>6, <3>1
    <3> QED
      BY <1>2, <1>6, <3>1, <3>2, StagesStayRecords
  <2> QED
    BY <2>1, <2>2, <2>3 DEF Cycles
<1> QED
  BY <1>1, <1>7, ExecuteKeepsTypes DEF PipelineTypeOK

-----------------------------------------------------------------------------
(***************************************************************************)
(* What a cycle does to the order of the instructions in the stages.       *)
(***************************************************************************)

\* The function in a stage is null or the instruction's own, and not HALT's.
OwnOperation(r) == r.operation \in {"null", r.ins.op} \ {"halt"}

LEMMA BubbledOwnOperation ==
  ASSUME NEW from \in StageRecords, NEW to \in StageRecords, NEW b \in BOOLEAN,
         OwnOperation(from), OwnOperation(to)
  PROVE  /\ OwnOperation(Bubbled(from, to)) /\ OwnOperation(Emptied(from))
         /\ OwnOperation(EmptiedIf(b, from))
<1>1. ASSUME NEW r \in StageRecords, OwnOperation(r)
      PROVE  OwnOperation([r EXCEPT !.pc = NoPc])
  BY <1>1 DEF OwnOperation, StageRecords
<1> QED
  BY <1>1 DEF Bubbled, Emptied, EmptiedIf

LEMMA ExecutedOwnOperation ==
  ASSUME PipelineTypeOK, NEW c \in Cores, OperationsDecoded(c), NEW word
  PROVE  /\ \A f \in FetchExecuted(c) : f.operation = "null"
         /\ OwnOperation(DecodeExecuted(c)) /\ OwnOperation(ExecuteExecuted(c))
         /\ OwnOperation(MemRefused(c)) /\ OwnOperation(MemExecuted(c, word))
<1> DEFINE d == stage[c]["decode"]
<1>1. \A s \in Stages : OwnOperation(stage[c][s]) /\ stage[c][s] \in StageRecords
  BY StagesAreRecords DEF OperationsDecoded, OwnOperation
<1>2. stage[c]["fetch"].operation = "null"
  BY DEF OperationsDecoded
<1>3. \A f \in FetchExecuted(c) : f.operation = "null"
  BY <1>1, <1>2 DEF FetchExecuted, StageRecords, Stages
<1>4. ASSUME NEW r \in StageRecords, OwnOperation(r), NEW v
      PROVE  OwnOperation([r EXCEPT !.result = v])
  BY <1>4 DEF OwnOperation, StageRecords
<1>5. OwnOperation(DecodeExecuted(c))
  <2>1. CASE ~Decodes(c) \/ Halts(c)
    BY <1>1, <2>1 DEF DecodeExecuted, Stages
  <2>2. CASE ~(~Decodes(c) \/ Halts(c))
    <3>1. d.ins.op # "halt"
      BY <2>2 DEF Halts
    <3>2. PICK v : DecodeExecuted(c) = [d EXCEPT !.operation = d.ins.op, !.result = v]
      BY <2>2 DEF DecodeExecuted
    <3>3. d \in StageRecords
      BY <1>1 DEF Stages
    <3> QED
      BY <3>1, <3>2, <3>3 DEF OwnOperation, StageRecords
  <2> QED
    BY <2>1, <2>2
<1>6. OwnOperation(ExecuteExecuted(c))
  BY <1>1, <1>4 DEF ExecuteExecuted, Stages
<1>7. OwnOperation(MemRefused(c))
  BY <1>1, <1>4 DEF MemRefused, Stages
<1>8. OwnOperation(MemExecuted(c, word))
  BY <1>1, <1>4, <1>7 DEF MemExecuted, Stages
<1> QED
  BY <1>3, <1>5, <1>6, <1>7, <1>8

\* The records a cycle makes the stages of, and the accepted access.
LEMMA CycleRecords ==
  ASSUME PipelineTypeOK, NEW c \in Cores, OperationsDecoded(c),
         NEW word \in Values, Cycles(c, word)
  PROVE  /\ ~CallsNull(c) /\ halted'[c] = (halted[c] \/ Halts(c))
         /\ halted'[c] \in BOOLEAN
         /\ regs'[c] = RegistersWritten(c)
         /\ FetchExecuted(c) \subseteq StageRecords
         /\ DecodeExecuted(c) \in StageRecords
         /\ ExecuteExecuted(c) \in StageRecords
         /\ MemRefused(c) \in StageRecords
         /\ MemExecuted(c, word) \in StageRecords
         /\ \A s \in Stages : stage[c][s] \in StageRecords
<1>1. PICK accepted \in BOOLEAN : Execute(c, accepted)
  BY DEF Cycles, CycleStalls, CycleBubbles, CycleMoves
<1>2. ~CallsNull(c) /\ halted' = [halted EXCEPT ![c] = halted[c] \/ Halts(c)]
      /\ regs' = [regs EXCEPT ![c] = RegistersWritten(c)]
  BY <1>1 DEF Execute
<1>3. halted'[c] = (halted[c] \/ Halts(c)) /\ halted'[c] \in BOOLEAN
      /\ regs'[c] = RegistersWritten(c)
  BY <1>2 DEF PipelineTypeOK, Halts, Decodes
<1> QED
  BY <1>2, <1>3, FetchAndDecodeTypes, LaterStagesTypes, StagesAreRecords

LEMMA CycleKeepsOperations ==
  ASSUME PipelineTypeOK, NEW c \in Cores, OperationsDecoded(c),
         NEW word \in Values, Cycles(c, word)
  PROVE  OperationsDecoded(c)'
<1> DEFINE f0 == stage[c]["fetch"]
           d0 == stage[c]["decode"]
           h  == halted'[c]
<1>1. /\ FetchExecuted(c) \subseteq StageRecords /\ h \in BOOLEAN
      /\ DecodeExecuted(c) \in StageRecords /\ ExecuteExecuted(c) \in StageRecords
      /\ MemRefused(c) \in StageRecords /\ MemExecuted(c, word) \in StageRecords
      /\ \A s \in Stages : stage[c][s] \in StageRecords
  BY CycleRecords
<1>2. \A s \in Stages : OwnOperation(stage[c][s])
  BY DEF OperationsDecoded, OwnOperation
<1>3. /\ \A f \in FetchExecuted(c) : f.operation = "null"
      /\ OwnOperation(DecodeExecuted(c)) /\ OwnOperation(ExecuteExecuted(c))
      /\ OwnOperation(MemRefused(c)) /\ OwnOperation(MemExecuted(c, word))
  BY ExecutedOwnOperation
<1>4. ASSUME NEW f \in FetchExecuted(c)
      PROVE  /\ EmptiedIf(h, f).operation = "null"
             /\ OwnOperation(f) /\ OwnOperation(EmptiedIf(h, f))
             /\ f \in StageRecords
  <2>1. f \in StageRecords /\ f.operation = "null"
    BY <1>1, <1>3
  <2>2. OwnOperation(f)
    BY <2>1 DEF OwnOperation
  <2> QED
    BY <1>1, <2>1, <2>2, BubbledOwnOperation
       DEF EmptiedIf, Emptied, StageRecords
<1>5. /\ OwnOperation(EmptiedIf(h, DecodeExecuted(c)))
      /\ OwnOperation(Emptied(ExecuteExecuted(c)))
      /\ OwnOperation(Emptied(stage[c]["writeback"]))
      /\ OwnOperation(Bubbled(DecodeExecuted(c), stage[c]["execute"]))
      /\ OwnOperation(Bubbled(ExecuteExecuted(c), stage[c]["mem"]))
      /\ OwnOperation(Bubbled(MemExecuted(c, word), stage[c]["writeback"]))
  BY <1>1, <1>2, <1>3, BubbledOwnOperation DEF Stages
<1>6. ASSUME NEW f \in FetchExecuted(c)
      PROVE  OwnOperation(EmptiedIf(h, Bubbled(f, d0)))
  <2>1. OwnOperation(Bubbled(f, d0)) /\ Bubbled(f, d0) \in StageRecords
    BY <1>1, <1>2, <1>4, BubbledOwnOperation, BubbledTypes DEF Stages
  <2> QED
    BY <1>1, <2>1, BubbledOwnOperation
<1>7. /\ stage'[c]["fetch"].operation = "null"
      /\ \A s \in Stages : OwnOperation(stage'[c][s])
  <2>1. CASE CycleStalls(c)
    <3>1. PICK f \in FetchExecuted(c) :
            StagesBecome(c, f, DecodeExecuted(c), ExecuteExecuted(c),
                         MemRefused(c), Emptied(stage[c]["writeback"]))
      BY <2>1 DEF CycleStalls
    <3> QED
      BY <1>3, <1>4, <1>5, <3>1, StagesAfter DEF Stages
  <2>2. CASE CycleBubbles(c, word)
    <3>1. PICK f \in FetchExecuted(c) :
            StagesBecome(c, f, DecodeExecuted(c), Emptied(ExecuteExecuted(c)),
                         Bubbled(ExecuteExecuted(c), stage[c]["mem"]),
                         Bubbled(MemExecuted(c, word), stage[c]["writeback"]))
      BY <2>2 DEF CycleBubbles
    <3> QED
      BY <1>4, <1>5, <3>1, StagesAfter DEF Stages
  <2>3. CASE CycleMoves(c, word)
    <3>1. PICK f \in FetchExecuted(c) :
            StagesBecome(c, f, Bubbled(f, d0),
                         Bubbled(DecodeExecuted(c), stage[c]["execute"]),
                         Bubbled(ExecuteExecuted(c), stage[c]["mem"]),
                         Bubbled(MemExecuted(c, word), stage[c]["writeback"]))
      BY <2>3 DEF CycleMoves
    <3> QED
      BY <1>4, <1>5, <1>6, <3>1, StagesAfter DEF Stages
  <2> QED
    BY <2>1, <2>2, <2>3 DEF Cycles
<1> QED
  BY <1>7 DEF OperationsDecoded, OwnOperation

\* The functions of the stages leave pc and instruction alone, and the result
\* of an instruction that is not theirs.
LEMMA ExecutedKeeps ==
  ASSUME PipelineTypeOK, NEW c \in Cores, NEW word
  PROVE  /\ DecodeExecuted(c).pc = stage[c]["decode"].pc
         /\ DecodeExecuted(c).ins = stage[c]["decode"].ins
         /\ ExecuteExecuted(c).pc = stage[c]["execute"].pc
         /\ ExecuteExecuted(c).ins = stage[c]["execute"].ins
         /\ stage[c]["execute"].ins.op \notin AluOps =>
              ExecuteExecuted(c).result = stage[c]["execute"].result
         /\ MemRefused(c).pc = stage[c]["mem"].pc
         /\ MemRefused(c).ins = stage[c]["mem"].ins
         /\ MemExecuted(c, word).pc = stage[c]["mem"].pc
         /\ MemExecuted(c, word).ins = stage[c]["mem"].ins
         /\ stage[c]["mem"].ins.op \notin MemoryOps =>
              MemExecuted(c, word).result = stage[c]["mem"].result
         /\ Stores(c) => MemExecuted(c, word).result = DataWord(c)
<1>1. \A s \in Stages : stage[c][s] \in StageRecords
  BY StagesAreRecords
<1>2. /\ DecodeExecuted(c).pc = stage[c]["decode"].pc
      /\ DecodeExecuted(c).ins = stage[c]["decode"].ins
  BY <1>1 DEF DecodeExecuted, StageRecords, Stages
<1>3. /\ ExecuteExecuted(c).pc = stage[c]["execute"].pc
      /\ ExecuteExecuted(c).ins = stage[c]["execute"].ins
      /\ stage[c]["execute"].ins.op \notin AluOps =>
           ExecuteExecuted(c).result = stage[c]["execute"].result
  BY <1>1 DEF ExecuteExecuted, StageRecords, Stages, Computes
<1>4. /\ MemRefused(c).pc = stage[c]["mem"].pc
      /\ MemRefused(c).ins = stage[c]["mem"].ins
      /\ MemRefused(c).result = DataWord(c)
  BY <1>1 DEF MemRefused, StageRecords, Stages
<1>5. /\ MemExecuted(c, word).pc = stage[c]["mem"].pc
      /\ MemExecuted(c, word).ins = stage[c]["mem"].ins
      /\ stage[c]["mem"].ins.op \notin MemoryOps =>
           MemExecuted(c, word).result = stage[c]["mem"].result
      /\ Stores(c) => MemExecuted(c, word).result = DataWord(c)
  BY <1>1, <1>4
     DEF MemExecuted, StageRecords, Stages, Loads, Stores, AccessesData, MemoryOps
<1> QED
  BY <1>2, <1>3, <1>4, <1>5

(***************************************************************************)
(* The stage an instruction in s was in before the cycle, if it is not     *)
(* freshly fetched.                                                        *)
(***************************************************************************)
Origin(stalled, s) ==
  IF stalled \/ s = "decode" THEN s
  ELSE CASE s = "execute" -> "decode"
         [] s = "mem"     -> "execute"
         [] OTHER         -> "mem"

\* What is in s after the cycle was in o: checked, or decoded in this cycle, or
\* let past undecoded.
Came(c, s, o) ==
  /\ Full(c, o)
  /\ stage'[c][s].ins = stage[c][o].ins
  /\ \/ /\ Checked(c, o)
        /\ stage[c][o].ins.op \in BranchOps =>
             stage'[c][s].result = stage[c][o].result
     \/ /\ o = "decode" /\ Decodes(c)
        /\ stage[c][o].ins.op \in BranchOps \ {"jal"} =>
             stage'[c][s].result = Operand(c, stage[c][o].ins, stage[c][o].ins.rd)
     \/ o = "decode" /\ Slips(c, ~memoryStall'[c])

LEMMA StallCame ==
  ASSUME PipelineTypeOK, NEW c \in Cores, OperationsDecoded(c),
         NEW s \in Stages, CycleStalls(c), Checked(c, s)'
  PROVE  s # "writeback" /\ Came(c, s, s)
<1>1. PICK f \in FetchExecuted(c) :
        StagesBecome(c, f, DecodeExecuted(c), ExecuteExecuted(c),
                     MemRefused(c), Emptied(stage[c]["writeback"]))
  BY DEF CycleStalls
<1>2. /\ stage'[c]["decode"] = EmptiedIf(halted'[c], DecodeExecuted(c))
      /\ stage'[c]["execute"] = ExecuteExecuted(c)
      /\ stage'[c]["mem"] = MemRefused(c)
      /\ stage'[c]["writeback"] = Emptied(stage[c]["writeback"])
  BY <1>1, StagesAfter
<1>3. \A t \in Stages : stage[c][t] \in StageRecords
  BY StagesAreRecords
<1>4. stage'[c]["writeback"].pc = NoPc
  BY <1>2, <1>3 DEF Emptied, StageRecords, Stages
<1>5. s \in {"decode", "execute", "mem"} /\ stage'[c][s].pc # NoPc
  BY <1>4 DEF Checked, Full, Stages
<1>6. CASE s = "decode"
  <2>1. stage'[c]["decode"] = DecodeExecuted(c) /\ ~halted'[c]
    <3>1. DecodeExecuted(c) \in StageRecords
      BY FetchAndDecodeTypes
    <3> QED
      BY <1>2, <1>5, <1>6, <3>1 DEF EmptiedIf, Emptied, StageRecords
  <2>2. Full(c, "decode") /\ stage'[c]["decode"].ins = stage[c]["decode"].ins
    BY <1>5, <1>6, <2>1, ExecutedKeeps DEF Full
  <2>3. CASE ~Decodes(c)
    <3>1. stage'[c]["decode"] = stage[c]["decode"]
      BY <2>1, <2>3 DEF DecodeExecuted
    <3> QED
      BY <1>6, <2>2, <3>1 DEF Came, Checked
  <2>4. CASE Decodes(c)
    <3>1. ~Halts(c)
      BY <2>1 DEF CycleStalls, Execute, PipelineTypeOK
    <3>2. stage[c]["decode"].ins.op \in BranchOps \ {"jal"} =>
            stage'[c]["decode"].result =
              Operand(c, stage[c]["decode"].ins, stage[c]["decode"].ins.rd)
      BY <1>3, <2>1, <2>4, <3>1
         DEF DecodeExecuted, Resolves, StageRecords, Stages
    <3> QED
      BY <1>6, <2>2, <2>4, <3>2 DEF Came
  <2> QED
    BY <1>6, <2>3, <2>4
<1>7. CASE s = "execute"
  BY <1>2, <1>5, <1>7, ExecutedKeeps DEF Came, Checked, Full, AluOps, BranchOps
<1>8. CASE s = "mem"
  BY <1>2, <1>5, <1>8, ExecutedKeeps
     DEF Came, Checked, Full, MemoryOps, BranchOps, CycleStalls, AccessesData
<1> QED
  BY <1>5, <1>6, <1>7, <1>8

\* The moves EXECUTE to MEM to WRITE_BACK of a cycle that does not stall.
LEMMA BubbledCame ==
  ASSUME PipelineTypeOK, NEW c \in Cores, OperationsDecoded(c),
         NEW word, MemExecuted(c, word) \in StageRecords,
         ExecuteExecuted(c) \in StageRecords,
         stage'[c]["mem"] = Bubbled(ExecuteExecuted(c), stage[c]["mem"]),
         stage'[c]["writeback"] =
           Bubbled(MemExecuted(c, word), stage[c]["writeback"])
  PROVE  /\ Checked(c, "mem")' => Came(c, "mem", "execute")
         /\ Checked(c, "writeback")' =>
              /\ Came(c, "writeback", "mem")
              /\ stage'[c]["writeback"].ins.op = "sw" =>
                   stage'[c]["writeback"].result = DataWord(c)
<1>1. \A t \in Stages : stage[c][t] \in StageRecords
  BY StagesAreRecords
<1>2. ASSUME Checked(c, "mem")' PROVE Came(c, "mem", "execute")
  <2>1. stage'[c]["mem"].pc # NoPc
    BY <1>2 DEF Checked, Full
  <2>2. stage'[c]["mem"] = ExecuteExecuted(c)
    BY <1>1, <2>1 DEF Bubbled, StageRecords, Stages
  <2> QED
    BY <2>1, <2>2, ExecutedKeeps DEF Came, Checked, Full, AluOps, BranchOps
<1>3. ASSUME Checked(c, "writeback")'
      PROVE  /\ Came(c, "writeback", "mem")
             /\ stage'[c]["writeback"].ins.op = "sw" =>
                  stage'[c]["writeback"].result = DataWord(c)
  <2>1. stage'[c]["writeback"].pc # NoPc
    BY <1>3 DEF Checked, Full
  <2>2. stage'[c]["writeback"] = MemExecuted(c, word)
    BY <1>1, <2>1 DEF Bubbled, StageRecords, Stages
  <2>3. Full(c, "mem") /\ stage'[c]["writeback"].ins = stage[c]["mem"].ins
    BY <2>1, <2>2, ExecutedKeeps DEF Full
  <2>4. Came(c, "writeback", "mem")
    BY <2>2, <2>3, ExecutedKeeps DEF Came, Checked, MemoryOps, BranchOps
  <2>5. stage[c]["mem"].ins.op = "sw" => Stores(c)
    BY <2>3 DEF Stores, AccessesData, MemoryOps
  <2> QED
    BY <2>2, <2>3, <2>4, <2>5, ExecutedKeeps
<1> QED
  BY <1>2, <1>3

LEMMA BubbleCame ==
  ASSUME PipelineTypeOK, NEW c \in Cores, OperationsDecoded(c), NEW word \in Values,
         NEW s \in Stages, CycleBubbles(c, word), Checked(c, s)'
  PROVE  /\ s # "execute" /\ Came(c, s, Origin(FALSE, s))
         /\ s = "writeback" /\ stage'[c][s].ins.op = "sw" =>
              stage'[c][s].result = DataWord(c)
<1>1. PICK f \in FetchExecuted(c) :
        StagesBecome(c, f, DecodeExecuted(c), Emptied(ExecuteExecuted(c)),
                     Bubbled(ExecuteExecuted(c), stage[c]["mem"]),
                     Bubbled(MemExecuted(c, word), stage[c]["writeback"]))
  BY DEF CycleBubbles
<1>2. /\ stage'[c]["decode"] = EmptiedIf(halted'[c], DecodeExecuted(c))
      /\ stage'[c]["execute"] = Emptied(ExecuteExecuted(c))
      /\ stage'[c]["mem"] = Bubbled(ExecuteExecuted(c), stage[c]["mem"])
      /\ stage'[c]["writeback"] =
           Bubbled(MemExecuted(c, word), stage[c]["writeback"])
  BY <1>1, StagesAfter
<1>3. /\ ExecuteExecuted(c) \in StageRecords
      /\ MemExecuted(c, word) \in StageRecords
      /\ stage[c]["decode"] \in StageRecords
  BY CycleRecords DEF Cycles, Stages
<1>4. stage'[c]["execute"].pc = NoPc
  BY <1>2, <1>3 DEF Emptied, StageRecords
<1>5. s \in {"decode", "mem", "writeback"} /\ stage'[c][s].pc # NoPc
  BY <1>4 DEF Checked, Full, Stages
<1>6. CASE s = "decode"
  <2>1. DecodeExecuted(c) = stage[c]["decode"]
    BY DEF CycleBubbles, Decodes, DecodeExecuted
  <2>2. stage'[c]["decode"] = stage[c]["decode"]
    BY <1>2, <1>3, <1>5, <1>6, <2>1 DEF EmptiedIf, Emptied, StageRecords
  <2> QED
    BY <1>5, <1>6, <2>2 DEF Came, Checked, Full, Origin
<1>7. CASE s \in {"mem", "writeback"}
  BY <1>2, <1>3, <1>7, BubbledCame DEF Origin
<1> QED
  BY <1>5, <1>6, <1>7

LEMMA MoveCame ==
  ASSUME PipelineTypeOK, NEW c \in Cores, OperationsDecoded(c), NEW word \in Values,
         NEW s \in Stages, CycleMoves(c, word), Checked(c, s)'
  PROVE  /\ s # "decode" /\ Came(c, s, Origin(FALSE, s))
         /\ s = "writeback" /\ stage'[c][s].ins.op = "sw" =>
              stage'[c][s].result = DataWord(c)
<1> DEFINE d == stage[c]["decode"]
<1>1. PICK f \in FetchExecuted(c) :
        StagesBecome(c, f, Bubbled(f, d), Bubbled(DecodeExecuted(c), stage[c]["execute"]),
                     Bubbled(ExecuteExecuted(c), stage[c]["mem"]),
                     Bubbled(MemExecuted(c, word), stage[c]["writeback"]))
  BY DEF CycleMoves
<1>2. /\ stage'[c]["decode"] = EmptiedIf(halted'[c], Bubbled(f, d))
      /\ stage'[c]["execute"] = Bubbled(DecodeExecuted(c), stage[c]["execute"])
      /\ stage'[c]["mem"] = Bubbled(ExecuteExecuted(c), stage[c]["mem"])
      /\ stage'[c]["writeback"] =
           Bubbled(MemExecuted(c, word), stage[c]["writeback"])
  BY <1>1, StagesAfter
<1>3. /\ ExecuteExecuted(c) \in StageRecords /\ DecodeExecuted(c) \in StageRecords
      /\ MemExecuted(c, word) \in StageRecords /\ f \in StageRecords
      /\ d \in StageRecords /\ stage[c]["execute"] \in StageRecords
  BY <1>1, CycleRecords DEF Cycles, Stages
<1>4. s # "decode"
  <2>1. f.operation = "null"
    BY <1>1, ExecutedOwnOperation
  <2>2. ASSUME stage'[c]["decode"].pc # NoPc PROVE stage'[c]["decode"] = f
    BY <1>2, <1>3, <2>2 DEF EmptiedIf, Emptied, Bubbled, StageRecords
  <2> QED
    BY <2>1, <2>2 DEF Checked, Full
<1>5. s \in {"execute", "mem", "writeback"} /\ stage'[c][s].pc # NoPc
  BY <1>4 DEF Checked, Full, Stages
<1>6. CASE s = "execute"
  <2>1. stage'[c]["execute"] = DecodeExecuted(c)
    BY <1>2, <1>3, <1>5, <1>6 DEF Bubbled, StageRecords
  <2>2. Full(c, "decode") /\ stage'[c]["execute"].ins = d.ins
    BY <1>5, <1>6, <2>1, ExecutedKeeps DEF Full
  <2>3. CASE Decodes(c)
    <3>1. d.ins.op \in BranchOps \ {"jal"} =>
            DecodeExecuted(c).result = Operand(c, d.ins, d.ins.rd)
      BY <1>3, <2>3 DEF DecodeExecuted, Halts, Resolves, StageRecords, BranchOps
    <3> QED
      BY <1>6, <2>1, <2>2, <2>3, <3>1 DEF Came, Origin
  <2>4. CASE ~Decodes(c) /\ d.operation # "null"
    <3>1. stage'[c]["execute"] = d
      BY <2>1, <2>4 DEF DecodeExecuted
    <3> QED
      BY <1>6, <2>2, <2>4, <3>1 DEF Came, Origin, Checked
  <2>5. CASE ~Decodes(c) /\ d.operation = "null"
    <3>1. memoryStall[c] /\ ~Hazard(c)
      BY <2>2, <2>5 DEF Decodes, CycleMoves
    <3>2. ~memoryStall'[c]
      BY DEF CycleMoves, Execute, PipelineTypeOK
    <3>3. Slips(c, ~memoryStall'[c])
      BY <2>2, <2>5, <3>1, <3>2 DEF Slips, Held
    <3> QED
      BY <1>6, <2>2, <3>3 DEF Came, Origin
  <2> QED
    BY <2>3, <2>4, <2>5
<1>7. CASE s \in {"mem", "writeback"}
  BY <1>2, <1>3, <1>7, BubbledCame DEF Origin
<1> QED
  BY <1>4, <1>5, <1>6, <1>7

\* The instructions past the check after a cycle of any kind, and their order.
LEMMA StagesCame ==
  ASSUME PipelineTypeOK, NEW c \in Cores, OperationsDecoded(c), NEW word \in Values,
         Cycles(c, word), NEW s \in Stages, Checked(c, s)'
  PROVE  /\ Came(c, s, Origin(memoryStall'[c], s))
         /\ s = "writeback" /\ stage'[c][s].ins.op = "sw" =>
              stage'[c][s].result = DataWord(c)
         /\ s = "writeback" => ~memoryStall'[c]
<1>1. CASE CycleStalls(c)
  <2>1. memoryStall'[c] = TRUE
    BY <1>1 DEF CycleStalls, Execute, PipelineTypeOK
  <2> QED
    BY <1>1, <2>1, StallCame DEF Origin
<1>2. CASE CycleBubbles(c, word)
  <2>1. memoryStall'[c] = FALSE
    BY <1>2 DEF CycleBubbles, Execute, PipelineTypeOK
  <2> QED
    BY <1>2, <2>1, BubbleCame
<1>3. CASE CycleMoves(c, word)
  <2>1. memoryStall'[c] = FALSE
    BY <1>3 DEF CycleMoves, Execute, PipelineTypeOK
  <2> QED
    BY <1>3, <2>1, MoveCame
<1> QED
  BY <1>1, <1>2, <1>3 DEF Cycles

LEMMA OriginsOrdered ==
  ASSUME PipelineTypeOK, NEW c \in Cores, OperationsDecoded(c), NEW word \in Values,
         Cycles(c, word), NEW s \in Stages, NEW older \in Before(s),
         Checked(c, s)', Full(c, older)'
  PROVE  LET s0 == Origin(memoryStall'[c], s)
             o0 == Origin(memoryStall'[c], older)
         IN  /\ s0 \in {"decode", "execute", "mem"} /\ o0 \in Before(s0)
             /\ Came(c, s, s0) /\ Came(c, older, o0)
<1>1. s \in {"decode", "execute", "mem"} /\ older \in {"execute", "mem", "writeback"}
      /\ older \in Stages
  BY DEF Before, Stages
<1>2. Checked(c, older)'
  BY <1>1 DEF Checked
<1>3. /\ Came(c, s, Origin(memoryStall'[c], s))
      /\ Came(c, older, Origin(memoryStall'[c], older))
      /\ older = "writeback" => ~memoryStall'[c]
  BY <1>1, <1>2, StagesCame
<1>4. ~memoryStall'[c] => ~(s = "decode" /\ older = "execute")
  <2>1. CASE CycleStalls(c)
    BY <2>1 DEF CycleStalls, Execute, PipelineTypeOK
  <2>2. CASE CycleBubbles(c, word)
    BY <1>2, <2>2, BubbleCame, <1>1
  <2>3. CASE CycleMoves(c, word)
    BY <1>1, <2>3, MoveCame
  <2> QED
    BY <2>1, <2>2, <2>3 DEF Cycles
<1>5. CASE memoryStall'[c]
  BY <1>1, <1>3, <1>5 DEF Origin, Before
<1>6. CASE ~memoryStall'[c]
  BY <1>1, <1>3, <1>4, <1>6 DEF Origin, Before
<1> QED
  BY <1>5, <1>6

\* ~Hazard holds when an instruction is decoded or slips, HazardFree before.
LEMMA CycleKeepsHazardFree ==
  ASSUME PipelineTypeOK, NEW c \in Cores, OperationsDecoded(c), NEW word \in Values,
         Cycles(c, word), HazardFree(c)
  PROVE  HazardFree(c)'
<1> SUFFICES ASSUME NEW s \in Stages, NEW older \in Before(s),
                    Checked(c, s)', Writes(c, older)'
             PROVE  stage'[c][older].ins.rd
                      \notin Sources(stage'[c][s].ins) \ Fixed
  BY DEF HazardFree
<1>1. Full(c, older)' /\ stage'[c][older].ins.op \notin BranchOps \cup {"sw", "halt"}
  BY DEF Writes
<1> DEFINE s0 == Origin(memoryStall'[c], s)
           o0 == Origin(memoryStall'[c], older)
<1>2. /\ s0 \in {"decode", "execute", "mem"} /\ o0 \in Before(s0)
      /\ Came(c, s, s0) /\ Came(c, older, o0)
  BY <1>1, OriginsOrdered
<1> HIDE DEF s0, o0
<1>3. /\ stage'[c][s].ins = stage[c][s0].ins
      /\ stage'[c][older].ins = stage[c][o0].ins
      /\ Writes(c, o0) /\ s0 \in Stages
      /\ o0 \in {"execute", "mem", "writeback"}
  BY <1>1, <1>2 DEF Came, Writes, Before, Stages
<1>4. CASE Checked(c, s0)
  BY <1>2, <1>3, <1>4 DEF HazardFree
<1>5. CASE s0 = "decode" /\ ~Hazard(c)
  BY <1>3, <1>5 DEF Hazard
<1>6. Checked(c, s0) \/ (s0 = "decode" /\ ~Hazard(c))
  BY <1>2 DEF Came, Decodes, Slips
<1> QED
  BY <1>4, <1>5, <1>6

LEMMA CycleKeepsHaltEmpties ==
  ASSUME PipelineTypeOK, NEW c \in Cores, OperationsDecoded(c), NEW word \in Values,
         Cycles(c, word)
  PROVE  HaltEmpties(c)'
<1>1. /\ FetchExecuted(c) \subseteq StageRecords
      /\ DecodeExecuted(c) \in StageRecords
      /\ \A f \in StageRecords : Bubbled(f, stage[c]["decode"]) \in StageRecords
  BY CycleRecords, BubbledTypes DEF Stages
<1>2. PICK f \in StageRecords, d \in StageRecords :
        /\ stage'[c]["fetch"]  = EmptiedIf(halted'[c], f)
        /\ stage'[c]["decode"] = EmptiedIf(halted'[c], d)
  <2>1. CASE CycleStalls(c)
    <3>1. PICK f \in FetchExecuted(c) :
            StagesBecome(c, f, DecodeExecuted(c), ExecuteExecuted(c),
                         MemRefused(c), Emptied(stage[c]["writeback"]))
      BY <2>1 DEF CycleStalls
    <3>2. /\ stage'[c]["fetch"]  = EmptiedIf(halted'[c], f)
          /\ stage'[c]["decode"] = EmptiedIf(halted'[c], DecodeExecuted(c))
      BY <3>1, StagesAfter
    <3> QED
      BY <1>1, <3>1, <3>2
  <2>2. CASE CycleBubbles(c, word)
    <3>1. PICK f \in FetchExecuted(c) :
            StagesBecome(c, f, DecodeExecuted(c), Emptied(ExecuteExecuted(c)),
                         Bubbled(ExecuteExecuted(c), stage[c]["mem"]),
                         Bubbled(MemExecuted(c, word), stage[c]["writeback"]))
      BY <2>2 DEF CycleBubbles
    <3>2. /\ stage'[c]["fetch"]  = EmptiedIf(halted'[c], f)
          /\ stage'[c]["decode"] = EmptiedIf(halted'[c], DecodeExecuted(c))
      BY <3>1, StagesAfter
    <3> QED
      BY <1>1, <3>1, <3>2
  <2>3. CASE CycleMoves(c, word)
    <3>1. PICK f \in FetchExecuted(c) :
            StagesBecome(c, f, Bubbled(f, stage[c]["decode"]),
                         Bubbled(DecodeExecuted(c), stage[c]["execute"]),
                         Bubbled(ExecuteExecuted(c), stage[c]["mem"]),
                         Bubbled(MemExecuted(c, word), stage[c]["writeback"]))
      BY <2>3 DEF CycleMoves
    <3>2. /\ stage'[c]["fetch"]  = EmptiedIf(halted'[c], f)
          /\ stage'[c]["decode"] =
               EmptiedIf(halted'[c], Bubbled(f, stage[c]["decode"]))
      BY <3>1, StagesAfter
    <3> QED
      BY <1>1, <3>1, <3>2
  <2> QED
    BY <2>1, <2>2, <2>3 DEF Cycles
<1>3. ASSUME halted'[c], NEW r \in StageRecords
      PROVE  EmptiedIf(halted'[c], r).pc = NoPc
  BY <1>3 DEF EmptiedIf, Emptied, StageRecords
<1>4. halted'[c] => stage'[c]["fetch"].pc = NoPc /\ stage'[c]["decode"].pc = NoPc
  BY <1>2, <1>3
<1> QED
  BY <1>4 DEF HaltEmpties, Full

(***************************************************************************)
(* A core that has not strayed lets no instruction past undecoded. So the  *)
(* oldest HALT is decoded, and halts the pipeline, before it leaves DECODE.*)
(***************************************************************************)
LEMMA CycleKeepsHaltLast ==
  ASSUME PipelineTypeOK, NEW c \in Cores, OperationsDecoded(c), NEW word \in Values,
         Cycles(c, word), HaltIsLast(c), ~Slips(c, ~memoryStall'[c])
  PROVE  HaltIsLast(c)'
<1> SUFFICES ASSUME NEW s \in Stages, NEW older \in Before(s),
                    Full(c, older)', stage'[c][older].ins.op = "halt"
             PROVE  halted'[c] /\ ~Full(c, s)'
  BY DEF HaltIsLast
<1> DEFINE s0 == Origin(memoryStall'[c], s)
           o0 == Origin(memoryStall'[c], older)
<1>1. /\ s \in {"decode", "execute", "mem"} /\ older \in Stages
      /\ older \in {"execute", "mem", "writeback"} /\ Checked(c, older)'
  BY DEF Before, Checked, Stages
<1>2. Came(c, older, o0) /\ o0 \in {"decode", "execute", "mem"}
  BY <1>1, StagesCame DEF Origin
<1> HIDE DEF o0
<1>3. Full(c, o0) /\ stage[c][o0].ins.op = "halt"
  BY <1>2 DEF Came
<1>4. halted'[c] = (halted[c] \/ Halts(c))
  BY CycleRecords
<1>5. halted'[c]
  <2>1. CASE o0 = "decode"
    <3>1. ~Checked(c, "decode")
      BY <1>3, <2>1 DEF Checked, OperationsDecoded, Stages
    <3>2. Decodes(c)
      BY <1>2, <2>1, <3>1 DEF Came
    <3> QED
      BY <1>3, <1>4, <2>1, <3>2 DEF Halts
  <2>2. CASE o0 \in Before("decode")
    BY <1>3, <1>4, <2>2 DEF HaltIsLast, Stages
  <2> QED
    BY <1>2, <2>1, <2>2 DEF Before
<1>6. CASE s = "decode"
  BY <1>5, <1>6, CycleKeepsHaltEmpties DEF HaltEmpties
<1>7. CASE s # "decode"
  <2>1. SUFFICES ASSUME Full(c, s)' PROVE FALSE
    BY <1>5
  <2>2. Checked(c, s)'
    BY <1>1, <1>7, <2>1 DEF Checked
  <2>3. o0 \in Before(s0) /\ Came(c, s, s0) /\ s0 \in Stages
    BY <2>2, OriginsOrdered DEF o0, Stages
  <2> HIDE DEF s0
  <2> QED
    BY <1>3, <2>3 DEF HaltIsLast, Came
<1> QED
  BY <1>6, <1>7

\* A branch is resolved in a cycle in which it reads nothing stale.
LEMMA CycleKeepsBranches ==
  ASSUME PipelineTypeOK, NEW c \in Cores, OperationsDecoded(c), NEW word \in Values,
         Cycles(c, word), BranchesUpToDate(c), ~Slips(c, ~memoryStall'[c]),
         ~ReadsStale(c)
  PROVE  BranchesUpToDate(c)'
<1> SUFFICES ASSUME NEW s \in Stages, NEW older \in Before(s), Checked(c, s)',
                    stage'[c][s].ins.op \in BranchOps, Full(c, older)'
             PROVE  UncheckedResult(stage'[c][older].ins)
                      \cap Sources(stage'[c][s].ins) = {}
  BY DEF BranchesUpToDate
<1> DEFINE s0 == Origin(memoryStall'[c], s)
           o0 == Origin(memoryStall'[c], older)
<1>1. /\ s0 \in {"decode", "execute", "mem"} /\ o0 \in Before(s0)
      /\ Came(c, s, s0) /\ Came(c, older, o0)
  BY OriginsOrdered
<1> HIDE DEF s0, o0
<1>2. /\ stage'[c][s].ins = stage[c][s0].ins
      /\ stage'[c][older].ins = stage[c][o0].ins
      /\ Full(c, o0) /\ s0 \in Stages
  BY <1>1 DEF Came, Stages
<1>3. CASE Checked(c, s0)
  BY <1>1, <1>2, <1>3 DEF BranchesUpToDate
<1>4. CASE s0 = "decode" /\ Decodes(c)
  <2>1. Reads(c, "decode")
    BY <1>2, <1>4 DEF Reads, Resolves
  <2> QED
    BY <1>1, <1>2, <1>4, <2>1 DEF ReadsStale
<1> QED
  BY <1>1, <1>3, <1>4 DEF Came

(***************************************************************************)
(* The register an instruction reads is not changed by the one in          *)
(* WRITE_BACK: it writes another, or the value that is there.              *)
(***************************************************************************)
LEMMA RegisterUndisturbed ==
  ASSUME PipelineTypeOK, NEW c \in Cores, RewritesSame(c),
         NEW ins \in Instructions, NEW r \in Sources(ins) \ {ImmediateRegister},
         Full(c, "writeback"),
         stage[c]["writeback"].ins.op # "halt",
         UncheckedResult(stage[c]["writeback"].ins) \cap Sources(ins) = {},
         Writes(c, "writeback") =>
           stage[c]["writeback"].ins.rd \notin Sources(ins) \ Fixed
  PROVE  RegistersWritten(c)[r] = regs[c][r]
<1> DEFINE w == stage[c]["writeback"]
<1>1. w \in StageRecords /\ w.ins \in Instructions
  BY StagesAreRecords DEF Stages
<1>2. regs[c] \in [Registers -> Values] /\ r \in Registers
  BY DEF PipelineTypeOK, Sources, Instructions
<1>3. RegistersWritten(c) = [regs[c] EXCEPT ![Destination(w.ins)] = w.result]
  BY DEF RegistersWritten
<1>4. CASE Destination(w.ins) # r
  BY <1>2, <1>3, <1>4
<1>5. CASE Destination(w.ins) = r
  <2>1. w.ins.op # "jal"
    BY <1>5 DEF Destination, UncheckedResult
  <2>2. w.ins.rd = r
    BY <1>5, <2>1 DEF Destination
  <2>3. r # ZeroRegister
    BY <2>1, <2>2 DEF UncheckedResult
  <2>4. r \notin Fixed
    BY <2>3 DEF Fixed
  <2>5. ~Writes(c, "writeback")
    BY <2>2, <2>4
  <2>6. w.ins.op \in BranchOps \ {"jal"} \/ w.ins.op = "sw"
    BY <2>1, <2>5 DEF Writes
  <2>7. Checked(c, "writeback") /\ "writeback" \in Stages
    BY DEF Checked, Stages
  <2>8. w.result = regs[c][r]
    BY <2>2, <2>4, <2>6, <2>7 DEF RewritesSame
  <2> QED
    BY <1>2, <1>3, <1>5, <2>8
<1> QED
  BY <1>4, <1>5

LEMMA SettledUndisturbed ==
  ASSUME PipelineTypeOK, NEW c \in Cores, HazardFree(c), Following(c),
         NEW s \in {"decode", "execute", "mem"}, Full(c, s),
         Checked(c, s) \/ (s = "decode" /\ ~Hazard(c)),
         Full(c, "writeback") =>
           UncheckedResult(stage[c]["writeback"].ins)
             \cap Sources(stage[c][s].ins) = {},
         NEW r \in Sources(stage[c][s].ins) \ {ImmediateRegister}
  PROVE  RegistersWritten(c)[r] = regs[c][r]
<1>1. CASE ~Full(c, "writeback")
  BY <1>1 DEF RegistersWritten
<1>2. CASE Full(c, "writeback")
  <2>1. "writeback" \in Before(s) /\ s \in Stages
    BY DEF Before, Stages
  <2>2. stage[c]["writeback"].ins.op # "halt"
    BY <1>2, <2>1 DEF Following, HaltIsLast
  <2>3. ASSUME Writes(c, "writeback")
        PROVE  stage[c]["writeback"].ins.rd
                 \notin Sources(stage[c][s].ins) \ Fixed
    <3>1. CASE Checked(c, s)
      BY <2>1, <2>3, <3>1 DEF HazardFree
    <3>2. CASE s = "decode" /\ ~Hazard(c)
      BY <2>3, <3>2 DEF Hazard
    <3> QED
      BY <3>1, <3>2
  <2>4. stage[c][s].ins \in Instructions
    BY <2>1, StagesAreRecords
  <2> QED
    BY <1>2, <2>2, <2>3, <2>4, RegisterUndisturbed DEF Following
<1> QED
  BY <1>1, <1>2

LEMMA ReadersUndisturbed ==
  ASSUME PipelineTypeOK, NEW c \in Cores, HazardFree(c), Following(c),
         NEW s \in {"decode", "execute", "mem"}, Full(c, s),
         Checked(c, s) \/ (s = "decode" /\ ~Hazard(c)),
         (Checked(c, s) /\ stage[c][s].ins.op \in BranchOps)
           \/ (Reads(c, s) /\ ~ReadsStale(c)),
         NEW r \in Sources(stage[c][s].ins) \ {ImmediateRegister}
  PROVE  RegistersWritten(c)[r] = regs[c][r]
<1>1. "writeback" \in Before(s) /\ s \in Stages
  BY DEF Before, Stages
<1>2. Full(c, "writeback") =>
        UncheckedResult(stage[c]["writeback"].ins)
          \cap Sources(stage[c][s].ins) = {}
  BY <1>1 DEF Following, BranchesUpToDate, ReadsStale
<1> QED
  BY <1>2, SettledUndisturbed

LEMMA CycleKeepsRewrites ==
  ASSUME PipelineTypeOK, NEW c \in Cores, OperationsDecoded(c), NEW word \in Values,
         Cycles(c, word), HazardFree(c), Following(c),
         ~Slips(c, ~memoryStall'[c]), ~ReadsStale(c)
  PROVE  RewritesSame(c)'
<1> SUFFICES ASSUME NEW s \in Stages, Checked(c, s)',
                    \/ stage'[c][s].ins.op \in BranchOps \ {"jal"}
                    \/ stage'[c][s].ins.op = "sw" /\ s = "writeback",
                    stage'[c][s].ins.rd # ImmediateRegister
             PROVE  stage'[c][s].result = regs'[c][stage'[c][s].ins.rd]
  BY DEF RewritesSame
<1> DEFINE s0 == Origin(memoryStall'[c], s)
<1>1. /\ Came(c, s, s0)
      /\ s = "writeback" /\ stage'[c][s].ins.op = "sw" =>
           stage'[c][s].result = DataWord(c) /\ s0 = "mem"
      /\ s0 \in {"decode", "execute", "mem"}
  <2>1. s # "fetch"
    BY DEF Checked
  <2> QED
    BY <2>1, StagesCame DEF Origin, Stages
<1> HIDE DEF s0
<1> DEFINE ins == stage[c][s0].ins
           r   == ins.rd
<1>2. stage'[c][s].ins = ins /\ Full(c, s0) /\ s0 \in Stages
  BY <1>1 DEF Came, Stages
<1>3. ins \in Instructions
  BY <1>2, StagesAreRecords
<1>4. /\ r \in Sources(ins) \ {ImmediateRegister}
      /\ Operand(c, ins, r) = regs[c][r]
  BY <1>2, <1>3 DEF Sources, Operand, AluOps, BranchOps
<1>5. regs'[c][r] = RegistersWritten(c)[r]
  BY CycleRecords
<1>6. CASE ins.op = "sw" /\ s = "writeback"
  <2>1. s0 = "mem" /\ stage'[c][s].result = regs[c][r]
    BY <1>1, <1>2, <1>4, <1>6 DEF DataWord
  <2>2. Reads(c, "mem") /\ Checked(c, "mem")
    BY <1>2, <1>6, <2>1 DEF Reads, AccessesData, Checked, MemoryOps
  <2>3. RegistersWritten(c)[r] = regs[c][r]
    BY <1>2, <1>4, <2>1, <2>2, ReadersUndisturbed
  <2> QED
    BY <1>2, <1>5, <2>1, <2>3
<1>7. CASE ins.op \in BranchOps \ {"jal"}
  <2>1. CASE Checked(c, s0) /\ stage'[c][s].result = stage[c][s0].result
    <3>1. stage[c][s0].result = regs[c][r]
      BY <1>2, <1>4, <1>7, <2>1 DEF Following, RewritesSame
    <3>2. RegistersWritten(c)[r] = regs[c][r]
      BY <1>1, <1>2, <1>4, <1>7, <2>1, ReadersUndisturbed
    <3> QED
      BY <1>2, <1>5, <2>1, <3>1, <3>2
  <2>2. CASE s0 = "decode" /\ Decodes(c) /\ stage'[c][s].result = Operand(c, ins, r)
    <3>1. Reads(c, "decode") /\ ~Hazard(c)
      BY <1>7, <2>2 DEF Reads, Resolves, Decodes
    <3>2. RegistersWritten(c)[r] = regs[c][r]
      BY <1>2, <1>4, <2>2, <3>1, ReadersUndisturbed
    <3> QED
      BY <1>2, <1>4, <1>5, <2>2, <3>2
  <2> QED
    BY <1>1, <1>7, <2>1, <2>2 DEF Came
<1> QED
  BY <1>2, <1>6, <1>7

\* What enters EXECUTE has been decoded, in this cycle or before a stall.
LEMMA CycleKeepsExecuteDecoded ==
  ASSUME PipelineTypeOK, NEW c \in Cores, OperationsDecoded(c), NEW word \in Values,
         Cycles(c, word), ExecuteIsDecoded(c), ~Slips(c, ~memoryStall'[c])
  PROVE  ExecuteIsDecoded(c)'
<1> DEFINE d == stage[c]["decode"]
           e == stage[c]["execute"]
<1> SUFFICES ASSUME stage'[c]["execute"].pc # NoPc,
                    stage'[c]["execute"].ins.op # "halt"
             PROVE  stage'[c]["execute"].operation # "null"
  BY DEF ExecuteIsDecoded, Full
<1>1. /\ ExecuteExecuted(c) \in StageRecords /\ DecodeExecuted(c) \in StageRecords
      /\ d \in StageRecords /\ e \in StageRecords
  BY CycleRecords DEF Stages
<1>2. CASE CycleStalls(c)
  <2>1. stage'[c]["execute"] = ExecuteExecuted(c)
    BY <1>2, StagesAfter DEF CycleStalls
  <2>2. ExecuteExecuted(c).operation = e.operation
    BY <1>1 DEF ExecuteExecuted, StageRecords
  <2> QED
    BY <2>1, <2>2, ExecutedKeeps DEF ExecuteIsDecoded, Full
<1>3. CASE CycleBubbles(c, word)
  <2>1. stage'[c]["execute"] = Emptied(ExecuteExecuted(c))
    BY <1>3, StagesAfter DEF CycleBubbles
  <2> QED
    BY <1>1, <2>1 DEF Emptied, StageRecords
<1>4. CASE CycleMoves(c, word)
  <2>1. stage'[c]["execute"] = Bubbled(DecodeExecuted(c), e)
    BY <1>4, StagesAfter DEF CycleMoves
  <2>2. stage'[c]["execute"] = DecodeExecuted(c)
    BY <1>1, <2>1 DEF Bubbled, StageRecords
  <2>3. Full(c, "decode") /\ d.ins.op # "halt" /\ d.ins.op # "null"
    BY <1>1, <2>2, ExecutedKeeps
       DEF Full, StageRecords, Instructions, Ops, AluOps, BranchOps, MemoryOps
  <2>4. CASE Decodes(c)
    BY <1>1, <2>2, <2>3, <2>4 DEF DecodeExecuted, Halts, StageRecords
  <2>5. CASE ~Decodes(c)
    <3>1. stage'[c]["execute"] = d
      BY <2>2, <2>5 DEF DecodeExecuted
    <3>2. memoryStall[c] /\ ~Hazard(c) /\ ~memoryStall'[c]
      BY <1>4, <2>3, <2>5 DEF Decodes, CycleMoves, Execute, PipelineTypeOK
    <3> QED
      BY <2>3, <3>1, <3>2 DEF Slips, Held
  <2> QED
    BY <2>4, <2>5
<1> QED
  BY <1>2, <1>3, <1>4 DEF Cycles

(***************************************************************************)
(* The access a stalled core repeats: the register of its instruction are  *)
(* what they were.                                                         *)
(***************************************************************************)
LEMMA RefusedStaysSame ==
  ASSUME PipelineTypeOK, NEW c \in Cores, OperationsDecoded(c), CycleStalls(c),
         HazardFree(c), Following(c), ~ReadsStale(c)
  PROVE  RequestedAccess(c)' = RequestedAccess(c)
<1> DEFINE ins == stage[c]["mem"].ins
<1>1. PICK word \in Values : Cycles(c, word)
  <2>1. 0 \in Values
    BY RegistersAndBits, PowersOfTwo DEF Values
  <2> QED
    BY <2>1 DEF Cycles
<1>2. regs'[c] = RegistersWritten(c)
  BY <1>1, CycleRecords
<1>3. stage'[c]["mem"].ins = ins
  <2>1. stage'[c]["mem"] = MemRefused(c)
    BY StagesAfter DEF CycleStalls
  <2> QED
    BY <2>1, ExecutedKeeps
<1>4. /\ Full(c, "mem") /\ ins.op \in MemoryOps
      /\ Reads(c, "mem") /\ Checked(c, "mem")
  BY DEF CycleStalls, AccessesData, Reads, Checked
<1>5. \A r \in Sources(ins) \ {ImmediateRegister} : regs'[c][r] = regs[c][r]
  BY <1>2, <1>4, ReadersUndisturbed
<1>6. {ins.rs, ins.rt} \subseteq Sources(ins) /\ (ins.op = "sw" => ins.rd \in Sources(ins))
  BY DEF Sources, AluOps
<1>7. DataAddress(c)' = DataAddress(c)
  BY <1>3, <1>5, <1>6 DEF DataAddress, Operand
<1>8. ins.op = "sw" => DataWord(c)' = DataWord(c)
  BY <1>3, <1>5, <1>6 DEF DataWord, Operand
<1> QED
  BY <1>3, <1>7, <1>8 DEF RequestedAccess

-----------------------------------------------------------------------------
(***************************************************************************)
(* The invariant over the steps of all cores.                              *)
(***************************************************************************)
LEMMA OtherCoreInOrder ==
  ASSUME NEW c \in Cores, InstructionsInOrder(c), stage'[c] = stage[c],
         regs'[c] = regs[c], halted'[c] = halted[c], strayed'[c] = strayed[c]
  PROVE  InstructionsInOrder(c)'
<1>1. \A s \in Stages :
        /\ Full(c, s)' = Full(c, s)
        /\ Writes(c, s)' = Writes(c, s)
        /\ Checked(c, s)' = Checked(c, s)
  BY DEF Full, Writes, Checked
<1>2. \A s \in Stages : Before(s) \subseteq Stages
  BY DEF Before, Stages
<1>3. OperationsDecoded(c)' = OperationsDecoded(c)
  BY DEF OperationsDecoded
<1>4. HazardFree(c)' = HazardFree(c)
  BY <1>1, <1>2 DEF HazardFree
<1>5. HaltEmpties(c)' = HaltEmpties(c)
  BY <1>1 DEF HaltEmpties, Stages
<1>6. HaltIsLast(c)' = HaltIsLast(c)
  BY <1>1, <1>2 DEF HaltIsLast
<1>7. BranchesUpToDate(c)' = BranchesUpToDate(c)
  BY <1>1, <1>2 DEF BranchesUpToDate
<1>8. RewritesSame(c)' = RewritesSame(c)
  BY <1>1 DEF RewritesSame
<1>9. ExecuteIsDecoded(c)' = ExecuteIsDecoded(c)
  BY <1>1 DEF ExecuteIsDecoded, Stages
<1> QED
  BY <1>3, <1>4, <1>5, <1>6, <1>7, <1>8, <1>9 DEF InstructionsInOrder, Following

LEMMA CycleLeavesOthers ==
  ASSUME PipelineTypeOK, NEW c \in Cores, NEW word, Cycles(c, word),
         NEW o \in Cores \ {c}
  PROVE  /\ stage'[o] = stage[o] /\ regs'[o] = regs[o] /\ halted'[o] = halted[o]
         /\ memoryStall'[o] = memoryStall[o]
<1>1. stage'[o] = stage[o]
  BY DEF Cycles, CycleStalls, CycleBubbles, CycleMoves, StagesBecome, PipelineTypeOK
<1>2. PICK accepted \in BOOLEAN : Execute(c, accepted)
  BY DEF Cycles, CycleStalls, CycleBubbles, CycleMoves
<1>3. regs'[o] = regs[o] /\ halted'[o] = halted[o] /\ memoryStall'[o] = memoryStall[o]
  BY <1>2 DEF Execute, PipelineTypeOK
<1> QED
  BY <1>1, <1>3

LEMMA WatchSees ==
  ASSUME strayed \in [Cores -> BOOLEAN], NEW c \in Cores, NEW accepted \in BOOLEAN,
         Watch(c, accepted)
  PROVE  /\ strayed' \in [Cores -> BOOLEAN]
         /\ \A o \in Cores \ {c} : strayed'[o] = strayed[o]
         /\ ~strayed'[c] => /\ ~strayed[c] /\ ~Slips(c, accepted)
                            /\ ~ReadsStale(c) /\ ~FetchesNoPc(c)
<1>1. /\ Slips(c, accepted) \in BOOLEAN /\ ReadsStale(c) \in BOOLEAN
      /\ FetchesNoPc(c) \in BOOLEAN
  BY DEF Slips, ReadsStale, FetchesNoPc
<1> DEFINE v == strayed[c] \/ Slips(c, accepted) \/ ReadsStale(c) \/ FetchesNoPc(c)
<1>2. strayed' = [strayed EXCEPT ![c] = v]
  BY DEF Watch
<1>3. v \in BOOLEAN
  BY <1>1
<1>4. strayed'[c] = v
  BY <1>2
<1>5. strayed' \in [Cores -> BOOLEAN] /\ \A o \in Cores \ {c} : strayed'[o] = strayed[o]
  BY <1>2, <1>3
<1> QED
  BY <1>4, <1>5

LEMMA CycleKeepsPipelineInv ==
  ASSUME PipelineInv, NEW c \in Cores, NEW word \in Values, Cycles(c, word),
         NEW accepted \in BOOLEAN, accepted = ~memoryStall'[c], Watch(c, accepted)
  PROVE  PipelineInv'
<1>1. PipelineTypeOK /\ InstructionsInOrder(c) /\ OperationsDecoded(c)
  BY DEF PipelineInv, InstructionsInOrder
<1>2. PipelineTypeOK'
  BY <1>1, CycleKeepsTypes
<1>3. /\ strayed' \in [Cores -> BOOLEAN]
      /\ \A o \in Cores \ {c} : strayed'[o] = strayed[o]
      /\ ~strayed'[c] => ~strayed[c] /\ ~Slips(c, accepted) /\ ~ReadsStale(c)
  BY WatchSees DEF PipelineInv
<1>4. InstructionsInOrder(c)'
  <2>1. OperationsDecoded(c)' /\ HazardFree(c)' /\ HaltEmpties(c)'
    BY <1>1, CycleKeepsOperations, CycleKeepsHazardFree, CycleKeepsHaltEmpties
       DEF InstructionsInOrder
  <2>2. ASSUME ~strayed'[c] PROVE Following(c)'
    <3>1. Following(c) /\ ~Slips(c, ~memoryStall'[c]) /\ ~ReadsStale(c)
      BY <1>1, <1>3, <2>2 DEF InstructionsInOrder
    <3>2. HaltIsLast(c)' /\ BranchesUpToDate(c)'
      BY <1>1, <3>1, CycleKeepsHaltLast, CycleKeepsBranches DEF Following
    <3>3. RewritesSame(c)'
      BY <1>1, <3>1, CycleKeepsRewrites DEF InstructionsInOrder
    <3>4. ExecuteIsDecoded(c)'
      BY <1>1, <3>1, CycleKeepsExecuteDecoded DEF Following
    <3> QED
      BY <3>2, <3>3, <3>4 DEF Following
  <2> QED
    BY <2>1, <2>2 DEF InstructionsInOrder
<1>5. ASSUME NEW o \in Cores \ {c} PROVE InstructionsInOrder(o)'
  BY <1>1, <1>3, CycleLeavesOthers, OtherCoreInOrder DEF PipelineInv
<1> QED
  BY <1>2, <1>3, <1>4, <1>5 DEF PipelineInv

\* A core that halts, rests or crashes keeps its stages.
LEMMA StopKeepsPipelineInv ==
  ASSUME PipelineInv, NEW c \in Cores, Crashes(c) \/ CoreHalts(c) \/ UNCHANGED pipelineVars,
         UNCHANGED strayed
  PROVE  PipelineInv'
<1>1. /\ UNCHANGED <<imem, pc, regs, stage, halted, dataHazardStall, memoryStall>>
      /\ coreHalted' \in [Cores -> BOOLEAN] /\ crashed' \in BOOLEAN
  BY DEF Crashes, CoreHalts, pipelineVars, coreVars, PipelineInv, PipelineTypeOK
<1>2. PipelineTypeOK'
  BY <1>1 DEF PipelineInv, PipelineTypeOK
<1>3. \A o \in Cores : InstructionsInOrder(o)'
  BY <1>1, OtherCoreInOrder DEF PipelineInv
<1> QED
  BY <1>2, <1>3 DEF PipelineInv

LEMMA InitPipelineInv ==
  ASSUME PipelineInit, WatchInit
  PROVE  PipelineInv
<1>1. 0 \in Values /\ 0 \in Registers /\ 0 \in Immediates
  BY RegistersAndBits, PowersOfTwo DEF Values, Registers, Immediates
<1>2. ZeroInstruction \in Instructions /\ ZeroInstruction.op = "add"
  BY <1>1 DEF ZeroInstruction, Instructions, Ops, AluOps
<1>3. NoPc \in Pcs /\ 0 \in Pcs
  BY NoPcIsNatural DEF Pcs
<1>4. EmptyStage \in StageRecords /\ [EmptyStage EXCEPT !.pc = 0] \in StageRecords
  BY <1>1, <1>2, <1>3 DEF EmptyStage, StageRecords
<1>5. stage \in [Cores -> [Stages -> StageRecords]]
  BY <1>4 DEF PipelineInit, InitialStages
<1>6. imem \in [Cores -> [Addresses -> Instructions]]
  <2>1. ASSUME NEW file \in Seq(Instructions)
        PROVE  Image(file) \in [Addresses -> Instructions]
    <3>1. ASSUME NEW a \in Addresses, a < Len(file) PROVE file[a + 1] \in Instructions
      <4>1. a + 1 \in 1 .. Len(file)
        BY <3>1 DEF Addresses
      <4> QED
        BY <4>1
    <3> QED
      BY <1>2, <3>1 DEF Image
  <2>2. PICK files \in Programs : imem = [c \in Cores |-> Image(files[c])]
    BY DEF PipelineInit
  <2> QED
    BY <2>1, <2>2, ProgramsAreFiles
<1>7. PipelineTypeOK
  BY <1>1, <1>3, <1>5, <1>6 DEF PipelineInit, PipelineTypeOK
<1>8. ASSUME NEW c \in Cores PROVE InstructionsInOrder(c)
  <2>1. /\ \A s \in Stages \ {"fetch"} : stage[c][s] = EmptyStage
        /\ stage[c]["fetch"] = [EmptyStage EXCEPT !.pc = 0]
        /\ ~halted[c]
    BY DEF PipelineInit, InitialStages, Stages
  <2>2. \A s \in Stages \ {"fetch"} : ~Full(c, s)
    BY <2>1 DEF Full, EmptyStage
  <2>3. \A s \in Stages : Before(s) \subseteq Stages \ {"fetch"}
    BY DEF Before, Stages
  <2>4. \A s \in Stages : ~Checked(c, s)
    BY <2>2 DEF Checked
  <2>5. OperationsDecoded(c)
    BY <1>2, <2>1 DEF OperationsDecoded, EmptyStage, Stages
  <2>6. HazardFree(c) /\ BranchesUpToDate(c) /\ RewritesSame(c)
    BY <2>4 DEF HazardFree, BranchesUpToDate, RewritesSame
  <2>7. HaltEmpties(c) /\ HaltIsLast(c)
    BY <2>1, <2>2, <2>3 DEF HaltEmpties, HaltIsLast
  <2>8. ExecuteIsDecoded(c)
    BY <2>2 DEF ExecuteIsDecoded, Stages
  <2> QED
    BY <2>5, <2>6, <2>7, <2>8 DEF InstructionsInOrder, Following
<1> QED
  BY <1>7, <1>8 DEF PipelineInv, WatchInit

-----------------------------------------------------------------------------
(***************************************************************************)
(* The cores with private memories.                                        *)
(***************************************************************************)
MemoriesTypeOK == dmem \in [Cores -> [Cells -> Values]]

LEMMA DataCellIsACell ==
  ASSUME PipelineTypeOK, NEW c \in Cores
  PROVE  DataCell(c) \in Cells
  BY DataAddressIsAValue DEF DataCell, Cells

LEMMA AnswerIsACycle ==
  ASSUME PipelineInv, MemoriesTypeOK, NEW c \in Cores, Refused(c) \/ Answered(c)
  PROVE  \E word \in Values, accepted \in BOOLEAN :
           /\ Cycles(c, word) /\ Watch(c, accepted)
           /\ accepted = ~memoryStall'[c]
<1>1. dmem[c][DataCell(c)] \in Values
  BY DataCellIsACell DEF PipelineInv, MemoriesTypeOK
<1>2. CASE Refused(c)
  <2>1. memoryStall'[c] = TRUE
    BY <1>2 DEF Refused, CycleStalls, Execute, PipelineInv, PipelineTypeOK
  <2> QED
    BY <1>1, <1>2, <2>1 DEF Refused, Cycles
<1>3. CASE Answered(c)
  <2>1. memoryStall'[c] = FALSE
    BY <1>3 DEF Answered, CycleBubbles, CycleMoves, Execute, PipelineInv, PipelineTypeOK
  <2> QED
    BY <1>1, <1>3, <2>1 DEF Answered, Cycles
<1> QED
  BY <1>2, <1>3

LEMMA SoloStepKeeps ==
  ASSUME PipelineInv, MemoriesTypeOK, [SoloNext]_soloVars
  PROVE  PipelineInv' /\ MemoriesTypeOK'
<1>1. CASE UNCHANGED soloVars
  <2>1. PipelineTypeOK' /\ \A o \in Cores : InstructionsInOrder(o)'
    BY <1>1, OtherCoreInOrder
       DEF PipelineInv, PipelineTypeOK, soloVars, pipelineVars, coreVars, watchVars
  <2> QED
    BY <1>1, <2>1 DEF PipelineInv, MemoriesTypeOK, soloVars, watchVars
<1>2. ASSUME NEW c \in Cores, Refused(c) \/ Answered(c)
      PROVE  PipelineInv' /\ MemoriesTypeOK'
  <2>1. PipelineInv'
    BY <1>2, AnswerIsACycle, CycleKeepsPipelineInv
  <2>2. DataCell(c) \in Cells /\ DataWord(c) \in Values
    BY DataCellIsACell, DataAddressIsAValue DEF PipelineInv
  <2>3. MemoriesTypeOK'
    <3>1. DataStored(c) \in [Cells -> Values]
      BY <2>2 DEF DataStored, MemoriesTypeOK
    <3> QED
      BY <1>2, <3>1 DEF Refused, Answered, MemoriesTypeOK
  <2> QED
    BY <2>1, <2>3
<1>3. ASSUME NEW c \in Cores,
             (Crashes(c) \/ CoreHalts(c) \/ UNCHANGED pipelineVars),
             UNCHANGED <<watchVars, dmem>>
      PROVE  PipelineInv' /\ MemoriesTypeOK'
  BY <1>3, StopKeepsPipelineInv DEF watchVars, MemoriesTypeOK
<1> QED
  BY <1>1, <1>2, <1>3 DEF SoloNext, Proceeds, SoloRests, soloVars, Rests

\* A core that calls a null function pointer has strayed.
LEMMA CrashingHasStrayed ==
  ASSUME PipelineInv, NEW c \in Cores, CallsNull(c)
  PROVE  strayed[c]
<1>1. /\ Full(c, "execute") /\ stage[c]["execute"].operation = "null"
      /\ stage[c]["execute"].ins.op # "halt"
  BY DEF CallsNull, Computes, AluOps
<1> QED
  BY <1>1 DEF PipelineInv, InstructionsInOrder, Following, ExecuteIsDecoded

\* A core that has strayed once is not brought back.
LEMMA StrayedForGood ==
  ASSUME PipelineInv, NEW c \in Cores, NEW o \in Cores, NEW accepted \in BOOLEAN,
         Watch(c, accepted), strayed[o]
  PROVE  strayed'[o]
  BY WatchSees DEF PipelineInv

LEMMA SoloStepKeepsCrashes ==
  ASSUME PipelineInv, MemoriesTypeOK, CrashesOnlyStrayed, [SoloNext]_soloVars
  PROVE  CrashesOnlyStrayed'
<1>1. CASE \E c \in Cores : Crashes(c) /\ UNCHANGED watchVars
  BY <1>1, CrashingHasStrayed DEF Crashes, CrashesOnlyStrayed, watchVars
<1>2. ASSUME NEW c \in Cores, Refused(c) \/ Answered(c)
      PROVE  CrashesOnlyStrayed'
  <2>1. crashed' = crashed
    BY <1>2 DEF Refused, Answered, CycleStalls, CycleBubbles, CycleMoves, Execute
  <2>2. \A o \in Cores : strayed[o] => strayed'[o]
    BY <1>2, AnswerIsACycle, StrayedForGood
  <2> QED
    BY <2>1, <2>2 DEF CrashesOnlyStrayed
<1>3. CASE UNCHANGED <<crashed, strayed>>
  BY <1>3 DEF CrashesOnlyStrayed
<1>4. \/ \E c \in Cores : Crashes(c) /\ UNCHANGED watchVars
      \/ \E c \in Cores : Refused(c) \/ Answered(c)
      \/ UNCHANGED <<crashed, strayed>>
  BY DEF SoloNext, Proceeds, SoloRests, soloVars, pipelineVars, watchVars, CoreHalts
<1> QED
  BY <1>1, <1>2, <1>3, <1>4

(***************************************************************************)
(* The stages hold what they should in every reachable state.              *)
(***************************************************************************)
THEOREM PipelineInductive == SoloSpec => [](PipelineInv /\ MemoriesTypeOK)
<1>1. SoloInit => PipelineInv /\ MemoriesTypeOK
  BY InitPipelineInv, DataIsAMemory DEF SoloInit, MemoriesTypeOK
<1>2. PipelineInv /\ MemoriesTypeOK /\ [SoloNext]_soloVars
        => (PipelineInv /\ MemoriesTypeOK)'
  BY SoloStepKeeps
<1> QED
  BY <1>1, <1>2, PTL DEF SoloSpec

(***************************************************************************)
(* Every register, immediate, result and program counter stays in its      *)
(* width, whatever the program.                                            *)
(***************************************************************************)
THEOREM PipelineTyped == SoloSpec => []PipelineTypeOK
<1>1. PipelineInv => PipelineTypeOK
  BY DEF PipelineInv
<1> QED
  BY <1>1, PipelineInductive, PTL

(***************************************************************************)
(* No null function pointer is called but by a core that has strayed.      *)
(***************************************************************************)
THEOREM CrashesOnlyAlways == SoloSpec => []CrashesOnlyStrayed
<1>1. SoloInit => CrashesOnlyStrayed
  BY DEF SoloInit, PipelineInit, CrashesOnlyStrayed
<1>2. PipelineInv /\ MemoriesTypeOK /\ CrashesOnlyStrayed /\ [SoloNext]_soloVars
        => CrashesOnlyStrayed'
  BY SoloStepKeepsCrashes
<1> QED
  BY <1>1, <1>2, PipelineInductive, PTL DEF SoloSpec

(***************************************************************************)
(* An access the cache has refused is offered again unchanged, unless the  *)
(* core has read a stale register.                                         *)
(***************************************************************************)
THEOREM RefusedAlwaysRetried == SoloSpec => RetriesSameAccess
<1> DEFINE Retried == \A c \in Cores :
                        memoryStall'[c] =>
                          RequestedAccess(c)' = RequestedAccess(c) \/ strayed'[c]
<1>1. ASSUME PipelineInv, MemoriesTypeOK, [SoloNext]_soloVars
      PROVE  [Retried]_soloVars
  <2>1. SUFFICES ASSUME NEW c \in Cores, memoryStall'[c], ~strayed'[c],
                        \E o \in Cores : Refused(o) \/ Proceeds(o) \/ SoloRests(o)
                 PROVE  RequestedAccess(c)' = RequestedAccess(c)
    BY <1>1 DEF SoloNext
  <2>2. ASSUME stage'[c] = stage[c], regs'[c] = regs[c]
        PROVE  RequestedAccess(c)' = RequestedAccess(c)
    BY <2>2 DEF RequestedAccess, DataAddress, DataWord, Operand
  <2>3. PICK o \in Cores : Refused(o) \/ Proceeds(o) \/ SoloRests(o)
    BY <2>1
  <2>4. CASE Refused(o) \/ Answered(o)
    <3>1. PICK word \in Values, accepted \in BOOLEAN :
            /\ Cycles(o, word) /\ Watch(o, accepted)
            /\ accepted = ~memoryStall'[o]
      BY <1>1, <2>4, AnswerIsACycle
    <3>2. CASE o # c
      BY <1>1, <2>2, <3>1, <3>2, CycleLeavesOthers DEF PipelineInv
    <3>3. CASE o = c
      <4>1. CycleStalls(c)
        BY <1>1, <2>1, <3>1, <3>3
           DEF Cycles, CycleBubbles, CycleMoves, Execute, PipelineInv, PipelineTypeOK
      <4>2. ~strayed[c] /\ ~ReadsStale(c)
        BY <1>1, <2>1, <3>1, <3>3, WatchSees DEF PipelineInv
      <4> QED
        BY <1>1, <4>1, <4>2, RefusedStaysSame DEF PipelineInv, InstructionsInOrder
    <3> QED
      BY <3>2, <3>3
  <2>5. CASE Crashes(o) \/ CoreHalts(o) \/ SoloRests(o)
    <3>1. stage' = stage /\ regs' = regs
      BY <2>5 DEF Crashes, CoreHalts, SoloRests, soloVars, pipelineVars, coreVars
    <3> QED
      BY <2>2, <3>1
  <2> QED
    BY <2>3, <2>4, <2>5 DEF Proceeds
<1>2. [][Retried]_soloVars => RetriesSameAccess
  BY DEF RetriesSameAccess
<1> QED
  BY <1>1, <1>2, PipelineInductive, PTL DEF SoloSpec
=============================================================================
