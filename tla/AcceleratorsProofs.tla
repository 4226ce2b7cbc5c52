------------------------- MODULE AcceleratorsProofs -------------------------
(* Proofs about the accelerators.  P210Fft: the registers, the line and    *)
(* the counters stay coherent, a job writes its output buffer only, and    *)
(* the device implements AcceleratorContract.  P210Rtl: the registers stay *)
(* coherent, and the condition under which it implements the contract.     *)
EXTENDS MCAccelerators, FiniteSetTheorems, TLAPS

(***************************************************************************)
(* Arithmetic of the job's buffers.                                        *)
(***************************************************************************)

\* A product of natural numbers is one.
LEMMA ProductNat ==
    ASSUME NEW a \in Nat, NEW b \in Nat PROVE a * b \in Nat
BY SMT

\* Item w of row k of a table of rows of p items.
LEMMA RowInside ==
    ASSUME NEW k \in Nat, NEW rows \in Nat, k < rows, NEW p \in Nat \ {0},
           NEW w \in Int, k * p <= w, w < k * p + p
    PROVE  /\ w \in 0 .. rows * p - 1
           /\ w \div p = k
           /\ w % p \in 0 .. p - 1
<1>1. k * p \in Nat /\ rows * p \in Nat /\ (rows - k - 1) * p \in Nat
    BY ProductNat
<1>2. rows * p = k * p + p + (rows - k - 1) * p
    BY SMT
<1>3. w \in 0 .. rows * p - 1
    BY <1>1, <1>2
<1>4. PICK r \in 0 .. p - 1 : w = k * p + r
    <2>1. w - k * p \in 0 .. p - 1 /\ w = k * p + (w - k * p)
        BY <1>1
    <2> QED
        BY <2>1
<1>5. w \div p = k /\ w % p = r
    BY <1>4, SMTT(30)
<1> QED
    BY <1>3, <1>4, <1>5

\* Sample s of channel c of a block of p samples.
LEMMA SampleInside ==
    ASSUME NEW p \in Nat, NEW channels \in Nat, NEW s \in 0 .. p - 1,
           NEW c \in 0 .. channels - 1
    PROVE  s * channels + c \in 0 .. p * channels - 1
<1>1. s * channels \in Nat /\ (p - s - 1) * channels \in Nat /\ p * channels \in Nat
    BY ProductNat
<1>2. p * channels = s * channels + channels + (p - s - 1) * channels
    BY SMT
<1> QED
    BY <1>1, <1>2

\* Buffers of whole words overlap as words when they do as bytes.
LEMMA WordsDisjoint ==
    ASSUME NEW a \in Nat, NEW b \in Nat, NEW c \in Nat, NEW d \in Nat,
           a % 4 = 0, b % 4 = 0, c % 4 = 0, d % 4 = 0, ~(a < c + d /\ c < a + b),
           NEW w \in c \div 4 .. c \div 4 + d \div 4 - 1
    PROVE  w \notin a \div 4 .. a \div 4 + b \div 4 - 1
<1>1. /\ a = 4 * (a \div 4) /\ b = 4 * (b \div 4)
      /\ c = 4 * (c \div 4) /\ d = 4 * (d \div 4)
    BY SMT
<1> QED
    BY <1>1

(***************************************************************************)
(* A job that passes the checks.                                           *)
(***************************************************************************)

\* What p210_fft_validate has established when it returns no error.
LEMMA Validated ==
    ASSUME NEW f, Verdict(f) = "NONE"
    PROVE  /\ f.log2n \in MinLog2N .. MaxLog2N
           /\ f.channels \in 1 .. MaxChannels
           /\ f.mask # {} /\ f.mask \subseteq 0 .. f.channels - 1
           /\ f.input % WordBytes = 0 /\ f.output % WordBytes = 0
           /\ f.inputBytes = InputSize(f) /\ f.outputBytes = OutputSize(f)
           /\ ~Overlaps(f)
<1>1. \A i \in 1 .. 6 : Checks(f)[i][1] # "NONE"
    BY DEF Checks
<1>2. DOMAIN Checks(f) = 1 .. 6
    BY DEF Checks
<1>3. Failing(f) = {}
    <2>1. SUFFICES ASSUME Failing(f) # {} PROVE FALSE
        OBVIOUS
    <2>2. Failing(f) \subseteq 1 .. 6
        BY <1>2 DEF Failing
    <2>3. \E i \in Failing(f) : \A j \in Failing(f) : i <= j
        BY <2>1, <2>2, SMT
    <2>4. PICK i \in Failing(f) : Verdict(f) = Checks(f)[i][1]
        BY <2>1, <2>3 DEF Verdict
    <2> QED
        BY <1>1, <2>2, <2>4
<1>4. \A i \in 1 .. 6 : ~Checks(f)[i][2]
    BY <1>2, <1>3 DEF Failing
<1>5. /\ ~Checks(f)[1][2] /\ ~Checks(f)[2][2] /\ ~Checks(f)[3][2]
      /\ ~Checks(f)[4][2] /\ ~Checks(f)[6][2]
    BY <1>4
<1>6. f.log2n \in MinLog2N .. MaxLog2N
    BY <1>5 DEF Checks
<1>7. f.channels \in 1 .. MaxChannels /\ f.mask # {} /\ f.mask \subseteq 0 .. f.channels - 1
    BY <1>5, Zenon DEF Checks
<1>8. f.input % WordBytes = 0 /\ f.output % WordBytes = 0
    BY <1>5, Zenon DEF Checks
<1>9. f.inputBytes = InputSize(f) /\ f.outputBytes = OutputSize(f)
    BY <1>5, Zenon DEF Checks
<1>10. ~Overlaps(f)
    BY <1>5, Zenon DEF Checks
<1> QED
    BY <1>6, <1>7, <1>8, <1>9, <1>10

\* The quantities of a job that passes.
LEMMA JobNumbers ==
    ASSUME NEW f \in Files, Verdict(f) = "NONE"
    PROVE  /\ Points(f) \in Nat \ {0} /\ f.channels \in Nat \ {0}
           /\ IsFiniteSet(f.mask) /\ Cardinality(f.mask) \in Nat \ {0}
           /\ BinCount(f) \in Nat \ {0}
           /\ f.input \in Nat /\ f.output \in Nat
           /\ f.inputBytes \in Nat /\ f.inputBytes \div WordBytes = Points(f) * f.channels
           /\ f.outputBytes \in Nat /\ f.outputBytes \div WordBytes = BinCount(f)
           /\ f.inputBytes % WordBytes = 0 /\ f.outputBytes % WordBytes = 0
<1> USE FftAssumption
<1>1. f \in Registers
    OBVIOUS
<1>2. /\ f.channels \in Nat /\ f.input \in Nat /\ f.output \in Nat
      /\ f.inputBytes \in Nat /\ f.outputBytes \in Nat
    BY <1>1 DEF Registers
<1>3. f.channels \in 1 .. MaxChannels /\ f.mask # {}
    BY Validated
<1>4. Points(f) \in Nat \ {0} /\ IsFiniteSet(f.mask)
    BY DEF Points
<1>5. Cardinality(f.mask) \in Nat \ {0}
    BY <1>3, <1>4, FS_CardinalityType, FS_EmptySet
<1>6. BinCount(f) \in Nat \ {0}
    <2> DEFINE p == Points(f)
               m == Cardinality(f.mask)
    <2>1. p \in Nat \ {0} /\ m \in Nat \ {0} /\ BinCount(f) = p * m
        BY <1>4, <1>5 DEF BinCount
    <2> HIDE DEF p, m
    <2>2. p * m = (p - 1) * (m - 1) + (p - 1) + (m - 1) + 1
        BY <2>1
    <2>3. (p - 1) * (m - 1) \in Nat
        BY <2>1, ProductNat
    <2> QED
        BY <2>1, <2>2, <2>3
<1>7. f.inputBytes = Points(f) * f.channels * 4 /\ f.outputBytes = BinCount(f) * 4
    BY Validated DEF InputSize, OutputSize, WordBytes
<1>8. Points(f) * f.channels \in Nat
    BY <1>2, <1>4, ProductNat
<1>9. \A n \in Nat : (n * 4) \div 4 = n /\ (n * 4) % 4 = 0
    BY SMT
<1>10. /\ f.inputBytes \div WordBytes = Points(f) * f.channels
       /\ f.inputBytes % WordBytes = 0
    BY <1>7, <1>8, <1>9 DEF WordBytes
<1>11. /\ f.outputBytes \div WordBytes = BinCount(f)
       /\ f.outputBytes % WordBytes = 0
    BY <1>6, <1>7, <1>9 DEF WordBytes
<1> QED
    BY <1>2, <1>3, <1>4, <1>5, <1>6, <1>10, <1>11

\* The place of a selected channel's spectrum.
LEMMA PlaceInside ==
    ASSUME NEW mask, IsFiniteSet(mask), mask \subseteq Nat, NEW f, f.mask = mask,
           NEW c \in mask
    PROVE  Place(f, c) \in Nat /\ Place(f, c) < Cardinality(mask)
<1> DEFINE below == {d \in f.mask : d < c}
<1>1. below \in SUBSET mask /\ c \notin below /\ below # mask
    BY SMT
<1>2. IsFiniteSet(below) /\ Cardinality(below) <= Cardinality(mask)
      /\ Cardinality(below) # Cardinality(mask)
    BY <1>1, FS_Subset
<1>3. Cardinality(below) \in Nat /\ Cardinality(mask) \in Nat
    BY <1>2, FS_CardinalityType
<1>4. Place(f, c) = Cardinality(below)
    BY DEF Place
<1> HIDE DEF below
<1> QED
    BY <1>2, <1>3, <1>4

\* The transform computes BinCount words, and each is one.
LEMMA SpectraShape ==
    ASSUME NEW f \in Files, Verdict(f) = "NONE", NEW m \in [Ram -> Words],
           InputWords(f) \subseteq Ram, NEW w \in DOMAIN Spectra(f, m)
    PROVE  w \in 0 .. BinCount(f) - 1 /\ Spectra(f, m)[w] \in Words
<1> DEFINE p == Points(f)
           rows == Cardinality(f.mask)
           bin(c) == Power(Samples(f, m, c), w % p)
<1>1. /\ p \in Nat \ {0} /\ rows \in Nat \ {0} /\ f.channels \in Nat \ {0}
      /\ IsFiniteSet(f.mask)
    BY JobNumbers
<1>2. f.mask \subseteq 0 .. f.channels - 1
    BY Validated
<1>3. \A c \in f.mask : Place(f, c) \in Nat /\ Place(f, c) < rows
    BY <1>1, <1>2, PlaceInside
<1>4. PICK c0 \in f.mask : w \in Memory!Span(Place(f, c0) * p, p)
    BY DEF Spectra
<1>5. /\ w \in Int /\ Place(f, c0) * p <= w /\ w < Place(f, c0) * p + p
    <2>1. Place(f, c0) * p \in Nat
        BY <1>1, <1>3, ProductNat
    <2> QED
        BY <1>1, <1>4, <2>1 DEF Memory!Span
<1>6. /\ w \in 0 .. rows * p - 1 /\ w \div p = Place(f, c0) /\ w % p \in 0 .. p - 1
    BY <1>1, <1>3, <1>5, RowInside
<1>7. rows * p = BinCount(f)
    BY <1>1 DEF BinCount
<1>8. PICK c \in f.mask : Spectra(f, m)[w] = bin(c)
    <2>1. \E c \in f.mask : Place(f, c) = w \div p
        BY <1>6
    <2> QED
        BY <2>1 DEF Spectra
<1>9. Samples(f, m, c) \in [0 .. 2 ^ f.log2n - 1 -> Words]
    <2>1. SUFFICES ASSUME NEW s \in 0 .. p - 1
                   PROVE  m[f.input \div WordBytes + s * f.channels + c] \in Words
        BY DEF Samples, Points
    <2>2. s * f.channels + c \in 0 .. p * f.channels - 1
        BY <1>1, <1>2, SampleInside
    <2>3. f.input \div WordBytes \in Nat
        BY JobNumbers, SMT DEF WordBytes
    <2>4. s * f.channels \in Nat /\ c \in Nat /\ p * f.channels \in Nat
        BY <1>1, <1>2, ProductNat
    <2>5. f.input \div WordBytes + s * f.channels + c \in InputWords(f)
        <3> DEFINE base == f.input \div WordBytes
                   row == s * f.channels
                   size == p * f.channels
        <3>1. InputWords(f) = base .. base + size - 1
            BY JobNumbers DEF InputWords, Memory!Span
        <3>2. base \in Nat /\ row \in Nat /\ size \in Nat /\ row + c \in 0 .. size - 1
            BY <2>2, <2>3, <2>4
        <3> HIDE DEF base, row, size
        <3>3. base + row + c \in base .. base + size - 1
            BY <2>4, <3>2
        <3> QED
            BY <3>1, <3>3 DEF base, row
    <2> QED
        BY <2>5
<1>10. bin(c) \in Words
    BY <1>6, <1>9, Validated, FftAssumption DEF Points
<1> QED
    BY <1>6, <1>7, <1>8, <1>10

\* A job changes words of its output buffer only, and none of its input.
LEMMA JobWritesOutput ==
    ASSUME NEW f \in Files, Verdict(f) = "NONE", NEW m \in [Ram -> Words],
           InputWords(f) \subseteq Ram
    PROVE  /\ Job(f, m) \in [Ram -> Words]
           /\ \A a \in Ram : Job(f, m)[a] # m[a] => a \in OutputWords(f) \ InputWords(f)
<1> DEFINE base == f.output \div WordBytes
<1>1. base \in Nat
    BY JobNumbers, SMT DEF WordBytes
<1>2. Job(f, m) = [w \in Ram |-> IF w - base \in DOMAIN Spectra(f, m)
                                THEN Spectra(f, m)[w - base] ELSE m[w]]
    BY DEF Job, Memory!Stored
<1>3. Job(f, m) \in [Ram -> Words]
    <2>1. \A w \in DOMAIN Spectra(f, m) : Spectra(f, m)[w] \in Words
        BY SpectraShape
    <2> QED
        BY <1>2, <2>1, Zenon
<1>4. ASSUME NEW a \in Ram, Job(f, m)[a] # m[a] PROVE a \in OutputWords(f) \ InputWords(f)
    <2>1. a - base \in DOMAIN Spectra(f, m)
        BY <1>2, <1>4
    <2>2. a - base \in 0 .. BinCount(f) - 1
        BY <2>1, SpectraShape
    <2>3. a \in base .. base + BinCount(f) - 1
        BY <1>1, <2>2, JobNumbers, FftAssumption
    <2>4. a \in OutputWords(f)
        BY <2>3, JobNumbers DEF OutputWords, Memory!Span
    <2>5. a \notin InputWords(f)
        <3>1. ~(f.input < f.output + f.outputBytes /\ f.output < f.input + f.inputBytes)
            BY Validated DEF Overlaps
        <3>2. f.input % 4 = 0 /\ f.output % 4 = 0
            BY Validated DEF WordBytes
        <3>3. f.inputBytes % 4 = 0 /\ f.outputBytes % 4 = 0
            BY JobNumbers DEF WordBytes
        <3>4. f.input \in Nat /\ f.output \in Nat /\ f.inputBytes \in Nat /\ f.outputBytes \in Nat
            BY JobNumbers
        <3>5. a \in f.output \div 4 .. f.output \div 4 + f.outputBytes \div 4 - 1
            BY <2>4 DEF OutputWords, Memory!Span, WordBytes
        <3>6. a \notin f.input \div 4 .. f.input \div 4 + f.inputBytes \div 4 - 1
            BY <3>1, <3>2, <3>3, <3>4, <3>5, WordsDisjoint
        <3> QED
            BY <3>6 DEF InputWords, Memory!Span, WordBytes
    <2> QED
        BY <2>4, <2>5
<1> QED
    BY <1>3, <1>4

(***************************************************************************)
(* The inductive invariant.                                                *)
(***************************************************************************)

IInv ==
    /\ TypeOK
    /\ LineFollowsStatus
    /\ EveryStartCounted
    /\ StatusCoherent
    /\ BinsNameLatestStart

\* STATUS shows a pending interrupt when the level says so.
LEMMA PendingIsLevel ==
    ASSUME TypeOK
    PROVE  LineFollowsStatus <=> line = Level(status, irqEnable)
<1>1. "IRQ_PENDING" \notin status
    BY DEF TypeOK, Causes
<1>2. "IRQ_PENDING" \in StatusRead <=> Level(status, irqEnable)
    BY <1>1 DEF StatusRead
<1>3. line \in BOOLEAN /\ Level(status, irqEnable) \in BOOLEAN
    BY DEF TypeOK, Level
<1> QED
    BY <1>2, <1>3, Zenon DEF LineFollowsStatus

LEMMA InitIInv == Init => IInv
<1> SUFFICES ASSUME Init PROVE IInv
    OBVIOUS
<1>1. TypeOK
    <2>1. mem \in [Ram -> Words]
        BY FftAssumption DEF Init
    <2> QED
        BY <2>1, FftAssumption DEF Init, TypeOK, Causes, Errors
<1>2. line = Level(status, irqEnable)
    BY DEF Init, Level
<1> QED
    BY <1>1, <1>2, PendingIsLevel
    DEF IInv, Init, EveryStartCounted, StatusCoherent, BinsNameLatestStart, Causes

\* An answer to a start of either kind is coherent.
LEMMA FailedKeeps ==
    ASSUME IInv, Begin, NEW error \in Errors \ {"NONE"}, FinishFailed(error),
           mem' \in [Ram -> Words]
    PROVE  IInv'
<1> USE DEF IInv
<1>1. TypeOK'
    BY FftAssumption DEF TypeOK, Begin, FinishFailed, Causes, Registers
<1>2. (line = Level(status, irqEnable))'
    BY <1>1 DEF Begin, FinishFailed, Level, TypeOK
<1>3. LineFollowsStatus'
    BY <1>1, <1>2, PendingIsLevel, PTL
<1>4. (EveryStartCounted /\ StatusCoherent /\ BinsNameLatestStart)'
    BY DEF TypeOK, Begin, FinishFailed, EveryStartCounted, StatusCoherent,
           BinsNameLatestStart, Causes
<1> QED
    BY <1>1, <1>3, <1>4

LEMMA DoneKeeps ==
    ASSUME IInv, Begin, Verdict(regs) = "NONE", FinishDone, mem' \in [Ram -> Words]
    PROVE  IInv'
<1> USE DEF IInv
<1>1. regs \in Files /\ BinCount(regs) \in Nat \ {0} /\ regs.sequence \in Nat
    BY JobNumbers, FftAssumption DEF TypeOK, Registers
<1>2. TypeOK'
    BY <1>1, FftAssumption DEF TypeOK, Begin, FinishDone, Causes, Errors
<1>3. (line = Level(status, irqEnable))'
    BY <1>2 DEF Begin, FinishDone, Level, TypeOK
<1>4. LineFollowsStatus'
    BY <1>2, <1>3, PendingIsLevel, PTL
<1>5. (EveryStartCounted /\ StatusCoherent /\ BinsNameLatestStart)'
    BY <1>1 DEF TypeOK, Begin, FinishDone, EveryStartCounted, StatusCoherent,
           BinsNameLatestStart, Causes
<1> QED
    BY <1>2, <1>4, <1>5

\* Writes that start nothing.
LEMMA DriverKeeps ==
    ASSUME IInv, Program \/ WriteMemory \/ EnableIrq \/ Acknowledge \/ Migrate
    PROVE  IInv'
<1> USE DEF IInv
<1> USE DEF results, history
<1>1. CASE Program
    BY <1>1 DEF Program, TypeOK, LineFollowsStatus, StatusRead, Level,
        EveryStartCounted, StatusCoherent, BinsNameLatestStart
<1>2. CASE WriteMemory
    <2>1. mem' \in [Ram -> Words]
        BY <1>2, FftAssumption DEF WriteMemory, TypeOK
    <2> QED
        BY <1>2, <2>1 DEF WriteMemory, TypeOK, LineFollowsStatus, StatusRead, Level,
            EveryStartCounted, StatusCoherent, BinsNameLatestStart
<1>3. CASE EnableIrq
    <2>1. TypeOK' /\ (line = Level(status, irqEnable))'
        BY <1>3, Zenon DEF EnableIrq, TypeOK, Level
    <2>2. (EveryStartCounted /\ StatusCoherent /\ BinsNameLatestStart)'
        BY <1>3 DEF EnableIrq, EveryStartCounted, StatusCoherent, BinsNameLatestStart
    <2>3. LineFollowsStatus'
        BY <2>1, PendingIsLevel, PTL
    <2> QED
        BY <2>1, <2>2, <2>3
<1>4. CASE Acknowledge
    <2>1. status' \subseteq status
        BY <1>4 DEF Acknowledge
    <2>2. TypeOK' /\ (line = Level(status, irqEnable))'
        BY <1>4, <2>1, Zenon DEF Acknowledge, TypeOK, Level
    <2>3. (EveryStartCounted /\ StatusCoherent /\ BinsNameLatestStart)'
        BY <1>4, <2>1 DEF Acknowledge, TypeOK, EveryStartCounted, StatusCoherent,
            BinsNameLatestStart
    <2> QED
        BY <2>2, <2>3, PendingIsLevel, PTL
<1>5. CASE Migrate
    <2>1. TypeOK' /\ (line = Level(status, irqEnable))'
        BY <1>5, Zenon DEF Migrate, LoadedLine, TypeOK, Level
    <2>2. (EveryStartCounted /\ StatusCoherent /\ BinsNameLatestStart)'
        BY <1>5 DEF Migrate, EveryStartCounted, StatusCoherent, BinsNameLatestStart
    <2>3. LineFollowsStatus'
        BY <2>1, PendingIsLevel, PTL
    <2> QED
        BY <2>1, <2>2, <2>3
<1> QED
    BY <1>1, <1>2, <1>3, <1>4, <1>5

\* The steps that answer a start, with what they do to the memory.
LEMMA RejectAnswers ==
    ASSUME Reject
    PROVE  \E error \in Errors \ {"NONE"} : FinishFailed(error) /\ mem' = mem
<1>1. Verdict(regs) \in Errors
    <2>1. \A i \in 1 .. 6 : Checks(regs)[i][1] \in Errors
        BY DEF Checks, Errors
    <2>2. Failing(regs) \subseteq 1 .. 6
        <3>1. DOMAIN Checks(regs) = 1 .. 6
            BY DEF Checks
        <3> QED
            BY <3>1 DEF Failing
    <2>3. Failing(regs) # {} => \E i \in Failing(regs) : \A j \in Failing(regs) : i <= j
        BY <2>2, SMT
    <2>4. Verdict(regs) = "NONE" \/ \E i \in Failing(regs) : Verdict(regs) = Checks(regs)[i][1]
        BY <2>3 DEF Verdict
    <2> QED
        BY <2>1, <2>2, <2>4 DEF Errors
<1> QED
    BY <1>1 DEF Reject

LEMMA NextKeeps == IInv /\ [Next]_vars => IInv'
<1> SUFFICES ASSUME IInv, [Next]_vars PROVE IInv'
    OBVIOUS
<1>1. mem \in [Ram -> Words] /\ regs \in Files
    BY DEF IInv, TypeOK
<1>2. CASE Program \/ WriteMemory \/ EnableIrq \/ Acknowledge \/ Migrate
    BY <1>2, DriverKeeps
<1>3. CASE Reset
    <2>1. TypeOK' /\ (line = Level(status, irqEnable))'
        BY <1>1, <1>3, FftAssumption DEF Reset, TypeOK, Causes, Errors, Level
    <2>2. LineFollowsStatus'
        BY <2>1, PendingIsLevel, PTL
    <2>3. (EveryStartCounted /\ StatusCoherent /\ BinsNameLatestStart)'
        BY <1>3 DEF Reset, EveryStartCounted, StatusCoherent, BinsNameLatestStart, Causes
    <2> QED
        BY <2>1, <2>2, <2>3 DEF IInv
<1>4. CASE Reject
    BY <1>1, <1>4, RejectAnswers, FailedKeeps DEF Reject
<1>5. CASE FailAllocation
    BY <1>1, <1>5, FailedKeeps DEF FailAllocation, Errors
<1>6. CASE FailRead
    BY <1>1, <1>6, FailedKeeps DEF FailRead, Errors
<1>7. CASE Transform
    <2>1. mem' \in [Ram -> Words]
        BY <1>1, <1>7, JobWritesOutput DEF Transform
    <2>2. CASE OutputWords(regs) \subseteq Ram
        BY <1>7, <2>1, <2>2, DoneKeeps DEF Transform
    <2>3. CASE ~(OutputWords(regs) \subseteq Ram)
        BY <1>7, <2>1, <2>3, FailedKeeps DEF Transform, Errors
    <2> QED
        BY <2>2, <2>3
<1>8. CASE UNCHANGED vars
    BY <1>8 DEF vars, results, history, IInv, TypeOK, LineFollowsStatus, StatusRead, Level,
        EveryStartCounted, StatusCoherent, BinsNameLatestStart
<1> QED
    BY <1>2, <1>3, <1>4, <1>5, <1>6, <1>7, <1>8 DEF Next

\* The inductive invariant holds in every reachable state.
THEOREM FftInvariant == Spec => []IInv
BY InitIInv, NextKeeps, PTL DEF Spec

\* The registers keep their types.
THEOREM FftTypes == Spec => []TypeOK
<1>1. IInv => TypeOK
    BY DEF IInv
<1> QED
    BY <1>1, FftInvariant, PTL

\* The interrupt line and the STATUS that a handler reads agree in every state.
THEOREM FftLine == Spec => []LineFollowsStatus
<1>1. IInv => LineFollowsStatus
    BY DEF IInv
<1> QED
    BY <1>1, FftInvariant, PTL

\* Whatever is started, acknowledged, reset or migrated, each start is counted
\* once, DONE and ERROR exclude each other and describe the latest start.
THEOREM FftAnswers == Spec => [](EveryStartCounted /\ StatusCoherent /\ BinsNameLatestStart)
<1>1. IInv => EveryStartCounted /\ StatusCoherent /\ BinsNameLatestStart
    BY DEF IInv
<1> QED
    BY <1>1, FftInvariant, PTL

(***************************************************************************)
(* The memory and the contract.                                            *)
(***************************************************************************)

\* A start has one of two outcomes.
LEMMA StartOutcome ==
    ASSUME IInv, [Next]_vars, starts' # starts, ~Reset
    PROVE  /\ Begin
           /\ \/ /\ \E error \in Errors \ {"NONE"} : FinishFailed(error)
                 /\ \A a \in Ram : mem'[a] # mem[a] => a \in OutputWords(regs) \ InputWords(regs)
              \/ /\ FinishDone /\ mem' = Job(regs, mem)
                 /\ \A a \in Ram : mem'[a] # mem[a] => a \in OutputWords(regs) \ InputWords(regs)
<1>1. mem \in [Ram -> Words] /\ regs \in Files
    BY DEF IInv, TypeOK
<1>2. Reject \/ FailAllocation \/ FailRead \/ Transform
    BY DEF Next, vars, history, Program, WriteMemory, EnableIrq, Acknowledge, Migrate
<1>3. CASE Reject
    BY <1>3, RejectAnswers DEF Reject
<1>4. CASE FailAllocation
    BY <1>4 DEF FailAllocation, Errors
<1>5. CASE FailRead
    BY <1>5 DEF FailRead, Errors
<1>6. CASE Transform
    <2>1. \A a \in Ram : mem'[a] # mem[a] => a \in OutputWords(regs) \ InputWords(regs)
        BY <1>1, <1>6, JobWritesOutput DEF Transform
    <2>2. Begin /\ mem' = Job(regs, mem)
        BY <1>6 DEF Transform
    <2>3. FinishDone \/ FinishFailed("DMA_WRITE")
        BY <1>6 DEF Transform
    <2> QED
        BY <2>1, <2>2, <2>3 DEF Errors
<1> QED
    BY <1>2, <1>3, <1>4, <1>5, <1>6

\* No job, also one whose DMA write fails halfway, touches its own input or
\* anything else outside its output buffer.
THEOREM FftMemory == Spec => InputSurvives
<1>1. ASSUME IInv, [Next]_vars
      PROVE  [starts' > starts =>
                \A a \in Ram : mem'[a] # mem[a] =>
                    a \in OutputWords(regs) \ InputWords(regs)]_vars
    <2> SUFFICES ASSUME starts' > starts
                 PROVE  \A a \in Ram : mem'[a] # mem[a] =>
                            a \in OutputWords(regs) \ InputWords(regs)
        OBVIOUS
    <2>1. starts' # starts /\ ~Reset
        <3>1. IInv'
            BY <1>1, NextKeeps
        <3> QED
            BY <1>1, <3>1 DEF IInv, TypeOK, Reset
    <2> QED
        BY <1>1, <2>1, StartOutcome
<1> QED
    BY <1>1, FftInvariant, PTL DEF Spec, InputSurvives

\* Steps that start nothing are the driver's side of the contract.
LEMMA QuietStep ==
    ASSUME IInv, Program \/ WriteMemory \/ EnableIrq \/ Migrate \/ UNCHANGED vars
    PROVE  Contract!Prepare
BY DEF Program, WriteMemory, EnableIrq, Migrate, vars, results, history,
    Contract!Prepare, Said

\* Every step of the accelerator is a step of the contract.
LEMMA StepShown ==
    ASSUME IInv, [Next]_vars PROVE [Contract!Next]_(Contract!contractVars)
<1>1. CASE Program \/ WriteMemory \/ EnableIrq \/ Migrate \/ UNCHANGED vars
    BY <1>1, QuietStep DEF Contract!Next
<1>2. CASE Acknowledge
    <2>1. status' \subseteq status /\ UNCHANGED <<regs, mem, completed, starts>>
        BY <1>2 DEF Acknowledge, results, history
    <2>2. status # Causes /\ status \subseteq Causes
        BY DEF IInv, StatusCoherent, TypeOK
    <2>3. Said' = Said \/ Said' = "idle"
        BY <2>1, <2>2 DEF Said, Causes
    <2> QED
        BY <2>1, <2>3 DEF Contract!Next, Contract!Prepare, Contract!Acknowledge
<1>3. CASE Reset
    BY <1>3 DEF Reset, Said, Contract!Next, Contract!Acknowledge
<1>4. CASE Reject \/ FailAllocation \/ FailRead \/ Transform
    <2>1. starts' = starts + 1 /\ starts \in Nat /\ regs' = regs
        BY <1>4 DEF Reject, FailAllocation, FailRead, Transform, Begin, IInv, TypeOK
    <2>2. starts' # starts /\ ~Reset
        BY <2>1 DEF Reset
    <2>3. CASE \E error \in Errors \ {"NONE"} : FinishFailed(error)
        <3>1. Said' = "failed" /\ completed' = completed
            BY <2>3 DEF FinishFailed, Said
        <3>2. \A a \in Ram : mem'[a] # mem[a] => a \in OutputWords(regs)
            BY <2>2, StartOutcome
        <3>3. DOMAIN mem = Ram
            BY DEF IInv, TypeOK
        <3> QED
            BY <2>1, <3>1, <3>2, <3>3 DEF Contract!Next, Contract!Refuse
    <2>4. CASE FinishDone /\ mem' = Job(regs, mem)
        BY <2>1, <2>4 DEF FinishDone, Said, Contract!Next, Contract!Serve
    <2> QED
        BY <2>2, <2>3, <2>4, StartOutcome
<1> QED
    BY <1>1, <1>2, <1>3, <1>4 DEF Next

\* p210_fft.c implements what a driver of an accelerator relies on.
THEOREM FftImplementsContract == Spec => ImplementsContract
<1>1. Init => Contract!Init
    BY DEF Init, Contract!Init, Said
<1> QED
    BY <1>1, StepShown, FftInvariant, PTL DEF Spec, ImplementsContract, Contract!Spec
-----------------------------------------------------------------------------
(* P210Rtl.                                                                *)

\* A block that comes to an end is idle between two starts.
IdleUnlessHangs == running => library \in Hanging

RtlIInv ==
    /\ Rtl!TypeOK
    /\ Rtl!EveryStartSignalled
    /\ Rtl!AnswerCoherent
    /\ IdleUnlessHangs

LEMMA RtlInit ==
    ASSUME Rtl!RtlAssumption, Rtl!Init
    PROVE  RtlIInv
<1>1. rtlMem \in [RtlCells -> RtlContents]
    BY DEF Rtl!RtlAssumption, Rtl!Init
<1>2. Rtl!TypeOK
    BY <1>1 DEF Rtl!RtlAssumption, Rtl!Init, Rtl!TypeOK
<1>3. Rtl!EveryStartSignalled /\ Rtl!AnswerCoherent /\ IdleUnlessHangs
    BY DEF Rtl!Init, Rtl!EveryStartSignalled, Rtl!AnswerCoherent, IdleUnlessHangs
<1> QED
    BY <1>2, <1>3 DEF RtlIInv

\* What the six ends of a start have in common.
LEMMA RtlEndKeeps ==
    ASSUME RtlIInv, Rtl!Begin, held' \in RtlContents, rtlMem' \in [RtlCells -> RtlContents],
           running' \in BOOLEAN, running' => library \in Hanging,
           \/ \E error \in {"NO_LIB", "BAD_N", "DMA", "TIMEOUT"} : Rtl!Fail(error)
           \/ /\ rtlStatus' = (rtlStatus \ {"DONE", "ERROR"}) \cup {"DONE"}
              /\ rtlError' = "NONE" /\ rtlSequence' = rtlSequence + 1
    PROVE  RtlIInv'
<1> USE DEF RtlIInv
<1>1. Rtl!TypeOK'
    <2>1. rtlStatus' \subseteq {"DONE", "ERROR"}
        BY DEF Rtl!TypeOK, Rtl!Fail
    <2>2. rtlError' \in {"NONE", "NO_LIB", "BAD_N", "DMA", "TIMEOUT"}
        BY DEF Rtl!Fail
    <2>3. rtlSequence' \in Nat
        BY DEF Rtl!TypeOK, Rtl!Fail
    <2>4. rtlStarts' \in Nat /\ pulses' \in Nat /\ UNCHANGED <<rtlRegs, library>>
        BY DEF Rtl!TypeOK, Rtl!Begin, Rtl!PulsesAfter
    <2> QED
        BY <2>1, <2>2, <2>3, <2>4 DEF Rtl!TypeOK
<1>2. Rtl!EveryStartSignalled'
    BY DEF Rtl!Begin, Rtl!PulsesAfter, Rtl!EveryStartSignalled
<1>3. Rtl!AnswerCoherent'
    BY DEF Rtl!Fail, Rtl!AnswerCoherent
<1> QED
    BY <1>1, <1>2, <1>3 DEF Rtl!Begin, IdleUnlessHangs

\* The block's samples at the start of a run are some of a block's.
LEMMA StartedTypes ==
    ASSUME RtlIInv, NEW samples \in RtlContents
    PROVE  Rtl!Started(samples) \subseteq RtlContents
BY DEF RtlIInv, Rtl!TypeOK, Rtl!Started

LEMMA RtlStartKeeps ==
    ASSUME Rtl!RtlAssumption, RtlIInv, Rtl!Start
    PROVE  RtlIInv'
<1>1. /\ held \in RtlContents /\ rtlMem \in [RtlCells -> RtlContents] /\ running \in BOOLEAN
      /\ running => library \in Hanging
    BY DEF RtlIInv, Rtl!TypeOK, IdleUnlessHangs
<1>2. CASE Rtl!NoLibrary \/ Rtl!WrongSize \/ Rtl!FailRead
    <2>1. Rtl!Begin /\ UNCHANGED <<Rtl!block, rtlMem>>
        BY <1>2 DEF Rtl!NoLibrary, Rtl!WrongSize, Rtl!FailRead
    <2>2. \E error \in {"NO_LIB", "BAD_N", "DMA", "TIMEOUT"} : Rtl!Fail(error)
        BY <1>2 DEF Rtl!NoLibrary, Rtl!WrongSize, Rtl!FailRead
    <2> QED
        BY <1>1, <2>1, <2>2, RtlEndKeeps DEF Rtl!block
<1>3. CASE Rtl!Timeout
    <2>1. rtlMem[rtlRegs.input] \in RtlContents
        BY <1>1, <1>3 DEF Rtl!Timeout
    <2>2. Rtl!Started(rtlMem[rtlRegs.input]) \subseteq RtlContents
        BY <2>1, StartedTypes
    <2> QED
        BY <1>1, <1>3, <2>2, RtlEndKeeps DEF Rtl!Timeout
<1>4. CASE Rtl!FailWrite
    <2>1. rtlMem[rtlRegs.input] \in RtlContents
        BY <1>1, <1>4 DEF Rtl!FailWrite
    <2>2. Rtl!Started(rtlMem[rtlRegs.input]) \subseteq RtlContents
        BY <2>1, StartedTypes
    <2>3. held' \in RtlContents
        BY <1>4, <2>2 DEF Rtl!RtlAssumption, Rtl!FailWrite
    <2> QED
        BY <1>1, <1>4, <2>3, RtlEndKeeps DEF Rtl!FailWrite
<1>5. CASE Rtl!Finish
    <2>1. rtlMem[rtlRegs.input] \in RtlContents
        BY <1>1, <1>5 DEF Rtl!Finish
    <2>2. Rtl!Started(rtlMem[rtlRegs.input]) \subseteq RtlContents
        BY <2>1, StartedTypes
    <2>3. held' \in RtlContents
        BY <1>5, <2>2 DEF Rtl!RtlAssumption, Rtl!Finish
    <2>4. rtlMem' \in [RtlCells -> RtlContents]
        BY <1>1, <1>5, <2>3 DEF Rtl!Finish
    <2>5. Rtl!Begin /\ running' = FALSE
        BY <1>5 DEF Rtl!Finish
    <2>6. /\ rtlStatus' = (rtlStatus \ {"DONE", "ERROR"}) \cup {"DONE"}
          /\ rtlError' = "NONE" /\ rtlSequence' = rtlSequence + 1
        BY <1>5 DEF Rtl!Finish, Rtl!ErrorOfDone
    <2> QED
        BY <2>3, <2>4, <2>5, <2>6, RtlEndKeeps
<1> QED
    BY <1>2, <1>3, <1>4, <1>5 DEF Rtl!Start

LEMMA RtlNextKeeps ==
    ASSUME Rtl!RtlAssumption, RtlIInv, [Rtl!Next]_Rtl!vars
    PROVE  RtlIInv'
<1> USE DEF RtlIInv, Rtl!TypeOK, Rtl!EveryStartSignalled, Rtl!AnswerCoherent, IdleUnlessHangs
<1>1. CASE Rtl!WriteRegisters
    BY <1>1 DEF Rtl!WriteRegisters, Rtl!answer, Rtl!block
<1>2. CASE Rtl!Load
    <2>1. PICK load \in RtlLoads : rtlMem' = [rtlMem EXCEPT ![load[1]] = load[2]]
        BY <1>2 DEF Rtl!Load
    <2>2. load[2] \in RtlContents
        BY DEF Rtl!RtlAssumption
    <2>3. rtlMem' \in [RtlCells -> RtlContents]
        BY <2>1, <2>2
    <2> QED
        BY <1>2, <2>3 DEF Rtl!Load, Rtl!answer, Rtl!block
<1>3. CASE Rtl!SoftReset \/ Rtl!DeviceReset
    <2>1. /\ rtlRegs' = RtlNoFile /\ rtlStatus' = {} /\ rtlError' = "NONE" /\ Rtl!BlockReset
          /\ rtlStarts' = 0 /\ pulses' = 0 /\ UNCHANGED <<library, rtlMem>>
          /\ rtlSequence' = rtlSequence \/ rtlSequence' = 0
        BY <1>3 DEF Rtl!SoftReset, Rtl!DeviceReset, Rtl!Reset
    <2>2. held' = held /\ running' \in BOOLEAN /\ (running' => running)
        BY <2>1, Zenon DEF Rtl!BlockReset
    <2>3. rtlSequence' \in Nat
        BY <2>1
    <2>4. Rtl!TypeOK'
        BY <2>1, <2>2, <2>3 DEF Rtl!RtlAssumption
    <2>5. Rtl!EveryStartSignalled' /\ Rtl!AnswerCoherent'
        BY <2>1
    <2>6. IdleUnlessHangs'
        BY <2>1, <2>2
    <2> QED
        BY <2>4, <2>5, <2>6
<1>4. CASE Rtl!Migrate
    <2>1. library' \in Libraries /\ running' = FALSE /\ held' = RtlBlank
        BY <1>4 DEF Rtl!Migrate, Rtl!Realize, Rtl!FreshMemory
    <2> QED
        BY <1>4, <2>1 DEF Rtl!RtlAssumption, Rtl!Migrate, Rtl!answer
<1>5. CASE UNCHANGED Rtl!vars
    BY <1>5 DEF Rtl!vars, Rtl!answer, Rtl!block
<1> QED
    BY <1>1, <1>2, <1>3, <1>4, <1>5, RtlStartKeeps DEF Rtl!Next

\* The inductive invariant holds in every reachable state.
THEOREM RtlInvariant == Rtl!RtlAssumption => (Rtl!Spec => []RtlIInv)
<1> SUFFICES ASSUME Rtl!RtlAssumption PROVE Rtl!Spec => []RtlIInv
    OBVIOUS
<1>1. Rtl!Init => RtlIInv
    BY RtlInit
<1>2. RtlIInv /\ [Rtl!Next]_Rtl!vars => RtlIInv'
    BY RtlNextKeeps
<1> QED
    BY <1>1, <1>2, PTL DEF Rtl!Spec

\* The registers, the block and the memory keep their types.
THEOREM RtlTypes == Rtl!RtlAssumption => (Rtl!Spec => []Rtl!TypeOK)
<1> SUFFICES ASSUME Rtl!RtlAssumption PROVE Rtl!Spec => []Rtl!TypeOK
    OBVIOUS
<1>1. RtlIInv => Rtl!TypeOK
    BY DEF RtlIInv
<1>2. Rtl!Spec => []RtlIInv
    BY RtlInvariant
<1> QED
    BY <1>1, <1>2, PTL

\* Every start ends in one interrupt and one coherent answer.
THEOREM RtlAnswers ==
    Rtl!RtlAssumption => (Rtl!Spec => [](Rtl!EveryStartSignalled /\ Rtl!AnswerCoherent))
<1> SUFFICES ASSUME Rtl!RtlAssumption
             PROVE  Rtl!Spec => [](Rtl!EveryStartSignalled /\ Rtl!AnswerCoherent)
    OBVIOUS
<1>1. RtlIInv => Rtl!EveryStartSignalled /\ Rtl!AnswerCoherent
    BY DEF RtlIInv
<1>2. Rtl!Spec => []RtlIInv
    BY RtlInvariant
<1> QED
    BY <1>1, <1>2, PTL

(***************************************************************************)
(* The contract, which the device keeps if a run can be cut off or needs   *)
(* not be.                                                                 *)
(***************************************************************************)

\* The block starts on the samples of its own job.
LEMMA FreshStart ==
    ASSUME Rtl!RtlAssumption, Rtl!CutsOrEnds, RtlIInv, library # "none", NEW samples
    PROVE  Rtl!Started(samples) = {samples}
<1>1. library = "complete" \/ ~running
    BY DEF Rtl!RtlAssumption, Rtl!CutsOrEnds, RtlIInv, Rtl!TypeOK, IdleUnlessHangs
<1> QED
    BY <1>1 DEF Rtl!Started, Rtl!ResetFirst

LEMMA RtlFailShown ==
    ASSUME RtlIInv, Rtl!Begin, NEW error, Rtl!Fail(error), rtlMem' = rtlMem
    PROVE  Rtl!Contract!Refuse
BY DEF Rtl!Begin, Rtl!Fail, Rtl!Said, Rtl!Contract!Refuse

LEMMA RtlFinishShown ==
    ASSUME Rtl!RtlAssumption, Rtl!CutsOrEnds, RtlIInv, Rtl!Finish
    PROVE  Rtl!Contract!Serve
<1>1. held' = RtlTransform(rtlMem[rtlRegs.input])
    BY FreshStart DEF Rtl!Finish, Rtl!Ready
<1> QED
    BY <1>1 DEF Rtl!Finish, Rtl!Begin, Rtl!Said, Rtl!Job, Rtl!Contract!Serve

LEMMA RtlStepShown ==
    ASSUME Rtl!RtlAssumption, Rtl!CutsOrEnds, RtlIInv, [Rtl!Next]_Rtl!vars
    PROVE  [Rtl!Contract!Next]_(Rtl!Contract!contractVars)
<1>1. CASE Rtl!WriteRegisters \/ Rtl!Load \/ Rtl!Migrate \/ UNCHANGED Rtl!vars
    <2>1. UNCHANGED <<rtlStatus, rtlSequence, rtlStarts>>
        BY <1>1 DEF Rtl!WriteRegisters, Rtl!Load, Rtl!Migrate, Rtl!vars, Rtl!answer
    <2> QED
        BY <2>1 DEF Rtl!Contract!Next, Rtl!Contract!Prepare, Rtl!Said
<1>2. CASE Rtl!SoftReset \/ Rtl!DeviceReset
    BY <1>2
    DEF Rtl!SoftReset, Rtl!DeviceReset, Rtl!Reset, Rtl!Said, Rtl!Contract!Next,
        Rtl!Contract!Acknowledge
<1>3. CASE Rtl!NoLibrary \/ Rtl!WrongSize \/ Rtl!FailRead \/ Rtl!Timeout \/ Rtl!FailWrite
    <2>1. /\ Rtl!Begin /\ rtlMem' = rtlMem
          /\ \E error \in {"NO_LIB", "BAD_N", "DMA", "TIMEOUT"} : Rtl!Fail(error)
        BY <1>3 DEF Rtl!NoLibrary, Rtl!WrongSize, Rtl!FailRead, Rtl!Timeout, Rtl!FailWrite
    <2> QED
        BY <2>1, RtlFailShown DEF Rtl!Contract!Next
<1>4. CASE Rtl!Finish
    BY <1>4, RtlFinishShown DEF Rtl!Contract!Next
<1> QED
    BY <1>1, <1>2, <1>3, <1>4 DEF Rtl!Next, Rtl!Start

\* With libraries that reset their block, or whose block always comes to an end,
\* no result of an earlier run is taken for the answer to a start.
THEOREM RtlKeepsContract ==
    Rtl!RtlAssumption /\ Rtl!CutsOrEnds => (Rtl!Spec => Rtl!ImplementsContract)
<1> SUFFICES ASSUME Rtl!RtlAssumption, Rtl!CutsOrEnds PROVE Rtl!Spec => Rtl!ImplementsContract
    OBVIOUS
<1>1. Rtl!Init => Rtl!Contract!Init
    BY DEF Rtl!Init, Rtl!Contract!Init, Rtl!Said
<1>2. RtlIInv /\ [Rtl!Next]_Rtl!vars => [Rtl!Contract!Next]_(Rtl!Contract!contractVars)
    BY RtlStepShown
<1>3. Rtl!Spec => []RtlIInv
    BY RtlInvariant
<1> QED
    BY <1>1, <1>2, <1>3, PTL DEF Rtl!Spec, Rtl!ImplementsContract, Rtl!Contract!Spec

\* The two devices in the run's scenes: the RTL device keeps the contract.
THEOREM ScenesRtlContract == MCSpec => RtlImplementsContract
<1>1. MCInit => Rtl!Init
    BY DEF MCInit
<1>2. [MCNext]_sceneVars => [Rtl!Next]_(Rtl!vars)
    BY DEF MCNext, sceneVars, rtlVars, Rtl!vars, Rtl!answer, Rtl!block
<1>3. Rtl!Spec => Rtl!ImplementsContract
    BY LibrariesAssumption, RtlKeepsContract
<1> QED
    BY <1>1, <1>2, <1>3, PTL DEF MCSpec, RtlImplementsContract, Rtl!Spec
=============================================================================
