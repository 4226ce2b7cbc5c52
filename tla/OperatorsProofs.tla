-------------------------- MODULE OperatorsProofs --------------------------
(* Proofs about the operator devices, for every bank, memory and checksum: *)
(* OperatorDevice alone, the twins under a disciplined driver, the QEMU    *)
(* device under a driver that keeps track of WEIGHT_CRC, and the scenes of *)
(* MCOperators.                                                            *)
EXTENDS MCOperators, TLAPS

-----------------------------------------------------------------------------
(* OperatorDevice: the checked properties together are inductive.          *)

DeviceIInv ==
    /\ Core!TypeOK
    /\ Core!ResultNamesItsBank
    /\ Core!ReadyMeansCaptured
    /\ Core!AnswersExclude

LEMMA DeviceInit ==
    ASSUME Core!OperatorAssumption, Core!Init
    PROVE  DeviceIInv
<1>1. Core!TypeOK
    BY DEF Core!OperatorAssumption, Core!Init, Core!TypeOK, Core!None
<1>2. Core!ResultNamesItsBank /\ Core!ReadyMeansCaptured /\ Core!AnswersExclude
    BY DEF Core!Init, Core!ResultNamesItsBank, Core!ReadyMeansCaptured, Core!AnswersExclude,
           Core!None
<1> QED
    BY <1>1, <1>2 DEF DeviceIInv

\* The driver's writes.
LEMMA DeviceDriverKeeps ==
    ASSUME Core!OperatorAssumption, DeviceIInv,
           \/ \E file \in Files : Core!WriteRegisters(file)
           \/ \E load \in Loads : Core!Load(load[1], load[2])
           \/ Core!BypassSelect
    PROVE  DeviceIInv'
<1> USE DEF DeviceIInv
<1>1. Core!TypeOK'
    <2>1. CASE \E file \in Files : Core!WriteRegisters(file)
        BY <2>1 DEF Core!WriteRegisters, Core!reports, Core!TypeOK
    <2>2. CASE \E load \in Loads : Core!Load(load[1], load[2])
        <3>1. PICK load \in Loads : Core!Load(load[1], load[2])
            BY <2>2
        <3>2. load[2] \in Contents
            BY DEF Core!OperatorAssumption
        <3>3. coreMem' \in [Cells -> Contents]
            BY <3>1, <3>2 DEF Core!Load, Core!TypeOK
        <3> QED
            BY <3>1, <3>3 DEF Core!Load, Core!reports, Core!TypeOK
    <2>3. CASE Core!BypassSelect
        BY <2>3 DEF Core!OperatorAssumption, Core!BypassSelect, Core!reports, Core!TypeOK
    <2> QED
        BY <2>1, <2>2, <2>3
<1>2. UNCHANGED <<coreStatus, coreActive, coreResult, coreTable, coreUsed>>
    BY DEF Core!WriteRegisters, Core!Load, Core!BypassSelect, Core!reports
<1> QED
    BY <1>1, <1>2 DEF Core!ResultNamesItsBank, Core!ReadyMeansCaptured, Core!AnswersExclude

LEMMA DeviceActivateKeeps ==
    ASSUME Core!OperatorAssumption, DeviceIInv, Core!Activate
    PROVE  DeviceIInv'
<1> USE DEF DeviceIInv
<1>1. CASE Core!RefuseBank
    <2>1. Core!TypeOK'
        BY <1>1 DEF Core!RefuseBank, Core!TypeOK
    <2> QED
        BY <1>1, <2>1
        DEF Core!RefuseBank, Core!ResultNamesItsBank, Core!ReadyMeansCaptured, Core!AnswersExclude
<1>2. CASE Core!AcceptBank
    <2>1. coreMem[regs.weights] \in Contents
        BY <1>2 DEF Core!AcceptBank, Core!BankIntact, Core!Readable, Core!TypeOK
    <2>2. Core!TypeOK'
        BY <1>2, <2>1 DEF Core!AcceptBank, Core!Captured, Core!TypeOK
    <2> QED
        BY <1>2, <2>2
        DEF Core!AcceptBank, Core!Captured, Core!ResultNamesItsBank, Core!ReadyMeansCaptured,
            Core!AnswersExclude, Core!None
<1> QED
    BY <1>1, <1>2 DEF Core!Activate

LEMMA DeviceStartKeeps ==
    ASSUME Core!OperatorAssumption, DeviceIInv, Core!Start
    PROVE  DeviceIInv'
<1> USE DEF DeviceIInv
<1>1. CASE Core!CopyThrough
    <2>1. coreMem' \in [Cells -> Contents]
        BY <1>1 DEF Core!CopyThrough, Core!Buffers, Core!Readable, Core!TypeOK
    <2> QED
        BY <1>1, <2>1
        DEF Core!CopyThrough, Core!Cleared, Core!TypeOK, Core!ResultNamesItsBank,
            Core!ReadyMeansCaptured, Core!AnswersExclude
<1>2. CASE Core!RejectConfig
    BY <1>2
    DEF Core!RejectConfig, Core!Cleared, Core!TypeOK, Core!ResultNamesItsBank,
        Core!ReadyMeansCaptured, Core!AnswersExclude
<1>3. CASE Core!Unanswered
    BY <1>3
    DEF Core!Unanswered, Core!Cleared, Core!TypeOK, Core!ResultNamesItsBank,
        Core!ReadyMeansCaptured, Core!AnswersExclude
<1>4. CASE Core!Compute
    <2>1. PICK bank \in coreTable :
            /\ coreMem' = [coreMem EXCEPT ![regs.output] = Result(coreMem[regs.input], bank)]
            /\ coreUsed' = {bank}
        BY <1>4 DEF Core!Compute
    <2>2. bank \in Contents /\ coreActive = Crc(bank)
        BY DEF Core!TypeOK, Core!ReadyMeansCaptured
    <2>3. coreMem' \in [Cells -> Contents]
        <3>1. coreMem[regs.input] \in Contents /\ regs.output \in Cells
            BY <1>4 DEF Core!Compute, Core!Buffers, Core!Readable, Core!TypeOK
        <3>2. Result(coreMem[regs.input], bank) \in Contents
            BY <2>2, <3>1 DEF Core!OperatorAssumption
        <3> QED
            BY <2>1, <3>2 DEF Core!TypeOK
    <2>4. Core!TypeOK'
        BY <1>4, <2>1, <2>2, <2>3 DEF Core!Compute, Core!Cleared, Core!TypeOK
    <2> QED
        BY <1>4, <2>1, <2>2, <2>4
        DEF Core!Compute, Core!Cleared, Core!ResultNamesItsBank, Core!ReadyMeansCaptured,
            Core!AnswersExclude
<1> QED
    BY <1>1, <1>2, <1>3, <1>4 DEF Core!Start

LEMMA DeviceNextKeeps ==
    ASSUME Core!OperatorAssumption, DeviceIInv, [Core!Next]_Core!vars
    PROVE  DeviceIInv'
<1>1. CASE Core!Reset
    BY <1>1
    DEF Core!OperatorAssumption, Core!Reset, Core!BankAfterReset, Core!None, DeviceIInv,
        Core!TypeOK, Core!ResultNamesItsBank,
        Core!ReadyMeansCaptured, Core!AnswersExclude
<1>2. CASE UNCHANGED Core!vars
    BY <1>2
    DEF Core!vars, Core!reports, DeviceIInv, Core!TypeOK, Core!ResultNamesItsBank,
        Core!ReadyMeansCaptured, Core!AnswersExclude
<1> QED
    BY <1>1, <1>2, DeviceDriverKeeps, DeviceActivateKeeps, DeviceStartKeeps DEF Core!Next

\* The inductive invariant holds in every reachable state.
THEOREM DeviceInvariant == Core!OperatorAssumption => (Core!Spec => []DeviceIInv)
<1> SUFFICES ASSUME Core!OperatorAssumption PROVE Core!Spec => []DeviceIInv
    OBVIOUS
<1>1. Core!Init => DeviceIInv
    BY DeviceInit
<1>2. DeviceIInv /\ [Core!Next]_Core!vars => DeviceIInv'
    BY DeviceNextKeeps
<1> QED
    BY <1>1, <1>2, PTL DEF Core!Spec

\* The registers keep their types.
THEOREM DeviceTypes == Core!OperatorAssumption => (Core!Spec => []Core!TypeOK)
<1> SUFFICES ASSUME Core!OperatorAssumption PROVE Core!Spec => []Core!TypeOK
    OBVIOUS
<1>1. DeviceIInv => Core!TypeOK
    BY DEF DeviceIInv
<1>2. Core!Spec => []DeviceIInv
    BY DeviceInvariant
<1> QED
    BY <1>1, <1>2, PTL

\* Every result is attributed to the bank it was computed with, for every
\* checksum function, every memory and every sequence of driver calls.
THEOREM DeviceAttribution ==
    Core!OperatorAssumption => (Core!Spec => [](Core!ResultNamesItsBank /\ Core!ReadyMeansCaptured))
<1> SUFFICES ASSUME Core!OperatorAssumption
             PROVE  Core!Spec => [](Core!ResultNamesItsBank /\ Core!ReadyMeansCaptured)
    OBVIOUS
<1>1. DeviceIInv => Core!ResultNamesItsBank /\ Core!ReadyMeansCaptured
    BY DEF DeviceIInv
<1>2. Core!Spec => []DeviceIInv
    BY DeviceInvariant
<1> QED
    BY <1>1, <1>2, PTL

\* DONE and ERROR exclude each other.
THEOREM DeviceAnswers == Core!OperatorAssumption => (Core!Spec => []Core!AnswersExclude)
<1> SUFFICES ASSUME Core!OperatorAssumption PROVE Core!Spec => []Core!AnswersExclude
    OBVIOUS
<1>1. DeviceIInv => Core!AnswersExclude
    BY DEF DeviceIInv
<1>2. Core!Spec => []DeviceIInv
    BY DeviceInvariant
<1> QED
    BY <1>1, <1>2, PTL
-----------------------------------------------------------------------------
(* OperatorTwins: what the driver trusts is what both devices compute with. *)

\* The registers and the memory have their shapes.
Shapes == regs \in Files /\ DOMAIN coreMem = Cells

\* While the driver trusts the bank, the captured bank of the portable device is
\* the one that the QEMU device will read, and it matches the registers.
TrustedBank ==
    trusted =>
        /\ regs.weights \in Cells
        /\ Crc(coreMem[regs.weights]) = regs.crc
        /\ coreTable = {coreMem[regs.weights]}
        /\ coreActive = Crc(coreMem[regs.weights])

IInv ==
    /\ Shapes
    /\ TwinsAgree
    /\ TrustedBank
    /\ TwinsAttribute

LEMMA Agreement ==
    TwinsAgree <=>
        /\ SameAnswer
        /\ coreError = qemuError
        /\ coreSequence = qemuSequence
        /\ coreActive = qemuActive /\ coreResult = qemuResult
        /\ coreMem = qemuMem
BY DEF TwinsAgree

\* Without the answers the two STATUS registers are equal.
LEMMA SameCleared == SameAnswer => Core!Cleared = Qemu!Cleared
BY DEF SameAnswer, Core!Cleared, Qemu!Cleared

LEMMA InitIInv == Init => IInv
<1> SUFFICES ASSUME Init PROVE IInv
    OBVIOUS
<1>1. Shapes /\ TrustedBank /\ TwinsAttribute
    BY TwinsAssumption
    DEF Init, Core!Init, Qemu!Init, Shapes, TrustedBank, TwinsAttribute, Core!None, Qemu!None,
        Qemu!ResultNamesItsBank, Core!AnswersExclude, Qemu!AnswersExclude
<1>2. TwinsAgree
    BY Agreement DEF Init, Core!Init, Qemu!Init, SameAnswer
<1> QED
    BY <1>1, <1>2 DEF IInv

\* The driver's writes go to both devices.
LEMMA DriverKeeps ==
    ASSUME IInv,
           \/ \E file \in Files : WriteRegisters(file)
           \/ \E load \in Loads : Load(load[1], load[2])
           \/ Reset \/ BypassSelect
    PROVE  IInv'
<1> USE DEF IInv
<1>1. CASE \E file \in Files : WriteRegisters(file)
    <2>1. PICK file \in Files : WriteRegisters(file)
        BY <1>1
    <2>2. /\ regs' = file
          /\ UNCHANGED <<coreStatus, coreError, coreSequence, coreActive, coreResult,
                         coreTable, coreMem, qemuStatus, qemuError, qemuSequence,
                         qemuActive, qemuResult, qemuMem, qemuUsed>>
          /\ trusted' = (trusted /\ file.weights = regs.weights /\ file.crc = regs.crc)
          /\ buffered' = buffered
        BY <2>1
        DEF WriteRegisters, Core!WriteRegisters, Qemu!WriteRegisters, Core!reports, Qemu!reports
    <2>3. Shapes' /\ TwinsAgree' /\ TwinsAttribute'
        BY <2>2, Agreement
        DEF Shapes, TwinsAgree, SameAnswer, TwinsAttribute, Qemu!ResultNamesItsBank,
            Core!AnswersExclude, Qemu!AnswersExclude
    <2>4. TrustedBank'
        BY <2>2 DEF TrustedBank
    <2> QED
        BY <2>3, <2>4
<1>2. CASE \E load \in Loads : Load(load[1], load[2])
    <2>1. PICK load \in Loads : Load(load[1], load[2])
        BY <1>2
    <2>2. /\ coreMem' = [coreMem EXCEPT ![load[1]] = load[2]]
          /\ qemuMem' = [qemuMem EXCEPT ![load[1]] = load[2]]
          /\ UNCHANGED <<regs, coreStatus, coreError, coreSequence, coreActive, coreResult,
                         coreTable, qemuStatus, qemuError, qemuSequence,
                         qemuActive, qemuResult, qemuUsed>>
          /\ trusted' = (trusted /\ load[1] # regs.weights)
          /\ buffered' = buffered
        BY <2>1 DEF Load, Core!Load, Qemu!Load, Core!reports, Qemu!reports
    <2>3. Shapes' /\ TwinsAgree' /\ TwinsAttribute'
        BY <2>2, Agreement
        DEF Shapes, TwinsAgree, SameAnswer, TwinsAttribute, Qemu!ResultNamesItsBank,
            Core!AnswersExclude, Qemu!AnswersExclude
    <2>4. trusted' => coreMem'[regs.weights] = coreMem[regs.weights]
        BY <2>2 DEF Shapes, TrustedBank
    <2>5. TrustedBank'
        BY <2>2, <2>4 DEF TrustedBank
    <2> QED
        BY <2>3, <2>5
<1>3. CASE Reset
    <2>1. /\ regs' = NoFile /\ trusted' = FALSE /\ qemuUsed' = {}
          /\ coreStatus' = {} /\ qemuStatus' = {} /\ coreError' = qemuError'
          /\ coreSequence' = qemuSequence' /\ coreActive' = qemuActive'
          /\ coreResult' = qemuResult'
          /\ coreMem' = coreMem /\ qemuMem' = qemuMem
        BY <1>3
        DEF Reset, Core!Reset, Qemu!Reset, Core!None, Qemu!None, Qemu!SequenceAfterReset
    <2> QED
        BY <2>1, Agreement, TwinsAssumption
        DEF Shapes, TwinsAgree, SameAnswer, TrustedBank, TwinsAttribute, Qemu!ResultNamesItsBank,
            Core!AnswersExclude, Qemu!AnswersExclude
<1>4. CASE BypassSelect
    <2>1. /\ regs' = [regs EXCEPT !.bypass = TRUE]
          /\ UNCHANGED <<coreStatus, coreError, coreSequence, coreActive, coreResult,
                         coreTable, coreMem, qemuStatus, qemuError, qemuSequence,
                         qemuActive, qemuResult, qemuMem, qemuUsed, trusted, buffered>>
        BY <1>4
        DEF BypassSelect, Core!BypassSelect, Qemu!BypassSelect, Core!reports, Qemu!reports
    <2>2. regs'.weights = regs.weights /\ regs'.crc = regs.crc /\ regs' \in Files
        BY <2>1, TwinsAssumption DEF Shapes, Core!Fields
    <2>3. Shapes' /\ TwinsAgree' /\ TwinsAttribute'
        BY <2>1, <2>2, Agreement
        DEF Shapes, TwinsAgree, SameAnswer, TwinsAttribute, Qemu!ResultNamesItsBank,
            Core!AnswersExclude, Qemu!AnswersExclude
    <2>4. TrustedBank'
        BY <2>1, <2>2 DEF TrustedBank
    <2> QED
        BY <2>3, <2>4
<1> QED
    BY <1>1, <1>2, <1>3, <1>4

\* Both devices check the same bank against the same checksum, if there is one.
LEMMA SameVerdict ==
    ASSUME IInv, ~Qemu!BankEmpty PROVE Core!BankIntact <=> Qemu!BankIntact
BY Agreement
DEF IInv, Core!BankIntact, Core!Readable, Qemu!BankIntact, Qemu!Checksum, Qemu!Answers

LEMMA ActivateKeeps ==
    ASSUME IInv, Activate
    PROVE  IInv'
<1> USE DEF IInv
<1>1. /\ UNCHANGED <<regs, coreMem, qemuMem, coreSequence, qemuSequence, coreResult, qemuResult,
                     qemuUsed, buffered>>
      /\ trusted' = ("BANK_CRC_FAIL" \notin qemuStatus')
      /\ ~Qemu!BankEmpty
    BY DEF Activate, Core!Activate, Core!RefuseBank, Core!AcceptBank,
           Qemu!Activate, Qemu!RefuseBank, Qemu!AcceptBank
<1>2. CASE Core!BankIntact
    <2>1. Core!AcceptBank /\ Qemu!AcceptBank
        BY <1>1, <1>2, SameVerdict
        DEF Activate, Core!Activate, Core!RefuseBank, Qemu!Activate, Qemu!RefuseBank
    <2>2. /\ coreStatus' = (coreStatus \cup {"WEIGHT_READY"}) \ {"BANK_CRC_FAIL"}
          /\ qemuStatus' = (qemuStatus \ {"BANK_CRC_FAIL"}) \cup {"WEIGHT_READY"}
        BY <2>1 DEF Core!AcceptBank, Qemu!AcceptBank
    <2>3. SameAnswer' /\ Core!AnswersExclude' /\ Qemu!AnswersExclude'
        BY <1>1, <2>2, Agreement
        DEF SameAnswer, TwinsAttribute, Core!AnswersExclude, Qemu!AnswersExclude
    <2>4. /\ coreError' = qemuError' /\ coreActive' = qemuActive'
          /\ coreActive' = Crc(coreMem[regs.weights])
          /\ coreTable' = {coreMem[regs.weights]}
        BY <1>1, <2>1, Agreement
        DEF Core!AcceptBank, Core!Captured, Qemu!AcceptBank, Qemu!LiveChecksum, Qemu!Checksum
    <2>5. regs.weights \in Cells /\ Crc(coreMem[regs.weights]) = regs.crc
        BY <1>2 DEF Core!BankIntact, Core!Readable
    <2> QED
        BY <1>1, <2>3, <2>4, <2>5, Agreement
        DEF Shapes, TwinsAgree, TrustedBank, TwinsAttribute, Qemu!ResultNamesItsBank
<1>3. CASE ~Core!BankIntact
    <2>1. Core!RefuseBank /\ Qemu!RefuseBank
        BY <1>1, <1>3, SameVerdict
        DEF Activate, Core!Activate, Core!AcceptBank, Qemu!Activate, Qemu!AcceptBank
    <2>2. /\ coreStatus' = coreStatus \cup {"BANK_CRC_FAIL"}
          /\ qemuStatus' = qemuStatus \cup {"BANK_CRC_FAIL"}
          /\ coreError' = qemuError' /\ coreActive' = qemuActive'
        BY <2>1, Agreement DEF Core!RefuseBank, Qemu!RefuseBank
    <2>3. SameAnswer' /\ Core!AnswersExclude' /\ Qemu!AnswersExclude'
        BY <1>1, <2>2, Agreement
        DEF SameAnswer, TwinsAttribute, Core!AnswersExclude, Qemu!AnswersExclude
    <2> QED
        BY <1>1, <2>2, <2>3, Agreement
        DEF Shapes, TwinsAgree, TrustedBank, TwinsAttribute, Qemu!ResultNamesItsBank
<1> QED
    BY <1>2, <1>3

\* A start that bypasses the operator copies in both devices, or in none.
LEMMA BypassStart ==
    ASSUME IInv, Start, regs.bypass
    PROVE  IInv'
<1> USE DEF IInv
<1>1. /\ buffered' = ({regs.input, regs.output} \subseteq Cells)
      /\ trusted' = (trusted /\ regs.output # regs.weights)
    BY DEF Start
<1>2. Qemu!CopyThrough /\ (Core!CopyThrough \/ Core!Unanswered)
    BY DEF Start, Core!Start, Core!RejectConfig, Core!Compute, Qemu!Start, Qemu!RejectBank,
           Qemu!RejectConfig, Qemu!FailRead, Qemu!Compute
<1>3. /\ UNCHANGED <<regs, coreError, coreSequence, coreActive, coreResult, coreTable,
                     qemuError, qemuSequence, qemuActive, qemuResult, qemuUsed>>
      /\ qemuStatus' = Qemu!Cleared \cup {"DONE"}
    BY <1>2 DEF Core!CopyThrough, Core!Unanswered, Qemu!CopyThrough
<1>4. CASE {regs.input, regs.output} \subseteq Cells
    <2>1. Core!CopyThrough
        BY <1>2, <1>4 DEF Core!Unanswered, Core!Buffers, Core!Readable
    <2>2. /\ coreMem' = [coreMem EXCEPT ![regs.output] = coreMem[regs.input]]
          /\ qemuMem' = coreMem'
        BY <1>2, <1>4, <2>1, Agreement
        DEF Core!CopyThrough, Qemu!CopyThrough, Qemu!Written, Qemu!Answers
    <2>3. coreStatus' = qemuStatus' /\ qemuStatus' = Qemu!Cleared \cup {"DONE"}
        BY <1>3, <2>1, Agreement, SameCleared DEF Core!CopyThrough
    <2>4. SameAnswer' /\ Core!AnswersExclude' /\ Qemu!AnswersExclude'
        BY <2>3 DEF SameAnswer, Core!AnswersExclude, Qemu!AnswersExclude, Qemu!Cleared
    <2>5. TrustedBank'
        BY <1>1, <1>3, <2>2 DEF Shapes, TrustedBank
    <2> QED
        BY <1>3, <2>2, <2>4, <2>5, Agreement
        DEF Shapes, TwinsAgree, TwinsAttribute, Qemu!ResultNamesItsBank
<1>5. CASE ~({regs.input, regs.output} \subseteq Cells)
    <2>1. Core!Unanswered
        BY <1>2, <1>5 DEF Core!CopyThrough, Core!Buffers, Core!Readable
    <2>2. coreMem' = coreMem /\ qemuMem' = coreMem
        BY <1>2, <1>5, <2>1, Agreement
        DEF Core!Unanswered, Qemu!CopyThrough, Qemu!Written, Qemu!Answers
    <2>3. coreStatus' = Qemu!Cleared /\ ~buffered'
        BY <1>1, <1>5, <2>1, Agreement, SameCleared DEF Core!Unanswered
    <2>4. SameAnswer' /\ Core!AnswersExclude' /\ Qemu!AnswersExclude'
        BY <1>3, <2>3 DEF SameAnswer, Core!AnswersExclude, Qemu!AnswersExclude, Qemu!Cleared
    <2>5. TrustedBank'
        BY <1>1, <1>3, <2>2 DEF TrustedBank
    <2> QED
        BY <1>3, <2>2, <2>4, <2>5, Agreement
        DEF Shapes, TwinsAgree, TwinsAttribute, Qemu!ResultNamesItsBank
<1> QED
    BY <1>4, <1>5

\* A start with a trusted bank is rejected by both devices or computed by both, or
\* fails for its input.
LEMMA TrustedStart ==
    ASSUME IInv, Start, ~regs.bypass
    PROVE  IInv'
<1> USE DEF IInv
<1> DEFINE bank == coreMem[regs.weights]
<1>1. /\ regs.output \in Cells /\ trusted
      /\ trusted' = (trusted /\ regs.output # regs.weights)
      /\ buffered' = ({regs.input, regs.output} \subseteq Cells)
    BY DEF Start
<1>2. /\ regs.weights \in Cells /\ Crc(bank) = regs.crc
      /\ coreTable = {bank} /\ coreActive = Crc(bank)
    BY <1>1 DEF TrustedBank
<1>3. Qemu!BankIntact
    BY <1>2, Agreement, TwinsAssumption
    DEF Qemu!QemuAssumption, Qemu!BankIntact, Qemu!BankEmpty, Qemu!Checksum, Qemu!Answers
<1>4. Core!BankFits <=> Qemu!BankFits
    BY <1>2, Agreement DEF Core!BankFits, Qemu!BankFits
<1>5. CASE Core!BankFits /\ regs.input \in Cells
    <2>1. Core!Compute /\ Qemu!Compute
        BY <1>1, <1>3, <1>4, <1>5
        DEF Start, Core!Start, Core!CopyThrough, Core!RejectConfig, Core!Unanswered,
            Core!Buffers, Core!Readable, Qemu!Start, Qemu!CopyThrough, Qemu!RejectBank,
            Qemu!RejectConfig, Qemu!FailRead, Qemu!Answers
    <2>2. /\ coreMem' = [coreMem EXCEPT ![regs.output] = Result(coreMem[regs.input], bank)]
          /\ qemuMem' = coreMem'
        BY <1>1, <1>2, <2>1, Agreement
        DEF Core!Compute, Qemu!Compute, Qemu!Written, Qemu!Answers
    <2>3. /\ coreSequence' = qemuSequence'
          /\ coreResult' = qemuResult' /\ coreResult' = coreActive
          /\ qemuUsed' = {bank}
          /\ UNCHANGED <<regs, coreError, coreActive, coreTable, qemuError, qemuActive>>
        BY <2>1, Agreement DEF Core!Compute, Qemu!Compute
    <2>4. coreStatus' = qemuStatus' /\ qemuStatus' = Qemu!Cleared \cup {"DONE"}
        BY <2>1, Agreement, SameCleared DEF Core!Compute, Qemu!Compute
    <2>5. SameAnswer' /\ Core!AnswersExclude' /\ Qemu!AnswersExclude'
        BY <2>4 DEF SameAnswer, Core!AnswersExclude, Qemu!AnswersExclude, Qemu!Cleared
    <2>6. TrustedBank'
        BY <1>1, <2>2, <2>3 DEF Shapes, TrustedBank
    <2> QED
        BY <1>2, <2>2, <2>3, <2>5, <2>6, Agreement
        DEF Shapes, TwinsAgree, TwinsAttribute, Qemu!ResultNamesItsBank
<1>6. CASE Core!BankFits /\ regs.input \notin Cells
    <2>1. Core!Unanswered /\ Qemu!FailRead
        BY <1>3, <1>4, <1>6
        DEF Start, Core!Start, Core!CopyThrough, Core!RejectConfig, Core!Compute,
            Core!Buffers, Core!Readable, Qemu!Start, Qemu!CopyThrough, Qemu!RejectBank,
            Qemu!RejectConfig, Qemu!Compute, Qemu!Answers
    <2>2. /\ UNCHANGED <<regs, coreError, coreSequence, coreActive, coreResult, coreTable, coreMem,
                         qemuError, qemuSequence, qemuActive, qemuResult, qemuMem, qemuUsed>>
          /\ qemuStatus' = Qemu!Cleared \cup {"ERROR"}
        BY <2>1 DEF Core!Unanswered, Qemu!FailRead, Qemu!Fail
    <2>3. coreStatus' = Qemu!Cleared /\ ~buffered'
        BY <1>1, <1>6, <2>1, Agreement, SameCleared DEF Core!Unanswered
    <2>4. SameAnswer' /\ Core!AnswersExclude' /\ Qemu!AnswersExclude'
        BY <2>2, <2>3 DEF SameAnswer, Core!AnswersExclude, Qemu!AnswersExclude, Qemu!Cleared
    <2> QED
        BY <1>1, <2>2, <2>4, Agreement
        DEF Shapes, TwinsAgree, TrustedBank, TwinsAttribute, Qemu!ResultNamesItsBank
<1>7. CASE ~Core!BankFits
    <2>1. Core!RejectConfig /\ Qemu!RejectConfig
        BY <1>3, <1>4, <1>7
        DEF Start, Core!Start, Core!CopyThrough, Core!Unanswered, Core!Compute,
            Qemu!Start, Qemu!CopyThrough, Qemu!RejectBank, Qemu!FailRead, Qemu!Compute
    <2>2. /\ coreError' = qemuError'
          /\ UNCHANGED <<regs, coreSequence, coreActive, coreResult, coreTable, coreMem,
                         qemuSequence, qemuActive, qemuResult, qemuMem, qemuUsed>>
        BY <2>1 DEF Core!RejectConfig, Qemu!RejectConfig, Qemu!Fail
    <2>3. coreStatus' = qemuStatus' /\ qemuStatus' = Qemu!Cleared \cup {"ERROR"}
        BY <2>1, Agreement, SameCleared DEF Core!RejectConfig, Qemu!RejectConfig, Qemu!Fail
    <2>4. SameAnswer' /\ Core!AnswersExclude' /\ Qemu!AnswersExclude'
        BY <2>3 DEF SameAnswer, Core!AnswersExclude, Qemu!AnswersExclude, Qemu!Cleared
    <2> QED
        BY <1>1, <2>2, <2>4, Agreement
        DEF Shapes, TwinsAgree, TrustedBank, TwinsAttribute, Qemu!ResultNamesItsBank
<1> QED
    BY <1>5, <1>6, <1>7

LEMMA NextKeeps == IInv /\ [Next]_vars => IInv'
<1> SUFFICES ASSUME IInv, [Next]_vars PROVE IInv'
    OBVIOUS
<1>1. CASE UNCHANGED vars
    <2>1. UNCHANGED <<regs, coreStatus, coreError, coreSequence, coreActive, coreResult,
                      coreTable, coreMem, qemuStatus, qemuError, qemuSequence,
                      qemuActive, qemuResult, qemuMem, qemuUsed, trusted, buffered>>
        BY <1>1 DEF vars, Core!vars, Core!reports, Qemu!vars, Qemu!reports
    <2> QED
        BY <2>1
        DEF IInv, Shapes, TwinsAgree, SameAnswer, TrustedBank, TwinsAttribute,
            Qemu!ResultNamesItsBank, Core!AnswersExclude, Qemu!AnswersExclude
<1>2. CASE Start
    <2>1. CASE regs.bypass
        BY <1>2, <2>1, BypassStart
    <2> QED
        BY <1>2, <2>1, TrustedStart
<1> QED
    BY <1>1, <1>2, DriverKeeps, ActivateKeeps DEF Next

\* The inductive invariant holds in every reachable state.
THEOREM TwinsInvariant == Spec => []IInv
BY InitIInv, NextKeeps, PTL DEF Spec

\* A disciplined driver cannot tell the QEMU operator from the portable one, but by
\* an answer to a START whose buffers are outside the memory.
THEOREM TwinsIndistinguishable == Spec => []TwinsAgree
<1>1. IInv => TwinsAgree
    BY DEF IInv
<1> QED
    BY <1>1, TwinsInvariant, PTL

\* With such a driver the checksum that the QEMU operator reports is the one of
\* the bank it used, and DONE or ERROR of a block does not answer the next.
THEOREM TwinsAttributed == Spec => []TwinsAttribute
<1>1. IInv => TwinsAttribute
    BY DEF IInv
<1> QED
    BY <1>1, TwinsInvariant, PTL
-----------------------------------------------------------------------------
(* OperatorClient: what the driver keeps is what START will check.         *)

\* While WEIGHT_CRC is kept it is the live checksum; so a bank that passes the check
\* of START is one that the live checksum names.
ClientIInv ==
    /\ regs \in Files /\ qemuSequence \in Nat
    /\ trusted => qemuActive = regs.crc
    /\ Client!KeptChecksumAttributes
    /\ Qemu!AnswersExclude

LEMMA ClientStarts == Client!Init /\ attested = FALSE /\ trusted = FALSE => ClientIInv
BY TwinsAssumption
DEF Client!Init, ClientIInv, Client!KeptChecksumAttributes, Qemu!AnswersExclude

LEMMA TryBankKeeps ==
    ASSUME ClientIInv, Client!TryBank
    PROVE  ClientIInv'
<1>1. /\ UNCHANGED <<regs, qemuSequence, qemuResult, qemuUsed, attested>>
      /\ trusted' = (trusted \/ "BANK_CRC_FAIL" \notin qemuStatus')
    BY DEF Client!TryBank, Client!Activate, Client!RefuseBank, Client!AcceptBank
<1>2. /\ trusted' => qemuActive' = regs.crc
      /\ Qemu!AnswersExclude'
    <2>1. CASE Client!RefuseBank
        BY <1>1, <2>1 DEF Client!RefuseBank, ClientIInv, Qemu!AnswersExclude
    <2>2. CASE Client!AcceptBank
        BY <2>2
        DEF Client!AcceptBank, Client!BankIntact, Client!LiveChecksum, ClientIInv,
            Qemu!AnswersExclude
    <2> QED
        BY <2>1, <2>2 DEF Client!TryBank, Client!Activate
<1> QED
    BY <1>1, <1>2 DEF ClientIInv, Client!KeptChecksumAttributes, Client!ResultNamesItsBank

LEMMA RunKeeps ==
    ASSUME ClientIInv, Client!Run
    PROVE  ClientIInv'
<1>1. /\ Client!Start /\ trusted' = trusted
      /\ attested' = IF qemuSequence' # qemuSequence THEN trusted ELSE attested
    BY DEF Client!Run
<1>2. CASE Client!Compute
    <2>1. /\ UNCHANGED <<regs, qemuActive>>
          /\ qemuSequence' = qemuSequence + 1 /\ qemuResult' = qemuActive
          /\ qemuUsed' = {qemuMem[regs.weights]}
          /\ qemuStatus' = Client!Cleared \cup {"DONE"}
          /\ Client!BankIntact /\ ~regs.bypass
        BY <1>2 DEF Client!Compute, Client!Checked
    <2>2. Crc(qemuMem[regs.weights]) = regs.crc
        BY <2>1, TwinsAssumption
        DEF ClientIInv, Qemu!QemuAssumption, Client!BankIntact, Client!BankEmpty, Client!Checksum
    <2>3. qemuSequence' \in Nat /\ attested' = trusted
        BY <1>1, <2>1 DEF ClientIInv
    <2>4. Client!KeptChecksumAttributes'
        BY <2>1, <2>2, <2>3
        DEF ClientIInv, Client!KeptChecksumAttributes, Client!ResultNamesItsBank
    <2>5. Qemu!AnswersExclude'
        BY <2>1 DEF Client!Cleared, Qemu!AnswersExclude
    <2> QED
        BY <1>1, <2>1, <2>3, <2>4, <2>5 DEF ClientIInv
<1>3. CASE \/ Client!CopyThrough \/ Client!RejectBank
           \/ Client!RejectConfig \/ Client!FailRead
    <2>1. UNCHANGED <<regs, qemuActive, qemuSequence, qemuResult, qemuUsed>>
        BY <1>3
        DEF Client!CopyThrough, Client!RejectBank, Client!RejectConfig, Client!FailRead,
            Client!Fail
    <2>2. Qemu!AnswersExclude'
        BY <1>3
        DEF Client!CopyThrough, Client!RejectBank, Client!RejectConfig, Client!FailRead,
            Client!Fail, Client!Cleared, Qemu!AnswersExclude
    <2> QED
        BY <1>1, <2>1, <2>2
        DEF ClientIInv, Client!KeptChecksumAttributes, Client!ResultNamesItsBank
<1> QED
    BY <1>1, <1>2, <1>3 DEF Client!Start

\* The driver's writes, and a reset.
LEMMA WritesKeep ==
    ASSUME ClientIInv,
           (\E file \in Files : Client!Reprogram(file)) \/ Client!Forget \/ Client!Disturb
    PROVE  ClientIInv'
<1> USE DEF ClientIInv
<1>1. CASE \E file \in Files : Client!Reprogram(file)
    <2>1. PICK file \in Files : Client!Reprogram(file)
        BY <1>1
    <2> QED
        BY <2>1
        DEF Client!Reprogram, Client!WriteRegisters, Client!reports,
            Client!KeptChecksumAttributes, Client!ResultNamesItsBank, Qemu!AnswersExclude
<1>2. CASE Client!Forget
    BY <1>2, TwinsAssumption
    DEF Client!Forget, Client!Reset, Client!SequenceAfterReset, Client!KeptChecksumAttributes,
        Qemu!AnswersExclude
<1>3. CASE Client!Disturb
    <2>1. UNCHANGED <<qemuStatus, qemuSequence, qemuActive, qemuResult, qemuUsed, trusted,
                      attested>>
        BY <1>3 DEF Client!Disturb, Client!BypassSelect, Client!Load, Client!reports
    <2>2. regs' \in Files /\ regs'.crc = regs.crc
        <3>1. CASE Client!BypassSelect
            BY <3>1, TwinsAssumption DEF Client!BypassSelect, Core!Fields
        <3>2. CASE \E load \in Loads : Client!Load(load[1], load[2])
            BY <3>2 DEF Client!Load
        <3> QED
            BY <1>3, <3>1, <3>2 DEF Client!Disturb
    <2> QED
        BY <2>1, <2>2
        DEF Client!KeptChecksumAttributes, Client!ResultNamesItsBank, Qemu!AnswersExclude
<1> QED
    BY <1>1, <1>2, <1>3

LEMMA ClientKeeps ==
    ASSUME ClientIInv, [Client!ClientNext]_(Client!clientVars)
    PROVE  ClientIInv'
<1>1. CASE UNCHANGED Client!clientVars
    BY <1>1
    DEF Client!clientVars, Client!vars, Client!reports, ClientIInv,
        Client!KeptChecksumAttributes, Client!ResultNamesItsBank, Qemu!AnswersExclude
<1> QED
    BY <1>1, TryBankKeeps, RunKeeps, WritesKeep DEF Client!ClientNext

\* Whatever the driver or a result has done to the bank since ACTIVATE, wherever the
\* registers say it is, and whichever banks were refused meanwhile: as long as
\* WEIGHT_CRC stays, what the QEMU device counts names the bank it was computed with.
THEOREM ClientAttribution == Client!ClientSpec => []Client!KeptChecksumAttributes
<1>1. Client!ClientInit => ClientIInv
    BY ClientStarts DEF Client!ClientInit
<1>2. ClientIInv /\ [Client!ClientNext]_(Client!clientVars) => ClientIInv'
    BY ClientKeeps
<1>3. ClientIInv => Client!KeptChecksumAttributes
    BY DEF ClientIInv
<1> QED
    BY <1>1, <1>2, <1>3, PTL DEF Client!ClientSpec
-----------------------------------------------------------------------------
(* The scenes of MCOperators.                                              *)

SceneIInv ==
    /\ scene = "twins" => IInv
    /\ scene \in {"twins", "portable"} => DeviceIInv
    /\ scene = "program" => Firmware!Attempt
    /\ scene = "emulated" => ClientIInv
    /\ PortableAttributes

LEMMA SceneInit == MCInit => SceneIInv
<1> SUFFICES ASSUME MCInit PROVE SceneIInv
    OBVIOUS
<1>1. Core!Init
    BY DEF MCInit, Init
<1>2. DeviceIInv
    BY <1>1, ScenesAssumption, DeviceInit
<1>3. scene = "twins" => IInv
    BY InitIInv DEF MCInit
<1>4. scene = "emulated" => ClientIInv
    BY ClientStarts DEF MCInit, Init, Qemu!Init, Client!Init, Qemu!None, Client!None
<1>5. Firmware!Boot => Firmware!Attempt
    <2> SUFFICES ASSUME Firmware!Boot PROVE Firmware!Attempt
        OBVIOUS
    <2>1. pc = "input" /\ qemuSequence = 0 /\ DOMAIN qemuMem = Cells
        BY Zenon DEF Firmware!Boot
    <2> QED
        BY <2>1 DEF Firmware!Attempt, Firmware!Phases
<1> QED
    BY <1>2, <1>3, <1>4, <1>5 DEF MCInit, SceneIInv, DeviceIInv, PortableAttributes

\* Why the program passes: an attempt finds what it has done itself.  Its
\* registers are those that Firmware takes for Program.
LEMMA AttemptSteps ==
    ASSUME Firmware!Attempt, Firmware!Main \/ Firmware!SystemReset
    PROVE  Firmware!Attempt'
<1> DEFINE P == File(1, "in", "out", FALSE, "bank", 1)
<1>1. /\ P.input \in Cells /\ P.output \in Cells /\ P.weights \in Cells
      /\ P.input # P.weights /\ ~P.bypass
      /\ P.crc = Crc(1) /\ 2 ^ P.log2n = Modes(1) /\ Result(4, 1) = 5
    BY ScenesAssumption DEF Firmware!FirmwareAssumption
<1>2. /\ pc \in Firmware!Phases /\ DOMAIN qemuMem = Cells
      /\ pc \in {"bank", "configure", "activate", "ready?", "start"} => qemuMem[P.input] = 4
      /\ pc \in {"configure", "activate", "ready?", "start"} => qemuMem[P.weights] = 1
      /\ pc \in {"activate", "ready?", "start", "done?", "compare"} => regs = P
      /\ pc \in {"input", "bank", "configure", "activate", "ready?", "start"} =>
            qemuSequence = 0
      /\ pc = "ready?" => "WEIGHT_READY" \in qemuStatus
      /\ pc = "done?" => "DONE" \in qemuStatus
      /\ pc \in {"done?", "compare"} => qemuMem[P.output] = 5
      /\ pc \in {"done?", "compare", "sequence?"} => qemuSequence = 1
    BY DEF Firmware!Attempt
<1>3. Firmware!Attempt' <=>
      /\ pc' \in Firmware!Phases /\ DOMAIN qemuMem' = Cells
      /\ pc' \in {"bank", "configure", "activate", "ready?", "start"} => qemuMem'[P.input] = 4
      /\ pc' \in {"configure", "activate", "ready?", "start"} => qemuMem'[P.weights] = 1
      /\ pc' \in {"activate", "ready?", "start", "done?", "compare"} => regs' = P
      /\ pc' \in {"input", "bank", "configure", "activate", "ready?", "start"} =>
            qemuSequence' = 0
      /\ pc' = "ready?" => "WEIGHT_READY" \in qemuStatus'
      /\ pc' = "done?" => "DONE" \in qemuStatus'
      /\ pc' \in {"done?", "compare"} => qemuMem'[P.output] = 5
      /\ pc' \in {"done?", "compare", "sequence?"} => qemuSequence' = 1
    BY DEF Firmware!Attempt
<1>4. CASE Firmware!WriteInput
    <2>1. /\ pc = "input" /\ pc' = "bank" /\ qemuMem' = [qemuMem EXCEPT ![P.input] = 4]
          /\ qemuSequence' = qemuSequence
        BY <1>4 DEF Firmware!WriteInput, Firmware!Goto, Firmware!Load, Firmware!reports
    <2> HIDE DEF P
    <2> QED
        BY <1>1, <1>2, <1>3, <2>1 DEF Firmware!Phases
<1>5. CASE Firmware!WriteBank
    <2>1. /\ pc = "bank" /\ pc' = "configure" /\ qemuMem' = [qemuMem EXCEPT ![P.weights] = 1]
          /\ qemuSequence' = qemuSequence
        BY <1>5 DEF Firmware!WriteBank, Firmware!Goto, Firmware!Load, Firmware!reports
    <2> HIDE DEF P
    <2> QED
        BY <1>1, <1>2, <1>3, <2>1 DEF Firmware!Phases
<1>6. CASE Firmware!Configure
    <2>1. /\ pc = "configure" /\ pc' = "activate" /\ qemuMem' = qemuMem /\ regs' = P
          /\ qemuSequence' = qemuSequence
        BY <1>6 DEF Firmware!Configure, Firmware!Goto, Firmware!WriteRegisters, Firmware!reports
    <2> HIDE DEF P
    <2> QED
        BY <1>1, <1>2, <1>3, <2>1 DEF Firmware!Phases
<1>7. CASE Firmware!ActivateBank
    <2>1. pc = "activate" /\ pc' = "ready?" /\ Firmware!Activate
        BY <1>7 DEF Firmware!ActivateBank, Firmware!Goto
    <2> HIDE DEF P
    <2>2. Firmware!BankIntact
        BY <1>1, <1>2, <2>1, TwinsAssumption
        DEF Qemu!QemuAssumption, Firmware!BankIntact, Firmware!BankEmpty, Firmware!Checksum,
            Firmware!Answers
    <2>3. /\ regs' = regs /\ qemuMem' = qemuMem /\ qemuSequence' = qemuSequence
          /\ "WEIGHT_READY" \in qemuStatus'
        BY <2>1, <2>2 DEF Firmware!Activate, Firmware!RefuseBank, Firmware!AcceptBank
    <2> QED
        BY <1>1, <1>2, <1>3, <2>1, <2>3 DEF Firmware!Phases
<1>8. CASE Firmware!StartBlock
    <2>1. pc = "start" /\ pc' = "done?" /\ Firmware!Start
        BY <1>8 DEF Firmware!StartBlock, Firmware!Goto
    <2> HIDE DEF P
    <2>2. Firmware!BankIntact /\ Firmware!BankFits /\ Firmware!Answers(regs.input) /\ ~regs.bypass
        BY <1>1, <1>2, <2>1, TwinsAssumption
        DEF Qemu!QemuAssumption, Firmware!BankIntact, Firmware!BankEmpty, Firmware!Checksum,
            Firmware!BankFits, Firmware!Answers
    <2>3. Firmware!Compute
        BY <2>1, <2>2
        DEF Firmware!Start, Firmware!CopyThrough, Firmware!RejectBank, Firmware!RejectConfig,
            Firmware!FailRead
    <2>4. /\ regs' = regs /\ qemuSequence' = qemuSequence + 1 /\ "DONE" \in qemuStatus'
          /\ qemuMem' = Firmware!Written(regs.output,
                                         Result(qemuMem[regs.input], qemuMem[regs.weights]))
        BY <2>3 DEF Firmware!Compute
    <2>5. qemuMem' = [qemuMem EXCEPT ![P.output] = 5]
        BY <1>1, <1>2, <2>1, <2>4 DEF Firmware!Written, Firmware!Answers
    <2> QED
        BY <1>1, <1>2, <1>3, <2>1, <2>4, <2>5 DEF Firmware!Phases
<1>9. CASE Firmware!CheckReady \/ Firmware!CheckDone \/ Firmware!Compare \/ Firmware!CheckSequence
    <2>1. /\ \/ pc = "ready?" /\ pc' = "start"
             \/ pc = "done?" /\ pc' = "compare"
             \/ pc = "compare" /\ pc' = "sequence?"
             \/ pc = "sequence?" /\ pc' = "PASS"
        BY <1>2, <1>9
        DEF Firmware!CheckReady, Firmware!CheckDone, Firmware!Compare, Firmware!CheckSequence,
            Firmware!Check, Firmware!Goto
    <2>2. UNCHANGED <<regs, qemuMem, qemuSequence, qemuStatus>>
        BY <1>9
        DEF Firmware!CheckReady, Firmware!CheckDone, Firmware!Compare, Firmware!CheckSequence,
            Firmware!Check, Firmware!vars, Firmware!reports
    <2> HIDE DEF P
    <2> QED
        BY <1>2, <1>3, <2>1, <2>2 DEF Firmware!Phases
<1>10. CASE Firmware!SystemReset
    <2>1. pc' = "input" /\ qemuMem' = qemuMem /\ qemuSequence' = 0
        BY <1>10 DEF Firmware!SystemReset, Firmware!Reset, Firmware!SequenceAfterReset
    <2> HIDE DEF P
    <2> QED
        BY <1>2, <1>3, <2>1 DEF Firmware!Phases
<1> QED
    BY <1>4, <1>5, <1>6, <1>7, <1>8, <1>9, <1>10 DEF Firmware!Main

\* Every step of the portable device keeps what is said of it; a step of another
\* scene leaves it alone.
LEMMA PortableStays ==
    ASSUME UNCHANGED portable, PortableAttributes
    PROVE  PortableAttributes'
BY DEF portable, PortableAttributes, Core!ResultNamesItsBank, Core!ReadyMeansCaptured, Core!None

LEMMA TwinsSteps ==
    ASSUME Next
    PROVE  Core!Next
BY DEF Next, WriteRegisters, Load, Reset, BypassSelect, Activate, Start, Core!Next

LEMMA SceneNext ==
    ASSUME SceneIInv, [MCNext]_sceneVars
    PROVE  SceneIInv'
<1> USE DEF SceneIInv
<1>1. CASE scene = "twins" /\ Next /\ UNCHANGED <<attested, program, scene>>
    <2>1. IInv'
        BY <1>1, NextKeeps
    <2>2. DeviceIInv'
        BY <1>1, ScenesAssumption, TwinsSteps, DeviceNextKeeps
    <2>3. PortableAttributes'
        BY <2>2 DEF DeviceIInv, PortableAttributes
    <2>4. scene' = "twins"
        BY <1>1
    <2> QED
        BY <2>1, <2>2, <2>3, <2>4
<1>2. CASE scene = "portable" /\ Core!Next /\ UNCHANGED <<emulated, drivers, program, scene>>
    <2>1. DeviceIInv'
        BY <1>2, ScenesAssumption, DeviceNextKeeps
    <2>2. scene' = "portable"
        BY <1>2
    <2> QED
        BY <2>1, <2>2 DEF DeviceIInv, PortableAttributes
<1>3. CASE /\ scene = "emulated" /\ Client!ClientNext
           /\ UNCHANGED <<portable, buffered, program, scene>>
    <2>1. scene' = "emulated" /\ ClientIInv'
        BY <1>3, ClientKeeps
    <2> QED
        BY <1>3, <2>1, PortableStays
<1>4. CASE /\ scene = "program" /\ (Firmware!Main \/ Firmware!SystemReset)
           /\ UNCHANGED <<portable, drivers, scene>>
    <2>1. scene' = "program" /\ Firmware!Attempt'
        BY <1>4, AttemptSteps
    <2> QED
        BY <1>4, <2>1, PortableStays
<1>5. CASE UNCHANGED sceneVars
    <2>1. UNCHANGED portable /\ scene' = scene
        BY <1>5 DEF sceneVars
    <2>2. UNCHANGED vars /\ UNCHANGED Core!vars /\ UNCHANGED Client!clientVars
        BY <1>5 DEF sceneVars, emulated, portable, drivers, vars, Core!vars, Core!reports,
                    Qemu!vars, Qemu!reports, Client!clientVars, Client!vars, Client!reports
    <2>3. scene = "twins" => IInv'
        BY <2>2, NextKeeps
    <2>4. scene \in {"twins", "portable"} => DeviceIInv'
        BY <2>2, ScenesAssumption, DeviceNextKeeps
    <2>5. scene = "emulated" => ClientIInv'
        BY <2>2, ClientKeeps
    <2>6. scene = "program" => Firmware!Attempt'
        BY <1>5 DEF sceneVars, program, emulated, Firmware!Attempt
    <2> QED
        BY <2>1, <2>3, <2>4, <2>5, <2>6, PortableStays
<1> QED
    BY <1>1, <1>2, <1>3, <1>4, <1>5 DEF MCNext, Program

\* What the scenes' theorems rest on.
THEOREM ScenesInvariant == MCSpec => []SceneIInv
BY SceneInit, SceneNext, PTL DEF MCSpec

\* To a disciplined driver the portable and the QEMU device are one, blocks that fail
\* included, and both attribute results to their bank: in the scene of the twins, for
\* any memory, bank, checksum and driver.
THEOREM TwinsRemainOne == MCSpec => []TwinsAreOne
<1>1. SceneIInv => TwinsAreOne
    BY DEF SceneIInv, IInv, TwinsAreOne
<1> QED
    BY <1>1, ScenesInvariant, PTL

\* In every scene a result of the portable device is attributed to its bank, and
\* WEIGHT_READY says that the bank ACTIVE_WT_CRC names is captured.
THEOREM PortableResultsAttributed == MCSpec => []PortableAttributes
<1>1. SceneIInv => PortableAttributes
    BY DEF SceneIInv
<1> QED
    BY <1>1, ScenesInvariant, PTL

\* In the scene of the QEMU device alone a driver that leaves WEIGHT_CRC alone finds
\* every result attributed to its bank, and no answer outlives the next START.
THEOREM EmulatedResultsAttributed == MCSpec => []EmulatedAttributes
<1>1. SceneIInv => EmulatedAttributes
    BY DEF SceneIInv, ClientIInv, EmulatedAttributes
<1> QED
    BY <1>1, ScenesInvariant, PTL

\* No attempt of the bare-metal program comes to a FAIL exit, whatever RAM held at
\* the start and wherever the resets strike: what ProgramPasses leaves open of an
\* attempt that is not the last.
THEOREM ProgramNeverFails == MCSpec => []NoAttemptFails
<1>1. SceneIInv => NoAttemptFails
    BY DEF SceneIInv, NoAttemptFails, Firmware!Attempt, Firmware!NeverFails
<1> QED
    BY <1>1, ScenesInvariant, PTL
=============================================================================
