---------------------------- MODULE P210Operator ----------------------------
(***************************************************************************)
(* p210_operator.c: P210OperatorState, the operator as a QEMU device, with *)
(* the registers and the abstractions of OperatorDevice.  It keeps no bank *)
(* of its own: START reads and checks the one that the registers name then.*)
(* After a reset they name a bank of no bytes, which every check passes.   *)
(***************************************************************************)
EXTENDS Integers

CONSTANTS
    Cells, Contents, Blank, Crc(_), Modes(_), Result(_, _),
    Files, NoFile, Loads, MaxResults    \* as in OperatorDevice

\* Assumed of the constants: a driver programs WEIGHT_BYTES before it clears
\* BYPASS.  Of a bank of no bytes p210_op_run would read the number of modes.
QemuAssumption ==
    /\ NoFile.weights \notin Cells
    /\ \A file \in Files : file.weights = NoFile.weights => file.bypass

VARIABLES
    regs, status, errorCode, sequence, activeCrc, resultCrc, mem,
    used                \* history: the bank of the latest result

reports == <<status, errorCode, sequence, activeCrc, resultCrc>>
vars    == <<regs, reports, mem, used>>

None == {}

Init ==
    /\ regs = NoFile
    /\ status = {} /\ errorCode = "NONE"
    /\ sequence = 0 /\ activeCrc = 0 /\ resultCrc = 0
    /\ used = None
    /\ mem = [c \in Cells |-> Blank]

WriteRegisters(file) ==
    /\ regs' = file
    /\ UNCHANGED <<reports, mem, used>>

Load(cell, contents) ==
    /\ mem' = [mem EXCEPT ![cell] = contents]
    /\ UNCHANGED <<regs, reports, used>>

\* Bug: the count of results survives a reset, as in p210_rtl.c's soft reset.
CountOn == sequence

SequenceAfterReset == 0

\* Device reset and CONTROL.SOFT_RESET.
Reset ==
    /\ regs' = NoFile
    /\ status' = {} /\ errorCode' = "NONE"
    /\ sequence' = SequenceAfterReset /\ activeCrc' = 0 /\ resultCrc' = 0
    /\ used' = None
    /\ mem' = mem

BypassSelect ==
    /\ regs' = [regs EXCEPT !.bypass = TRUE]
    /\ UNCHANGED <<reports, mem, used>>

\* dma_memory_read and dma_memory_write.
Answers(cell) == cell \in Cells

\* WEIGHT_BYTES is 0, as after a reset: the DMA of nothing succeeds anywhere.
BankEmpty == regs.weights = NoFile.weights

\* op_crc32; of nothing it is 0.
Checksum == IF BankEmpty THEN 0 ELSE Crc(mem[regs.weights])

BankIntact == (BankEmpty \/ Answers(regs.weights)) /\ Checksum = regs.crc

RefuseBank ==
    /\ ~BankIntact
    /\ errorCode' = "BANK_INTEGRITY" /\ status' = status \cup {"BANK_CRC_FAIL"}
    /\ UNCHANGED <<regs, sequence, activeCrc, resultCrc, mem, used>>

\* Bug: the checksum of the first bank stays live.
FirstChecksum == IF activeCrc = 0 THEN Checksum ELSE activeCrc

LiveChecksum == Checksum

AcceptBank ==
    /\ BankIntact
    /\ activeCrc' = LiveChecksum
    /\ status' = (status \ {"BANK_CRC_FAIL"}) \cup {"WEIGHT_READY"}
    /\ UNCHANGED <<regs, errorCode, sequence, resultCrc, mem, used>>

\* p210_op_activate.
Activate == RefuseBank \/ AcceptBank

\* Bug: the answer of the earlier block stays in STATUS.
KeepsAnswer == status

Cleared == status \ {"DONE", "ERROR"}

\* What a DMA write leaves behind; its result is not looked at.
Written(cell, contents) == IF Answers(cell) THEN [mem EXCEPT ![cell] = contents] ELSE mem

CopyThrough ==
    /\ regs.bypass
    /\ mem' = IF Answers(regs.input) THEN Written(regs.output, mem[regs.input]) ELSE mem
    /\ status' = Cleared \cup {"DONE"}
    /\ UNCHANGED <<regs, errorCode, sequence, activeCrc, resultCrc, used>>

Fail(error, causes) ==
    /\ errorCode' = error /\ status' = Cleared \cup causes
    /\ UNCHANGED <<regs, sequence, activeCrc, resultCrc, mem, used>>

RejectBank ==
    /\ ~regs.bypass /\ ~BankIntact
    /\ Fail("BANK_INTEGRITY", {"ERROR", "BANK_CRC_FAIL"})

BankFits == Modes(mem[regs.weights]) = 2 ^ regs.log2n

RejectConfig ==
    /\ ~regs.bypass /\ BankIntact /\ ~BankFits
    /\ Fail("BAD_OP_CONFIG", {"ERROR"})

\* The error code keeps what an earlier failure left in it.
FailRead ==
    /\ ~regs.bypass /\ BankIntact /\ BankFits /\ ~Answers(regs.input)
    /\ Fail(errorCode, {"ERROR"})

\* Bug: a bank that ACTIVATE has accepted is not checked again.
CheckedOnce == BankIntact \/ ("WEIGHT_READY" \in status /\ Answers(regs.weights))

Checked == BankIntact

Compute ==
    /\ ~regs.bypass /\ Checked /\ BankFits /\ Answers(regs.input)
    /\ sequence < MaxResults
    /\ mem' = Written(regs.output, Result(mem[regs.input], mem[regs.weights]))
    /\ used' = {mem[regs.weights]}
    /\ sequence' = sequence + 1 /\ resultCrc' = activeCrc
    /\ status' = Cleared \cup {"DONE"}
    /\ UNCHANGED <<regs, errorCode, activeCrc>>

\* p210_op_run.
Start == CopyThrough \/ RejectBank \/ RejectConfig \/ FailRead \/ Compute

Next ==
    \/ \E file \in Files : WriteRegisters(file)
    \/ \E load \in Loads : Load(load[1], load[2])
    \/ Reset \/ BypassSelect \/ Activate \/ Start

Spec == Init /\ [][Next]_vars
-----------------------------------------------------------------------------
(* What is checked.                                                        *)

\* DONE and ERROR answer the latest START only, and exclude each other.
AnswersExclude == ~({"DONE", "ERROR"} \subseteq status)

\* What p210_operator_device.h and the tests say of the operator: a result is
\* attributed to the bank it was computed with.
ResultNamesItsBank == \A bank \in used : resultCrc = Crc(bank)
=============================================================================
