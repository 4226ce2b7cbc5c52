---------------------------- MODULE OperatorTwins ----------------------------
(***************************************************************************)
(* The portable operator and the QEMU operator under one driver, each with *)
(* a memory of its own.  A disciplined driver names a bank before it       *)
(* activates and activates before it starts, changes neither the bank nor  *)
(* the registers that name it in between, and gives an operator block an   *)
(* output buffer that is in memory; every other buffer may be outside.     *)
(***************************************************************************)
EXTENDS Integers

CONSTANTS
    Cells, Contents, Blank, Crc(_), Modes(_), Result(_, _),
    Files, NoFile, Loads, MaxResults

VARIABLES
    regs,                                           \* the driver writes both
    coreStatus, coreError, coreSequence, coreActive, coreResult,
    coreTable, coreMem, coreUsed,                   \* the portable device
    qemuStatus, qemuError, qemuSequence, qemuActive, qemuResult,
    qemuMem, qemuUsed,                              \* the QEMU device
    trusted,        \* the driver's own: the latest ACTIVATE succeeded, and the
                    \* bank and its registers are as they were then
    buffered        \* and: memory answers the buffers of the latest START

Core == INSTANCE OperatorDevice WITH
    status <- coreStatus, errorCode <- coreError, sequence <- coreSequence,
    activeCrc <- coreActive, resultCrc <- coreResult, table <- coreTable,
    mem <- coreMem, used <- coreUsed

Qemu == INSTANCE P210Operator WITH
    status <- qemuStatus, errorCode <- qemuError, sequence <- qemuSequence,
    activeCrc <- qemuActive, resultCrc <- qemuResult,
    mem <- qemuMem, used <- qemuUsed

ASSUME TwinsAssumption ==
    /\ NoFile \in Files
    /\ Qemu!QemuAssumption
    /\ \A file \in Files :
        DOMAIN file = Core!Fields /\ [file EXCEPT !.bypass = TRUE] \in Files

vars == <<Core!vars, Qemu!vars, trusted, buffered>>

Init == Core!Init /\ Qemu!Init /\ trusted = FALSE /\ buffered = TRUE

WriteRegisters(file) ==
    /\ Core!WriteRegisters(file) /\ Qemu!WriteRegisters(file)
    /\ trusted' = (trusted /\ file.weights = regs.weights /\ file.crc = regs.crc)
    /\ buffered' = buffered

Load(cell, contents) ==
    /\ Core!Load(cell, contents) /\ Qemu!Load(cell, contents)
    /\ trusted' = (trusted /\ cell # regs.weights)
    /\ buffered' = buffered

Reset == Core!Reset /\ Qemu!Reset /\ trusted' = FALSE /\ buffered' = buffered

BypassSelect ==
    Core!BypassSelect /\ Qemu!BypassSelect /\ UNCHANGED <<trusted, buffered>>

\* The driver has programmed WEIGHT_ADDR and WEIGHT_BYTES: of the registers that
\* a reset leaves, one device accepts the bank of no bytes and the other does not.
\* It looks at BANK_CRC_FAIL.
Activate ==
    /\ ~Qemu!BankEmpty
    /\ Core!Activate /\ Qemu!Activate
    /\ trusted' = ("BANK_CRC_FAIL" \notin qemuStatus')
    /\ buffered' = buffered

Start ==
    /\ regs.bypass \/ (trusted /\ regs.output \in Cells)
    /\ Core!Start /\ Qemu!Start
    /\ trusted' = (trusted /\ regs.output # regs.weights)
    /\ buffered' = ({regs.input, regs.output} \subseteq Cells)

Next ==
    \/ \E file \in Files : WriteRegisters(file)
    \/ \E load \in Loads : Load(load[1], load[2])
    \/ Reset \/ BypassSelect \/ Activate \/ Start

Spec == Init /\ [][Next]_vars
-----------------------------------------------------------------------------
(* What is checked.                                                        *)

\* The portable device answers as the QEMU device does, or gives no answer to a
\* START whose buffers it cannot reach.
SameAnswer ==
    \/ coreStatus = qemuStatus
    \/ ~buffered /\ coreStatus = qemuStatus \ {"DONE", "ERROR"}

\* p210_operator_device.h: "the MMIO read/write/reset handlers are thin adapters".
\* To a disciplined driver the two devices are one: errors, refused banks, counts,
\* attributions and every buffer are the same, also after a START that failed.
TwinsAgree ==
    /\ SameAnswer
    /\ <<coreError, coreSequence, coreActive, coreResult>> =
       <<qemuError, qemuSequence, qemuActive, qemuResult>>
    /\ coreMem = qemuMem

\* With such a driver the QEMU device attributes results to their bank, too, and
\* no answer of either device outlives the next START.
TwinsAttribute == Qemu!ResultNamesItsBank /\ Core!AnswersExclude /\ Qemu!AnswersExclude
=============================================================================
