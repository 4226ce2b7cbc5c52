--------------------------- MODULE OperatorDevice ---------------------------
(***************************************************************************)
(* p210_operator_device.c: P210OperatorDevice, the portable register and   *)
(* DMA state machine of the operator.  ACTIVATE checks a weight bank in    *)
(* memory and captures it; START computes a block with the captured bank.  *)
(*                                                                         *)
(* A buffer of memory is one cell, whose contents is a block of samples or *)
(* a bank; an address that dma_ptr refuses is no cell, 0 among them, where *)
(* WEIGHT_ADDR points after a reset: the memory begins above it.           *)
(* WEIGHT_BYTES and OP_THRESHOLD go with the address and the bank.         *)
(* Drivers do not write the registers that report: the device would let    *)
(* them.                                                                   *)
(***************************************************************************)
EXTENDS Integers

CONSTANTS
    Cells,              \* the buffers in memory
    Contents, Blank,    \* what a buffer holds, and holds when nobody wrote it
    Crc(_), Modes(_),   \* checksum and number of modes of a bank
    Result(_, _),       \* the block computed from samples and a bank
    Files,              \* bound: register files a driver programs
    NoFile,             \* the registers after a reset
    Loads,              \* bound: what a driver writes, <<cell, contents>>
    MaxResults          \* bound: RESULT_SEQUENCE

Fields == {"log2n", "input", "output", "bypass", "weights", "crc"}

\* Assumed of the constants.
OperatorAssumption ==
    /\ Blank \in Contents
    /\ \A samples \in Contents, bank \in Contents : Result(samples, bank) \in Contents
    /\ Loads \subseteq Cells \X Contents
    /\ NoFile \in Files
    /\ \A file \in Files : DOMAIN file = Fields
    /\ \A file \in Files : file.bypass \in BOOLEAN /\ [file EXCEPT !.bypass = TRUE] \in Files
    /\ NoFile.bypass = TRUE /\ NoFile.weights \notin Cells

VARIABLES
    regs,               \* LOG2_N, INPUT, OUTPUT2, BYPASS, WEIGHT_ADDR, WEIGHT_CRC
    status, errorCode,
    sequence, activeCrc, resultCrc,
    table,              \* wt_re, wt_im, wt_modes: the captured bank, {} if none
    mem,
    used                \* history: the bank of the latest result

reports == <<status, errorCode, sequence, activeCrc, resultCrc>>
vars    == <<regs, reports, table, mem, used>>

None == {}

Init ==
    /\ regs = NoFile
    /\ status = {} /\ errorCode = "NONE"
    /\ sequence = 0 /\ activeCrc = 0 /\ resultCrc = 0
    /\ table = None /\ used = None
    /\ mem = [c \in Cells |-> Blank]

WriteRegisters(file) ==
    /\ regs' = file
    /\ UNCHANGED <<reports, table, mem, used>>

\* The driver fills a buffer.
Load(cell, contents) ==
    /\ mem' = [mem EXCEPT ![cell] = contents]
    /\ UNCHANGED <<regs, reports, table, used>>

\* wt_modes = 0: no block matches the bank that is still allocated.
BankAfterReset == None

\* p210_dev_reset.
Reset ==
    /\ regs' = NoFile
    /\ status' = {} /\ errorCode' = "NONE"
    /\ sequence' = 0 /\ activeCrc' = 0 /\ resultCrc' = 0
    /\ table' = BankAfterReset /\ used' = None
    /\ mem' = mem

BypassSelect ==
    /\ regs' = [regs EXCEPT !.bypass = TRUE]
    /\ UNCHANGED <<reports, table, mem, used>>

Readable(cell) == cell \in Cells

BankIntact == Readable(regs.weights) /\ Crc(mem[regs.weights]) = regs.crc

RefuseBank ==
    /\ ~BankIntact
    /\ errorCode' = "BANK_INTEGRITY" /\ status' = status \cup {"BANK_CRC_FAIL"}
    /\ UNCHANGED <<regs, sequence, activeCrc, resultCrc, table, mem, used>>

\* Bug: the checksum goes live, the bank stays where it is.
Uncaptured == IF table = None THEN {mem[regs.weights]} ELSE table

Captured == {mem[regs.weights]}

AcceptBank ==
    /\ BankIntact
    /\ table' = Captured
    /\ activeCrc' = Crc(mem[regs.weights])
    /\ status' = (status \cup {"WEIGHT_READY"}) \ {"BANK_CRC_FAIL"}
    /\ UNCHANGED <<regs, errorCode, sequence, resultCrc, mem, used>>

\* CONTROL.WEIGHT_ACTIVATE, activate_bank.
Activate == RefuseBank \/ AcceptBank

Cleared == status \ {"DONE", "ERROR"}

Buffers == Readable(regs.input) /\ Readable(regs.output)

CopyThrough ==
    /\ regs.bypass /\ Buffers
    /\ mem' = [mem EXCEPT ![regs.output] = mem[regs.input]]
    /\ status' = Cleared \cup {"DONE"}
    /\ UNCHANGED <<regs, errorCode, sequence, activeCrc, resultCrc, table, used>>

BankFits == \E bank \in table : Modes(bank) = 2 ^ regs.log2n

RejectConfig ==
    /\ ~regs.bypass /\ ~BankFits
    /\ errorCode' = "BAD_OP_CONFIG" /\ status' = Cleared \cup {"ERROR"}
    /\ UNCHANGED <<regs, sequence, activeCrc, resultCrc, table, mem, used>>

\* A buffer outside the memory: the block ends without an answer.
Unanswered ==
    /\ regs.bypass \/ BankFits
    /\ ~Buffers
    /\ status' = Cleared
    /\ UNCHANGED <<regs, errorCode, sequence, activeCrc, resultCrc, table, mem, used>>

Compute ==
    /\ ~regs.bypass /\ BankFits /\ Buffers
    /\ sequence < MaxResults
    /\ \E bank \in table :
        /\ mem' = [mem EXCEPT ![regs.output] = Result(mem[regs.input], bank)]
        /\ used' = {bank}
    /\ sequence' = sequence + 1 /\ resultCrc' = activeCrc
    /\ status' = Cleared \cup {"DONE"}
    /\ UNCHANGED <<regs, errorCode, activeCrc, table>>

\* CONTROL.START, run_block.
Start == CopyThrough \/ RejectConfig \/ Unanswered \/ Compute

Next ==
    \/ \E file \in Files : WriteRegisters(file)
    \/ \E load \in Loads : Load(load[1], load[2])
    \/ Reset \/ BypassSelect \/ Activate \/ Start

Spec == Init /\ [][Next]_vars
-----------------------------------------------------------------------------
(* What is checked.                                                        *)

\* The types of the registers and the memory.
TypeOK ==
    /\ regs \in Files
    /\ status \subseteq {"DONE", "ERROR", "WEIGHT_READY", "BANK_CRC_FAIL"}
    /\ errorCode \in {"NONE", "BANK_INTEGRITY", "BAD_OP_CONFIG"}
    /\ sequence \in Nat
    /\ table \subseteq Contents /\ used \subseteq Contents
    /\ mem \in [Cells -> Contents]

\* Per-result weight attribution: whatever the driver did to the registers and
\* to the bank in memory since, RESULT_WT_CRC is the checksum of the very bank
\* that the latest result was computed with.
ResultNamesItsBank == \A bank \in used : resultCrc = Crc(bank)

\* WEIGHT_READY says that a bank is captured, and ACTIVE_WT_CRC is its checksum;
\* a bank refused later changes neither.
ReadyMeansCaptured ==
    /\ "WEIGHT_READY" \in status <=> table # None
    /\ \A bank \in table : activeCrc = Crc(bank)

\* DONE and ERROR answer the latest START only, and exclude each other.
AnswersExclude == ~({"DONE", "ERROR"} \subseteq status)
=============================================================================
