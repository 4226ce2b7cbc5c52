------------------------------ MODULE P210Fft ------------------------------
(***************************************************************************)
(* p210_fft.c: P210FFTState, the FFT accelerator behind its registers.     *)
(*                                                                         *)
(* A write of CONTROL.START runs the whole job - checks, DMA read,         *)
(* transform, DMA write - before the register write returns, so it is one  *)
(* action and BUSY is never seen between two actions: QEMU refuses a DMA   *)
(* of the device into its own registers, the only way back in.  The        *)
(* transform itself is the operator Power; PowerFft models the arithmetic. *)
(*                                                                         *)
(* A channel mask is the set of its bits and STATUS a set of causes.       *)
(***************************************************************************)
EXTENDS Integers, FiniteSets

CONSTANTS
    Ram,                    \* words of the memory
    Words, Blank,           \* contents of a word, and of RAM that nobody wrote
    Power(_, _),            \* one bin of the power spectrum of some samples
    MinLog2N, MaxLog2N,     \* P210_FFT_MIN_LOG2_N, P210_FFT_MAX_LOG2_N
    MaxChannels,            \* P210_FFT_MAX_CHANNELS
    AddressSpace,           \* 2^32
    Files,                  \* bound: register files a driver programs
    Patched,                \* bound: words a driver changes between jobs
    MaxStarts               \* bound: starts between two resets

Memory == INSTANCE GuestMemory

WordBytes == 4   \* P210_FFT_BYTES_PER_COMPLEX, P210_FFT_BYTES_PER_POWER

Registers ==
    [log2n : Nat, channels : Nat, mask : SUBSET Nat, sequence : Nat,
     input : Nat, inputBytes : Nat, output : Nat, outputBytes : Nat]

ResetFile ==
    [log2n |-> MinLog2N, channels |-> MaxChannels, mask |-> {0, 1}, sequence |-> 0,
     input |-> 0, inputBytes |-> 0, output |-> 0, outputBytes |-> 0]

ASSUME FftAssumption ==
    /\ Ram \subseteq Nat /\ Blank \in Words
    /\ MinLog2N \in Nat /\ MaxLog2N \in Nat
    /\ MaxChannels \in Nat \ {0} /\ AddressSpace \in Nat
    /\ Files \subseteq Registers /\ ResetFile \in Files
    /\ \A file \in Files : IsFiniteSet(file.mask) /\ 2 ^ file.log2n \in Nat \ {0}
    /\ Patched \subseteq Ram
    /\ \A log2n \in MinLog2N .. MaxLog2N :
        \A samples \in [0 .. 2 ^ log2n - 1 -> Words], bin \in 0 .. 2 ^ log2n - 1 :
            Power(samples, bin) \in Words
    /\ MaxStarts \in Nat

Errors ==
    {"NONE", "BAD_LOG2_N", "BAD_CHANNELS", "BAD_ALIGNMENT", "BAD_LENGTH",
     "ADDRESS_RANGE", "BUFFER_OVERLAP", "ALLOCATION", "DMA_READ", "DMA_WRITE"}

Causes == {"DONE", "ERROR"}

VARIABLES
    regs,               \* the registers a driver programs
    irqEnable,          \* CONTROL.IRQ_ENABLE
    status,             \* STATUS
    errorCode, resultSequence, bins,
    completed, errors,  \* completed_count, error_count
    line,               \* the interrupt line
    mem,
    starts,             \* history: starts since the latest reset
    latest              \* history: SEQUENCE at the latest start

results == <<errorCode, resultSequence, bins, completed, errors>>
history == <<starts, latest>>
vars    == <<regs, irqEnable, status, results, line, mem, history>>

-----------------------------------------------------------------------------
(* A job, as the registers of the file f describe it.                      *)

Points(f)    == 2 ^ f.log2n
InputSize(f) == Points(f) * f.channels * WordBytes
BinCount(f)  == Points(f) * Cardinality(f.mask)

OutputSize(f) == BinCount(f) * WordBytes

InputWords(f)  == Memory!Span(f.input \div WordBytes, f.inputBytes \div WordBytes)
OutputWords(f) == Memory!Span(f.output \div WordBytes, f.outputBytes \div WordBytes)

\* Bug: only an output that begins inside the input counts as overlapping it.
BeginsInside(f) ==
    f.input <= f.output /\ f.output < f.input + f.inputBytes

Overlaps(f) ==
    /\ f.input < f.output + f.outputBytes
    /\ f.output < f.input + f.inputBytes

\* p210_fft_validate's checks, in its order.
Checks(f) == <<
    <<"BAD_LOG2_N",     f.log2n \notin MinLog2N .. MaxLog2N>>,
    <<"BAD_CHANNELS",   \/ f.channels \notin 1 .. MaxChannels
                        \/ f.mask = {} \/ ~(f.mask \subseteq 0 .. f.channels - 1)>>,
    <<"BAD_ALIGNMENT",  f.input % WordBytes # 0 \/ f.output % WordBytes # 0>>,
    <<"BAD_LENGTH",     f.inputBytes # InputSize(f) \/ f.outputBytes # OutputSize(f)>>,
    <<"ADDRESS_RANGE",  \/ f.input + f.inputBytes > AddressSpace
                        \/ f.output + f.outputBytes > AddressSpace>>,
    <<"BUFFER_OVERLAP", Overlaps(f)>> >>

Failing(f) == {i \in DOMAIN Checks(f) : Checks(f)[i][2]}

Verdict(f) ==
    IF Failing(f) = {} THEN "NONE"
    ELSE Checks(f)[CHOOSE i \in Failing(f) : \A j \in Failing(f) : i <= j][1]

\* The samples of channel c; channels alternate from sample to sample.
Samples(f, m, c) ==
    [s \in 0 .. Points(f) - 1 |-> m[f.input \div WordBytes + s * f.channels + c]]

\* The spectra of the selected channels follow each other.
Place(f, c) == Cardinality({d \in f.mask : d < c})

Spectra(f, m) ==
    [w \in UNION {Memory!Span(Place(f, c) * Points(f), Points(f)) : c \in f.mask} |->
        LET c == CHOOSE c \in f.mask : Place(f, c) = w \div Points(f)
        IN  Power(Samples(f, m, c), w % Points(f))]

\* The memory after the DMA write of the job's spectra.
Job(f, m) == Memory!Stored(m, f.output \div WordBytes, Spectra(f, m))

-----------------------------------------------------------------------------
Init ==
    /\ regs = ResetFile /\ irqEnable = FALSE /\ status = {} /\ line = FALSE
    /\ errorCode = "NONE" /\ resultSequence = 0 /\ bins = 0
    /\ completed = 0 /\ errors = 0
    /\ mem = [a \in Ram |-> Blank]
    /\ starts = 0 /\ latest = 0

\* p210_fft_update_irq.
Level(causes, enable) == causes # {} /\ enable

\* What a driver reads from STATUS.
StatusRead == status \cup IF Level(status, irqEnable) THEN {"IRQ_PENDING"} ELSE {}

\* Writes of the job registers, up to the next access that depends on them.
Program ==
    /\ regs' \in Files
    /\ UNCHANGED <<irqEnable, status, results, line, mem, history>>

WriteMemory ==
    /\ \E a \in Patched, word \in Words : mem' = [mem EXCEPT ![a] = word]
    /\ UNCHANGED <<regs, irqEnable, status, results, line, history>>

\* Device reset, and CONTROL.SOFT_RESET whatever else the write says.
Reset ==
    /\ regs' = ResetFile /\ irqEnable' = FALSE /\ status' = {} /\ line' = FALSE
    /\ errorCode' = "NONE" /\ resultSequence' = 0 /\ bins' = 0
    /\ completed' = 0 /\ errors' = 0
    /\ mem' = mem
    /\ starts' = 0 /\ latest' = 0

EnableIrq ==
    /\ irqEnable' \in BOOLEAN
    /\ line' = Level(status, irqEnable')
    /\ UNCHANGED <<regs, status, results, mem, history>>

Acknowledge ==
    /\ \E causes \in SUBSET Causes : status' = status \ causes
    /\ line' = Level(status', irqEnable)
    /\ UNCHANGED <<regs, irqEnable, results, mem, history>>

\* Bug: a failed job leaves the bins of the job before.
KeepsBins(error) ==
    /\ status' = {"ERROR"} /\ errorCode' = error /\ errors' = errors + 1
    /\ UNCHANGED <<bins, completed, resultSequence>>

\* Bug: a job that fails leaves DONE of the job before.
LeavesDone(error) ==
    /\ status' = status \cup {"ERROR"} /\ errorCode' = error /\ bins' = 0
    /\ errors' = errors + 1
    /\ UNCHANGED <<completed, resultSequence>>

FinishFailed(error) ==
    /\ status' = {"ERROR"} /\ errorCode' = error /\ bins' = 0
    /\ errors' = errors + 1
    /\ UNCHANGED <<completed, resultSequence>>

FinishDone ==
    /\ status' = {"DONE"} /\ errorCode' = "NONE" /\ bins' = BinCount(regs)
    /\ completed' = completed + 1 /\ resultSequence' = regs.sequence
    /\ errors' = errors

Begin ==
    /\ starts < MaxStarts
    /\ starts' = starts + 1 /\ latest' = regs.sequence
    /\ irqEnable' \in BOOLEAN
    /\ line' = irqEnable'       \* the answer, whichever it is, is a cause
    /\ regs' = regs

Reject ==
    /\ Begin
    /\ Verdict(regs) # "NONE"
    /\ FinishFailed(Verdict(regs))
    /\ mem' = mem

\* The host has no memory for the job's buffers.
FailAllocation ==
    /\ Begin
    /\ Verdict(regs) = "NONE"
    /\ FinishFailed("ALLOCATION")
    /\ mem' = mem

FailRead ==
    /\ Begin
    /\ Verdict(regs) = "NONE"
    /\ ~(InputWords(regs) \subseteq Ram)
    /\ FinishFailed("DMA_READ")
    /\ mem' = mem

Transform ==
    /\ Begin
    /\ Verdict(regs) = "NONE"
    /\ InputWords(regs) \subseteq Ram
    /\ mem' = Job(regs, mem)
    /\ IF OutputWords(regs) \subseteq Ram THEN FinishDone
                                          ELSE FinishFailed("DMA_WRITE")

\* Bug: the interrupt line, which is not part of the saved state, stays low.
LoadLow == FALSE

\* p210_fft_post_load drives the line of the new machine.
LoadedLine == Level(status, irqEnable)

Migrate ==
    /\ line' = LoadedLine
    /\ UNCHANGED <<regs, irqEnable, status, results, mem, history>>

Next ==
    \/ Program \/ WriteMemory \/ EnableIrq \/ Acknowledge \/ Reset \/ Migrate
    \/ Reject \/ FailAllocation \/ FailRead \/ Transform

Spec == Init /\ [][Next]_vars
-----------------------------------------------------------------------------
(* What is checked.                                                        *)

\* The types of the registers, the counters and the memory.
TypeOK ==
    /\ regs \in Files /\ latest \in Nat
    /\ irqEnable \in BOOLEAN /\ line \in BOOLEAN
    /\ status \subseteq Causes /\ errorCode \in Errors
    /\ resultSequence \in Nat /\ bins \in Nat
    /\ completed \in Nat /\ errors \in Nat /\ starts \in Nat
    /\ mem \in [Ram -> Words]

\* Acknowledging a cause, enabling interrupts, finishing a job, a reset and a
\* migration leave the level-triggered line where the STATUS that a driver reads
\* says it is: an interrupt handler finds IRQ_PENDING exactly while it is called.
LineFollowsStatus == line <=> "IRQ_PENDING" \in StatusRead

\* p210_fft_start counts every start exactly once.
EveryStartCounted == completed + errors = starts

\* A driver that sees DONE finds no error, bins, and the sequence number of its
\* own start; one that sees ERROR finds a reason and no bins.  DONE and ERROR
\* exclude each other.
StatusCoherent ==
    /\ "DONE" \in status =>
        errorCode = "NONE" /\ bins > 0 /\ resultSequence = latest
    /\ "ERROR" \in status => errorCode # "NONE" /\ bins = 0
    /\ status # Causes

\* RESULT_SEQUENCE is kept over failed jobs, so it may name an older job; as
\* long as BINS_WRITTEN is not zero it names the latest start.
BinsNameLatestStart == bins # 0 => resultSequence = latest

\* A start changes no word outside the output buffer, and none of its input,
\* also when the DMA write stops halfway.
InputSurvives ==
    [][starts' > starts =>
        \A a \in Ram : mem'[a] # mem[a] =>
            a \in OutputWords(regs) \ InputWords(regs)]_vars

\* The accelerator implements the driver's contract.
Said == CASE "DONE" \in status -> "done"
          [] "ERROR" \in status -> "failed"
          [] OTHER -> "idle"

Contract ==
    INSTANCE AcceleratorContract WITH
        Job <- Job, Output <- OutputWords,
        status <- Said, serial <- completed

ImplementsContract == Contract!Spec
=============================================================================
