------------------------------- MODULE P210Rtl -------------------------------
(***************************************************************************)
(* p210_rtl.c: P210RtlState, the device that runs a Verilated block, and   *)
(* the block behind its ABI (rtl_block.h, fft_block_shim.cpp,              *)
(* p210_fft_synth.v).  CONTROL.START loads the samples into the block,     *)
(* starts it, clocks it until it is done or RTL_MAX_CYCLES have passed,    *)
(* and reads its results, all within one register write.                   *)
(*                                                                         *)
(* A buffer is one cell, a block of samples one value, as in               *)
(* OperatorDevice; the block's samples are those cut to 24 bits.           *)
(***************************************************************************)
EXTENDS Integers

CONSTANTS
    Cells,              \* the buffers that RAM answers
    Contents, Blank,    \* what a buffer and the block's memory hold
    Transform(_),       \* what the block computes
    BlockLog2N,         \* rtl_log2n
    Files, NoFile,      \* bound: register files a driver programs; the reset one
    Loads,              \* bound: what a driver writes, <<cell, contents>>
    Libraries,          \* what P210_RTL_LIB may name, of those below
    Hanging,            \* those whose block may never be done
    MaxStarts,          \* bound: starts between two resets
    MaxResults          \* bound: results between two device resets

\* No library or one without the ABI's symbols; one without rtl_reset, which
\* the device does not insist on; a complete one.
RtlAssumption ==
    /\ Libraries \subseteq {"none", "no reset", "complete"}
    /\ Blank \in Contents /\ \A samples \in Contents : Transform(samples) \in Contents
    /\ NoFile \in Files /\ Loads \subseteq Cells \X Contents
    /\ MaxStarts \in Nat /\ MaxResults \in Nat

VARIABLES
    regs,               \* LOG2_N, INPUT_ADDR, OUTPUT_ADDR
    status, errorCode, sequence,
    library,            \* what the device has loaded
    running,            \* the block is anywhere but in S_IDLE
    held,               \* the block's memory
    mem,
    starts, pulses      \* history: starts, and pulses of the interrupt line

answer == <<status, errorCode, sequence>>
block  == <<running, held>>
vars   == <<regs, answer, library, block, mem, starts, pulses>>

FreshMemory == Blank

\* p210_rtl_load_library and rtl_open.
Realize(name) ==
    /\ library' = name
    /\ running' = FALSE /\ held' = FreshMemory

Init ==
    /\ regs = NoFile
    /\ status = {} /\ errorCode = "NONE" /\ sequence = 0
    /\ library \in Libraries
    /\ running = FALSE /\ held = Blank
    /\ mem = [c \in Cells |-> Blank]
    /\ starts = 0 /\ pulses = 0

WriteRegisters ==
    /\ regs' \in Files
    /\ UNCHANGED <<answer, library, block, mem, starts, pulses>>

Load ==
    /\ \E load \in Loads : mem' = [mem EXCEPT ![load[1]] = load[2]]
    /\ UNCHANGED <<regs, answer, library, block, starts, pulses>>

\* rtl_reset, where there is one: S_IDLE; the memory stays.
BlockReset ==
    /\ running' = (running /\ library # "complete")
    /\ held' = held

Reset ==
    /\ regs' = NoFile /\ status' = {} /\ errorCode' = "NONE"
    /\ BlockReset
    /\ starts' = 0 /\ pulses' = 0
    /\ UNCHANGED <<library, mem>>

SoftReset   == Reset /\ sequence' = sequence
DeviceReset == Reset /\ sequence' = 0

\* The registers move to a device that has a library and a block of its own.
Migrate ==
    /\ \E name \in Libraries : Realize(name)
    /\ UNCHANGED <<regs, answer, mem, starts, pulses>>

-----------------------------------------------------------------------------
(* A start and its six ends.                                               *)

PulsesAfter == pulses + 1

Begin ==
    /\ starts < MaxStarts /\ sequence < MaxResults
    /\ starts' = starts + 1 /\ pulses' = PulsesAfter
    /\ UNCHANGED <<regs, library>>

Fail(error) ==
    /\ status' = (status \ {"DONE", "ERROR"}) \cup {"ERROR"}
    /\ errorCode' = error /\ sequence' = sequence

NoLibrary ==
    /\ Begin
    /\ library = "none"
    /\ Fail("NO_LIB") /\ UNCHANGED <<block, mem>>

WrongSize ==
    /\ Begin
    /\ library # "none" /\ regs.log2n # BlockLog2N
    /\ Fail("BAD_N") /\ UNCHANGED <<block, mem>>

Ready == library # "none" /\ regs.log2n = BlockLog2N

FailRead ==
    /\ Begin
    /\ Ready /\ regs.input \notin Cells
    /\ Fail("DMA") /\ UNCHANGED <<block, mem>>

\* Bug: the block is not reset before a run.
NeverReset == FALSE

ResetFirst == library = "complete"

\* The block when all samples are loaded and the start is given.  One that is
\* still running takes neither; or it is done meanwhile, has taken some of the
\* samples, and starts on a mixture.
Started(samples) ==
    IF running /\ ~ResetFirst THEN {held} \cup Contents ELSE {samples}

\* rtl_run returns -1; the block is still running.
Timeout ==
    /\ Begin
    /\ Ready /\ regs.input \in Cells
    /\ library \in Hanging
    /\ held' \in Started(mem[regs.input]) /\ running' = TRUE
    /\ Fail("TIMEOUT") /\ mem' = mem

FailWrite ==
    /\ Begin
    /\ Ready /\ regs.input \in Cells /\ regs.output \notin Cells
    /\ \E samples \in Started(mem[regs.input]) : held' = Transform(samples)
    /\ running' = FALSE
    /\ Fail("DMA") /\ mem' = mem

ErrorOfDone == "NONE"

Finish ==
    /\ Begin
    /\ Ready /\ {regs.input, regs.output} \subseteq Cells
    /\ \E samples \in Started(mem[regs.input]) : held' = Transform(samples)
    /\ running' = FALSE
    /\ mem' = [mem EXCEPT ![regs.output] = held']
    /\ status' = (status \ {"DONE", "ERROR"}) \cup {"DONE"}
    /\ errorCode' = ErrorOfDone /\ sequence' = sequence + 1

\* CONTROL.START.
Start == NoLibrary \/ WrongSize \/ FailRead \/ Timeout \/ FailWrite \/ Finish

Next == WriteRegisters \/ Load \/ SoftReset \/ DeviceReset \/ Migrate \/ Start

Spec == Init /\ [][Next]_vars
-----------------------------------------------------------------------------
(* What is checked.                                                        *)

\* The types of the registers, the block and the memory.
TypeOK ==
    /\ regs \in Files
    /\ status \subseteq {"DONE", "ERROR"}
    /\ errorCode \in {"NONE", "NO_LIB", "BAD_N", "DMA", "TIMEOUT"}
    /\ sequence \in Nat /\ starts \in Nat /\ pulses \in Nat
    /\ library \in Libraries /\ running \in BOOLEAN /\ held \in Contents
    /\ mem \in [Cells -> Contents]

\* A driver that waits for the interrupt gets one for every start, however the
\* start ended.
EveryStartSignalled == pulses = starts

\* ERROR has a reason, DONE has none, and they exclude each other.
AnswerCoherent ==
    /\ "ERROR" \in status <=> errorCode # "NONE"
    /\ status # {"DONE", "ERROR"}

\* "one driver drives either the operator or an RTL block": the driver's contract
\* with an accelerator holds - no result of an earlier, hung run is taken for the
\* answer - if a library that does not reset its block has one that comes to an end.
CutsOrEnds == "no reset" \notin Hanging

Job(file, memory) == [memory EXCEPT ![file.output] = Transform(memory[file.input])]

Output(file) == {file.output}

Said == CASE "DONE" \in status -> "done"
          [] "ERROR" \in status -> "failed"
          [] OTHER -> "idle"

Contract == INSTANCE AcceleratorContract WITH status <- Said, serial <- sequence

ImplementsContract == Contract!Spec
=============================================================================
