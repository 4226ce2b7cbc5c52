-------------------------- MODULE OperatorFirmware --------------------------
(***************************************************************************)
(* qemu-baremetal/main.c, the program that drives the operator from the    *)
(* emulated CPU, beside the QEMU device: one step per phase of the program *)
(* and a system reset, which restarts both, at any moment.                 *)
(***************************************************************************)
EXTENDS P210Operator

CONSTANTS
    Samples, Bank, Expected,    \* the golden input, bank and output
    Program,                    \* the registers as main() configures them
    MaxResets                   \* bound: system resets

\* Assumed of the constants: the golden output is the golden input's with the
\* golden bank, and main() configures that bank's size and checksum.
FirmwareAssumption ==
    /\ Program \in Files /\ MaxResets \in Nat
    /\ {Program.input, Program.output, Program.weights} \subseteq Cells
    /\ Program.input # Program.weights /\ ~Program.bypass
    /\ Program.crc = Crc(Bank) /\ 2 ^ Program.log2n = Modes(Bank)
    /\ Expected = Result(Samples, Bank)

VARIABLES
    pc,         \* where main() is, or how it ended
    resets

firmwareVars == <<vars, pc, resets>>

Goto(from, to) == pc = from /\ pc' = to /\ resets' = resets

WriteInput == Goto("input", "bank") /\ Load(Program.input, Samples)

WriteBank == Goto("bank", "configure") /\ Load(Program.weights, Bank)

Configure == Goto("configure", "activate") /\ WriteRegisters(Program)

ActivateBank == Goto("activate", "ready?") /\ Activate

\* A check of the program: on with it, or the end.
Check(from, condition, to, failure) ==
    /\ Goto(from, IF condition THEN to ELSE failure)
    /\ UNCHANGED vars

CheckReady == Check("ready?", "WEIGHT_READY" \in status, "start", "FAIL activate")

StartBlock == Goto("start", "done?") /\ Start

CheckDone == Check("done?", "DONE" \in status, "compare", "FAIL not done")

Compare ==
    Check("compare", mem[Program.output] = Expected, "sequence?", "FAIL output mismatch")

CheckSequence == Check("sequence?", sequence = 1, "PASS", "FAIL result seq")

Main ==
    \/ WriteInput \/ WriteBank \/ Configure \/ ActivateBank \/ CheckReady
    \/ StartBlock \/ CheckDone \/ Compare \/ CheckSequence

\* RAM keeps what is in it.
SystemReset ==
    /\ resets < MaxResets
    /\ Reset
    /\ pc' = "input" /\ resets' = resets + 1

Boot ==
    /\ \E ram \in [{Program.input, Program.output, Program.weights} -> Contents] :
        mem = [c \in Cells |-> IF c \in DOMAIN ram THEN ram[c] ELSE Blank]
    /\ regs = NoFile /\ status = {} /\ errorCode = "NONE"
    /\ sequence = 0 /\ activeCrc = 0 /\ resultCrc = 0 /\ used = None
    /\ pc = "input" /\ resets = 0

\* The CPU runs the program as long as it has not ended.
FirmwareSpec ==
    Boot /\ [][Main \/ SystemReset]_firmwareVars /\ WF_firmwareVars(Main)
-----------------------------------------------------------------------------
(* What is checked.                                                        *)

Phases == {"input", "bank", "configure", "activate", "ready?", "start", "done?",
           "compare", "sequence?", "PASS"}

\* No attempt comes to a FAIL exit.
NeverFails == pc \in Phases

\* Whatever RAM holds at the start and wherever resets strike, the program ends
\* with PASS, and no attempt with FAIL, one that a reset would have cut short
\* included: no check of it sees a register or a buffer of an earlier attempt.
RunsToPass == []NeverFails /\ <>[](pc = "PASS")

\* Why: what an attempt has done when it is in a phase.
Attempt ==
    /\ pc \in Phases /\ DOMAIN mem = Cells
    /\ pc \in {"bank", "configure", "activate", "ready?", "start"} =>
            mem[Program.input] = Samples
    /\ pc \in {"configure", "activate", "ready?", "start"} => mem[Program.weights] = Bank
    /\ pc \in {"activate", "ready?", "start", "done?", "compare"} => regs = Program
    /\ pc \in {"input", "bank", "configure", "activate", "ready?", "start"} => sequence = 0
    /\ pc = "ready?" => "WEIGHT_READY" \in status
    /\ pc = "done?" => "DONE" \in status
    /\ pc \in {"done?", "compare"} => mem[Program.output] = Expected
    /\ pc \in {"done?", "compare", "sequence?"} => sequence = 1
=============================================================================
