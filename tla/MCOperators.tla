----------------------------- MODULE MCOperators -----------------------------
(* The operator devices with the memory and the drivers of MCOperator, in    *)
(* four scenes: the twins under a disciplined driver, each device alone      *)
(* under a driver that does anything, and the bare-metal program.  A scene   *)
(* leaves the device that is not in it as it came up.                        *)
EXTENDS OperatorTwins, MCOperator

VARIABLES
    scene,
    attested,       \* the driver of the QEMU device alone; trusted is its kept
    pc, resets      \* the program's

Firmware == INSTANCE OperatorFirmware WITH
    status <- qemuStatus, errorCode <- qemuError, sequence <- qemuSequence,
    activeCrc <- qemuActive, resultCrc <- qemuResult,
    mem <- qemuMem, used <- qemuUsed,
    Samples <- 4, Bank <- 1, Expected <- 5,
    Program <- File(1, "in", "out", FALSE, "bank", 1), MaxResets <- 2

Client == INSTANCE OperatorClient WITH
    status <- qemuStatus, errorCode <- qemuError, sequence <- qemuSequence,
    activeCrc <- qemuActive, resultCrc <- qemuResult,
    mem <- qemuMem, used <- qemuUsed, kept <- trusted

ASSUME ScenesAssumption == Core!OperatorAssumption /\ Firmware!FirmwareAssumption

portable  == <<coreStatus, coreError, coreSequence, coreActive, coreResult,
               coreTable, coreMem, coreUsed>>
emulated  == <<qemuStatus, qemuError, qemuSequence, qemuActive, qemuResult,
               qemuMem, qemuUsed>>
drivers   == <<trusted, buffered, attested>>
program   == <<pc, resets>>
sceneVars == <<regs, portable, emulated, drivers, program, scene>>

Idle == pc = "off" /\ resets = 0

MCInit ==
    /\ \/ scene \in {"twins", "portable", "emulated"} /\ Init /\ Idle
       \/ /\ scene = "program" /\ Firmware!Boot /\ Core!Init
          /\ trusted = FALSE /\ buffered = TRUE
    /\ attested = FALSE

Program == scene = "program" /\ Firmware!Main /\ UNCHANGED <<portable, drivers, scene>>

MCNext ==
    \/ scene = "twins" /\ Next /\ UNCHANGED <<attested, program, scene>>
    \/ scene = "portable" /\ Core!Next /\ UNCHANGED <<emulated, drivers, program, scene>>
    \/ /\ scene = "emulated" /\ Client!ClientNext
       /\ UNCHANGED <<portable, buffered, program, scene>>
    \/ Program
    \/ scene = "program" /\ Firmware!SystemReset /\ UNCHANGED <<portable, drivers, scene>>

MCSpec == MCInit /\ [][MCNext]_sceneVars /\ WF_sceneVars(Program)
-----------------------------------------------------------------------------
(* The properties of the scenes.                                           *)

\* OperatorTwins: to a disciplined driver the devices are one, also when they fail.
TwinsAreOne == scene = "twins" => TwinsAgree /\ TwinsAttribute

\* OperatorDevice: whatever the driver did to the registers and to the bank in
\* memory since, RESULT_WT_CRC is the checksum of the bank that the latest result
\* was computed with, and WEIGHT_READY says that the bank ACTIVE_WT_CRC names is
\* captured.
PortableAttributes == Core!ResultNamesItsBank /\ Core!ReadyMeansCaptured

\* OperatorClient: to a driver that leaves WEIGHT_CRC alone the QEMU device, which
\* captures no bank, attributes every result to the bank it was computed with; and
\* DONE or ERROR of an earlier block does not answer a later one.
EmulatedAttributes ==
    scene = "emulated" => Client!KeptChecksumAttributes /\ Qemu!AnswersExclude

\* OperatorFirmware: whatever RAM holds at the start and wherever resets strike,
\* the program ends with PASS and no attempt of it with FAIL.
ProgramPasses == scene = "program" => Firmware!RunsToPass

\* The part of it that is a safety property.
NoAttemptFails == scene = "program" => Firmware!NeverFails
=============================================================================
