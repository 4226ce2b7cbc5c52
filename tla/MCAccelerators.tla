--------------------------- MODULE MCAccelerators ---------------------------
(* The two accelerators, P210Fft and P210Rtl, which share nothing: a state *)
(* is one of the device in the scene.                                      *)
(*                                                                         *)
(* The FFT device has eight words of RAM in an address space of twelve,    *)
(* and two transform sizes.  A driver programs one of the jobs below, or   *)
(* one of them with one register off; the last two leave RAM on either     *)
(* side.                                                                   *)
(* The RTL device has two buffers; its block turns 1 into 2 and 2 into 3.  *)
EXTENDS P210Fft

MCRam == 0 .. 7

\* Depends on every sample and on the bin.
MCPower(samples, bin) ==
    LET weighted[s \in 0 .. 3] ==
            IF s \notin DOMAIN samples THEN 0
            ELSE (samples[s] * (1 + ((s + bin) % 2))) + (IF s = 0 THEN 0 ELSE weighted[s - 1])
    IN  (1 + weighted[IF 3 \in DOMAIN samples THEN 3 ELSE 1]) % 3

MCWords == 0 .. 2

\* A register file.
F(log2n, channels, mask, sequence, input, inputBytes, output, outputBytes) ==
    [log2n |-> log2n, channels |-> channels, mask |-> mask, sequence |-> sequence,
     input |-> input, inputBytes |-> inputBytes,
     output |-> output, outputBytes |-> outputBytes]

TwoChannels  == F(1, 2, {0, 1}, 1, 0, 16, 16, 16)
SecondOnly   == F(1, 2, {1}, 2, 0, 16, 20, 8)
FourPoints   == F(2, 1, {0}, 2, 0, 16, 16, 16)
LeavesRam    == F(1, 1, {0}, 1, 4, 8, 28, 8)
OutsideRam   == F(1, 1, {0}, 1, 32, 8, 0, 8)

Slips == {
    [TwoChannels EXCEPT !.log2n = 0],       [TwoChannels EXCEPT !.log2n = 3],
    [TwoChannels EXCEPT !.channels = 0],    [TwoChannels EXCEPT !.channels = 3],
    [SecondOnly EXCEPT !.mask = {}],        [SecondOnly EXCEPT !.mask = {2}],
    [TwoChannels EXCEPT !.input = 2],       [TwoChannels EXCEPT !.output = 18],
    [SecondOnly EXCEPT !.inputBytes = 8],   [SecondOnly EXCEPT !.outputBytes = 16],
    [TwoChannels EXCEPT !.output = 36],     [SecondOnly EXCEPT !.output = 8],
    [TwoChannels EXCEPT !.input = 12],      [SecondOnly EXCEPT !.input = 12, !.output = 8] }

MCFiles == {ResetFile, TwoChannels, SecondOnly, FourPoints, LeavesRam, OutsideRam} \cup Slips

MCPatched == {1}

-----------------------------------------------------------------------------
CONSTANTS
    RtlCells, RtlContents, RtlBlank, RtlTransform(_), RtlBlockLog2N,
    RtlFiles, RtlNoFile, RtlLoads,
    Libraries, Hanging, RtlMaxStarts, RtlMaxResults     \* P210Rtl's

VARIABLES
    scene,
    rtlRegs, rtlStatus, rtlError, rtlSequence, library, running, held,
    rtlMem, rtlStarts, pulses

MCRtlCells    == {"in", "out"}
MCRtlContents == 0 .. 3

MCRtlTransform(samples) == IF samples = 0 THEN 0 ELSE (samples % 3) + 1

RtlFile(log2n, input, output) == [log2n |-> log2n, input |-> input, output |-> output]

MCRtlNoFile == RtlFile(0, "none", "none")

MCRtlFiles == {
    MCRtlNoFile,               RtlFile(1, "in", "out"),   RtlFile(1, "in", "in"),
    RtlFile(2, "in", "out"),   RtlFile(1, "none", "out"), RtlFile(1, "in", "none") }

MCRtlLoads  == {<<"in", 1>>, <<"in", 2>>}
MCLibraries == {"none", "no reset", "complete"}
MCHanging   == {"complete"}

Rtl == INSTANCE P210Rtl WITH
    Cells <- RtlCells, Contents <- RtlContents, Blank <- RtlBlank,
    Transform <- RtlTransform, BlockLog2N <- RtlBlockLog2N,
    Files <- RtlFiles, NoFile <- RtlNoFile, Loads <- RtlLoads,
    MaxStarts <- RtlMaxStarts, MaxResults <- RtlMaxResults,
    regs <- rtlRegs, status <- rtlStatus, errorCode <- rtlError, sequence <- rtlSequence,
    mem <- rtlMem, starts <- rtlStarts

ASSUME LibrariesAssumption == Rtl!RtlAssumption /\ Rtl!CutsOrEnds

rtlVars   == <<rtlRegs, rtlStatus, rtlError, rtlSequence, library, running, held,
               rtlMem, rtlStarts, pulses>>
sceneVars == <<vars, rtlVars, scene>>

MCInit ==
    /\ Init /\ Rtl!Init
    /\ scene \in {"fft", "rtl"}
    /\ scene = "fft" => library = "none"

MCNext ==
    \/ scene = "fft" /\ Next /\ UNCHANGED <<rtlVars, scene>>
    \/ scene = "rtl" /\ Rtl!Next /\ UNCHANGED <<vars, scene>>

MCSpec == MCInit /\ [][MCNext]_sceneVars
-----------------------------------------------------------------------------
(* The properties of the RTL device.                                       *)

\* "one driver drives either the operator or an RTL block": the RTL device keeps
\* the drivers' contract, as the FFT device does, over hangs and migrations.
RtlImplementsContract == Rtl!ImplementsContract
=============================================================================
