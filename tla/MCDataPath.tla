----------------------------- MODULE MCDataPath -----------------------------
(* What the devices compute, in four scenes that share nothing: the power  *)
(* spectrum, the operator's block, the checksum of its bank, and the       *)
(* receiver's samples.                                                     *)
EXTENDS P210Receiver

CONSTANTS
    DataBits, BlockInputs, Banks(_), Thresholds,    \* of OperatorBlock
    Bytes, Damage, MaxBytes                         \* of Crc32

VARIABLES
    scene,
    input, points, span, base, offset,      \* of both transforms
    pass, samples, table, threshold,        \* the block's
    written, read, sent, burst              \* the checksum's

\* A wave of n samples: its components alternate between the bounds; the second
\* lags by phase.
Wave(n, step, phase, high, low) ==
    [i \in 0 .. n - 1 |->
        <<IF ((i * step) % n) * 2 < n THEN high ELSE low,
          IF ((i * step + phase) % n) * 2 < n THEN low ELSE high>>]

Real(wave) == [i \in DOMAIN wave |-> <<wave[i][1], 0>>]

Impulse(n, place, at, elsewhere) ==
    [i \in 0 .. n - 1 |-> IF i = place THEN at ELSE elsewhere]

\* An odd real block, whose sums need rounding.
Ramp(n) == [i \in 0 .. n - 1 |-> <<i * i - 3, 0>>]

\* Full-scale samples of 12 bits, as the driver stores them.
SpectrumBlocks(highest, lowest) ==
    UNION {{Impulse(n, place, <<lowest, highest>>, <<0, 1>>) : place \in 0 .. n - 1} \cup
           {Wave(n, step, phase, highest, lowest) :
               step \in 0 .. n - 1, phase \in {0, n \div 4, n \div 2}}
           : n \in {4, 8, 16}}

MCInputs ==
    LET max == 2047
        min == -2048
    IN
    UNION {{Impulse(n, place, <<min, max>>, <<3, -1>>) : place \in 0 .. n - 1} \cup {Ramp(n)} \cup
           UNION {{wave, Real(wave)} : wave \in
               {Wave(n, step, 1, high[1], high[2]) :
                   step \in 0 .. n - 1, high \in {<<max, min>>, <<1021, -999>>}}}
           : n \in {4, 8}}

MCBanks(n) == {
    [i \in 0 .. n - 1 |-> <<2 ^ 14, 0>>],
    [i \in 0 .. n - 1 |-> <<-(2 ^ 15), 32767>>],
    [i \in 0 .. n - 1 |-> <<1000 * i, 32767 - 4000 * i>>] }

Spectrum == INSTANCE PowerFft WITH
    Blocks <- SpectrumBlocks(2047, 2048), SampleBits <- 12, FracBits <- 14

\* A positive threshold lengthens points.
MCThresholds == {0, 700, -1001}

Block == INSTANCE OperatorBlock WITH Inputs <- BlockInputs

ASSUME BlockAssumption == Block!OperandsAssumption

\* A bank of six bytes with a burst of damage anywhere in it.
Bank == INSTANCE Crc32

MCBytes  == {{}, {0, 2, 3, 7}}
MCDamage == {{}, {0}, {4}, {7}, 0 .. 7}

ASSUME BankAssumption == Bank!CrcAssumption

transform == <<input, points, span, base, offset>>
block     == <<pass, samples, table, threshold>>
checksum  == <<written, read, sent, burst>>
sceneVars == <<vars, transform, block, checksum, scene>>

NoTransform == input = <<>> /\ points = <<>> /\ span = 0 /\ base = 0 /\ offset = 0
NoBlock     == pass = "none" /\ samples = <<>> /\ table = <<>> /\ threshold = 0

\* The receiver's tones: those the device has by default, and the largest values
\* of their properties.
Default == [r \in 0 .. 1 |->
    IF r = 0 THEN [amplitude |-> 1536, step |-> 5, phase |-> 0]
             ELSE [amplitude |-> 1024, step |-> 13, phase |-> 8]]

Largest == [r \in 0 .. 1 |-> [amplitude |-> 65535, step |-> 255, phase |-> 255 - r]]

MCSettings == {Default, Largest}

\* No number of frames fills a buffer; the channels are switched in pairs and
\* one alone.
MCLengths == {26}

MCWrites ==
    {<<"rx", <<"CHAN_CONTROL", c>>, v>> : c \in {0, 1, 3}, v \in {{}, Bits}}
        \cup {<<"rx", r, Bits>> : r \in {<<"VERSION", 0>>, <<"DP_DISABLE", 0>>, <<"CHAN_STATUS", 1>>}}
        \cup {<<"rx", <<"STATUS", 0>>, {}>>}

NoReceiver == Init /\ tones = Default

MCInit ==
    \/ scene = "spectrum" /\ Spectrum!Init /\ NoBlock /\ Bank!Init /\ NoReceiver
    \/ scene = "block" /\ Block!Start /\ Bank!Init /\ NoReceiver
    \/ scene = "bank" /\ NoTransform /\ NoBlock /\ Bank!Init /\ NoReceiver
    \/ scene = "receiver" /\ NoTransform /\ NoBlock /\ Bank!Init /\ Init

MCNext ==
    \/ scene = "spectrum" /\ Spectrum!Next /\ UNCHANGED <<vars, block, checksum, scene>>
    \/ scene = "block" /\ Block!Step /\ UNCHANGED <<vars, checksum, scene>>
    \/ scene = "bank" /\ Bank!Byte /\ UNCHANGED <<vars, transform, block, scene>>
    \/ scene = "receiver" /\ Next /\ UNCHANGED <<transform, block, checksum, scene>>

MCSpec == MCInit /\ [][MCNext]_sceneVars
-----------------------------------------------------------------------------
(* The properties of the scenes.                                           *)

\* PowerFft: its twiddles agree with the committed ROM, between two stages every
\* block is the scaled transform of its samples, and no butterfly makes a point
\* longer than the longest sample.  OperatorBlock: forward and back the stages are
\* transforms, and the way back returns the block.
TransformsFaithful ==
    /\ scene = "spectrum" =>
        Spectrum!CordicAgreesWithRom /\ Spectrum!BlocksAreTransforms /\ Spectrum!ScalingContains
    /\ scene = "block" => Block!BlocksAreTransforms /\ Block!InverseReturnsBlock

\* OperatorBlock, in every bit: forward and back the stages favour no sign, and modReLU
\* changes none and only shortens, unless its threshold is positive.
BlocksExact == scene = "block" => Block!RealBlocksAreSymmetric /\ Block!ReluShortens

\* Crc32: no burst of wrong bits that fits the register goes unnoticed.
DamageShows == Bank!DamageShows

\* P210Receiver: the driver's interface tuning succeeds, whatever it wrote before,
\* and the client then finds the tone on every channel that was captured.
ClientServed == scene = "receiver" => DriverTunes /\ ClientSeesTone
=============================================================================
