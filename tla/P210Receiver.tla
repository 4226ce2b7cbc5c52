---------------------------- MODULE P210Receiver ----------------------------
(***************************************************************************)
(* p210_sdr.c: what the driver of the QEMU P210SDRState finds beside the   *)
(* DMA controllers: the registers of the RX and TX cores, and in its       *)
(* receive buffers the two tones that stand for RF.                        *)
(*                                                                         *)
(* P210Dmac says when a transfer is copied; here it is copied some time    *)
(* after its submission, and P210Dmac's count of frames is the content of  *)
(* the buffer.  A register is the set of its bits, of which one stands for *)
(* those that have no meaning.                                             *)
(***************************************************************************)
EXTENDS Integers, Sequences, FiniteSets

CONSTANTS
    Settings,       \* values of the device's tone properties
    Chunk,          \* P210_DMA_CHUNK
    IndexWrap,      \* values of rx_sample_index, 2^64
    Lengths,        \* bytes of a transfer
    Writes          \* bound: registers a driver writes, and values

Phases  == 64       \* P210_RX_TONE_PHASES
MaxCode == 2047     \* P210_AD9361_MAX_CODE

Channel == 0 .. 3
Bits    == {0, 17, 31}  \* P210_STATUS_VALID and channel enable, P210_DRP_LOCKED, another

Cores == {"rx", "tx"}
CoreRegs ==
    ({"VERSION", "ID", "SCRATCH", "RSTN", "STATUS", "DRP_STATUS", "DP_DISABLE"} \X {0})
        \cup ({"CHAN_CONTROL", "CHAN_STATUS"} \X Channel)

Uint8  == 0 .. 255
Uint16 == 0 .. 65535

\* Properties of one receiver's tone.
Tone == [amplitude : Uint16, step : Uint8, phase : Uint8]

ASSUME ReceiverAssumption ==
    /\ \A tones \in Settings : \A receiver \in 0 .. 1 : tones[receiver] \in Tone
    /\ Chunk \in Nat /\ Chunk >= 8
    /\ IndexWrap \in Nat \ {0} /\ IndexWrap % Phases = 0
    /\ Lengths \subseteq Nat \ {0}
    /\ Writes \subseteq Cores \X CoreRegs \X SUBSET Bits

VARIABLES
    tones,          \* the device's properties
    cores,          \* rx_core, tx_core
    sampleIndex,    \* rx_sample_index
    transfer,       \* the transfers accepted, at most one: their length and scan mask
    asked,          \* history: channels enabled when the latest one was submitted
    begun,          \* history: sampleIndex when its copy began
    capture         \* what the copy left in the driver's buffer

vars == <<tones, cores, sampleIndex, transfer, asked, begun, capture>>
-----------------------------------------------------------------------------
(* The tones.                                                              *)

Sine == <<
    0, 3212, 6393, 9512, 12539, 15446, 18204, 20787,
    23170, 25329, 27245, 28898, 30273, 31356, 32137, 32609,
    32767, 32609, 32137, 31356, 30273, 28898, 27245, 25329,
    23170, 20787, 18204, 15446, 12539, 9512, 6393, 3212,
    0, -3212, -6393, -9512, -12539, -15446, -18204, -20787,
    -23170, -25329, -27245, -28898, -30273, -31356, -32137, -32609,
    -32767, -32609, -32137, -31356, -30273, -28898, -27245, -25329,
    -23170, -20787, -18204, -15446, -12539, -9512, -6393, -3212 >>

Amplitude(tone) == IF tone.amplitude < MaxCode THEN tone.amplitude ELSE MaxCode

Toward0(a, b) == IF a < 0 THEN -((-a) \div b) ELSE a \div b

\* Bug: Q is a quarter cycle ahead of I.
QuadratureAhead(channel) == IF channel % 2 = 1 THEN Phases \div 4 ELSE 0

\* I is a quarter cycle ahead of Q.
Lead(channel) == IF channel % 2 = 1 THEN 0 ELSE Phases \div 4

Sample(channel, index) ==
    LET tone == tones[channel \div 2]
        lut  == (index * tone.step + tone.phase + Lead(channel)) % Phases
    IN  Toward0(Sine[lut + 1] * Amplitude(tone), 32767)

FrameBytes(mask) == 2 * Cardinality(mask)

Low(value)  == value % 256
High(value) == (value % 65536) \div 256

\* The channel at a place of a frame, in which those of mask ascend.
ChannelAt(mask, place) == CHOOSE c \in mask : Cardinality({d \in mask : d < c}) = place

\* p210_rx_fill: whole frames of the channels in mask, then zeroes.
Fill(mask, index, size) ==
    LET frame  == FrameBytes(mask)
        frames == IF mask = {} THEN 0 ELSE size \div frame
        byte(i) ==
            LET value == Sample(ChannelAt(mask, (i % frame) \div 2), index + i \div frame)
            IN  IF i % 2 = 0 THEN Low(value) ELSE High(value)
    IN  [frames |-> frames,
         bytes  |-> [i \in 1 .. size |-> IF i > frames * frame THEN 0 ELSE byte(i - 1)]]

\* Bug: a chunk ends in the middle of a frame.
AnyChunk(remaining, frame) == IF remaining < Chunk THEN remaining ELSE Chunk

ChunkOf(remaining, frame) ==
    IF remaining <= Chunk THEN remaining
    ELSE IF frame = 0 THEN Chunk ELSE Chunk - (Chunk % frame)

\* At most so many chunks: but for the last, each fills half of Chunk.
Chunks(length) == (2 * length) \div Chunk + 1

\* p210_dmac_copy's buffer and sample index after k chunks.
Copy(mask, length) ==
    LET after[k \in 0 .. Chunks(length)] ==
            IF k = 0 THEN [bytes |-> <<>>, index |-> sampleIndex]
            ELSE LET last == after[k - 1]
                     size == ChunkOf(length - Len(last.bytes), FrameBytes(mask))
                     data == Fill(mask, last.index, size)
                 IN  IF Len(last.bytes) = length THEN last
                     ELSE [bytes |-> last.bytes \o data.bytes,
                           index |-> (last.index + data.frames) % IndexWrap]
    IN  after
-----------------------------------------------------------------------------
ResetCore(core) ==
    [r \in CoreRegs |->
        CASE r[1] = "VERSION" -> {31}
          [] r[1] = "STATUS" /\ core = "rx" -> {0}
          [] r[1] = "DRP_STATUS" /\ core = "tx" -> {17}
          [] OTHER -> {}]

Init ==
    /\ tones \in Settings
    /\ cores = [core \in Cores |-> ResetCore(core)]
    /\ sampleIndex = 0 /\ transfer = <<>>
    /\ asked = {} /\ begun = 0 /\ capture = <<>>

\* p210_sdr_reset; what the driver's buffer holds stays there.
Reset ==
    /\ cores' = [core \in Cores |-> ResetCore(core)]
    /\ sampleIndex' = 0 /\ transfer' = <<>>
    /\ UNCHANGED <<tones, asked, begun, capture>>

CoreRead(core, r) ==
    IF core = "rx" /\ r[1] = "STATUS" THEN cores[core][r] \cup {0} ELSE cores[core][r]

ReadOnly == {"VERSION", "ID", "DP_DISABLE"} \X {0}

ClearedByOnes(core, r) == core = "rx" /\ r[1] = "CHAN_STATUS"

\* A core's register after a write.
Written(core, r, value) ==
    IF r \in ReadOnly THEN cores[core][r]
    ELSE IF ClearedByOnes(core, r) THEN cores[core][r] \ value ELSE value

WriteCore ==
    /\ \E w \in Writes : cores' = [cores EXCEPT ![w[1]][w[2]] = Written(w[1], w[2], w[3])]
    /\ UNCHANGED <<tones, sampleIndex, transfer, asked, begun, capture>>

ScanMask == {c \in Channel : 0 \in cores["rx"][<<"CHAN_CONTROL", c>>]}

\* A submission of a fresh buffer, accepted with the channels enabled now.
Submit ==
    /\ transfer = <<>>
    /\ \E length \in Lengths : transfer' = <<[length |-> length, mask |-> ScanMask]>>
    /\ asked' = ScanMask /\ capture' = <<>> /\ begun' = 0
    /\ UNCHANGED <<tones, cores, sampleIndex>>

\* Bug: the copy looks at the channels that are enabled when it runs.
MaskNow(t) == ScanMask

MaskOf(t) == t.mask

\* The completion copies the transfer, or the chunks that the bus accepts.
Complete ==
    /\ transfer # <<>>
    /\ LET t == transfer[1]
           copy == Copy(MaskOf(t), t.length)
       IN  \E k \in 0 .. Chunks(t.length) : capture' = copy[k].bytes /\ sampleIndex' = copy[k].index
    /\ begun' = sampleIndex
    /\ transfer' = <<>>
    /\ UNCHANGED <<tones, cores, asked>>

Next == Reset \/ WriteCore \/ Submit \/ Complete

Spec == Init /\ [][Next]_vars
-----------------------------------------------------------------------------
(* What is checked.                                                        *)

\* The types of the registers, the index and the buffer.
TypeOK ==
    /\ tones \in Settings /\ cores \in [Cores -> [CoreRegs -> SUBSET Bits]]
    /\ sampleIndex \in 0 .. IndexWrap - 1 /\ begun \in 0 .. IndexWrap - 1
    /\ asked \subseteq Channel
    /\ \A i \in DOMAIN capture : capture[i] \in Uint8

\* However the copy is cut into chunks, and whatever the driver does to the
\* channels while the transfer waits, its buffer holds the frames of the channels
\* enabled at the submission, none torn, as a single fill would have made them.
CaptureIsWhole ==
    capture = SubSeq(Fill(asked, begun, Len(capture)).bytes, 1, Len(capture))

\* What a client reads of one channel: the value with the sign bit at 2^15.
Decoded(channel, frame) ==
    LET before == Cardinality({c \in asked : c < channel})
        at     == frame * FrameBytes(asked) + 2 * before
        value  == capture[at + 1] + 256 * capture[at + 2]
    IN  IF value < 32768 THEN value ELSE value - 65536

Near(a, b, slack) == a - b \in -slack .. slack

\* A client that reads I and Q of a receiver sees 12-bit codes on a circle, each
\* turned from the one before by the tone's step and in its sense, also where the
\* sample index wraps.  The slack is the truncation of the codes.
ClientSeesTone ==
    \A receiver \in 0 .. 1 :
        {2 * receiver, 2 * receiver + 1} \subseteq asked =>
        LET i(frame)  == Decoded(2 * receiver, frame)
            q(frame)  == Decoded(2 * receiver + 1, frame)
            tone      == tones[receiver]
            radius    == IF tone.amplitude < MaxCode THEN tone.amplitude ELSE MaxCode
            turned    == Toward0(Sine[(tone.step % Phases) + 1] * radius, 32767)
            frames    == Len(capture) \div FrameBytes(asked)
        IN  \A f \in 0 .. frames - 1 :
                /\ i(f) \in -MaxCode .. MaxCode /\ q(f) \in -MaxCode .. MaxCode
                /\ Near(i(f) * i(f) + q(f) * q(f), radius * radius, 4 * radius)
                /\ f > 0 => Near(i(f - 1) * q(f) - q(f - 1) * i(f), turned * radius, 4 * radius)

\* Whatever was written before, the driver's probe and its digital-interface
\* tuning find the cores they know, a receive clock, and no pattern errors.
DriverTunes ==
    /\ \A core \in Cores, r \in ReadOnly : CoreRead(core, r) = ResetCore(core)[r]
    /\ 0 \in CoreRead("rx", <<"STATUS", 0>>)
    /\ \A c \in Channel : CoreRead("rx", <<"CHAN_STATUS", c>>) = {}
=============================================================================
