--------------------------- MODULE DataPathProofs ---------------------------
(* Proofs about what the devices compute.  P210Receiver: however a         *)
(* transfer is cut into chunks, the buffer holds what a single fill with   *)
(* the channels of its submission would have put there, also over wraps    *)
(* of the index; a client finds the tones in it; and whatever was written, *)
(* a driver's probe finds the cores it knows.  Crc32: no burst of wrong    *)
(* bits that fits the register goes unnoticed, in a bank of any length.    *)
(* OperatorBlock: its rounding favours no sign, in any stage of either     *)
(* transform, and modReLU keeps signs and the side of the threshold, for   *)
(* components of any width.                                                *)
EXTENDS MCDataPath, FiniteSetTheorems, WellFoundedInduction, TLAPS

(***************************************************************************)
(* The channels of a frame.                                                *)
(***************************************************************************)

\* How many channels come before c.
Rank(mask, c) == Cardinality({d \in mask : d < c})

LEMMA MaskFinite ==
    ASSUME NEW mask \in SUBSET Channel
    PROVE  /\ IsFiniteSet(mask) /\ Cardinality(mask) \in 0 .. 4
           /\ Cardinality(mask) = 0 <=> mask = {}
<1>1. IsFiniteSet(Channel) /\ Cardinality(Channel) = 4
    <2>1. 0 \in Int /\ 3 \in Int /\ ~(0 > 3) /\ 3 - 0 + 1 = 4
        OBVIOUS
    <2>2. IsFiniteSet(0 .. 3) /\ Cardinality(0 .. 3) = 3 - 0 + 1
        BY <2>1, FS_Interval, Zenon
    <2> QED
        BY <2>1, <2>2 DEF Channel
<1>2. IsFiniteSet(mask) /\ Cardinality(mask) <= 4
    BY <1>1, FS_Subset
<1>3. Cardinality(mask) \in Nat
    BY <1>2, FS_CardinalityType
<1> QED
    BY <1>2, <1>3, FS_EmptySet

\* A later channel has more before it.
LEMMA RanksAscend ==
    ASSUME NEW mask \in SUBSET Channel, NEW c \in mask, NEW d \in mask, c < d
    PROVE  Rank(mask, c) < Rank(mask, d)
<1> DEFINE S == {e \in mask : e < c}
           T == {e \in mask : e < d}
<1>1. S \in SUBSET T /\ c \in T /\ c \notin S
    <2>1. ~(c < c) /\ \A e \in mask : e < c => e < d
        BY DEF Channel
    <2> QED
        BY <2>1
<1>2. T \in SUBSET Channel /\ S \in SUBSET Channel
    OBVIOUS
<1> HIDE DEF S, T
<1>3. IsFiniteSet(T) /\ Cardinality(T) \in Nat /\ Cardinality(S) \in Nat
    BY <1>2, MaskFinite
<1>4. Cardinality(S) <= Cardinality(T) /\ Cardinality(S) # Cardinality(T)
    BY <1>1, <1>3, FS_Subset
<1> QED
    BY <1>3, <1>4 DEF S, T, Rank

LEMMA RankRange ==
    ASSUME NEW mask \in SUBSET Channel, NEW c \in mask
    PROVE  Rank(mask, c) \in 0 .. Cardinality(mask) - 1
<1> DEFINE S == {e \in mask : e < c}
<1>1. S \in SUBSET mask /\ c \notin S
    BY DEF Channel
<1>2. S \in SUBSET Channel
    BY <1>1
<1> HIDE DEF S
<1>3. IsFiniteSet(mask) /\ Cardinality(mask) \in Nat /\ Cardinality(S) \in Nat
    BY <1>2, MaskFinite
<1>4. Cardinality(S) <= Cardinality(mask) /\ Cardinality(S) # Cardinality(mask)
    BY <1>1, <1>3, FS_Subset
<1> QED
    BY <1>3, <1>4 DEF S, Rank

\* Every place of a frame has its channel.
LEMMA PlaceTaken ==
    ASSUME NEW mask \in SUBSET Channel, NEW place \in 0 .. Cardinality(mask) - 1
    PROVE  ChannelAt(mask, place) \in mask
<1> DEFINE n == Cardinality(mask)
           f == [c \in mask |-> Rank(mask, c)]
           T == 0 .. n - 1
<1>1. n \in Nat /\ IsFiniteSet(mask)
    BY MaskFinite
<1>2. IsFiniteSet(T) /\ Cardinality(T) = n
    BY <1>1, FS_Interval
<1>3. f \in [mask -> T]
    BY RankRange
<1>4. ASSUME NEW c \in mask, NEW d \in mask, c # d PROVE f[c] # f[d]
    <2>1. Rank(mask, c) \in Nat /\ Rank(mask, d) \in Nat
        BY RankRange
    <2>2. c < d \/ d < c
        BY <1>4 DEF Channel
    <2>3. Rank(mask, c) < Rank(mask, d) \/ Rank(mask, d) < Rank(mask, c)
        BY <2>2, RanksAscend
    <2> QED
        BY <2>1, <2>3
<1> HIDE DEF T, f
<1>5. f \in Injection(mask, T)
    <2>1. \A c, d \in mask : f[c] = f[d] => c = d
        BY <1>4
    <2> QED
        BY <1>3, <2>1 DEF Injection, IsInjective
<1>6. f \in Surjection(mask, T)
    BY <1>2, <1>5, FS_Injection
<1>7. PICK c \in mask : f[c] = place
    BY <1>6 DEF Surjection, T
<1>8. Cardinality({d \in mask : d < c}) = place
    BY <1>7 DEF f, Rank
<1> QED
    BY <1>8 DEF ChannelAt

(***************************************************************************)
(* Samples and bytes.                                                      *)
(***************************************************************************)

\* Frames of two, four, six or eight bytes.
Frames == {2, 4, 6, 8}

LEMMA FrameRange ==
    ASSUME NEW mask \in SUBSET Channel
    PROVE  /\ mask = {} => FrameBytes(mask) = 0
           /\ mask # {} => FrameBytes(mask) \in Frames
           /\ FrameBytes(mask) \in Nat
<1> DEFINE n == Cardinality(mask)
<1>1. n \in 0 .. 4 /\ (n = 0 <=> mask = {})
    BY MaskFinite
<1>2. FrameBytes(mask) = 2 * n
    BY DEF FrameBytes
<1> HIDE DEF n
<1> QED
    BY <1>1, <1>2 DEF Frames

\* Whole frames before a byte change neither its place in its frame nor its half.
LEMMA FramesBefore ==
    ASSUME NEW frame \in Frames, NEW q \in Nat, NEW j \in Nat
    PROVE  /\ (frame * q + j) % frame = j % frame
           /\ (frame * q + j) \div frame = q + j \div frame
           /\ (frame * q + j) % 2 = j % 2
           /\ j % frame \in 0 .. frame - 1 /\ j \div frame \in Nat
           /\ (j % frame) \div 2 \in 0 .. frame \div 2 - 1
<1>1. CASE frame = 2
    BY <1>1
<1>2. CASE frame = 4
    BY <1>2
<1>3. CASE frame = 6
    BY <1>3
<1>4. CASE frame = 8
    BY <1>4
<1> QED
    BY <1>1, <1>2, <1>3, <1>4 DEF Frames

\* Indices that the tones do not tell apart.
Alike(x, y) == x % Phases = y % Phases

LEMMA AlikeShifted ==
    ASSUME NEW x \in Nat, NEW y \in Nat, Alike(x, y), NEW q \in Nat
    PROVE  Alike(x + q, y + q)
BY DEF Alike, Phases

LEMMA ToneNat ==
    ASSUME NEW t \in Tone
    PROVE  t.step \in Nat /\ t.phase \in Nat
<1>1. t.step \in Uint8 /\ t.phase \in Uint8
    BY DEF Tone
<1> QED
    BY <1>1 DEF Uint8

\* A sample depends on the index modulo the phases of a tone.
LEMMA SampleRepeats ==
    ASSUME NEW c \in Channel, NEW x \in Nat, NEW y \in Nat, Alike(x, y), tones \in Settings
    PROVE  Sample(c, x) = Sample(c, y)
<1> DEFINE tone == tones[c \div 2]
           rest == tone.phase + Lead(c)
           at(z) == (z * tone.step + rest) % Phases
<1>1. c \div 2 \in 0 .. 1
    BY DEF Channel
<1>2. tone \in Tone
    BY <1>1, ReceiverAssumption
<1>3. Lead(c) \in Nat
    BY DEF Lead, Phases
<1>4. tone.step \in Nat /\ tone.phase \in Nat /\ rest \in Nat
    <2>1. \A t \in Tone : t.step \in Nat /\ t.phase \in Nat
        BY ToneNat
    <2>2. tone.step \in Nat /\ tone.phase \in Nat
        BY <1>2, <2>1, Zenon
    <2> HIDE DEF tone
    <2> QED
        BY <1>3, <2>2
<1> DEFINE s == tone.step
<1> HIDE DEF rest, tone, s
<1>5. ASSUME NEW z \in Nat, NEW r \in Nat, NEW a \in Nat, z = 64 * a + r
      PROVE  (z * s + rest) % 64 = (r * s + rest) % 64
    <2>1. s \in Nat /\ rest \in Nat
        BY <1>4 DEF s
    <2>2. z * s = 64 * (a * s) + r * s
        BY <1>5, <2>1
    <2> DEFINE m == a * s
               k == r * s + rest
    <2>3. m \in Nat /\ k \in Nat
        BY <1>5, <2>1
    <2>4. z * s + rest = 64 * m + k
        BY <1>5, <2>1, <2>2
    <2> HIDE DEF m, k
    <2>5. (64 * m + k) % 64 = k % 64
        BY <2>3
    <2> QED
        BY <2>4, <2>5 DEF k
<1>6. x = 64 * (x \div 64) + (x % 64) /\ y = 64 * (y \div 64) + (y % 64)
    OBVIOUS
<1>7. /\ x \div 64 \in Nat /\ x % 64 \in Nat /\ y \div 64 \in Nat /\ y % 64 \in Nat
      /\ x % 64 = y % 64
    BY DEF Alike, Phases
<1>8. (x * s + rest) % 64 = (y * s + rest) % 64
    <2>1. (x * s + rest) % 64 = ((x % 64) * s + rest) % 64
        BY <1>5, <1>6, <1>7
    <2>2. (y * s + rest) % 64 = ((y % 64) * s + rest) % 64
        BY <1>5, <1>6, <1>7
    <2> QED
        BY <1>7, <2>1, <2>2
<1>9. at(x) = at(y)
    BY <1>8 DEF s, Phases
<1>10. \A z \in Nat : z * tone.step + tone.phase + Lead(c) = z * tone.step + rest
    BY <1>3, <1>4 DEF rest
<1>11. ASSUME NEW z \in Nat
       PROVE  Sample(c, z) = Toward0(Sine[at(z) + 1] * Amplitude(tone), 32767)
    <2>1. Sample(c, z) =
            Toward0(Sine[((z * tone.step + tone.phase + Lead(c)) % Phases) + 1]
                        * Amplitude(tone), 32767)
        BY DEF Sample, tone
    <2> QED
        BY <1>10, <2>1
<1> QED
    BY <1>9, <1>11

\* Byte j of whole frames that begin at an index.
Byte(mask, index, j) ==
    LET value == Sample(ChannelAt(mask, (j % FrameBytes(mask)) \div 2),
                        index + j \div FrameBytes(mask))
    IN  IF j % 2 = 0 THEN Low(value) ELSE High(value)

\* Byte i of a fill with so many frames.
Filled(mask, index, frames, i) ==
    IF i > frames * FrameBytes(mask) THEN 0 ELSE Byte(mask, index, i - 1)

FramesIn(mask, size) == IF mask = {} THEN 0 ELSE size \div FrameBytes(mask)

LEMMA FillShape ==
    ASSUME NEW mask, NEW index, NEW size
    PROVE  /\ Fill(mask, index, size).frames = FramesIn(mask, size)
           /\ Fill(mask, index, size).bytes =
                [i \in 1 .. size |-> Filled(mask, index, FramesIn(mask, size), i)]
BY Zenon DEF Fill, FramesIn, Filled, Byte

\* Bytes of frames that begin at indices the tones do not tell apart, so many frames
\* later.
LEMMA ByteContinues ==
    ASSUME NEW mask \in SUBSET Channel, mask # {}, tones \in Settings,
           NEW x \in Nat, NEW y \in Nat, NEW q \in Nat, Alike(x, y + q), NEW j \in Nat
    PROVE  Byte(mask, x, j) = Byte(mask, y, FrameBytes(mask) * q + j)
<1> DEFINE frame == FrameBytes(mask)
           place == (j % frame) \div 2
           c == ChannelAt(mask, place)
           k == frame * q + j
           m == j \div frame
<1>1. frame \in Frames /\ frame \div 2 = Cardinality(mask)
    <2>1. frame \in Frames /\ frame = 2 * Cardinality(mask)
        BY FrameRange DEF FrameBytes
    <2>2. Cardinality(mask) \in Nat
        BY MaskFinite
    <2> HIDE DEF frame
    <2> QED
        BY <2>1, <2>2
<1>2. /\ k % frame = j % frame /\ k \div frame = q + m /\ k % 2 = j % 2
      /\ m \in Nat /\ place \in 0 .. frame \div 2 - 1
    BY <1>1, FramesBefore
<1>3. c \in Channel
    <2> HIDE DEF frame, place
    <2>1. place \in 0 .. Cardinality(mask) - 1
        BY <1>1, <1>2
    <2> QED
        BY <2>1, PlaceTaken DEF c
<1> HIDE DEF frame, c, k, m
<1>4. Alike(x + m, y + q + m) /\ y + q + m = y + (q + m)
    <2>1. y + q \in Nat
        OBVIOUS
    <2> QED
        BY <1>2, <2>1, AlikeShifted
<1>5. x + m \in Nat /\ y + (q + m) \in Nat
    BY <1>2
<1>6. Sample(c, x + m) = Sample(c, y + (q + m))
    BY <1>3, <1>4, <1>5, SampleRepeats
<1>7. Byte(mask, x, j) = IF j % 2 = 0 THEN Low(Sample(c, x + m)) ELSE High(Sample(c, x + m))
    BY Zenon DEF Byte, frame, c, m
<1>8. Byte(mask, y, k) =
        IF k % 2 = 0 THEN Low(Sample(c, y + k \div frame)) ELSE High(Sample(c, y + k \div frame))
    BY <1>2, Zenon DEF Byte, frame, c
<1> QED
    BY <1>2, <1>6, <1>7, <1>8 DEF k, frame

LEMMA SampleInt ==
    ASSUME NEW c \in Channel, NEW x \in Nat, tones \in Settings
    PROVE  Sample(c, x) \in Int
<1> DEFINE tone == tones[c \div 2]
           lut  == (x * tone.step + tone.phase + Lead(c)) % Phases
           a    == Amplitude(tone)
           v    == Sine[lut + 1]
<1>1. tone \in Tone
    <2>1. c \div 2 \in 0 .. 1
        BY DEF Channel
    <2> QED
        BY <2>1, ReceiverAssumption
<1>2. tone.step \in Nat /\ tone.phase \in Nat /\ tone.amplitude \in Nat /\ Lead(c) \in Nat
    <2> HIDE DEF tone
    <2>1. tone.amplitude \in Uint16
        BY <1>1 DEF Tone
    <2>2. \A amplitude \in Uint16 : amplitude \in Nat
        BY DEF Uint16
    <2>3. Lead(c) \in Nat
        BY DEF Lead, Phases
    <2> QED
        BY <1>1, <2>1, <2>2, <2>3, ToneNat
<1>3. lut \in 0 .. 63
    <2> DEFINE k == x * tone.step + tone.phase + Lead(c)
    <2>1. k \in Nat
        <3> HIDE DEF tone
        <3> QED
            BY <1>2
    <2>2. lut = k % 64
        BY DEF Phases
    <2> HIDE DEF k, lut
    <2> QED
        BY <2>1, <2>2
<1>4. a \in Int
    <2> HIDE DEF tone
    <2> QED
        BY <1>2 DEF Amplitude, MaxCode
<1>5. v \in Int
    <2> HIDE DEF lut
    <2>1. lut + 1 \in 1 .. 64
        BY <1>3
    <2>2. \A k \in 1 .. 64 : Sine[k] \in Int
        BY DEF Sine
    <2> QED
        BY <2>1, <2>2
<1>6. Sample(c, x) = Toward0(v * a, 32767)
    BY DEF Sample
<1> HIDE DEF v, a
<1>7. v * a \in Int
    BY <1>4, <1>5
<1> DEFINE b == v * a
<1> HIDE DEF b
<1>8. Toward0(b, 32767) \in Int
    BY <1>7 DEF b, Toward0
<1> QED
    BY <1>6, <1>8 DEF b

LEMMA ByteRange ==
    ASSUME NEW value \in Int
    PROVE  Low(value) \in Uint8 /\ High(value) \in Uint8
BY DEF Low, High, Uint8

\* What a fill puts in a buffer are bytes.
LEMMA FilledRange ==
    ASSUME NEW mask \in SUBSET Channel, tones \in Settings, NEW x \in Nat,
           NEW size \in Nat, NEW i \in Nat \ {0}
    PROVE  Filled(mask, x, FramesIn(mask, size), i) \in Uint8
<1> DEFINE frame  == FrameBytes(mask)
           frames == FramesIn(mask, size)
           j      == i - 1
           c      == ChannelAt(mask, (j % frame) \div 2)
           m      == j \div frame
<1>1. CASE i > frames * frame
    <2>1. 0 \in Uint8
        BY DEF Uint8
    <2> QED
        BY <1>1, <2>1 DEF Filled
<1>2. CASE ~(i > frames * frame)
    <2>1. mask # {}
        <3>1. mask = {} => frames * frame = 0
            BY FrameRange DEF FramesIn
        <3> HIDE DEF frame, frames
        <3> QED
            BY <1>2, <3>1
    <2>2. frame \in Frames /\ frame \div 2 = Cardinality(mask) /\ j \in Nat
        <3>1. frame \in Frames /\ frame = 2 * Cardinality(mask)
            BY <2>1, FrameRange DEF FrameBytes
        <3>2. Cardinality(mask) \in Nat
            BY MaskFinite
        <3> HIDE DEF frame
        <3> QED
            BY <3>1, <3>2
    <2>3. m \in Nat /\ (j % frame) \div 2 \in 0 .. frame \div 2 - 1
        <3> HIDE DEF frame, j
        <3>1. 0 \in Nat
            OBVIOUS
        <3> QED
            BY <2>2, <3>1, FramesBefore
    <2>4. c \in Channel
        <3> DEFINE place == (j % frame) \div 2
        <3>1. place \in 0 .. Cardinality(mask) - 1
            BY <2>2, <2>3
        <3> HIDE DEF place
        <3>2. ChannelAt(mask, place) \in Channel
            BY <3>1, PlaceTaken
        <3> QED
            BY <3>2 DEF place
    <2> HIDE DEF m, c
    <2>5. Sample(c, x + m) \in Int
        BY <2>3, <2>4, SampleInt
    <2>6. Byte(mask, x, j) = IF j % 2 = 0 THEN Low(Sample(c, x + m)) ELSE High(Sample(c, x + m))
        BY Zenon DEF Byte, c, m
    <2>7. Filled(mask, x, frames, i) = Byte(mask, x, j)
        BY <1>2, Zenon DEF Filled
    <2> QED
        BY <2>5, <2>6, <2>7, ByteRange
<1> QED
    BY <1>1, <1>2

(***************************************************************************)
(* A copy, chunk after chunk.                                              *)
(***************************************************************************)

\* A whole chunk is a whole number of frames, and not none.
LEMMA WholeFrames ==
    ASSUME NEW frame \in Frames
    PROVE  /\ Chunk \div frame \in Nat \ {0}
           /\ Chunk - (Chunk % frame) = frame * (Chunk \div frame)
           /\ Chunk - (Chunk % frame) \in 1 .. Chunk
<1>1. Chunk \in Nat /\ Chunk >= 8
    BY ReceiverAssumption
<1>2. CASE frame = 2
    BY <1>1, <1>2
<1>3. CASE frame = 4
    BY <1>1, <1>3
<1>4. CASE frame = 6
    BY <1>1, <1>4
<1>5. CASE frame = 8
    BY <1>1, <1>5
<1> QED
    BY <1>2, <1>3, <1>4, <1>5 DEF Frames

\* The frames of a chunk: all of it, unless it is the last.
LEMMA ChunkFrames ==
    ASSUME NEW frame \in Frames, NEW rest \in Nat \ {0}
    PROVE  /\ ChunkOf(rest, frame) \in 1 .. rest
           /\ ChunkOf(rest, frame) \div frame \in Nat
           /\ \/ ChunkOf(rest, frame) = rest
              \/ ChunkOf(rest, frame) = frame * (ChunkOf(rest, frame) \div frame)
<1> DEFINE size == ChunkOf(rest, frame)
<1>1. frame \in Nat \ {0} /\ Chunk \in Nat
    BY ReceiverAssumption DEF Frames
<1>2. \/ rest <= Chunk /\ size = rest
      \/ rest > Chunk /\ size = frame * (Chunk \div frame) /\ size \in 1 .. Chunk
    <2>1. CASE rest <= Chunk
        BY <2>1 DEF ChunkOf
    <2>2. CASE ~(rest <= Chunk)
        <3>1. size = Chunk - (Chunk % frame)
            BY <1>1, <2>2 DEF ChunkOf
        <3> HIDE DEF size
        <3> QED
            BY <1>1, <2>2, <3>1, WholeFrames
    <2> QED
        BY <2>1, <2>2
<1> HIDE DEF size
<1>3. size \in 1 .. rest
    BY <1>1, <1>2
<1>4. size \div frame \in Nat
    <2>1. size \in Nat /\ 0 \in Nat
        BY <1>3
    <2> QED
        BY <2>1, FramesBefore
<1>5. size = rest \/ size = frame * (size \div frame)
    <2>1. CASE size = frame * (Chunk \div frame)
        <3> DEFINE p == Chunk \div frame
        <3>1. p \in Nat
            BY WholeFrames
        <3> HIDE DEF p
        <3>2. (frame * p + 0) \div frame = p + 0 \div frame /\ 0 \div frame = 0
            BY <1>1, <3>1, FramesBefore DEF Frames
        <3>3. size = frame * p + 0
            BY <1>1, <2>1, <3>1 DEF p
        <3>4. size \div frame = p
            BY <3>1, <3>2, <3>3
        <3> QED
            BY <2>1, <3>4 DEF p
    <2> QED
        BY <1>2, <2>1
<1> QED
    BY <1>3, <1>4, <1>5 DEF size

\* The index wraps where the tones begin again.
LEMMA IndexWraps ==
    ASSUME NEW x \in Nat
    PROVE  x % IndexWrap \in 0 .. IndexWrap - 1 /\ Alike(x % IndexWrap, x)
<1> DEFINE r == x % IndexWrap
           a == x \div IndexWrap
           w == IndexWrap \div 64
<1>1. IndexWrap \in Nat \ {0} /\ IndexWrap % 64 = 0
    BY ReceiverAssumption DEF Phases
<1>2. r \in 0 .. IndexWrap - 1 /\ a \in Nat /\ x = IndexWrap * a + r
    BY <1>1
<1>3. IndexWrap = 64 * w /\ w \in Nat
    BY <1>1
<1> HIDE DEF r, a, w
<1>4. x = 64 * (w * a) + r
    BY <1>2, <1>3
<1> DEFINE k == w * a
<1>5. k \in Nat
    BY <1>2, <1>3
<1> HIDE DEF k
<1>6. x % 64 = r % 64
    <2>1. x = 64 * k + r /\ r \in Nat
        BY <1>1, <1>2, <1>4 DEF k
    <2> QED
        BY <1>5, <2>1
<1> QED
    BY <1>2, <1>6 DEF r, Alike, Phases

\* A buffer holds the frames that a fill from index would have made.
Holds(mask, index, buffer) ==
    \A i \in 1 .. Len(buffer) : buffer[i] = Filled(mask, index, FramesIn(mask, Len(buffer)), i)

\* What holds between the chunks of a copy of a transfer that began at start.
Whole(mask, start, length, s) ==
    /\ s.bytes \in Seq(Uint8) /\ Len(s.bytes) <= length
    /\ s.index \in 0 .. IndexWrap - 1
    /\ Holds(mask, start, s.bytes)
    /\ \/ mask = {}
       \/ Len(s.bytes) = length
       \/ \E q \in Nat : Len(s.bytes) = FrameBytes(mask) * q /\ Alike(s.index, start + q)

Uncopied == [bytes |-> <<>>, index |-> sampleIndex]

Further(mask, length, last) ==
    LET size == ChunkOf(length - Len(last.bytes), FrameBytes(mask))
        data == Fill(mask, last.index, size)
    IN  IF Len(last.bytes) = length THEN last
        ELSE [bytes |-> last.bytes \o data.bytes,
              index |-> (last.index + data.frames) % IndexWrap]

\* new is old with one more fill of bytes after it.
Appended(new, old, mask, x, size) ==
    /\ new \in Seq(Uint8) /\ Len(new) = Len(old) + size
    /\ \A i \in 1 .. Len(new) :
            new[i] = IF i <= Len(old) THEN old[i]
                     ELSE Filled(mask, x, FramesIn(mask, size), i - Len(old))

LEMMA BytesAppended ==
    ASSUME NEW mask \in SUBSET Channel, tones \in Settings, NEW old \in Seq(Uint8),
           NEW x \in Nat, NEW size \in Nat
    PROVE  Appended(old \o Fill(mask, x, size).bytes, old, mask, x, size)
<1> DEFINE F(i) == Filled(mask, x, FramesIn(mask, size), i)
           data == [i \in 1 .. size |-> F(i)]
<1>1. Fill(mask, x, size).bytes = data
    BY FillShape
<1>2. \A i \in 1 .. size : F(i) \in Uint8
    <2> TAKE i \in 1 .. size
    <2>1. i \in Nat \ {0}
        OBVIOUS
    <2> QED
        BY <2>1, FilledRange
<1> HIDE DEF F
<1>3. data \in Seq(Uint8) /\ Len(data) = size /\ \A i \in 1 .. size : data[i] = F(i)
    BY <1>2
<1> HIDE DEF data
<1> DEFINE new == old \o data
<1>4. new \in Seq(Uint8) /\ Len(new) = Len(old) + size
    BY <1>3
<1>5. \A i \in 1 .. Len(new) : new[i] = IF i <= Len(old) THEN old[i] ELSE F(i - Len(old))
    <2> TAKE i \in 1 .. Len(new)
    <2>1. CASE i <= Len(old)
        BY <1>3, <1>4, <2>1
    <2>2. CASE ~(i <= Len(old))
        <3>1. i - Len(old) \in 1 .. size
            BY <1>4, <2>2
        <3>2. new[i] = data[i - Len(old)]
            BY <1>3, <1>4, <2>2
        <3> QED
            BY <1>3, <2>2, <3>1, <3>2
    <2> QED
        BY <2>1, <2>2
<1> QED
    BY <1>1, <1>4, <1>5 DEF F, Appended

LEMMA UncopiedWhole ==
    ASSUME NEW mask \in SUBSET Channel, sampleIndex \in 0 .. IndexWrap - 1, NEW length \in Nat
    PROVE  Whole(mask, sampleIndex, length, Uncopied)
<1>1. Uncopied.bytes = <<>> /\ Uncopied.index = sampleIndex
    BY DEF Uncopied
<1>2. <<>> \in Seq(Uint8) /\ Len(<<>>) = 0
    OBVIOUS
<1>3. sampleIndex \in Nat
    BY ReceiverAssumption
<1>4. FrameBytes(mask) * 0 = 0 /\ sampleIndex + 0 = sampleIndex
    BY <1>3, FrameRange
<1>5. Holds(mask, sampleIndex, <<>>)
    BY <1>2 DEF Holds
<1>6. \E q \in Nat : 0 = FrameBytes(mask) * q /\ Alike(sampleIndex, sampleIndex + q)
    BY <1>4 DEF Alike
<1> QED
    BY <1>1, <1>2, <1>5, <1>6 DEF Whole

\* One more chunk of a transfer without channels is zeroes.
LEMMA ZeroesFurther ==
    ASSUME NEW start \in Nat, NEW length \in Nat, tones \in Settings,
           NEW s, Whole({}, start, length, s), Len(s.bytes) # length
    PROVE  Whole({}, start, length, Further({}, length, s))
<1> DEFINE n    == Len(s.bytes)
           rest == length - n
           size == ChunkOf(rest, FrameBytes({}))
           new  == s.bytes \o Fill({}, s.index, size).bytes
           t    == Further({}, length, s)
<1>1. FrameBytes({}) = 0 /\ \A k \in Nat : FramesIn({}, k) = 0
    BY FrameRange DEF FramesIn
<1>2. s.bytes \in Seq(Uint8) /\ n <= length /\ n \in Nat /\ s.index \in 0 .. IndexWrap - 1
    BY DEF Whole
<1> HIDE DEF n
<1>3. rest \in Nat \ {0} /\ size \in 1 .. rest
    <2>1. rest \in Nat \ {0}
        BY <1>2 DEF n
    <2> HIDE DEF rest
    <2> QED
        BY <1>1, <2>1, ReceiverAssumption DEF ChunkOf
<1> HIDE DEF rest, size
<1>4. s.index \in Nat /\ size \in Nat
    BY <1>2, <1>3, ReceiverAssumption
<1>5. /\ new \in Seq(Uint8) /\ Len(new) = n + size
      /\ \A i \in 1 .. Len(new) :
            new[i] = IF i <= n THEN s.bytes[i] ELSE Filled({}, s.index, FramesIn({}, size), i - n)
    <2>1. Appended(new, s.bytes, {}, s.index, size)
        <3>1. {} \in SUBSET Channel
            OBVIOUS
        <3> QED
            BY <1>2, <1>4, <3>1, BytesAppended, Zenon
    <2> HIDE DEF new
    <2> QED
        BY <2>1, Zenon DEF Appended, n
<1> HIDE DEF new
<1>6. \A k \in Nat, x \in Nat, i \in Nat \ {0} : Filled({}, x, FramesIn({}, k), i) = 0
    BY <1>1 DEF Filled
<1>7. Holds({}, start, new)
    <2> SUFFICES ASSUME NEW i \in 1 .. Len(new)
                 PROVE  new[i] = Filled({}, start, FramesIn({}, Len(new)), i)
        BY DEF Holds
    <2>1. Filled({}, start, FramesIn({}, Len(new)), i) = 0
        BY <1>2, <1>4, <1>5, <1>6
    <2>2. CASE i <= n
        <3>1. s.bytes[i] = Filled({}, start, FramesIn({}, n), i)
            <4>1. Holds({}, start, s.bytes)
                BY DEF Whole
            <4> QED
                BY <1>2, <2>2, <4>1 DEF Holds, n
        <3> QED
            BY <1>2, <1>5, <1>6, <2>1, <2>2, <3>1
    <2>3. CASE ~(i <= n)
        <3>1. i - n \in Nat \ {0}
            BY <1>2, <1>4, <1>5, <2>3
        <3> QED
            BY <1>4, <1>5, <1>6, <2>1, <2>3, <3>1
    <2> QED
        BY <2>2, <2>3
<1>8. Fill({}, s.index, size).frames = 0
    <2>1. Fill({}, s.index, size).frames = FramesIn({}, size)
        BY FillShape
    <2> QED
        BY <1>1, <1>4, <2>1
<1>9. t.bytes = new /\ t.index = (s.index + Fill({}, s.index, size).frames) % IndexWrap
    BY DEF Further, new, size, rest, n
<1> HIDE DEF t
<1>10. t.index \in 0 .. IndexWrap - 1
    <2>1. s.index + 0 = s.index
        BY <1>4
    <2> QED
        BY <1>4, <1>8, <1>9, <2>1, IndexWraps
<1>11. Len(new) <= length
    BY <1>2, <1>3, <1>5 DEF rest
<1> QED
    BY <1>5, <1>7, <1>9, <1>10, <1>11 DEF Whole, t

\* A chunk after whole frames goes on with the next.
LEMMA FramesFurther ==
    ASSUME NEW mask \in SUBSET Channel, mask # {}, NEW start \in Nat, NEW length \in Nat,
           tones \in Settings, NEW s, Whole(mask, start, length, s), Len(s.bytes) # length
    PROVE  Whole(mask, start, length, Further(mask, length, s))
<1> DEFINE n     == Len(s.bytes)
           frame == FrameBytes(mask)
           rest  == length - n
           size  == ChunkOf(rest, frame)
           more  == size \div frame
           new   == s.bytes \o Fill(mask, s.index, size).bytes
           t     == Further(mask, length, s)
<1>1. frame \in Frames /\ \A k \in Nat : FramesIn(mask, k) = k \div frame
    BY FrameRange DEF FramesIn
<1>2. s.bytes \in Seq(Uint8) /\ n <= length /\ n \in Nat /\ s.index \in 0 .. IndexWrap - 1
    BY DEF Whole
<1>3. PICK q \in Nat : n = frame * q /\ Alike(s.index, start + q)
    BY DEF Whole
<1> HIDE DEF n, frame
<1>4. rest \in Nat \ {0}
    BY <1>2 DEF n
<1>5. /\ size \in 1 .. rest /\ more \in Nat /\ size \in Nat
      /\ size = rest \/ size = frame * more
    <2> HIDE DEF rest
    <2>1. /\ size \in 1 .. rest /\ more \in Nat
          /\ size = rest \/ size = frame * more
        BY <1>1, <1>4, ChunkFrames
    <2> HIDE DEF size, more
    <2> QED
        BY <1>4, <2>1
<1>6. s.index \in Nat
    BY <1>2, ReceiverAssumption
<1>7. FramesIn(mask, n) = q /\ FramesIn(mask, size) = more
    <2>1. frame \in Nat /\ n = frame * q + 0 /\ 0 \div frame = 0
        BY <1>1, <1>3 DEF Frames
    <2>2. (frame * q + 0) \div frame = q + 0 \div frame
        <3>1. 0 \in Nat
            OBVIOUS
        <3> QED
            BY <1>1, <3>1, FramesBefore
    <2>3. n \div frame = q
        BY <2>1, <2>2
    <2> QED
        BY <1>1, <1>2, <1>5, <2>3 DEF more
<1> HIDE DEF rest
<1>8. FramesIn(mask, n + size) = q + more
    <2> HIDE DEF size
    <2>1. (frame * q + size) \div frame = q + size \div frame
        BY <1>1, <1>5, FramesBefore
    <2>2. n + size \in Nat
        BY <1>2, <1>5
    <2> QED
        BY <1>1, <1>3, <2>1, <2>2
<1> HIDE DEF size, more
<1>9. /\ new \in Seq(Uint8) /\ Len(new) = n + size
      /\ \A i \in 1 .. Len(new) :
            new[i] = IF i <= n THEN s.bytes[i] ELSE Filled(mask, s.index, more, i - n)
    <2>1. Appended(new, s.bytes, mask, s.index, size)
        BY <1>2, <1>5, <1>6, BytesAppended, Zenon
    <2> HIDE DEF new
    <2> QED
        BY <1>7, <2>1, Zenon DEF Appended, n
<1> HIDE DEF new
<1>10. /\ frame \in Nat /\ q * frame = n /\ more * frame \in Nat
       /\ (q + more) * frame = n + more * frame
    BY <1>1, <1>3, <1>5 DEF Frames
<1>11. Holds(mask, start, new)
    <2> SUFFICES ASSUME NEW i \in 1 .. Len(new)
                 PROVE  new[i] = Filled(mask, start, q + more, i)
        BY <1>8, <1>9 DEF Holds
    <2> DEFINE m == more * frame
    <2>1. CASE i <= n
        <3>1. s.bytes[i] = Filled(mask, start, q, i)
            <4>1. Holds(mask, start, s.bytes)
                BY DEF Whole
            <4>2. \A k \in 1 .. n : s.bytes[k] = Filled(mask, start, q, k)
                BY <1>7, <4>1 DEF Holds, n
            <4>3. i \in 1 .. n
                BY <1>2, <2>1
            <4> QED
                BY <4>2, <4>3
        <3> HIDE DEF m
        <3>2. ~(i > n) /\ ~(i > n + m)
            BY <1>2, <1>10, <2>1 DEF m
        <3>3. Filled(mask, start, q, i) = Byte(mask, start, i - 1)
            BY <1>10, <3>2 DEF Filled, frame
        <3>4. Filled(mask, start, q + more, i) = Byte(mask, start, i - 1)
            BY <1>10, <3>2 DEF Filled, frame, m
        <3> QED
            BY <1>9, <2>1, <3>1, <3>3, <3>4
    <2>2. CASE ~(i <= n)
        <3> DEFINE j == i - n - 1
        <3>1. j \in Nat /\ i - n - 1 = j /\ n + j = i - 1
            BY <1>2, <1>5, <1>9, <2>2
        <3>2. new[i] = Filled(mask, s.index, more, i - n)
            BY <1>9, <2>2
        <3>3. Byte(mask, s.index, j) = Byte(mask, start, i - 1)
            <4> HIDE DEF j
            <4>1. Byte(mask, s.index, j) = Byte(mask, start, frame * q + j)
                BY <1>3, <1>6, <3>1, ByteContinues DEF frame
            <4> QED
                BY <1>3, <3>1, <4>1
        <3> HIDE DEF j, m
        <3>4. i - n > m <=> i > n + m
            BY <1>2, <1>10 DEF m
        <3>5. Filled(mask, s.index, more, i - n) =
                IF i - n > m THEN 0 ELSE Byte(mask, s.index, i - n - 1)
            BY Zenon DEF Filled, frame, m
        <3>6. Filled(mask, start, q + more, i) = IF i > n + m THEN 0 ELSE Byte(mask, start, i - 1)
            BY <1>10, Zenon DEF Filled, frame, m
        <3> QED
            BY <3>1, <3>2, <3>3, <3>4, <3>5, <3>6
    <2> QED
        BY <2>1, <2>2
<1>12. Fill(mask, s.index, size).frames = more
    BY <1>7, FillShape
<1>13. t.bytes = new /\ t.index = (s.index + more) % IndexWrap
    BY <1>12 DEF Further, new, size, rest, n, frame
<1> HIDE DEF t
<1>14. t.index \in 0 .. IndexWrap - 1 /\ Alike(t.index, start + (q + more))
    <2>1. s.index + more \in Nat
        BY <1>5, <1>6
    <2>2. t.index \in 0 .. IndexWrap - 1 /\ Alike(t.index, s.index + more)
        BY <1>13, <2>1, IndexWraps
    <2>3. start + q \in Nat /\ start + q + more = start + (q + more)
        BY <1>5
    <2>4. Alike(s.index + more, start + q + more)
        BY <1>3, <1>5, <1>6, <2>3, AlikeShifted
    <2> QED
        BY <2>2, <2>3, <2>4 DEF Alike
<1>15. Len(new) <= length
    BY <1>2, <1>5, <1>9 DEF rest
<1>16. Len(new) = length \/ Len(new) = frame * (q + more)
    <2>1. CASE size = rest
        BY <1>2, <1>9, <2>1 DEF rest
    <2>2. CASE size = frame * more
        <3>1. frame * more = more * frame /\ frame * (q + more) = (q + more) * frame
            BY <1>5, <1>10
        <3> QED
            BY <1>9, <1>10, <2>2, <3>1
    <2> QED
        BY <1>5, <2>1, <2>2
<1>17. \/ Len(t.bytes) = length
       \/ \E k \in Nat : Len(t.bytes) = FrameBytes(mask) * k /\ Alike(t.index, start + k)
    <2>1. q + more \in Nat
        BY <1>5
    <2> QED
        BY <1>13, <1>14, <1>16, <2>1 DEF frame
<1> QED
    BY <1>9, <1>11, <1>13, <1>14, <1>15, <1>17 DEF Whole, t

LEMMA FurtherWhole ==
    ASSUME NEW mask \in SUBSET Channel, NEW start \in Nat, NEW length \in Nat,
           tones \in Settings, NEW s, Whole(mask, start, length, s)
    PROVE  Whole(mask, start, length, Further(mask, length, s))
<1>1. CASE Len(s.bytes) = length
    BY <1>1 DEF Further
<1>2. CASE Len(s.bytes) # length /\ mask = {}
    BY <1>2, ZeroesFurther
<1>3. CASE Len(s.bytes) # length /\ mask # {}
    BY <1>3, FramesFurther
<1> QED
    BY <1>1, <1>2, <1>3

\* g is the copy of a transfer by m chunks.
IsCopy(g, mask, length, m) ==
    g = [k \in 0 .. m |-> IF k = 0 THEN Uncopied ELSE Further(mask, length, g[k - 1])]

LEMMA LeastNumber ==
    ASSUME NEW S, S \subseteq Nat, S # {}
    PROVE  \E m \in S : \A k \in S : m <= k
<1>1. IsWellFoundedOn(OpToRel(<, Nat), Nat)
    BY NatLessThanWellFounded, Zenon
<1>2. PICK m \in S : \A k \in S : <<k, m>> \notin OpToRel(<, Nat)
    BY <1>1, WFMin, Zenon
<1>3. \A k \in S : ~(k < m)
    BY <1>2 DEF OpToRel
<1> QED
    BY <1>3

\* There is a copy of any number of chunks.
LEMMA CopiesExist ==
    ASSUME NEW mask, NEW length
    PROVE  \A m \in Nat : \E g : IsCopy(g, mask, length, m)
<1> DEFINE Is(g, m) == IsCopy(g, mask, length, m)
           More(s) == Further(mask, length, s)
           None == {m \in Nat : ~\E g : Is(g, m)}
<1> USE DEF IsCopy
<1> SUFFICES ASSUME None # {} PROVE FALSE
    OBVIOUS
<1>1. PICK m \in None : \A k \in None : m <= k
    BY LeastNumber
<1>2. m # 0
    <2> DEFINE g == [k \in 0 .. 0 |-> Uncopied]
    <2>1. Is(g, 0)
        OBVIOUS
    <2> QED
        BY <1>1, <2>1
<1>3. m \in Nat /\ m - 1 \in Nat /\ m - 1 \notin None
    <2>1. m \in Nat
        BY <1>1
    <2> HIDE DEF None
    <2> QED
        BY <1>1, <1>2, <2>1
<1>4. PICK g : Is(g, m - 1)
    BY <1>3
<1> DEFINE h == [k \in 0 .. m |-> IF k = m THEN More(g[m - 1]) ELSE g[k]]
<1>5. \A k \in 0 .. m - 1 : g[k] = IF k = 0 THEN Uncopied ELSE More(g[k - 1])
    BY <1>4
<1> HIDE DEF More
<1>6. \A k \in 0 .. m : h[k] = IF k = 0 THEN Uncopied ELSE More(h[k - 1])
    <2> TAKE k \in 0 .. m
    <2>1. CASE k = m
        <3>1. h[k] = More(g[m - 1]) /\ h[k - 1] = g[m - 1]
            BY <1>3, <2>1
        <3> QED
            BY <1>2, <2>1, <3>1
    <2>2. CASE k # m /\ k # 0
        <3>1. k \in 0 .. m - 1 /\ k - 1 \in 0 .. m /\ k - 1 # m
            BY <1>3, <2>2
        <3>2. h[k] = g[k] /\ h[k - 1] = g[k - 1]
            BY <2>2, <3>1
        <3> QED
            BY <1>5, <2>2, <3>1, <3>2
    <2>3. CASE k # m /\ k = 0
        <3>1. h[k] = g[k] /\ k \in 0 .. m - 1
            BY <1>3, <2>3
        <3> QED
            BY <1>5, <2>3, <3>1
    <2> QED
        BY <2>1, <2>2, <2>3
<1>7. Is(h, m)
    <2>1. h = [k \in 0 .. m |-> h[k]]
        OBVIOUS
    <2> HIDE DEF h
    <2> QED
        BY <1>6, <2>1 DEF More
<1> QED
    BY <1>1, <1>7

\* The equation that defines a copy holds of it.
LEMMA CopySteps ==
    ASSUME NEW mask, NEW length \in Nat
    PROVE  /\ Chunks(length) \in Nat
           /\ Copy(mask, length)[0] = Uncopied
           /\ \A k \in 1 .. Chunks(length) :
                Copy(mask, length)[k] = Further(mask, length, Copy(mask, length)[k - 1])
<1> DEFINE n == Chunks(length)
           c == Copy(mask, length)
<1>1. n \in Nat
    <2>1. \A a \in Nat, b \in Nat : b >= 8 => (2 * a) \div b \in Nat
        OBVIOUS
    <2> QED
        BY <2>1, ReceiverAssumption DEF Chunks
<1>2. c = CHOOSE g : IsCopy(g, mask, length, n)
    BY Zenon DEF Copy, IsCopy, Uncopied, Further
<1> HIDE DEF n
<1>3. \E g : IsCopy(g, mask, length, n)
    BY <1>1, CopiesExist
<1>4. IsCopy(c, mask, length, n)
    BY <1>2, <1>3
<1> HIDE DEF c
<1>5. \A k \in 0 .. n : c[k] = IF k = 0 THEN Uncopied ELSE Further(mask, length, c[k - 1])
    <2>1. c = [k \in 0 .. n |-> IF k = 0 THEN Uncopied ELSE Further(mask, length, c[k - 1])]
        BY <1>4 DEF IsCopy
    <2> QED
        BY <2>1
<1>6. c[0] = Uncopied
    BY <1>1, <1>5
<1>7. \A k \in 1 .. n : c[k] = Further(mask, length, c[k - 1])
    BY <1>5
<1> QED
    BY <1>1, <1>6, <1>7 DEF c, n

\* However many chunks the bus accepts.
LEMMA CopyWhole ==
    ASSUME NEW mask \in SUBSET Channel, NEW length \in Nat, tones \in Settings,
           sampleIndex \in 0 .. IndexWrap - 1, NEW k \in 0 .. Chunks(length)
    PROVE  Whole(mask, sampleIndex, length, Copy(mask, length)[k])
<1> DEFINE c == Copy(mask, length)
           n == Chunks(length)
           Torn == {m \in 0 .. n : ~Whole(mask, sampleIndex, length, c[m])}
<1>1. n \in Nat /\ c[0] = Uncopied /\ \A m \in 1 .. n : c[m] = Further(mask, length, c[m - 1])
    BY CopySteps
<1> HIDE DEF c, n
<1> SUFFICES ASSUME Torn # {} PROVE FALSE
    BY DEF c, n
<1>2. PICK m \in Torn : \A j \in Torn : m <= j
    <2>1. Torn \subseteq Nat
        BY <1>1
    <2> HIDE DEF Torn
    <2> QED
        BY <2>1, LeastNumber
<1>3. m # 0
    <2>1. Whole(mask, sampleIndex, length, Uncopied)
        BY UncopiedWhole
    <2> QED
        BY <1>1, <1>2, <2>1
<1>4. m \in 1 .. n /\ m - 1 \in 0 .. n /\ m - 1 \notin Torn
    <2>1. m \in 0 .. n
        OBVIOUS
    <2> HIDE DEF Torn
    <2> QED
        BY <1>1, <1>2, <1>3, <2>1
<1>5. Whole(mask, sampleIndex, length, c[m - 1])
    BY <1>4
<1>6. sampleIndex \in Nat
    BY ReceiverAssumption
<1>7. Whole(mask, sampleIndex, length, Further(mask, length, c[m - 1]))
    BY <1>5, <1>6, FurtherWhole
<1> QED
    BY <1>1, <1>2, <1>4, <1>7

(***************************************************************************)
(* The receiver.                                                           *)
(***************************************************************************)

\* A transfer that waits, with the channels of its submission.
Waiting(t, mask) == t = <<>> \/ \E length \in Lengths : t = <<[length |-> length, mask |-> mask]>>

\* The buffer holds whole frames, and will.
ReceiverInv ==
    /\ TypeOK /\ capture \in Seq(Uint8)
    /\ Waiting(transfer, asked)
    /\ Holds(asked, begun, capture)

LEMMA HoldsWhole ==
    ASSUME capture \in Seq(Uint8), Holds(asked, begun, capture)
    PROVE  CaptureIsWhole
<1> DEFINE n == Len(capture)
           frames == FramesIn(asked, n)
           data == [i \in 1 .. n |-> Filled(asked, begun, frames, i)]
<1>1. Fill(asked, begun, n).bytes = data
    BY FillShape
<1>2. n \in Nat /\ \A i \in 1 .. n : capture[i] = Filled(asked, begun, frames, i)
    BY DEF Holds
<1> HIDE DEF frames
<1>3. \A i \in 1 .. n : data[i] = capture[i]
    BY <1>2
<1>4. capture = [i \in 1 .. n |-> capture[i]]
    OBVIOUS
<1>5. data = capture
    <2> HIDE DEF n
    <2> QED
        BY <1>3, <1>4
<1>6. SubSeq(capture, 1, n) = capture
    OBVIOUS
<1> QED
    BY <1>1, <1>5, <1>6, Zenon DEF CaptureIsWhole, n

LEMMA ResetCoreType ==
    ASSUME NEW core \in Cores
    PROVE  ResetCore(core) \in [CoreRegs -> SUBSET Bits]
<1>1. {31} \in SUBSET Bits /\ {0} \in SUBSET Bits /\ {17} \in SUBSET Bits /\ {} \in SUBSET Bits
    BY DEF Bits
<1> QED
    BY <1>1, Zenon DEF ResetCore

\* A register of a core.
LEMMA WriteTypes ==
    ASSUME NEW w \in Writes
    PROVE  w[1] \in Cores /\ w[2] \in CoreRegs /\ w[3] \in SUBSET Bits
<1>1. w \in Cores \X CoreRegs \X SUBSET Bits
    BY ReceiverAssumption
<1> QED
    BY <1>1

LEMMA WrittenType ==
    ASSUME cores \in [Cores -> [CoreRegs -> SUBSET Bits]], NEW core \in Cores,
           NEW r \in CoreRegs, NEW value \in SUBSET Bits
    PROVE  Written(core, r, value) \in SUBSET Bits
<1>1. cores[core][r] \in SUBSET Bits
    OBVIOUS
<1>2. cores[core][r] \ value \in SUBSET Bits
    BY <1>1
<1> QED
    BY <1>1, <1>2 DEF Written

\* What a buffer holds depends on the properties alone.
LEMMA HoldsStays ==
    ASSUME tones' = tones
    PROVE  \A mask, x, buffer : Holds(mask, x, buffer)' <=> Holds(mask, x, buffer)
<1>1. \A c, x : Sample(c, x)' = Sample(c, x)
    BY DEF Sample
<1>2. \A mask, x, j : Byte(mask, x, j)' = Byte(mask, x, j)
    BY <1>1 DEF Byte
<1>3. \A mask, x, frames, i : Filled(mask, x, frames, i)' = Filled(mask, x, frames, i)
    BY <1>2 DEF Filled
<1> QED
    BY <1>3 DEF Holds

LEMMA BufferStays ==
    ASSUME tones' = tones, asked' = asked, begun' = begun, capture' = capture,
           Holds(asked, begun, capture)
    PROVE  Holds(asked, begun, capture)'
BY HoldsStays DEF Holds

LEMMA ReceiverInitial == Init => ReceiverInv
<1> SUFFICES ASSUME Init PROVE ReceiverInv
    OBVIOUS
<1>1. 0 \in 0 .. IndexWrap - 1
    BY ReceiverAssumption
<1>2. cores \in [Cores -> [CoreRegs -> SUBSET Bits]]
    <2>1. cores = [core \in Cores |-> ResetCore(core)]
        BY DEF Init
    <2> QED
        BY <2>1, ResetCoreType
<1>3. capture = <<>> /\ capture \in Seq(Uint8) /\ Len(capture) = 0 /\ DOMAIN capture = {}
    BY DEF Init
<1>4. Holds(asked, begun, capture)
    BY <1>3 DEF Holds
<1> QED
    BY <1>1, <1>2, <1>3, <1>4 DEF Init, ReceiverInv, TypeOK, Waiting

LEMMA ReceiverPreserved == ReceiverInv /\ [Next]_vars => ReceiverInv'
<1> SUFFICES ASSUME ReceiverInv, [Next]_vars PROVE ReceiverInv'
    OBVIOUS
<1>1. /\ tones \in Settings /\ cores \in [Cores -> [CoreRegs -> SUBSET Bits]]
      /\ sampleIndex \in 0 .. IndexWrap - 1 /\ begun \in 0 .. IndexWrap - 1
      /\ asked \subseteq Channel /\ capture \in Seq(Uint8)
      /\ \A i \in DOMAIN capture : capture[i] \in Uint8
      /\ Waiting(transfer, asked) /\ Holds(asked, begun, capture)
    BY DEF ReceiverInv, TypeOK
<1>2. 0 \in 0 .. IndexWrap - 1 /\ IndexWrap \in Nat
    BY ReceiverAssumption
<1>3. CASE Reset
    <2>1. cores' \in [Cores -> [CoreRegs -> SUBSET Bits]]
        <3>1. cores' = [core \in Cores |-> ResetCore(core)]
            BY <1>3, Zenon DEF Reset, ResetCore
        <3> QED
            BY <3>1, ResetCoreType
    <2>2. /\ sampleIndex' = 0 /\ transfer' = <<>> /\ tones' = tones /\ asked' = asked
          /\ begun' = begun /\ capture' = capture
        BY <1>3 DEF Reset
    <2>3. Holds(asked, begun, capture)'
        BY <1>1, <2>2, BufferStays
    <2> QED
        BY <1>1, <1>2, <2>1, <2>2, <2>3 DEF ReceiverInv, TypeOK, Waiting
<1>4. CASE WriteCore
    <2>1. PICK w \in Writes :
            cores' = [cores EXCEPT ![w[1]][w[2]] = Written(w[1], w[2], w[3])]
        BY <1>4 DEF WriteCore
    <2>2. w[1] \in Cores /\ w[2] \in CoreRegs /\ w[3] \in SUBSET Bits
        BY WriteTypes
    <2>3. Written(w[1], w[2], w[3]) \in SUBSET Bits
        BY <1>1, <2>2, WrittenType
    <2>4. cores' \in [Cores -> [CoreRegs -> SUBSET Bits]]
        BY <1>1, <2>1, <2>2, <2>3
    <2>5. /\ sampleIndex' = sampleIndex /\ transfer' = transfer /\ tones' = tones
          /\ asked' = asked /\ begun' = begun /\ capture' = capture
        BY <1>4 DEF WriteCore
    <2>6. Holds(asked, begun, capture)'
        BY <1>1, <2>5, BufferStays
    <2> QED
        BY <1>1, <2>4, <2>5, <2>6 DEF ReceiverInv, TypeOK, Waiting
<1>5. CASE Submit
    <2>1. /\ asked' = ScanMask /\ capture' = <<>> /\ begun' = 0
          /\ tones' = tones /\ cores' = cores /\ sampleIndex' = sampleIndex
        BY <1>5 DEF Submit
    <2>2. \E length \in Lengths : transfer' = <<[length |-> length, mask |-> asked']>>
        BY <1>5 DEF Submit
    <2>3. capture' \in Seq(Uint8) /\ Len(capture') = 0 /\ DOMAIN capture' = {}
        BY <2>1
    <2>4. Holds(asked, begun, capture)'
        BY <2>3 DEF Holds
    <2>5. asked' \subseteq Channel
        BY <2>1 DEF ScanMask
    <2> QED
        BY <1>1, <1>2, <2>1, <2>2, <2>3, <2>4, <2>5 DEF ReceiverInv, TypeOK, Waiting
<1>6. CASE Complete
    <2>1. PICK length \in Lengths : transfer = <<[length |-> length, mask |-> asked]>>
        BY <1>1, <1>6 DEF Complete, Waiting
    <2>2. length \in Nat /\ transfer[1].length = length /\ MaskOf(transfer[1]) = asked
        BY <2>1, ReceiverAssumption DEF MaskOf
    <2>3. PICK k \in 0 .. Chunks(length) :
            /\ capture' = Copy(asked, length)[k].bytes
            /\ sampleIndex' = Copy(asked, length)[k].index
        BY <1>6, <2>2 DEF Complete
    <2>4. /\ begun' = sampleIndex /\ transfer' = <<>> /\ tones' = tones
          /\ cores' = cores /\ asked' = asked
        BY <1>6 DEF Complete
    <2>5. Whole(asked, sampleIndex, length, Copy(asked, length)[k])
        BY <1>1, <2>2, CopyWhole
    <2>6. /\ capture' \in Seq(Uint8) /\ sampleIndex' \in 0 .. IndexWrap - 1
          /\ Holds(asked, sampleIndex, capture')
        BY <2>3, <2>5, Zenon DEF Whole
    <2>7. \A i \in DOMAIN capture' : capture'[i] \in Uint8
        BY <2>6
    <2>8. Holds(asked, begun, capture)'
        BY <2>4, <2>6, HoldsStays DEF Holds
    <2> QED
        BY <1>1, <2>4, <2>6, <2>7, <2>8 DEF ReceiverInv, TypeOK, Waiting
<1>7. CASE UNCHANGED vars
    <2>1. /\ tones' = tones /\ cores' = cores /\ sampleIndex' = sampleIndex
          /\ transfer' = transfer /\ asked' = asked /\ begun' = begun /\ capture' = capture
        BY <1>7 DEF vars
    <2>2. Holds(asked, begun, capture)'
        BY <1>1, <2>1, BufferStays
    <2> QED
        BY <1>1, <2>1, <2>2 DEF ReceiverInv, TypeOK, Waiting
<1> QED
    BY <1>3, <1>4, <1>5, <1>6, <1>7 DEF Next

\* The inductive invariant of the receiver: what a transfer that waits will copy was
\* settled at its submission, and what the buffer holds is whole.
THEOREM ReceiverInvariant == Spec => []ReceiverInv
BY ReceiverInitial, ReceiverPreserved, PTL DEF Spec

\* The types of the registers, the index and the buffer, for any tones, chunk, wrap of
\* the index, lengths and writes.
THEOREM ReceiverTypes == Spec => []TypeOK
<1>1. ReceiverInv => TypeOK
    BY DEF ReceiverInv
<1> QED
    BY <1>1, ReceiverInvariant, PTL

\* The driver's buffer holds the frames of the channels enabled at the submission,
\* none torn, as a single fill would have made them: for every chunk that a frame fits
\* in, every cut of the copy by the bus, and every write of the channels meanwhile.
THEOREM CaptureStaysWhole == Spec => []CaptureIsWhole
<1>1. ReceiverInv => CaptureIsWhole
    BY HoldsWhole DEF ReceiverInv
<1> QED
    BY <1>1, ReceiverInvariant, PTL

(***************************************************************************)
(* What the driver's probe reads.                                          *)
(***************************************************************************)

\* What no write changes.
CoresKept ==
    /\ cores \in [Cores -> [CoreRegs -> SUBSET Bits]]
    /\ \A core \in Cores, r \in ReadOnly : cores[core][r] = ResetCore(core)[r]
    /\ \A c \in Channel : cores["rx"][<<"CHAN_STATUS", c>>] = {}

LEMMA RegisterNames ==
    /\ ReadOnly \subseteq CoreRegs
    /\ \A c \in Channel : <<"CHAN_STATUS", c>> \in CoreRegs /\ <<"CHAN_STATUS", c>> \notin ReadOnly
    /\ \A r \in ReadOnly : r[1] # "STATUS" /\ r[1] # "CHAN_STATUS"
    /\ "rx" \in Cores
BY DEF ReadOnly, CoreRegs, Cores

LEMMA CoresReset ==
    /\ \A core \in Cores : ResetCore(core) \in [CoreRegs -> SUBSET Bits]
    /\ \A c \in Channel : ResetCore("rx")[<<"CHAN_STATUS", c>>] = {}
<1>1. \A c \in Channel : <<"CHAN_STATUS", c>> \in CoreRegs
    BY RegisterNames
<1> QED
    BY <1>1, ResetCoreType DEF ResetCore

LEMMA CoresInitial == Init => CoresKept
BY CoresReset, RegisterNames DEF Init, CoresKept

LEMMA CoresPreserved == CoresKept /\ [Next]_vars => CoresKept'
<1> SUFFICES ASSUME CoresKept, [Next]_vars PROVE CoresKept'
    OBVIOUS
<1>1. CASE Reset
    <2>1. cores' = [core \in Cores |-> ResetCore(core)]
        BY <1>1, Zenon DEF Reset, ResetCore
    <2>2. \A core \in Cores, r \in ReadOnly : cores'[core][r] = ResetCore(core)[r]
        BY <2>1, RegisterNames
    <2>3. \A c \in Channel : cores'["rx"][<<"CHAN_STATUS", c>>] = {}
        BY <2>1, CoresReset, RegisterNames
    <2>4. cores' \in [Cores -> [CoreRegs -> SUBSET Bits]]
        BY <2>1, CoresReset
    <2> QED
        BY <2>2, <2>3, <2>4 DEF CoresKept, ResetCore
<1>2. CASE WriteCore
    <2>1. PICK w \in Writes :
            cores' = [cores EXCEPT ![w[1]][w[2]] = Written(w[1], w[2], w[3])]
        BY <1>2 DEF WriteCore
    <2> DEFINE new == Written(w[1], w[2], w[3])
    <2>2. w[1] \in Cores /\ w[2] \in CoreRegs /\ w[3] \in SUBSET Bits
        BY WriteTypes
    <2>3. cores \in [Cores -> [CoreRegs -> SUBSET Bits]]
        BY DEF CoresKept
    <2>4. new \in SUBSET Bits
        BY <2>2, <2>3, WrittenType
    <2>5. w[2] \in ReadOnly => new = cores[w[1]][w[2]]
        BY DEF Written
    <2>6. w[1] = "rx" /\ w[2] \notin ReadOnly /\ w[2][1] = "CHAN_STATUS" =>
            new = cores[w[1]][w[2]] \ w[3]
        BY DEF Written, ClearedByOnes
    <2> HIDE DEF new
    <2>7. /\ cores' \in [Cores -> [CoreRegs -> SUBSET Bits]]
          /\ \A core \in Cores, r \in CoreRegs :
                cores'[core][r] = IF core = w[1] /\ r = w[2] THEN new ELSE cores[core][r]
        BY <2>1, <2>2, <2>3, <2>4 DEF new
    <2>8. \A core \in Cores, r \in ReadOnly : cores'[core][r] = ResetCore(core)[r]
        BY <2>5, <2>7, RegisterNames DEF CoresKept
    <2>9. \A c \in Channel : cores'["rx"][<<"CHAN_STATUS", c>>] = {}
        <3> TAKE c \in Channel
        <3> DEFINE r == <<"CHAN_STATUS", c>>
        <3>1. r \in CoreRegs /\ r \notin ReadOnly /\ r[1] = "CHAN_STATUS" /\ cores["rx"][r] = {}
            BY RegisterNames DEF CoresKept
        <3> HIDE DEF r
        <3>2. CASE w[1] = "rx" /\ w[2] = r
            <4>1. new = cores["rx"][r] \ w[3]
                BY <2>6, <3>1, <3>2
            <4>2. cores'["rx"][r] = new
                BY <2>7, <3>1, <3>2, RegisterNames
            <4> QED
                BY <3>1, <4>1, <4>2 DEF r
        <3>3. CASE ~(w[1] = "rx" /\ w[2] = r)
            BY <2>7, <3>1, <3>3, RegisterNames DEF r
        <3> QED
            BY <3>2, <3>3
    <2> QED
        BY <2>7, <2>8, <2>9 DEF CoresKept, ResetCore
<1>3. CASE Submit \/ Complete \/ UNCHANGED vars
    <2>1. cores' = cores
        BY <1>3 DEF Submit, Complete, vars
    <2> QED
        BY <2>1 DEF CoresKept, ResetCore
<1> QED
    BY <1>1, <1>2, <1>3 DEF Next

\* Whatever was written before, the driver's probe and its digital-interface tuning
\* find the cores they know, a receive clock, and no pattern errors.
THEOREM DriverAlwaysTunes == Spec => []DriverTunes
<1>1. Spec => []CoresKept
    BY CoresInitial, CoresPreserved, PTL DEF Spec
<1>2. CoresKept => DriverTunes
    <2> SUFFICES ASSUME CoresKept PROVE DriverTunes
        OBVIOUS
    <2>1. \A core \in Cores, r \in ReadOnly : CoreRead(core, r) = ResetCore(core)[r]
        BY RegisterNames DEF CoresKept, CoreRead
    <2>2. 0 \in CoreRead("rx", <<"STATUS", 0>>)
        BY DEF CoreRead
    <2>3. \A c \in Channel : CoreRead("rx", <<"CHAN_STATUS", c>>) = {}
        BY DEF CoresKept, CoreRead
    <2> QED
        BY <2>1, <2>2, <2>3 DEF DriverTunes
<1> QED
    BY <1>1, <1>2, PTL

(***************************************************************************)
(* What a client sees.                                                     *)
(***************************************************************************)

\* The channel at the place of a channel is that channel.
LEMMA PlaceOfChannel ==
    ASSUME NEW mask \in SUBSET Channel, NEW c \in mask
    PROVE  ChannelAt(mask, Rank(mask, c)) = c
<1>1. \A d \in mask : Rank(mask, d) \in Nat
    <2>1. Cardinality(mask) \in Nat
        BY MaskFinite
    <2> QED
        BY <2>1, RankRange
<1>2. \A d \in mask : d # c => d < c \/ c < d
    BY DEF Channel
<1>3. \A d \in mask : Rank(mask, d) = Rank(mask, c) => d = c
    <2> TAKE d \in mask
    <2>1. CASE d < c
        <3>1. Rank(mask, d) < Rank(mask, c)
            BY <2>1, RanksAscend
        <3> QED
            BY <1>1, <3>1
    <2>2. CASE c < d
        <3>1. Rank(mask, c) < Rank(mask, d)
            BY <2>2, RanksAscend
        <3> QED
            BY <1>1, <3>1
    <2> QED
        BY <1>2, <2>1, <2>2
<1> DEFINE place == Rank(mask, c)
<1>4. ChannelAt(mask, place) = CHOOSE d \in mask : Rank(mask, d) = place
    BY Zenon DEF ChannelAt, Rank
<1> QED
    BY <1>3, <1>4

\* Where the two bytes of a channel are in a frame.
LEMMA BytesOfChannel ==
    ASSUME NEW n \in 1 .. 4, NEW place \in 0 .. n - 1, NEW f \in Nat
    PROVE  LET frame == 2 * n
               at    == frame * f + 2 * place
           IN  /\ at \in Nat
               /\ (at % frame) \div 2 = place /\ at \div frame = f /\ at % 2 = 0
               /\ ((at + 1) % frame) \div 2 = place /\ (at + 1) \div frame = f /\ (at + 1) % 2 # 0
<1> DEFINE frame == 2 * n
           j == 2 * place
<1>1. frame \in Frames /\ j \in Nat /\ j + 1 \in Nat
    BY DEF Frames
<1>2. /\ j % frame = j /\ j \div frame = 0 /\ j % 2 = 0 /\ j \div 2 = place
      /\ (j + 1) % frame = j + 1 /\ (j + 1) \div frame = 0 /\ (j + 1) % 2 = 1
      /\ (j + 1) \div 2 = place
    <2>1. place \in 0 .. 3 /\ n > place
        OBVIOUS
    <2>2. CASE n = 1
        BY <2>1, <2>2
    <2>3. CASE n = 2
        BY <2>1, <2>3
    <2>4. CASE n = 3
        BY <2>1, <2>4
    <2>5. CASE n = 4
        BY <2>1, <2>5
    <2> QED
        BY <2>2, <2>3, <2>4, <2>5
<1> HIDE DEF frame, j
<1> DEFINE at == frame * f + j
<1>3. /\ at % frame = j % frame /\ at \div frame = f + j \div frame /\ at % 2 = j % 2
    BY <1>1, FramesBefore
<1>4. frame * f + (j + 1) = at + 1 /\ at \in Nat
    BY <1>1 DEF Frames
<1>5. /\ (at + 1) % frame = (j + 1) % frame /\ (at + 1) \div frame = f + (j + 1) \div frame
      /\ (at + 1) % 2 = (j + 1) % 2
    <2>1. /\ (frame * f + (j + 1)) % frame = (j + 1) % frame
          /\ (frame * f + (j + 1)) \div frame = f + (j + 1) \div frame
          /\ (frame * f + (j + 1)) % 2 = (j + 1) % 2
        BY <1>1, FramesBefore
    <2> QED
        BY <1>4, <2>1
<1> HIDE DEF at
<1>6. /\ at \in Nat
      /\ (at % frame) \div 2 = place /\ at \div frame = f /\ at % 2 = 0
      /\ ((at + 1) % frame) \div 2 = place /\ (at + 1) \div frame = f /\ (at + 1) % 2 # 0
    BY <1>2, <1>3, <1>4, <1>5
<1> QED
    BY <1>6, Zenon DEF at, frame, j

\* Two bytes are the value they were made of, if the sign bit of 16 is its sign.
LEMMA BytesDecode ==
    ASSUME NEW value \in Int, -2047 <= value, value <= 2047,
           NEW word, word = Low(value) + 256 * High(value)
    PROVE  (IF word < 32768 THEN word ELSE word - 65536) = value
<1>1. CASE value >= 0
    <2>1. word = value
        BY <1>1 DEF Low, High
    <2> QED
        BY <1>1, <2>1
<1>2. CASE value < 0
    <2>1. word = value + 65536
        BY <1>2 DEF Low, High
    <2> QED
        BY <1>2, <2>1
<1> QED
    BY <1>1, <1>2

\* A number between -bound and bound.
Within(x, bound) == -bound <= x /\ x <= bound

\* A product is within the product of the bounds.
LEMMA ProductWithin ==
    ASSUME NEW a \in Int, NEW m \in Nat, Within(a, m), NEW b \in Int, NEW n \in Nat, Within(b, n)
    PROVE  Within(a * b, m * n)
<1>1. (m - a) * (n + b) >= 0 /\ (m + a) * (n - b) >= 0
    <2>1. \A x, y \in Nat : x * y >= 0
        OBVIOUS
    <2>2. m - a \in Nat /\ n + b \in Nat /\ m + a \in Nat /\ n - b \in Nat
        BY DEF Within
    <2> QED
        BY <2>1, <2>2
<1>2. (m - a) * (n - b) >= 0 /\ (m + a) * (n + b) >= 0
    <2>1. \A x, y \in Nat : x * y >= 0
        OBVIOUS
    <2>2. m - a \in Nat /\ n + b \in Nat /\ m + a \in Nat /\ n - b \in Nat
        BY DEF Within
    <2> QED
        BY <2>1, <2>2
<1>3. (m - a) * (n + b) + (m + a) * (n - b) = 2 * (m * n) - 2 * (a * b)
    OBVIOUS
<1>4. (m - a) * (n - b) + (m + a) * (n + b) = 2 * (m * n) + 2 * (a * b)
    OBVIOUS
<1> DEFINE x == m * n
           y == a * b
           x1 == (m - a) * (n + b)
           x2 == (m + a) * (n - b)
           x3 == (m - a) * (n - b)
           x4 == (m + a) * (n + b)
<1>5. x \in Int /\ y \in Int /\ x1 \in Int /\ x2 \in Int /\ x3 \in Int /\ x4 \in Int
    OBVIOUS
<1> HIDE DEF x, y, x1, x2, x3, x4
<1>6. x1 >= 0 /\ x2 >= 0 /\ x3 >= 0 /\ x4 >= 0
    BY <1>1, <1>2 DEF x1, x2, x3, x4
<1>7. x1 + x2 = 2 * x - 2 * y /\ x3 + x4 = 2 * x + 2 * y
    BY <1>3, <1>4 DEF x1, x2, x3, x4, x, y
<1>8. -x <= y /\ y <= x
    BY <1>5, <1>6, <1>7
<1> QED
    BY <1>8 DEF Within, x, y

\* The code i of a sine a at a radius, of which m bounds the size.
CodeOf(i, a, m, radius) ==
    /\ a \in Int /\ m \in Nat /\ Within(a, m) /\ radius \in Nat /\ i \in Int
    /\ Within(a * radius - 32767 * i, 32767)
    /\ Within(32767 * i, m * radius)

\* Truncation: toward zero, and by less than one.
LEMMA Truncated ==
    ASSUME NEW a \in Int, NEW m \in Nat, Within(a, m), NEW radius \in Nat
    PROVE  CodeOf(Toward0(a * radius, 32767), a, m, radius)
<1> DEFINE x == a * radius
           y == m * radius
           i == Toward0(x, 32767)
<1>1. Within(x, y) /\ x \in Int /\ y \in Int
    <2>1. Within(radius, radius)
        BY DEF Within
    <2>2. Within(a * radius, m * radius)
        BY <2>1, ProductWithin
    <2> QED
        BY <2>2
<1> HIDE DEF x, y
<1>2. i \in Int /\ Within(x - 32767 * i, 32767) /\ Within(32767 * i, y)
    <2>1. CASE x >= 0
        <3>1. i = x \div 32767
            BY <1>1, <2>1 DEF Toward0
        <3> QED
            BY <1>1, <2>1, <3>1 DEF Within
    <2>2. CASE x < 0
        <3>1. i = -((-x) \div 32767)
            BY <1>1, <2>2 DEF Toward0
        <3>2. -x \in Nat
            BY <1>1, <2>2
        <3> QED
            BY <1>1, <2>2, <3>1, <3>2 DEF Within
    <2> QED
        BY <1>1, <2>1, <2>2
<1> QED
    BY <1>2 DEF CodeOf, x, y

\* No code is longer than the radius.
LEMMA CodeInCircle ==
    ASSUME NEW i, NEW a, NEW m, NEW radius, CodeOf(i, a, m, radius), m <= 32767
    PROVE  Within(i, radius)
<1> DEFINE y == m * radius
           z == (32767 - m) * radius
<1>1. i \in Int /\ radius \in Nat /\ Within(32767 * i, y) /\ m \in Nat
    BY DEF CodeOf
<1>2. y + z = 32767 * radius
    BY <1>1
<1>3. z >= 0 /\ y \in Int /\ z \in Int
    <2>1. \A u, v \in Nat : u * v >= 0 /\ u * v \in Int
        OBVIOUS
    <2>2. 32767 - m \in Nat
        BY <1>1
    <2> QED
        BY <1>1, <2>1, <2>2
<1> HIDE DEF y, z
<1> QED
    BY <1>1, <1>2, <1>3 DEF Within

\* Truncation moves a product of two codes by at most so much.
LEMMA CodesMultiply ==
    ASSUME NEW i, NEW a, NEW m, NEW j, NEW b, NEW n, NEW radius,
           CodeOf(i, a, m, radius), CodeOf(j, b, n, radius)
    PROVE  Within((a * radius) * (b * radius) - (32767 * i) * (32767 * j),
                  (m * radius) * 32767 + (n * radius) * 32767)
<1> DEFINE x == a * radius
           y == b * radius
           u == 32767 * i
           v == 32767 * j
           mr == m * radius
           nr == n * radius
<1>1. /\ x \in Int /\ y \in Int /\ u \in Int /\ v \in Int /\ mr \in Nat /\ nr \in Nat
      /\ Within(x - u, 32767) /\ Within(y - v, 32767) /\ Within(v, nr)
    BY DEF CodeOf
<1>2. Within(x, mr)
    <2>1. Within(radius, radius) /\ radius \in Nat
        BY DEF Within, CodeOf
    <2> QED
        BY <2>1, ProductWithin DEF CodeOf
<1> HIDE DEF x, y, u, v, mr, nr
<1>3. Within(x * (y - v), mr * 32767)
    <2>1. y - v \in Int /\ 32767 \in Nat
        BY <1>1
    <2> QED
        BY <1>1, <1>2, <2>1, ProductWithin
<1>4. Within((x - u) * v, 32767 * nr)
    <2>1. x - u \in Int /\ 32767 \in Nat
        BY <1>1
    <2> QED
        BY <1>1, <2>1, ProductWithin
<1>5. x * y - u * v = x * (y - v) + (x - u) * v
    BY <1>1
<1> DEFINE p == x * (y - v)
           q == (x - u) * v
           s == x * y - u * v
<1>6. p \in Int /\ q \in Int
    BY <1>1
<1>7. Within(p, mr * 32767) /\ Within(q, 32767 * nr) /\ s = p + q
    BY <1>3, <1>4, <1>5
<1> HIDE DEF p, q, s
<1>8. Within(s, mr * 32767 + nr * 32767)
    BY <1>1, <1>6, <1>7 DEF Within
<1> QED
    BY <1>8 DEF s, x, y, u, v, mr, nr

\* A bound that is linear in the radius.
LEMMA Scaled ==
    ASSUME NEW k \in Nat, NEW bound \in Nat, k <= bound, NEW radius \in Nat
    PROVE  k * radius <= bound * radius /\ k * radius \in Nat
<1> DEFINE z == (bound - k) * radius
           y == k * radius
           w == bound * radius
<1>1. z \in Nat /\ y \in Nat /\ w \in Int
    <2>1. \A u, v \in Nat : u * v \in Nat
        OBVIOUS
    <2>2. bound - k \in Nat
        OBVIOUS
    <2> QED
        BY <2>1, <2>2
<1>2. w = y + z
    OBVIOUS
<1> HIDE DEF w, y, z
<1>3. y <= w
    BY <1>1, <1>2
<1> QED
    BY <1>1, <1>3 DEF w, y

\* Two codes a quarter cycle apart are on the circle.
LEMMA CircleNear ==
    ASSUME NEW i, NEW a, NEW m, NEW j, NEW b, NEW n, NEW radius,
           CodeOf(i, a, m, radius), CodeOf(j, b, n, radius), radius <= 2047,
           m + n <= 46400, Within(a * a + b * b - 32767 * 32767, 22000)
    PROVE  Within(i * i + j * j - radius * radius, 4 * radius)
<1> DEFINE square == radius * radius
           near == i * i + j * j - square
           e == (a * radius) * (a * radius) - (32767 * i) * (32767 * i)
           f == (b * radius) * (b * radius) - (32767 * j) * (32767 * j)
           g == (a * a + b * b - 32767 * 32767) * square
           mr == m * radius
           nr == n * radius
<1>1. a \in Int /\ b \in Int /\ i \in Int /\ j \in Int /\ radius \in Nat /\ m \in Nat /\ n \in Nat
    BY DEF CodeOf
<1>2. Within(e, mr * 32767 + mr * 32767) /\ Within(f, nr * 32767 + nr * 32767)
    BY CodesMultiply
<1>3. /\ near \in Int /\ square \in Nat /\ e \in Int /\ f \in Int /\ g \in Int
      /\ mr \in Nat /\ nr \in Nat
    <2>1. \A u, v \in Nat : u * v \in Nat
        OBVIOUS
    <2>2. square \in Nat /\ mr \in Nat /\ nr \in Nat
        BY <1>1, <2>1
    <2> QED
        BY <1>1, <2>2
<1>4. 32767 * 32767 * near = g - e - f
    BY <1>1
<1>5. Within(g, 22000 * square)
    <2>1. Within(square, square) /\ a * a + b * b - 32767 * 32767 \in Int
        BY <1>1, <1>3 DEF Within
    <2> HIDE DEF square
    <2> QED
        BY <1>3, <2>1, ProductWithin DEF g
<1>6. square <= 2047 * radius
    BY <1>1, Scaled
<1>7. mr + nr <= 46400 * radius
    <2>1. (m + n) * radius <= 46400 * radius
        <3>1. m + n \in Nat
            BY <1>1
        <3> QED
            BY <1>1, <3>1, Scaled
    <2> QED
        BY <1>1, <2>1
<1> HIDE DEF square, near, e, f, g, mr, nr
<1>8. Within(near, 4 * radius)
    BY <1>1, <1>2, <1>3, <1>4, <1>5, <1>6, <1>7 DEF Within
<1> QED
    BY <1>8 DEF near, square

\* From one frame to the next the codes turn as their sines do.
LEMMA RotationNear ==
    ASSUME NEW i, NEW a, NEW m, NEW j, NEW b, NEW n,
           NEW k, NEW c, NEW o, NEW l, NEW d, NEW p,
           NEW turned, NEW t, NEW u, NEW radius,
           CodeOf(i, a, m, radius), CodeOf(j, b, n, radius),
           CodeOf(k, c, o, radius), CodeOf(l, d, p, radius), CodeOf(turned, t, u, radius),
           radius <= 2047, m + n <= 46400, o + p <= 46400,
           Within(a * d - b * c - 32767 * t, 49000)
    PROVE  Within(i * l - j * k - turned * radius, 4 * radius)
<1> DEFINE square == radius * radius
           near == i * l - j * k - turned * radius
           e == (a * radius) * (d * radius) - (32767 * i) * (32767 * l)
           f == (b * radius) * (c * radius) - (32767 * j) * (32767 * k)
           g == (a * d - b * c - 32767 * t) * square
           h == (t * radius - 32767 * turned) * radius
           mr == m * radius
           nr == n * radius
           or == o * radius
           pr == p * radius
<1>1. /\ a \in Int /\ b \in Int /\ c \in Int /\ d \in Int /\ i \in Int /\ j \in Int
      /\ k \in Int /\ l \in Int /\ radius \in Nat /\ m \in Nat /\ n \in Nat
      /\ o \in Nat /\ p \in Nat /\ t \in Int /\ turned \in Int
    BY DEF CodeOf
<1>2. Within(e, mr * 32767 + pr * 32767) /\ Within(f, nr * 32767 + or * 32767)
    BY CodesMultiply
<1>3. /\ near \in Int /\ square \in Nat /\ e \in Int /\ f \in Int /\ g \in Int /\ h \in Int
      /\ mr \in Nat /\ nr \in Nat /\ or \in Nat /\ pr \in Nat
    <2>1. \A v, w \in Nat : v * w \in Nat
        OBVIOUS
    <2>2. square \in Nat /\ mr \in Nat /\ nr \in Nat /\ or \in Nat /\ pr \in Nat
        BY <1>1, <2>1
    <2> QED
        BY <1>1, <2>2
<1>4. 32767 * 32767 * near = g - e + f + 32767 * h
    BY <1>1
<1>5. Within(g, 49000 * square)
    <2>1. Within(square, square) /\ a * d - b * c - 32767 * t \in Int
        BY <1>1, <1>3 DEF Within
    <2> HIDE DEF square
    <2> QED
        BY <1>3, <2>1, ProductWithin DEF g
<1>6. square <= 2047 * radius
    BY <1>1, Scaled
<1>7. mr + nr <= 46400 * radius /\ or + pr <= 46400 * radius
    <2>1. (m + n) * radius <= 46400 * radius /\ (o + p) * radius <= 46400 * radius
        <3>1. m + n \in Nat /\ o + p \in Nat
            BY <1>1
        <3> QED
            BY <1>1, <3>1, Scaled
    <2> QED
        BY <1>1, <2>1
<1>8. Within(h, 32767 * radius)
    <2>1. Within(radius, radius) /\ t * radius - 32767 * turned \in Int
        BY <1>1 DEF Within
    <2>2. Within(t * radius - 32767 * turned, 32767) /\ 32767 \in Nat
        BY DEF CodeOf
    <2> QED
        BY <1>1, <2>1, <2>2, ProductWithin
<1> HIDE DEF square, near, e, f, g, h, mr, nr, or, pr
<1>9. Within(near, 4 * radius)
    BY <1>1, <1>2, <1>3, <1>4, <1>5, <1>6, <1>7, <1>8 DEF Within
<1> QED
    BY <1>9 DEF near

\* Places of the table, counted from 0.
Turn == 0 .. 63

\* Place p of the table is so many places after k, around it.
After(k, s, p) == p = k + s \/ p = k + s - 64

Size(a) == IF a < 0 THEN -a ELSE a

LEMMA SineSize ==
    ASSUME NEW k \in Turn
    PROVE  /\ Sine[k + 1] \in Int /\ Size(Sine[k + 1]) \in Nat
           /\ Size(Sine[k + 1]) <= 32767 /\ Within(Sine[k + 1], Size(Sine[k + 1]))
<1>1. Sine[k + 1] \in Int /\ -32767 <= Sine[k + 1] /\ Sine[k + 1] <= 32767
    BY DEF Sine, Turn
<1> DEFINE a == Sine[k + 1]
<1> HIDE DEF a
<1>2. a \in Int /\ Size(a) \in Nat /\ Size(a) <= 32767 /\ Within(a, Size(a))
    BY <1>1 DEF a, Size, Within
<1> QED
    BY <1>2 DEF a

\* Two sines a quarter cycle apart are not both large.
LEMMA SineSizes ==
    ASSUME NEW k \in Turn, NEW p \in Turn, After(k, 16, p)
    PROVE  Size(Sine[p + 1]) + Size(Sine[k + 1]) <= 46400
<1>1. Sine[k + 1] \in Int /\ Sine[p + 1] \in Int
    BY SineSize
<1>2. /\ Sine[p + 1] + Sine[k + 1] <= 46400 /\ Sine[p + 1] - Sine[k + 1] <= 46400
      /\ -46400 <= Sine[p + 1] + Sine[k + 1] /\ -46400 <= Sine[p + 1] - Sine[k + 1]
    BY SMTT(60) DEF Sine, Turn, After
<1> DEFINE a == Sine[k + 1]
           b == Sine[p + 1]
<1> HIDE DEF a, b
<1>3. Size(b) + Size(a) <= 46400
    BY <1>1, <1>2 DEF a, b, Size
<1> QED
    BY <1>3 DEF a, b

\* The table is a circle, on which two turns add.
LEMMA SinesTurn ==
    ASSUME NEW k \in Turn, NEW s \in Turn, NEW t \in Turn, NEW p \in Turn, NEW q \in Turn,
           After(k, s, t), After(k, 16, p), After(t, 16, q)
    PROVE  Within(Sine[p + 1] * Sine[t + 1] - Sine[k + 1] * Sine[q + 1] - 32767 * Sine[s + 1],
                  49000)
<1>1. /\ Sine[p + 1] * Sine[t + 1] - Sine[k + 1] * Sine[q + 1] - 32767 * Sine[s + 1] <= 49000
      /\ Sine[p + 1] * Sine[t + 1] - Sine[k + 1] * Sine[q + 1] - 32767 * Sine[s + 1] >= -49000
    BY SMTT(60) DEF Sine, Turn, After
<1> DEFINE z == Sine[p + 1] * Sine[t + 1] - Sine[k + 1] * Sine[q + 1] - 32767 * Sine[s + 1]
<1>2. z \in Int
    <2>1. \A n \in Turn : Sine[n + 1] \in Int
        BY DEF Sine, Turn
    <2> QED
        BY <2>1
<1> HIDE DEF z
<1>3. Within(z, 49000)
    BY <1>1, <1>2 DEF Within, z
<1> QED
    BY <1>3 DEF z

\* Their squares add to that of the table's radius.
LEMMA SinesCircle ==
    ASSUME NEW k \in Turn, NEW p \in Turn, After(k, 16, p)
    PROVE  Within(Sine[p + 1] * Sine[p + 1] + Sine[k + 1] * Sine[k + 1] - 32767 * 32767, 22000)
<1>1. /\ Sine[p + 1] * Sine[p + 1] + Sine[k + 1] * Sine[k + 1] - 32767 * 32767 <= 22000
      /\ Sine[p + 1] * Sine[p + 1] + Sine[k + 1] * Sine[k + 1] - 32767 * 32767 >= -22000
    BY SMTT(60) DEF Sine, Turn, After
<1> DEFINE z == Sine[p + 1] * Sine[p + 1] + Sine[k + 1] * Sine[k + 1] - 32767 * 32767
<1>2. z \in Int
    <2>1. \A n \in Turn : Sine[n + 1] \in Int
        BY DEF Sine, Turn
    <2> QED
        BY <2>1
<1> HIDE DEF z
<1>3. Within(z, 22000)
    BY <1>1, <1>2 DEF Within, z
<1> QED
    BY <1>3 DEF z

\* Places of the table modulo its length.
LEMMA PlacesTurn ==
    ASSUME NEW y \in Nat, NEW step \in Nat
    PROVE  /\ y % 64 \in Turn /\ (y + 16) % 64 \in Turn /\ step % 64 \in Turn
           /\ After(y % 64, 16, (y + 16) % 64)
           /\ After(y % 64, step % 64, (y + step) % 64)
BY DEF Turn, After

\* The codes of I and Q at places of the table.
Codes(i, q, k, p, radius) ==
    /\ CodeOf(i, Sine[p + 1], Size(Sine[p + 1]), radius)
    /\ CodeOf(q, Sine[k + 1], Size(Sine[k + 1]), radius)

\* The place of Q in the table before it is wrapped; I is a quarter of the table later.
Angle(r, x) == x * tones[r].step + tones[r].phase

LEMMA AngleNat ==
    ASSUME tones \in Settings, NEW r \in 0 .. 1, NEW x \in Nat
    PROVE  /\ Angle(r, x) \in Nat /\ tones[r].step \in Nat
           /\ Amplitude(tones[r]) \in Nat /\ Amplitude(tones[r]) <= 2047
<1> DEFINE y == Angle(r, x)
<1> DEFINE tone == tones[r]
           radius == Amplitude(tone)
<1>1. tone \in Tone
    BY ReceiverAssumption
<1>2. tone.step \in Nat /\ tone.phase \in Nat /\ tone.amplitude \in Nat
    <2> HIDE DEF tone
    <2>1. tone.amplitude \in Uint16
        BY <1>1 DEF Tone
    <2>2. \A amplitude \in Uint16 : amplitude \in Nat
        BY DEF Uint16
    <2> QED
        BY <1>1, <2>1, <2>2, ToneNat
<1>3. y \in Nat
    <2> HIDE DEF tone
    <2>1. y = x * tone.step + tone.phase
        BY DEF tone, Angle
    <2> QED
        BY <1>2, <2>1
<1>4. radius \in Nat /\ radius <= 2047
    <2> HIDE DEF tone
    <2> QED
        BY <1>2 DEF Amplitude, MaxCode
<1> QED
    BY <1>2, <1>3, <1>4

\* The two samples of a receiver are the codes of sines a quarter cycle apart.
LEMMA SampleCodes ==
    ASSUME tones \in Settings, NEW r \in 0 .. 1, NEW x \in Nat
    PROVE  Codes(Sample(2 * r, x), Sample(2 * r + 1, x),
                    Angle(r, x) % 64, (Angle(r, x) + 16) % 64, Amplitude(tones[r]))
<1> DEFINE y == Angle(r, x)
           radius == Amplitude(tones[r])
<1>1. y \in Nat /\ radius \in Nat
    BY AngleNat
<1>5. (2 * r) \div 2 = r /\ (2 * r + 1) \div 2 = r /\ (2 * r) % 2 = 0 /\ (2 * r + 1) % 2 = 1
    OBVIOUS
<1>6. Lead(2 * r) = 16 /\ Lead(2 * r + 1) = 0
    BY <1>5 DEF Lead, Phases
<1>7. Sample(2 * r, x) = Toward0(Sine[((y + 16) % 64) + 1] * radius, 32767)
    BY <1>5, <1>6 DEF Sample, Phases, Angle
<1>8. Sample(2 * r + 1, x) = Toward0(Sine[(y % 64) + 1] * radius, 32767)
    <2>1. y + 0 = y
        BY <1>1
    <2> QED
        BY <1>5, <1>6, <2>1 DEF Sample, Phases, Angle
<1>9. y % 64 \in Turn /\ (y + 16) % 64 \in Turn
    BY <1>1, PlacesTurn
<1> HIDE DEF radius, y
<1>10. ASSUME NEW k \in Turn
       PROVE  CodeOf(Toward0(Sine[k + 1] * radius, 32767), Sine[k + 1], Size(Sine[k + 1]), radius)
    BY <1>1, SineSize, Truncated
<1> QED
    BY <1>7, <1>8, <1>9, <1>10 DEF Codes, radius, y

\* What a client sees of a receiver in one frame.
OnCircle(i, q, radius) ==
    /\ Within(i, 2047) /\ Within(q, 2047)
    /\ Within(i * i + q * q - radius * radius, 4 * radius)

LEMMA SamplesOnCircle ==
    ASSUME tones \in Settings, NEW r \in 0 .. 1, NEW x \in Nat
    PROVE  /\ Sample(2 * r, x) \in Int /\ Sample(2 * r + 1, x) \in Int
           /\ OnCircle(Sample(2 * r, x), Sample(2 * r + 1, x), Amplitude(tones[r]))
<1>1. /\ Angle(r, x) \in Nat /\ tones[r].step \in Nat
      /\ Amplitude(tones[r]) \in Nat /\ Amplitude(tones[r]) <= 2047
      /\ Codes(Sample(2 * r, x), Sample(2 * r + 1, x),
               Angle(r, x) % 64, (Angle(r, x) + 16) % 64, Amplitude(tones[r]))
    <2>1. /\ Angle(r, x) \in Nat /\ tones[r].step \in Nat
          /\ Amplitude(tones[r]) \in Nat /\ Amplitude(tones[r]) <= 2047
        BY AngleNat
    <2>2. Codes(Sample(2 * r, x), Sample(2 * r + 1, x),
                Angle(r, x) % 64, (Angle(r, x) + 16) % 64, Amplitude(tones[r]))
        BY SampleCodes
    <2> QED
        BY <2>1, <2>2
<1> DEFINE y == Angle(r, x)
           k == y % 64
           p == (y + 16) % 64
           i == Sample(2 * r, x)
           q == Sample(2 * r + 1, x)
           radius == Amplitude(tones[r])
<1> HIDE DEF y, i, q, radius
<1>2. k \in Turn /\ p \in Turn /\ After(k, 16, p)
    BY <1>1, PlacesTurn DEF y
<1> HIDE DEF k, p
<1>3. /\ CodeOf(i, Sine[p + 1], Size(Sine[p + 1]), radius)
      /\ CodeOf(q, Sine[k + 1], Size(Sine[k + 1]), radius)
      /\ radius \in Nat /\ radius <= 2047
    BY <1>1 DEF Codes, y, k, p, i, q, radius
<1>4. Within(i * i + q * q - radius * radius, 4 * radius)
    <2>1. Size(Sine[p + 1]) + Size(Sine[k + 1]) <= 46400
        BY <1>2, SineSizes
    <2>2. Within(Sine[p + 1] * Sine[p + 1] + Sine[k + 1] * Sine[k + 1] - 32767 * 32767, 22000)
        BY <1>2, SinesCircle
    <2> QED
        BY <1>3, <2>1, <2>2, CircleNear
<1>5. Within(i, radius) /\ Within(q, radius)
    <2>1. Size(Sine[p + 1]) <= 32767 /\ Size(Sine[k + 1]) <= 32767
        BY <1>2, SineSize
    <2> QED
        BY <1>3, <2>1, CodeInCircle
<1>6. i \in Int /\ q \in Int
    BY <1>3 DEF CodeOf
<1>7. Within(i, 2047) /\ Within(q, 2047)
    BY <1>3, <1>5, <1>6 DEF Within
<1> QED
    BY <1>4, <1>6, <1>7 DEF OnCircle, i, q, radius

\* By how much the tone of a receiver turns.
Turned(r) == Toward0(Sine[(tones[r].step % 64) + 1] * Amplitude(tones[r]), 32767)

\* From one index to the next the samples turn by the tone's step.
LEMMA SamplesTurn ==
    ASSUME tones \in Settings, NEW r \in 0 .. 1, NEW x \in Nat
    PROVE  /\ Turned(r) \in Int
           /\ Within(Sample(2 * r, x) * Sample(2 * r + 1, x + 1)
                        - Sample(2 * r + 1, x) * Sample(2 * r, x + 1)
                        - Turned(r) * Amplitude(tones[r]),
                     4 * Amplitude(tones[r]))
<1>1. x + 1 \in Nat
    OBVIOUS
<1>2. /\ Angle(r, x) \in Nat /\ Angle(r, x + 1) \in Nat /\ tones[r].step \in Nat
      /\ Amplitude(tones[r]) \in Nat /\ Amplitude(tones[r]) <= 2047
    BY <1>1, AngleNat
<1>3. Codes(Sample(2 * r, x), Sample(2 * r + 1, x),
            Angle(r, x) % 64, (Angle(r, x) + 16) % 64, Amplitude(tones[r]))
    BY SampleCodes
<1>4. Codes(Sample(2 * r, x + 1), Sample(2 * r + 1, x + 1),
            Angle(r, x + 1) % 64, (Angle(r, x + 1) + 16) % 64, Amplitude(tones[r]))
    BY <1>1, SampleCodes
<1>5. Angle(r, x + 1) = Angle(r, x) + tones[r].step
    <2> DEFINE step == tones[r].step
               phase == tones[r].phase
    <2>1. phase \in Nat
        <3>1. tones[r] \in Tone
            BY ReceiverAssumption
        <3> QED
            BY <3>1, ToneNat
    <2>2. Angle(r, x) = x * step + phase /\ Angle(r, x + 1) = (x + 1) * step + phase
        BY DEF Angle
    <2>3. step \in Nat
        BY <1>2
    <2> HIDE DEF step, phase
    <2>4. Angle(r, x + 1) = Angle(r, x) + step
        BY <2>1, <2>2, <2>3
    <2> QED
        BY <2>4 DEF step
<1> DEFINE y == Angle(r, x)
           z == Angle(r, x + 1)
           k == y % 64
           p == (y + 16) % 64
           t == z % 64
           q == (z + 16) % 64
           s == tones[r].step % 64
           i0 == Sample(2 * r, x)
           q0 == Sample(2 * r + 1, x)
           i1 == Sample(2 * r, x + 1)
           q1 == Sample(2 * r + 1, x + 1)
           radius == Amplitude(tones[r])
           turned == Turned(r)
<1>6. turned = Toward0(Sine[s + 1] * radius, 32767)
    BY DEF Turned
<1> HIDE DEF y, z, i0, q0, i1, q1, radius, turned
<1>7. /\ k \in Turn /\ p \in Turn /\ t \in Turn /\ q \in Turn /\ s \in Turn
      /\ After(k, 16, p) /\ After(t, 16, q) /\ After(k, s, t)
    BY <1>2, <1>5, PlacesTurn DEF y, z
<1> HIDE DEF k, p, t, q, s
<1>8. radius \in Nat /\ radius <= 2047
    BY <1>2 DEF radius
<1>9. CodeOf(turned, Sine[s + 1], Size(Sine[s + 1]), radius)
    BY <1>6, <1>7, <1>8, SineSize, Truncated
<1>10. /\ CodeOf(i0, Sine[p + 1], Size(Sine[p + 1]), radius)
       /\ CodeOf(q0, Sine[k + 1], Size(Sine[k + 1]), radius)
       /\ CodeOf(i1, Sine[q + 1], Size(Sine[q + 1]), radius)
       /\ CodeOf(q1, Sine[t + 1], Size(Sine[t + 1]), radius)
    BY <1>3, <1>4 DEF Codes, y, z, k, p, t, q, i0, q0, i1, q1, radius
<1>11. /\ Size(Sine[p + 1]) + Size(Sine[k + 1]) <= 46400
       /\ Size(Sine[q + 1]) + Size(Sine[t + 1]) <= 46400
    BY <1>7, SineSizes
<1>12. Within(Sine[p + 1] * Sine[t + 1] - Sine[k + 1] * Sine[q + 1] - 32767 * Sine[s + 1], 49000)
    BY <1>7, SinesTurn
<1>13. Within(i0 * q1 - q0 * i1 - turned * radius, 4 * radius)
    BY <1>8, <1>9, <1>10, <1>11, <1>12, RotationNear
<1>14. turned \in Int
    BY <1>9 DEF CodeOf
<1> QED
    BY <1>13, <1>14 DEF i0, q0, i1, q1, radius, turned

\* The bytes of a channel in a whole frame of the buffer.
At(c, f) == f * FrameBytes(asked) + 2 * Rank(asked, c)

LEMMA ClientBytes ==
    ASSUME ReceiverInv, NEW c \in asked,
           NEW f \in 0 .. Len(capture) \div FrameBytes(asked) - 1
    PROVE  /\ capture[At(c, f) + 1] = Low(Sample(c, begun + f))
           /\ capture[At(c, f) + 2] = High(Sample(c, begun + f))
<1> DEFINE n == Cardinality(asked)
           frame == FrameBytes(asked)
           place == Rank(asked, c)
           frames == Len(capture) \div frame
           at == frame * f + 2 * place
<1>1. /\ asked \in SUBSET Channel /\ begun \in Nat /\ Len(capture) \in Nat
      /\ asked # {} /\ Holds(asked, begun, capture)
    BY ReceiverAssumption DEF ReceiverInv, TypeOK
<1>2. n \in 1 .. 4 /\ frame = 2 * n /\ place \in 0 .. n - 1
    <2>1. n \in 0 .. 4 /\ n # 0
        BY <1>1, MaskFinite
    <2>2. place \in 0 .. n - 1
        BY <1>1, RankRange
    <2>3. frame = 2 * n
        BY DEF FrameBytes
    <2> QED
        BY <2>1, <2>2, <2>3
<1> HIDE DEF n, frame, place, at
<1>3. /\ at \in Nat
      /\ (at % frame) \div 2 = place /\ at \div frame = f /\ at % 2 = 0
      /\ ((at + 1) % frame) \div 2 = place /\ (at + 1) \div frame = f /\ (at + 1) % 2 # 0
    <2>1. f \in Nat
        OBVIOUS
    <2> QED
        BY <1>2, <2>1, BytesOfChannel DEF at
<1>4. at + 2 <= frames * frame /\ frames * frame <= Len(capture)
    <2>1. n = 1 \/ n = 2 \/ n = 3 \/ n = 4
        BY <1>2
    <2>2. CASE n = 1
        BY <1>1, <1>2, <2>2 DEF at, frame
    <2>3. CASE n = 2
        BY <1>1, <1>2, <2>3 DEF at, frame
    <2>4. CASE n = 3
        BY <1>1, <1>2, <2>4 DEF at, frame
    <2>5. CASE n = 4
        BY <1>1, <1>2, <2>5 DEF at, frame
    <2> QED
        BY <2>1, <2>2, <2>3, <2>4, <2>5
<1>5. FramesIn(asked, Len(capture)) = frames /\ frames \in Int
    BY <1>1, <1>2 DEF FramesIn, frame
<1> HIDE DEF frames
<1>6. ASSUME NEW j \in {at, at + 1}
      PROVE  capture[j + 1] = Byte(asked, begun, j)
    <2>1. j + 1 \in 1 .. Len(capture) /\ ~(j + 1 > frames * frame) /\ (j + 1) - 1 = j
        <3> DEFINE bytes == frames * frame
                   size == Len(capture)
        <3>1. at + 2 <= bytes /\ bytes <= size /\ size \in Nat /\ bytes \in Int
            <4>1. frames \in Int /\ frame \in Int
                BY <1>2, <1>5
            <4> QED
                BY <1>1, <1>4, <4>1
        <3> HIDE DEF bytes, size
        <3>2. j + 1 \in 1 .. size /\ ~(j + 1 > bytes) /\ (j + 1) - 1 = j
            BY <1>3, <3>1
        <3> QED
            BY <3>2 DEF bytes, size
    <2>2. capture[j + 1] = Filled(asked, begun, frames, j + 1)
        BY <1>1, <1>5, <2>1 DEF Holds
    <2> QED
        BY <2>1, <2>2 DEF Filled, frame
<1>7. ChannelAt(asked, place) = c
    BY <1>1, PlaceOfChannel DEF place
<1>8. Byte(asked, begun, at) = Low(Sample(c, begun + f))
    BY <1>3, <1>7 DEF Byte, frame
<1>9. Byte(asked, begun, at + 1) = High(Sample(c, begun + f))
    BY <1>3, <1>7 DEF Byte, frame
<1>10. capture[at + 1] = Low(Sample(c, begun + f)) /\ capture[at + 2] = High(Sample(c, begun + f))
    <2>1. (at + 1) + 1 = at + 2
        BY <1>3
    <2> QED
        BY <1>6, <1>8, <1>9, <2>1
<1>11. at = At(c, f)
    <2>1. at = f * frame + 2 * place
        BY <1>2 DEF at
    <2> QED
        BY <2>1 DEF frame, place, At
<1> QED
    BY <1>10, <1>11

\* A client that joins the two bytes has the sample.
LEMMA ClientDecodes ==
    ASSUME ReceiverInv, NEW c \in asked,
           NEW f \in 0 .. Len(capture) \div FrameBytes(asked) - 1,
           Sample(c, begun + f) \in Int, Within(Sample(c, begun + f), 2047)
    PROVE  Decoded(c, f) = Sample(c, begun + f)
<1> DEFINE at == At(c, f)
           value == Sample(c, begun + f)
           word == capture[at + 1] + 256 * capture[at + 2]
<1>1. word = Low(value) + 256 * High(value)
    BY ClientBytes
<1>2. Decoded(c, f) = IF word < 32768 THEN word ELSE word - 65536
    BY SMTT(60) DEF Decoded, At, Rank
<1>3. value \in Int /\ -2047 <= value /\ value <= 2047
    BY DEF Within
<1> HIDE DEF word, value
<1>4. (IF word < 32768 THEN word ELSE word - 65536) = value
    BY <1>1, <1>3, BytesDecode
<1> QED
    BY <1>2, <1>4 DEF value

\* What ClientSeesTone says of one frame.
FrameSeen(receiver, f) ==
    LET i(frame)  == Decoded(2 * receiver, frame)
        q(frame)  == Decoded(2 * receiver + 1, frame)
        tone      == tones[receiver]
        radius    == Amplitude(tone)
        turned    == Toward0(Sine[(tone.step % Phases) + 1] * radius, 32767)
    IN  /\ i(f) \in -MaxCode .. MaxCode /\ q(f) \in -MaxCode .. MaxCode
        /\ Near(i(f) * i(f) + q(f) * q(f), radius * radius, 4 * radius)
        /\ f > 0 => Near(i(f - 1) * q(f) - q(f - 1) * i(f), turned * radius, 4 * radius)

LEMMA FramesSeen ==
    ASSUME \A r \in 0 .. 1 :
               {2 * r, 2 * r + 1} \subseteq asked =>
               \A f \in 0 .. Len(capture) \div FrameBytes(asked) - 1 : FrameSeen(r, f)
    PROVE  ClientSeesTone
BY DEF ClientSeesTone, FrameSeen, Amplitude

\* The samples of the buffer are those of the receiver.
LEMMA ClientSamples ==
    ASSUME ReceiverInv, NEW r \in 0 .. 1, {2 * r, 2 * r + 1} \subseteq asked,
           NEW f \in 0 .. Len(capture) \div FrameBytes(asked) - 1
    PROVE  /\ Decoded(2 * r, f) = Sample(2 * r, begun + f)
           /\ Decoded(2 * r + 1, f) = Sample(2 * r + 1, begun + f)
           /\ Sample(2 * r, begun + f) \in Int /\ Sample(2 * r + 1, begun + f) \in Int
           /\ OnCircle(Sample(2 * r, begun + f), Sample(2 * r + 1, begun + f),
                       Amplitude(tones[r]))
<1>1. tones \in Settings /\ begun + f \in Nat
    BY ReceiverAssumption DEF ReceiverInv, TypeOK
<1>2. /\ Sample(2 * r, begun + f) \in Int /\ Sample(2 * r + 1, begun + f) \in Int
      /\ OnCircle(Sample(2 * r, begun + f), Sample(2 * r + 1, begun + f), Amplitude(tones[r]))
    BY <1>1, SamplesOnCircle
<1>3. /\ Within(Sample(2 * r, begun + f), 2047)
      /\ Within(Sample(2 * r + 1, begun + f), 2047)
    BY <1>2 DEF OnCircle
<1>4. 2 * r \in asked /\ 2 * r + 1 \in asked
    OBVIOUS
<1>5. /\ Decoded(2 * r, f) = Sample(2 * r, begun + f)
      /\ Decoded(2 * r + 1, f) = Sample(2 * r + 1, begun + f)
    BY <1>2, <1>3, <1>4, ClientDecodes
<1> QED
    BY <1>2, <1>5

\* A buffer of whole frames shows the tones.
LEMMA ClientSees ==
    ASSUME ReceiverInv
    PROVE  ClientSeesTone
<1>1. tones \in Settings /\ begun \in Nat /\ asked \in SUBSET Channel
    BY ReceiverAssumption DEF ReceiverInv, TypeOK
<1>3. \A r \in 0 .. 1 : Amplitude(tones[r]) \in Nat
    BY <1>1, AngleNat
<1>2. ASSUME NEW r \in 0 .. 1, {2 * r, 2 * r + 1} \subseteq asked,
             NEW f \in 0 .. Len(capture) \div FrameBytes(asked) - 1
      PROVE  FrameSeen(r, f)
    <2>1. Amplitude(tones[r]) \in Nat
        BY <1>3
    <2>2. \A x \in Int : Within(x, 2047) => x \in -MaxCode .. MaxCode
        BY DEF Within, MaxCode
    <2>3. \A x, y, slack \in Int : Within(x - y, slack) => Near(x, y, slack)
        BY DEF Within, Near
    <2> DEFINE radius == Amplitude(tones[r])
               i == Sample(2 * r, begun + f)
               q == Sample(2 * r + 1, begun + f)
    <2>4. /\ Decoded(2 * r, f) = i /\ Decoded(2 * r + 1, f) = q
          /\ i \in Int /\ q \in Int /\ OnCircle(i, q, radius)
        BY <1>2, ClientSamples
    <2> HIDE DEF radius, i, q
    <2>5. /\ i \in -MaxCode .. MaxCode /\ q \in -MaxCode .. MaxCode
          /\ Near(i * i + q * q, radius * radius, 4 * radius)
        <3>1. i * i + q * q \in Int /\ radius * radius \in Int /\ 4 * radius \in Int
            BY <2>1, <2>4 DEF radius
        <3> QED
            BY <2>2, <2>3, <2>4, <3>1 DEF OnCircle
    <2>6. ASSUME f > 0
          PROVE  Near(Decoded(2 * r, f - 1) * q - Decoded(2 * r + 1, f - 1) * i,
                      Turned(r) * radius, 4 * radius)
        <3> DEFINE i0 == Sample(2 * r, begun + (f - 1))
                   q0 == Sample(2 * r + 1, begun + (f - 1))
        <3>1. /\ f - 1 \in 0 .. Len(capture) \div FrameBytes(asked) - 1
              /\ begun + (f - 1) \in Nat /\ begun + (f - 1) + 1 = begun + f
            <4> DEFINE frames == Len(capture) \div FrameBytes(asked)
            <4>1. frames \in Int
                <5>1. FrameBytes(asked) \in Frames /\ Len(capture) \in Nat
                    BY <1>1, <1>2, FrameRange DEF ReceiverInv
                <5> QED
                    BY <5>1 DEF Frames
            <4>2. f \in 0 .. frames - 1
                OBVIOUS
            <4> HIDE DEF frames
            <4>3. /\ f - 1 \in 0 .. frames - 1
                  /\ begun + (f - 1) \in Nat /\ begun + (f - 1) + 1 = begun + f
                BY <1>1, <2>6, <4>1, <4>2
            <4> QED
                BY <4>3 DEF frames
        <3>2. /\ Decoded(2 * r, f - 1) = i0 /\ Decoded(2 * r + 1, f - 1) = q0
              /\ i0 \in Int /\ q0 \in Int
            BY <1>2, <3>1, ClientSamples
        <3>3. /\ Turned(r) \in Int
              /\ Within(i0 * q - q0 * i - Turned(r) * radius, 4 * radius)
            BY <1>1, <3>1, SamplesTurn DEF radius, i, q
        <3> HIDE DEF i0, q0
        <3>4. /\ i0 * q - q0 * i \in Int /\ Turned(r) * radius \in Int /\ 4 * radius \in Int
            BY <2>1, <2>4, <3>2, <3>3 DEF radius
        <3>5. Near(i0 * q - q0 * i, Turned(r) * radius, 4 * radius)
            BY <2>3, <3>3, <3>4
        <3> QED
            BY <3>2, <3>5
    <2>7. Turned(r) = Toward0(Sine[(tones[r].step % Phases) + 1] * radius, 32767)
        BY DEF Turned, Phases, radius
    <2> QED
        BY <2>4, <2>5, <2>6, <2>7 DEF FrameSeen, radius
<1> QED
    BY <1>2, FramesSeen

\* A client that reads I and Q of a receiver finds its tone in every whole frame of
\* every buffer: on the circle, and turned by the tone's step from frame to frame, for
\* every tone the device can be given, every length, cut and wrap of the index.
THEOREM ClientFindsTone == Spec => []ClientSeesTone
BY ClientSees, ReceiverInvariant, PTL

\* The same in the scenes of the run, where the driver's probe succeeds as well.
THEOREM ScenesServeClient == MCSpec => []ClientServed
<1>1. MCInit => Init
    BY DEF MCInit, NoReceiver
<1>2. [MCNext]_sceneVars => [Next]_vars
    BY DEF MCNext, sceneVars
<1>3. MCSpec => Spec
    BY <1>1, <1>2, PTL DEF MCSpec, Spec
<1>4. DriverTunes /\ ClientSeesTone => ClientServed
    BY DEF ClientServed
<1> QED
    BY <1>3, <1>4, DriverAlwaysTunes, ClientFindsTone, PTL

(***************************************************************************)
(* The checksum of a bank.                                                 *)
(***************************************************************************)

Place    == 0 .. 31
Register == SUBSET Place

\* The bits in which two registers differ.
Differing(a, b) == Bank!SymDiff(a, b)

LEMMA DifferingBits ==
    ASSUME NEW a \in Register, NEW b \in Register
    PROVE  /\ Differing(a, b) \in Register
           /\ \A p : p \in Differing(a, b) <=> (p \in a /\ p \notin b) \/ (p \notin a /\ p \in b)
BY DEF Differing, Bank!SymDiff, Register

LEMMA ShiftedBits ==
    ASSUME NEW c \in Register
    PROVE  /\ Bank!Shift(c) \in Register
           /\ \A p \in Place :
                p \in Bank!Shift(c) <=>
                    \/ p + 1 \in c /\ ~(0 \in c /\ p \in Bank!Polynomial)
                    \/ p + 1 \notin c /\ 0 \in c /\ p \in Bank!Polynomial
<1> DEFINE shifted == {bit - 1 : bit \in c \ {0}}
<1>1. shifted \in Register /\ \A p \in Place : p \in shifted <=> p + 1 \in c
    <2>1. \A bit \in c \ {0} : bit \in Int /\ bit - 1 \in Place
        BY DEF Register, Place
    <2>2. ASSUME NEW p \in Place, p + 1 \in c PROVE p \in shifted
        <3>1. p + 1 \in c \ {0} /\ p = (p + 1) - 1
            BY <2>2 DEF Place
        <3> QED
            BY <3>1
    <2>3. ASSUME NEW p \in Place, p \in shifted PROVE p + 1 \in c
        <3>1. PICK bit \in c \ {0} : p = bit - 1
            BY <2>3
        <3>2. p + 1 = bit
            BY <2>1, <3>1
        <3> QED
            BY <3>1, <3>2
    <2> QED
        BY <2>1, <2>2, <2>3 DEF Register
<1>2. Bank!Polynomial \in Register
    BY DEF Bank!Polynomial, Register, Place
<1>3. Bank!Shift(c) = IF 0 \in c THEN Differing(shifted, Bank!Polynomial) ELSE shifted
    BY DEF Bank!Shift, Differing
<1> HIDE DEF shifted
<1> QED
    BY <1>1, <1>2, <1>3, DifferingBits

\* Shifts keep differences.
LEMMA ShiftLinear ==
    ASSUME NEW a \in Register, NEW b \in Register
    PROVE  Bank!Shift(Differing(a, b)) = Differing(Bank!Shift(a), Bank!Shift(b))
<1>1. 0 \in Place /\ \A p \in Place : p + 1 \notin Place => p + 1 \notin a /\ p + 1 \notin b
    BY DEF Register, Place
<1>2. /\ Differing(a, b) \in Register /\ Bank!Shift(a) \in Register /\ Bank!Shift(b) \in Register
      /\ Bank!Shift(Differing(a, b)) \in Register
      /\ Differing(Bank!Shift(a), Bank!Shift(b)) \in Register
    BY DifferingBits, ShiftedBits
<1>3. ASSUME NEW p \in Place
      PROVE  p \in Bank!Shift(Differing(a, b)) <=> p \in Differing(Bank!Shift(a), Bank!Shift(b))
    <2> DEFINE d == Differing(a, b)
               P == p \in Bank!Polynomial
    <2>1. /\ 0 \in d <=> (0 \in a /\ 0 \notin b) \/ (0 \notin a /\ 0 \in b)
          /\ p + 1 \in d <=> (p + 1 \in a /\ p + 1 \notin b) \/ (p + 1 \notin a /\ p + 1 \in b)
        BY DifferingBits
    <2>2. p \in Bank!Shift(d) <=>
            (p + 1 \in d /\ ~(0 \in d /\ P)) \/ (p + 1 \notin d /\ 0 \in d /\ P)
        BY <1>2, ShiftedBits
    <2>3. p \in Bank!Shift(a) <=>
            (p + 1 \in a /\ ~(0 \in a /\ P)) \/ (p + 1 \notin a /\ 0 \in a /\ P)
        BY ShiftedBits
    <2>4. p \in Bank!Shift(b) <=>
            (p + 1 \in b /\ ~(0 \in b /\ P)) \/ (p + 1 \notin b /\ 0 \in b /\ P)
        BY ShiftedBits
    <2>5. p \in Differing(Bank!Shift(a), Bank!Shift(b)) <=>
            \/ p \in Bank!Shift(a) /\ p \notin Bank!Shift(b)
            \/ p \notin Bank!Shift(a) /\ p \in Bank!Shift(b)
        BY <1>2, DifferingBits
    <2> HIDE DEF d, P
    <2> QED
        BY <2>1, <2>2, <2>3, <2>4, <2>5 DEF d
<1> QED
    BY <1>2, <1>3 DEF Register

\* The highest bit of the polynomial keeps a difference from being shifted out.
LEMMA ShiftKeepsDifference ==
    ASSUME NEW c \in Register, c # {}
    PROVE  Bank!Shift(c) # {}
<1>1. CASE 0 \in c
    <2>1. 31 \in Place /\ 31 + 1 \notin c /\ 31 \in Bank!Polynomial
        BY DEF Register, Place, Bank!Polynomial
    <2>2. 31 \in Bank!Shift(c)
        BY <1>1, <2>1, ShiftedBits
    <2> QED
        BY <2>2
<1>2. CASE 0 \notin c
    <2>1. PICK bit : bit \in c
        OBVIOUS
    <2>2. bit \in Place /\ bit - 1 \in Place /\ (bit - 1) + 1 = bit
        BY <1>2, <2>1 DEF Register, Place
    <2>3. bit - 1 \in Bank!Shift(c)
        <3> DEFINE p == bit - 1
        <3>1. p \in Place /\ p + 1 \in c
            BY <2>1, <2>2
        <3> HIDE DEF p
        <3>2. p \in Bank!Shift(c)
            BY <1>2, <3>1, ShiftedBits
        <3> QED
            BY <3>2 DEF p
    <2> QED
        BY <2>3
<1> QED
    BY <1>1, <1>2

\* h are the registers of n shifts.
Shifts(h, n) ==
    h \in [0 .. n -> Register] /\ \A i \in 1 .. n : h[i] = Bank!Shift(h[i - 1])

\* n shifts turn a into b.
Reaches(a, n, b) == \E h : Shifts(h, n) /\ h[0] = a /\ h[n] = b

LEMMA ReachesRegisters ==
    ASSUME NEW a, NEW n \in Nat, NEW b, Reaches(a, n, b)
    PROVE  a \in Register /\ b \in Register
<1>1. PICK h : Shifts(h, n) /\ h[0] = a /\ h[n] = b
    BY DEF Reaches
<1>2. h \in [0 .. n -> Register] /\ 0 \in 0 .. n /\ n \in 0 .. n
    BY <1>1 DEF Shifts
<1> QED
    BY <1>1, <1>2

\* Shifts after shifts.
LEMMA ReachesOn ==
    ASSUME NEW a, NEW b, NEW c, NEW m \in Nat, NEW n \in Nat, Reaches(a, m, b), Reaches(b, n, c)
    PROVE  Reaches(a, m + n, c)
<1>1. PICK g : Shifts(g, m) /\ g[0] = a /\ g[m] = b
    BY DEF Reaches
<1>2. PICK h : Shifts(h, n) /\ h[0] = b /\ h[n] = c
    BY DEF Reaches
<1> DEFINE k == [i \in 0 .. m + n |-> IF i <= m THEN g[i] ELSE h[i - m]]
<1>3. /\ g \in [0 .. m -> Register] /\ \A i \in 1 .. m : g[i] = Bank!Shift(g[i - 1])
      /\ h \in [0 .. n -> Register] /\ \A i \in 1 .. n : h[i] = Bank!Shift(h[i - 1])
    BY <1>1, <1>2 DEF Shifts
<1>4. k \in [0 .. m + n -> Register]
    <2>1. ASSUME NEW i \in 0 .. m + n PROVE k[i] \in Register
        <3>1. CASE i <= m
            BY <1>3, <3>1
        <3>2. CASE ~(i <= m)
            <4>1. i - m \in 0 .. n
                BY <3>2
            <4> QED
                BY <1>3, <3>2, <4>1
        <3> QED
            BY <3>1, <3>2
    <2>2. k = [i \in 0 .. m + n |-> k[i]]
        OBVIOUS
    <2> HIDE DEF k
    <2> QED
        BY <2>1, <2>2
<1>5. ASSUME NEW i \in 1 .. m + n PROVE k[i] = Bank!Shift(k[i - 1])
    <2>1. CASE i <= m
        <3>1. i \in 1 .. m /\ i - 1 <= m /\ i - 1 \in 0 .. m + n /\ i \in 0 .. m + n
            BY <2>1
        <3>2. k[i] = g[i] /\ k[i - 1] = g[i - 1]
            BY <2>1, <3>1
        <3> QED
            BY <1>3, <3>1, <3>2
    <2>2. CASE i = m + 1
        <3>1. 1 \in 1 .. n /\ i - 1 = m /\ i - m = 1 /\ ~(i <= m)
            BY <2>2
        <3>2. k[i] = h[1] /\ k[i - 1] = g[m]
            BY <3>1
        <3>3. h[1] = Bank!Shift(h[0])
            BY <1>3, <3>1
        <3> QED
            BY <1>1, <1>2, <3>2, <3>3
    <2>3. CASE i > m + 1
        <3>1. i - m \in 1 .. n /\ i - 1 - m = i - m - 1 /\ ~(i <= m) /\ ~(i - 1 <= m)
            BY <2>3
        <3>2. k[i] = h[i - m] /\ k[i - 1] = h[i - m - 1]
            BY <3>1
        <3> QED
            BY <1>3, <3>1, <3>2
    <2> QED
        BY <2>1, <2>2, <2>3
<1>6. k[0] = a /\ k[m + n] = c
    <2>1. k[0] = a
        BY <1>1
    <2>2. CASE n = 0
        BY <1>1, <1>2, <2>2
    <2>3. CASE n # 0
        <3>1. m + n - m = n /\ ~(m + n <= m)
            BY <2>3
        <3> QED
            BY <1>2, <2>1, <3>1
    <2> QED
        BY <2>2, <2>3
<1> HIDE DEF k
<1> QED
    BY <1>4, <1>5, <1>6 DEF Reaches, Shifts

\* Shifts of a difference are the difference of the shifts.
LEMMA ReachesLinear ==
    ASSUME NEW a, NEW b, NEW c, NEW d, NEW n \in Nat, Reaches(a, n, c), Reaches(b, n, d)
    PROVE  Reaches(Differing(a, b), n, Differing(c, d))
<1>1. PICK g : Shifts(g, n) /\ g[0] = a /\ g[n] = c
    BY DEF Reaches
<1>2. PICK h : Shifts(h, n) /\ h[0] = b /\ h[n] = d
    BY DEF Reaches
<1> DEFINE k == [i \in 0 .. n |-> Differing(g[i], h[i])]
<1>3. /\ g \in [0 .. n -> Register] /\ \A i \in 1 .. n : g[i] = Bank!Shift(g[i - 1])
      /\ h \in [0 .. n -> Register] /\ \A i \in 1 .. n : h[i] = Bank!Shift(h[i - 1])
    BY <1>1, <1>2 DEF Shifts
<1>4. k \in [0 .. n -> Register]
    <2>1. \A i \in 0 .. n : Differing(g[i], h[i]) \in Register
        BY <1>3, DifferingBits
    <2> QED
        BY <2>1
<1>5. ASSUME NEW i \in 1 .. n PROVE k[i] = Bank!Shift(k[i - 1])
    <2>1. i - 1 \in 0 .. n /\ i \in 0 .. n
        OBVIOUS
    <2>2. k[i] = Differing(g[i], h[i]) /\ k[i - 1] = Differing(g[i - 1], h[i - 1])
        BY <2>1
    <2>3. g[i - 1] \in Register /\ h[i - 1] \in Register
        BY <1>3, <2>1
    <2>4. Bank!Shift(Differing(g[i - 1], h[i - 1])) =
            Differing(Bank!Shift(g[i - 1]), Bank!Shift(h[i - 1]))
        BY <2>3, ShiftLinear
    <2> QED
        BY <1>3, <2>2, <2>4
<1>6. k[0] = Differing(a, b) /\ k[n] = Differing(c, d)
    BY <1>1, <1>2
<1> HIDE DEF k
<1> QED
    BY <1>4, <1>5, <1>6 DEF Reaches, Shifts

\* A difference is never shifted out.
LEMMA ReachesDifference ==
    ASSUME NEW a, NEW n \in Nat, NEW b, Reaches(a, n, b), a # {}
    PROVE  b # {}
<1>1. PICK h : Shifts(h, n) /\ h[0] = a /\ h[n] = b
    BY DEF Reaches
<1>2. h \in [0 .. n -> Register] /\ \A i \in 1 .. n : h[i] = Bank!Shift(h[i - 1])
    BY <1>1 DEF Shifts
<1> DEFINE Lost == {i \in 0 .. n : h[i] = {}}
<1> SUFFICES ASSUME Lost # {} PROVE FALSE
    BY <1>1
<1>3. PICK m \in Lost : \A i \in Lost : m <= i
    <2>1. Lost \subseteq Nat
        OBVIOUS
    <2> HIDE DEF Lost
    <2> QED
        BY <2>1, LeastNumber
<1>4. m \in 1 .. n /\ m - 1 \in 0 .. n /\ m - 1 \notin Lost
    <2>1. m \in 0 .. n /\ m # 0
        BY <1>1
    <2> HIDE DEF Lost
    <2> QED
        BY <1>3, <2>1
<1>5. h[m - 1] \in Register /\ h[m - 1] # {} /\ h[m] = Bank!Shift(h[m - 1])
    BY <1>2, <1>4
<1> QED
    BY <1>3, <1>5, ShiftKeepsDifference

\* Shifts have one result.
LEMMA ReachesOne ==
    ASSUME NEW a, NEW n \in Nat, NEW b, NEW c, Reaches(a, n, b), Reaches(a, n, c)
    PROVE  b = c
<1>1. PICK g : Shifts(g, n) /\ g[0] = a /\ g[n] = b
    BY DEF Reaches
<1>2. PICK h : Shifts(h, n) /\ h[0] = a /\ h[n] = c
    BY DEF Reaches
<1>3. \A i \in 1 .. n : g[i] = Bank!Shift(g[i - 1]) /\ h[i] = Bank!Shift(h[i - 1])
    BY <1>1, <1>2 DEF Shifts
<1> DEFINE Differ == {i \in 0 .. n : g[i] # h[i]}
<1> SUFFICES ASSUME Differ # {} PROVE FALSE
    BY <1>1, <1>2
<1>4. PICK m \in Differ : \A i \in Differ : m <= i
    <2>1. Differ \subseteq Nat
        OBVIOUS
    <2> HIDE DEF Differ
    <2> QED
        BY <2>1, LeastNumber
<1>5. m \in 1 .. n /\ m - 1 \in 0 .. n /\ m - 1 \notin Differ
    <2>1. m \in 0 .. n /\ m # 0
        BY <1>1, <1>2
    <2> HIDE DEF Differ
    <2> QED
        BY <1>4, <2>1
<1>6. g[m - 1] = h[m - 1] /\ g[m] # h[m]
    BY <1>4, <1>5
<1> QED
    BY <1>3, <1>5, <1>6

\* The last n of m + n shifts.
LEMMA ReachesRest ==
    ASSUME NEW a, NEW b, NEW c, NEW m \in Nat, NEW n \in Nat, Reaches(a, m, b), Reaches(a, m + n, c)
    PROVE  Reaches(b, n, c)
<1>1. PICK h : Shifts(h, m + n) /\ h[0] = a /\ h[m + n] = c
    BY DEF Reaches
<1>2. h \in [0 .. m + n -> Register] /\ \A i \in 1 .. m + n : h[i] = Bank!Shift(h[i - 1])
    BY <1>1 DEF Shifts
<1> DEFINE f == [i \in 0 .. m |-> h[i]]
           k == [i \in 0 .. n |-> h[m + i]]
<1>3. Reaches(a, m, h[m])
    <2>1. f \in [0 .. m -> Register] /\ \A i \in 1 .. m : f[i] = Bank!Shift(f[i - 1])
        <3>1. \A i \in 0 .. m : h[i] \in Register
            BY <1>2
        <3>2. \A i \in 1 .. m : f[i] = h[i] /\ f[i - 1] = h[i - 1] /\ h[i] = Bank!Shift(h[i - 1])
            BY <1>2
        <3> QED
            BY <3>1, <3>2
    <2>2. f[0] = a /\ f[m] = h[m]
        BY <1>1
    <2> HIDE DEF f
    <2> QED
        BY <2>1, <2>2 DEF Reaches, Shifts
<1>4. h[m] = b
    BY <1>3, ReachesOne
<1>5. k \in [0 .. n -> Register]
    <2>1. \A i \in 0 .. n : h[m + i] \in Register
        BY <1>2
    <2> QED
        BY <2>1
<1>6. ASSUME NEW i \in 1 .. n PROVE k[i] = Bank!Shift(k[i - 1])
    <2>1. k[i] = h[m + i] /\ k[i - 1] = h[m + (i - 1)] /\ m + (i - 1) = (m + i) - 1
        OBVIOUS
    <2>2. m + i \in 1 .. m + n
        OBVIOUS
    <2> QED
        BY <1>2, <2>1, <2>2
<1>7. k[0] = b /\ k[n] = c
    BY <1>1, <1>4
<1> HIDE DEF k
<1> QED
    BY <1>5, <1>6, <1>7 DEF Reaches, Shifts

\* Until a bit arrives at the lowest place, shifts only lower it.
Lowered(bits, n) == {p - n : p \in bits}

LEMMA ReachesLowered ==
    ASSUME NEW bits \in Register, NEW n \in Nat, \A p \in bits : p >= n
    PROVE  Reaches(bits, n, Lowered(bits, n))
<1> DEFINE h == [i \in 0 .. n |-> Lowered(bits, i)]
<1>1. \A p \in bits : p \in Nat /\ p <= 31
    BY DEF Register, Place
<1>2. \A i \in 0 .. n : Lowered(bits, i) \in Register
    <2> TAKE i \in 0 .. n
    <2>1. \A p \in bits : p - i \in Place
        BY <1>1 DEF Place
    <2> QED
        BY <2>1 DEF Lowered, Register
<1>3. h \in [0 .. n -> Register]
    BY <1>2
<1>4. ASSUME NEW i \in 1 .. n PROVE h[i] = Bank!Shift(h[i - 1])
    <2> DEFINE j == i - 1
               c == Lowered(bits, j)
    <2>1. j \in 0 .. n /\ i = j + 1 /\ h[i] = Lowered(bits, i) /\ h[j] = c
        OBVIOUS
    <2>2. \A p \in bits : p - j # 0 /\ p - i = (p - j) - 1
        BY <1>1, <2>1
    <2>3. 0 \notin c
        BY <2>2 DEF Lowered
    <2>4. Bank!Shift(c) = {bit - 1 : bit \in c}
        BY <2>3 DEF Bank!Shift
    <2>5. Lowered(bits, i) = {bit - 1 : bit \in c}
        BY <2>2 DEF Lowered
    <2> QED
        BY <2>1, <2>4, <2>5
<1>5. h[0] = bits /\ h[n] = Lowered(bits, n)
    <2>1. Lowered(bits, 0) = bits
        <3>1. \A p \in bits : p - 0 = p
            BY <1>1
        <3> QED
            BY <3>1 DEF Lowered
    <2> QED
        BY <2>1
<1> HIDE DEF h
<1> QED
    BY <1>3, <1>4, <1>5 DEF Reaches, Shifts

\* g are the registers of n shifts, as Feed defines them.
IsFeed(g, c, n) == g = [k \in 0 .. n |-> IF k = 0 THEN c ELSE Bank!Shift(g[k - 1])]

LEMMA FeedsExist ==
    ASSUME NEW c
    PROVE  \A n \in Nat : \E g : IsFeed(g, c, n)
<1> DEFINE Is(g, n) == IsFeed(g, c, n)
           None == {n \in Nat : ~\E g : Is(g, n)}
<1> USE DEF IsFeed
<1> SUFFICES ASSUME None # {} PROVE FALSE
    OBVIOUS
<1>1. PICK n \in None : \A k \in None : n <= k
    BY LeastNumber
<1>2. n # 0
    <2> DEFINE g == [k \in 0 .. 0 |-> c]
    <2>1. Is(g, 0)
        OBVIOUS
    <2> QED
        BY <1>1, <2>1
<1>3. n \in Nat /\ n - 1 \in Nat /\ n - 1 \notin None
    <2>1. n \in Nat
        BY <1>1
    <2> HIDE DEF None
    <2> QED
        BY <1>1, <1>2, <2>1
<1>4. PICK g : Is(g, n - 1)
    BY <1>3
<1> DEFINE h == [k \in 0 .. n |-> IF k = n THEN Bank!Shift(g[n - 1]) ELSE g[k]]
<1>5. \A k \in 0 .. n - 1 : g[k] = IF k = 0 THEN c ELSE Bank!Shift(g[k - 1])
    BY <1>4
<1>6. \A k \in 0 .. n : h[k] = IF k = 0 THEN c ELSE Bank!Shift(h[k - 1])
    <2> TAKE k \in 0 .. n
    <2>1. CASE k = n
        <3>1. h[k] = Bank!Shift(g[n - 1]) /\ h[k - 1] = g[n - 1]
            BY <1>3, <2>1
        <3> QED
            BY <1>2, <2>1, <3>1
    <2>2. CASE k # n /\ k # 0
        <3>1. k \in 0 .. n - 1 /\ k - 1 \in 0 .. n /\ k - 1 # n
            BY <1>3, <2>2
        <3>2. h[k] = g[k] /\ h[k - 1] = g[k - 1]
            BY <2>2, <3>1
        <3> QED
            BY <1>5, <2>2, <3>1, <3>2
    <2>3. CASE k # n /\ k = 0
        <3>1. h[k] = g[k] /\ k \in 0 .. n - 1
            BY <1>3, <2>3
        <3> QED
            BY <1>5, <2>3, <3>1
    <2> QED
        BY <2>1, <2>2, <2>3
<1>7. Is(h, n)
    <2>1. h = [k \in 0 .. n |-> h[k]]
        OBVIOUS
    <2> HIDE DEF h
    <2> QED
        BY <1>6, <2>1
<1> QED
    BY <1>1, <1>7

\* A byte is eight shifts.
LEMMA FeedReaches ==
    ASSUME NEW c \in Register, NEW byte \in Register
    PROVE  Reaches(Differing(c, byte), 8, Bank!Feed(c, byte))
<1> DEFINE x == Differing(c, byte)
           g == CHOOSE g : IsFeed(g, x, 8)
<1>1. Bank!Feed(c, byte) = g[8]
    BY Zenon DEF Bank!Feed, Bank!ByteShifts, IsFeed, Differing
<1>2. x \in Register
    BY DifferingBits
<1>3. IsFeed(g, x, 8)
    <2>1. 8 \in Nat
        OBVIOUS
    <2> QED
        BY <2>1, FeedsExist
<1> HIDE DEF g, x
<1>4. g = [k \in 0 .. 8 |-> IF k = 0 THEN x ELSE Bank!Shift(g[k - 1])]
    BY <1>3 DEF IsFeed
<1>5. \A k \in 0 .. 8 : g[k] = IF k = 0 THEN x ELSE Bank!Shift(g[k - 1])
    BY <1>4
<1> DEFINE Strange == {k \in 0 .. 8 : g[k] \notin Register}
<1>6. \A k \in 0 .. 8 : g[k] \in Register
    <2> SUFFICES ASSUME Strange # {} PROVE FALSE
        OBVIOUS
    <2>1. PICK m \in Strange : \A k \in Strange : m <= k
        <3>1. Strange \subseteq Nat
            OBVIOUS
        <3> HIDE DEF Strange
        <3> QED
            BY <3>1, LeastNumber
    <2>2. m \in 0 .. 8 /\ m # 0
        BY <1>2, <1>5
    <2>3. m - 1 \in 0 .. 8 /\ m - 1 \notin Strange
        <3> HIDE DEF Strange
        <3> QED
            BY <2>1, <2>2
    <2>4. g[m - 1] \in Register
        BY <2>3
    <2> QED
        BY <1>5, <2>1, <2>2, <2>4, ShiftedBits
<1>7. g \in [0 .. 8 -> Register]
    BY <1>4, <1>6
<1>8. Shifts(g, 8) /\ g[0] = x
    BY <1>5, <1>7 DEF Shifts
<1> QED
    BY <1>1, <1>8 DEF Reaches, x

\* The difference of the registers: the burst, lowered to where its first bit began,
\* and shifted since.
Traced(first) ==
    /\ first \in burst /\ first \in Nat /\ first < 8 * sent
    /\ \A p \in burst : p \in Nat /\ first <= p /\ p < 8 * sent /\ p - first \in Place
    /\ Reaches(Lowered(burst, first), 8 * sent - first, Differing(written, read))

BankInv ==
    /\ written \in Register /\ read \in Register /\ sent \in Nat
    /\ IF burst = {} THEN written = read ELSE \E first : Traced(first)

LEMMA BankInitial == Bank!Init => BankInv
<1>1. 0 .. Bank!Width - 1 = Place
    BY DEF Bank!Width, Place
<1> SUFFICES ASSUME Bank!Init PROVE BankInv
    OBVIOUS
<1>2. written = Place /\ read = Place /\ sent = 0 /\ burst = {}
    BY <1>1 DEF Bank!Init, Bank!Start
<1> QED
    BY <1>2 DEF BankInv, Register

\* A byte and its damage do to the difference what eight shifts do.
LEMMA ByteDiffers ==
    ASSUME NEW w \in Register, NEW r \in Register, NEW byte \in Register, NEW wrong \in Register
    PROVE  /\ Bank!Feed(w, byte) \in Register
           /\ Bank!Feed(r, Bank!SymDiff(byte, wrong)) \in Register
           /\ Reaches(Differing(Differing(w, r), wrong), 8,
                      Differing(Bank!Feed(w, byte), Bank!Feed(r, Bank!SymDiff(byte, wrong))))
<1> DEFINE damaged == Differing(byte, wrong)
           w2 == Bank!Feed(w, byte)
           r2 == Bank!Feed(r, damaged)
<1>1. Bank!SymDiff(byte, wrong) = damaged /\ damaged \in Register
    BY DifferingBits DEF Differing
<1> HIDE DEF damaged
<1>2. Reaches(Differing(w, byte), 8, w2) /\ Reaches(Differing(r, damaged), 8, r2)
    BY <1>1, FeedReaches
<1> HIDE DEF w2, r2
<1>3. 8 \in Nat
    OBVIOUS
<1>4. w2 \in Register /\ r2 \in Register
    BY <1>2, <1>3, ReachesRegisters
<1>5. Reaches(Differing(Differing(w, byte), Differing(r, damaged)), 8, Differing(w2, r2))
    BY <1>2, <1>3, ReachesLinear
<1>6. Differing(Differing(w, byte), Differing(r, damaged)) = Differing(Differing(w, r), wrong)
    BY DEF Differing, Bank!SymDiff, damaged
<1> QED
    BY <1>1, <1>4, <1>5, <1>6 DEF w2, r2

LEMMA BytePreserves == BankInv /\ Bank!Byte => BankInv'
<1> SUFFICES ASSUME BankInv, Bank!Byte PROVE BankInv'
    OBVIOUS
<1>1. PICK byte \in Bytes, wrong \in Damage :
        /\ written' = Bank!Feed(written, byte)
        /\ read' = Bank!Feed(read, Bank!SymDiff(byte, wrong))
        /\ burst' = burst \cup {8 * sent + bit : bit \in wrong}
    BY DEF Bank!Byte
<1>2. /\ \A first, last \in burst' : last - first < 32
      /\ sent' = sent + 1 /\ sent \in Nat /\ written \in Register /\ read \in Register
    BY DEF Bank!Byte, BankInv, Bank!Width
<1>3. /\ byte \in SUBSET (0 .. 7) /\ wrong \in SUBSET (0 .. 7)
      /\ byte \in Register /\ wrong \in Register
    <2>1. byte \subseteq 0 .. 7 /\ wrong \subseteq 0 .. 7
        BY BankAssumption DEF Bank!CrcAssumption
    <2>2. \A b \in 0 .. 7 : b \in Place
        BY DEF Place
    <2> QED
        BY <2>1, <2>2 DEF Register
<1> DEFINE x == Differing(written, read)
           y == Differing(written', read')
           t == 8 * sent
           arrived == {t + bit : bit \in wrong}
<1>4. written' \in Register /\ read' \in Register /\ Reaches(Differing(x, wrong), 8, y)
    BY <1>1, <1>2, <1>3, ByteDiffers
<1>5. t \in Nat /\ 8 * sent' = t + 8 /\ burst' = burst \cup arrived
    BY <1>1, <1>2
<1>6. \A bit \in wrong : bit \in Nat /\ bit <= 7
    BY <1>3
<1> HIDE DEF t
<1>7. CASE burst = {} /\ wrong = {}
    <2>1. Bank!SymDiff(byte, wrong) = byte
        BY <1>7 DEF Bank!SymDiff
    <2>2. written = read
        BY <1>7 DEF BankInv
    <2>3. written' = read' /\ burst' = {}
        BY <1>1, <1>5, <1>7, <2>1, <2>2
    <2> QED
        BY <1>2, <1>4, <2>3 DEF BankInv
<1>8. CASE burst = {} /\ wrong # {}
    <2>1. PICK m \in wrong : \A bit \in wrong : m <= bit
        BY <1>6, <1>8, LeastNumber
    <2>2. Differing(x, wrong) = wrong
        <3>1. x = {}
            BY <1>8 DEF BankInv, Differing, Bank!SymDiff
        <3> QED
            BY <3>1 DEF Differing, Bank!SymDiff
    <2> DEFINE low == Lowered(wrong, m)
               n == 8 - m
    <2> HIDE DEF x, y
    <2>3. m \in Nat /\ n \in Nat /\ m + n = 8
        BY <1>6, <2>1
    <2>4. Reaches(wrong, m, low)
        BY <1>3, <1>6, <2>1, <2>3, ReachesLowered
    <2>5. Reaches(low, n, y)
        <3>1. Reaches(wrong, m + n, y)
            BY <1>4, <2>2, <2>3
        <3> HIDE DEF low, n
        <3> QED
            BY <2>3, <2>4, <3>1, ReachesRest
    <2>6. burst' = arrived
        BY <1>5, <1>8
    <2>0. PICK first \in Nat : first = t + m
        BY <1>5, <2>3
    <2>7. Lowered(burst', first) = low
        <3>1. \A bit \in wrong : (t + bit) - (t + m) = bit - m
            BY <1>5, <1>6, <2>3
        <3> QED
            BY <2>0, <2>6, <3>1 DEF Lowered
    <2>8. first \in burst' /\ first \in Nat /\ first < 8 * sent'
        BY <1>5, <1>6, <2>0, <2>1, <2>6
    <2>9. \A p \in burst' : p \in Nat /\ first <= p /\ p < 8 * sent' /\ p - first \in Place
        BY <1>5, <1>6, <2>0, <2>1, <2>6 DEF Place
    <2>10. 8 * sent' - first = n
        BY <1>5, <2>0, <2>3
    <2> HIDE DEF n, low
    <2>11. Traced(first)'
        BY <2>5, <2>7, <2>8, <2>9, <2>10 DEF Traced, y
    <2>12. burst' # {}
        BY <2>8
    <2> QED
        BY <1>2, <1>4, <2>11, <2>12 DEF BankInv
<1>9. CASE burst # {}
    <2>1. PICK first : Traced(first)
        BY <1>9 DEF BankInv
    <2> DEFINE n == t - first
               low == Lowered(burst, first)
               upper == {bit + n : bit \in wrong}
    <2>2. /\ first \in burst /\ first \in Nat /\ first < t /\ n \in Nat
          /\ \A p \in burst : p \in Nat /\ first <= p /\ p < t /\ p - first \in Place
          /\ Reaches(low, n, x)
        <3>1. /\ first \in burst /\ first \in Nat /\ first < t
              /\ \A p \in burst : p \in Nat /\ first <= p /\ p < t /\ p - first \in Place
            BY <2>1, Zenon DEF Traced, t
        <3>2. Reaches(low, n, x)
            BY <2>1, Zenon DEF Traced, t
        <3>3. n \in Nat
            BY <1>5, <3>1
        <3> QED
            BY <3>1, <3>2, <3>3, Zenon
    <2> HIDE DEF x, y, low, n
    <2>3. \A bit \in wrong : bit + n \in Place /\ bit + n >= n /\ (t + bit) - first = bit + n
        <3> TAKE bit \in wrong
        <3>1. t + bit \in burst' /\ first \in burst'
            BY <1>5, <2>2
        <3>2. (t + bit) - first < 32
            BY <1>2, <3>1
        <3> QED
            BY <1>5, <1>6, <2>2, <3>2 DEF n, Place
    <2>4. Reaches(upper, n, wrong)
        <3>1. upper \in Register /\ \A p \in upper : p >= n
            BY <2>3 DEF Register
        <3>2. Lowered(upper, n) = wrong
            <4>1. \A bit \in wrong : (bit + n) - n = bit
                BY <1>6, <2>2
            <4> QED
                BY <4>1 DEF Lowered
        <3> HIDE DEF upper
        <3> QED
            BY <2>2, <3>1, <3>2, ReachesLowered
    <2>5. Reaches(Differing(low, upper), n, Differing(x, wrong))
        BY <2>2, <2>4, ReachesLinear
    <2>6. Reaches(Differing(low, upper), n + 8, y)
        <3>1. 8 \in Nat
            OBVIOUS
        <3> QED
            BY <1>4, <2>2, <2>5, <3>1, ReachesOn
    <2>7. Differing(low, upper) = Lowered(burst', first)
        <3>1. \A p \in low : p \notin upper
            <4>1. \A p \in burst : p - first < n
                BY <1>5, <2>2 DEF n
            <4>2. \A p \in low : p < n
                BY <4>1 DEF low, Lowered
            <4>3. \A p \in upper : ~(p < n)
                BY <1>6, <2>2
            <4> QED
                BY <4>2, <4>3
        <3>2. upper = Lowered(arrived, first)
            BY <2>3 DEF Lowered
        <3>3. Lowered(burst', first) = Lowered(burst, first) \cup Lowered(arrived, first)
            BY <1>5 DEF Lowered
        <3> HIDE DEF upper
        <3> QED
            BY <3>1, <3>2, <3>3 DEF Differing, Bank!SymDiff, low
    <2>8. first \in burst' /\ first \in Nat /\ first < 8 * sent'
        BY <1>5, <2>2
    <2>9. \A p \in burst' : p \in Nat /\ first <= p /\ p < 8 * sent' /\ p - first \in Place
        <3>1. \A p \in burst : p \in Nat /\ first <= p /\ p < 8 * sent' /\ p - first \in Place
            BY <1>5, <2>2
        <3>2. \A bit \in wrong : /\ t + bit \in Nat /\ first <= t + bit /\ t + bit < 8 * sent'
                                 /\ (t + bit) - first \in Place
            BY <1>5, <1>6, <2>2, <2>3
        <3> QED
            BY <1>5, <3>1, <3>2
    <2>10. 8 * sent' - first = n + 8
        BY <1>5, <2>2 DEF n
    <2>11. Traced(first)'
        BY <2>6, <2>7, <2>8, <2>9, <2>10 DEF Traced, y
    <2>12. burst' # {}
        BY <2>8
    <2> QED
        BY <1>2, <1>4, <2>11, <2>12 DEF BankInv
<1> QED
    BY <1>7, <1>8, <1>9

LEMMA TracedShows ==
    ASSUME BankInv
    PROVE  Bank!DamageShows
<1>1. written \in Register /\ read \in Register
    BY DEF BankInv
<1>2. CASE burst = {}
    BY <1>2 DEF BankInv, Bank!DamageShows
<1>3. CASE burst # {}
    <2>1. PICK first : Traced(first)
        BY <1>3 DEF BankInv
    <2>2. Lowered(burst, first) # {} /\ 8 * sent - first \in Nat
        BY <2>1 DEF Traced, Lowered, BankInv
    <2>3. Differing(written, read) # {}
        BY <2>1, <2>2, ReachesDifference DEF Traced
    <2>4. PICK p : p \in Differing(written, read)
        BY <2>3
    <2>5. (p \in written /\ p \notin read) \/ (p \notin written /\ p \in read)
        BY <1>1, <2>4, DifferingBits
    <2>6. Bank!Checksum(written) # Bank!Checksum(read)
        BY <2>5 DEF Bank!Checksum, Bank!SymDiff
    <2> QED
        BY <1>3, <2>6 DEF Bank!DamageShows
<1> QED
    BY <1>2, <1>3

LEMMA BankStays == BankInv /\ UNCHANGED <<written, read, sent, burst>> => BankInv'
BY DEF BankInv, Traced

\* CRC-32 over a bank of any length, with bytes and damage of any kind: a burst of wrong
\* bits that spans at most 32 places shows in the checksum, wherever it falls between
\* the bytes and whatever follows, and without damage the two checksums agree.
THEOREM ChecksumShowsDamage == Bank!Spec => []Bank!DamageShows
<1>1. Bank!Init => BankInv
    BY BankInitial
<1>2. BankInv /\ [Bank!Byte]_Bank!vars => BankInv'
    BY BytePreserves, BankStays DEF Bank!vars
<1>3. BankInv => Bank!DamageShows
    BY TracedShows
<1> QED
    BY <1>1, <1>2, <1>3, PTL DEF Bank!Spec

\* The same in the scenes of the run.
THEOREM ScenesShowDamage == MCSpec => []DamageShows
<1>1. MCInit => BankInv
    BY BankInitial DEF MCInit
<1>2. BankInv /\ [MCNext]_sceneVars => BankInv'
    BY BytePreserves, BankStays DEF MCNext, sceneVars, checksum
<1>3. BankInv => DamageShows
    BY TracedShows DEF DamageShows
<1> QED
    BY <1>1, <1>2, <1>3, PTL DEF MCSpec

(***************************************************************************)
(* The operator's block: THE rounding rule.                                *)
(***************************************************************************)

\* The scales at which the operator rounds.
Scales == {1, 2, 3, 4, 5, 15, 17}

\* Rounding by 2^s is to within half a unit, and odd.
LEMMA Rounds ==
    ASSUME NEW v \in Int, NEW s \in Scales
    PROVE  /\ Block!Rhe(v, s) \in Int
           /\ 2 ^ s * Block!Rhe(v, s) - v <= 2 ^ (s - 1)
           /\ v - 2 ^ s * Block!Rhe(v, s) <= 2 ^ (s - 1)
           /\ Block!Rhe(-v, s) = -Block!Rhe(v, s)
<1>1. CASE s = 1
    BY <1>1, SMTT(30) DEF Block!Rhe
<1>2. CASE s = 2
    BY <1>2, SMTT(30) DEF Block!Rhe
<1>3. CASE s = 3
    BY <1>3, SMTT(30) DEF Block!Rhe
<1>4. CASE s = 4
    BY <1>4, SMTT(30) DEF Block!Rhe
<1>5. CASE s = 5
    BY <1>5, SMTT(30) DEF Block!Rhe
<1>6. CASE s = 15
    BY <1>6, SMTT(30) DEF Block!Rhe
<1>7. CASE s = 17
    BY <1>7, SMTT(30) DEF Block!Rhe
<1> QED
    BY <1>1, <1>2, <1>3, <1>4, <1>5, <1>6, <1>7 DEF Scales

\* The units of those scales.
LEMMA Powers ==
    /\ 2 ^ 1 = 2 /\ 2 ^ 2 = 4 /\ 2 ^ 3 = 8 /\ 2 ^ 4 = 16 /\ 2 ^ 5 = 32
    /\ 2 ^ 15 = 32768 /\ 2 ^ 17 = 131072
    /\ 2 ^ (1 - 1) = 1 /\ 2 ^ (2 - 1) = 2 /\ 2 ^ (3 - 1) = 4 /\ 2 ^ (4 - 1) = 8
    /\ 2 ^ (5 - 1) = 16 /\ 2 ^ (15 - 1) = 16384 /\ 2 ^ (17 - 1) = 65536
OBVIOUS

\* The same in numbers, for the scales of halving, the threshold and the magnitude.
LEMMA RoundsSmall ==
    ASSUME NEW v \in Int
    PROVE  /\ Block!Rhe(v, 1) \in Int
           /\ 2 * Block!Rhe(v, 1) - v <= 1
           /\ v - 2 * Block!Rhe(v, 1) <= 1
          /\ Block!Rhe(v, 2) \in Int
           /\ 4 * Block!Rhe(v, 2) - v <= 2
           /\ v - 4 * Block!Rhe(v, 2) <= 2
          /\ Block!Rhe(v, 3) \in Int
           /\ 8 * Block!Rhe(v, 3) - v <= 4
           /\ v - 8 * Block!Rhe(v, 3) <= 4
          /\ Block!Rhe(v, 4) \in Int
           /\ 16 * Block!Rhe(v, 4) - v <= 8
           /\ v - 16 * Block!Rhe(v, 4) <= 8
          /\ Block!Rhe(v, 5) \in Int
           /\ 32 * Block!Rhe(v, 5) - v <= 16
           /\ v - 32 * Block!Rhe(v, 5) <= 16
BY Powers, Rounds DEF Scales

\* And for those of tables and twiddles.
LEMMA RoundsWide ==
    ASSUME NEW v \in Int
    PROVE  /\ Block!Rhe(v, 15) \in Int
           /\ 32768 * Block!Rhe(v, 15) - v <= 16384
           /\ v - 32768 * Block!Rhe(v, 15) <= 16384
          /\ Block!Rhe(v, 17) \in Int
           /\ 131072 * Block!Rhe(v, 17) - v <= 65536
           /\ v - 131072 * Block!Rhe(v, 17) <= 65536
BY Powers, Rounds DEF Scales

(***************************************************************************)
(* modReLU.                                                                *)
(***************************************************************************)

\* The longer and the shorter of two components.
LEMMA Extremes ==
    ASSUME NEW a \in Int, NEW b \in Int
    PROVE  /\ Block!Max({a, b}) = IF a >= b THEN a ELSE b
           /\ Block!Min({a, b}) = IF a >= b THEN b ELSE a
<1>1. \E x \in {a, b} : \A y \in {a, b} : x >= y
    OBVIOUS
<1>2. \E x \in {a, b} : \A y \in {a, b} : x =< y
    OBVIOUS
<1>3. /\ Block!Max({a, b}) \in {a, b}
      /\ \A y \in {a, b} : Block!Max({a, b}) >= y
    BY <1>1 DEF Block!Max
<1>4. /\ Block!Min({a, b}) \in {a, b}
      /\ \A y \in {a, b} : Block!Min({a, b}) =< y
    BY <1>2 DEF Block!Min
<1> QED
    BY <1>3, <1>4

\* A component without its sign, and the longer one of a point.
Unsigned(c) == IF c < 0 THEN -c ELSE c

Larger(z) == IF Unsigned(z[1]) >= Unsigned(z[2]) THEN Unsigned(z[1]) ELSE Unsigned(z[2])

\* The magnitude of a point is at most three halves of its longer component.
LEMMA Magnitudes ==
    ASSUME NEW z \in Int \X Int
    PROVE  /\ Block!Magnitude(z) \in Nat
           /\ 2 * Block!Magnitude(z) <= 3 * Larger(z)
           /\ Larger(z) \in Nat
<1> DEFINE a == Unsigned(z[1])
           b == Unsigned(z[2])
           x == IF a >= b THEN a ELSE b
           y == IF a >= b THEN b ELSE a
<1>1. /\ a \in Nat /\ b \in Nat
      /\ Block!Magnitude(z) =
            Block!Rhe(15 * Block!Max({a, b}), 4) + Block!Rhe(15 * Block!Min({a, b}), 5)
    BY DEF Block!Magnitude, Unsigned
<1>2. Block!Max({a, b}) = x /\ Block!Min({a, b}) = y
    BY <1>1, Extremes
<1>3. x \in Nat /\ y \in Nat /\ y <= x /\ x = Larger(z)
    BY <1>1 DEF Larger
<1> HIDE DEF a, b, x, y
<1>4. 4 \in Scales /\ 5 \in Scales /\ 15 * x \in Int /\ 15 * y \in Int
    BY <1>3 DEF Scales
<1>5. /\ Block!Rhe(15 * x, 4) \in Int
      /\ 16 * Block!Rhe(15 * x, 4) - 15 * x <= 8
      /\ 15 * x - 16 * Block!Rhe(15 * x, 4) <= 8
    BY <1>4, RoundsSmall
<1>6. /\ Block!Rhe(15 * y, 5) \in Int
      /\ 32 * Block!Rhe(15 * y, 5) - 15 * y <= 16
      /\ 15 * y - 32 * Block!Rhe(15 * y, 5) <= 16
    BY <1>4, RoundsSmall
<1>7. CASE x >= 11
    BY <1>1, <1>2, <1>3, <1>5, <1>6, <1>7
<1>8. CASE x < 11
    <2> DEFINE r == Block!Rhe(15 * x, 4)
               t == Block!Rhe(15 * y, 5)
    <2>1. r \in Int /\ 16 * r <= 15 * x + 8 /\ t \in Int /\ 32 * t <= 15 * y + 16
        BY <1>3, <1>5, <1>6
    <2>2. r + t \in Nat
        <3>1. 16 * r >= -8 /\ 32 * t >= -16
            BY <1>3, <1>5, <1>6
        <3> HIDE DEF r, t
        <3> QED
            BY <2>1, <3>1
    <2> HIDE DEF r, t
    <2>3. x \in Int /\ y \in Int /\ 0 <= x /\ y <= x /\ x <= 10
        BY <1>3, <1>8
    <2>4. 2 * (r + t) <= 3 * x
        BY <2>1, <2>3
    <2> QED
        BY <1>1, <1>2, <1>3, <2>2, <2>4 DEF r, t
<1> QED
    BY <1>3, <1>7, <1>8

\* A component has room for 1 and -2.
LEMMA Width ==
    /\ Block!DataMax \in Int /\ Block!DataMin \in Int
    /\ Block!DataMax >= 1 /\ Block!DataMin <= -2
<1>1. DataBits - 1 \in Nat /\ Block!DataMax >= 1
    BY BlockAssumption DEF Block!OperandsAssumption
<1>2. 2 ^ (DataBits - 1) \in Int
    BY <1>1
<1> QED
    BY <1>1, <1>2 DEF Block!DataMax, Block!DataMin

\* What modReLU makes of a component: no sign turns, a scale of at most 1 lets nothing
\* grow, and more than half a unit is left of what is scaled to more than that.
LEMMA ComponentScaled ==
    ASSUME NEW v \in Int, NEW scale \in Nat
    PROVE  LET y == Block!Clamp24(Block!Rhe(v * scale, 15))
           IN  /\ y \in Int
               /\ v >= 0 => y >= 0
               /\ v <= 0 => y <= 0
               /\ v >= 0 /\ scale <= 32768 => y <= v
               /\ v <= 0 /\ scale <= 32768 => y >= v
               /\ v * scale > 16384 \/ v * scale < -16384 => y # 0
               /\ scale = 0 => y = 0
<1> DEFINE p == v * scale
           r == Block!Rhe(p, 15)
<1>1. p \in Int
    OBVIOUS
<1>2. /\ v >= 0 => p >= 0
      /\ v <= 0 => p <= 0
      /\ v >= 0 /\ scale <= 32768 => p <= 32768 * v
      /\ v <= 0 /\ scale <= 32768 => p >= 32768 * v
      /\ scale = 0 => p = 0
    <2>1. CASE v >= 0
        <3>1. p >= 0
            BY <2>1
        <3>2. scale <= 32768 => p <= 32768 * v
            BY <2>1
        <3>3. scale = 0 \/ v = 0 => p = 0
            OBVIOUS
        <3> QED
            BY <2>1, <3>1, <3>2, <3>3
    <2>2. CASE v <= 0
        <3>1. p <= 0
            BY <2>2
        <3>2. scale <= 32768 => p >= 32768 * v
            BY <2>2
        <3>3. scale = 0 \/ v = 0 => p = 0
            OBVIOUS
        <3> QED
            BY <2>2, <3>1, <3>2, <3>3
    <2> QED
        BY <2>1, <2>2
<1> HIDE DEF p
<1>3. /\ r \in Int
      /\ 32768 * r - p <= 16384
      /\ p - 32768 * r <= 16384
    BY <1>1, RoundsWide
<1> HIDE DEF r
<1> DEFINE y == Block!Clamp24(r)
<1>4. /\ y \in Int
      /\ \/ y = r
         \/ r >= 1 /\ y >= 1 /\ y <= r
         \/ r <= -1 /\ y <= -1 /\ y >= r
    <2> DEFINE high == Block!DataMax
               low == Block!DataMin
    <2>1. high \in Int /\ low \in Int /\ high >= 1 /\ low <= -2
        BY Width
    <2>2. y = IF r > high THEN high ELSE IF r < low THEN low ELSE r
        BY DEF Block!Clamp24
    <2> HIDE DEF high, low, y
    <2> QED
        BY <1>3, <2>1, <2>2
<1> HIDE DEF y
<1>5. /\ y \in Int
      /\ v >= 0 => y >= 0
      /\ v <= 0 => y <= 0
      /\ v >= 0 /\ scale <= 32768 => y <= v
      /\ v <= 0 /\ scale <= 32768 => y >= v
      /\ p > 16384 \/ p < -16384 => y # 0
      /\ scale = 0 => y = 0
    BY <1>1, <1>2, <1>3, <1>4
<1> QED
    BY <1>5 DEF y, r, p

\* The scale of a point whose threshold is b.
LEMMA ScaleRange ==
    ASSUME NEW z \in Int \X Int, NEW b \in Int
    PROVE  LET scale == Block!SurvivorScale(z, b)
               keep == Block!Magnitude(z) + b
           IN  /\ scale \in Nat
               /\ b <= 0 => scale <= 32768
               /\ keep <= 0 => scale = 0
               /\ keep > 0 /\ Block!Magnitude(z) > 0 =>
                    (scale + 1) * Block!Magnitude(z) > 32768 * keep
<1> DEFINE m == Block!Magnitude(z)
           keep == m + b
           scale == Block!SurvivorScale(z, b)
<1>1. m \in Nat
    BY Magnitudes
<1>2. scale = IF keep > 0 /\ m > 0 THEN (keep * 32768) \div m ELSE 0
    BY Powers DEF Block!SurvivorScale, Block!TableFrac
<1> HIDE DEF m, scale
<1>3. CASE keep > 0 /\ m > 0
    <2> DEFINE e == keep * 32768
    <2>1. e \in Nat /\ m \in Nat /\ m > 0 /\ keep \in Nat
        BY <1>1, <1>3
    <2>2. scale = e \div m
        BY <1>2, <1>3
    <2>3. b <= 0 => e <= 32768 * m
        BY <1>1, <1>3
    <2>4. e = 32768 * keep
        BY <2>1
    <2> HIDE DEF e
    <2>5. scale \in Int /\ scale * m <= e /\ e < (scale + 1) * m
        BY <2>1, <2>2
    <2>6. scale >= 0
        <3> SUFFICES ASSUME scale + 1 <= 0 PROVE FALSE
            BY <2>5
        <3>1. (scale + 1) * m <= 0
            BY <2>1, <2>5
        <3> QED
            BY <2>1, <2>5, <3>1
    <2>7. b <= 0 => scale <= 32768
        <3> SUFFICES ASSUME b <= 0, scale > 32768 PROVE FALSE
            BY <2>5
        <3>1. scale * m > 32768 * m
            BY <2>1, <2>5
        <3> QED
            BY <2>1, <2>3, <2>5, <3>1
    <2> QED
        BY <1>3, <2>1, <2>4, <2>5, <2>6, <2>7 DEF m, scale
<1>4. CASE ~(keep > 0 /\ m > 0)
    BY <1>1, <1>2, <1>4 DEF m, scale
<1> QED
    BY <1>3, <1>4

\* What the unscaled threshold says of a magnitude m, the scaled one, t, says too, but for
\* half a unit.
ThresholdSound(m, b, n, t) ==
    LET excess == 2 * (m * n + b)
    IN  /\ t \in Int
        /\ b <= 0 => t <= 0
        /\ excess < -n => m + t < 0
        /\ m > 0 /\ 2 ^ 11 * (excess - n) >= m * n => m + t > 0 /\ 4096 * (m + t) >= m

LEMMA ThresholdScales ==
    ASSUME NEW b \in Int, NEW e \in {1, 2, 3, 4}, NEW n \in Block!Sizes, 2 ^ e = n, NEW m \in Nat
    PROVE  ThresholdSound(m, b, n, Block!Threshold(b, e))
<1> DEFINE t == Block!Threshold(b, e)
           excess == 2 * (m * n + b)
<1>0. /\ t = Block!Rhe(b, e)
      /\ 2 ^ 11 = 2048
    BY DEF Block!Threshold
<1>1. /\ t \in Int
      /\ e = 1 => (n = 2 /\ 2 * t - b <= 1 /\ b - 2 * t <= 1)
      /\ e = 2 => (n = 4 /\ 4 * t - b <= 2 /\ b - 4 * t <= 2)
      /\ e = 3 => (n = 8 /\ 8 * t - b <= 4 /\ b - 8 * t <= 4)
      /\ e = 4 => (n = 16 /\ 16 * t - b <= 8 /\ b - 16 * t <= 8)
    <2>1. CASE e = 1
        BY <1>0, <2>1, RoundsSmall, Powers
    <2>2. CASE e = 2
        BY <1>0, <2>2, RoundsSmall, Powers
    <2>3. CASE e = 3
        BY <1>0, <2>3, RoundsSmall, Powers
    <2>4. CASE e = 4
        BY <1>0, <2>4, RoundsSmall, Powers
    <2> QED
        BY <2>1, <2>2, <2>3, <2>4
<1> HIDE DEF t
<1>2. /\ b <= 0 => t <= 0
      /\ excess < -n => m + t < 0
      /\ m > 0 /\ 2048 * (excess - n) >= m * n => m + t > 0 /\ 4096 * (m + t) >= m
    <2>1. CASE e = 1
        BY <1>1, <2>1
    <2>2. CASE e = 2
        BY <1>1, <2>2
    <2>3. CASE e = 3
        BY <1>1, <2>3
    <2>4. CASE e = 4
        BY <1>1, <2>4
    <2> QED
        BY <2>1, <2>2, <2>3, <2>4
<1> QED
    BY <1>0, <1>1, <1>2 DEF t, ThresholdSound

\* One point of a block, as modReLU leaves it.
Left(z, b, e) ==
    LET scale == Block!SurvivorScale(z, Block!Threshold(b, e))
    IN  <<Block!Clamp24(Block!Rhe(z[1] * scale, 15)), Block!Clamp24(Block!Rhe(z[2] * scale, 15))>>

\* What ReluShortens says of one point z of a block of n, left as p.
Shortened(z, p, b, n) ==
    LET excess == 2 * (Block!Magnitude(z) * n + b)
    IN  /\ \A c \in 1 .. 2 :
            \/ 0 <= z[c] /\ 0 <= p[c] /\ (b <= 0 => p[c] <= z[c])
            \/ 0 >= z[c] /\ 0 >= p[c] /\ (b <= 0 => p[c] >= z[c])
        /\ excess < -n => p = <<0, 0>>
        /\ Block!Magnitude(z) > 0 /\ 2 ^ 11 * (excess - n) >= Block!Magnitude(z) * n
           => p # <<0, 0>>

\* modReLU shortens every point, whatever the width of the components: the scale of a point
\* that is far enough above the threshold is at least 8, and its longer component more than
\* half a unit after it.
LEMMA PointShortened ==
    ASSUME NEW z \in Int \X Int, NEW b \in Int, NEW e \in {1, 2, 3, 4}, NEW n \in Block!Sizes,
           2 ^ e = n
    PROVE  Shortened(z, Left(z, b, e), b, n)
<1> DEFINE m == Block!Magnitude(z)
           t == Block!Threshold(b, e)
           scale == Block!SurvivorScale(z, t)
           x == Block!Clamp24(Block!Rhe(z[1] * scale, 15))
           y == Block!Clamp24(Block!Rhe(z[2] * scale, 15))
           excess == 2 * (m * n + b)
<1>1. z[1] \in Int /\ z[2] \in Int /\ m \in Nat /\ Larger(z) \in Nat /\ 2 * m <= 3 * Larger(z)
    BY Magnitudes
<1>2. /\ t \in Int
      /\ b <= 0 => t <= 0
      /\ excess < -n => m + t < 0
      /\ m > 0 /\ 2 ^ 11 * (excess - n) >= m * n => m + t > 0 /\ 4096 * (m + t) >= m
    <2>1. ThresholdSound(m, b, n, t)
        BY <1>1, ThresholdScales
    <2> QED
        BY <2>1 DEF ThresholdSound
<1>3. /\ scale \in Nat
      /\ t <= 0 => scale <= 32768
      /\ m + t <= 0 => scale = 0
      /\ m + t > 0 /\ m > 0 => (scale + 1) * m > 32768 * (m + t)
    BY <1>2, ScaleRange
<1> HIDE DEF m, t, scale
<1>4. /\ x \in Int
      /\ z[1] >= 0 => x >= 0
      /\ z[1] <= 0 => x <= 0
      /\ z[1] >= 0 /\ scale <= 32768 => x <= z[1]
      /\ z[1] <= 0 /\ scale <= 32768 => x >= z[1]
      /\ z[1] * scale > 16384 \/ z[1] * scale < -16384 => x # 0
      /\ scale = 0 => x = 0
    BY <1>1, <1>3, ComponentScaled
<1>5. /\ y \in Int
      /\ z[2] >= 0 => y >= 0
      /\ z[2] <= 0 => y <= 0
      /\ z[2] >= 0 /\ scale <= 32768 => y <= z[2]
      /\ z[2] <= 0 /\ scale <= 32768 => y >= z[2]
      /\ z[2] * scale > 16384 \/ z[2] * scale < -16384 => y # 0
      /\ scale = 0 => y = 0
    BY <1>1, <1>3, ComponentScaled
<1>6. ASSUME m > 0, m + t > 0, 4096 * (m + t) >= m
      PROVE  x # 0 \/ y # 0
    <2> DEFINE l == Larger(z)
               k == m + t
    <2>1. k \in Int /\ k >= 1 /\ 4096 * k >= m
        BY <1>1, <1>2, <1>6
    <2>2. (scale + 1) * m > 32768 * k
        BY <1>3, <1>6
    <2>3. scale * m + m > 32768 * k
        BY <1>1, <1>3, <2>2
    <2>4. 2 * (scale * m) <= 3 * (scale * l)
        <3>1. (2 * m) * scale <= (3 * l) * scale
            BY <1>1, <1>3
        <3> QED
            BY <1>1, <1>3, <3>1
    <2>5. scale * l > 16384
        <3> DEFINE u == scale * m
                   v == scale * l
        <3>1. u \in Int /\ v \in Int /\ u + m > 32768 * k /\ 2 * u <= 3 * v
            BY <1>1, <1>3, <2>3, <2>4
        <3> HIDE DEF u, v, k
        <3>2. v > 16384
            BY <1>1, <2>1, <3>1
        <3> QED
            BY <3>2 DEF v
    <2>6. l = z[1] \/ l = -z[1] \/ l = z[2] \/ l = -z[2]
        BY <1>1 DEF Larger, Unsigned
    <2>7. /\ scale * z[1] = z[1] * scale
          /\ scale * z[2] = z[2] * scale
          /\ scale * (-z[1]) = -(z[1] * scale)
          /\ scale * (-z[2]) = -(z[2] * scale)
        BY <1>1, <1>3
    <2>8. z[1] * scale \in Int /\ z[2] * scale \in Int
        BY <1>1, <1>3
    <2> HIDE DEF l
    <2> QED
        BY <1>4, <1>5, <2>5, <2>6, <2>7, <2>8
<1> HIDE DEF x, y
<1>7. Left(z, b, e) = <<x, y>>
    BY DEF Left, x, y, scale, t
<1>8. \A c \in 1 .. 2 :
        \/ 0 <= z[c] /\ 0 <= <<x, y>>[c] /\ (b <= 0 => <<x, y>>[c] <= z[c])
        \/ 0 >= z[c] /\ 0 >= <<x, y>>[c] /\ (b <= 0 => <<x, y>>[c] >= z[c])
    <2>1. \/ 0 <= z[1] /\ 0 <= x /\ (b <= 0 => x <= z[1])
          \/ 0 >= z[1] /\ 0 >= x /\ (b <= 0 => x >= z[1])
        BY <1>1, <1>2, <1>3, <1>4
    <2>2. \/ 0 <= z[2] /\ 0 <= y /\ (b <= 0 => y <= z[2])
          \/ 0 >= z[2] /\ 0 >= y /\ (b <= 0 => y >= z[2])
        BY <1>1, <1>2, <1>3, <1>5
    <2>3. \A c \in 1 .. 2 : c = 1 \/ c = 2
        OBVIOUS
    <2> QED
        BY <2>1, <2>2, <2>3
<1>9. excess < -n => x = 0 /\ y = 0
    BY <1>1, <1>2, <1>3, <1>4, <1>5
<1>10. m > 0 /\ 2 ^ 11 * (excess - n) >= m * n => x # 0 \/ y # 0
    BY <1>2, <1>6
<1> QED
    BY <1>7, <1>8, <1>9, <1>10 DEF Shortened, m

(***************************************************************************)
(* One stage of the transform.                                             *)
(***************************************************************************)

Pairs == Int \X Int

\* A point mirrored in the real axis.
Conj(z) == <<z[1], -z[2]>>

\* The ROM's cosines are odd and its sines even about a quarter turn, in every bit.
LEMMA RomPairs ==
    /\ \A i \in 0 .. 7 : Block!Rom[i][1] \in Int /\ Block!Rom[i][2] \in Int
    /\ Block!Rom[0][2] = 0
    /\ \A i \in 1 .. 7 :
        Block!Rom[8 - i][1] = -Block!Rom[i][1] /\ Block!Rom[8 - i][2] = Block!Rom[i][2]
BY SMTT(60) DEF Block!Rom

\* The twiddles of a stage of blocks of 2 * m points.
Places(m, n, k) == k * (n \div (2 * m))

\* m divides half of n.
Stage(m, n) == n \in Block!Sizes /\ m \in {1, 2, 4, 8} /\ 2 * m <= n

\* Where the twiddles of a stage are in the ROM.
LEMMA PlaceInRom ==
    ASSUME NEW m, NEW n, Stage(m, n), NEW k \in 0 .. m - 1
    PROVE  /\ Places(m, n, k) * (Block!RomSize \div n) = k * (8 \div m)
           /\ k * (8 \div m) \in 0 .. 7
           /\ k > 0 => /\ k * (8 \div m) > 0
                       /\ (m - k) * (8 \div m) = 8 - k * (8 \div m)
BY SMTT(60) DEF Stage, Block!Sizes, Places, Block!RomSize

\* The twiddle of a pair and that of its mirror.
LEMMA TwiddlesMirror ==
    ASSUME NEW m, NEW n, Stage(m, n), NEW k \in 0 .. m - 1
    PROVE  LET w == Block!Twiddle(Places(m, n, k), n)
           IN  /\ w[1] \in Int /\ w[2] \in Int
               /\ k = 0 => w[2] = 0
               /\ k > 0 => Block!Twiddle(Places(m, n, m - k), n) = <<-w[1], w[2]>>
<1> DEFINE i == k * (8 \div m)
           w == Block!Twiddle(Places(m, n, k), n)
<1>0. m \in Nat
    BY DEF Stage
<1>1. w = <<Block!Rom[i][1], -Block!Rom[i][2]>>
    BY PlaceInRom DEF Block!Twiddle
<1>2. i \in 0 .. 7 /\ (k = 0 => i = 0) /\ (k > 0 => i > 0)
    BY PlaceInRom DEF Stage
<1>3. ASSUME k > 0
      PROVE  Block!Twiddle(Places(m, n, m - k), n) = <<Block!Rom[8 - i][1], -Block!Rom[8 - i][2]>>
    <2>1. m - k \in 0 .. m - 1
        BY <1>0, <1>3
    <2>2. Places(m, n, m - k) * (Block!RomSize \div n) = (m - k) * (8 \div m)
        BY <2>1, PlaceInRom
    <2>3. (m - k) * (8 \div m) = 8 - i
        BY <1>3, PlaceInRom
    <2> QED
        BY <2>2, <2>3 DEF Block!Twiddle
<1> HIDE DEF i, w
<1>4. k > 0 => i \in 1 .. 7
    BY <1>2
<1> QED
    BY <1>1, <1>2, <1>3, <1>4, RomPairs DEF w

\* Turning a mirrored point by the mirrored angle, which is half a turn short of the
\* opposite one.
LEMMA TurnsMirror ==
    ASSUME NEW m, NEW n, Stage(m, n), NEW k \in 0 .. m - 1, NEW b \in Pairs
    PROVE  LET r == Block!Rotate(b, Places(m, n, k), n)
           IN  /\ r[1] \in Int /\ r[2] \in Int
               /\ k = 0 /\ b[2] = 0 => r[2] = 0
               /\ k > 0 => Block!Rotate(Conj(b), Places(m, n, m - k), n) = <<-r[1], r[2]>>
<1> DEFINE w == Block!Twiddle(Places(m, n, k), n)
           v == Block!Twiddle(Places(m, n, m - k), n)
           r == Block!Rotate(b, Places(m, n, k), n)
           x == b[1]
           y == b[2]
<1>1. /\ w[1] \in Int /\ w[2] \in Int
      /\ k = 0 => w[2] = 0
      /\ k > 0 => v = <<-w[1], w[2]>>
    BY TwiddlesMirror
<1>2. x \in Int /\ y \in Int
    BY DEF Pairs
<1>3. r = <<Block!Rhe(x * w[1] - y * w[2], 17), Block!Rhe(x * w[2] + y * w[1], 17)>>
    BY DEF Block!Rotate, Block!TwiddleFrac
<1>4. Block!Rotate(Conj(b), Places(m, n, m - k), n)
        = <<Block!Rhe(x * v[1] - (-y) * v[2], 17), Block!Rhe(x * v[2] + (-y) * v[1], 17)>>
    BY DEF Block!Rotate, Block!TwiddleFrac, Conj
<1> HIDE DEF r, x, y, w, v
<1> DEFINE p == x * w[1] - y * w[2]
           q == x * w[2] + y * w[1]
<1>5. p \in Int /\ q \in Int
    BY <1>1, <1>2
<1>6. k > 0 => x * v[1] - (-y) * v[2] = -p /\ x * v[2] + (-y) * v[1] = q
    BY <1>1, <1>2
<1>7. k = 0 /\ y = 0 => q = 0
    BY <1>1, <1>2
<1> HIDE DEF p, q
<1>8. /\ Block!Rhe(p, 17) \in Int /\ Block!Rhe(q, 17) \in Int
      /\ Block!Rhe(-p, 17) = -Block!Rhe(p, 17)
    BY <1>5, Rounds DEF Scales
<1>9. Block!Rhe(0, 17) = 0
    BY RoundsWide
<1>10. r = <<Block!Rhe(p, 17), Block!Rhe(q, 17)>>
    BY <1>3 DEF p, q
<1>11. k > 0 => Block!Rotate(Conj(b), Places(m, n, m - k), n) = <<-r[1], r[2]>>
    BY <1>4, <1>6, <1>8, <1>10
<1> QED
    BY <1>7, <1>8, <1>9, <1>10, <1>11 DEF r, y

Rounded(z) == <<Block!Halve(z[1]), Block!Halve(z[2])>>

\* The butterfly of the points at i and i + m.
TurnedPoint(b, i, m, n) == Block!Rotate(b[i + m], Places(m, n, i % m), n)

Upper(b, i, m, n) == Rounded(Block!Fft!Plus(b[i], TurnedPoint(b, i, m, n)))
Lower(b, i, m, n) == Rounded(Block!Fft!Minus(b[i], TurnedPoint(b, i, m, n)))

\* A whole stage at once: what its butterflies leave in place, out of place.
Staged(b, m, n) ==
    [i \in 0 .. n - 1 |-> IF i % (2 * m) < m THEN Upper(b, i, m, n) ELSE Lower(b, i - m, m, n)]

\* Where the conjugate of point i is, in a block of m.
Mirror(i, m) == IF i % m = 0 THEN i ELSE i - 2 * (i % m) + m

Mirrored(b, m, n) == \A i \in 0 .. n - 1 : b[Mirror(i, m)] = Conj(b[i])

\* The upper point of a pair, and the lower one.
LEMMA UpperPlaces ==
    ASSUME NEW m, NEW n, Stage(m, n), NEW i \in 0 .. n - 1, i % (2 * m) < m
    PROVE  /\ i + m \in 0 .. n - 1
           /\ i % m \in 0 .. m - 1
           /\ (i + m) % (2 * m) >= m
           /\ (i + m) % m = i % m
<1>1. CASE m = 1
    BY <1>1, SMTT(30) DEF Stage, Block!Sizes
<1>2. CASE m = 2
    BY <1>2, SMTT(30) DEF Stage, Block!Sizes
<1>3. CASE m = 4
    BY <1>3, SMTT(30) DEF Stage, Block!Sizes
<1>4. CASE m = 8
    BY <1>4, SMTT(30) DEF Stage, Block!Sizes
<1> QED
    BY <1>1, <1>2, <1>3, <1>4 DEF Stage

LEMMA LowerPlaces ==
    ASSUME NEW m, NEW n, Stage(m, n), NEW i \in 0 .. n - 1, ~(i % (2 * m) < m)
    PROVE  /\ i - m \in 0 .. n - 1
           /\ (i - m) % (2 * m) < m
           /\ (i - m) % m = i % m
<1>1. CASE m = 1
    BY <1>1, SMTT(30) DEF Stage, Block!Sizes
<1>2. CASE m = 2
    BY <1>2, SMTT(30) DEF Stage, Block!Sizes
<1>3. CASE m = 4
    BY <1>3, SMTT(30) DEF Stage, Block!Sizes
<1>4. CASE m = 8
    BY <1>4, SMTT(30) DEF Stage, Block!Sizes
<1> QED
    BY <1>1, <1>2, <1>3, <1>4 DEF Stage

\* The mirror of an upper point in the block of 2 * m is the lower point over against its
\* mirror in the block of m.
LEMMA MirrorPlaces ==
    ASSUME NEW m, NEW n, Stage(m, n), NEW i \in 0 .. n - 1, i % (2 * m) < m, i % m > 0
    PROVE  /\ Mirror(i, m) \in 0 .. n - 1
           /\ Mirror(i, m) % (2 * m) < m
           /\ Mirror(i, m) % m = m - (i % m)
           /\ Mirror(i, 2 * m) = Mirror(i, m) + m
           /\ Mirror(i + m, m) = Mirror(i, m) + m
<1>1. CASE m = 1
    BY <1>1, SMTT(30) DEF Stage, Block!Sizes, Mirror
<1>2. CASE m = 2
    BY <1>2, SMTT(30) DEF Stage, Block!Sizes, Mirror
<1>3. CASE m = 4
    BY <1>3, SMTT(30) DEF Stage, Block!Sizes, Mirror
<1>4. CASE m = 8
    BY <1>4, SMTT(30) DEF Stage, Block!Sizes, Mirror
<1> QED
    BY <1>1, <1>2, <1>3, <1>4 DEF Stage

\* The first point of a half block is its own mirror, before and after the stage.
LEMMA FirstPlaces ==
    ASSUME NEW m, NEW n, Stage(m, n), NEW i \in 0 .. n - 1, i % (2 * m) < m, i % m = 0
    PROVE  /\ Mirror(i, m) = i /\ Mirror(i + m, m) = i + m
           /\ Mirror(i, 2 * m) = i /\ Mirror(i + m, 2 * m) = i + m
<1>1. CASE m = 1
    BY <1>1, SMTT(30) DEF Stage, Block!Sizes, Mirror
<1>2. CASE m = 2
    BY <1>2, SMTT(30) DEF Stage, Block!Sizes, Mirror
<1>3. CASE m = 4
    BY <1>3, SMTT(30) DEF Stage, Block!Sizes, Mirror
<1>4. CASE m = 8
    BY <1>4, SMTT(30) DEF Stage, Block!Sizes, Mirror
<1> QED
    BY <1>1, <1>2, <1>3, <1>4 DEF Stage

\* Every lower point that is not the first of its half is the mirror of an upper one.
LEMMA LowerMirrored ==
    ASSUME NEW m, NEW n, Stage(m, n), NEW i \in 0 .. n - 1, ~(i % (2 * m) < m), i % m > 0
    PROVE  \E j \in 0 .. n - 1 :
            j % (2 * m) < m /\ j % m > 0 /\ Mirror(j, 2 * m) = i /\ Mirror(i, 2 * m) = j
<1> DEFINE j == i - 2 * (i % (2 * m)) + 2 * m
<1>1. /\ j \in 0 .. n - 1 /\ j % (2 * m) < m /\ j % m > 0
      /\ Mirror(j, 2 * m) = i /\ Mirror(i, 2 * m) = j
    <2>1. CASE m = 1
        BY <2>1, SMTT(30) DEF Stage, Block!Sizes, Mirror
    <2>2. CASE m = 2
        BY <2>2, SMTT(30) DEF Stage, Block!Sizes, Mirror
    <2>3. CASE m = 4
        BY <2>3, SMTT(30) DEF Stage, Block!Sizes, Mirror
    <2>4. CASE m = 8
        BY <2>4, SMTT(30) DEF Stage, Block!Sizes, Mirror
    <2> QED
        BY <2>1, <2>2, <2>3, <2>4 DEF Stage
<1> QED
    BY <1>1

\* Halving is odd.
LEMMA Halves ==
    ASSUME NEW v \in Int
    PROVE  Block!Halve(v) \in Int /\ Block!Halve(-v) = -Block!Halve(v)
BY Rounds DEF Block!Halve, Scales

\* A block without imaginary parts.
Reals(b) == \A i \in DOMAIN b : b[i][2] = 0

\* Butterflies, and whole stages, make pairs of integers of pairs of integers.
LEMMA ButterflyPairs ==
    ASSUME NEW m, NEW n, Stage(m, n), NEW b \in [0 .. n - 1 -> Pairs],
           NEW i \in 0 .. n - 1, i % (2 * m) < m
    PROVE  Upper(b, i, m, n) \in Pairs /\ Lower(b, i, m, n) \in Pairs
<1> DEFINE r == TurnedPoint(b, i, m, n)
<1>1. i + m \in 0 .. n - 1 /\ i % m \in 0 .. m - 1
    BY UpperPlaces
<1>2. b[i + m] \in Pairs
    BY <1>1
<1>3. r[1] \in Int /\ r[2] \in Int
    BY <1>1, <1>2, TurnsMirror DEF TurnedPoint
<1>4. b[i][1] \in Int /\ b[i][2] \in Int
    BY DEF Pairs
<1> HIDE DEF r
<1>5. Upper(b, i, m, n) = <<Block!Halve(b[i][1] + r[1]), Block!Halve(b[i][2] + r[2])>>
    BY DEF Upper, Rounded, Block!Fft!Plus, r
<1>6. Lower(b, i, m, n) = <<Block!Halve(b[i][1] - r[1]), Block!Halve(b[i][2] - r[2])>>
    BY DEF Lower, Rounded, Block!Fft!Minus, r
<1>7. /\ b[i][1] + r[1] \in Int /\ b[i][2] + r[2] \in Int
      /\ b[i][1] - r[1] \in Int /\ b[i][2] - r[2] \in Int
    BY <1>3, <1>4
<1>8. /\ Block!Halve(b[i][1] + r[1]) \in Int /\ Block!Halve(b[i][2] + r[2]) \in Int
      /\ Block!Halve(b[i][1] - r[1]) \in Int /\ Block!Halve(b[i][2] - r[2]) \in Int
    BY <1>7, Halves
<1> QED
    BY <1>5, <1>6, <1>8 DEF Pairs

LEMMA StagedPairs ==
    ASSUME NEW m, NEW n, Stage(m, n), NEW b \in [0 .. n - 1 -> Pairs]
    PROVE  Staged(b, m, n) \in [0 .. n - 1 -> Pairs]
<1> SUFFICES ASSUME NEW i \in 0 .. n - 1
             PROVE  (IF i % (2 * m) < m THEN Upper(b, i, m, n) ELSE Lower(b, i - m, m, n)) \in Pairs
    BY DEF Staged
<1>1. CASE i % (2 * m) < m
    BY <1>1, ButterflyPairs
<1>2. CASE ~(i % (2 * m) < m)
    BY <1>2, LowerPlaces, ButterflyPairs
<1> QED
    BY <1>1, <1>2

\* The butterfly of two conjugates.
LEMMA ConjugatesMeet ==
    ASSUME NEW m, NEW n, Stage(m, n), NEW b \in [0 .. n - 1 -> Pairs], Mirrored(b, m, n),
           NEW i \in 0 .. n - 1, i % (2 * m) < m, i % m > 0
    PROVE  Lower(b, Mirror(i, m), m, n) = Conj(Upper(b, i, m, n))
<1> DEFINE k == i % m
           j == Mirror(i, m)
           r == TurnedPoint(b, i, m, n)
           s == TurnedPoint(b, j, m, n)
<1>1. i + m \in 0 .. n - 1 /\ k \in 0 .. m - 1
    BY UpperPlaces
<1>2. j \in 0 .. n - 1 /\ j % m = m - k /\ Mirror(i + m, m) = j + m
    BY MirrorPlaces
<1>3. b[j] = Conj(b[i]) /\ b[j + m] = Conj(b[i + m])
    BY <1>1, <1>2 DEF Mirrored
<1>4. b[i] \in Pairs /\ b[i + m] \in Pairs
    BY <1>1
<1>5. s = Block!Rotate(Conj(b[i + m]), Places(m, n, m - k), n)
    BY <1>2, <1>3 DEF TurnedPoint
<1>6. r = Block!Rotate(b[i + m], Places(m, n, k), n)
    BY DEF TurnedPoint
<1> HIDE DEF j, r, s
<1>7. r[1] \in Int /\ r[2] \in Int /\ s = <<-r[1], r[2]>>
    BY <1>1, <1>4, <1>5, <1>6, TurnsMirror
<1> DEFINE p == b[i][1] + r[1]
           q == b[i][2] + r[2]
<1>8. p \in Int /\ q \in Int /\ b[j][1] - s[1] = p /\ b[j][2] - s[2] = -q
    BY <1>3, <1>4, <1>7 DEF Conj, Pairs
<1>9. Lower(b, j, m, n) = <<Block!Halve(b[j][1] - s[1]), Block!Halve(b[j][2] - s[2])>>
    BY DEF Lower, Rounded, Block!Fft!Minus, s
<1>10. Upper(b, i, m, n) = <<Block!Halve(p), Block!Halve(q)>>
    BY DEF Upper, Rounded, Block!Fft!Plus, r
<1> HIDE DEF p, q
<1>11. Block!Halve(-q) = -Block!Halve(q)
    BY <1>8, Halves
<1> QED
    BY <1>8, <1>9, <1>10, <1>11 DEF Conj, j

\* The butterfly of two real points.
LEMMA RealsMeet ==
    ASSUME NEW m, NEW n, Stage(m, n), NEW b \in [0 .. n - 1 -> Pairs], Mirrored(b, m, n),
           NEW i \in 0 .. n - 1, i % (2 * m) < m, i % m = 0
    PROVE  /\ Upper(b, i, m, n) = Conj(Upper(b, i, m, n))
           /\ Lower(b, i, m, n) = Conj(Lower(b, i, m, n))
<1> DEFINE r == TurnedPoint(b, i, m, n)
<1>1. i + m \in 0 .. n - 1 /\ 0 \in 0 .. m - 1
    BY UpperPlaces
<1>2. b[i] = Conj(b[i]) /\ b[i + m] = Conj(b[i + m])
    BY <1>1, FirstPlaces DEF Mirrored
<1>3. b[i] \in Pairs /\ b[i + m] \in Pairs
    BY <1>1
<1>4. b[i][2] = 0 /\ b[i + m][2] = 0
    <2>1. \A z \in Pairs : z = Conj(z) => z[2] = 0
        <3> SUFFICES ASSUME NEW z \in Pairs, z = Conj(z) PROVE z[2] = 0
            OBVIOUS
        <3>1. z[2] \in Int /\ z[2] = -z[2]
            BY DEF Pairs, Conj
        <3> QED
            BY <3>1
    <2> QED
        BY <1>2, <1>3, <2>1
<1>5. r = Block!Rotate(b[i + m], Places(m, n, 0), n)
    BY DEF TurnedPoint
<1> HIDE DEF r
<1>6. r[2] = 0
    BY <1>1, <1>3, <1>4, <1>5, TurnsMirror
<1>7. Upper(b, i, m, n) = <<Block!Halve(b[i][1] + r[1]), Block!Halve(0)>>
    BY <1>4, <1>6 DEF Upper, Rounded, Block!Fft!Plus, r
<1>8. Lower(b, i, m, n) = <<Block!Halve(b[i][1] - r[1]), Block!Halve(0)>>
    BY <1>4, <1>6 DEF Lower, Rounded, Block!Fft!Minus, r
<1>9. Block!Halve(0) = -Block!Halve(0)
    BY Halves
<1> QED
    BY <1>7, <1>8, <1>9 DEF Conj

\* Every stage keeps the transform of a real block conjugate symmetric.
LEMMA StagesMirror ==
    ASSUME NEW m, NEW n, Stage(m, n), NEW b \in [0 .. n - 1 -> Pairs], Mirrored(b, m, n)
    PROVE  Mirrored(Staged(b, m, n), 2 * m, n)
<1> DEFINE x == Staged(b, m, n)
<1>1. \A i \in 0 .. n - 1 :
        x[i] = IF i % (2 * m) < m THEN Upper(b, i, m, n) ELSE Lower(b, i - m, m, n)
    BY DEF Staged
<1> HIDE DEF x
<1>2. x \in [0 .. n - 1 -> Pairs]
    BY StagedPairs DEF x
<1>3. ASSUME NEW i \in 0 .. n - 1, i % (2 * m) < m, i % m > 0
      PROVE  x[Mirror(i, 2 * m)] = Conj(x[i])
    <2>1. /\ Mirror(i, m) \in 0 .. n - 1 /\ Mirror(i, m) % (2 * m) < m
          /\ Mirror(i, 2 * m) = Mirror(i, m) + m
        BY <1>3, MirrorPlaces
    <2>2. Mirror(i, m) + m \in 0 .. n - 1 /\ (Mirror(i, m) + m) % (2 * m) >= m
        BY <2>1, UpperPlaces
    <2>3. (Mirror(i, m) + m) - m = Mirror(i, m)
        BY <2>1 DEF Stage
    <2>4. ~((Mirror(i, m) + m) % (2 * m) < m)
        BY <2>2 DEF Stage
    <2>5. x[Mirror(i, m) + m] = Lower(b, Mirror(i, m), m, n)
        BY <1>1, <2>2, <2>3, <2>4
    <2>6. x[i] = Upper(b, i, m, n)
        BY <1>1, <1>3
    <2> QED
        BY <1>3, <2>1, <2>5, <2>6, ConjugatesMeet
<1>4. ASSUME NEW i \in 0 .. n - 1, i % (2 * m) < m, i % m = 0
      PROVE  x[Mirror(i, 2 * m)] = Conj(x[i]) /\ x[Mirror(i + m, 2 * m)] = Conj(x[i + m])
    <2>1. Mirror(i, 2 * m) = i /\ Mirror(i + m, 2 * m) = i + m
        BY <1>4, FirstPlaces
    <2>2. i + m \in 0 .. n - 1 /\ (i + m) % (2 * m) >= m
        BY <1>4, UpperPlaces
    <2>3. ~((i + m) % (2 * m) < m) /\ (i + m) - m = i
        BY <2>2 DEF Stage
    <2>4. x[i] = Upper(b, i, m, n) /\ x[i + m] = Lower(b, i, m, n)
        BY <1>1, <1>4, <2>2, <2>3
    <2> QED
        BY <1>4, <2>1, <2>4, RealsMeet
<1>5. ASSUME NEW i \in 0 .. n - 1
      PROVE  x[Mirror(i, 2 * m)] = Conj(x[i])
    <2>0. i % m = 0 \/ i % m > 0
        BY DEF Stage
    <2>1. CASE i % (2 * m) < m
        BY <1>3, <1>4, <2>0, <2>1
    <2>2. CASE ~(i % (2 * m) < m) /\ i % m = 0
        <3>1. i - m \in 0 .. n - 1 /\ (i - m) % (2 * m) < m /\ (i - m) % m = 0
            BY <2>2, LowerPlaces
        <3>2. (i - m) + m = i
            BY DEF Stage
        <3> QED
            BY <1>4, <3>1, <3>2
    <2>3. CASE ~(i % (2 * m) < m) /\ i % m > 0
        <3>1. PICK j \in 0 .. n - 1 :
                j % (2 * m) < m /\ j % m > 0 /\ Mirror(j, 2 * m) = i /\ Mirror(i, 2 * m) = j
            BY <2>3, LowerMirrored
        <3>2. x[i] = Conj(x[j])
            BY <1>3, <3>1
        <3>3. x[j] \in Pairs
            BY <1>2
        <3>4. Conj(Conj(x[j])) = x[j]
            BY <3>3 DEF Conj, Pairs
        <3> QED
            BY <3>1, <3>2, <3>4
    <2> QED
        BY <2>0, <2>1, <2>2, <2>3
<1> QED
    BY <1>5 DEF Mirrored, x

(***************************************************************************)
(* The loops: butterflies in place are the stage out of place.             *)
(***************************************************************************)

\* The points that a stage has passed when it comes to pair k of the block at lo.
Taken(i, m, lo, k) == i < lo \/ (i < lo + 2 * m /\ i % m < k)

\* A stage comes to pair k of the block at lo.
PairAt(m, n, lo, k) ==
    /\ lo \in Nat /\ lo % (2 * m) = 0 /\ lo + 2 * m <= n
    /\ k \in Nat /\ k < m

\* The pair has not been passed;
LEMMA PairPlaces ==
    ASSUME NEW m, NEW n, Stage(m, n), NEW lo, NEW k, PairAt(m, n, lo, k)
    PROVE  /\ lo + k \in 0 .. n - 1 /\ lo + k + m \in 0 .. n - 1
           /\ (lo + k) % (2 * m) < m /\ (lo + k) % m = k
           /\ (lo + k + m) % (2 * m) >= m /\ lo + k + m - m = lo + k
           /\ ~Taken(lo + k, m, lo, k) /\ ~Taken(lo + k + m, m, lo, k)
           /\ lo + k # lo + k + m
<1>1. CASE m = 1
    BY <1>1, SMTT(30) DEF Stage, Block!Sizes, PairAt, Taken
<1>2. CASE m = 2
    BY <1>2, SMTT(30) DEF Stage, Block!Sizes, PairAt, Taken
<1>3. CASE m = 4
    BY <1>3, SMTT(30) DEF Stage, Block!Sizes, PairAt, Taken
<1>4. CASE m = 8
    BY <1>4, SMTT(30) DEF Stage, Block!Sizes, PairAt, Taken
<1> QED
    BY <1>1, <1>2, <1>3, <1>4 DEF Stage

\* with it passed, the stage has come to the next pair, block or stage.
LEMMA PairTaken ==
    ASSUME NEW m, NEW n, Stage(m, n), NEW lo, NEW k, PairAt(m, n, lo, k), NEW i \in 0 .. n - 1
    PROVE  /\ (Taken(i, m, lo, k) \/ i = lo + k \/ i = lo + k + m) <=> Taken(i, m, lo, k + 1)
           /\ k + 1 = m => (Taken(i, m, lo, k + 1) <=> Taken(i, m, lo + 2 * m, 0))
           /\ k + 1 = m /\ lo + 2 * m = n => Taken(i, m, lo, k + 1)
           /\ ~Taken(i, m, 0, 0)
<1>1. CASE m = 1
    BY <1>1, SMTT(30) DEF Stage, Block!Sizes, PairAt, Taken
<1>2. CASE m = 2
    BY <1>2, SMTT(30) DEF Stage, Block!Sizes, PairAt, Taken
<1>3. CASE m = 4
    BY <1>3, SMTT(30) DEF Stage, Block!Sizes, PairAt, Taken
<1>4. CASE m = 8
    BY <1>4, SMTT(30) DEF Stage, Block!Sizes, PairAt, Taken
<1> QED
    BY <1>1, <1>2, <1>3, <1>4 DEF Stage

\* Where the loops go.
LEMMA NextAt ==
    ASSUME NEW m, NEW n, Stage(m, n), NEW lo, NEW k, PairAt(m, n, lo, k)
    PROVE  /\ k + 1 < m => PairAt(m, n, lo, k + 1)
           /\ k + 1 >= m => k + 1 = m
           /\ lo + 2 * m < n => PairAt(m, n, lo + 2 * m, 0)
           /\ 2 * m <= n \div 2 => Stage(2 * m, n) /\ PairAt(2 * m, n, 0, 0)
           /\ 2 * m <= n \div 2 \/ 2 * m = n
<1>1. CASE m = 1
    BY <1>1, SMTT(30) DEF Stage, Block!Sizes, PairAt
<1>2. CASE m = 2
    BY <1>2, SMTT(30) DEF Stage, Block!Sizes, PairAt
<1>3. CASE m = 4
    BY <1>3, SMTT(30) DEF Stage, Block!Sizes, PairAt
<1>4. CASE m = 8
    BY <1>4, SMTT(30) DEF Stage, Block!Sizes, PairAt
<1> QED
    BY <1>1, <1>2, <1>3, <1>4 DEF Stage

\* Points x are those of a stage over b that has come to pair k of the block at lo.
Underway(x, b, m, n, lo, k) ==
    \A i \in 0 .. n - 1 : x[i] = IF Taken(i, m, lo, k) THEN Staged(b, m, n)[i] ELSE b[i]

\* The butterfly in place, as Radix2 does it.
Paired(x, m, n, lo, k) ==
    LET turned == Block!Rotate(x[lo + k + m], Places(m, n, k), n)
    IN  [x EXCEPT ![lo + k] = Rounded(Block!Fft!Plus(x[lo + k], turned)),
                  ![lo + k + m] = Rounded(Block!Fft!Minus(x[lo + k], turned))]

\* It keeps the points pairs of integers.
LEMMA PairedPairs ==
    ASSUME NEW m, NEW n, Stage(m, n), NEW lo, NEW k, PairAt(m, n, lo, k),
           NEW x \in [0 .. n - 1 -> Pairs]
    PROVE  Paired(x, m, n, lo, k) \in [0 .. n - 1 -> Pairs]
<1>1. /\ lo + k \in 0 .. n - 1 /\ lo + k + m \in 0 .. n - 1
      /\ (lo + k) % (2 * m) < m /\ (lo + k) % m = k
    BY PairPlaces
<1>2. TurnedPoint(x, lo + k, m, n) = Block!Rotate(x[lo + k + m], Places(m, n, k), n)
    BY <1>1 DEF TurnedPoint
<1>3. Paired(x, m, n, lo, k)
        = [x EXCEPT ![lo + k] = Upper(x, lo + k, m, n), ![lo + k + m] = Lower(x, lo + k, m, n)]
    BY <1>2 DEF Paired, Upper, Lower
<1>4. Upper(x, lo + k, m, n) \in Pairs /\ Lower(x, lo + k, m, n) \in Pairs
    BY <1>1, ButterflyPairs
<1> QED
    BY <1>1, <1>3, <1>4

\* One pair more is taken.
LEMMA PairAdvances ==
    ASSUME NEW m, NEW n, Stage(m, n), NEW lo, NEW k, PairAt(m, n, lo, k),
           NEW x \in [0 .. n - 1 -> Pairs], NEW b \in [0 .. n - 1 -> Pairs],
           Underway(x, b, m, n, lo, k)
    PROVE  Underway(Paired(x, m, n, lo, k), b, m, n, lo, k + 1)
<1> DEFINE u == lo + k
           v == lo + k + m
           y == Paired(x, m, n, lo, k)
           s == Staged(b, m, n)
<1>1. /\ u \in 0 .. n - 1 /\ v \in 0 .. n - 1
      /\ u % (2 * m) < m /\ u % m = k
      /\ ~(v % (2 * m) < m) /\ v - m = u
      /\ ~Taken(u, m, lo, k) /\ ~Taken(v, m, lo, k)
      /\ u # v /\ v = u + m
    <2>1. m \in Nat /\ lo \in Nat /\ k \in Nat
        BY DEF Stage, PairAt
    <2> QED
        BY <2>1, PairPlaces
<1>2. x[u] = b[u] /\ x[v] = b[v]
    BY <1>1 DEF Underway
<1>3. s[u] = Upper(b, u, m, n) /\ s[v] = Lower(b, u, m, n)
    BY <1>1 DEF Staged
<1>4. TurnedPoint(b, u, m, n) = Block!Rotate(x[v], Places(m, n, k), n)
    BY <1>1, <1>2 DEF TurnedPoint
<1>5. y = [x EXCEPT ![u] = s[u], ![v] = s[v]]
    BY <1>2, <1>3, <1>4 DEF Paired, Upper, Lower
<1> HIDE DEF y, s
<1>6. ASSUME NEW i \in 0 .. n - 1
      PROVE  y[i] = IF Taken(i, m, lo, k) \/ i = u \/ i = v THEN s[i] ELSE b[i]
    <2>1. x[i] = IF Taken(i, m, lo, k) THEN s[i] ELSE b[i]
        BY DEF Underway, s
    <2> HIDE DEF u, v
    <2> QED
        BY <1>1, <1>5, <2>1
<1>7. ASSUME NEW i \in 0 .. n - 1
      PROVE  y[i] = IF Taken(i, m, lo, k + 1) THEN s[i] ELSE b[i]
    BY <1>6, PairTaken
<1> QED
    BY <1>7 DEF Underway, y, s

(***************************************************************************)
(* The order that the first stage takes the samples in: the sum over a     *)
(* number's digits, added up in any order, stays below the block's size.   *)
(***************************************************************************)

\* What the digit of v of weight b becomes in a number below n whose digits are reversed.
Share(v, n, b) == IF (v \div b) % 2 = 1 THEN n \div (2 * b) ELSE 0

\* g adds up the shares of the weights in S one by one.
Some(s) == CHOOSE x \in s : TRUE
AddsUp(g, v, n, S) ==
    g = [s \in SUBSET S |-> IF s = {} THEN 0 ELSE Share(v, n, Some(s)) + g[s \ {Some(s)}]]

Weights == {1, 2, 4, 8}

Part(a, s, v, n) == IF a \in s THEN Share(v, n, a) ELSE 0
Total(s, v, n) == Part(1, s, v, n) + Part(2, s, v, n) + Part(4, s, v, n) + Part(8, s, v, n)

\* The shares are small,
LEMMA ShareRange ==
    ASSUME NEW v \in Nat, NEW n \in Block!Sizes, NEW b \in Weights
    PROVE  Share(v, n, b) \in Nat /\ Share(v, n, b) <= n \div (2 * b)
BY DEF Share, Block!Sizes, Weights

\* their total is that without any one of them and that one,
LEMMA TotalLess ==
    ASSUME NEW v \in Nat, NEW n \in Block!Sizes, NEW s \in SUBSET Weights, NEW x \in s
    PROVE  Total(s, v, n) = Share(v, n, x) + Total(s \ {x}, v, n)
<1>1. /\ Share(v, n, 1) \in Int /\ Share(v, n, 2) \in Int
      /\ Share(v, n, 4) \in Int /\ Share(v, n, 8) \in Int
    BY ShareRange DEF Weights
<1>2. x \in Weights
    OBVIOUS
<1>3. \A a \in Weights : Part(a, s \ {x}, v, n) = IF a = x THEN 0 ELSE Part(a, s, v, n)
    BY DEF Part
<1>4. Part(x, s, v, n) = Share(v, n, x)
    BY DEF Part
<1>5. \A a \in Weights : Part(a, s, v, n) \in Int
    BY ShareRange DEF Part
<1> QED
    BY <1>1, <1>2, <1>3, <1>4, <1>5 DEF Total, Weights

\* so that totals do add up one by one,
LEMMA SumsExist ==
    ASSUME NEW v \in Nat, NEW n \in Block!Sizes, NEW S \in SUBSET Weights
    PROVE  AddsUp([s \in SUBSET S |-> Total(s, v, n)], v, n, S)
<1> DEFINE g == [s \in SUBSET S |-> Total(s, v, n)]
<1>1. Total({}, v, n) = 0
    BY DEF Total, Part
<1>2. ASSUME NEW s \in SUBSET S, s # {}
      PROVE  g[s] = Share(v, n, Some(s)) + g[s \ {Some(s)}]
    <2>1. Some(s) \in s
        BY <1>2 DEF Some
    <2> QED
        BY <1>2, <2>1, TotalLess
<1>3. ASSUME NEW s \in SUBSET S
      PROVE  g[s] = IF s = {} THEN 0 ELSE Share(v, n, Some(s)) + g[s \ {Some(s)}]
    BY <1>1, <1>2
<1>4. g = [s \in SUBSET S |-> g[s]]
    OBVIOUS
<1> HIDE DEF g
<1>5. g = [s \in SUBSET S |-> IF s = {} THEN 0 ELSE Share(v, n, Some(s)) + g[s \ {Some(s)}]]
    BY <1>3, <1>4
<1> QED
    BY <1>5 DEF AddsUp, g

\* and whatever does is the total: the smallest set that were not would be larger than {}.
LEMMA SumsAreTotals ==
    ASSUME NEW v \in Nat, NEW n \in Block!Sizes, NEW S \in SUBSET Weights, NEW g,
           AddsUp(g, v, n, S)
    PROVE  g[S] = Total(S, v, n)
<1>1. g[{}] = 0 /\ \A s \in SUBSET S :
        s # {} => g[s] = Share(v, n, Some(s)) + g[s \ {Some(s)}]
    <2>1. \A s \in SUBSET S :
            g[s] = IF s = {} THEN 0 ELSE Share(v, n, Some(s)) + g[s \ {Some(s)}]
        BY DEF AddsUp
    <2> QED
        BY <2>1
<1>2. Total({}, v, n) = 0
    BY DEF Total, Part
<1>3. IsFiniteSet(Weights)
    BY FS_BoundedSetOfNaturals DEF Weights
<1>4. \A s \in SUBSET S : IsFiniteSet(s) /\ Cardinality(s) \in Nat
    BY <1>3, FS_Subset, FS_CardinalityType
<1> DEFINE Wrong == {s \in SUBSET S : g[s] # Total(s, v, n)}
           Sizes == {Cardinality(s) : s \in Wrong}
<1> SUFFICES ASSUME Wrong # {} PROVE FALSE
    OBVIOUS
<1>5. PICK s \in Wrong : \A t \in Wrong : Cardinality(s) <= Cardinality(t)
    <2>1. Sizes \subseteq Nat /\ Sizes # {}
        BY <1>4
    <2>2. PICK c \in Sizes : \A k \in Sizes : c <= k
        BY <2>1, LeastNumber
    <2> QED
        BY <2>2
<1>6. s # {}
    BY <1>1, <1>2
<1>7. Some(s) \in s
    BY <1>6 DEF Some
<1>8. s \ {Some(s)} \in SUBSET S /\ Cardinality(s \ {Some(s)}) = Cardinality(s) - 1
    BY <1>4, <1>7, FS_RemoveElement
<1>9. g[s \ {Some(s)}] = Total(s \ {Some(s)}, v, n)
    BY <1>4, <1>5, <1>8
<1>10. g[s] = Total(s, v, n)
    BY <1>1, <1>6, <1>7, <1>9, TotalLess
<1> QED
    BY <1>10

\* The weights of the digits of the numbers below n.
Digits(n) == {2 ^ e : e \in {e \in 0 .. 15 : 2 ^ e < n}}

\* They are the weights below n.
LEMMA DigitWeights ==
    ASSUME NEW n \in Block!Sizes
    PROVE  Digits(n) = {b \in Weights : b < n}
<1>1. ASSUME NEW e \in 0 .. 15
      PROVE  /\ 2 ^ e \in Nat
             /\ 2 ^ e \in {1, 2, 4, 8} \/ 2 ^ e >= 16
    <2>0. CASE e = 0
        BY <2>0
    <2>1. CASE e = 1
        BY <2>1
    <2>2. CASE e = 2
        BY <2>2
    <2>3. CASE e = 3
        BY <2>3
    <2>4. CASE e = 4
        BY <2>4
    <2>5. CASE e = 5
        BY <2>5
    <2>6. CASE e = 6
        BY <2>6
    <2>7. CASE e = 7
        BY <2>7
    <2>8. CASE e = 8
        BY <2>8
    <2>9. CASE e = 9
        BY <2>9
    <2>10. CASE e = 10
        BY <2>10
    <2>11. CASE e = 11
        BY <2>11
    <2>12. CASE e = 12
        BY <2>12
    <2>13. CASE e = 13
        BY <2>13
    <2>14. CASE e = 14
        BY <2>14
    <2>15. CASE e = 15
        BY <2>15
    <2> QED
        BY <2>0, <2>1, <2>2, <2>3, <2>4, <2>5, <2>6, <2>7, <2>8, <2>9, <2>10, <2>11, <2>12,
           <2>13, <2>14, <2>15
<1>2. 2 ^ 0 = 1 /\ 2 ^ 1 = 2 /\ 2 ^ 2 = 4 /\ 2 ^ 3 = 8
    OBVIOUS
<1>3. n <= 16 /\ n \in Nat
    BY DEF Block!Sizes
<1>4. ASSUME NEW b \in Digits(n) PROVE b \in Weights /\ b < n
    <2>1. PICK e \in 0 .. 15 : 2 ^ e < n /\ b = 2 ^ e
        BY <1>4 DEF Digits
    <2> DEFINE w == 2 ^ e
    <2>2. w \in Nat /\ (w \in {1, 2, 4, 8} \/ w >= 16) /\ w < n /\ b = w
        BY <1>1, <2>1
    <2> HIDE DEF w
    <2>3. w \in {1, 2, 4, 8}
        BY <1>3, <2>2
    <2> QED
        BY <2>2, <2>3 DEF Weights
<1>5. ASSUME NEW b \in Weights, b < n PROVE b \in Digits(n)
    <2>1. \E e \in 0 .. 15 : b = 2 ^ e
        BY <1>2 DEF Weights
    <2> QED
        BY <1>5, <2>1 DEF Digits
<1> QED
    BY <1>4, <1>5

\* Reversed digits are the place of a sample.
LEMMA ReversedBelow ==
    ASSUME NEW n \in Block!Sizes, NEW v \in 0 .. n - 1
    PROVE  Block!BitReverse(v, n) \in 0 .. n - 1
<1> DEFINE S == Digits(n)
           g == CHOOSE g : AddsUp(g, v, n, S)
<1>1. v \in Nat
    BY DEF Block!Sizes
<1>2. S \in SUBSET Weights
    BY DigitWeights
<1>3. Block!BitReverse(v, n) = g[S]
    BY DEF Block!BitReverse, Block!MapThenSumSet, Block!MapThenFoldSet, Digits, AddsUp, Share, Some
<1> HIDE DEF S
<1>4. AddsUp(g, v, n, S)
    BY <1>1, <1>2, SumsExist
<1>5. g[S] = Total(S, v, n)
    BY <1>1, <1>2, <1>4, SumsAreTotals
<1>6. \A a \in Weights : Part(a, S, v, n) \in Nat
                         /\ Part(a, S, v, n) <= IF a < n THEN n \div (2 * a) ELSE 0
    <2> SUFFICES ASSUME NEW a \in Weights
                 PROVE  Part(a, S, v, n) \in Nat
                        /\ Part(a, S, v, n) <= IF a < n THEN n \div (2 * a) ELSE 0
        OBVIOUS
    <2>1. a \in S <=> a < n
        BY DigitWeights DEF S
    <2>2. Share(v, n, a) \in Nat /\ Share(v, n, a) <= n \div (2 * a)
        BY <1>1, ShareRange
    <2>3. n \div (2 * a) \in Int
        BY DEF Weights, Block!Sizes
    <2> QED
        BY <2>1, <2>2 DEF Part
<1>7. Total(S, v, n) \in Nat /\ Total(S, v, n) < n
    BY <1>6 DEF Total, Weights, Block!Sizes
<1> QED
    BY <1>3, <1>5, <1>7 DEF Block!Sizes

(***************************************************************************)
(* What a block is computed from and through is pairs of integers.         *)
(***************************************************************************)

\* The number of a block's points.
LEMMA BlockSize ==
    ASSUME NEW n \in Block!Sizes
    PROVE  Block!Cardinality(0 .. n - 1) = n /\ Block!Fft!Cardinality(0 .. n - 1) = n
<1>1. n \in Nat /\ n > 0
    BY DEF Block!Sizes
<1>2. Cardinality(0 .. n - 1) = n
    BY <1>1, FS_Interval
<1>3. Block!Cardinality(0 .. n - 1) = Cardinality(0 .. n - 1)
    BY DEF Block!Cardinality, Cardinality
<1>4. Block!Fft!Cardinality(0 .. n - 1) = Cardinality(0 .. n - 1)
    BY DEF Block!Fft!Cardinality, Cardinality
<1> QED
    BY <1>2, <1>3, <1>4

\* The permutation moves whole samples.
LEMMA PermutedPairs ==
    ASSUME NEW n \in Block!Sizes, NEW x \in [0 .. n - 1 -> Pairs]
    PROVE  /\ Block!Permuted(x) \in [0 .. n - 1 -> Pairs]
           /\ Reals(x) => Reals(Block!Permuted(x))
<1>1. Block!Permuted(x) = [i \in 0 .. n - 1 |-> x[Block!BitReverse(i, n)]]
    <2>1. DOMAIN x = 0 .. n - 1
        OBVIOUS
    <2> QED
        BY <2>1, BlockSize DEF Block!Permuted
<1> QED
    BY <1>1, ReversedBelow DEF Reals

\* A block without imaginary parts is mirrored in blocks of one.
LEMMA RealsMirror ==
    ASSUME NEW n \in Block!Sizes, NEW x \in [0 .. n - 1 -> Pairs], Reals(x)
    PROVE  Mirrored(x, 1, n)
<1> SUFFICES ASSUME NEW i \in 0 .. n - 1 PROVE x[Mirror(i, 1)] = Conj(x[i])
    BY DEF Mirrored
<1>1. i % 1 = 0
    BY DEF Block!Sizes
<1>2. x[i] \in Pairs /\ x[i][2] = 0
    BY DEF Reals
<1> QED
    BY <1>1, <1>2 DEF Mirror, Conj, Pairs

\* Clamps, conjugates and products of points.
LEMMA ClampedInt ==
    ASSUME NEW v \in Int
    PROVE  Block!Clamp24(v) \in Int
BY Width DEF Block!Clamp24

LEMMA ClampedPairs ==
    ASSUME NEW n \in Block!Sizes, NEW x \in [0 .. n - 1 -> Pairs]
    PROVE  Block!Clamped(x) \in [0 .. n - 1 -> Pairs]
<1>1. ASSUME NEW i \in 0 .. n - 1
      PROVE  <<Block!Clamp24(x[i][1]), Block!Clamp24(x[i][2])>> \in Pairs
    <2>1. x[i][1] \in Int /\ x[i][2] \in Int
        BY DEF Pairs
    <2> QED
        BY <2>1, ClampedInt DEF Pairs
<1> QED
    BY <1>1 DEF Block!Clamped

LEMMA ConjugatedPairs ==
    ASSUME NEW n \in Block!Sizes, NEW x \in [0 .. n - 1 -> Pairs]
    PROVE  Block!Conjugated(x) \in [0 .. n - 1 -> Pairs]
<1>1. ASSUME NEW i \in 0 .. n - 1
      PROVE  <<x[i][1], -x[i][2]>> \in Pairs
    <2>1. x[i][1] \in Int /\ x[i][2] \in Int
        BY DEF Pairs
    <2> QED
        BY <2>1 DEF Pairs
<1> QED
    BY <1>1 DEF Block!Conjugated

LEMMA MultipliedPairs ==
    ASSUME NEW n \in Block!Sizes, NEW x \in [0 .. n - 1 -> Pairs], NEW h \in [0 .. n - 1 -> Pairs]
    PROVE  Block!SpectralMultiply(x, h) \in [0 .. n - 1 -> Pairs]
<1> DEFINE Product(a, c) ==
            <<Block!Clamp24(Block!Rhe(a[1] * c[1] - a[2] * c[2], Block!TableFrac)),
              Block!Clamp24(Block!Rhe(a[1] * c[2] + a[2] * c[1], Block!TableFrac))>>
<1>1. ASSUME NEW a \in Pairs, NEW c \in Pairs
      PROVE  Product(a, c) \in Pairs
    <2>1. a[1] \in Int /\ a[2] \in Int /\ c[1] \in Int /\ c[2] \in Int
        BY DEF Pairs
    <2>2. a[1] * c[1] - a[2] * c[2] \in Int /\ a[1] * c[2] + a[2] * c[1] \in Int
        BY <2>1
    <2>3. /\ Block!Rhe(a[1] * c[1] - a[2] * c[2], 15) \in Int
          /\ Block!Rhe(a[1] * c[2] + a[2] * c[1], 15) \in Int
        BY <2>2, RoundsWide
    <2> QED
        BY <2>3, ClampedInt DEF Pairs, Block!TableFrac
<1>2. Block!SpectralMultiply(x, h) = [i \in 0 .. n - 1 |-> Product(x[i], h[i])]
    BY DEF Block!SpectralMultiply
<1> HIDE DEF Product
<1> QED
    BY <1>1, <1>2

\* modReLU, point by point.
LEMMA ReluPoints ==
    ASSUME NEW n \in Block!Sizes, NEW x \in [0 .. n - 1 -> Pairs], NEW b, NEW e
    PROVE  Block!ModRelu(x, b, e) = [i \in 0 .. n - 1 |-> Left(x[i], b, e)]
BY DEF Block!ModRelu, Left, Block!TableFrac

(***************************************************************************)
(* The block.                                                              *)
(***************************************************************************)

\* The loops are somewhere in the stage that makes blocks of 2 * m out of b, the points as
\* the stage before left them, or past the last stage.
StageUnderway(n, m, b) ==
    /\ input \in [0 .. n - 1 -> Pairs] /\ points \in [0 .. n - 1 -> Pairs]
    /\ b \in [0 .. n - 1 -> Pairs] /\ span = 2 * m
    /\ Reals(input) => Mirrored(b, m, n)
    /\ \/ Stage(m, n) /\ PairAt(m, n, base, offset) /\ Underway(points, b, m, n, base, offset)
       \/ m = n /\ points = b /\ base = 0 /\ offset = 0

\* Half the spans of the stages, and of the one past the last.
HalfSpans == {1, 2, 4, 8, 16}

\* The inductive invariant of a block: in both transforms the points are those of a stage
\* under way over some earlier points that were mirrored if the block is real, and after
\* modReLU they are what it left of its input.
BlockInv ==
    \E n \in Block!Sizes :
        /\ table \in [0 .. n - 1 -> Pairs] /\ threshold \in Int
        /\ pass \in {"forward", "inverse", "done"}
        /\ pass # "done" =>
            \E m \in HalfSpans : \E b \in [0 .. n - 1 -> Pairs] : StageUnderway(n, m, b)
        /\ pass = "done" =>
            /\ input \in [0 .. n - 1 -> Pairs]
            /\ \E e \in {1, 2, 3, 4} :
                2 ^ e = n /\ points = [i \in 0 .. n - 1 |-> Left(input[i], threshold, e)]

\* The size and the half span of such a stage.
LEMMA LoopSize ==
    ASSUME NEW n \in Block!Sizes, NEW m \in HalfSpans, NEW b, StageUnderway(n, m, b)
    PROVE  Block!Fft!size = n /\ Block!Fft!half = m
<1>1. Block!Fft!size = n
    <2>1. DOMAIN input = 0 .. n - 1
        BY DEF StageUnderway
    <2> QED
        BY <2>1, BlockSize DEF Block!Fft!size, Block!Fft!Size
<1>2. Block!Fft!half = m
    BY DEF StageUnderway, Block!Fft!half, HalfSpans
<1> QED
    BY <1>1, <1>2

\* The exponent of a block.
LEMMA ExponentOf ==
    ASSUME NEW n \in Block!Sizes, Block!Fft!size = n
    PROVE  Block!Exponent \in {1, 2, 3, 4} /\ 2 ^ Block!Exponent = n
<1> DEFINE IsExponent(e) == e \in 0 .. 15 /\ 2 ^ e = n
<1>1. \E e \in 0 .. 15 : 2 ^ e = n
    <2>1. 2 ^ 1 = 2 /\ 2 ^ 2 = 4 /\ 2 ^ 3 = 8 /\ 2 ^ 4 = 16
        OBVIOUS
    <2> QED
        BY <2>1 DEF Block!Sizes
<1>2. Block!Exponent \in 0 .. 15 /\ 2 ^ Block!Exponent = n
    BY <1>1 DEF Block!Exponent
<1>3. ASSUME NEW e \in 0 .. 15, 2 ^ e = n PROVE e \in {1, 2, 3, 4}
    <2>1. e \in {0, 5, 6, 7, 8, 9, 10, 11, 12, 13, 14, 15} => FALSE
        <3>0. CASE e = 0
            BY <1>3, <3>0 DEF Block!Sizes
        <3>5. CASE e = 5
            BY <1>3, <3>5 DEF Block!Sizes
        <3>6. CASE e = 6
            BY <1>3, <3>6 DEF Block!Sizes
        <3>7. CASE e = 7
            BY <1>3, <3>7 DEF Block!Sizes
        <3>8. CASE e = 8
            BY <1>3, <3>8 DEF Block!Sizes
        <3>9. CASE e = 9
            BY <1>3, <3>9 DEF Block!Sizes
        <3>10. CASE e = 10
            BY <1>3, <3>10 DEF Block!Sizes
        <3>11. CASE e = 11
            BY <1>3, <3>11 DEF Block!Sizes
        <3>12. CASE e = 12
            BY <1>3, <3>12 DEF Block!Sizes
        <3>13. CASE e = 13
            BY <1>3, <3>13 DEF Block!Sizes
        <3>14. CASE e = 14
            BY <1>3, <3>14 DEF Block!Sizes
        <3>15. CASE e = 15
            BY <1>3, <3>15 DEF Block!Sizes
        <3> QED
            BY <3>0, <3>5, <3>6, <3>7, <3>8, <3>9, <3>10, <3>11, <3>12, <3>13, <3>14, <3>15
    <2> QED
        BY <2>1
<1> QED
    BY <1>2, <1>3

\* A block starts with the stage that makes pairs of single samples.
LEMMA BlockInitial == Block!Start => BlockInv
<1> SUFFICES ASSUME Block!Start PROVE BlockInv
    OBVIOUS
<1>1. PICK n \in Block!Sizes : input \in [0 .. n - 1 -> Pairs]
    BY BlockAssumption DEF Block!OperandsAssumption, Block!Start, Block!Fft!Init, Pairs
<1>2. Block!Fft!size = n
    <2>1. DOMAIN input = 0 .. n - 1
        BY <1>1
    <2> QED
        BY <2>1, BlockSize DEF Block!Fft!size, Block!Fft!Size
<1>3. table \in [0 .. n - 1 -> Pairs] /\ threshold \in Int
    BY <1>2, BlockAssumption DEF Block!OperandsAssumption, Block!Start, Pairs
<1>4. points = Block!Permuted(input) /\ span = 2 /\ base = 0 /\ offset = 0 /\ pass = "forward"
    BY DEF Block!Start, Block!Fft!Init
<1>5. points \in [0 .. n - 1 -> Pairs] /\ (Reals(input) => Reals(points))
    BY <1>1, <1>4, PermutedPairs
<1>6. Reals(input) => Mirrored(points, 1, n)
    BY <1>5, RealsMirror
<1>7. Stage(1, n) /\ PairAt(1, n, 0, 0)
    BY DEF Stage, PairAt, Block!Sizes
<1>8. Underway(points, points, 1, n, 0, 0)
    BY <1>7, PairTaken DEF Underway
<1>9. StageUnderway(n, 1, points)
    BY <1>1, <1>4, <1>5, <1>6, <1>7, <1>8 DEF StageUnderway
<1> QED
    BY <1>3, <1>4, <1>5, <1>9 DEF BlockInv, HalfSpans

\* A butterfly of Radix2 is the butterfly in place of the stage it is in.
LEMMA ButterflyInPlace ==
    ASSUME NEW n \in Block!Sizes, NEW m \in HalfSpans, NEW b, StageUnderway(n, m, b),
           Block!Fft!Butterfly
    PROVE  /\ Stage(m, n) /\ PairAt(m, n, base, offset) /\ Underway(points, b, m, n, base, offset)
           /\ points' = Paired(points, m, n, base, offset)
           /\ input' = input
<1>1. Block!Fft!size = n /\ Block!Fft!half = m
    BY LoopSize
<1>2. span = 2 * m /\ span <= n /\ input' = input
    BY <1>1 DEF StageUnderway, Block!Fft!Butterfly
<1>3. m # n
    BY <1>2 DEF HalfSpans
<1>4. Stage(m, n) /\ PairAt(m, n, base, offset) /\ Underway(points, b, m, n, base, offset)
    BY <1>3 DEF StageUnderway
<1>5. Block!Fft!TwiddleIndex = Places(m, n, offset)
    BY <1>1, <1>2 DEF Block!Fft!TwiddleIndex, Places
<1>6. points' = Paired(points, m, n, base, offset)
    BY <1>1, <1>5 DEF Block!Fft!Butterfly, Paired, Rounded
<1> QED
    BY <1>2, <1>4, <1>6

\* The next pair, block or stage is under way after it; the next stage over a whole stage.
LEMMA ButterflyLoops ==
    ASSUME NEW n \in Block!Sizes, NEW m \in HalfSpans, NEW b, StageUnderway(n, m, b), Block!Fft!Next
    PROVE  \E k \in HalfSpans : \E c \in [0 .. n - 1 -> Pairs] : StageUnderway(n, k, c)'
<1>1. Block!Fft!size = n /\ Block!Fft!half = m
    BY LoopSize
<1>2. Block!Fft!Butterfly
    BY DEF Block!Fft!Next, Block!Fft!NextPair, Block!Fft!NextBlock, Block!Fft!NextStage
<1>3. /\ Stage(m, n) /\ PairAt(m, n, base, offset) /\ Underway(points, b, m, n, base, offset)
      /\ points' = Paired(points, m, n, base, offset)
      /\ input' = input
    BY <1>2, ButterflyInPlace
<1>4. /\ input \in [0 .. n - 1 -> Pairs] /\ points \in [0 .. n - 1 -> Pairs]
      /\ b \in [0 .. n - 1 -> Pairs] /\ span = 2 * m
      /\ Reals(input) => Mirrored(b, m, n)
    BY DEF StageUnderway
<1>5. points' \in [0 .. n - 1 -> Pairs]
    BY <1>3, <1>4, PairedPairs
<1>6. Underway(points', b, m, n, base, offset + 1)
    BY <1>3, <1>4, PairAdvances
<1>7. CASE Block!Fft!NextPair
    <2>1. offset + 1 < m /\ offset' = offset + 1 /\ span' = span /\ base' = base
        BY <1>1, <1>7 DEF Block!Fft!NextPair
    <2>2. PairAt(m, n, base, offset + 1)
        BY <1>3, <2>1, NextAt
    <2>3. StageUnderway(n, m, b)'
        BY <1>3, <1>4, <1>5, <1>6, <2>1, <2>2 DEF StageUnderway
    <2> QED
        BY <1>4, <2>3
<1>8. CASE Block!Fft!NextBlock
    <2>1. /\ offset + 1 = m /\ base + 2 * m < n
          /\ offset' = 0 /\ span' = span /\ base' = base + 2 * m
        BY <1>1, <1>4, <1>8 DEF Block!Fft!NextBlock
    <2>2. PairAt(m, n, base + 2 * m, 0)
        BY <1>3, <2>1, NextAt
    <2>3. Underway(points', b, m, n, base + 2 * m, 0)
        BY <1>3, <1>6, <2>1, PairTaken DEF Underway
    <2>4. StageUnderway(n, m, b)'
        BY <1>3, <1>4, <1>5, <2>1, <2>2, <2>3 DEF StageUnderway
    <2> QED
        BY <1>4, <2>4
<1>9. CASE Block!Fft!NextStage
    <2>1. /\ offset + 1 = m /\ base + 2 * m = n
          /\ offset' = 0 /\ span' = 2 * (2 * m) /\ base' = 0
        BY <1>1, <1>4, <1>9 DEF Block!Fft!NextStage
    <2> DEFINE c == Staged(b, m, n)
    <2>2. c \in [0 .. n - 1 -> Pairs]
        BY <1>3, <1>4, StagedPairs
    <2>3. Reals(input) => Mirrored(c, 2 * m, n)
        BY <1>3, <1>4, StagesMirror
    <2>4. \A i \in 0 .. n - 1 : points'[i] = c[i]
        BY <1>3, <1>6, <2>1, PairTaken DEF Underway
    <2> HIDE DEF c
    <2>5. points' = c
        <3>1. points' = [i \in 0 .. n - 1 |-> points'[i]]
            BY <1>5
        <3>2. c = [i \in 0 .. n - 1 |-> c[i]]
            BY <2>2
        <3> QED
            BY <2>4, <3>1, <3>2, Zenon
    <2>6. /\ 2 * m <= n \div 2 => Stage(2 * m, n) /\ PairAt(2 * m, n, 0, 0)
          /\ 2 * m <= n \div 2 \/ 2 * m = n
        BY <1>3, NextAt
    <2>7. Stage(2 * m, n) => Underway(points', c, 2 * m, n, 0, 0)
        <3> SUFFICES ASSUME Stage(2 * m, n), PairAt(2 * m, n, 0, 0)
                     PROVE  Underway(points', c, 2 * m, n, 0, 0)
            BY <2>6 DEF Stage, Block!Sizes, PairAt
        <3>1. \A i \in 0 .. n - 1 : ~Taken(i, 2 * m, 0, 0)
            BY PairTaken
        <3> QED
            BY <2>4, <3>1 DEF Underway
    <2>8. 2 * m \in HalfSpans
        BY <1>3 DEF Stage, HalfSpans
    <2>9. StageUnderway(n, 2 * m, c)'
        BY <1>3, <1>4, <1>5, <2>1, <2>2, <2>3, <2>5, <2>6, <2>7 DEF StageUnderway
    <2> QED
        BY <2>2, <2>8, <2>9
<1> QED
    BY <1>7, <1>8, <1>9 DEF Block!Fft!Next

\* Every step keeps the invariant.
LEMMA BlockSteps == BlockInv /\ Block!Step => BlockInv'
<1> SUFFICES ASSUME BlockInv, Block!Step PROVE BlockInv'
    OBVIOUS
<1>1. PICK n \in Block!Sizes :
        /\ table \in [0 .. n - 1 -> Pairs] /\ threshold \in Int
        /\ pass \in {"forward", "inverse", "done"}
        /\ pass # "done" =>
            \E m \in HalfSpans : \E b \in [0 .. n - 1 -> Pairs] : StageUnderway(n, m, b)
    BY DEF BlockInv
<1>2. pass # "done"
    BY DEF Block!Step, Block!Butterfly, Block!Multiply, Block!Activate
<1>3. table' = table /\ threshold' = threshold
    BY DEF Block!Step, Block!Butterfly, Block!Multiply, Block!Activate, Block!operands
<1>4. PICK m \in HalfSpans, b \in [0 .. n - 1 -> Pairs] : StageUnderway(n, m, b)
    BY <1>1, <1>2
<1>5. Block!Fft!size = n
    BY <1>4, LoopSize
<1>6. points \in [0 .. n - 1 -> Pairs]
    BY <1>4 DEF StageUnderway
<1>7. Block!Clamped(points) \in [0 .. n - 1 -> Pairs]
    BY <1>6, ClampedPairs
<1>8. CASE Block!Butterfly
    <2>1. \E k \in HalfSpans : \E c \in [0 .. n - 1 -> Pairs] : StageUnderway(n, k, c)'
        BY <1>4, <1>8, ButterflyLoops DEF Block!Butterfly
    <2>2. pass' = pass
        BY <1>8 DEF Block!Butterfly
    <2> QED
        BY <1>1, <1>2, <1>3, <2>1, <2>2 DEF BlockInv
<1>9. CASE Block!Multiply
    <2>1. /\ input' = Block!Conjugated(Block!SpectralMultiply(Block!Clamped(points), table))
          /\ points' = Block!Permuted(input')
          /\ span' = 2 /\ base' = 0 /\ offset' = 0 /\ pass' = "inverse"
        BY <1>9 DEF Block!Multiply, Block!IntoInverse
    <2>2. input' \in [0 .. n - 1 -> Pairs]
        BY <1>1, <1>7, <2>1, MultipliedPairs, ConjugatedPairs
    <2>3. points' \in [0 .. n - 1 -> Pairs] /\ (Reals(input') => Reals(points'))
        BY <2>1, <2>2, PermutedPairs
    <2>4. PICK c \in [0 .. n - 1 -> Pairs] : c = points'
        BY <2>3
    <2>5. Reals(input') => Mirrored(c, 1, n)
        BY <2>3, <2>4, RealsMirror
    <2>6. Stage(1, n) /\ PairAt(1, n, 0, 0)
        BY DEF Stage, PairAt, Block!Sizes
    <2>7. Underway(points', c, 1, n, 0, 0)
        BY <2>4, <2>6, PairTaken DEF Underway
    <2>8. StageUnderway(n, 1, c)'
        BY <2>1, <2>2, <2>3, <2>5, <2>6, <2>7 DEF StageUnderway
    <2> QED
        BY <1>1, <1>3, <2>1, <2>8 DEF BlockInv, HalfSpans
<1>10. CASE Block!Activate
    <2>1. /\ input' = Block!Conjugated(Block!Clamped(points))
          /\ points' = Block!ModRelu(input', threshold, Block!Exponent)
          /\ pass' = "done"
        BY <1>10 DEF Block!Activate
    <2>2. input' \in [0 .. n - 1 -> Pairs]
        BY <1>7, <2>1, ConjugatedPairs
    <2>3. PICK e \in {1, 2, 3, 4} : e = Block!Exponent /\ 2 ^ e = n
        BY <1>5, ExponentOf
    <2>4. points' = [i \in 0 .. n - 1 |-> Left(input'[i], threshold', e)]
        BY <1>3, <2>1, <2>2, <2>3, ReluPoints
    <2> QED
        BY <1>1, <1>3, <2>1, <2>2, <2>3, <2>4 DEF BlockInv
<1> QED
    BY <1>8, <1>9, <1>10 DEF Block!Step

LEMMA BlockStays == BlockInv /\ UNCHANGED Block!blockVars => BlockInv'
BY DEF BlockInv, StageUnderway, Block!blockVars, Block!operands

\* Mirrored, as the property says it.
LEMMA MirrorOf ==
    ASSUME NEW n \in Block!Sizes, NEW m \in HalfSpans, m <= n,
           NEW q \in 0 .. (n \div m) - 1, NEW k \in 0 .. m - 1
    PROVE  /\ q * m + (k % m) \in 0 .. n - 1
           /\ Mirror(q * m + (k % m), m) = q * m + ((m - k) % m)
<1>1. CASE m = 1
    BY <1>1, SMTT(30) DEF Block!Sizes, Mirror
<1>2. CASE m = 2
    BY <1>2, SMTT(30) DEF Block!Sizes, Mirror
<1>3. CASE m = 4
    BY <1>3, SMTT(30) DEF Block!Sizes, Mirror
<1>4. CASE m = 8
    BY <1>4, SMTT(30) DEF Block!Sizes, Mirror
<1>5. CASE m = 16
    BY <1>5, SMTT(30) DEF Block!Sizes, Mirror
<1> QED
    BY <1>1, <1>2, <1>3, <1>4, <1>5 DEF HalfSpans

\* What the invariant shows between two stages, and at the end.
LEMMA LoopsSymmetric == BlockInv => Block!RealBlocksAreSymmetric
<1> SUFFICES ASSUME BlockInv, pass # "done", base = 0, offset = 0, Reals(input),
                    NEW q \in 0 .. (Block!Fft!size \div Block!Fft!half) - 1,
                    NEW k \in 0 .. Block!Fft!half - 1
             PROVE  LET m == Block!Fft!half
                    IN  points[q * m + ((m - k) % m)]
                            = <<points[q * m + (k % m)][1], -points[q * m + (k % m)][2]>>
    BY DEF Block!RealBlocksAreSymmetric, Reals
<1>0. PICK n \in Block!Sizes :
        \E m \in HalfSpans : \E b \in [0 .. n - 1 -> Pairs] : StageUnderway(n, m, b)
    BY DEF BlockInv
<1>1. PICK m \in HalfSpans, b \in [0 .. n - 1 -> Pairs] : StageUnderway(n, m, b)
    BY <1>0
<1>2. Block!Fft!size = n /\ Block!Fft!half = m
    BY <1>1, LoopSize
<1>3. Mirrored(b, m, n) /\ points \in [0 .. n - 1 -> Pairs]
    BY <1>1 DEF StageUnderway
<1>4. \A i \in 0 .. n - 1 : points[i] = b[i]
    <2>1. CASE Stage(m, n) /\ PairAt(m, n, base, offset) /\ Underway(points, b, m, n, base, offset)
        BY <2>1, PairTaken DEF Underway
    <2>2. CASE points = b
        BY <2>2
    <2> QED
        BY <1>1, <2>1, <2>2 DEF StageUnderway
<1>5. points = b
    <2>1. points = [i \in 0 .. n - 1 |-> points[i]]
        BY <1>3
    <2>2. b = [i \in 0 .. n - 1 |-> b[i]]
        OBVIOUS
    <2> QED
        BY <1>4, <2>1, <2>2, Zenon
<1>6. m <= n
    BY <1>1 DEF StageUnderway, Stage, Block!Sizes
<1>7. /\ q * m + (k % m) \in 0 .. n - 1
      /\ Mirror(q * m + (k % m), m) = q * m + ((m - k) % m)
    BY <1>2, <1>6, MirrorOf
<1> QED
    BY <1>2, <1>3, <1>5, <1>7 DEF Mirrored, Conj

LEMMA LeftShort == BlockInv => Block!ReluShortens
<1> SUFFICES ASSUME BlockInv, pass = "done", NEW i \in DOMAIN points
             PROVE  Shortened(input[i], points[i], threshold, Block!Fft!size)
    BY DEF Block!ReluShortens, Shortened
<1>1. PICK n \in Block!Sizes, e \in {1, 2, 3, 4} :
        /\ threshold \in Int /\ input \in [0 .. n - 1 -> Pairs] /\ 2 ^ e = n
        /\ points = [j \in 0 .. n - 1 |-> Left(input[j], threshold, e)]
    BY DEF BlockInv
<1>2. Block!Fft!size = n
    <2>1. DOMAIN input = 0 .. n - 1
        BY <1>1
    <2> QED
        BY <2>1, BlockSize DEF Block!Fft!size, Block!Fft!Size
<1>3. i \in 0 .. n - 1 /\ points[i] = Left(input[i], threshold, e) /\ input[i] \in Int \X Int
    BY <1>1 DEF Pairs
<1> QED
    BY <1>1, <1>2, <1>3, PointShortened

\* Golden-arithmetic v1, for components of any width, any block of up to RomSize samples,
\* any bank and any threshold: between two stages, forward and back, the transform of a real
\* block is conjugate symmetric in every bit, and modReLU changes no component's sign,
\* lengthens none without a positive threshold, and decides which points are gone as in the
\* unscaled block, but for those too near the threshold.
THEOREM BlocksExactlyRounded ==
    Block!BlockSpec => [](Block!RealBlocksAreSymmetric /\ Block!ReluShortens)
<1>1. BlockInv /\ [Block!Step]_Block!blockVars => BlockInv'
    BY BlockSteps, BlockStays
<1> QED
    BY <1>1, BlockInitial, LoopsSymmetric, LeftShort, PTL DEF Block!BlockSpec

\* The scenes of the run.
SceneInv == scene = "block" => BlockInv

\* The same in every scene of the run.
THEOREM ScenesBlocksExact == MCSpec => []BlocksExact
<1>1. MCInit => SceneInv
    BY BlockInitial DEF MCInit, SceneInv
<1>2. SceneInv /\ [MCNext]_sceneVars => SceneInv'
    <2> SUFFICES ASSUME SceneInv, [MCNext]_sceneVars PROVE SceneInv'
        OBVIOUS
    <2>1. CASE scene = "block" /\ Block!Step /\ UNCHANGED <<vars, checksum, scene>>
        BY <2>1, BlockSteps DEF SceneInv
    <2>2. CASE UNCHANGED sceneVars
        <3>1. UNCHANGED Block!blockVars /\ scene' = scene
            BY <2>2 DEF sceneVars, transform, block, Block!blockVars, Block!operands
        <3> QED
            BY <3>1, BlockStays DEF SceneInv
    <2>3. CASE scene # "block" /\ scene' = scene
        BY <2>3 DEF SceneInv
    <2> QED
        BY <2>1, <2>2, <2>3 DEF MCNext
<1>3. SceneInv => BlocksExact
    BY LoopsSymmetric, LeftShort DEF SceneInv, BlocksExact
<1> QED
    BY <1>1, <1>2, <1>3, PTL DEF MCSpec
=============================================================================
