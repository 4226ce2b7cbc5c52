------------------------------ MODULE PowerFft ------------------------------
(***************************************************************************)
(* The arithmetic of p210_fft.c: integer CORDIC twiddles, a radix-2        *)
(* transform that halves at every stage, and linear power bins.            *)
(*                                                                         *)
(* The CORDIC runs at its full width.  Samples have SampleBits bits and    *)
(* the butterflies see FracBits of the twiddles' 30, so that products fit  *)
(* TLC's integers.                                                         *)
(***************************************************************************)
EXTENDS Integers, Sequences, SequencesExt, FiniteSetsExt

CONSTANTS
    Blocks,         \* what the driver stored: components in two's complement, from 0
    SampleBits,     \* 16
    FracBits        \* P210_FFT_CORDIC_FRAC_BITS, 30

VARIABLES input, points, span, base, offset

-----------------------------------------------------------------------------
(* Twiddles.                                                               *)

\* Angles are turns of 2^32, here from -2^31 on as the code's z.
QuarterTurn == 1073741824

CordicAngles == <<
    536870912, 316933406, 167458907, 85004756, 42667331, 21354465, 10679838,
    5340245, 2670163, 1335087, 667544, 333772, 166886, 83443, 41722, 20861,
    10430, 5215, 2608, 1304, 652, 326, 163, 81, 41, 20, 10, 5, 3, 1, 1>>

CordicGainInverse == 652032874

ArithmeticShift(value, bits) == value \div 2 ^ bits

CordicStep(v, i) ==
    LET turn == IF v.z >= 0 THEN 1 ELSE -1
    IN  [x |-> v.x - turn * ArithmeticShift(v.y, i - 1),
         y |-> v.y + turn * ArithmeticShift(v.x, i - 1),
         z |-> v.z - turn * CordicAngles[i]]

\* Cosine and sine of the angle z; half turns in two quarters, to fit TLC.
Cordic(z) ==
    LET away == IF z > QuarterTurn THEN -1 ELSE IF z < -QuarterTurn THEN 1 ELSE 0
        start == [x |-> CordicGainInverse, y |-> 0,
                  z |-> z + away * QuarterTurn + away * QuarterTurn]
        turned == FoldLeft(CordicStep, start, [i \in 1 .. Len(CordicAngles) |-> i])
    IN  IF away = 0 THEN <<turned.x, turned.y>> ELSE <<-turned.x, -turned.y>>

\* The phase of twiddle i of count: -i * 2^32 / count as a 32-bit angle.
Phase(i, count) == -(i * (QuarterTurn \div (count \div 4)))

\* The twiddles of one transform, cut to FracBits.
Twiddles(count) ==
    [i \in 0 .. (count \div 2) - 1 |->
        LET w == Cordic(Phase(i, count))
        IN  <<ArithmeticShift(w[1], 30 - FracBits), ArithmeticShift(w[2], 30 - FracBits)>>]

-----------------------------------------------------------------------------
(* The transform.                                                          *)

\* The division of C, which drops the fraction.
Quotient(a, b) == IF a >= 0 THEN a \div b ELSE -((-a) \div b)

\* p210_fft_bit_reverse: the next reversed index.  The carry from the top clears
\* the bits that are set down to the first that is not, and sets that one.
NextReversed(j, count) ==
    LET bit == Max({b \in {2 ^ e : e \in 0 .. 15} : b < count /\ (j \div b) % 2 = 0})
    IN  (j % bit) + bit

\* Bug: pairs are swapped twice, there and back.
SwapAlways(x, i, j) == [x EXCEPT ![i] = x[j], ![j] = x[i]]

SwapOnce(x, i, j) == IF i < j THEN [x EXCEPT ![i] = x[j], ![j] = x[i]] ELSE x

Permuted(x) ==
    LET count == Cardinality(DOMAIN x)
        after[i \in 0 .. count - 1] ==
            IF i = 0 THEN [x |-> x, j |-> 0]
            ELSE LET before == after[i - 1]
                     j == NextReversed(before.j, count)
                 IN  [x |-> SwapOnce(before.x, i, j), j |-> j]
    IN  after[count - 1].x

Product(b, w) ==
    <<Quotient(w[1] * b[1] - w[2] * b[2], 2 ^ FracBits),
      Quotient(w[2] * b[1] + w[1] * b[2], 2 ^ FracBits)>>

TwiddleTable == [count \in {4, 8, 16} |-> Twiddles(count)]

Rotate(b, k, count) == Product(b, TwiddleTable[count][k])

Halve(v) == Quotient(v, 2)

\* p210_fft_iq16: the value of a sample's two's complement.
Iq16(v) == IF v < 2 ^ (SampleBits - 1) THEN v ELSE v - 2 ^ SampleBits

Inputs == {[i \in DOMAIN b |-> <<Iq16(b[i][1]), Iq16(b[i][2])>>] : b \in Blocks}

INSTANCE Radix2

MaxPower == (2 ^ (2 * SampleBits)) - 1

Squared(c) == c[1] * c[1] + c[2] * c[2]

\* The bin stored for a point.
Encoded(c) == Min({Squared(c), MaxPower})
-----------------------------------------------------------------------------
(* What is checked.                                                        *)

\* p210_twiddle_rom: cosine and sine of i / 16 turns with 17 fraction bits, of
\* its entries 4096 * i.
TwiddleRom == [i \in 0 .. 7 |->
    <<<<131071, 0>>, <<121095, 50159>>, <<92682, 92682>>, <<50159, 121095>>,
      <<0, 131071>>, <<-50159, 121095>>, <<-92682, 92682>>, <<-121095, 50159>>>>[i + 1]]

RomCosine(k, n) ==
    LET i == (16 \div n) * k IN IF i < 8 THEN TwiddleRom[i][1] ELSE -TwiddleRom[i - 8][1]
RomSine(k, n) ==
    LET i == (16 \div n) * k IN IF i < 8 THEN TwiddleRom[i][2] ELSE -TwiddleRom[i - 8][2]

\* The CORDIC's twiddle for the next butterfly and the committed ROM of the
\* operators agree to within one unit of the ROM.
CordicAgreesWithRom ==
    span <= size =>
        LET w == Cordic(Phase(TwiddleIndex, size))
            Near(v, r) == (v \div 8192) - r \in -2 .. 1
        IN  /\ Near(w[1], RomCosine(TwiddleIndex, size))
            /\ Near(-w[2], RomSine(TwiddleIndex, size))

\* Between two stages every block holds the scaled transform of its samples,
\* in natural order, to within three units whatever the stages drop.
BlocksAreTransforms ==
    StagesAreTransforms(LAMBDA k, n : RomCosine(k, n) \div 2 ^ (17 - FracBits),
                        LAMBDA k, n : RomSine(k, n) \div 2 ^ (17 - FracBits),
                        2 ^ FracBits, 3)

\* "one-bit scaling per stage": no butterfly makes a point longer than the
\* longest sample, so that full-scale samples overflow no width and no bin of
\* theirs is cut by the saturation of the power.
ScalingContains ==
    LET longest == Max({Squared(input[i]) : i \in DOMAIN input})
    IN  \A i \in DOMAIN points :
            Squared(points[i]) <= longest /\ Encoded(points[i]) = Squared(points[i])
=============================================================================
