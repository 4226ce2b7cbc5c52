---------------------------- MODULE OperatorBlock ----------------------------
(***************************************************************************)
(* One block of the operator, as run_block and p210_op_run compute it:     *)
(* transform, multiply by the bank, transform back, modReLU - butterfly by *)
(* butterfly.                                                              *)
(***************************************************************************)
EXTENDS GoldenArithmetic

CONSTANTS
    Inputs,         \* blocks of samples
    Banks(_),       \* the tables of so many modes
    Thresholds      \* OP_THRESHOLD

VARIABLES
    input, points, span, base, offset,
    pass,           \* "forward", "inverse", "done"
    samples, table, threshold   \* what the block is computed from

operands  == <<samples, table, threshold>>
blockVars == <<input, points, span, base, offset, pass, operands>>

Fft == INSTANCE Radix2

\* A component has a bit besides its sign; blocks and tables are pairs of integers, of a
\* size that the ROM has twiddles for.
Sizes == {2, 4, 8, 16}

OperandsAssumption ==
    /\ DataBits \in Nat \ {0} /\ DataMax >= 1
    /\ \A x \in Inputs : \E n \in Sizes : x \in [0 .. n - 1 -> Int \X Int]
    /\ \A n \in Sizes : \A x \in Banks(n) : x \in [0 .. n - 1 -> Int \X Int]
    /\ \A b \in Thresholds : b \in Int

Start ==
    /\ Fft!Init
    /\ pass = "forward"
    /\ samples = input
    /\ table \in Banks(Fft!size) /\ threshold \in Thresholds

Butterfly ==
    /\ pass # "done"
    /\ Fft!Next
    /\ UNCHANGED <<pass, operands>>

\* What p210_op_ifft hands to the forward transform.
IntoInverse(x) == Conjugated(x)

Multiply ==
    /\ pass = "forward" /\ span > Fft!size
    /\ pass' = "inverse"
    /\ input' = IntoInverse(SpectralMultiply(Clamped(points), table))
    /\ points' = Permuted(input')
    /\ span' = 2 /\ base' = 0 /\ offset' = 0
    /\ UNCHANGED operands

Exponent == CHOOSE e \in 0 .. 15 : 2 ^ e = Fft!size

\* From here on input is what modReLU gets.
Activate ==
    /\ pass = "inverse" /\ span > Fft!size
    /\ pass' = "done"
    /\ input' = Conjugated(Clamped(points))
    /\ points' = ModRelu(input', threshold, Exponent)
    /\ UNCHANGED <<span, base, offset, operands>>

Step == Butterfly \/ Multiply \/ Activate

BlockSpec == Start /\ [][Step]_blockVars
-----------------------------------------------------------------------------
(* What is checked.                                                        *)

Cosine(k, n) ==
    LET i == (RomSize \div n) * k
    IN  IF i < 8 THEN Rom[i][1] \div 8 ELSE -(Rom[i - 8][1] \div 8)
Sine(k, n) ==
    LET i == (RomSize \div n) * k
    IN  IF i < 8 THEN Rom[i][2] \div 8 ELSE -(Rom[i - 8][2] \div 8)

\* Between two stages, forward and back, every block of points holds the scaled
\* transform of its samples to within two units.
BlocksAreTransforms ==
    pass # "done" =>
        Fft!StagesAreTransforms(Cosine, Sine, 2 ^ (TwiddleFrac - 3), 2)

\* Rounding half to even favours no sign: the transform of a real block is
\* conjugate symmetric in every bit, after every stage.
RealBlocksAreSymmetric ==
    LET m == Fft!half
        At(q, k) == points[q * m + (k % m)]
    IN  (pass # "done" /\ base = 0 /\ offset = 0 /\ \A i \in DOMAIN input : input[i][2] = 0) =>
            \A q \in 0 .. (Fft!size \div m) - 1, k \in 0 .. m - 1 :
                At(q, m - k) = <<At(q, k)[1], -At(q, k)[2]>>

\* "exactly the true IFFT": with a bank that multiplies by one half, what modReLU
\* gets is the block itself, scaled, to within three units - unless the clamp
\* after the transform cuts a bin, which takes a sample longer than DataMax.
InverseReturnsBlock ==
    /\ pass = "done"
    /\ \A i \in DOMAIN samples : samples[i][1] ^ 2 + samples[i][2] ^ 2 <= DataMax ^ 2
    /\ \A i \in DOMAIN table : table[i] = <<2 ^ (TableFrac - 1), 0>>
    => \A i \in DOMAIN samples, c \in 1 .. 2 :
            samples[i][c] - 2 * Fft!size * input[i][c] \in (-6 * Fft!size) .. 6 * Fft!size

\* modReLU changes no component's sign, and without a positive threshold none
\* grows.  Which points are gone is decided as in the unscaled block: those more
\* than half a unit below the threshold are, and none is that is above it by half
\* a unit and a 2^12th of its magnitude.  (The scale of a point is cut to Q1.15, so a
\* long point just above the threshold may vanish.)
ReluShortens ==
    pass = "done" =>
        \A i \in DOMAIN points :
            LET excess == 2 * (Magnitude(input[i]) * Fft!size + threshold)
            IN  /\ \A c \in 1 .. 2 :
                    \/ 0 <= input[i][c] /\ 0 <= points[i][c]
                       /\ (threshold <= 0 => points[i][c] <= input[i][c])
                    \/ 0 >= input[i][c] /\ 0 >= points[i][c]
                       /\ (threshold <= 0 => points[i][c] >= input[i][c])
                /\ excess < -Fft!size => points[i] = <<0, 0>>
                /\ Magnitude(input[i]) > 0
                   /\ 2 ^ 11 * (excess - Fft!size) >= Magnitude(input[i]) * Fft!size
                   => points[i] # <<0, 0>>
=============================================================================
