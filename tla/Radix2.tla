------------------------------- MODULE Radix2 -------------------------------
(***************************************************************************)
(* The stage loops of the repository's radix-2 decimation-in-time FFTs:    *)
(* butterflies in place, span by span, block by block, pair by pair.  What *)
(* the FFTs do differently - twiddles, rounding, clamping - is a parameter.*)
(* A complex sample is a pair <<real, imaginary>>.                         *)
(***************************************************************************)
EXTENDS Integers, FiniteSetsExt

CONSTANTS
    Inputs,             \* sequences of samples, in natural order, from 0
    Permuted(_),        \* the samples in the order the first stage takes them
    Rotate(_, _, _),    \* a sample times twiddle k of size
    Halve(_)            \* a component at the end of a butterfly

VARIABLES
    input,              \* the samples of the transform
    points,             \* real[], imag[]
    span, base, offset  \* the three loops

loops == <<span, base, offset>>
vars  == <<input, points, loops>>

Size(x) == Cardinality(DOMAIN x)
size    == Size(input)
half    == span \div 2

Plus(a, b)  == <<a[1] + b[1], a[2] + b[2]>>
Minus(a, b) == <<a[1] - b[1], a[2] - b[2]>>

Init ==
    /\ input \in Inputs
    /\ points = Permuted(input)
    /\ span = 2 /\ base = 0 /\ offset = 0

TwiddleIndex == offset * (size \div span)

Butterfly ==
    LET even == points[base + offset]
        turned == Rotate(points[base + offset + half], TwiddleIndex, size)
        Halved(c) == <<Halve(c[1]), Halve(c[2])>>
    IN  /\ span <= size
        /\ points' = [points EXCEPT ![base + offset] = Halved(Plus(even, turned)),
                                    ![base + offset + half] = Halved(Minus(even, turned))]
        /\ input' = input

NextPair ==
    /\ Butterfly
    /\ offset + 1 < half
    /\ offset' = offset + 1 /\ UNCHANGED <<span, base>>

NextBlock ==
    /\ Butterfly
    /\ offset + 1 = half /\ base + span < size
    /\ base' = base + span /\ offset' = 0 /\ span' = span

NextStage ==
    /\ Butterfly
    /\ offset + 1 = half /\ base + span = size
    /\ span' = 2 * span /\ base' = 0 /\ offset' = 0

Next == NextPair \/ NextBlock \/ NextStage

Spec == Init /\ [][Next]_vars
-----------------------------------------------------------------------------
(* The reference: what the points are between two stages.                  *)

\* v with the binary digits of 0 .. n - 1 in the opposite order.
Reversed(v, n) ==
    CHOOSE r \in 0 .. n - 1 :
        \A b, c \in {2 ^ e : e \in 0 .. n} :
            (b < n /\ c < n /\ b * c = n \div 2) => (r \div b) % 2 = (v \div c) % 2

\* Block q of m points holds the transform of every (size / m)-th sample,
\* divided by m, to within slack; unit stands for 1 in the reference's cosines
\* and sines of k / n turns.
BlockIsTransform(q, m, Cosine(_, _), Sine(_, _), unit, slack) ==
    LET stride == size \div m
        first == Reversed(q, stride)
        Term(s, k) == LET x == input[first + stride * s]
                          c == Cosine((k * s) % m, m)
                          d == Sine((k * s) % m, m)
                      IN  <<x[1] * c + x[2] * d, x[2] * c - x[1] * d>>
        Near(value, sum) ==
            LET error == value * m * unit - sum
            IN  error <= slack * m * unit /\ -error <= slack * m * unit
    IN  \A k \in 0 .. m - 1 :
            /\ Near(points[q * m + k][1],
                    MapThenSumSet(LAMBDA s : Term(s, k)[1], 0 .. m - 1))
            /\ Near(points[q * m + k][2],
                    MapThenSumSet(LAMBDA s : Term(s, k)[2], 0 .. m - 1))

StagesAreTransforms(Cosine(_, _), Sine(_, _), unit, slack) ==
    (base = 0 /\ offset = 0) =>
        \A q \in 0 .. (size \div half) - 1 :
            BlockIsTransform(q, half, Cosine, Sine, unit, slack)
=============================================================================
