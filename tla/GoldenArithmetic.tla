-------------------------- MODULE GoldenArithmetic --------------------------
(***************************************************************************)
(* Golden-arithmetic v1: the integer arithmetic of the operator core       *)
(* (p210_operator_core.c) and of its copy in the QEMU device               *)
(* (p210_operator.c), on components of DataBits bits.  Twiddles come from  *)
(* the committed ROM at full width, for the sizes up to RomSize.           *)
(***************************************************************************)
EXTENDS Integers, FiniteSetsExt

CONSTANTS
    DataBits    \* P210_OP_DATA_BITS, 24

TwiddleFrac == 17   \* P210_OP_TWIDDLE_FRAC
TableFrac   == 15   \* P210_OP_TABLE_FRAC

DataMax == (2 ^ (DataBits - 1)) - 1
DataMin == -(2 ^ (DataBits - 1))

\* p210_op_rhe, THE rounding rule.
Rhe(v, s) ==
    IF s = 0 THEN v
    ELSE LET q == (v + 2 ^ (s - 1)) \div 2 ^ s
         IN  IF v % 2 ^ s = 2 ^ (s - 1) /\ q % 2 = 1 THEN q - 1 ELSE q

\* p210_op_clamp24.
Clamp24(v) == IF v > DataMax THEN DataMax ELSE IF v < DataMin THEN DataMin ELSE v

-----------------------------------------------------------------------------
(* The transform's parts.                                                  *)

RomSize == 16

\* The ROM's cosines and sines of i * 2 pi / RomSize: every 4096th entry, over half a
\* turn.
Rom == [i \in 0 .. 7 |->
    <<<<131071, 0>>, <<121095, 50159>>, <<92682, 92682>>, <<50159, 121095>>,
      <<0, 131071>>, <<-50159, 121095>>, <<-92682, 92682>>, <<-121095, 50159>>>>[i + 1]]

\* twiddle_for: e^(-j theta).
Twiddle(k, n) ==
    LET entry == Rom[k * (RomSize \div n)] IN <<entry[1], -entry[2]>>

Rotate(b, k, n) ==
    LET w == Twiddle(k, n)
    IN  <<Rhe(b[1] * w[1] - b[2] * w[2], TwiddleFrac),
          Rhe(b[1] * w[2] + b[2] * w[1], TwiddleFrac)>>

Halve(v) == Rhe(v, 1)

BitReverse(v, n) ==
    MapThenSumSet(LAMBDA b : IF (v \div b) % 2 = 1 THEN n \div (2 * b) ELSE 0,
                  {2 ^ e : e \in {e \in 0 .. 15 : 2 ^ e < n}})

Permuted(x) ==
    [i \in DOMAIN x |-> x[BitReverse(i, Cardinality(DOMAIN x))]]

Clamped(x) == [i \in DOMAIN x |-> <<Clamp24(x[i][1]), Clamp24(x[i][2])>>]

Conjugated(x) == [i \in DOMAIN x |-> <<x[i][1], -x[i][2]>>]

-----------------------------------------------------------------------------
(* The operator's parts.                                                   *)

\* p210_op_spectral_multiply by a table of Q1.15 mantissas.
SpectralMultiply(x, table) ==
    [i \in DOMAIN x |->
        LET h == table[i]
        IN  <<Clamp24(Rhe(x[i][1] * h[1] - x[i][2] * h[2], TableFrac)),
              Clamp24(Rhe(x[i][1] * h[2] + x[i][2] * h[1], TableFrac))>>]

\* Bug: the threshold is not brought to the exponent of the block.
RawThreshold(b, exponent) == b

\* The threshold of a block whose data is scaled by 2^-exponent.
Threshold(b, exponent) ==
    IF exponent > 0 THEN Rhe(b, exponent) ELSE b * 2 ^ (-exponent)

Magnitude(z) ==
    LET real == IF z[1] < 0 THEN -z[1] ELSE z[1]
        imag == IF z[2] < 0 THEN -z[2] ELSE z[2]
    IN  Rhe(15 * Max({real, imag}), 4) + Rhe(15 * Min({real, imag}), 5)

\* What is left of a point, in Q1.15.
SurvivorScale(z, b) ==
    LET keep == Magnitude(z) + b
    IN  IF keep > 0 /\ Magnitude(z) > 0
        THEN (keep * 2 ^ TableFrac) \div Magnitude(z) ELSE 0

ModRelu(x, b, exponent) ==
    [i \in DOMAIN x |->
        LET scale == SurvivorScale(x[i], Threshold(b, exponent))
        IN  <<Clamp24(Rhe(x[i][1] * scale, TableFrac)),
              Clamp24(Rhe(x[i][2] * scale, TableFrac))>>]
=============================================================================
