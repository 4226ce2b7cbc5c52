------------------------------ MODULE BbfTuner ------------------------------
(***************************************************************************)
(* p210_ad9361.c: p210_ad9361_complete_rx_bbf_cal, which puts the AD9361's *)
(* receive baseband filter into component codes for the driver to read.    *)
(*                                                                         *)
(* The frequencies and the RC product are constants, as the products of    *)
(* the real ones (in comments) exceed TLC's integers; the code's 64 bits   *)
(* hold them.  The capacitor's own numbers are the code's.                 *)
(***************************************************************************)
EXTENDS Integers

CONSTANTS
    RefClk,                     \* AD9361_P210_REFCLK_HZ, 40000000
    Modulus,                    \* AD9361_BBPLL_MODULUS, 2088960
    TuneNum, TuneDen,           \* 10000 / 126906
    ProfileLow, ProfileHigh,    \* 982000000, 984000000
    Narrow, Middle,             \* 1500000, 3500000
    Wide, WideStep,             \* 18000000, 1000000
    Ohms, Target                \* 160975, 960000000000000000

ASSUME TunerAssumption ==
    /\ {RefClk, Modulus, TuneNum, TuneDen, WideStep, Ohms, Target} \subseteq Nat \ {0}
    /\ {ProfileLow, ProfileHigh, Narrow, Middle, Wide} \subseteq Nat

\* What the tuner finds in the registers: the BBPLL's integer and fractional
\* words and the tune divider.
Setup(integer, fract, divide) == [integer |-> integer, fract |-> fract, divide |-> divide]

Larger(a, b)  == IF a < b THEN b ELSE a
Smaller(a, b) == IF a < b THEN a ELSE b

ProgrammedPll(s) == RefClk * s.integer + (RefClk * s.fract) \div Modulus

Malformed(s) == s.divide = 0 \/ ProgrammedPll(s) = 0

\* A malformed setup is completed, another is taken as it is.
Divide(s) == IF Malformed(s) THEN Larger(s.divide, 1) ELSE s.divide
Pll(s)    == IF Malformed(s) THEN Larger(ProgrammedPll(s), RefClk) ELSE ProgrammedPll(s)

Bandwidth(s) == (Pll(s) * TuneNum) \div (TuneDen * Divide(s))

\* The board's default profile, whose codes are known from hardware traces.
IsProfile(s) == Divide(s) = 9 /\ Pll(s) \in ProfileLow .. ProfileHigh

Correction(s) ==
    1000 + IF Bandwidth(s) >= Wide THEN 10 * ((Bandwidth(s) - Wide) \div WideStep) ELSE 0

Denominator(s) == Ohms * Bandwidth(s) * Correction(s)

\* The division below has no answer.
DividesByZero(s) == ~IsProfile(s) /\ Denominator(s) = 0

\* A host on which a division by zero goes on finds zero.
ComponentProduct(s) ==
    IF Denominator(s) = 0 THEN 0
    ELSE (Target + Denominator(s) \div 2) \div Denominator(s)

Resistor(s) ==
    IF IsProfile(s) THEN 1
    ELSE IF Bandwidth(s) <= Narrow THEN 4
    ELSE IF Bandwidth(s) <= Middle THEN 2 ELSE 1

Least == 140
Most  == 11490

Clipped(product, resistor) ==
    Larger(Least, Smaller((product + resistor \div 2) \div resistor, Most))

Capacitance(s) == Clipped(ComponentProduct(s), Resistor(s))

Steps(capacitance) == (capacitance - Least + 5) \div 10

\* Bug: the fine code is taken modulo the coarse step.
Wrapped(steps) ==
    LET msb == IF steps <= 127 THEN 0 ELSE Smaller(63, steps \div 16)
    IN  [msb |-> msb, lsb |-> IF steps <= 127 THEN steps ELSE steps % 16]

\* Steps of 10 fF as the coarse code, in steps of 160 fF, and the fine code.
Encoded(steps) ==
    LET msb == IF steps <= 127 THEN 0 ELSE Smaller(63, steps \div 16)
    IN  [msb |-> msb, lsb |-> IF steps <= 127 THEN steps ELSE Smaller(127, steps - msb * 16)]

\* The codes C3_MSB and C3_LSB that the tuner leaves.
Codes(s) == IF IsProfile(s) THEN [msb |-> 0, lsb |-> 54]
                            ELSE Encoded(Steps(Capacitance(s)))

\* What the driver makes of the codes, as the comment at Encoded explains them.
Decoded(codes) == Least + 160 * codes.msb + 10 * codes.lsb

\* The codes fit the fields of their registers, and the driver reads the
\* capacitance to half a step.
Faithful(capacitance, codes) ==
    /\ codes.msb \in 0 .. 63 /\ codes.lsb \in 0 .. 127
    /\ Decoded(codes) - capacitance \in -5 .. 5
=============================================================================
