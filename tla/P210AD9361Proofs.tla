-------------------------- MODULE P210AD9361Proofs --------------------------
(* Proofs about BbfTuner and P210AD9361: every setup is encoded so that    *)
(* the driver reads its capacitance, the registers keep such codes         *)
(* whatever is on the wire, and they are what the bytes of each            *)
(* transaction ask for.                                                    *)
EXTENDS P210AD9361, WellFoundedInduction, TLAPS

(***************************************************************************)
(* The tuner.                                                              *)
(***************************************************************************)

LEMMA ProductNat ==
    ASSUME NEW a \in Nat, NEW b \in Nat PROVE a * b \in Nat
BY SMT

LEMMA ProductPositive ==
    ASSUME NEW a \in Nat \ {0}, NEW b \in Nat \ {0} PROVE a * b \in Nat \ {0}
<1>1. a * b = (a - 1) * (b - 1) + (a - 1) + (b - 1) + 1
    BY SMT
<1>2. (a - 1) * (b - 1) \in Nat
    BY ProductNat
<1> QED
    BY <1>1, <1>2

LEMMA QuotientNat ==
    ASSUME NEW a \in Nat, NEW b \in Nat \ {0} PROVE a \div b \in Nat
BY SMT

Setups == [integer : Nat, fract : Nat, divide : Nat]

\* The two codes together are the number of steps, up to the largest capacitance.
LEMMA CodesAddUp ==
    ASSUME NEW n \in 0 .. 1135
    PROVE  /\ Encoded(n).msb \in 0 .. 63 /\ Encoded(n).lsb \in 0 .. 127
           /\ 16 * Encoded(n).msb + Encoded(n).lsb = n
<1>1. CASE n <= 127
    BY <1>1 DEF Encoded
<1>2. CASE n > 127
    <2>1. PICK q \in Nat, r \in 0 .. 15 : n = 16 * q + r /\ q = n \div 16
        BY SMT
    <2>2. CASE q <= 63
        BY <1>2, <2>1, <2>2 DEF Encoded, Smaller
    <2>3. CASE q > 63
        BY <1>2, <2>1, <2>3 DEF Encoded, Smaller
    <2> QED
        BY <2>1, <2>2, <2>3
<1> QED
    BY <1>1, <1>2

LEMMA ThreeSums ==
    ASSUME NEW a \in 0 .. 63, NEW b \in 0 .. 127, NEW n \in Int, 16 * a + b = n
    PROVE  140 + 160 * a + 10 * b = 140 + 10 * n
BY SMT

\* A capacitance in range is decoded to half a step.
LEMMA CapacitanceFaithful ==
    ASSUME NEW c \in Least .. Most
    PROVE  Faithful(c, Encoded(Steps(c)))
<1> DEFINE x == c - 135
           n == x \div 10
<1>1. c \in 140 .. 11490
    BY DEF Least, Most
<1>2. x \in 5 .. 11355 /\ c = x + 135
    BY <1>1
<1>3. Steps(c) = n
    <2>1. c - Least + 5 = x
        BY <1>1 DEF Least
    <2> QED
        BY <2>1 DEF Steps
<1> HIDE DEF x
<1>4. n \in 0 .. 1135 /\ x - 10 * n \in 0 .. 9
    BY <1>2, SMT
<1> HIDE DEF n
<1>5. /\ Encoded(n).msb \in 0 .. 63 /\ Encoded(n).lsb \in 0 .. 127
      /\ 16 * Encoded(n).msb + Encoded(n).lsb = n
    BY <1>4, CodesAddUp
<1>6. Decoded(Encoded(n)) = 140 + 10 * n
    <2>1. Decoded(Encoded(n)) = 140 + 160 * Encoded(n).msb + 10 * Encoded(n).lsb
        BY DEF Decoded, Least
    <2> DEFINE a == Encoded(n).msb
               b == Encoded(n).lsb
    <2>2. a \in 0 .. 63 /\ b \in 0 .. 127 /\ n \in Int /\ 16 * a + b = n
        BY <1>4, <1>5
    <2> HIDE DEF a, b
    <2>3. 140 + 160 * a + 10 * b = 140 + 10 * n
        BY <2>2, ThreeSums
    <2> QED
        BY <2>1, <2>3, Zenon DEF a, b
<1>7. Decoded(Encoded(n)) - c \in -5 .. 5
    BY <1>2, <1>4, <1>6
<1> QED
    BY <1>3, <1>5, <1>7, Zenon DEF Faithful

\* Every setup, malformed or not, has a bandwidth and a capacitance in range.
LEMMA TunerInRange ==
    ASSUME NEW s \in Setups
    PROVE  /\ Resistor(s) \in {1, 2, 4}
           /\ Capacitance(s) \in Least .. Most
<1> USE TunerAssumption
<1>1. s.integer \in Nat /\ s.fract \in Nat /\ s.divide \in Nat
    BY DEF Setups
<1>2. ProgrammedPll(s) \in Nat
    <2>1. RefClk * s.integer \in Nat /\ RefClk * s.fract \in Nat
        BY <1>1, ProductNat
    <2>2. (RefClk * s.fract) \div Modulus \in Nat
        BY <2>1, QuotientNat
    <2> QED
        BY <2>1, <2>2 DEF ProgrammedPll
<1>3. Divide(s) \in Nat \ {0} /\ Pll(s) \in Nat
    BY <1>1, <1>2 DEF Divide, Pll, Malformed, Larger
<1>4. Bandwidth(s) \in Nat
    <2>1. Pll(s) * TuneNum \in Nat /\ TuneDen * Divide(s) \in Nat \ {0}
        BY <1>3, ProductNat, ProductPositive
    <2> QED
        BY <2>1, QuotientNat DEF Bandwidth
<1>5. Resistor(s) \in {1, 2, 4}
    BY DEF Resistor
<1>6. Correction(s) \in Nat
    <2>1. CASE Bandwidth(s) >= Wide
        <3>1. (Bandwidth(s) - Wide) \div WideStep \in Nat
            BY <1>4, <2>1, QuotientNat
        <3> QED
            BY <2>1, <3>1 DEF Correction
    <2>2. CASE ~(Bandwidth(s) >= Wide)
        BY <2>2 DEF Correction
    <2> QED
        BY <2>1, <2>2
<1>7. Denominator(s) \in Nat
    BY <1>4, <1>6, ProductNat DEF Denominator
<1>8. ComponentProduct(s) \in Nat
    <2>1. CASE Denominator(s) = 0
        BY <2>1 DEF ComponentProduct
    <2>2. CASE Denominator(s) # 0
        <3>1. Target + Denominator(s) \div 2 \in Nat
            BY <1>7, QuotientNat
        <3> QED
            BY <1>7, <2>2, <3>1, QuotientNat DEF ComponentProduct
    <2> QED
        BY <2>1, <2>2
<1>9. \A product \in Nat, resistor \in {1, 2, 4} :
        (product + resistor \div 2) \div resistor \in Nat
    BY SMT
<1>10. Capacitance(s) \in Least .. Most
    <2> DEFINE x == (ComponentProduct(s) + Resistor(s) \div 2) \div Resistor(s)
    <2>1. x \in Nat
        BY <1>5, <1>8, <1>9
    <2>2. Capacitance(s) = Larger(Least, Smaller(x, Most))
        BY DEF Capacitance, Clipped
    <2> HIDE DEF x
    <2> QED
        BY <2>1, <2>2 DEF Larger, Smaller, Least, Most
<1> QED
    BY <1>5, <1>10

\* The codes of any setup serve the driver, and they fit their registers.
LEMMA SetupServed ==
    ASSUME NEW s \in Setups
    PROVE  /\ Codes(s).msb \in 0 .. 63 /\ Codes(s).lsb \in 0 .. 127
           /\ ~IsProfile(s) => Faithful(Capacitance(s), Codes(s))
<1>1. Capacitance(s) \in Least .. Most
    BY TunerInRange
<1>2. Faithful(Capacitance(s), Encoded(Steps(Capacitance(s))))
    BY <1>1, CapacitanceFaithful
<1>3. CASE IsProfile(s)
    BY <1>3 DEF Codes
<1>4. CASE ~IsProfile(s)
    BY <1>2, <1>4, Zenon DEF Codes, Faithful
<1> QED
    BY <1>3, <1>4
(***************************************************************************)
(* The registers.                                                          *)
(***************************************************************************)

Chips == [regs : [Reg -> Byte], ensm : {Alert, Tx, Rx, Fdd}]

LEMMA Powers == 2 ^ 0 = 1 /\ 2 ^ 1 = 2 /\ 2 ^ 7 = 128
BY SMT

LEMMA WithByte ==
    ASSUME NEW v \in Byte PROVE With(v, 7) \in Byte /\ With(v, 1) \in Byte
BY Powers, SMT DEF With, Bit, Byte

\* Every register reads as a byte.
LEMMA ReadByte ==
    ASSUME NEW c \in Chips, NEW r \in Reg PROVE Read(c, r) \in Byte
<1>1. c.regs[r] \in Byte /\ c.ensm \in Byte
    BY DEF Chips, Byte, Alert, Tx, Rx, Fdd
<1>2. With(c.regs[r], 7) \in Byte /\ With(c.regs[r], 1) \in Byte
    BY <1>1, WithByte
<1>3. 0 \in Byte /\ ProductCode \in Byte
    BY DEF Byte, ProductCode
<1> QED
    BY <1>1, <1>2, <1>3, Zenon DEF Read

LEMMA SetupShape ==
    ASSUME NEW regs \in [Reg -> Byte] PROVE SetupIn(regs) \in Setups
<1>1. \A r \in Reg : regs[r] \in Nat
    BY DEF Byte
<1>2. {IntegerWord, Fract1, Fract2, Fract3, TuneDivide, TuneConfig} \subseteq Reg
    BY DEF Reg, IntegerWord, Fract1, Fract2, Fract3, TuneDivide, TuneConfig
<1>3. \A a \in Nat, b \in Nat, d \in Nat : a * 65536 + b * 256 + d \in Nat
    OBVIOUS
<1>4. \A a \in Nat, b \in Nat : a + 256 * (b % 2) \in Nat
    BY SMT
<1> DEFINE integer == regs[IntegerWord]
           fract == regs[Fract1] * 65536 + regs[Fract2] * 256 + regs[Fract3]
           divide == regs[TuneDivide] + 256 * (regs[TuneConfig] % 2)
<1>5. integer \in Nat
    BY <1>1, <1>2
<1>6. fract \in Nat
    BY <1>1, <1>2, <1>3
<1>7. divide \in Nat
    BY <1>1, <1>2, <1>4
<1>8. SetupIn(regs) = [integer |-> integer, fract |-> fract, divide |-> divide]
    BY DEF SetupIn, Setup
<1> HIDE DEF integer, fract, divide
<1> QED
    BY <1>5, <1>6, <1>7, <1>8 DEF Setups

LEMMA CalibratedShape ==
    ASSUME NEW regs \in [Reg -> Byte]
    PROVE  /\ Calibrated(regs) \in [Reg -> Byte]
           /\ Calibrated(regs)[R2346] = Resistor(SetupIn(regs))
           /\ Calibrated(regs)[C3Msb] = Codes(SetupIn(regs)).msb
           /\ Calibrated(regs)[C3Lsb] = Codes(SetupIn(regs)).lsb
<1> DEFINE s == SetupIn(regs)
           res == Resistor(s)
           msb == Codes(s).msb
           lsb == Codes(s).lsb
<1>1. s \in Setups
    BY SetupShape
<1>2. res \in Byte /\ msb \in Byte /\ lsb \in Byte
    BY <1>1, TunerInRange, SetupServed DEF Byte
<1>3. Calibrated(regs) = [regs EXCEPT ![R2346] = res, ![C3Msb] = msb, ![C3Lsb] = lsb]
    BY DEF Calibrated
<1>4. {R2346, C3Msb, C3Lsb} \subseteq Reg /\ R2346 # C3Msb /\ R2346 # C3Lsb /\ C3Msb # C3Lsb
    BY DEF Reg, R2346, C3Msb, C3Lsb
<1> HIDE DEF s, res, msb, lsb
<1>5. Calibrated(regs) \in [Reg -> Byte]
    BY <1>2, <1>3, <1>4
<1>6. Calibrated(regs)[R2346] = res /\ Calibrated(regs)[C3Msb] = msb /\ Calibrated(regs)[C3Lsb] = lsb
    BY <1>3, <1>4
<1> QED
    BY <1>5, <1>6 DEF res, msb, lsb, s

LEMMA ResetShape == ResetChip \in Chips
<1>1. [r \in Reg |-> IF r = ProductId THEN ProductCode ELSE 0] \in [Reg -> Byte]
    BY DEF Byte, ProductCode
<1> QED
    BY <1>1 DEF ResetChip, Chips

\* A write leaves registers and an ENSM state.
LEMMA WrittenShape ==
    ASSUME NEW c \in Chips, NEW r \in Reg, NEW v \in Byte
    PROVE  Written(c, r, v) \in Chips
<1>1. c.regs \in [Reg -> Byte] /\ c.ensm \in {Alert, Tx, Rx, Fdd}
    BY DEF Chips
<1>2. Calibrated(c.regs) \in [Reg -> Byte]
    BY <1>1, CalibratedShape
<1>3. [c EXCEPT !.regs = Calibrated(c.regs)] \in Chips
    BY <1>2 DEF Chips
<1>4. [c EXCEPT !.regs[r] = v] \in Chips
    BY <1>1 DEF Chips
<1>5. \A e \in {Alert, Tx, Rx, Fdd} : [c EXCEPT !.regs[r] = v, !.ensm = e] \in Chips
    BY <1>1 DEF Chips
<1>6. Forced(c, v) \in {Alert, Tx, Rx, Fdd}
    BY <1>1 DEF Forced
<1>7. [c EXCEPT !.regs[r] = v, !.ensm = Forced(c, v)] \in Chips
    BY <1>5, <1>6
<1>8. [c EXCEPT !.regs[r] = v, !.ensm = Fdd] \in Chips
    BY <1>5
<1> QED
    BY <1>3, <1>4, <1>7, <1>8, ResetShape, Zenon DEF Written

\* What the driver reads of the codes of the setups in the set.
Served(regs, setups) ==
    \A s \in setups :
        LET codes == [msb |-> regs[C3Msb], lsb |-> regs[C3Lsb]] IN
        /\ regs[R2346] = Resistor(s)
        /\ IF IsProfile(s) THEN codes = Codes(s) ELSE Faithful(Capacitance(s), codes)

\* A calibration's codes serve the driver.
LEMMA CalibratedServes ==
    ASSUME NEW regs \in [Reg -> Byte]
    PROVE  Served(Calibrated(regs), {SetupIn(regs)})
<1> DEFINE s == SetupIn(regs)
           codes == [msb |-> Calibrated(regs)[C3Msb], lsb |-> Calibrated(regs)[C3Lsb]]
<1>1. s \in Setups
    BY SetupShape
<1>2. \E msb, lsb : Codes(s) = [msb |-> msb, lsb |-> lsb]
    BY DEF Codes, Encoded
<1>3. codes = Codes(s)
    BY <1>2, CalibratedShape
<1>4. ~IsProfile(s) => Faithful(Capacitance(s), Codes(s))
    BY <1>1, SetupServed
<1>5. Calibrated(regs)[R2346] = Resistor(s)
    BY CalibratedShape
<1> HIDE DEF s
<1>6. /\ Calibrated(regs)[R2346] = Resistor(s)
      /\ IF IsProfile(s) THEN codes = Codes(s) ELSE Faithful(Capacitance(s), codes)
    BY <1>3, <1>4, <1>5, Zenon
<1> QED
    BY <1>6, Zenon DEF Served, s

\* A write keeps what the driver reads of the codes that it does not disown.
LEMMA WriteServes ==
    ASSUME NEW r \in Reg, NEW v \in Byte, chip \in Chips, tuned \subseteq Setups,
           Served(chip.regs, tuned)
    PROVE  /\ TunedAfter(r, v) \subseteq Setups
           /\ Served(Written(chip, r, v).regs, TunedAfter(r, v))
<1>1. chip.regs \in [Reg -> Byte]
    BY DEF Chips
<1>2. CASE SoftReset(r, v) \/ r \in {R2346, C3Msb, C3Lsb}
    <2>1. ~Calibrates(r, v)
        BY <1>2 DEF SoftReset, Calibrates, SpiConf, CalibrationCtrl, R2346, C3Msb, C3Lsb
    <2>2. TunedAfter(r, v) = {}
        BY <1>2, <2>1, Zenon DEF TunedAfter
    <2> QED
        BY <2>2 DEF Served
<1>3. CASE ~(SoftReset(r, v) \/ r \in {R2346, C3Msb, C3Lsb}) /\ Calibrates(r, v)
    <2>1. TunedAfter(r, v) = {SetupIn(chip.regs)}
        BY <1>3 DEF TunedAfter
    <2>2. r \notin {ProductId, State, EnsmConfig1, EnsmMode} /\ Bit(v, 7)
        BY <1>3 DEF Calibrates, CalibrationCtrl, ProductId, State, EnsmConfig1, EnsmMode
    <2>3. Written(chip, r, v) = [chip EXCEPT !.regs = Calibrated(chip.regs)]
        BY <1>3, <2>2, Zenon DEF Written
    <2>4. Written(chip, r, v).regs = Calibrated(chip.regs)
        BY <2>3 DEF Chips
    <2> QED
        BY <1>1, <2>1, <2>4, CalibratedServes, SetupShape
<1>4. CASE ~(SoftReset(r, v) \/ r \in {R2346, C3Msb, C3Lsb}) /\ ~Calibrates(r, v)
    <2>1. TunedAfter(r, v) = tuned
        BY <1>4 DEF TunedAfter
    <2> DEFINE regs == Written(chip, r, v).regs
    <2>2. regs = chip.regs \/ regs = [chip.regs EXCEPT ![r] = v]
        <3>1. \/ Written(chip, r, v) = chip
              \/ Written(chip, r, v) = [chip EXCEPT !.regs[r] = v, !.ensm = Forced(chip, v)]
              \/ Written(chip, r, v) = [chip EXCEPT !.regs[r] = v, !.ensm = Fdd]
              \/ Written(chip, r, v) = [chip EXCEPT !.regs[r] = v]
            BY <1>4 DEF Written, ProductId, State, SpiConf, CalibrationCtrl, EnsmConfig1,
                EnsmMode, SoftReset, Calibrates
        <3> QED
            BY <3>1 DEF Chips
    <2>3. {R2346, C3Msb, C3Lsb} \subseteq Reg
        BY DEF Reg, R2346, C3Msb, C3Lsb
    <2> HIDE DEF regs
    <2>4. \A q \in {R2346, C3Msb, C3Lsb} : regs[q] = chip.regs[q]
        BY <1>1, <1>4, <2>2, <2>3
    <2>5. Served(regs, tuned)
        BY <2>4, Zenon DEF Served
    <2> QED
        BY <2>1, <2>5 DEF regs
<1> QED
    BY <1>2, <1>3, <1>4

(***************************************************************************)
(* The inductive invariant.                                                *)
(***************************************************************************)

Wires == [instruction : Word, address : Reg, position : 0 .. Wrap - 1,
          count : 0 .. 8, dataIndex : 0 .. 8, write : BOOLEAN]

\* The largest instruction with a low byte of zero.
LastHigh == 255 * 256

\* The first byte of an instruction is its high byte.
HighByte == wire.position = 1 => wire.instruction <= LastHigh

Shapes ==
    /\ chip \in Chips /\ wire \in Wires /\ HighByte
    /\ rx \in Byte /\ alive \in BOOLEAN /\ edges \in 0 .. MaxEdges

CodesServe == tuned \subseteq Setups /\ Served(chip.regs, tuned)

IInv == Shapes /\ CodesServe

LEMMA ServedIsProperty == CodesServeDriver <=> Served(chip.regs, tuned)
BY DEF CodesServeDriver, Served

LEMMA ShapesAreTypes == Shapes => TypeOK
BY DEF Shapes, Chips, Wires, TypeOK

LEMMA ResetWireShape ==
    ResetWire \in Wires /\ ResetWire.position = 0 /\ ResetWire.instruction = 0
BY WireAssumption DEF ResetWire, Wires, Reg, Word

\* Ten bits of any number are an address.
LEMMA TenBits ==
    ASSUME NEW a \in Int PROVE a % 1024 \in Reg
BY SMT DEF Reg

\* Three bits, and one, count the data.
LEMMA CountRange ==
    ASSUME NEW a \in Nat PROVE CountIn(a) \in 0 .. 8
<1> DEFINE high == 2 ^ 12
<1>1. high \in Nat \ {0}
    BY SMT
<1> HIDE DEF high
<1>2. a \div high \in Nat
    BY <1>1, QuotientNat
<1>3. \A b \in Nat : (b % 8) + 1 \in 0 .. 8
    BY SMT
<1>4. ((a \div high) % 8) + 1 \in 0 .. 8
    BY <1>2, <1>3
<1> QED
    BY <1>4, Zenon DEF CountIn, high

LEMMA WordNat ==
    ASSUME NEW n \in Word PROVE n \in Nat
BY DEF Word

\* A high and a low byte make a word.
LEMMA BytesMakeWord ==
    ASSUME NEW a \in Nat, a <= LastHigh, NEW b \in Byte PROVE a + b \in Word
<1> DEFINE top == 256 * 256
<1>1. LastHigh \in Int /\ top \in Int /\ LastHigh + 256 = top
    BY DEF LastHigh
<1> HIDE DEF top
<1>2. a + b \in 0 .. top - 1
    BY <1>1 DEF Byte
<1> QED
    BY <1>2, Zenon DEF Word, top

\* The decoder after an instruction.
LEMMA InstructedShape ==
    ASSUME wire \in Wires, NEW n \in Word
    PROVE  Instructed(n) \in Wires /\ Instructed(n).position = wire.position
<1> DEFINE write == Bit(n, 15)
           count == CountIn(n)
           address == n % 1024
<1>1. write \in BOOLEAN
    BY DEF Bit
<1>2. n \in Nat
    BY DEF Word
<1>3. count \in 0 .. 8 /\ address \in Reg
    BY <1>2, TenBits, CountRange
<1>4. Instructed(n) =
        [wire EXCEPT !.instruction = n, !.write = write, !.count = count,
                     !.address = address, !.dataIndex = 0]
    BY Zenon DEF Instructed
<1> HIDE DEF write, count, address
<1> DEFINE w1 == [wire EXCEPT !.instruction = n]
           w2 == [w1 EXCEPT !.write = write]
           w3 == [w2 EXCEPT !.count = count]
           w4 == [w3 EXCEPT !.address = address]
           w5 == [w4 EXCEPT !.dataIndex = 0]
<1>5. w1 \in Wires /\ w1.position = wire.position
    BY DEF Wires
<1> HIDE DEF w1
<1>6. w2 \in Wires /\ w2.position = wire.position
    BY <1>1, <1>5 DEF Wires
<1> HIDE DEF w2
<1>7. w3 \in Wires /\ w3.position = wire.position
    BY <1>3, <1>6 DEF Wires
<1> HIDE DEF w3
<1>8. w4 \in Wires /\ w4.position = wire.position
    BY <1>3, <1>7 DEF Wires
<1> HIDE DEF w4
<1>9. w5 \in Wires /\ w5.position = wire.position
    BY <1>8 DEF Wires
<1> QED
    BY <1>4, <1>9 DEF w1, w2, w3, w4, w5

LEMMA OffsetInt ==
    ASSUME NEW r \in Reg, NEW k \in 0 .. 8 PROVE r - k \in Int
BY DEF Reg

\* The address of a data byte.
LEMMA AddressedReg ==
    ASSUME wire \in Wires PROVE Addressed(wire) \in Reg
<1>1. wire.address \in Reg /\ wire.dataIndex \in 0 .. 8
    BY DEF Wires
<1>2. wire.address - wire.dataIndex \in Int
    BY <1>1, OffsetInt
<1> QED
    BY <1>2, TenBits DEF Addressed

\* A transfer advances the decoder; the position after the first byte is 1.
LEMMA TransferKeeps ==
    ASSUME Shapes, NEW tx \in Byte, NEW w \in Wires,
           w.position = 0 => w.instruction <= LastHigh, Transfer(tx, w)
    PROVE  wire' \in Wires /\ HighByte' /\ edges' \in 0 .. MaxEdges
<1> DEFINE next == (w.position + 1) % Wrap
<1>1. w.position \in 0 .. Wrap - 1 /\ Wrap \in Nat /\ Wrap > 10
    BY WireAssumption DEF Wires
<1>2. next \in 0 .. Wrap - 1 /\ (next = 1 => w.position = 0)
    <2>1. CASE w.position + 1 < Wrap
        <3>1. next = w.position + 1
            BY <1>1, <2>1, SMT
        <3> HIDE DEF next
        <3> QED
            BY <1>1, <2>1, <3>1
    <2>2. CASE w.position + 1 = Wrap
        <3>1. next = 0
            BY <1>1, <2>2, SMT
        <3> HIDE DEF next
        <3> QED
            BY <1>1, <3>1
    <2> QED
        BY <1>1, <2>1, <2>2
<1>3. wire' = [w EXCEPT !.position = next]
    BY DEF Transfer, Advanced
<1> HIDE DEF next
<1>4. wire' \in Wires /\ HighByte'
    BY <1>2, <1>3 DEF Wires, HighByte
<1>5. edges' \in 0 .. MaxEdges
    BY WireAssumption DEF Transfer, Shapes
<1> QED
    BY <1>4, <1>5

\* Bytes that change nothing but the decoder.
LEMMA ByteKeeps ==
    ASSUME IInv, InstructionHigh \/ InstructionLow \/ ReadData \/ SpareByte
    PROVE  IInv'
<1> USE DEF IInv
<1>1. chip \in Chips /\ wire \in Wires /\ HighByte
    BY DEF Shapes
<1>2. (wire \in Wires /\ HighByte)' /\ edges' \in 0 .. MaxEdges
    <2>1. CASE InstructionHigh
        <3>1. PICK tx \in Byte : Transfer(tx, [wire EXCEPT !.instruction = tx * 256])
            BY <2>1 DEF InstructionHigh
        <3>2. tx * 256 \in Word /\ tx * 256 <= LastHigh
            <4>1. tx * 256 \in Nat /\ tx * 256 <= LastHigh
                BY DEF Byte, LastHigh
            <4>2. tx * 256 + 0 \in Word
                BY <4>1, BytesMakeWord DEF Byte
            <4> QED
                BY <4>1, <4>2
        <3>3. [wire EXCEPT !.instruction = tx * 256] \in Wires
            BY <1>1, <3>2 DEF Wires
        <3>4. [wire EXCEPT !.instruction = tx * 256].instruction <= LastHigh
            BY <1>1, <3>2 DEF Wires
        <3> QED
            BY <3>1, <3>3, <3>4, TransferKeeps
    <2>2. CASE InstructionLow
        <3>1. PICK tx \in Byte : Transfer(tx, Instructed(wire.instruction + tx))
            BY <2>2 DEF InstructionLow
        <3>2. wire.position = 1
            BY <2>2 DEF InstructionLow
        <3>3. wire.instruction \in Nat /\ wire.instruction <= LastHigh
            <4>1. wire.instruction \in Nat
                BY <1>1, WordNat DEF Wires
            <4>2. wire.instruction <= LastHigh
                BY <1>1, <3>2 DEF HighByte
            <4> QED
                BY <4>1, <4>2
        <3>4. wire.instruction + tx \in Word
            BY <3>3, BytesMakeWord
        <3>5. /\ Instructed(wire.instruction + tx) \in Wires
              /\ Instructed(wire.instruction + tx).position = 1
            BY <1>1, <3>2, <3>4, InstructedShape
        <3> DEFINE w == Instructed(wire.instruction + tx)
        <3>6. w \in Wires /\ w.position # 0 /\ Transfer(tx, w)
            BY <3>1, <3>5
        <3> HIDE DEF w
        <3> QED
            BY <3>6, TransferKeeps
    <2>3. CASE ReadData
        <3>1. PICK tx \in Byte : Transfer(tx, [wire EXCEPT !.dataIndex = wire.dataIndex + 1])
            BY <2>3 DEF ReadData
        <3>2. wire.dataIndex + 1 \in 0 .. 8 /\ wire.position # 0
            BY <1>1, <2>3 DEF ReadData, HasData, Wires
        <3>3. /\ [wire EXCEPT !.dataIndex = wire.dataIndex + 1] \in Wires
              /\ [wire EXCEPT !.dataIndex = wire.dataIndex + 1].position # 0
            BY <1>1, <3>2 DEF Wires
        <3> QED
            BY <3>1, <3>3, TransferKeeps
    <2>4. CASE SpareByte
        <3>1. PICK tx \in Byte : Transfer(tx, wire)
            BY <2>4 DEF SpareByte
        <3>2. wire.position # 0
            BY <2>4 DEF SpareByte
        <3> QED
            BY <1>1, <3>1, <3>2, TransferKeeps
    <2> QED
        BY <2>1, <2>2, <2>3, <2>4
<1>3. rx' \in Byte
    <2>1. CASE ReadData
        <3>1. Addressed(wire) \in Reg
            BY <1>1, AddressedReg
        <3> QED
            BY <1>1, <2>1, <3>1, ReadByte DEF ReadData
    <2>2. CASE ~ReadData
        <3>1. Unanswered
            BY <2>2 DEF InstructionHigh, InstructionLow, SpareByte
        <3> QED
            BY <3>1 DEF Unanswered, Byte
    <2> QED
        BY <2>1, <2>2
<1>4. UNCHANGED <<chip, alive, tuned>>
    BY Zenon DEF InstructionHigh, InstructionLow, ReadData, SpareByte, Unanswered
<1> QED
    BY <1>2, <1>3, <1>4 DEF Shapes, CodesServe

\* A data byte that is written.
LEMMA WriteKeeps ==
    ASSUME IInv, WriteData
    PROVE  IInv'
<1> USE DEF IInv
<1> DEFINE r == Addressed(wire)
<1>1. chip \in Chips /\ wire \in Wires /\ r \in Reg
    BY AddressedReg DEF Shapes
<1> HIDE DEF r
<1>2. PICK tx \in Byte :
        /\ chip' = Written(chip, r, tx)
        /\ tuned' = TunedAfter(r, tx)
        /\ Transfer(tx, [DecoderAfter(r, tx) EXCEPT !.dataIndex = @ + 1])
    BY DEF WriteData, r
<1>3. chip' \in Chips
    BY <1>1, <1>2, WrittenShape
<1>4. CodesServe'
    BY <1>1, <1>2, WriteServes DEF CodesServe
<1> DEFINE decoder == DecoderAfter(r, tx)
           w == [decoder EXCEPT !.dataIndex = decoder.dataIndex + 1]
<1>5. /\ decoder \in Wires /\ decoder.dataIndex <= 7
      /\ decoder.position = 0 => decoder.instruction <= LastHigh
    <2>1. CASE decoder = wire
        BY <1>1, <2>1 DEF WriteData, HasData, Wires
    <2>2. CASE decoder = ResetWire
        BY <2>2, ResetWireShape DEF ResetWire, LastHigh
    <2> QED
        BY <2>1, <2>2 DEF DecoderAfter
<1>6. Transfer(tx, w)
    BY <1>2
<1> HIDE DEF decoder
<1>7. w \in Wires /\ (w.position = 0 => w.instruction <= LastHigh)
    BY <1>5 DEF Wires
<1> HIDE DEF w
<1>8. wire' \in Wires /\ HighByte' /\ edges' \in 0 .. MaxEdges
    BY <1>6, <1>7, TransferKeeps
<1>9. rx' \in Byte /\ alive' \in BOOLEAN
    BY DEF WriteData, Shapes, Byte
<1> QED
    BY <1>3, <1>4, <1>8, <1>9 DEF Shapes

LEMMA FreshKeeps ==
    ASSUME IInv, Fresh, edges' = edges
    PROVE  IInv'
<1>1. chip' \in Chips /\ wire' \in Wires /\ HighByte'
    BY ResetShape, ResetWireShape DEF Fresh, HighByte
<1>2. CodesServe'
    BY DEF Fresh, CodesServe, Served
<1> QED
    BY <1>1, <1>2 DEF Fresh, IInv, Shapes, Byte

LEMMA InitIInv == Init => IInv
<1> SUFFICES ASSUME Init PROVE IInv
    OBVIOUS
<1>1. chip \in Chips /\ wire \in Wires /\ HighByte
    BY ResetShape, ResetWireShape DEF Init, HighByte
<1>2. CodesServe
    BY DEF Init, CodesServe, Served
<1>3. rx \in Byte /\ alive \in BOOLEAN /\ edges \in 0 .. MaxEdges
    BY WireAssumption DEF Init, Byte
<1> QED
    BY <1>1, <1>2, <1>3 DEF IInv, Shapes

LEMMA NextKeeps == IInv /\ [Next]_vars => IInv'
<1> SUFFICES ASSUME IInv, [Next]_vars PROVE IInv'
    OBVIOUS
<1> USE DEF IInv
<1>1. CASE SetCs
    <2>1. wire' = [ResetWire EXCEPT !.address = wire.address] /\ wire.address \in Reg
        BY <1>1 DEF SetCs, Deselected, Shapes, Wires
    <2>2. wire' \in Wires /\ wire'.position = 0
        BY <2>1, ResetWireShape DEF Wires
    <2>3. edges' \in 0 .. MaxEdges
        BY <1>1, WireAssumption DEF SetCs, Shapes
    <2> QED
        BY <1>1, <2>2, <2>3 DEF SetCs, Shapes, HighByte, CodesServe, Byte
<1>2. CASE Trap
    BY <1>2 DEF Trap, Shapes, HighByte, CodesServe
<1>3. CASE Relaunch \/ DeviceReset
    BY <1>3, FreshKeeps DEF Relaunch, DeviceReset
<1>4. CASE Migrate
    BY <1>4 DEF Migrate, SavedWire, Shapes, HighByte, CodesServe
<1>5. CASE UNCHANGED vars
    BY <1>5 DEF vars, Shapes, HighByte, CodesServe
<1> QED
    BY <1>1, <1>2, <1>3, <1>4, <1>5, ByteKeeps, WriteKeeps DEF Next

\* The inductive invariant holds in every reachable state.
THEOREM WireInvariant == Spec => []IInv
BY InitIInv, NextKeeps, PTL DEF Spec

\* Whatever bytes the master sends and wherever it cuts them, the register file
\* holds bytes and the decoder's fields stay in their ranges.
THEOREM WireTypes == Spec => []TypeOK
<1>1. IInv => TypeOK
    BY ShapesAreTypes DEF IInv
<1> QED
    BY <1>1, WireInvariant, PTL

\* For every setup the driver can program and for the code's own numbers, which
\* TLC cannot hold, the driver reads the capacitance that was computed.
THEOREM TunerServes == Spec => []CodesServeDriver
<1>1. IInv => CodesServeDriver
    BY ServedIsProperty DEF IInv, CodesServe
<1> QED
    BY <1>1, WireInvariant, PTL

(***************************************************************************)
(* The bytes of a transaction, read as a whole.                            *)
(***************************************************************************)

\* Data bytes of a transaction so far.
DataCount(bytes) ==
    IF Len(bytes) < 3 THEN 0 ELSE Smaller(Len(bytes) - 2, Asked(bytes))

Datum(bytes, i) == [reg |-> (First(bytes) + 1 - i) % 1024, value |-> bytes[i + 2]]

\* Three bits count up to eight data bytes.
LEMMA AskedRange ==
    ASSUME NEW bytes \in Seq(Byte), Len(bytes) > 0
    PROVE  Asked(bytes) \in 1 .. 8
<1>1. bytes[1] \in Byte
    OBVIOUS
<1>2. \A b \in Byte : ((b \div 16) % 8) + 1 \in 1 .. 8
    BY SMT DEF Byte
<1> QED
    BY <1>1, <1>2 DEF Asked

LEMMA DataShape ==
    ASSUME NEW bytes \in Seq(Byte)
    PROVE  /\ DataCount(bytes) \in 0 .. 8
           /\ Len(Data(bytes)) = DataCount(bytes)
           /\ DOMAIN Data(bytes) = 1 .. DataCount(bytes)
           /\ \A i \in 1 .. DataCount(bytes) : Data(bytes)[i] = Datum(bytes, i)
<1>1. CASE Len(bytes) < 3
    BY <1>1 DEF Data, DataCount
<1>2. CASE Len(bytes) >= 3
    <2> DEFINE n == Smaller(Len(bytes) - 2, Asked(bytes))
    <2>0. Len(bytes) \in Nat /\ ~(Len(bytes) < 3) /\ Asked(bytes) \in 1 .. 8
        BY <1>2, AskedRange
    <2>1. n \in 1 .. 8
        <3> DEFINE a == Len(bytes)
                   b == Asked(bytes)
        <3>1. a \in Nat /\ a >= 3 /\ b \in 1 .. 8
            BY <2>0
        <3> HIDE DEF a, b
        <3>2. Smaller(a - 2, b) \in 1 .. 8
            BY <3>1 DEF Smaller
        <3> QED
            BY <3>2 DEF a, b
    <2>2. DataCount(bytes) = n
        BY <1>2 DEF DataCount
    <2>3. Data(bytes) = [i \in 1 .. n |-> Datum(bytes, i)]
        BY <2>0, Zenon DEF Data, Datum
    <2> HIDE DEF n
    <2>4. Data(bytes) \in Seq({Datum(bytes, i) : i \in 1 .. n})
        BY <2>1, <2>3
    <2> QED
        BY <2>1, <2>2, <2>3, <2>4
<1> QED
    BY <1>1, <1>2

\* One more byte is one more datum as long as the instruction asks for data.
LEMMA DataGrows ==
    ASSUME NEW bytes \in Seq(Byte), Len(bytes) >= 2, NEW tx \in Byte
    PROVE  LET longer == Append(bytes, tx) IN
           /\ IsWrite(longer) = IsWrite(bytes) /\ Asked(longer) = Asked(bytes)
           /\ First(longer) = First(bytes)
           /\ DataCount(bytes) = Smaller(Len(bytes) - 2, Asked(bytes))
           /\ DataCount(longer) = Smaller(Len(bytes) - 1, Asked(bytes))
           /\ \A i \in 1 .. DataCount(bytes) : Data(longer)[i] = Data(bytes)[i]
           /\ \A i \in 1 .. DataCount(longer) : Data(longer)[i] = Datum(longer, i)
<1> DEFINE longer == Append(bytes, tx)
<1>1. /\ longer \in Seq(Byte) /\ Len(longer) = Len(bytes) + 1
      /\ \A i \in 1 .. Len(bytes) : longer[i] = bytes[i]
    OBVIOUS
<1> HIDE DEF longer
<1>2. longer[1] = bytes[1] /\ longer[2] = bytes[2]
    BY <1>1
<1>3. IsWrite(longer) = IsWrite(bytes) /\ Asked(longer) = Asked(bytes) /\ First(longer) = First(bytes)
    BY <1>2 DEF IsWrite, Asked, First
<1>4. Asked(bytes) \in 1 .. 8
    BY AskedRange
<1>5. /\ DataCount(bytes) = Smaller(Len(bytes) - 2, Asked(bytes))
      /\ DataCount(longer) = Smaller(Len(bytes) - 1, Asked(bytes))
    BY <1>1, <1>3, <1>4 DEF DataCount, Smaller
<1>6. /\ \A i \in 1 .. DataCount(bytes) : Data(bytes)[i] = Datum(bytes, i)
      /\ \A i \in 1 .. DataCount(longer) : Data(longer)[i] = Datum(longer, i)
    BY <1>1, DataShape
<1>7. ASSUME NEW i \in 1 .. DataCount(bytes)
      PROVE  Data(longer)[i] = Data(bytes)[i]
    <2>1. i \in 1 .. DataCount(longer) /\ i + 2 \in 1 .. Len(bytes)
        BY <1>4, <1>5 DEF Smaller
    <2>2. Datum(longer, i) = Datum(bytes, i)
        BY <1>1, <1>3, <2>1 DEF Datum
    <2> QED
        BY <1>6, <2>1, <2>2
<1> QED
    BY <1>3, <1>5, <1>6, <1>7 DEF longer

LEMMA ResetsOfFew ==
    ASSUME NEW bytes \in Seq(Byte), Len(bytes) <= 2
    PROVE  DataCount(bytes) = 0 /\ Resets(bytes) = {}
<1>1. DataCount(bytes) = 0
    BY DEF DataCount
<1>2. DOMAIN Data(bytes) = {}
    BY <1>1, DataShape
<1> QED
    BY <1>1, <1>2 DEF Resets

\* Resets that were asked for remain so, and a further byte asks for one more at most.
LEMMA ResetsGrow ==
    ASSUME NEW bytes \in Seq(Byte), Len(bytes) >= 2, NEW tx \in Byte
    PROVE  LET longer == Append(bytes, tx) IN
           /\ Resets(bytes) \subseteq 1 .. DataCount(bytes)
           /\ Resets(bytes) \subseteq Resets(longer)
           /\ \A i \in Resets(longer) : i \in Resets(bytes) \/ i = DataCount(bytes) + 1
<1> DEFINE longer == Append(bytes, tx)
<1>1. longer \in Seq(Byte)
    OBVIOUS
<1>2. /\ IsWrite(longer) = IsWrite(bytes)
      /\ DataCount(bytes) = Smaller(Len(bytes) - 2, Asked(bytes))
      /\ DataCount(longer) = Smaller(Len(bytes) - 1, Asked(bytes))
      /\ \A i \in 1 .. DataCount(bytes) : Data(longer)[i] = Data(bytes)[i]
    BY DataGrows
<1> HIDE DEF longer
<1>3. DOMAIN Data(bytes) = 1 .. DataCount(bytes) /\ DOMAIN Data(longer) = 1 .. DataCount(longer)
    BY <1>1, DataShape
<1>4. Asked(bytes) \in 1 .. 8
    BY AskedRange
<1>5. \A i : i \in 1 .. DataCount(longer) => i \in 1 .. DataCount(bytes) \/ i = DataCount(bytes) + 1
    BY <1>2, <1>4 DEF Smaller
<1>6. 1 .. DataCount(bytes) \subseteq 1 .. DataCount(longer)
    BY <1>2, <1>4 DEF Smaller
<1>7. \A i \in 1 .. DataCount(bytes) : i \in Resets(bytes) <=> i \in Resets(longer)
    BY <1>2, <1>3, <1>6, Zenon DEF Resets
<1>8. Resets(bytes) \subseteq 1 .. DataCount(bytes) /\ Resets(longer) \subseteq 1 .. DataCount(longer)
    BY <1>3 DEF Resets
<1> QED
    BY <1>5, <1>7, <1>8 DEF longer

(***************************************************************************)
(* The chip after the writes of a transaction.                             *)
(***************************************************************************)

LEMMA LeastNumber ==
    ASSUME NEW S, S \subseteq Nat, S # {}
    PROVE  \E m \in S : \A k \in S : m <= k
<1>1. IsWellFoundedOn(OpToRel(<, Nat), Nat)
    BY NatLessThanWellFounded, Zenon
<1>2. PICK m \in S : \A k \in S : <<k, m>> \notin OpToRel(<, Nat)
    BY <1>1, WFMin, Zenon
<1>3. \A k \in S : ~(k < m)
    BY <1>2 DEF OpToRel
<1> QED
    BY <1>3

\* The i-th datum does this to the chip.
Step(bytes, i, c) ==
    IF Effective(bytes, i) THEN Written(c, Data(bytes)[i].reg, Data(bytes)[i].value) ELSE c

\* g is the chip after each of the first n data bytes.
IsReplay(g, c, bytes, n) ==
    g = [i \in 0 .. n |-> IF i = 0 THEN c ELSE Step(bytes, i, g[i - 1])]

LEMMA ReplaysExist ==
    ASSUME NEW c, NEW bytes
    PROVE  \A n \in Nat : \E g : IsReplay(g, c, bytes, n)
<1> DEFINE Is(g, n) == IsReplay(g, c, bytes, n)
           None == {n \in Nat : ~\E g : Is(g, n)}
<1> USE DEF IsReplay
<1> SUFFICES ASSUME None # {} PROVE FALSE
    OBVIOUS
<1>1. PICK n \in None : \A k \in None : n <= k
    BY LeastNumber
<1>2. n # 0
    <2> DEFINE g == [i \in 0 .. 0 |-> c]
    <2>1. Is(g, 0)
        OBVIOUS
    <2> QED
        BY <1>1, <2>1
<1>3. n \in Nat /\ n - 1 \in Nat /\ n - 1 \notin None
    <2>1. n \in Nat
        BY <1>1
    <2> HIDE DEF None
    <2> QED
        BY <1>1, <1>2, <2>1
<1>4. PICK g : Is(g, n - 1)
    BY <1>3
<1> DEFINE h == [i \in 0 .. n |-> IF i = n THEN Step(bytes, n, g[n - 1]) ELSE g[i]]
<1>5. \A i \in 0 .. n - 1 : g[i] = IF i = 0 THEN c ELSE Step(bytes, i, g[i - 1])
    BY <1>4
<1>6. \A i \in 0 .. n : h[i] = IF i = 0 THEN c ELSE Step(bytes, i, h[i - 1])
    <2> TAKE i \in 0 .. n
    <2>1. CASE i = n
        <3>1. h[i] = Step(bytes, n, g[n - 1]) /\ h[i - 1] = g[n - 1]
            BY <1>3, <2>1
        <3> QED
            BY <1>2, <2>1, <3>1
    <2>2. CASE i # n /\ i # 0
        <3>1. i \in 0 .. n - 1 /\ i - 1 \in 0 .. n /\ i - 1 # n
            BY <1>3, <2>2
        <3>2. h[i] = g[i] /\ h[i - 1] = g[i - 1]
            BY <2>2, <3>1
        <3> QED
            BY <1>5, <2>2, <3>1, <3>2
    <2>3. CASE i # n /\ i = 0
        <3>1. h[i] = g[i] /\ i \in 0 .. n - 1
            BY <1>3, <2>3
        <3> QED
            BY <1>5, <2>3, <3>1
    <2> QED
        BY <2>1, <2>2, <2>3
<1>7. Is(h, n)
    <2>1. h = [i \in 0 .. n |-> h[i]]
        OBVIOUS
    <2> HIDE DEF h
    <2> QED
        BY <1>6, <2>1
<1> QED
    BY <1>1, <1>7

\* g replays the data of bytes, one after the other.
Replays(g, c, bytes, n) ==
    g[0] = c /\ \A i \in 1 .. n : g[i] = Step(bytes, i, g[i - 1])

LEMMA OutcomeReplays ==
    ASSUME NEW c, NEW bytes \in Seq(Byte)
    PROVE  \E g : Replays(g, c, bytes, DataCount(bytes)) /\ Outcome(c, bytes) = g[DataCount(bytes)]
<1> DEFINE n == DataCount(bytes)
           g == CHOOSE g : IsReplay(g, c, bytes, n)
<1>1. n \in Nat /\ Len(Data(bytes)) = n
    BY DataShape
<1>2. Outcome(c, bytes) = g[n]
    BY <1>1, Zenon DEF Outcome, IsReplay, Step
<1>3. IsReplay(g, c, bytes, n)
    BY <1>1, ReplaysExist
<1> HIDE DEF g, n
<1>4. g = [i \in 0 .. n |-> IF i = 0 THEN c ELSE Step(bytes, i, g[i - 1])]
    BY <1>3 DEF IsReplay
<1>5. \A i \in 0 .. n : g[i] = IF i = 0 THEN c ELSE Step(bytes, i, g[i - 1])
    BY <1>4
<1>6. Replays(g, c, bytes, n)
    BY <1>1, <1>5 DEF Replays
<1> QED
    BY <1>2, <1>6 DEF n

\* Transactions that agree on their first n data bytes replay them alike.
LEMMA ReplaysAgree ==
    ASSUME NEW n \in Nat, NEW c, NEW a, NEW b, NEW g, NEW h,
           Replays(g, c, a, n), Replays(h, c, b, n),
           \A i \in 1 .. n : \A d : Step(a, i, d) = Step(b, i, d)
    PROVE  g[n] = h[n]
<1> DEFINE Differ == {i \in 0 .. n : g[i] # h[i]}
<1> SUFFICES ASSUME Differ # {} PROVE FALSE
    OBVIOUS
<1>1. PICK m \in Differ : \A k \in Differ : m <= k
    <2>1. Differ \subseteq Nat
        OBVIOUS
    <2> HIDE DEF Differ
    <2> QED
        BY <2>1, LeastNumber
<1>2. m # 0
    <2>1. g[0] = h[0]
        BY DEF Replays
    <2>2. g[m] # h[m]
        BY <1>1
    <2> QED
        BY <2>1, <2>2
<1>3. m \in 1 .. n /\ m - 1 \in 0 .. n /\ m - 1 \notin Differ
    <2>1. m \in 0 .. n
        OBVIOUS
    <2> HIDE DEF Differ
    <2> QED
        BY <1>1, <1>2, <2>1
<1>4. g[m - 1] = h[m - 1]
    BY <1>3
<1>5. g[m] = Step(a, m, g[m - 1]) /\ h[m] = Step(b, m, h[m - 1])
    BY <1>3 DEF Replays
<1> QED
    BY <1>1, <1>3, <1>4, <1>5

LEMMA OutcomeOfNone ==
    ASSUME NEW c, NEW bytes \in Seq(Byte), DataCount(bytes) = 0
    PROVE  Outcome(c, bytes) = c
BY OutcomeReplays DEF Replays

\* Two transactions with the same data and effects have the same outcome.
LEMMA OutcomeSame ==
    ASSUME NEW c, NEW a \in Seq(Byte), NEW b \in Seq(Byte), DataCount(a) = DataCount(b),
           \A i \in 1 .. DataCount(a) : \A d : Step(a, i, d) = Step(b, i, d)
    PROVE  Outcome(c, a) = Outcome(c, b)
<1>1. PICK g : Replays(g, c, a, DataCount(a)) /\ Outcome(c, a) = g[DataCount(a)]
    BY OutcomeReplays
<1>2. PICK h : Replays(h, c, b, DataCount(b)) /\ Outcome(c, b) = h[DataCount(b)]
    BY OutcomeReplays
<1>3. DataCount(a) \in Nat
    BY DataShape
<1> QED
    BY <1>1, <1>2, <1>3, ReplaysAgree

\* One more datum.
LEMMA OutcomeFurther ==
    ASSUME NEW c, NEW a \in Seq(Byte), NEW b \in Seq(Byte), DataCount(b) = DataCount(a) + 1,
           \A i \in 1 .. DataCount(a) : \A d : Step(a, i, d) = Step(b, i, d)
    PROVE  Outcome(c, b) = Step(b, DataCount(b), Outcome(c, a))
<1> DEFINE n == DataCount(a)
<1>1. PICK g : Replays(g, c, a, n) /\ Outcome(c, a) = g[n]
    BY OutcomeReplays
<1>2. PICK h : Replays(h, c, b, n + 1) /\ Outcome(c, b) = h[n + 1]
    BY OutcomeReplays
<1>3. n \in Nat
    BY DataShape
<1> HIDE DEF n
<1>4. Replays(h, c, b, n) /\ h[n + 1] = Step(b, n + 1, h[n])
    <2>1. \A i \in 1 .. n : i \in 1 .. n + 1
        BY <1>3
    <2>2. n + 1 \in 1 .. n + 1 /\ n + 1 - 1 = n
        BY <1>3
    <2>3. h[0] = c /\ \A i \in 1 .. n + 1 : h[i] = Step(b, i, h[i - 1])
        BY <1>2 DEF Replays
    <2>4. h[n + 1] = Step(b, n + 1, h[n])
        <3> DEFINE m == n + 1
        <3>1. m \in 1 .. n + 1 /\ m - 1 = n
            BY <1>3, <2>2
        <3> HIDE DEF m
        <3>2. h[m] = Step(b, m, h[m - 1])
            BY <2>3, <3>1
        <3>3. h[m] = Step(b, m, h[n])
            BY <3>1, <3>2
        <3> QED
            BY <3>3 DEF m
    <2>5. \A i \in 1 .. n : h[i] = Step(b, i, h[i - 1])
        BY <2>1, <2>3
    <2> QED
        BY <2>3, <2>4, <2>5 DEF Replays
<1>5. g[n] = h[n]
    BY <1>1, <1>3, <1>4, ReplaysAgree DEF n
<1> QED
    BY <1>1, <1>2, <1>4, <1>5 DEF n

\* What the i-th datum does is the same with a further byte behind it, unless that
\* byte asks for the first reset.
LEMMA StepsKept ==
    ASSUME NEW bytes \in Seq(Byte), Len(bytes) >= 2, NEW tx \in Byte
    PROVE  LET longer == Append(bytes, tx) IN
           \A i \in 1 .. DataCount(bytes) : \A d : Step(bytes, i, d) = Step(longer, i, d)
<1> DEFINE longer == Append(bytes, tx)
           n == DataCount(bytes)
<1>1. /\ IsWrite(longer) = IsWrite(bytes)
      /\ \A i \in 1 .. n : Data(longer)[i] = Data(bytes)[i]
    BY DataGrows
<1>2. /\ Resets(bytes) \subseteq Resets(longer)
      /\ \A i \in Resets(longer) : i \in Resets(bytes) \/ i = n + 1
    BY ResetsGrow
<1>3. n \in Nat
    BY DataShape
<1> HIDE DEF longer, n
<1> SUFFICES ASSUME NEW i \in 1 .. n, NEW d PROVE Step(bytes, i, d) = Step(longer, i, d)
    BY DEF longer, n
<1>4. i <= n + 1
    BY <1>3
<1>5. Effective(bytes, i) <=> Effective(longer, i)
    BY <1>1, <1>2, <1>4, Zenon DEF Effective
<1> QED
    BY <1>1, <1>5, Zenon DEF Step

\* After a reset a further byte does nothing.
LEMMA OutcomeAfterReset ==
    ASSUME NEW c, NEW bytes \in Seq(Byte), Len(bytes) >= 2, NEW tx \in Byte,
           Resets(bytes) # {}
    PROVE  Outcome(c, Append(bytes, tx)) = Outcome(c, bytes)
<1> DEFINE longer == Append(bytes, tx)
           n == DataCount(bytes)
<1>1. longer \in Seq(Byte)
    OBVIOUS
<1>2. DataCount(longer) = n \/ DataCount(longer) = n + 1
    BY DataGrows, AskedRange DEF Smaller
<1>3. \A i \in 1 .. n : \A d : Step(bytes, i, d) = Step(longer, i, d)
    BY StepsKept
<1>4. CASE DataCount(longer) = n
    BY <1>1, <1>3, <1>4, OutcomeSame
<1>5. CASE DataCount(longer) = n + 1
    <2>1. Outcome(c, longer) = Step(longer, n + 1, Outcome(c, bytes))
        BY <1>1, <1>3, <1>5, OutcomeFurther
    <2>2. PICK j \in Resets(longer) : j \in 1 .. n
        BY ResetsGrow
    <2>3. ~(n + 1 <= j)
        BY <2>2, DataShape
    <2>4. ~Effective(longer, n + 1)
        BY <2>2, <2>3 DEF Effective
    <2> QED
        BY <2>1, <2>4, Zenon DEF Step
<1> QED
    BY <1>2, <1>4, <1>5

\* A spare byte does nothing.
LEMMA OutcomeOfSpare ==
    ASSUME NEW c, NEW bytes \in Seq(Byte), Len(bytes) >= 2, NEW tx \in Byte,
           Len(bytes) - 2 >= Asked(bytes), Resets(bytes) = {}
    PROVE  LET longer == Append(bytes, tx) IN
           /\ Resets(longer) = {} /\ DataCount(longer) = DataCount(bytes)
           /\ Outcome(c, longer) = Outcome(c, bytes)
<1> DEFINE longer == Append(bytes, tx)
           n == DataCount(bytes)
<1>1. longer \in Seq(Byte)
    OBVIOUS
<1>2. DataCount(longer) = n
    BY DataGrows, AskedRange DEF Smaller
<1>3. Outcome(c, longer) = Outcome(c, bytes)
    BY <1>1, <1>2, StepsKept, OutcomeSame
<1>4. Resets(longer) = {}
    <2>1. DOMAIN Data(longer) = 1 .. n
        BY <1>1, <1>2, DataShape
    <2>2. Resets(longer) \subseteq 1 .. n
        BY <2>1 DEF Resets
    <2>3. \A i \in Resets(longer) : i = n + 1
        BY ResetsGrow
    <2>4. n \in Nat
        BY DataShape
    <2> HIDE DEF longer, n
    <2> QED
        BY <2>2, <2>3, <2>4
<1> QED
    BY <1>2, <1>3, <1>4

LEMMA FirstInt ==
    ASSUME NEW bytes \in Seq(Byte), Len(bytes) >= 2
    PROVE  First(bytes) \in Int
<1>1. bytes[1] \in Byte /\ bytes[2] \in Byte
    OBVIOUS
<1>2. \A b \in Byte : b \in Nat
    BY DEF Byte
<1>3. \A a, b \in Nat : (a * 256 + b) % 1024 \in Int
    OBVIOUS
<1> QED
    BY <1>1, <1>2, <1>3 DEF First

\* A datum that is written before any reset takes effect.
LEMMA OutcomeOfWrite ==
    ASSUME NEW c, NEW bytes \in Seq(Byte), Len(bytes) >= 2, NEW tx \in Byte,
           Len(bytes) - 2 < Asked(bytes), IsWrite(bytes), Resets(bytes) = {}
    PROVE  Outcome(c, Append(bytes, tx)) =
               Written(Outcome(c, bytes), (First(bytes) + 2 - Len(bytes)) % 1024, tx)
<1> DEFINE longer == Append(bytes, tx)
           n == DataCount(bytes)
<1>1. longer \in Seq(Byte) /\ Len(bytes) \in Nat /\ longer[Len(bytes) + 1] = tx
    OBVIOUS
<1>2. n = Len(bytes) - 2 /\ DataCount(longer) = n + 1 /\ n \in Nat
    BY DataGrows, AskedRange DEF Smaller
<1>3. Outcome(c, longer) = Step(longer, n + 1, Outcome(c, bytes))
    BY <1>1, <1>2, StepsKept, OutcomeFurther
<1>4. Effective(longer, n + 1)
    <2>1. IsWrite(longer)
        BY DataGrows
    <2>2. \A i \in Resets(longer) : i = n + 1
        BY ResetsGrow
    <2>3. n + 1 <= n + 1
        BY <1>2
    <2> HIDE DEF longer, n
    <2> QED
        BY <2>1, <2>2, <2>3, Zenon DEF Effective
<1>5. Data(longer)[n + 1] = Datum(longer, n + 1)
    BY <1>2, DataGrows
<1>6. First(longer) = First(bytes)
    BY DataGrows
<1>7. /\ n + 1 + 2 = Len(bytes) + 1
      /\ First(bytes) \in Int => First(bytes) + 1 - (n + 1) = First(bytes) + 2 - Len(bytes)
    BY <1>1, <1>2
<1>8. First(bytes) \in Int
    BY FirstInt
<1> HIDE DEF longer, n
<1>9. /\ Data(longer)[n + 1].reg = (First(bytes) + 2 - Len(bytes)) % 1024
      /\ Data(longer)[n + 1].value = tx
    <2>0. Datum(longer, n + 1) =
            [reg |-> (First(longer) + 1 - (n + 1)) % 1024, value |-> longer[n + 1 + 2]]
        BY DEF Datum
    <2>1. Datum(longer, n + 1) =
            [reg |-> (First(bytes) + 1 - (n + 1)) % 1024, value |-> longer[n + 1 + 2]]
        BY <1>6, <2>0
    <2>2. Datum(longer, n + 1) =
            [reg |-> (First(bytes) + 2 - Len(bytes)) % 1024, value |-> tx]
        BY <1>1, <1>7, <1>8, <2>1
    <2> QED
        BY <1>5, <2>2
<1>10. Outcome(c, longer) = Written(Outcome(c, bytes), (First(bytes) + 2 - Len(bytes)) % 1024, tx)
    <2>1. Step(longer, n + 1, Outcome(c, bytes)) =
            Written(Outcome(c, bytes), Data(longer)[n + 1].reg, Data(longer)[n + 1].value)
        BY <1>4 DEF Step
    <2> QED
        BY <1>3, <1>9, <2>1
<1> QED
    BY <1>10 DEF longer

\* A read does nothing to the chip.
LEMMA OutcomeOfRead ==
    ASSUME NEW c, NEW bytes \in Seq(Byte), ~IsWrite(bytes)
    PROVE  Outcome(c, bytes) = c /\ Resets(bytes) = {}
<1> DEFINE n == DataCount(bytes)
           h == [i \in 0 .. n |-> c]
<1>1. PICK g : Replays(g, c, bytes, n) /\ Outcome(c, bytes) = g[n]
    BY OutcomeReplays
<1>2. n \in Nat
    BY DataShape
<1>3. \A i : \A d : Step(bytes, i, d) = d
    BY DEF Step, Effective
<1> HIDE DEF n
<1>4. Replays(h, c, bytes, n) /\ h[n] = c
    BY <1>2, <1>3 DEF Replays
<1> HIDE DEF h
<1>5. g[n] = h[n]
    BY <1>1, <1>2, <1>4, ReplaysAgree
<1> QED
    BY <1>1, <1>4, <1>5 DEF Resets

(***************************************************************************)
(* The decoder follows the bytes.                                          *)
(***************************************************************************)

\* Where the decoder is before any reset of the transaction.
Follows ==
    /\ Len(sent) = wire.position
    /\ Len(sent) = 1 => wire.instruction = sent[1] * 256
    /\ Len(sent) >= 2 =>
        /\ wire.write = IsWrite(sent) /\ wire.count = Asked(sent)
        /\ wire.address = First(sent) /\ wire.dataIndex = DataCount(sent)

\* After a reset it takes what is left of the transaction for a read.
Silent ==
    /\ wire.position # 0
    /\ wire.position = 1 => wire.instruction = 0
    /\ wire.position >= 2 => ~wire.write

\* Data are answered long before the position wraps.
DataInTime ==
    wire.position >= 2 /\ wire.dataIndex < wire.count => wire.position = wire.dataIndex + 2

Decoding ==
    /\ sent \in Seq(Byte)
    /\ wire.position = 0 => sent = <<>>
    /\ DataInTime
    /\ IF Resets(sent) = {} THEN Follows ELSE Silent

\* The same words in a whole instruction and in its two bytes.
LEMMA InstructionParts ==
    ASSUME NEW a \in Byte, NEW b \in Byte
    PROVE  /\ Bit(a * 256 + b, 15) <=> a >= 128
           /\ CountIn(a * 256 + b) = ((a \div 16) % 8) + 1
           /\ a * 256 + b \in Nat
<1>1. a \in Nat /\ a <= 255 /\ b \in Nat /\ b <= 255
    BY DEF Byte
<1>2. 2 ^ 15 = 32768 /\ 2 ^ 12 = 4096
    BY SMT
<1>3. (a * 256 + b) \div 32768 = IF a >= 128 THEN 1 ELSE 0
    BY <1>1
<1>4. Bit(a * 256 + b, 15) <=> a >= 128
    BY <1>2, <1>3 DEF Bit
<1>5. (a * 256 + b) \div 4096 = a \div 16
    BY <1>1
<1> QED
    BY <1>1, <1>2, <1>4, <1>5 DEF CountIn

\* A transfer's effect on the position and on the history.
LEMMA Transferred ==
    ASSUME NEW tx \in Byte, NEW w \in Wires, Transfer(tx, w), sent \in Seq(Byte)
    PROVE  /\ \A field \in DOMAIN w \ {"position"} : wire'[field] = w[field]
           /\ \/ /\ w.position + 1 = Wrap /\ wire'.position = 0
                 /\ sent' = <<>> /\ before' = chip'
              \/ /\ w.position + 1 < Wrap /\ wire'.position = w.position + 1
                 /\ sent' = Append(sent, tx) /\ before' = before
<1>1. w.position \in 0 .. Wrap - 1 /\ Wrap \in Nat /\ Wrap > 10
    BY WireAssumption DEF Wires
<1> DEFINE next == (w.position + 1) % Wrap
<1>2. \/ w.position + 1 = Wrap /\ next = 0
      \/ w.position + 1 < Wrap /\ next = w.position + 1
    BY <1>1, SMT
<1>3. wire' = [w EXCEPT !.position = next]
    BY DEF Transfer, Advanced
<1> HIDE DEF next
<1>4. wire'.position = next /\ \A field \in DOMAIN w \ {"position"} : wire'[field] = w[field]
    BY <1>3 DEF Wires
<1>5. /\ sent' = IF next = 0 THEN <<>> ELSE Append(sent, tx)
      /\ before' = IF next = 0 THEN chip' ELSE before
    BY <1>4 DEF Transfer
<1> QED
    BY <1>1, <1>2, <1>4, <1>5

\* Where a transaction can begin, nothing has been asked for yet.
LEMMA Begins ==
    ASSUME sent' = <<>>, before' = chip', rx' = 0, wire'.position = 0
    PROVE  (Decoding /\ WireDecodes)'
<1> DEFINE none == <<>>
<1>1. none \in Seq(Byte) /\ Len(none) = 0 /\ Len(none) <= 2 /\ sent' = none
    OBVIOUS
<1> HIDE DEF none
<1>2. DataCount(none) = 0 /\ Resets(none) = {}
    BY <1>1, ResetsOfFew, Zenon
<1>3. Outcome(before', none) = before'
    BY <1>1, <1>2, OutcomeOfNone
<1>4. DOMAIN Data(none) = 1 .. 0
    BY <1>1, <1>2, DataShape
<1>5. Len(none) - 2 \notin DOMAIN Data(none)
    BY <1>1, <1>4
<1>6. WireDecodes'
    BY <1>1, <1>2, <1>3, <1>5, Zenon DEF WireDecodes
<1>7. Follows' /\ DataInTime'
    BY <1>1 DEF Follows, DataInTime
<1>8. Decoding'
    BY <1>1, <1>2, <1>7 DEF Decoding, none
<1> QED
    BY <1>6, <1>8

\* Bytes that are answered with zero and change no register.
LEMMA Quiet ==
    ASSUME NEW bytes \in Seq(Byte), NEW c,
           Len(bytes) <= 2 \/ Len(bytes) - 2 > Asked(bytes) \/ Resets(bytes) # {}
    PROVE  Resets(bytes) = {} =>
                0 = IF Len(bytes) - 2 \in DOMAIN Data(bytes) /\ ~IsWrite(bytes)
                    THEN Read(c, Data(bytes)[Len(bytes) - 2].reg) ELSE 0
<1>1. DOMAIN Data(bytes) = 1 .. DataCount(bytes)
    BY DataShape
<1>2. ASSUME Resets(bytes) = {} PROVE Len(bytes) - 2 \notin 1 .. DataCount(bytes)
    <2>1. CASE Len(bytes) <= 2
        BY <2>1 DEF DataCount
    <2>2. CASE Len(bytes) >= 3 /\ Len(bytes) - 2 > Asked(bytes)
        BY <2>2, AskedRange DEF DataCount, Smaller
    <2> QED
        BY <1>2, <2>1, <2>2
<1> QED
    BY <1>1, <1>2, Zenon

LEMMA Element ==
    ASSUME NEW bytes \in Seq(Byte), NEW i \in 1 .. Len(bytes)
    PROVE  bytes[i] \in Byte
OBVIOUS

LEMMA Appended ==
    ASSUME NEW bytes \in Seq(Byte), NEW tx \in Byte
    PROVE  /\ Append(bytes, tx) \in Seq(Byte)
           /\ Len(Append(bytes, tx)) = Len(bytes) + 1
           /\ \A i \in 1 .. Len(bytes) : Append(bytes, tx)[i] = bytes[i]
           /\ Append(bytes, tx)[Len(bytes) + 1] = tx
OBVIOUS

\* The decoder and the chip are where the bytes of the transaction put them.
LInv == Decoding /\ WireDecodes

\* A reset needs three bytes.
LEMMA ResetNeedsData ==
    ASSUME NEW bytes \in Seq(Byte), Resets(bytes) # {}
    PROVE  Len(bytes) >= 2
<1>1. Len(bytes) \in Nat
    OBVIOUS
<1> QED
    BY <1>1, ResetsOfFew

\* What is left of a transaction after a reset: the outcome stays.
LEMMA SilentKeeps ==
    ASSUME LInv, NEW tx \in Byte, Resets(sent) # {},
           sent' = Append(sent, tx), before' = before, chip' = chip
    PROVE  Resets(sent') # {} /\ WireDecodes'
<1>1. sent \in Seq(Byte) /\ Len(sent) >= 2 /\ chip = Outcome(before, sent)
    BY ResetNeedsData DEF LInv, Decoding, WireDecodes
<1>2. Resets(sent') # {}
    BY <1>1, ResetsGrow
<1>3. Outcome(before', sent') = Outcome(before, sent)
    BY <1>1, OutcomeAfterReset
<1> QED
    BY <1>1, <1>2, <1>3 DEF WireDecodes

LEMMA HighDecodes ==
    ASSUME Shapes, LInv, InstructionHigh
    PROVE  LInv'
<1>1. PICK tx \in Byte : Transfer(tx, [wire EXCEPT !.instruction = tx * 256])
    BY DEF InstructionHigh
<1> DEFINE w == [wire EXCEPT !.instruction = tx * 256]
<1>2. /\ wire \in Wires /\ wire.position = 0 /\ sent = <<>> /\ Wrap > 10
      /\ rx' = 0 /\ chip' = chip /\ Resets(sent) = {}
    <2>1. wire.position = 0 /\ sent = <<>>
        BY DEF InstructionHigh, LInv, Decoding
    <2>2. sent \in Seq(Byte) /\ Len(sent) <= 2
        BY <2>1
    <2> QED
        BY <2>1, <2>2, ResetsOfFew, WireAssumption DEF InstructionHigh, Unanswered, Shapes
<1>3. w \in Wires /\ w.instruction = tx * 256 /\ w.position = 0
    <2>1. tx * 256 \in Nat /\ tx * 256 <= LastHigh
        BY DEF Byte, LastHigh
    <2>2. tx * 256 + 0 \in Word
        BY <2>1, BytesMakeWord DEF Byte
    <2>3. tx * 256 \in Word
        BY <2>1, <2>2
    <2> QED
        BY <1>2, <2>3 DEF Wires
<1>4. Transfer(tx, w)
    BY <1>1
<1> HIDE DEF w
<1>5. /\ wire'.position = 1 /\ sent' = Append(sent, tx) /\ before' = before
      /\ wire'.instruction = w.instruction
    <2>1. sent \in Seq(Byte) /\ Wrap \in Nat
        BY WireAssumption DEF LInv, Decoding
    <2>2. "instruction" \in DOMAIN w \ {"position"}
        BY <1>3 DEF Wires
    <2> QED
        BY <1>2, <1>3, <1>4, <2>1, <2>2, Transferred
<1>6. sent' \in Seq(Byte) /\ Len(sent') = 1 /\ Len(sent') <= 2 /\ sent'[1] = tx
    BY <1>2, <1>5
<1>7. DataCount(sent') = 0 /\ Resets(sent') = {}
    BY <1>6, ResetsOfFew
<1>8. Decoding'
    BY <1>3, <1>5, <1>6, <1>7 DEF Decoding, Follows, DataInTime
<1>9. chip' = Outcome(before', sent')
    <2>1. chip = Outcome(before, sent)
        BY DEF LInv, WireDecodes
    <2>2. sent \in Seq(Byte) /\ Len(sent) <= 2
        BY <1>2
    <2>5. DataCount(sent) = 0
        BY <2>2, ResetsOfFew
    <2>3. Outcome(before, sent) = before
        BY <2>2, <2>5, OutcomeOfNone
    <2>4. Outcome(before', sent') = before'
        BY <1>6, <1>7, OutcomeOfNone
    <2> QED
        BY <1>2, <1>5, <2>1, <2>3, <2>4
<1>10. WireDecodes'
    <2>1. Len(sent') <= 2
        BY <1>6
    <2> QED
        BY <1>2, <1>6, <1>7, <1>9, <2>1, Quiet DEF WireDecodes
<1> QED
    BY <1>8, <1>10 DEF LInv

LEMMA LowDecodes ==
    ASSUME Shapes, LInv, InstructionLow
    PROVE  LInv'
<1>1. PICK tx \in Byte : Transfer(tx, Instructed(wire.instruction + tx))
    BY DEF InstructionLow
<1> DEFINE n == wire.instruction + tx
           w == Instructed(n)
<1>2. /\ wire \in Wires /\ wire.position = 1 /\ Wrap \in Nat /\ Wrap > 10
      /\ rx' = 0 /\ chip' = chip /\ sent \in Seq(Byte)
    BY WireAssumption DEF InstructionLow, Unanswered, Shapes, LInv, Decoding
<1>3. n \in Word
    <2>1. wire.instruction \in Nat /\ wire.instruction <= LastHigh
        BY <1>2, WordNat DEF Wires, Shapes, HighByte
    <2> QED
        BY <2>1, BytesMakeWord
<1>4. w \in Wires /\ w.position = 1 /\ Transfer(tx, w)
    BY <1>1, <1>2, <1>3, InstructedShape
<1>5. /\ w.write = Bit(n, 15) /\ w.count = CountIn(n)
      /\ w.address = n % 1024 /\ w.dataIndex = 0
    BY <1>2 DEF Instructed, Wires
<1> HIDE DEF w
<1>6. /\ wire'.position = 2 /\ sent' = Append(sent, tx) /\ before' = before
      /\ wire'.write = w.write /\ wire'.count = w.count
      /\ wire'.address = w.address /\ wire'.dataIndex = w.dataIndex
    <2>1. {"write", "count", "address", "dataIndex"} \subseteq DOMAIN w \ {"position"}
        BY <1>4 DEF Wires
    <2>2. /\ \A field \in DOMAIN w \ {"position"} : wire'[field] = w[field]
          /\ wire'.position = 2 /\ sent' = Append(sent, tx) /\ before' = before
        BY <1>2, <1>4, Transferred
    <2> QED
        BY <2>1, <2>2
<1>7. sent' \in Seq(Byte)
    BY <1>2, <1>6
<1>8. DataInTime'
    BY <1>5, <1>6 DEF DataInTime
<1>9. CASE Resets(sent) = {}
    <2>1. Len(sent) = 1 /\ Len(sent) <= 2 /\ wire.instruction = sent[1] * 256
        <3>1. Len(sent) = 1 /\ wire.instruction = sent[1] * 256
            BY <1>2, <1>9 DEF LInv, Decoding, Follows
        <3> QED
            BY <3>1
    <2>2. /\ Len(sent') = 2 /\ Len(sent') <= 2
          /\ sent'[1] = sent[1] /\ sent'[2] = tx /\ sent[1] \in Byte
        <3>1. 1 \in 1 .. Len(sent) /\ Len(sent) + 1 = 2
            BY <2>1
        <3>2. sent[1] \in Byte
            BY <1>2, <3>1, Element
        <3>3. Len(sent') = 2 /\ sent'[1] = sent[1] /\ sent'[2] = tx
            BY <1>2, <1>6, <3>1, Appended
        <3> QED
            BY <3>2, <3>3
    <2>3. DataCount(sent') = 0 /\ Resets(sent') = {}
        BY <1>7, <2>2, ResetsOfFew
    <2>4. n = sent[1] * 256 + tx
        BY <2>1
    <2> HIDE DEF n
    <2>5. /\ w.write = IsWrite(sent') /\ w.count = Asked(sent') /\ w.address = First(sent')
        <3>1. /\ Bit(n, 15) <=> sent[1] >= 128
              /\ CountIn(n) = ((sent[1] \div 16) % 8) + 1
            BY <2>2, <2>4, InstructionParts
        <3>2. /\ IsWrite(sent') <=> sent[1] >= 128
              /\ Asked(sent') = ((sent[1] \div 16) % 8) + 1
              /\ First(sent') = (sent[1] * 256 + tx) % 1024
            BY <2>2 DEF IsWrite, Asked, First
        <3>3. w.count = Asked(sent') /\ w.address = First(sent')
            <4>1. w.count = Asked(sent')
                BY <1>5, <3>1, <3>2
            <4>2. w.address = First(sent')
                BY <1>5, <2>4, <3>2
            <4> QED
                BY <4>1, <4>2
        <3>4. w.write \in BOOLEAN /\ IsWrite(sent') \in BOOLEAN /\ Bit(n, 15) \in BOOLEAN
            BY <1>4 DEF Wires, IsWrite, Bit
        <3>5. w.write <=> IsWrite(sent')
            BY <1>5, <3>1, <3>2, <3>4, Zenon
        <3> QED
            BY <3>3, <3>4, <3>5, Zenon
    <2>6. Decoding'
        BY <1>5, <1>6, <1>7, <1>8, <2>2, <2>3, <2>5 DEF Decoding, Follows
    <2>7. chip' = Outcome(before', sent')
        <3>1. chip = Outcome(before, sent)
            BY DEF LInv, WireDecodes
        <3>2. DataCount(sent) = 0
            BY <1>2, <2>1, ResetsOfFew
        <3>3. Outcome(before, sent) = before
            BY <1>2, <3>2, OutcomeOfNone
        <3>4. Outcome(before', sent') = before'
            BY <1>7, <2>3, OutcomeOfNone
        <3> QED
            BY <1>2, <1>6, <3>1, <3>3, <3>4
    <2>8. WireDecodes'
        <3>1. Len(sent') <= 2
            BY <2>2
        <3> QED
            BY <1>2, <1>7, <2>3, <2>7, <3>1, Quiet DEF WireDecodes
    <2> QED
        BY <2>6, <2>8 DEF LInv
<1>10. CASE Resets(sent) # {}
    <2>1. Resets(sent') # {} /\ WireDecodes'
        BY <1>2, <1>6, <1>10, SilentKeeps
    <2>2. wire.instruction = 0
        BY <1>2, <1>10 DEF LInv, Decoding, Silent
    <2>3. n = 0 * 256 + tx /\ 0 \in Byte
        BY <2>2 DEF Byte
    <2> HIDE DEF n
    <2>4. ~Bit(n, 15)
        <3>1. Bit(0 * 256 + tx, 15) <=> 0 >= 128
            BY <2>3, InstructionParts
        <3>2. ~(0 >= 128)
            OBVIOUS
        <3> QED
            BY <2>3, <3>1, <3>2, Zenon
    <2>5. Silent'
        BY <1>5, <1>6, <2>4 DEF Silent
    <2>6. Decoding'
        BY <1>6, <1>7, <1>8, <2>1, <2>5 DEF Decoding
    <2> QED
        BY <2>1, <2>6 DEF LInv
<1> QED
    BY <1>9, <1>10

\* The datum a byte stands for while the decoder follows.
LEMMA AddressFollows ==
    ASSUME Shapes, LInv, HasData, Resets(sent) = {}
    PROVE  /\ Len(sent) >= 2 /\ Len(sent) = wire.position
           /\ wire.write = IsWrite(sent)
           /\ Len(sent) - 2 < Asked(sent) /\ wire.dataIndex = Len(sent) - 2
           /\ Addressed(wire) = (First(sent) + 2 - Len(sent)) % 1024
<1>1. wire.position \in Nat /\ wire.position >= 2 /\ wire.dataIndex < wire.count
    BY WireAssumption DEF HasData, Shapes, Wires
<1>2. /\ sent \in Seq(Byte) /\ Len(sent) = wire.position /\ wire.write = IsWrite(sent)
      /\ wire.count = Asked(sent) /\ wire.address = First(sent)
      /\ wire.dataIndex = wire.position - 2
    BY <1>1 DEF LInv, Decoding, Follows, DataInTime, Shapes, Wires
<1>3. wire.address \in Int
    BY DEF Shapes, Wires, Reg
<1>4. wire.address - wire.dataIndex = First(sent) + 2 - Len(sent)
    BY <1>1, <1>2, <1>3
<1> QED
    BY <1>1, <1>2, <1>4 DEF Addressed

\* The position does not wrap while there are data.
LEMMA DataBeforeWrap ==
    ASSUME Shapes, LInv, HasData
    PROVE  wire.position \in 2 .. 9 /\ wire.dataIndex = wire.position - 2 /\ Wrap > 10
BY WireAssumption DEF HasData, Shapes, Wires, LInv, Decoding, DataInTime

LEMMA ReadDecodes ==
    ASSUME Shapes, LInv, ReadData
    PROVE  LInv'
<1>1. PICK tx \in Byte : Transfer(tx, [wire EXCEPT !.dataIndex = wire.dataIndex + 1])
    BY DEF ReadData
<1> DEFINE w == [wire EXCEPT !.dataIndex = wire.dataIndex + 1]
<1>2. /\ wire \in Wires /\ sent \in Seq(Byte) /\ HasData /\ ~wire.write
      /\ rx' = Read(chip, Addressed(wire)) /\ chip' = chip
    BY DEF ReadData, Shapes, LInv, Decoding
<1>3. wire.position \in 2 .. 9 /\ wire.dataIndex = wire.position - 2 /\ Wrap > 10 /\ Wrap \in Nat
    BY <1>2, DataBeforeWrap, WireAssumption
<1>4. /\ w \in Wires /\ w.position = wire.position /\ w.dataIndex = wire.dataIndex + 1
      /\ w.write = wire.write /\ w.count = wire.count /\ w.address = wire.address
    <2>1. wire.dataIndex + 1 \in 0 .. 8
        BY <1>3
    <2> QED
        BY <1>2, <2>1 DEF Wires
<1>5. Transfer(tx, w)
    BY <1>1
<1> HIDE DEF w
<1>6. /\ wire'.position = wire.position + 1 /\ sent' = Append(sent, tx) /\ before' = before
      /\ wire'.dataIndex = wire.dataIndex + 1
      /\ wire'.write = wire.write /\ wire'.count = wire.count /\ wire'.address = wire.address
    <2>1. {"write", "count", "address", "dataIndex"} \subseteq DOMAIN w \ {"position"}
        BY <1>4 DEF Wires
    <2>2. /\ \A field \in DOMAIN w \ {"position"} : wire'[field] = w[field]
          /\ wire'.position = w.position + 1 /\ sent' = Append(sent, tx) /\ before' = before
        <3>1. \/ w.position + 1 = Wrap
              \/ wire'.position = w.position + 1 /\ sent' = Append(sent, tx) /\ before' = before
            BY <1>2, <1>4, <1>5, Transferred
        <3>2. w.position + 1 # Wrap
            BY <1>3, <1>4
        <3>3. \A field \in DOMAIN w \ {"position"} : wire'[field] = w[field]
            BY <1>2, <1>4, <1>5, Transferred
        <3> QED
            BY <3>1, <3>2, <3>3
    <2> QED
        BY <1>4, <2>1, <2>2
<1>7. sent' \in Seq(Byte) /\ Len(sent') = Len(sent) + 1
    BY <1>2, <1>6, Appended
<1>8. DataInTime' /\ wire'.position # 0
    BY <1>3, <1>6 DEF DataInTime
<1>9. CASE Resets(sent) = {}
    <2>1. /\ Len(sent) >= 2 /\ Len(sent) = wire.position /\ ~IsWrite(sent)
          /\ Len(sent) - 2 < Asked(sent)
          /\ Addressed(wire) = (First(sent) + 2 - Len(sent)) % 1024
        BY <1>2, <1>9, AddressFollows
    <2>2. /\ IsWrite(sent') = IsWrite(sent) /\ Asked(sent') = Asked(sent)
          /\ First(sent') = First(sent)
          /\ DataCount(sent') = Smaller(Len(sent) - 1, Asked(sent))
          /\ \A i \in 1 .. DataCount(sent') : Data(sent')[i] = Datum(sent', i)
        BY <1>2, <1>6, <2>1, DataGrows
    <2>3. ~IsWrite(sent')
        BY <2>1, <2>2
    <2>4. Resets(sent') = {} /\ Outcome(before', sent') = before' /\ Outcome(before, sent) = before
        BY <1>2, <1>7, <2>1, <2>3, OutcomeOfRead
    <2>5. DataCount(sent') = Len(sent) - 1
        BY <1>2, <2>1, <2>2, AskedRange DEF Smaller
    <2>6. Follows'
        <3>1. /\ wire.write = IsWrite(sent) /\ wire.count = Asked(sent)
              /\ wire.address = First(sent) /\ wire.dataIndex + 1 = Len(sent) - 1
            BY <1>2, <1>3, <1>9, <2>1 DEF LInv, Decoding, Follows
        <3> QED
            BY <1>6, <1>7, <2>1, <2>2, <2>5, <3>1 DEF Follows
    <2>7. Decoding'
        BY <1>7, <1>8, <2>4, <2>6 DEF Decoding
    <2>8. chip = before
        BY <2>4 DEF LInv, WireDecodes
    <2> DEFINE n == Len(sent') - 2
    <2>9. n \in 1 .. DataCount(sent') /\ n + 2 = Len(sent) + 1 /\ n = Len(sent) - 1
        BY <1>2, <1>7, <2>1, <2>5
    <2>10. n \in DOMAIN Data(sent')
        BY <1>7, <2>9, DataShape
    <2>11. Data(sent')[n].reg = Addressed(wire)
        <3>1. Data(sent')[n] = Datum(sent', n)
            BY <2>2, <2>9
        <3>2. Data(sent')[n].reg = (First(sent') + 1 - n) % 1024
            BY <3>1 DEF Datum
        <3>3. First(sent) \in Int /\ Len(sent) \in Nat
            BY <1>2, <2>1, FirstInt
        <3>4. First(sent) + 1 - n = First(sent) + 2 - Len(sent)
            BY <2>9, <3>3
        <3> QED
            BY <2>1, <2>2, <3>2, <3>4
    <2>12. WireDecodes'
        <3>1. rx' = Read(before', Data(sent')[n].reg)
            BY <1>2, <1>6, <2>8, <2>11
        <3> HIDE DEF n
        <3>2. chip' = Outcome(before', sent')
            BY <1>2, <1>6, <2>4, <2>8
        <3> QED
            BY <2>3, <2>10, <3>1, <3>2, Zenon DEF WireDecodes, n
    <2> QED
        BY <2>7, <2>12 DEF LInv
<1>10. CASE Resets(sent) # {}
    <2>1. Resets(sent') # {} /\ WireDecodes'
        BY <1>2, <1>6, <1>10, SilentKeeps
    <2>2. Silent'
        BY <1>2, <1>3, <1>6 DEF Silent
    <2>3. Decoding'
        BY <1>7, <1>8, <2>1, <2>2 DEF Decoding
    <2> QED
        BY <2>1, <2>3 DEF LInv
<1> QED
    BY <1>9, <1>10

LEMMA SpareDecodes ==
    ASSUME Shapes, LInv, SpareByte
    PROVE  LInv'
<1>1. PICK tx \in Byte : Transfer(tx, wire)
    BY DEF SpareByte
<1>2. /\ wire \in Wires /\ sent \in Seq(Byte) /\ rx' = 0 /\ chip' = chip
      /\ wire.position \in Nat /\ wire.position >= 2 /\ wire.dataIndex >= wire.count
    BY WireAssumption DEF SpareByte, Unanswered, Shapes, Wires, LInv, Decoding
<1>3. /\ wire'.dataIndex = wire.dataIndex
      /\ wire'.write = wire.write /\ wire'.count = wire.count /\ wire'.address = wire.address
      /\ \/ /\ wire'.position = 0 /\ sent' = <<>> /\ before' = chip'
         \/ /\ wire'.position = wire.position + 1
            /\ sent' = Append(sent, tx) /\ before' = before
    <2>1. {"write", "count", "address", "dataIndex"} \subseteq DOMAIN wire \ {"position"}
        BY <1>2 DEF Wires
    <2> QED
        BY <1>1, <1>2, <2>1, Transferred
<1>4. CASE wire'.position = 0 /\ sent' = <<>> /\ before' = chip'
    BY <1>2, <1>4, Begins DEF LInv
<1>5. CASE /\ wire'.position = wire.position + 1
           /\ sent' = Append(sent, tx) /\ before' = before
    <2>1. sent' \in Seq(Byte) /\ Len(sent') = Len(sent) + 1
        BY <1>2, <1>5, Appended
    <2>2. DataInTime' /\ wire'.position # 0
        BY <1>2, <1>3, <1>5 DEF DataInTime, Wires
    <2>3. CASE Resets(sent) = {}
        <3>1. /\ Len(sent) = wire.position /\ Len(sent) >= 2
              /\ wire.write = IsWrite(sent) /\ wire.count = Asked(sent)
              /\ wire.address = First(sent) /\ wire.dataIndex = DataCount(sent)
            BY <1>2, <2>3 DEF LInv, Decoding, Follows
        <3>2. /\ IsWrite(sent') = IsWrite(sent) /\ Asked(sent') = Asked(sent)
              /\ First(sent') = First(sent)
              /\ DataCount(sent) = Smaller(Len(sent) - 2, Asked(sent))
            BY <1>2, <1>5, <3>1, DataGrows
        <3>3. Asked(sent) \in 1 .. 8 /\ Len(sent) \in Nat
            BY <1>2, <3>1, AskedRange
        <3>4. Len(sent) - 2 >= Asked(sent)
            BY <1>2, <3>1, <3>2, <3>3 DEF Smaller
        <3>5. /\ Resets(sent') = {} /\ DataCount(sent') = DataCount(sent)
              /\ Outcome(before', sent') = Outcome(before, sent)
            BY <1>2, <1>5, <2>3, <3>1, <3>4, OutcomeOfSpare
        <3>6. Decoding'
            BY <1>3, <1>5, <2>1, <2>2, <3>1, <3>2, <3>5 DEF Decoding, Follows
        <3>7. chip' = Outcome(before', sent')
            BY <1>2, <3>5 DEF LInv, WireDecodes
        <3>8. Len(sent') - 2 > Asked(sent')
            BY <2>1, <3>2, <3>3, <3>4
        <3>9. WireDecodes'
            BY <1>2, <2>1, <3>5, <3>7, <3>8, Quiet DEF WireDecodes
        <3> QED
            BY <3>6, <3>9 DEF LInv
    <2>4. CASE Resets(sent) # {}
        <3>1. Resets(sent') # {} /\ WireDecodes'
            BY <1>2, <1>5, <2>4, SilentKeeps
        <3>2. Silent'
            BY <1>2, <1>3, <1>5, <2>4 DEF LInv, Decoding, Silent
        <3>3. Decoding'
            BY <2>1, <2>2, <3>1, <3>2 DEF Decoding
        <3> QED
            BY <3>1, <3>3 DEF LInv
    <2> QED
        BY <2>3, <2>4
<1> QED
    BY <1>3, <1>4, <1>5

LEMMA WriteDecodes ==
    ASSUME Shapes, LInv, WriteData
    PROVE  LInv'
<1> DEFINE r == Addressed(wire)
<1>1. PICK tx \in Byte :
        /\ chip' = Written(chip, r, tx)
        /\ Transfer(tx, [DecoderAfter(r, tx) EXCEPT !.dataIndex = @ + 1])
    BY DEF WriteData
<1>2. /\ wire \in Wires /\ sent \in Seq(Byte) /\ HasData /\ wire.write /\ rx' = 0
    BY DEF WriteData, Shapes, LInv, Decoding
<1>3. wire.position \in 2 .. 9 /\ wire.dataIndex = wire.position - 2 /\ Wrap > 10 /\ Wrap \in Nat
    BY <1>2, DataBeforeWrap, WireAssumption
<1>4. Resets(sent) = {}
    BY <1>2, <1>3 DEF LInv, Decoding, Silent
<1>5. /\ Len(sent) >= 2 /\ Len(sent) = wire.position /\ IsWrite(sent)
      /\ Len(sent) - 2 < Asked(sent) /\ wire.dataIndex = Len(sent) - 2
      /\ r = (First(sent) + 2 - Len(sent)) % 1024
    BY <1>2, <1>4, AddressFollows
<1> HIDE DEF r
<1> DEFINE decoder == DecoderAfter(r, tx)
           w == [decoder EXCEPT !.dataIndex = decoder.dataIndex + 1]
<1>6. decoder \in Wires /\ decoder.position \in 0 .. 9 /\ decoder.dataIndex <= 7
    <2>1. CASE decoder = wire
        BY <1>2, <1>3, <2>1 DEF Wires
    <2>2. CASE decoder = ResetWire
        BY <2>2, ResetWireShape DEF ResetWire
    <2> QED
        BY <2>1, <2>2 DEF DecoderAfter
<1>7. Transfer(tx, w)
    BY <1>1
<1> HIDE DEF decoder
<1>8. /\ w \in Wires /\ w.position = decoder.position /\ w.dataIndex = decoder.dataIndex + 1
      /\ w.write = decoder.write /\ w.count = decoder.count /\ w.address = decoder.address
      /\ w.instruction = decoder.instruction
    BY <1>6 DEF Wires
<1> HIDE DEF w
<1>9. /\ wire'.position = decoder.position + 1 /\ sent' = Append(sent, tx) /\ before' = before
      /\ wire'.dataIndex = decoder.dataIndex + 1 /\ wire'.write = decoder.write
      /\ wire'.count = decoder.count /\ wire'.address = decoder.address
      /\ wire'.instruction = decoder.instruction
    <2>1. {"write", "count", "address", "dataIndex", "instruction"} \subseteq DOMAIN w \ {"position"}
        BY <1>8 DEF Wires
    <2>2. /\ \A field \in DOMAIN w \ {"position"} : wire'[field] = w[field]
          /\ wire'.position = w.position + 1 /\ sent' = Append(sent, tx) /\ before' = before
        <3>1. \/ w.position + 1 = Wrap
              \/ wire'.position = w.position + 1 /\ sent' = Append(sent, tx) /\ before' = before
            BY <1>2, <1>7, <1>8, Transferred
        <3>2. w.position + 1 # Wrap
            BY <1>3, <1>6, <1>8
        <3>3. \A field \in DOMAIN w \ {"position"} : wire'[field] = w[field]
            BY <1>2, <1>7, <1>8, Transferred
        <3> QED
            BY <3>1, <3>2, <3>3
    <2> QED
        BY <1>8, <2>1, <2>2
<1>10. sent' \in Seq(Byte) /\ Len(sent') = Len(sent) + 1
    BY <1>2, <1>9, Appended
<1>11. wire'.position # 0
    BY <1>6, <1>9
<1>12. /\ IsWrite(sent') = IsWrite(sent) /\ Asked(sent') = Asked(sent)
       /\ First(sent') = First(sent)
       /\ DataCount(sent') = Smaller(Len(sent) - 1, Asked(sent))
       /\ \A i \in 1 .. DataCount(sent') : Data(sent')[i] = Datum(sent', i)
    BY <1>2, <1>5, <1>9, DataGrows
<1>13. DataCount(sent') = Len(sent) - 1 /\ Len(sent) \in Nat
    BY <1>2, <1>5, <1>12, AskedRange DEF Smaller
<1>14. chip' = Outcome(before', sent')
    <2>1. Outcome(before, sent') = Written(Outcome(before, sent), r, tx)
        BY <1>2, <1>4, <1>5, <1>9, OutcomeOfWrite
    <2> QED
        BY <1>1, <1>9, <2>1 DEF LInv, WireDecodes
<1>15. WireDecodes'
    BY <1>2, <1>5, <1>12, <1>14 DEF WireDecodes
<1>16. Decoding'
    <2>1. CASE SoftReset(r, tx)
        <3>1. decoder = ResetWire
            BY <2>1 DEF decoder, DecoderAfter
        <3>2. /\ wire'.position = 1 /\ wire'.instruction = 0
            BY <1>9, <3>1 DEF ResetWire
        <3>3. Silent' /\ DataInTime'
            BY <3>2 DEF Silent, DataInTime
        <3>4. Resets(sent') # {}
            <4> DEFINE n == Len(sent) - 1
            <4>1. n \in 1 .. DataCount(sent') /\ n + 2 = Len(sent) + 1
                BY <1>5, <1>13
            <4>2. Data(sent')[n] = Datum(sent', n) /\ n \in DOMAIN Data(sent')
                BY <1>10, <1>12, <4>1, DataShape
            <4>3. First(sent) \in Int
                BY <1>2, <1>5, FirstInt
            <4>4. First(sent') + 1 - n = First(sent) + 2 - Len(sent)
                BY <1>12, <1>13, <4>3
            <4>5. sent'[n + 2] = tx
                BY <1>2, <1>9, <4>1, Appended
            <4> HIDE DEF n
            <4>6. Data(sent')[n].reg = r /\ Data(sent')[n].value = tx
                BY <1>5, <4>2, <4>4, <4>5 DEF Datum
            <4>7. n \in Resets(sent')
                BY <1>5, <1>12, <2>1, <4>2, <4>6, Zenon DEF Resets
            <4> QED
                BY <4>7
        <3> QED
            BY <1>10, <1>11, <3>3, <3>4 DEF Decoding
    <2>2. CASE ~SoftReset(r, tx)
        <3>1. decoder = wire
            BY <2>2 DEF decoder, DecoderAfter
        <3>2. Resets(sent') = {}
            <4> SUFFICES ASSUME NEW i \in Resets(sent') PROVE FALSE
                OBVIOUS
            <4> DEFINE n == Len(sent) - 1
            <4>1. n \in 1 .. DataCount(sent') /\ n + 2 = Len(sent) + 1
                BY <1>5, <1>13
            <4>2. i = n
                <5>1. i \in Resets(sent) \/ i = DataCount(sent) + 1
                    BY <1>2, <1>5, <1>9, ResetsGrow
                <5>2. DataCount(sent) = Len(sent) - 2
                    BY <1>2, <1>5, <1>13, DataGrows, AskedRange DEF Smaller
                <5> QED
                    BY <1>4, <1>13, <5>1, <5>2
            <4>3. Data(sent')[n] = Datum(sent', n)
                BY <1>12, <4>1
            <4>4. First(sent) \in Int
                BY <1>2, <1>5, FirstInt
            <4>5. First(sent') + 1 - n = First(sent) + 2 - Len(sent)
                BY <1>12, <1>13, <4>4
            <4>6. sent'[n + 2] = tx
                BY <1>2, <1>9, <4>1, Appended
            <4> HIDE DEF n
            <4>7. Data(sent')[n].reg = r /\ Data(sent')[n].value = tx
                BY <1>5, <4>3, <4>5, <4>6 DEF Datum
            <4> QED
                BY <2>2, <4>2, <4>7 DEF Resets
        <3>3. Follows'
            <4>1. /\ wire.write = IsWrite(sent) /\ wire.count = Asked(sent)
                  /\ wire.address = First(sent) /\ wire.dataIndex + 1 = Len(sent) - 1
                BY <1>2, <1>4, <1>5, <1>13 DEF LInv, Decoding, Follows
            <4> QED
                BY <1>5, <1>9, <1>10, <1>12, <1>13, <3>1, <4>1 DEF Follows
        <3>4. DataInTime'
            BY <1>3, <1>9, <3>1 DEF DataInTime
        <3> QED
            BY <1>10, <1>11, <3>2, <3>3, <3>4 DEF Decoding
    <2> QED
        BY <2>1, <2>2
<1> QED
    BY <1>15, <1>16 DEF LInv

LEMMA DecodesInit == Init => LInv
<1> SUFFICES ASSUME Init PROVE LInv
    OBVIOUS
<1>1. sent = <<>> /\ sent \in Seq(Byte) /\ Len(sent) = 0 /\ Len(sent) <= 2
    BY DEF Init
<1>2. wire.position = 0 /\ rx = 0 /\ chip = before
    BY DEF Init, ResetWire
<1>3. DataCount(sent) = 0 /\ Resets(sent) = {}
    BY <1>1, ResetsOfFew
<1>4. Outcome(before, sent) = before
    BY <1>1, <1>3, OutcomeOfNone
<1>5. WireDecodes
    BY <1>1, <1>2, <1>3, <1>4, Quiet DEF WireDecodes
<1>6. Decoding
    BY <1>1, <1>2, <1>3 DEF Decoding, Follows, DataInTime
<1> QED
    BY <1>5, <1>6 DEF LInv

LEMMA DecodesNext == Shapes /\ LInv /\ [Next]_vars => LInv'
<1> SUFFICES ASSUME Shapes, LInv, [Next]_vars PROVE LInv'
    OBVIOUS
<1>1. CASE SetCs \/ Relaunch \/ DeviceReset
    <2>1. sent' = <<>> /\ before' = chip' /\ rx' = 0 /\ wire'.position = 0
        BY <1>1 DEF SetCs, Relaunch, DeviceReset, Fresh, Deselected, ResetWire
    <2> QED
        BY <2>1, Begins DEF LInv
<1>2. CASE Trap \/ Migrate \/ UNCHANGED vars
    <2>1. UNCHANGED <<chip, wire, rx, sent, before>>
        BY <1>2 DEF Trap, Migrate, SavedWire, vars
    <2> QED
        BY <2>1 DEF LInv, Decoding, DataInTime, Follows, Silent, WireDecodes
<1> QED
    BY <1>1, <1>2, HighDecodes, LowDecodes, ReadDecodes, SpareDecodes, WriteDecodes DEF Next

\* For every transaction, cut, resumed after a migration or reset by its own data:
\* registers and ENSM state are those the bytes ask for, up to the first soft reset,
\* and a byte of a read is answered from the register it stands for.
THEOREM WireFollowsBytes == Spec => []WireDecodes
<1>1. IInv => Shapes
    BY DEF IInv
<1>2. LInv => WireDecodes
    BY DEF LInv
<1> QED
    BY <1>1, <1>2, WireInvariant, DecodesInit, DecodesNext, PTL DEF Spec
=============================================================================
