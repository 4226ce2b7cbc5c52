----------------------------- MODULE P210AD9361 -----------------------------
(***************************************************************************)
(* p210_ad9361.c: P210AD9361State, the AD9361 behind its SPI wire.         *)
(*                                                                         *)
(* A transaction is a run of bytes under one chip select: two bytes of     *)
(* instruction, then data for descending addresses.  chip holds regs[] and *)
(* ensm_state, wire the fields that decode the bytes.  A division by zero  *)
(* in the filter tuner ends QEMU or, on other hosts, finds zero.           *)
(***************************************************************************)
EXTENDS BbfTuner, Sequences

CONSTANTS
    Wrap,           \* values of position, 2^8
    Offered(_),     \* bound: bytes the master may send after those it has sent
    MaxEdges        \* bound: edges of chip select, and wraps of position

ASSUME WireAssumption ==
    /\ Wrap \in Nat /\ Wrap > 10       \* instruction and longest data
    /\ MaxEdges \in Nat

Reg == 0 .. 1023                        \* AD9361_REG_COUNT
Byte == 0 .. 255
Word == 0 .. 256 * 256 - 1

SpiConf == 0            EnsmMode == 19          EnsmConfig1 == 20
CalibrationCtrl == 22   State == 23             ProductId == 55
Fract1 == 65            Fract2 == 66            Fract3 == 67
IntegerWord == 68       Ch1Overflow == 94       R2346 == 486
C3Msb == 491            C3Lsb == 492            TuneDivide == 504
TuneConfig == 505       RxCalStatus == 580      RxVcoLock == 583
TxCalStatus == 644      TxVcoLock == 647

ProductCode == 10       Alert == 5              Tx == 6
Rx == 8                 Fdd == 10

VARIABLES
    chip,       \* regs, ensm
    wire,       \* instruction, address, position, count, dataIndex, write
    rx,         \* what the latest byte was answered
    alive,      \* FALSE after a division by zero ended QEMU
    edges,
    sent,       \* history: bytes since a transaction could begin
    before,     \* history: chip at that time
    tuned       \* history: setups the codes in the registers may stem from

vars == <<chip, wire, rx, alive, edges, sent, before, tuned>>

Bit(value, k)  == (value \div 2 ^ k) % 2 = 1
With(value, k) == IF Bit(value, k) THEN value ELSE value + 2 ^ k

ResetChip ==
    [regs |-> [r \in Reg |-> IF r = ProductId THEN ProductCode ELSE 0], ensm |-> Alert]

ResetWire ==
    [instruction |-> 0, address |-> 0, position |-> 0, count |-> 0,
     dataIndex |-> 0, write |-> FALSE]

\* The status registers answer that everything is calibrated and locked.
Read(c, r) ==
    CASE r = CalibrationCtrl                        -> 0
      [] r = State                                  -> c.ensm
      [] r = ProductId                              -> ProductCode
      [] r \in {Ch1Overflow, RxCalStatus, TxCalStatus} -> With(c.regs[r], 7)
      [] r \in {RxVcoLock, TxVcoLock}               -> With(c.regs[r], 1)
      [] OTHER                                      -> c.regs[r]

SetupIn(regs) ==
    Setup(regs[IntegerWord],
          regs[Fract1] * 65536 + regs[Fract2] * 256 + regs[Fract3],
          regs[TuneDivide] + 256 * (regs[TuneConfig] % 2))

Calibrated(regs) ==
    LET s == SetupIn(regs)
    IN  [regs EXCEPT ![R2346] = Resistor(s),
                     ![C3Msb] = Codes(s).msb, ![C3Lsb] = Codes(s).lsb]

SoftReset(r, value)  == r = SpiConf /\ (Bit(value, 7) \/ Bit(value, 0))
Calibrates(r, value) == r = CalibrationCtrl /\ Bit(value, 7)

\* FORCE_ALERT, FORCE_RX, FORCE_TX and TO_ALERT, in this order.
Forced(c, value) ==
    IF Bit(value, 2) THEN Alert
    ELSE IF Bit(value, 6) THEN Rx
    ELSE IF Bit(value, 5) THEN (IF Bit(c.regs[EnsmMode], 0) THEN Fdd ELSE Tx)
    ELSE IF Bit(value, 0) THEN Alert ELSE c.ensm

Written(c, r, value) ==
    CASE r \in {ProductId, State}                   -> c
      [] SoftReset(r, value)                        -> ResetChip
      [] Calibrates(r, value)                       -> [c EXCEPT !.regs = Calibrated(c.regs)]
      [] r = CalibrationCtrl /\ ~Bit(value, 7)      -> c
      [] r = EnsmConfig1 ->
            [c EXCEPT !.regs[r] = value, !.ensm = Forced(c, value)]
      [] r = EnsmMode /\ Bit(value, 0) ->
            [c EXCEPT !.regs[r] = value, !.ensm = Fdd]
      [] OTHER                                      -> [c EXCEPT !.regs[r] = value]

-----------------------------------------------------------------------------
Fresh ==
    /\ chip' = ResetChip /\ wire' = ResetWire /\ rx' = 0 /\ alive' = TRUE
    /\ sent' = <<>> /\ before' = ResetChip /\ tuned' = {}

Init ==
    /\ chip = ResetChip /\ wire = ResetWire /\ rx = 0 /\ alive = TRUE /\ edges = 0
    /\ sent = <<>> /\ before = ResetChip /\ tuned = {}

\* The address is left over from the transaction before.
Deselected == [ResetWire EXCEPT !.address = wire.address]

\* Either edge of chip select.
SetCs ==
    /\ alive /\ edges < MaxEdges
    /\ edges' = edges + 1
    /\ wire' = Deselected /\ rx' = 0
    /\ sent' = <<>> /\ before' = chip
    /\ UNCHANGED <<chip, alive, tuned>>

Advanced(w) == [w EXCEPT !.position = (w.position + 1) % Wrap]

\* One transfer that leaves the decoder at w; a position that has wrapped
\* takes the next byte for an instruction.
Transfer(tx, w) ==
    /\ alive
    /\ wire' = Advanced(w)
    /\ sent' = IF wire'.position = 0 THEN <<>> ELSE Append(sent, tx)
    /\ before' = IF wire'.position = 0 THEN chip' ELSE before
    /\ edges' = IF wire'.position = 0 THEN edges + 1 ELSE edges
    /\ edges' <= MaxEdges

Unanswered == rx' = 0 /\ UNCHANGED <<chip, alive, tuned>>

InstructionHigh ==
    /\ wire.position = 0
    /\ Unanswered
    /\ \E tx \in Offered(sent) \cap Byte : Transfer(tx, [wire EXCEPT !.instruction = tx * 256])

CountIn(instruction) == ((instruction \div 2 ^ 12) % 8) + 1

\* The decoder when both bytes of the instruction are there.
Instructed(instruction) ==
    [wire EXCEPT !.instruction = instruction,
        !.write = Bit(instruction, 15), !.count = CountIn(instruction),
        !.address = instruction % 1024, !.dataIndex = 0]

InstructionLow ==
    /\ wire.position = 1
    /\ Unanswered
    /\ \E tx \in Offered(sent) \cap Byte : Transfer(tx, Instructed(wire.instruction + tx))

HasData == wire.position \notin {0, 1} /\ wire.dataIndex < wire.count

Addressed(w) == (w.address - w.dataIndex) % 1024

ReadData ==
    /\ HasData /\ ~wire.write
    /\ rx' = Read(chip, Addressed(wire))
    /\ UNCHANGED <<chip, alive, tuned>>
    /\ \E tx \in Offered(sent) \cap Byte : Transfer(tx, [wire EXCEPT !.dataIndex = @ + 1])

\* Bug: a soft reset leaves the decoder in the middle of its transaction.
KeepsDecoding(r, value) == wire

\* A soft reset resets the decoder too; the counting goes on from there.
DecoderAfter(r, value) == IF SoftReset(r, value) THEN ResetWire ELSE wire

\* The setups that the codes stem from after a write.
TunedAfter(r, value) ==
    CASE SoftReset(r, value) \/ r \in {R2346, C3Msb, C3Lsb} -> {}
      [] Calibrates(r, value) -> {SetupIn(chip.regs)}
      [] OTHER -> tuned

WriteData ==
    /\ HasData /\ wire.write
    /\ rx' = 0 /\ alive' = alive
    /\ \E tx \in Offered(sent) \cap Byte :
        LET r == Addressed(wire) IN
        /\ chip' = Written(chip, r, tx)
        /\ tuned' = TunedAfter(r, tx)
        /\ Transfer(tx, [DecoderAfter(r, tx) EXCEPT !.dataIndex = @ + 1])

SpareByte ==
    /\ wire.position \notin {0, 1} /\ wire.dataIndex >= wire.count
    /\ Unanswered
    /\ \E tx \in Offered(sent) \cap Byte : Transfer(tx, wire)

\* The tuner divides by zero on a host that traps it.
Trap ==
    /\ alive /\ HasData /\ wire.write
    /\ \E tx \in Offered(sent) \cap Byte : Calibrates(Addressed(wire), tx)
    /\ DividesByZero(SetupIn(chip.regs))
    /\ alive' = FALSE
    /\ UNCHANGED <<chip, wire, rx, edges, sent, before, tuned>>

\* QEMU is started again.
Relaunch == ~alive /\ Fresh /\ edges' = edges

DeviceReset == alive /\ Fresh /\ edges' = edges

SavedWire == wire

\* The fields of vmstate_p210_ad9361, in the middle of a transaction too.
Migrate ==
    /\ alive
    /\ wire' = SavedWire /\ chip' = chip
    /\ UNCHANGED <<rx, alive, edges, sent, before, tuned>>

Next ==
    \/ SetCs \/ InstructionHigh \/ InstructionLow \/ ReadData \/ WriteData
    \/ SpareByte \/ Trap \/ Relaunch \/ DeviceReset \/ Migrate

Spec == Init /\ [][Next]_vars
-----------------------------------------------------------------------------
(* What is checked.                                                        *)

\* The types of the register file and of the decoder's fields.
TypeOK ==
    /\ chip.regs \in [Reg -> Byte] /\ chip.ensm \in {Alert, Tx, Rx, Fdd}
    /\ wire.instruction \in Word /\ wire.address \in Reg
    /\ wire.position \in 0 .. Wrap - 1
    /\ wire.count \in 0 .. 8 /\ wire.dataIndex \in 0 .. 8 /\ wire.write \in BOOLEAN
    /\ rx \in Byte /\ alive \in BOOLEAN /\ edges \in 0 .. MaxEdges

\* What the bytes of a transaction ask for, read as a whole.
IsWrite(bytes) == bytes[1] >= 128
Asked(bytes)   == ((bytes[1] \div 16) % 8) + 1
First(bytes)   == (bytes[1] * 256 + bytes[2]) % 1024
Data(bytes)    == IF Len(bytes) < 3 THEN <<>> ELSE
    [i \in 1 .. Smaller(Len(bytes) - 2, Asked(bytes)) |->
        [reg |-> (First(bytes) + 1 - i) % 1024, value |-> bytes[i + 2]]]

Resets(bytes) == {i \in DOMAIN Data(bytes) :
    IsWrite(bytes) /\ SoftReset(Data(bytes)[i].reg, Data(bytes)[i].value)}

\* The write of the i-th data byte takes effect: a soft reset is the last one.
Effective(bytes, i) == IsWrite(bytes) /\ \A j \in Resets(bytes) : i <= j

\* The chip after the writes that the bytes ask for, when it was c before.
Outcome(c, bytes) ==
    LET after[i \in 0 .. Len(Data(bytes))] ==
            IF i = 0 THEN c
            ELSE IF Effective(bytes, i)
                 THEN Written(after[i - 1], Data(bytes)[i].reg, Data(bytes)[i].value)
                 ELSE after[i - 1]
    IN  after[Len(Data(bytes))]

\* Whatever was on the wire before - cut transactions, spare bytes, migrations -
\* the registers and the ENSM state are those of the transaction's start after
\* the writes its bytes ask for, and after nothing more once a write has reset
\* the chip; a byte of a read is answered from the register it stands for.
WireDecodes ==
    /\ chip = Outcome(before, sent)
    /\ Resets(sent) = {} =>
        rx = IF Len(sent) - 2 \in DOMAIN Data(sent) /\ ~IsWrite(sent)
             THEN Read(before, Data(sent)[Len(sent) - 2].reg) ELSE 0

\* From a calibration to the next one the driver reads the component codes of
\* the setup that was calibrated, however it accesses the chip in between.
CodesServeDriver ==
    \A s \in tuned :
        LET codes == [msb |-> chip.regs[C3Msb], lsb |-> chip.regs[C3Lsb]] IN
        /\ chip.regs[R2346] = Resistor(s)
        /\ IF IsProfile(s) THEN codes = Codes(s) ELSE Faithful(Capacitance(s), codes)

\* "A malformed setup must still remain finite for diagnostic reads": no
\* calibration that the driver asks for ends QEMU.
StaysFinite == alive
=============================================================================
