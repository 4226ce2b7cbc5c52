------------------------------- MODULE Crc32 -------------------------------
(***************************************************************************)
(* The checksum of a weight bank: the program computes it over the bytes   *)
(* it wrote (crc32 in main.c), the device over the bytes it reads          *)
(* (op_crc32 in p210_operator.c); the two are the same code.  Both run     *)
(* here, byte by byte, over a bank that a burst of errors damaged.         *)
(*                                                                         *)
(* A register, or a byte, is the set of its bits that are 1.  The device   *)
(* takes the lowest bit of a byte first.                                   *)
(***************************************************************************)
EXTENDS Integers, FiniteSetsExt

CONSTANTS
    Bytes,      \* bound: contents of a byte
    Damage,     \* bound: the bits of a byte that are wrong
    MaxBytes    \* bound: bytes of a bank

Width == 32   \* bits of the register

\* Assumed of the constants.
CrcAssumption ==
    /\ \A byte \in Bytes \cup Damage : byte \subseteq 0 .. 7
    /\ MaxBytes \in Nat

VARIABLES
    written,    \* c of the program's crc32
    read,       \* c of the device's op_crc32
    sent,       \* bytes so far
    burst       \* history: the positions of the wrong bits

vars == <<written, read, sent, burst>>

Start == 0 .. Width - 1   \* 0xFFFFFFFF

\* 0xEDB88320
Polynomial == {31, 30, 29, 27, 26, 24, 23, 21, 20, 19, 15, 9, 8, 5}

\* c >> 1, and the polynomial if a 1 was shifted out.
Shift(c) ==
    LET shifted == {bit - 1 : bit \in c \ {0}}
    IN  IF 0 \in c THEN SymDiff(shifted, Polynomial) ELSE shifted

\* Bug: four shifts per byte.
NibbleShifts == 4

ByteShifts == 8

Feed(c, byte) ==
    LET after[k \in 0 .. ByteShifts] ==
            IF k = 0 THEN SymDiff(c, byte)
            ELSE LET before == after[k - 1] IN Shift(before)
    IN  after[ByteShifts]

\* What op_crc32 returns.
Checksum(c) == SymDiff(c, Start)

Init == written = Start /\ read = Start /\ sent = 0 /\ burst = {}

\* The next byte of the bank, written and read back.
Byte ==
    /\ sent < MaxBytes
    /\ \E byte \in Bytes, wrong \in Damage :
        /\ written' = Feed(written, byte)
        /\ read' = Feed(read, SymDiff(byte, wrong))
        /\ burst' = burst \cup {8 * sent + bit : bit \in wrong}
    /\ \A first, last \in burst' : last - first < Width
    /\ sent' = sent + 1

Spec == Init /\ [][Byte]_vars
-----------------------------------------------------------------------------
(* What is checked.                                                        *)

\* No burst of wrong bits that fits the register goes unnoticed, wherever it
\* falls between the bytes and whatever follows it, and a bank that is read as
\* it was written is accepted.
DamageShows == Checksum(written) = Checksum(read) <=> burst = {}
=============================================================================
