---------------------------- MODULE MCP210AD9361 ----------------------------
(* P210AD9361 under two masters.  The one of the wire makes transactions   *)
(* of one, two and eight bytes around the ENSM registers, the soft reset   *)
(* and the end of the address space, and goes on after the data.  The one  *)
(* of the tuner programs the filter as the Linux driver does, in bursts,   *)
(* and starts the calibration.                                             *)
EXTENDS P210AD9361

\* Wire master: write 1, write 2, write 8, read 2; register 0x14, 0x01, 0x17.
Wire(bytes) ==
    CASE Len(bytes) = 0 -> {128, 144, 240, 16}
      [] Len(bytes) = 1 -> {20, 1, 23}
      [] Len(bytes) \in 2 .. 3 -> {33, 65, 69}
      [] OTHER -> {32}

\* Tuner master: INTEGER_BB_FREQ and the three bytes below it, TUNE_CONFIG and
\* TUNE_DIVIDE, CALIBRATION_CTRL, and a read of the codes.
Tuner(bytes) ==
    CASE bytes = <<>> -> {176, 145, 128, 17}
      [] bytes = <<176>> -> {68}
      [] bytes = <<145>> -> {249}
      [] bytes = <<128>> -> {22, 0}
      [] bytes = <<17>> -> {236}
      [] Len(bytes) = 2 /\ bytes[1] = 176 -> {0, 1, 24, 36}
      [] Len(bytes) = 3 /\ bytes[1] = 176 -> {0, 1, 9}
      [] Len(bytes) \in 4 .. 5 /\ bytes[1] = 176 -> {0}
      [] Len(bytes) = 2 /\ bytes[1] = 145 -> {0, 1}
      [] Len(bytes) = 3 /\ bytes[1] = 145 -> {0, 2, 9, 60, 255}
      [] Len(bytes) = 2 /\ bytes[2] = 22 -> {128}
      [] Len(bytes) = 2 /\ bytes[2] = 0 -> {129}
      [] Len(bytes) \in 2 .. 3 /\ bytes[1] = 17 -> {0}
      [] OTHER -> {}

\* The same chip and wire under the tuner's master: its transactions are short of
\* a wrap, and it makes three.
Tuned == INSTANCE P210AD9361 WITH Wrap <- 256, Offered <- Tuner, MaxEdges <- 3

VARIABLE master

MCInit == Init /\ master \in {"wire", "tuner"}

MCNext ==
    \/ master = "wire" /\ Next /\ master' = master
    \/ master = "tuner" /\ Tuned!Next /\ master' = master

MCSpec == MCInit /\ [][MCNext]_<<vars, master>>
=============================================================================
