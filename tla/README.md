# TLA+ models of the NeptuneSDR digital twin

The repository is a software twin of an SDR board: a Zynq-7020 with an AD9361
radio, programmable logic that computes spectra, DMA controllers, a USB gadget
and an IIO daemon, written twice: as a Python package
(`src/neptunesdr_twin`) and as QEMU devices in C (`cosim/qemu-10.0.2`). This
directory holds TLA+ models of its stateful parts, the TLC configurations that
check them on small instances, and TLAPS proofs of the main invariants for every
instance. Paths below are relative to the repository.

## 1. The system

| Part | State it keeps | Operations | Talks to |
|---|---|---|---|
| `pl_runtime.py` continuous spectrum runtime | active radio configuration, averaging progress, queue of complete updates, sequence number, loss to report, terminal error, worker thread | `start`, `stop`, `step`, `drain`, `set_publisher`, `snapshot` | reads AD9361 and RF model, drives the spectrum processor, calls a publisher |
| `ad9361.py` radio control | LOs, rate, bandwidth, gains, ENSM state, `config_epoch`, calibration | setters, ENSM commands, calibration events | trace, virtual clock; read by RF model and runtime |
| `rf.py` RF model, FIFOs | `sample_index`, FIFO contents and overflow counters | `synthesize`, `produce`, FIFO read and write | reads AD9361 |
| `fft.py` spectrum processor | frames averaged, packet sequence, overruns, result FIFO | `process_frame`, `restart`, configuration | called by runtime or board |
| `clock.py` virtual clock | time, heap of events | `schedule`, `cancel`, `run_until`, `run_next` | calls everything that is timed |
| `trace.py` | list of events | `append` | called by everything |
| `zynq.py` DMA controllers | registers, queue of four transfers, timer, latched interrupt causes | register reads and writes, completion, `reset` | virtual clock |
| `zynq.py` boot, memory map | boot stage, regions | `power_on`, `power_off`, boot events | virtual clock, DMA |
| `board.py` | power state, services, owner of the RF contact | power, service start and stop, IIO buffer reads | all of the above, under one lifecycle lock |
| `iio.py` IIOD server | sessions, open buffers | commands of the IIOD protocol | board |
| `spectrum_transport.py` TCP publisher | accept thread, client list | `start`, `publish`, `stop` | publisher of the runtime |
| `usb.py`, `usbip.py` | endpoints, halt and toggle state, URBs, export sessions | control requests, bulk transfers, submit, unlink, detach | board, host |
| QEMU `p210_sdr.c`, `p210_fft.c`, `p210_ad9361.c`, `p210_operator.c`, `p210_rtl.c` and `operator-core` | device registers, DMA rings, timers, migration state | MMIO, SPI, timers, reset, migration | QEMU |
| `spec.py`, `contracts.py`, `throughput.py`, `cli.py`, scripts, Verilog | none that changes at run time, or a pure data path | | |

How they interact. The board builds the parts and gives them one virtual clock,
so that everything timed is a callback run by `VirtualClock.run_until`. The
exception is the continuous runtime: it has a daemon thread of its own, which
reads the AD9361 and the RF model without a lock the setters take, while IIOD
session threads retune the radio (`tests/test_runtime_contacts.py` does exactly
this). The locks of the Python package are `_step_lock` and `_state_lock`
(runtime), `_lifecycle_lock` (board), one in the publisher, several in
`usbip.py`; `iio.py`, `ad9361.py` and `rf.py` have none.

Hard behaviours, and the properties that make the parts correct:

- *Runtime.* Retunes, drains, publisher swaps, stop and foreign reads between any
  two reads of a step; a full queue; publishers that fail or re-enter; wrapping
  sequence numbers. Correct means that no update is lost, repeated, reordered or
  overflows the queue, that an update averages what its header says, that every
  discarded frame is reported once, that a failure is final and a stop succeeds.
- *DMA.* Pauses, disables and resets between arming and completion; a submission
  held while the queue is full; identifiers that are reused; cyclic transfers.
  Correct means one timer and one completion per transfer, in order, DONE bits
  that never name a transfer in flight, and a time that pauses do not change.
- *Accelerators and operators.* Jobs that fail before, inside or after their DMA;
  answers of an earlier job; weight banks that change between ACTIVATE and START;
  blocks that hang; resets and migrations. Correct means that every start is
  answered once, DONE only with the results of the registers and the memory there
  were at the start, and every result names the bank it was computed with.
- *Arithmetic of the devices.* Rounding, scaling, widths, bit order. Correct means
  that blocks are transforms, checksums show damage, and the receiver's buffers
  hold whole frames of a tone without jumps.
- *AD9361 behind SPI.* Bursts that are cut, migrated or reset by their own data;
  extremes of the filter calibration. Correct means that registers are those the
  bytes ask for, and that the codes decode to the capacitance that was computed.
- *Bare-metal program.* Resets at any step.
- *USB/IP.* URBs, unlinks and two threads that answer pending URBs. Correct means
  one answer for each, none after an unlink, and none forgotten.
- *Board, radio, publisher, IIOD.* Events that outlive a power cycle, connections
  that race with stop (section 6).

`PROJECT.json` lists the components with what is modelled, and every hazard at
its line with the property that covers it or the reason none does yet.

## 2. Modules

| Module | Models |
|---|---|
| `UpdateStream` | what the runtime promises: frames are absorbed, discarded and owed, or emitted into a bounded FIFO that consumers empty from the head |
| `PLSpectrumRuntime` | the runtime, with the setters of the AD9361, the sample counter of the RF model and the counters of the processor that it uses |
| `AxiDmac` | the DMA controller of `zynq.py` on the virtual clock |
| `P210Dmac` | the same controller as the QEMU device `p210_sdr.c` has it |
| `DmaQueue` | what both controllers promise to a driver |
| `P210Receiver` | the converter cores of `p210_sdr.c`, its tones, and the bytes of receive buffers |
| `P210AD9361`, `BbfTuner` | `p210_ad9361.c`: the SPI wire and registers; the calibration of the baseband filter |
| `AcceleratorContract` | what a driver relies on from an accelerator |
| `P210Fft`, `GuestMemory` | `p210_fft.c` behind its registers; RAM as QEMU's DMA sees it |
| `PowerFft`, `Radix2` | the arithmetic of `p210_fft.c`; the loop nest of a radix-2 transform, shared by all transforms |
| `P210Rtl` | `p210_rtl.c` with a Verilated block behind its ABI |
| `OperatorDevice` | the portable operator, `operator-core/p210_operator_device.c` |
| `P210Operator` | the QEMU operator, `p210_operator.c` |
| `OperatorTwins` | both under one disciplined driver |
| `OperatorClient` | the QEMU operator under a driver that keeps track of WEIGHT_CRC |
| `GoldenArithmetic`, `OperatorBlock` | the arithmetic the operators share, and one block computed with it |
| `Crc32` | the checksum of a weight bank, at the program and at the device |
| `OperatorFirmware` | `qemu-baremetal/main.c` on the QEMU operator |
| `UsbIpImport` | `usbip.py`: an imported device with its session thread and one native-IIO pipe |
| `PLSpectrumRuntimeProofs`, `AxiDmacProofs`, `P210DmacProofs`, `P210AD9361Proofs`, `UsbIpImportProofs` | theorems about these modules, and the refinements of `UpdateStream` and `DmaQueue` |
| `DataPathProofs` | theorems about `P210Receiver`, `Crc32` and `OperatorBlock`, each alone and in the scenes of `MCDataPath` |
| `AcceleratorsProofs`, `OperatorsProofs` | theorems about the accelerators and about the operators, each alone and in the scenes of `MCAccelerators` and `MCOperators` |
| `MCPLSpectrumRuntime`, `MCAxiDmac`, `MCP210Dmac`, `MCP210AD9361`, `MCAccelerators`, `MCOperator`, `MCOperators`, `MCDataPath` | instances for TLC |

Operators whose comment begins with *Bug:* are not part of a model. Each is the
form a definition would take with a plausible mistake in the code; substituting
one for the definition that follows must break a named property, which shows
that the property depends on the code.

### PLSpectrumRuntime

`pc` names the places inside a step where another thread can run. The code holds
`_step_lock` through a step, which `stepper` records, and takes `_state_lock` in
short sections. Sections that follow each other and touch only what the lock
holder reads are one action.

| Code | Model |
|---|---|
| `step`, `_step_locked` from the terminal check to the retry | `BeginStep`, `RefuseStep`, `RetryOldestPending`, `SinkAccepts`, `SinkRejects`, `RetryAccepted` |
| `_stable_radio_configuration` | `ReadEpoch`, `ReadRate`, `ReadLO`, `ReadDone`, `ReadUnstable` (a step reads twice: `reading` is "observe" or "validate") |
| `_remember_or_activate`, `_activate` | `RememberOrActivate`, `Activate` with `OweDiscarded`, `NewProcessor` |
| reservation of a slot | `WillEmit`, `QueueFull`, `EnterBackpressure`, `StartBlock`, `StepBound` |
| `RFModel.synthesize`, one sample at a time | `SampleEpoch`, `SampleLO` |
| `_validate_source_block` | `ValidBlock`, `MovedBlock` (adopted by `AdoptMovedBlock`), `BrokenBlock` |
| `process_frame`, `_decorate_reconfiguration_loss`, `_deliver` | `ProcessFrame`, `GenerateUpdate`, `LossOverflows`, `Deliver`, `Published`, `Enqueue` |
| `AD9361.set_*`: assign the field, later bump the epoch | `SetLO`, `SetSampleRate`, `SetOther`, then `BumpEpoch` |
| `start`, `stop`, `drain`, `set_publisher`, `_run` | `Start`, `Stop`, `Drain`, `SetPublisher`, `WorkerLoop` |
| another reader of the RF model | `ForeignRead` |

History variables: `averaging` (what the average in progress was made of),
`delivered`, `framesOut`, `lossOut`.

`ConcurrentRadio` chooses whether setters run in their own threads or one thread
calls setters and `step` in turn. `NoRetuneMixed` and `EpochNamesRadio` hold in the
second case only (section 4).

Left out: wall-clock pacing and lag (it delays a step and changes no state that
other code reads), statistics nothing reads back, payloads of packets. The
increment of `config_epoch` is one step: the supported CPython versions switch
threads at calls and loop edges, not inside it.

### AxiDmac

Registers that decide behaviour are variables; `queue`, `busy` and `saved` are
`_queue`, `busy` and `_pause_remaining_ns`; `events` is the part of the virtual
clock's heap that belongs to the controller, with `ours` marking the event that
`_timer` holds. So an event that the code forgot to cancel would be in the model
too, and would fire. Every operation runs to its end before the next, because
everything here happens on one thread, so each is one action: `Submit`
(`Accept` or `Hold`), `WriteControl` (`Disable`, `Enable` with `Suspend` and
`Resume`), `WriteFlags`, `WriteLength`, `WriteMask`, `Acknowledge`, `Reset`,
`Fire` (`Repeat` or `Retire`, including the held submission that a completion
accepts) and `Tick`.

`n` in a descriptor, `issued`, `finished` and `owed` are history: the ordinal of
a transfer since the controller was enabled, and the time its head still has to
run. Addresses, read-only registers and the `on_transfer` callback are left out:
the callbacks the repository installs do not write the controller.

### P210Dmac

One of the two controllers of `P210SDRState` (`toMemory` tells which, chosen at the
start from `Directions`), and of the converter cores the number of enabled RX channels. `ring`, `head`, `count` are
`queue`, `queue_head`, `queue_count`, with slots that are zeroed where the code
zeroes them. QEMU runs register accesses, timer callbacks and migration under one
lock, so each is one action.

| Code | Model |
|---|---|
| `p210_dmac_write` | `Acknowledge`, `WriteMask`, `WriteControl` (`Disable`, `Enable` with `Suspend`, `Resume`), `Submit` (`Accept` or `Hold`), `WriteLength`, `WriteFlags` |
| `p210_core_write` to a channel control | `WriteScan` |
| `p210_dmac_accept_descriptor`, `p210_dmac_schedule_head` | `Enter`, `StartHead` |
| `p210_dmac_copy`, `p210_rx_fill` | `Copy`: bytes left and frames generated after each chunk; `Stops`: where the copy can stop, since the bus may fail any chunk |
| `p210_dmac_complete` | `Complete` (`Repeat` or `Retire`) |
| `p210_sdr_post_load` | `Migrate`: what it refuses is `LoadAccepts`, what it does to the timer `LoadTimer` |
| `p210_sdr_reset` | `Reset` |

`muldiv64_round_up` is the rounded-up quotient in `Delay`. `sampleIndex` is not
wrapped: it has 64 bits in the code. `captured`, `owed`, `issued`, `finished`,
`submitted` and `early` are history. Addresses, tone values and registers that
store what is written are left out, and so is a migration stream that no machine
could have saved.

`DoneBits` is weaker here than in `AxiDmac`, because a cyclic transfer can end: it
took no identifier, so the transfer behind it carries the same one, and when the
bus fails the cyclic transfer, the DONE bit of a transfer in flight is set.
`early` is the set of identifiers to which this has happened since they were last
taken. The comment at `p210_sdr.c:415` states that such a failure completes like
any transfer, so this is recorded as a hazard and not as a divergence.

### DmaQueue

The queue without time, pauses, interrupts, rings or data: transfers wait in order,
one more submission is held while the queue is full and enters as the head ends,
identifiers are consecutive, DONE bits are set by the end of a transfer and
cleared when an identifier is taken. `BusCanFail` says whether a cyclic transfer
can end: not in `AxiDmac`. Both controllers implement it (`ImplementsQueue` in each):
a ring of slots in one, a list in the other.

### P210Receiver

| Code | Model |
|---|---|
| `p210_rx_tone_sample`, `p210_sine_q15` | `Sample`: `Amplitude`, `Lead`, `Toward0` over the table `Sine` |
| `p210_rx_fill`, `p210_dmac_copy` | `Fill`, `Chunks`, `Copy`: bytes low and high, chunk by chunk, each of which the bus may fail |
| `p210_rx_scan_mask` at acceptance | `Submit` |
| `p210_core_read`, `p210_core_write` | `CoreRead`, `Written` (`ReadOnly`, `ClearedByOnes`) |
| `p210_sdr_reset` | `Reset`, `ResetCore` |

The DMA controller is reduced to one transfer that is copied some time after its
submission; when it is copied is `P210Dmac`'s subject. `asked` and `begun` are history.

### P210AD9361 and BbfTuner

`chip` is `regs[]` and `ensm_state`, `wire` the fields that decode a byte's place in
its transaction. `Transfer` is `p210_ad9361_transfer` with its alternatives
`InstructionHigh`, `InstructionLow`, `ReadData`, `WriteData`, `SpareByte`; `Written` is
`p210_ad9361_write` with every effect of a register; `SetCs`, `DeviceReset`, `Migrate`
and `Relaunch` are the other entries. The specification keeps, as history, what the
bytes of the transaction so far ask for; since `position` is an 8-bit field that wraps
under one chip select, a byte after the wrap begins a new transaction, and the
history restarts there. `BbfTuner` is `p210_ad9361_complete_rx_bbf_cal` with its
constants as CONSTANTS, so that the run uses scaled ones whose products fit TLC's
integers. A division by zero, which on some hosts stops the program and on others
yields zero, is a choice (`Trap`, or `ComponentProduct` zero).

### P210Fft, GuestMemory, AcceleratorContract

A write of START runs the whole job inside one register write, so `Reject`,
`FailAllocation`, `FailRead` and `Transform` are whole starts; a DMA write that leaves
RAM stops anywhere before (`Span`, `Stored`). The transform is the operator `Power`,
which depends on all samples. `Migrate` is the VM state with `post_load`.
`AcceleratorContract` says what the driver relies on: a start is answered at once by
DONE, with the results of the memory and registers at the start, or by ERROR, with
nothing but the output changed; the count moves with results. `BUSY` is set and
cleared within the write.

### P210Rtl

The state of the device and of the block behind `rtl_block.h`: `running` is whether its
state machine is out of `S_IDLE`, `held` its sample memory. `Start` has one action per
way to end: `NoLibrary`, `WrongSize`, `FailRead`, `Timeout`, `FailWrite`, `Finish`.
`Libraries` are none, one without `rtl_reset` and a complete one; `Hanging` those
whose block may never be done.

### OperatorDevice, P210Operator, OperatorTwins, OperatorClient, OperatorFirmware

A buffer is one cell of memory and a bank its checksum and modes. The portable device
captures the bank at ACTIVATE (`table`); the QEMU device reads it again at START
(`Checked`, `RejectBank`) and remembers only a checksum (`LiveChecksum`). After a reset
the QEMU registers name a bank of no bytes, whose checksum is 0 (`BankEmpty`).

`OperatorTwins` runs both with memories of their own under one driver. The driver
programs a bank before it activates, activates before it starts, keeps the bank in
between (`trusted`), and has the output of an operator block in memory. Every other
buffer may be outside memory, and `buffered` tells whether those of the latest START
were inside. `OperatorClient` lets a driver do anything to the QEMU device: `kept` says
that WEIGHT_CRC is as it was when an ACTIVATE was accepted, `attested` that the latest
result was computed in such a state.

`OperatorFirmware` is `main()` phase by phase
on the QEMU device, from `Boot` with any memory and with `SystemReset` at any step.
Both devices are accelerators too, but their contract is the attribution of results,
not `AcceleratorContract`: the QEMU one may use a bank of which ACTIVATE knows nothing.

### PowerFft, OperatorBlock, GoldenArithmetic, Radix2, Crc32

Pure data paths, stepped butterfly by butterfly (or byte by byte), so that a property
can look between stages. `Radix2` is the loop nest; `PowerFft` gives it the CORDIC
twiddles at their full 32 bits and halving butterflies, `OperatorBlock` the committed
ROM's twiddles and rounding to even. A byte or register of `Crc32` is the set of its
bits. Definitions that recur are recursive functions. The properties are of two kinds:
`TransformsFaithful` compares with the mathematics, within a slack that belongs to the
widths of the run; `BlocksExact` is about every bit and holds at any width. It leaves one
thing open because the code does: the scale of a point is cut to Q1.15, so at 24 bits a
long point that is just above the threshold vanishes.

### UsbIpImport

`pc`, `urb` and `data` are where each of the two threads is, the URB it serves and the
bytes it took. What runs under `state_lock` or `output_lock` is one action; `flush_lock`
is a variable, since it is held over both and over a send.

| Code | Model |
|---|---|
| `_submit` of an IN URB | `SubmitIn`, then `AnswerAtOnce`, or `NothingYet` and `Register` or `TooManyPending` |
| `_flush_all` | `AcquireFlush`, `Peek`, `Take`, `Check`, `Pop`, `Send`, for either thread |
| `_unlink` | `Unlink` |
| CLOSE_PIPE, RESET_PIPES | `ClosePipe` |
| end of `run` | `Disconnect` |
| `_reader` | `Receive`, `Buffer`, `ServiceEnds`, `Stopped`, `Ending` |

A byte is its place in the service's stream. Opening a pipe again, bulk OUT, other
endpoints and a second import are left out.

## 3. Runs

| Run | Instance | Question |
|---|---|---|
| `rt_concurrent` | worker, two concurrent sessions, 2 retunes, 3 blocks of 2 samples, 1 slot, a publisher that may drain from inside its call | Are averages sound, is every update and every lost frame accounted for, is there room for every update? |
| `rt_sync` | one thread, 2 retunes, 5 blocks, 2 slots, sequence numbers modulo 3, losses up to 2 | Are updates ordered and numbered, one tuning each, one configuration per epoch, and is `UpdateStream` implemented? |
| `rt_live` | fairness, worker and caller, 1 retune, 2 blocks, another reader of the RF model | Are samples of refused blocks accounted for, is a failure final, does `stop` end the worker, do queued updates leave? |
| `rt_retune_mixed` | one concurrent session, 1 retune | Expected to fail: section 4. |
| `dma` | 2 identifiers, 5 transfers, cyclic allowed, fairness | One timer, order, DONE bits, time over pauses; is `DmaQueue` implemented; do held submissions and transfers finish? |
| `p210_dmac` | both directions, 2 slots, 3 transfers of 1 and 20 bytes, 0 or 3 channels, chunks of 8 bytes | Do the tones continue over chunks, failures and migrations; does a saved state load and go on; is `DmaQueue` implemented? |
| `ad9361` | a wire master (1, 2 and 8 bytes, three places, position modulo 12) and a tuner master (120 setups in bursts) | Do registers follow the bytes; do the codes decode to the capacitance? |
| `ad9361_malformed` | the same | Expected to fail: section 4. |
| `operators` | scenes: twins, portable alone, QEMU alone, program | Are the twins one; does a result name its bank; does one of the QEMU device while WEIGHT_CRC is kept; does the program pass, with no attempt of it failing? |
| `accelerators` | scenes: FFT device (8 words of RAM of 12, 2 sizes, 20 jobs), RTL device (2 buffers, all libraries) | Interrupt line, STATUS, memory, and the contract of both. |
| `data_path` | scenes: spectra, blocks, checksums, receiver | Are the computed values those of the mathematics the code claims? |
| `usbip` | 3 IN URBs of which 2 may wait, 4 bytes, 2 unlinks, fairness | Is every URB answered once, and none forgotten? |

`operators`, `accelerators`, `data_path` and `ad9361` check side by side components that
share nothing. A variable of the MC module (`scene`, `master`) is chosen at the start
and names the component that moves; the others stay as they came up. A behaviour of
the run is a behaviour of that component alone, so nothing is hidden by the
combination; what is shared, the twins' registers and memory, is shared in the code.

Why the bounds are enough. *Runtime*: the averaging depth is 1 at one rate and 2 at the
other, so that a retune truncates an average, two retunes truncate two before an
update is made, and a retune to the smaller depth completes an update early (the
case the reservation of a slot has to survive). Two samples per block allow a retune
or a foreign read in the middle of one. Sequence numbers wrap within the run, and
losses reach their limit in `rt_sync`. Two LOs are symmetric; the rates are not, since
they have different depths. *DMA*: every identifier is used at least twice, the queue
fills, a submission is held and accepted, and a head lasts long enough to be paused
in the middle, at its end and when it is due. A frame of three channels is 6 bytes,
which does not divide the chunk of 8 (as it does not divide 4096 in the code), and 20
bytes take three chunks with a partial frame at the end; in `data_path` the chunk is 10
and the sample index wraps at 128. *SPI*: position wraps within a transaction, and
addresses pass zero. *Tuner*: the setups reach the smallest and the largest capacitance,
the profile, a zero divider and a zero BBPLL. *FFT device*: jobs touch, overlap by a
word on either side, end at the end of the address space and leave RAM on both sides,
as input and as output. *Operators*: three banks of two sizes, two of them of one size; a
bank is overwritten by the driver and by a result, moved, outside memory, and of the
wrong size for the block; buffers lie outside memory, and a second result follows the
first. The input stays blank, since a result tells banks apart, not samples.
*Arithmetic*: full-scale blocks of 4, 8 and 16 points, impulses at every place and
waves at every frequency; transforms of other sizes run the same code for more
stages. Samples have 12 bits and the butterflies see 14 of the twiddles' 30 fractional
bits, so that products fit TLC's integers. One threshold is positive, since the register
takes any sign. *Checksum*: six bytes hold a burst as wide
as the register at every offset. *USB/IP*: two threads and one queue; three URBs fill
the pending limit of two with one more, and four bytes overflow the buffer of two.

The bounds are named `Max...`, `Files`, `Loads`, `Patched`, `Writes`, `Offered` in the
modules; they appear only in guards of what the environment does, or of the step
before it takes a block.

One alternative in `PLSpectrumRuntime` is unreachable and is kept because the code has
it: the capacity error of `_deliver` (theorem `QueueNeverOverflows`). In `AxiDmac` it is
the early return of `_complete_head` when nothing is queued (`OneTimerOnly`), in
`P210Dmac` that of `p210_dmac_complete` and the timer that `p210_sdr_post_load` sets for
a head without one.

Deadlock is not checked where the system may stop: the program ends, blocks and
checksums are finished, a USB/IP session is over.

Fairness. `rt_live` assumes that a thread that can run does (weak fairness of the worker
loop, of the step and of the setter between assignment and epoch), that a publisher
returns, and that it does not reject for ever (strong fairness of `SinkAccepts`): `stop`
itself says that it cannot bound a publisher. `dma` assumes that whoever owns the
virtual clock keeps advancing it, and that an event that is due is run. `operators`
assumes that the program's CPU runs; resets are bounded. `usbip` assumes that the
session thread ends what it has begun and that the reader thread runs (its `recv` has
a timeout, so it sees `stop_event`). Drivers, hosts, services, clients and retunes are
never assumed to act.

## 4. Divergences between code and documentation

- *A retune can be mixed into a result* (`rt_retune_mixed`). `set_lo_frequency` assigns
  the LO (`ad9361.py:192`) before it bumps the epoch (`:201`). A worker that synthesizes
  in between stamps samples at the new LO with the old epoch, and
  `_validate_source_block`, which compares epochs, accepts the block.
  `docs/WIDEBAND_50MHZ.md:90` says the runtime never mixes a retune into one result.
- *Metadata can be torn.* The double read of the epoch in `_stable_radio_configuration`
  would be a seqlock if writers changed the epoch before and after the fields; they
  change it only after. Two updates of one epoch can name different LOs:
  `EpochNamesRadio` fails with `ConcurrentRadio`. `docs/ARCHITECTURE.md:73` says rate, LO
  and epoch are derived atomically.
- *The filter calibration can divide by zero* (`ad9361_malformed`). `p210_ad9361.c:152`
  says a malformed setup must remain finite, but only a zero divider or a zero BBPLL
  is replaced; a BBPLL of 19 Hz with a divider of two makes the denominator at line 176
  zero.
- *The QEMU operator attributes results to the latest ACTIVATE* (`p210_operator.c:222`),
  whichever bank START read. The portable device's header promises per-result
  attribution and calls the QEMU handlers thin adapters. `PortableAttributes` holds for
  the one; for the other `EmulatedAttributes` does, which asks that WEIGHT_CRC be left
  alone after the ACTIVATE, and `TwinsAreOne` says that a disciplined driver cannot tell.
- *The QEMU operator accepts the bank of its reset registers.* WEIGHT_ADDR, WEIGHT_BYTES
  and WEIGHT_CRC are 0, a DMA of no bytes succeeds and the CRC of nothing is 0
  (`p210_operator.c:235-250`), so an ACTIVATE right after a reset reports WEIGHT_READY;
  the portable device refuses it, address 0 being below its memory
  (`p210_operator_device.c:44`). `P210Operator` and `OperatorDevice` each do what their
  code does; the driver of `OperatorTwins` names a bank first.
- *The QEMU operator ignores the outcome of its DMA writes* (`p210_operator.c:219`), and of
  the read of a bypass. With an output outside memory an operator block is counted and
  DONE, and any bypass is DONE; the portable device gives no answer. `SameAnswer` allows
  for the missing answer; the count would differ, so the driver of the twins has the
  output of an operator block in memory.
- *The Verilog FFT clamps after every stage* (`p210_fft_synth.v:171`), the C core once at
  the end (`p210_operator_core.c:99`). A full-scale tone whose third stage exceeds 24 bits
  leaves different bins from sixteen points on; the file's header says bit-exact.
- *USB/IP can disturb the byte stream* that `docs/USB.md:58` calls unchanged. The session's
  direct read may answer a new URB with bytes that are due to one that waits, between
  the reader's append and its flush; bytes taken for an URB that is unlinked during
  the flush are dropped (`UrbsAnswered` bounds it to that); a RET_UNLINK with status 0 can
  precede the RET_SUBMIT of its URB; and a read that finds nothing just before the
  last data and the end of the service answers EPIPE, with that data still to come.

`SoundUpdates` states what does hold with concurrent setters: the depth, the continuity
and the one epoch of the samples of an update. `rt_sync` shows that both statements of
the documentation hold when one thread does everything.

## 5. Proofs

All proofs are for every value of the constants, under the named assumptions of the
modules, which TLC evaluates in each run. Some are definitions that a module's
theorems take as a hypothesis, because the module is instantiated and not extended:
`OperatorAssumption`, `FirmwareAssumption`, `RtlAssumption`, `CrcAssumption`, and
`CutsOrEnds` (the library can reset the block, or the block always ends) and
`OperandsAssumption`. The MC modules assume them of their instances, as `ScenesAssumption`,
`LibrariesAssumption`, `BankAssumption` and `BlockAssumption`. `FftAssumption` contains, for
lack of induction, that powers of two are positive naturals, and `OperandsAssumption` that a
component holds at least 1; `FirmwareAssumption` states
that the golden vectors of the program belong together: the checksum, the length and the
expected block are those of its bank.

*Runtime.* `InvariantHolds` proves `IInv`. The ledgers and the room of the queue
are not inductive alone: that `Enqueue` has room depends on a reservation made
many steps earlier, with counters that a retune may have reset since. `IInv`
therefore adds that a block has its full length while it is in the step
(`BlockShape`), that the reserved slot stays free from reservation to delivery
(`SlotReserved`), and that the runtime's counters agree with those of the
processor but for the one place between emission and bookkeeping
(`ProcessorInStep`). The proof takes one lemma per part and one case per action.
From it follow `TypeCorrect`, `NoUpdateLost`, `NoFrameUnreported`,
`QueueNeverOverflows`, `StallsOnlyWhenFull`, `ProcessorPredicted` and, as an
action property, `FailureStays`. Four more invariants stand on it:

- `NoSampleUnaccounted`: `SampleInv` adds what the block of the step holds at each place
  (`BlockEmpty`), so that the samples another reader takes in the middle of a block are
  counted as refused with the block.
- `UpdatesSound`: `SoundInv` follows the average in progress (`AverageSound`) and what the
  step has observed (`StepSound`). It needs no assumption on the setters: a retune at any
  point of a step changes what is averaged, never what the header says of depth,
  continuity and epoch.
- `UpdatesInOrder`: `UpdatesNumbered` relates ordinals, sequence numbers and the place of
  an update (queue, retry, hand). It is proved under `~ReentrantSink`: a publisher that
  drains the queue from inside its own call overtakes the update it is being given.
- `RetunesNeverMixed` and `EpochsNameRadios`, under `~ConcurrentRadio`: one thread retunes
  and steps in turn, so that no setter is halfway while a step runs (`RadioStill`) and
  what was tuned at an epoch is what updates of it carry (`TuningKept`). With concurrent
  setters both are false of the code (section 4).

`RuntimeImplementsStream` proves that the runtime implements `UpdateStream`, under
`~ReentrantSink` and for the reason above: every step absorbs, discards, emits or
consumes, or maps to a stutter.

*DMA controller of `zynq.py`.* `DmacInvariant` proves `IInv`. That DONE bits are honest
depends on identifiers being remainders: at most `Depth` transfers are in flight, and fewer
than `Depth` numbers in a row have different remainders (`ModDistinct`, from
`DivMod` and `ModOfSum`). That bound in turn comes from the order of the queue: the
transfer in place `i` has an ordinal in `finished + 1 .. finished + i`, and those of
later places are never smaller, which cyclic transfers (that take no identifier)
make an inequality instead of an equation. `AppendOrdered` and `TailOrdered` show
that accepting and retiring keep the order, `TakeDone` and `RetireDone` the bits,
and a held submission is a retirement followed by an acceptance. The timer half
rests on `OneTimer`: since at most one event is in the clock and it is ours,
cancelling leaves none and completing needs no other. `TransfersInOrder`,
`DoneBitsHonest`, `OneTimerOnly` and `PausesKeepTime` follow. The active identifier,
held submissions and the interrupt line (`HeldAndActive`, `LineLatched`) and the types
(`DmacTypes`) are parts of the same invariant. `ControllerImplementsQueue` proves that
`AxiDmac` implements `DmaQueue`: `InitShown` and `NextShown` map initial states and steps,
under `IInv`, which types the queue. `AppendShown` and `TailShown` carry the two
operations on queues through the mapping; a completion that accepts a held submission
is one `End`.

*DMA controller of QEMU.* `P210DmacInvariant` proves `IInv` of the same controller as a ring:
`RingInOrder` is the order of the slots from `head` on. Because a cyclic transfer can
end here (`CyclicTransmits`: only towards the radio), its end leaves identifiers as they were, and the
DONE bits carry the exceptions in `early`. `TonesContinue` shows that the sample index
counts exactly the frames that reached buffers. What a copy of any number of chunks does
is a recursive function, about which nothing can be proved by the library's induction
theorems; the proof instead takes the least chunk at which the claim fails
(`NatLessThanWellFounded` with `WFMin`, which take sets) and refutes it from the chunk
before. `SavedStatesResume` shows that `p210_sdr_post_load` accepts every state a machine
can be saved in and that the head keeps its time. `RingImplementsQueue` maps the ring to
the list of `DmaQueue`.

*Receiver.* `CaptureStaysWhole`: for every mask, length, tone, chunk of at least a frame, and
cut by the bus, the buffer is what one fill with the channels of the submission would
have written. `ReceiverInv` alone is no stronger than what it states of a transfer that
waits; the work is in `Whole`, which holds between any two chunks of a copy: so far the
bytes are those of one fill, and unless the copy is at its end or has no channels they
are whole frames, as many as the sample index has advanced *modulo the phases of a tone*
(`IndexWraps`, since 2^64 is a multiple of 64). `FurtherWhole` carries it over a chunk:
`ChunkFrames` (all chunks but the last are whole frames), `FramesBefore` (whole frames in
front change neither the place of a byte in its frame nor its half) and `SampleRepeats`
(a tone does not tell such indices apart). The copy is a recursive function, treated as
in `P210DmacProofs`. `PlaceTaken` shows that the ranks of the enabled channels fill the
places of a frame. `DriverAlwaysTunes` is the half of `ClientServed` about registers.

`ClientFindsTone` is the other half, for every amplitude, step and phase a tone can have.
Since the buffer holds whole frames, the two bytes of a channel decode to its sample
(`ClientBytes`, `BytesDecode`). What then has to be shown is arithmetic. The solver
evaluates the table: sines a quarter cycle apart are on a circle (`SinesCircle`), and two
turns add (`SinesTurn`), for every place and turn, with an error bounded by a constant.
Truncation moves a product of two codes by at most 32767 times the radius and the two
sines (`CodesMultiply`), and the sum of two sines a quarter cycle apart is at most 46400
(`SineSizes`), so that the slack of four codes per radius suffices for amplitudes up to
2047 (`CircleNear`, `RotationNear`). `ScenesServeClient` joins the halves.

*Checksum.* `ChecksumShowsDamage` is proved for banks of any length and any bytes. A shift
is linear (`ShiftLinear`), so that the difference of the two registers is shifted as they
are; and because the polynomial has its highest bit, a shift never turns a difference
into none (`ShiftKeepsDifference`). The invariant `BankInv` says, with `Traced`, where the
difference comes from: it is the burst, lowered to its first wrong bit, shifted as often
as bits have followed that one. `ReachesLowered` is the reason: as long as the burst
fits the register, bits that are still to come are only shifted down. Whatever follows a
burst can therefore not hide it.

*Operator block.* `BlocksExactlyRounded`, and `ScenesBlocksExact` for the run: for components
of any width, every block and bank of pairs of integers of 2, 4, 8 or 16 points (the sizes
that `Rom` has twiddles for) and every threshold. That the transform of a real block stays
symmetric is not inductive butterfly by butterfly: in the middle of a stage some points are
new and some old. `BlockInv` therefore says that there are points `b` from before the stage,
mirrored if the block is real, and that every point is either `b`'s or, if its pair has been
taken, that of `Staged(b)`, the stage out of place (`StageUnderway`). `PairAdvances` shows that
a butterfly in place takes one pair more: the pair it reads is still old, and its twiddle
index is the one of the stage. At the end of a stage the points are `Staged(b)`, and
`StagesMirror` shows that it is mirrored in blocks of twice the length, from three facts:
rounding to even is odd (`Rounds`), the ROM's cosines are odd and its sines even about a
quarter turn in every bit (`RomPairs`), and the mirror of an upper point is the lower point
over against its mirror (`MirrorPlaces`). For the threshold, `ThresholdScales` bounds what
rounding it to the block's exponent can change, `Magnitudes` the estimate of a magnitude by
one and a half times the longer component, and `ScaleRange` the division; so the scale of a
point that is far enough above keeps its longer component from rounding to zero
(`PointShortened`). The samples of the first stage come from `BitReverse`, a fold over a set;
`SumsAreTotals` unfolds it for the weights of four digits.

*FFT device.* `FftInvariant` proves `IInv`: types, the count of starts, and bins and
sequence number of the latest start. `FftLine` needs that a migrated line is recomputed,
`FftMemory` that the checks keep input and output apart for every pair of sizes: a job
that passes them changes only words of the output that are not words of the input
(one lemma on intervals, for a DMA write that stops anywhere). `FftImplementsContract`
maps every register write to `Serve`, `Refuse`, `Prepare` or `Acknowledge`.

*RTL device.* `RtlInvariant` carries that a running block belongs to a library that may
hang, so with `CutsOrEnds` it is reset before the next run. `RtlAnswers` is one pulse
and one coherent answer per start; `RtlKeepsContract` the same contract, and
`ScenesRtlContract` the same in the scenes of the run.

*Operators.* `DeviceInvariant` relates the captured bank to the checksum that is reported,
through refused banks and resets; `DeviceAttribution` and `DeviceAnswers` follow.
`TwinsInvariant` is a relation of the two devices' states, strong enough that a trusted
bank in QEMU's memory is the bank the portable device has captured, so that neither
registers nor memory differ (`TwinsIndistinguishable`) and attribution agrees
(`TwinsAttributed`); a START whose buffers are outside memory may be answered by the
QEMU device alone. `ClientAttribution` needs no discipline but that WEIGHT_CRC is left
alone: it then is the live checksum, through refused banks, moved banks and overwritten
ones, so that a bank that passes the check of START is the bank that the result names.
`ScenesInvariant` holds the three together for the scenes of the run (`TwinsRemainOne`,
`PortableResultsAttributed`, `EmulatedResultsAttributed`) and adds, for the program, what
each phase of an attempt has done (`Attempt`: which of blank RAM, bank, samples and file
are in place, and which answers the device owes). From it `ProgramNeverFails`: whatever RAM
held, and wherever resets strike, no attempt reaches a FAIL exit. `ProgramPasses` joins
it to the liveness that TLC checks.

*AD9361.* `WireInvariant` types every register as a byte through every effect of a write
and every place in a transaction. `TunerServes` proves that the codes of a finished
calibration decode to the capacitance within half a step and fit their fields, for
every setup and all constants: two lemmas of integer arithmetic on the clip and on
the coarse and fine codes. `WireFollowsBytes` proves `WireDecodes` for transactions of any
number of bytes: registers and ENSM state are the `Outcome` of the bytes sent, and before
a soft reset the answers come from the registers addressed. The invariant adds what the
decoder's fields are (`Decoding`): before a reset those the bytes ask for (`Follows`),
after it such that the rest of the transaction is taken for a read (`Silent`). `Outcome` is a recursive function over the data bytes:
`OutcomeFurther` says what one more byte adds, and that the outcome of a transaction
depends on its bytes alone, by the least place at which two replays would differ.

*USB/IP.* `ImportInvariant` proves `IInv`: one thread flushes at a time (`OneFlush`); what a
thread is about to answer is new or is the first URB that waits (`NewUrbs`,
`ServedFirst`), unless an unlink or a closed pipe has taken it away in the meantime
(`UnlinkedForGood`), and what is on its way to the host has left the queue (`Sending`).
`UrbsAnsweredOnce` follows for any number of URBs, bytes, unlinks and pending limits.

Only model-checked:

- everything under fairness, beyond the prover: `StopEndsWorker`, `UpdatesLeave`,
  `HeldAccepted`, `TransfersFinish`, `NoneForgotten` and that the program of
  `ProgramPasses` ends;
- how far the computed transforms are from the mathematics, `TransformsFaithful`: its slack
  of two units, the 12 bits of the samples and the cut of the twiddles belong together,
  and the worst case that the lengths of errors allow is larger than what blocks show; the
  CORDIC is a fold over its iterations.

## 6. Not modelled, and the plan

In order of importance:

1. `board.py` with boot and the services it starts: an initialization that is scheduled
   at power-on and survives a power cycle (`board.py:99`), `stop_usbip` and `stop_iiod`
   under the lifecycle lock. It composes parts whose sequential state is small; its
   interleavings need the IIOD server.
2. `spectrum_transport.py`: a client that is added after stop (`:169`).
3. USB/IP: a second import while the first session's cleanup resets the gadget
   (`usbip.py:2193`), pipes that are opened again, RNDIS queues.
4. `SpectrumProcessor` outside the runtime: counters that are cleared with packets that
   are then dropped (`fft.py:1077`); trace numbers taken without a lock (`trace.py:42`).

Left out of the modelled devices: LOG2_N of 29 and more, where sizes wrap; a WEIGHT_BYTES
shorter than its bank, but for the 0 of a reset, and with that 0 a START without bypass,
which would read the number of modes from a bank of no bytes; guest writes to
registers that only report; that the portable core takes 32-bit inputs where the Verilog block cuts to 24; the writable VERSION of the
DMA controller; addresses of DMA buffers in `P210Dmac`.

Not planned: signal arithmetic of `rf.py`, packet layout, the serial Verilog engine and
the ALU (checked by their own bit-exact vectors), configuration data, the command line
and the build scripts: they have no state whose changes can interleave.
