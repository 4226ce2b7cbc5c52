------------------------- MODULE PLSpectrumRuntime -------------------------
(***************************************************************************)
(* pl_runtime.py: ContinuousPLSpectrumRuntime.  One step of the runtime    *)
(* retries the oldest queued update, reads a stable radio configuration,   *)
(* consumes one FFT block from the RF model, and delivers or queues the    *)
(* update that the block completes.                                        *)
(*                                                                         *)
(* A step holds _step_lock from beginning to end but reads the radio, the  *)
(* RF samples and the sink without any lock the other threads take, so pc  *)
(* names the places inside a step where another thread can run: IIOD       *)
(* sessions that retune the AD9361, foreign readers of the RF model, a     *)
(* consumer that drains, the control thread that starts, stops and swaps   *)
(* the publisher.  Consecutive sections of the code under _state_lock that *)
(* touch only what the lock holder reads are one action.                   *)
(*                                                                         *)
(* Left out: statistics that nothing reads back (attempts, rejections,     *)
(* stalls), wall-clock pacing and its lag report, packet payloads.         *)
(***************************************************************************)
EXTENDS Integers, Sequences

CONSTANTS
    Rates,             \* RX sample rates a client may set
    LOs,               \* RX LO frequencies a client may set
    FramesPerUpdate,   \* averaging depth of the FFT template at each rate
    FFTSize,           \* samples in one FFT block
    Capacity,          \* pending_update_capacity
    InitialSequence,   \* initial_sequence
    SeqMod,            \* 2^64 in the code
    LossLimit,         \* 2^32 in the code: range of the NSFT loss fields
    ReadAttempts,      \* 100 in the code: tries to read a stable configuration
    Sinks,             \* publishers the control thread may install
    Steppers,          \* who steps: "worker" after start(), "caller" by step()
    Writers,           \* IIOD sessions that can be inside a setter at once
    ConcurrentRadio,   \* TRUE: setters run in their own threads; FALSE: one
                       \* thread calls the setters and step() in turn
    ReentrantSink,     \* TRUE: a publisher may call drain() while it is called
    MaxBlocks,         \* bound: FFT blocks the runtime consumes
    MaxRetunes,        \* bound: retunes of the radio
    MaxForeign         \* bound: samples taken by other readers of the RF model

ASSUME RuntimeAssumption ==
    /\ Rates # {} /\ LOs # {}
    /\ FramesPerUpdate \in [Rates -> Nat \ {0}]
    /\ FFTSize \in Nat \ {0}
    /\ Capacity \in Nat \ {0}
    /\ SeqMod \in Nat \ {0}
    /\ InitialSequence \in 0 .. SeqMod - 1
    /\ LossLimit \in Nat \ {0}
    /\ ReadAttempts \in Nat \ {0}
    /\ Steppers \subseteq {"worker", "caller"}
    /\ Writers \in Nat \ {0}
    /\ ConcurrentRadio \in BOOLEAN
    /\ ReentrantSink \in BOOLEAN
    /\ MaxBlocks \in Nat /\ MaxRetunes \in Nat /\ MaxForeign \in Nat

NoSink  == "no publisher"
NoIndex == -1

ASSUME NoSinkAssumption == NoSink \notin Sinks

\* _active_radio is None until the first activation: an epoch no radio has.
NoEpoch == -1

Radio   == [epoch : Nat, rate : Rates, lo : LOs]
Config  == [epoch : Nat \cup {NoEpoch}, rate : Rates, lo : LOs]
Sample  == [index : Nat, epoch : Nat, lo : LOs]
Tuning  == [epoch : Nat, lo : LOs]

\* One paired NSFT update.  seq, radio, lost and events are packet fields; n
\* is its ordinal, frames and span what was averaged, seen the tuning of
\* every sample in it.
Update  == [n : Nat, seq : 0 .. SeqMod - 1, radio : Config, frames : Nat,
            lost : Nat, events : Nat, span : Int, seen : SUBSET Tuning]

VARIABLES
    radio,         \* the live AD9361: config_epoch, sample_rate_hz, rx_lo_hz
    unbumped,      \* setters that assigned their field and not yet the epoch
    rfIndex,       \* RFModel.sample_index
    foreign,       \* samples other readers took
    pc, stepper,   \* where the step is, and who holds _step_lock
    worker,        \* the daemon thread
    caller,        \* a thread that calls step() itself
    stopEvent,     \* _stop_event
    terminal,      \* _terminal_error, by kind
    publisher,     \* publisher
    reading, tries, snap,  \* _stable_radio_configuration in progress
    observed,      \* the configuration _step_locked read first
    sampleEpoch, block,    \* the block synthesize() is building
    active,        \* _active_radio
    fia,           \* _frames_in_accumulation
    procCount, procSeq,    \* SpectrumProcessor: _accumulated, _sequence
    nextSeq,       \* _next_sequence
    unreportedFrames, unreportedEvents,
    expected,      \* _expected_sample_index
    pending,       \* _pending
    offered,       \* the pair a publisher is called with or about to be
    backpressured, \* _backpressured
    iqFrames, fftFrames, generated, published, drained, discarded,
                   \* the counters of the same meaning
    averaging,     \* history: first index and tunings of the current average
    delivered,     \* history: the pairs consumers got, in order
    framesOut, lossOut     \* history: frames in, and losses on, all updates

radioVars   == <<radio, unbumped>>
rfVars      == <<rfIndex, foreign>>
threadVars  == <<worker, caller, stopEvent>>
readVars    == <<reading, tries, snap, observed>>
blockVars   == <<sampleEpoch, block>>
procVars    == <<active, fia, procCount, procSeq, averaging, discarded,
                 unreportedFrames, unreportedEvents>>
madeVars    == <<nextSeq, generated, framesOut, lossOut>>
consumed    == <<expected, iqFrames, fftFrames>>
queueVars   == <<pending, backpressured, delivered, published, drained>>

outside == <<radioVars, rfVars, publisher>>
control == <<pc, stepper, threadVars, terminal>>
input   == <<blockVars, procVars, consumed>>
output  == <<madeVars, queueVars, offered>>

vars == <<outside, control, readVars, input, output>>

-----------------------------------------------------------------------------
NothingAveraged == [first |-> NoIndex, seen |-> {}]

NoUpdate(r) == [n |-> 0, seq |-> 0, radio |-> r, frames |-> 0, lost |-> 0,
                events |-> 0, span |-> 0, seen |-> {}]

Init ==
    /\ radio \in [epoch : {0}, rate : Rates, lo : LOs]
    /\ unbumped = 0
    /\ rfIndex = 0 /\ foreign = 0
    /\ pc = "idle" /\ stepper = "nobody"
    /\ worker = "dead" /\ caller = "away" /\ stopEvent = FALSE
    /\ terminal = "none"
    /\ publisher \in Sinks \cup {NoSink}
    /\ reading = "observe" /\ tries = 0 /\ snap = radio /\ observed = radio
    /\ sampleEpoch = 0 /\ block = << >>
    /\ active = [radio EXCEPT !.epoch = NoEpoch]
    /\ fia = 0 /\ procCount = 0
    /\ procSeq = InitialSequence /\ nextSeq = InitialSequence
    /\ averaging = NothingAveraged
    /\ unreportedFrames = 0 /\ unreportedEvents = 0 /\ discarded = 0
    /\ expected = NoIndex
    /\ pending = << >> /\ backpressured = FALSE
    /\ offered = NoUpdate(radio)
    /\ iqFrames = 0 /\ fftFrames = 0
    /\ generated = 0 /\ published = 0 /\ drained = 0
    /\ delivered = << >> /\ framesOut = 0 /\ lossOut = 0

-----------------------------------------------------------------------------
(* The radio, written by IIOD session threads.  A setter assigns its field *)
(* and then increments config_epoch; a value that is already set does      *)
(* neither.                                                                *)

\* Bug: the setter returns without incrementing config_epoch.
RetunedUnbumped(r) ==
    /\ ConcurrentRadio \/ pc = "idle"
    /\ radio # r
    /\ radio' = r
    /\ UNCHANGED <<unbumped, rfVars, publisher, control, input, output, readVars>>

Retuned(r) ==
    /\ ConcurrentRadio \/ pc = "idle"
    /\ radio.epoch + unbumped < MaxRetunes
    /\ unbumped < Writers
    /\ radio' = r
    /\ unbumped' = unbumped + 1
    /\ UNCHANGED <<rfVars, publisher, control, input, output, readVars>>

SetLO ==
    \E lo \in LOs \ {radio.lo} : Retuned([radio EXCEPT !.lo = lo])

SetSampleRate ==
    \E rate \in Rates \ {radio.rate} : Retuned([radio EXCEPT !.rate = rate])

\* ENSM, bandwidth, gain and attenuation setters: the runtime does not read the
\* field, but the epoch moves.
SetOther == Retuned(radio)

BumpEpoch ==
    /\ unbumped > 0
    /\ radio' = [radio EXCEPT !.epoch = @ + 1]
    /\ unbumped' = unbumped - 1
    /\ UNCHANGED <<rfVars, publisher, control, input, output, readVars>>

\* Another caller of RFModel.synthesize() takes a sample.
ForeignRead ==
    /\ foreign < MaxForeign
    /\ foreign' = foreign + 1
    /\ rfIndex' = rfIndex + 1
    /\ UNCHANGED <<radioVars, publisher, control, input, output, readVars>>

-----------------------------------------------------------------------------
(* Control thread, consumers and the two kinds of thread that step.        *)

SetPublisher ==
    /\ \E p \in (Sinks \cup {NoSink}) \ {publisher} : publisher' = p
    /\ UNCHANGED <<radioVars, rfVars, control, input, output, readVars>>

Start ==
    /\ "worker" \in Steppers
    /\ worker = "dead"
    /\ terminal = "none"
    /\ worker' = "loop"
    /\ stopEvent' = FALSE
    /\ UNCHANGED <<outside, input, output, pc, stepper, caller, terminal, readVars>>

\* stop(): the bounded join that follows only reports whether the worker died.
Stop ==
    /\ stopEvent' = TRUE
    /\ UNCHANGED <<outside, input, output, pc, stepper, worker, caller, terminal,
                   readVars>>

\* Bug: the loop does not look at the stop event.
WorkerLoopUnstoppable ==
    /\ worker = "loop"
    /\ worker' = "step"
    /\ UNCHANGED <<outside, input, output, pc, stepper, caller, stopEvent, terminal,
                   readVars>>

\* The head of the loop in _run; the wait for pacing or a retry is before it.
WorkerLoop ==
    /\ worker = "loop"
    /\ worker' = IF stopEvent THEN "dead" ELSE "step"
    /\ UNCHANGED <<outside, input, output, pc, stepper, caller, stopEvent, terminal,
                   readVars>>

\* step() from another thread passes the running check, and then waits for
\* _step_lock: the worker may be started in between.
CallStep ==
    /\ "caller" \in Steppers
    /\ caller = "away"
    /\ worker = "dead"
    /\ caller' = "step"
    /\ UNCHANGED <<outside, input, output, pc, stepper, worker, stopEvent, terminal,
                   readVars>>

\* drain() takes _step_lock, so it runs between steps, or inside a publisher
\* that the holder of the lock called.
TakePending(count) ==
    /\ delivered' = delivered \o SubSeq(pending, 1, count)
    /\ pending' = SubSeq(pending, count + 1, Len(pending))
    /\ drained' = drained + count
    /\ backpressured' = (backpressured /\ Len(pending') >= Capacity)
    /\ UNCHANGED published

DrainBoundary ==
    pc = "idle" \/ (ReentrantSink /\ pc \in {"retryCall", "deliverCall"})

Drain ==
    /\ DrainBoundary
    /\ \E count \in 1 .. Len(pending) : TakePending(count)
    /\ UNCHANGED <<outside, control, input, readVars, madeVars, offered>>

-----------------------------------------------------------------------------
(* step(): how a step ends.  The holder of the lock goes back to its loop  *)
(* or its caller; an exception also makes the runtime fail for good and    *)
(* ends the worker.                                                        *)

EndStep ==
    /\ pc' = "idle"
    /\ stepper' = "nobody"
    /\ worker' = IF stepper = "worker" THEN "loop" ELSE worker
    /\ caller' = IF stepper = "caller" THEN "away" ELSE caller
    /\ UNCHANGED <<stopEvent, terminal>>

Fail(kind) ==
    /\ terminal' = kind
    /\ pc' = "idle"
    /\ stepper' = "nobody"
    /\ worker' = IF stepper = "worker" THEN "dead" ELSE worker
    /\ caller' = IF stepper = "caller" THEN "away" ELSE caller
    /\ stopEvent' = (stopEvent \/ stepper = "worker")

Within(next) ==
    /\ pc' = next
    /\ UNCHANGED <<stepper, threadVars, terminal>>

WantsStep(who) ==
    \/ who = "worker" /\ worker = "step"
    \/ who = "caller" /\ caller = "step"

\* Bug: the terminal error is looked at before the lock is taken only.
BeginStepUnchecked(who) ==
    /\ pc = "idle"
    /\ WantsStep(who)
    /\ pc' = "retry"
    /\ stepper' = who
    /\ UNCHANGED <<outside, input, output, threadVars, terminal, readVars>>

BeginStep(who) ==
    /\ pc = "idle"
    /\ WantsStep(who)
    /\ terminal = "none"
    /\ ConcurrentRadio \/ unbumped = 0
    /\ pc' = "retry"
    /\ stepper' = who
    /\ UNCHANGED <<outside, input, output, threadVars, terminal, readVars>>

\* The terminal error is looked at under the lock, so a thread that waited
\* while another one failed is refused.
RefuseStep(who) ==
    /\ pc = "idle"
    /\ WantsStep(who)
    /\ terminal # "none"
    /\ worker' = IF who = "worker" THEN "dead" ELSE worker
    /\ stopEvent' = (stopEvent \/ who = "worker")
    /\ caller' = IF who = "caller" THEN "away" ELSE caller
    /\ UNCHANGED <<outside, input, output, pc, stepper, terminal, readVars>>

-----------------------------------------------------------------------------
(* The queue: retrying its head, and room for more.                        *)

LeaveBackpressure(queue) ==
    backpressured' = (backpressured /\ Len(queue) >= Capacity)

BeginRead(purpose) ==
    /\ reading' = purpose
    /\ tries' = 0
    /\ UNCHANGED <<snap, observed>>

\* Bug: no retry while the input is stalled, and only a retry ends the stall.
RetryUnlessStalled ==
    /\ pc = "retry"
    /\ IF pending = << >> \/ publisher = NoSink \/ backpressured
       THEN Within("readEpoch") /\ BeginRead("observe") /\ UNCHANGED offered
       ELSE Within("retryCall") /\ offered' = Head(pending) /\ UNCHANGED readVars
    /\ UNCHANGED <<outside, input, madeVars, queueVars>>

RetryOldestPending ==
    /\ pc = "retry"
    /\ IF pending = << >> \/ publisher = NoSink
       THEN /\ Within("readEpoch")
            /\ BeginRead("observe")
            /\ UNCHANGED offered
       ELSE /\ Within("retryCall")
            /\ offered' = Head(pending)
            /\ UNCHANGED readVars
    /\ UNCHANGED <<outside, input, madeVars, queueVars>>

\* The publisher returns anything but False: the pair is the consumer's.
SinkAccepts ==
    /\ \/ pc = "retryCall" /\ Within("retryAccepted")
       \/ pc = "deliverCall" /\ Within("delivered")
    /\ delivered' = Append(delivered, offered)
    /\ UNCHANGED <<outside, input, readVars, madeVars, pending, backpressured,
                   published, drained, offered>>

\* The publisher returns False or raises.
SinkRejects ==
    /\ \/ pc = "retryCall" /\ Within("readEpoch") /\ BeginRead("observe")
       \/ pc = "deliverCall" /\ Within("enqueue") /\ UNCHANGED readVars
    /\ UNCHANGED <<outside, input, output>>

\* "if self._pending and self._pending[0] is pair"
OfferedIsHead == pending # << >> /\ Head(pending) = offered

\* Bug: the update is counted as published although a drain took it meanwhile.
RetryCountedTwice ==
    /\ pc = "retryAccepted"
    /\ pending' = IF OfferedIsHead THEN Tail(pending) ELSE pending
    /\ published' = published + 1
    /\ LeaveBackpressure(pending')
    /\ Within("readEpoch")
    /\ BeginRead("observe")
    /\ UNCHANGED <<outside, input, madeVars, delivered, drained, offered>>

RetryAccepted ==
    /\ pc = "retryAccepted"
    /\ IF OfferedIsHead
       THEN pending' = Tail(pending) /\ published' = published + 1
       ELSE UNCHANGED <<pending, published>>
    /\ LeaveBackpressure(pending')
    /\ Within("readEpoch")
    /\ BeginRead("observe")
    /\ UNCHANGED <<outside, input, madeVars, delivered, drained, offered>>

-----------------------------------------------------------------------------
(* _stable_radio_configuration: epoch, rate, LO, and the epoch again.      *)

ReadStep(before, after) ==
    /\ pc = before
    /\ Within(after)
    /\ UNCHANGED <<outside, input, output, reading, tries, observed>>

ReadEpoch ==
    /\ ReadStep("readEpoch", "readRate")
    /\ snap' = [snap EXCEPT !.epoch = radio.epoch]

ReadRate ==
    /\ ReadStep("readRate", "readLO")
    /\ snap' = [snap EXCEPT !.rate = radio.rate]

ReadLO ==
    /\ ReadStep("readLO", "readAgain")
    /\ snap' = [snap EXCEPT !.lo = radio.lo]

SnapshotIsStable == radio.epoch = snap.epoch

ReadDone ==
    /\ pc = "readAgain"
    /\ SnapshotIsStable
    /\ Within(IF reading = "observe" THEN "activate" ELSE "match")
    /\ observed' = IF reading = "observe" THEN snap ELSE observed
    /\ UNCHANGED <<outside, input, output, reading, tries, snap>>

ReadUnstable ==
    /\ pc = "readAgain"
    /\ ~SnapshotIsStable
    /\ tries' = tries + 1
    /\ IF tries' = ReadAttempts THEN Fail("unstable") ELSE Within("readEpoch")
    /\ UNCHANGED <<outside, input, output, reading, snap, observed>>

-----------------------------------------------------------------------------
(* A new configuration: what the old one had averaged is discarded, and    *)
(* owed to the next update.                                                *)

\* Bug: the second of two reconfigurations forgets the loss of the first.
OweLatestOnly ==
    /\ unreportedFrames' = fia
    /\ unreportedEvents' = IF fia > 0 THEN 1 ELSE 0

OweDiscarded ==
    /\ unreportedFrames' = unreportedFrames + fia
    /\ unreportedEvents' = IF fia > 0 THEN unreportedEvents + 1 ELSE unreportedEvents

\* Bug: the new SpectrumProcessor numbers its packets from the beginning.
RenumberingProcessor ==
    procCount' = 0 /\ procSeq' = InitialSequence /\ averaging' = NothingAveraged

NewProcessor ==
    procCount' = 0 /\ procSeq' = nextSeq /\ averaging' = NothingAveraged

Activate(r) ==
    /\ active' = r
    /\ OweDiscarded
    /\ discarded' = discarded + fia
    /\ fia' = 0
    /\ NewProcessor

\* Bug: only a new rate makes a new configuration.
ActivateOnNewRate ==
    /\ pc = "activate"
    /\ IF active.epoch = NoEpoch \/ observed.rate # active.rate
       THEN Activate(observed) ELSE UNCHANGED procVars
    /\ Within("reserve")
    /\ UNCHANGED <<outside, output, readVars, blockVars, consumed>>

RememberOrActivate ==
    /\ pc = "activate"
    /\ IF observed # active THEN Activate(observed) ELSE UNCHANGED procVars
    /\ Within("reserve")
    /\ UNCHANGED <<outside, output, readVars, blockVars, consumed>>

WillEmit  == fia + 1 >= FramesPerUpdate[active.rate]
QueueFull == Len(pending) >= Capacity

\* No RF sample is consumed when the update it completes would have no place.
EnterBackpressure ==
    /\ pc = "reserve"
    /\ WillEmit /\ QueueFull
    /\ backpressured' = TRUE
    /\ EndStep
    /\ UNCHANGED <<outside, input, readVars, madeVars, pending, delivered, published,
                   drained, offered>>

StartBlock ==
    /\ pc = "reserve"
    /\ ~(WillEmit /\ QueueFull)
    /\ iqFrames < MaxBlocks * FFTSize
    /\ Within("sample")
    /\ block' = << >>
    /\ UNCHANGED <<outside, output, readVars, sampleEpoch, procVars, consumed>>

\* The bound of the model: the step ends without consuming a block.
StepBound ==
    /\ pc = "reserve"
    /\ ~(WillEmit /\ QueueFull)
    /\ iqFrames >= MaxBlocks * FFTSize
    /\ EndStep
    /\ UNCHANGED <<outside, input, output, readVars>>

-----------------------------------------------------------------------------
(* RFModel.synthesize: every sample is stamped with the epoch and then     *)
(* mixed with the LO.                                                      *)

SampleEpoch ==
    /\ pc = "sample"
    /\ sampleEpoch' = radio.epoch
    /\ Within("sampleLO")
    /\ UNCHANGED <<outside, output, readVars, block, procVars, consumed>>

SampleLO ==
    /\ pc = "sampleLO"
    /\ block' = Append(block, [index |-> rfIndex, epoch |-> sampleEpoch, lo |-> radio.lo])
    /\ rfIndex' = rfIndex + 1
    /\ Within(IF Len(block') = FFTSize THEN "validate" ELSE "sample")
    /\ UNCHANGED <<radioVars, foreign, output, publisher, readVars, sampleEpoch,
                   procVars, consumed>>

-----------------------------------------------------------------------------
(* _validate_source_block: consecutive samples of one epoch, which must be *)
(* the epoch of a configuration that can be read.                          *)

FirstIndex == block[1].index
NextIndex  == block[FFTSize].index + 1

Consecutive ==
    /\ expected # NoIndex => FirstIndex = expected
    /\ \A k \in 1 .. FFTSize : block[k].index = FirstIndex + k - 1

OneEpoch == \A k \in 1 .. FFTSize : block[k].epoch = block[1].epoch

ConsumeIQ ==
    /\ expected' = NextIndex
    /\ iqFrames' = iqFrames + FFTSize

\* Bug: the samples of a refused block are not counted.
ContinuityErrorUncounted ==
    /\ block' = << >>
    /\ Fail("continuity")
    /\ UNCHANGED consumed

\* _record_continuity_error and _record_unusable_block: the samples are gone.
ContinuityError ==
    /\ ConsumeIQ
    /\ block' = << >>
    /\ Fail("continuity")
    /\ UNCHANGED fftFrames

\* Bug: the block is taken to be of the configuration that was observed.
ValidBlockOfAnyEpoch ==
    /\ pc = "validate"
    /\ Consecutive /\ OneEpoch
    /\ Within("process")
    /\ UNCHANGED <<outside, input, output, readVars>>

ValidBlock ==
    /\ pc = "validate"
    /\ Consecutive /\ OneEpoch
    /\ block[1].epoch = observed.epoch
    /\ Within("process")
    /\ UNCHANGED <<outside, input, output, readVars>>

\* The radio was retuned after it was observed: read the configuration again.
MovedBlock ==
    /\ pc = "validate"
    /\ Consecutive /\ OneEpoch
    /\ block[1].epoch # observed.epoch
    /\ Within("readEpoch")
    /\ BeginRead("validate")
    /\ UNCHANGED <<outside, input, output>>

BrokenBlock ==
    /\ \/ pc = "validate" /\ ~(Consecutive /\ OneEpoch)
       \/ pc = "match" /\ snap.epoch # block[1].epoch
    /\ ContinuityError
    /\ UNCHANGED <<outside, output, readVars, sampleEpoch, procVars>>

\* Bug: the reserved slot is not checked for the new averaging depth.
AdoptMovedBlockAnyway ==
    /\ pc = "match"
    /\ snap.epoch = block[1].epoch
    /\ IF snap # active THEN Activate(snap) ELSE UNCHANGED procVars
    /\ Within("process")
    /\ UNCHANGED <<outside, output, readVars, sampleEpoch, block, consumed>>

\* The slot was reserved for the old averaging depth: check it for the new.
AdoptMovedBlock ==
    /\ pc = "match"
    /\ snap.epoch = block[1].epoch
    /\ IF snap # active THEN Activate(snap) ELSE UNCHANGED procVars
    /\ IF snap # active /\ QueueFull /\ fia' + 1 >= FramesPerUpdate[snap.rate]
       THEN ContinuityError
       ELSE Within("process") /\ UNCHANGED <<block, consumed>>
    /\ UNCHANGED <<outside, output, readVars, sampleEpoch>>

-----------------------------------------------------------------------------
(* process_frame, and what follows when it emits a packet pair.            *)

TuningOf(sample) == [epoch |-> sample.epoch, lo |-> sample.lo]

Averaged ==
    [first |-> IF averaging.first = NoIndex THEN FirstIndex ELSE averaging.first,
     seen  |-> averaging.seen \cup {TuningOf(block[k]) : k \in 1 .. FFTSize}]

\* The packets process_frame returns: the loss fields are the runtime's.
Packets ==
    [n |-> generated + 1, seq |-> procSeq, radio |-> active, frames |-> procCount + 1,
     lost |-> 0, events |-> 0, span |-> NextIndex - Averaged.first, seen |-> Averaged.seen]

ProcessFrame ==
    /\ pc = "process"
    /\ ConsumeIQ
    /\ fia' = fia + 1
    /\ fftFrames' = fftFrames + 1
    /\ block' = << >>
    /\ UNCHANGED <<outside, readVars, sampleEpoch, active, discarded,
                   unreportedFrames, unreportedEvents, madeVars, pending, delivered, published, drained>>
    /\ IF procCount + 1 < FramesPerUpdate[active.rate]
       THEN /\ procCount' = procCount + 1
            /\ averaging' = Averaged
            /\ LeaveBackpressure(pending)
            /\ EndStep
            /\ UNCHANGED <<procSeq, offered>>
       ELSE /\ offered' = Packets
            /\ procCount' = 0
            /\ procSeq' = (procSeq + 1) % SeqMod
            /\ averaging' = NothingAveraged
            /\ Within("generate")
            /\ UNCHANGED backpressured

LossFits == unreportedFrames < LossLimit /\ unreportedEvents < LossLimit

\* _decorate_reconfiguration_loss, and the bookkeeping of a complete update.
GenerateUpdate ==
    /\ pc = "generate"
    /\ LossFits
    /\ offered' = [offered EXCEPT !.lost = unreportedFrames, !.events = unreportedEvents]
    /\ unreportedFrames' = 0 /\ unreportedEvents' = 0
    /\ fia' = 0
    /\ nextSeq' = (offered.seq + 1) % SeqMod
    /\ generated' = generated + 1
    /\ framesOut' = framesOut + offered.frames
    /\ lossOut' = lossOut + unreportedFrames
    /\ Within("deliver")
    /\ UNCHANGED <<outside, readVars, blockVars, active, procCount, procSeq,
                   averaging, discarded, consumed, queueVars>>

LossOverflows ==
    /\ pc = "generate"
    /\ ~LossFits
    /\ Fail("loss")
    /\ UNCHANGED <<outside, input, output, readVars>>

-----------------------------------------------------------------------------
(* _deliver: to the publisher if nothing older waits, otherwise the queue. *)

Deliver ==
    /\ pc = "deliver"
    /\ Within(IF pending = << >> /\ publisher # NoSink THEN "deliverCall" ELSE "enqueue")
    /\ UNCHANGED <<outside, input, output, readVars>>

Published ==
    /\ pc = "delivered"
    /\ published' = published + 1
    /\ LeaveBackpressure(pending)
    /\ EndStep
    /\ UNCHANGED <<outside, input, readVars, madeVars, pending, delivered, drained,
                   offered>>

Enqueue ==
    /\ pc = "enqueue"
    /\ IF QueueFull
       THEN Fail("capacity") /\ UNCHANGED pending
       ELSE EndStep /\ pending' = Append(pending, offered)
    /\ UNCHANGED <<outside, input, readVars, madeVars, backpressured, delivered,
                   published, drained, offered>>

-----------------------------------------------------------------------------
Environment ==
    \/ SetLO \/ SetSampleRate \/ SetOther \/ BumpEpoch \/ ForeignRead
    \/ SetPublisher \/ Start \/ Stop \/ CallStep \/ Drain

Sink == SinkAccepts \/ SinkRejects

\* The code of a step, but for what the publisher decides.
Step ==
    \/ \E who \in {"worker", "caller"} : BeginStep(who) \/ RefuseStep(who)
    \/ RetryOldestPending \/ RetryAccepted
    \/ ReadEpoch \/ ReadRate \/ ReadLO \/ ReadDone \/ ReadUnstable
    \/ RememberOrActivate \/ EnterBackpressure \/ StartBlock \/ StepBound
    \/ SampleEpoch \/ SampleLO
    \/ ValidBlock \/ MovedBlock \/ BrokenBlock \/ AdoptMovedBlock
    \/ ProcessFrame \/ GenerateUpdate \/ LossOverflows
    \/ Deliver \/ Published \/ Enqueue

Next == Environment \/ WorkerLoop \/ Step \/ Sink

Spec == Init /\ [][Next]_vars

\* Fairness.  Python threads that are not blocked run, and so does the holder
\* of the lock.  A publisher returns, and does not reject for ever: stop()
\* says that it cannot bound a publisher, so this is assumed of the sink.
FairSpec ==
    /\ Spec
    /\ WF_vars(BumpEpoch)
    /\ WF_vars(WorkerLoop)
    /\ WF_vars(Step)
    /\ WF_vars(Sink)
    /\ SF_vars(SinkAccepts)

-----------------------------------------------------------------------------
(* Properties.                                                             *)

Labels == {"idle", "retry", "retryCall", "retryAccepted", "readEpoch", "readRate",
           "readLO", "readAgain", "activate", "reserve", "sample", "sampleLO",
           "validate", "match", "process", "generate", "deliver", "deliverCall",
           "delivered", "enqueue"}

\* The type of the state.  _step_lock has a holder exactly inside a step.
TypeOK ==
    /\ radio \in Radio /\ unbumped \in Nat
    /\ rfIndex \in Nat /\ foreign \in Nat
    /\ pc \in Labels
    /\ stepper \in {"nobody", "worker", "caller"}
    /\ stepper = "nobody" <=> pc = "idle"
    /\ worker \in {"dead", "loop", "step"} /\ caller \in {"away", "step"}
    /\ stopEvent \in BOOLEAN
    /\ terminal \in {"none", "unstable", "continuity", "loss", "capacity"}
    /\ publisher \in Sinks \cup {NoSink}
    /\ reading \in {"observe", "validate"} /\ tries \in Nat
    /\ snap \in Radio /\ observed \in Radio
    /\ sampleEpoch \in Nat /\ block \in Seq(Sample)
    /\ averaging \in [first : Nat \cup {NoIndex}, seen : SUBSET Tuning]
    /\ active \in Config
    /\ fia \in Nat /\ procCount \in Nat
    /\ procSeq \in 0 .. SeqMod - 1 /\ nextSeq \in 0 .. SeqMod - 1
    /\ unreportedFrames \in Nat /\ unreportedEvents \in Nat
    /\ expected \in Nat \cup {NoIndex}
    /\ pending \in Seq(Update) /\ delivered \in Seq(Update) /\ offered \in Update
    /\ backpressured \in BOOLEAN
    /\ iqFrames \in Nat /\ fftFrames \in Nat /\ generated \in Nat
    /\ published \in Nat /\ drained \in Nat /\ discarded \in Nat
    /\ framesOut \in Nat /\ lossOut \in Nat

InDelivery == pc \in {"deliver", "deliverCall", "delivered", "enqueue"}

\* Every update that was generated is published, drained, queued or the one in
\* the hands of the step (_deliver, _retry_oldest_pending, drain): none is
\* dropped or counted twice, whatever publishers and consumers do.
UpdateLedger ==
    generated = published + drained + Len(pending) + (IF InDelivery THEN 1 ELSE 0)

\* "It never silently drops": every FFT frame processed is in an update, in
\* the average in progress or discarded by a reconfiguration, and every
\* discarded frame is reported on an update or still to be (_activate,
\* _decorate_reconfiguration_loss, the counters of _step_locked).
LossLedger ==
    /\ fftFrames = framesOut + discarded + fia
    /\ discarded = lossOut + unreportedFrames

\* The room checked before RF samples are consumed is still there when the
\* update is ready, also if a retune changed the averaging depth, a publisher
\* was swapped or the retry failed: the capacity error of _deliver is
\* unreachable.
RoomForUpdate ==
    /\ Len(pending) <= Capacity
    /\ terminal # "capacity"

\* The input is reported stalled only while the queue is full (drain,
\* _leave_backpressure_if_possible).
StallMeansFull == backpressured => Len(pending) = Capacity

\* A publisher that has accepted the oldest update has it before the step can
\* take it off the queue.
Retained == IF pc = "retryAccepted" THEN Tail(pending) ELSE pending

Numbered(updates, after) ==
    \A k \in 1 .. Len(updates) :
        /\ updates[k].n = after + k
        /\ updates[k].seq = (InitialSequence + after + k - 1) % SeqMod

\* Consumers see the updates in order, without gap or repetition, and the
\* packet sequence counts them modulo 2^64 across retunes: what was
\* delivered, then the queue, is 1, 2, 3, ...
InOrder == Numbered(delivered, 0) /\ Numbered(Retained, Len(delivered))

Updates ==
    {delivered[k] : k \in 1 .. Len(delivered)} \cup {pending[k] : k \in 1 .. Len(pending)}

\* An update averages exactly the depth of its own configuration, over
\* samples without a gap, all stamped with its epoch: also when the radio is
\* retuned while a block is synthesized or somebody else reads the RF model.
SoundUpdates ==
    \A u \in Updates :
        /\ u.frames = FramesPerUpdate[u.radio.rate]
        /\ u.span = u.frames * FFTSize
        /\ \A t \in u.seen : t.epoch = u.radio.epoch

\* A retune is never mixed into a result: all samples of an update were taken
\* at the LO its packets name (docs/WIDEBAND_50MHZ.md).
NoRetuneMixed == \A u \in Updates : \A t \in u.seen : t.lo = u.radio.lo

\* Two updates with one configuration epoch have one configuration: a consumer
\* may key on config_epoch.
EpochNamesRadio ==
    \A u, v \in Updates : u.radio.epoch = v.radio.epoch => u.radio = v.radio

\* Every RF sample taken by the runtime is accounted for, also those of a block
\* that made it fail.
SamplesAccounted == rfIndex = iqFrames + Len(block) + foreign

\* The step predicts from its own counters whether the next block completes an
\* update; the SpectrumProcessor decides from its own.  They agree whenever
\* that is asked, and so do the sequence numbers.
ProcessorAgrees ==
    pc \in {"reserve", "process", "deliver"} => procCount = fia /\ procSeq = nextSeq

\* After a failure nothing more is consumed or generated, by any thread.
FailureIsFinal ==
    [][terminal # "none" => UNCHANGED <<terminal, iqFrames, fftFrames, generated, block>>]_vars

\* What the consumers of the runtime may rely on.
Ordinals(updates) ==
    [k \in 1 .. Len(updates) |->
        [n |-> updates[k].n, frames |-> updates[k].frames, lost |-> updates[k].lost]]

\* A new update is made and neither queued nor with a publisher.
InHand == pc \in {"deliver", "deliverCall", "enqueue"}

Waiting == Retained \o (IF InHand THEN <<offered>> ELSE << >>)

Stream == INSTANCE UpdateStream WITH
    made  <- generated,
    held  <- fia,
    owed  <- unreportedFrames,
    queue <- Ordinals(Waiting),
    out   <- Ordinals(delivered)

\* The runtime implements the abstract update stream: in particular each
\* truncated average is reported on exactly the next update.
ImplementsStream == Stream!Spec

\* stop() ends the worker once the publisher lets it.
StopEndsWorker == (stopEvent /\ worker # "dead") ~> (worker = "dead")

\* With a publisher that accepts again and again, no queued update is stuck: it
\* leaves unless the worker ends or the publisher is taken away.
UpdatesLeave ==
    \A n \in 1 .. MaxBlocks :
        (generated >= n) ~> \/ published + drained >= n
                           \/ worker = "dead" \/ publisher = NoSink

-----------------------------------------------------------------------------
(* What makes the ledgers, the room and the stall flag inductive.          *)

ReadLabels   == {"readEpoch", "readRate", "readLO", "readAgain"}
Revalidating == pc \in ReadLabels /\ reading = "validate"
HoldsBlock   == pc \in {"validate", "match", "process"} \/ Revalidating
Sampling     == pc \in {"sample", "sampleLO"}

\* A block is complete from its validation to its processing.
BlockShape ==
    /\ Sampling => Len(block) < FFTSize
    /\ HoldsBlock => Len(block) = FFTSize

\* The slot that was reserved stays free while the block is in the step.
SlotReserved ==
    /\ Sampling \/ HoldsBlock => ~(WillEmit /\ QueueFull)
    /\ pc \in {"generate", "deliver", "deliverCall", "enqueue"} => ~QueueFull

\* The runtime and its SpectrumProcessor count the same frames, except between
\* the emission of the packets and the bookkeeping of the update.
ProcessorInStep ==
    /\ pc # "idle" => terminal = "none"
    /\ terminal = "none" /\ pc # "generate" => procCount = fia /\ procSeq = nextSeq
    /\ pc = "generate" =>
        offered.frames = fia /\ procCount = 0 /\ procSeq = (offered.seq + 1) % SeqMod

\* The inductive invariant of the module.
IInv ==
    /\ TypeOK /\ BlockShape /\ SlotReserved /\ ProcessorInStep
    /\ UpdateLedger /\ LossLedger /\ RoomForUpdate /\ StallMeansFull

-----------------------------------------------------------------------------
(* What makes the properties of the samples and of the updates inductive.  *)

\* The block is empty unless the step is taking or holding one.
BlockEmpty == terminal = "none" /\ ~Sampling /\ ~HoldsBlock => block = << >>

\* Where a publisher is or will be called with the update on offer.
Offering == pc \in {"retryCall", "generate", "deliver", "deliverCall", "enqueue"}

\* The block's samples have been compared with each other.
Compared == Revalidating \/ pc \in {"match", "process"}

Sound(u) ==
    /\ u.frames = FramesPerUpdate[u.radio.rate]
    /\ u.span = u.frames * FFTSize
    /\ \A t \in u.seen : t.epoch = u.radio.epoch

\* The average in progress: whole frames of one epoch that end where the next
\* block begins.
AverageSound ==
    terminal = "none" =>
        /\ procCount < FramesPerUpdate[active.rate]
        /\ procCount = 0 => averaging = NothingAveraged
        /\ procCount > 0 =>
            /\ averaging.first # NoIndex /\ expected # NoIndex
            /\ expected - averaging.first = procCount * FFTSize
        /\ \A t \in averaging.seen : t.epoch = active.epoch

\* The block on its way to the processor, and the update on its way out.
StepSound ==
    /\ pc = "reserve" \/ Sampling \/ pc = "validate" => active = observed
    /\ Compared => Consecutive /\ OneEpoch
    /\ pc = "process" => block[1].epoch = active.epoch
    /\ Offering => Sound(offered)

\* The updates are numbered in the order they are made, and a retry is of the
\* oldest one, unless the publisher drains meanwhile.
UpdatesNumbered ==
    /\ generated = Len(delivered) + Len(Retained) + (IF InHand THEN 1 ELSE 0)
    /\ nextSeq = (InitialSequence + generated) % SeqMod
    /\ pc \in {"retryCall", "retryAccepted"} => pending # << >> /\ Head(pending) = offered
    /\ pc = "deliverCall" => pending = << >>
    /\ pc = "generate" => offered.n = generated + 1 /\ offered.seq = nextSeq /\ fia > 0
    /\ InHand => offered.n = generated /\ offered.seq = (InitialSequence + generated - 1) % SeqMod

\* With one thread for everything, the radio stands still during a step, and
\* the configuration in use is out of date or the radio's.
RadioStill ==
    /\ pc # "idle" => unbumped = 0
    /\ active.epoch <= radio.epoch
    /\ active.epoch = radio.epoch /\ unbumped = 0 => active = radio
    /\ pc \in {"readRate", "readLO"} => snap.epoch = radio.epoch
    /\ pc = "readLO" => snap.rate = radio.rate
    /\ pc \in {"readAgain", "match"} => snap = radio
    /\ pc = "activate" => observed = radio
    /\ pc = "reserve" \/ Sampling \/ pc \in {"validate", "process"} => active = radio

TunedTo(t, r) == t.epoch = r.epoch /\ t.lo = r.lo

\* An update of an older configuration, or of the one in use.
Dated(u) ==
    /\ \A t \in u.seen : t.lo = u.radio.lo
    /\ u.radio.epoch <= active.epoch
    /\ u.radio.epoch = active.epoch => u.radio = active

\* With one thread for everything, what was sampled and averaged since the radio
\* moved is of one tuning.
TuningKept ==
    /\ pc = "sampleLO" => sampleEpoch = radio.epoch
    /\ Sampling \/ HoldsBlock => \A k \in 1 .. Len(block) : TunedTo(block[k], radio)
    /\ \A t \in averaging.seen : t.lo = active.lo
    /\ Offering => Dated(offered)
    /\ Offering => \A u \in Updates : u.radio.epoch = offered.radio.epoch => u.radio = offered.radio
    /\ \A u \in Updates : Dated(u)

\* The inductive invariants of these properties.
SampleInv == BlockEmpty /\ SamplesAccounted
SoundInv  == AverageSound /\ StepSound /\ SoundUpdates
OrderInv  == ~ReentrantSink => UpdatesNumbered /\ InOrder
OneTuning == RadioStill /\ TuningKept /\ EpochNamesRadio /\ NoRetuneMixed
RadioInv  == ~ConcurrentRadio => OneTuning

=============================================================================
