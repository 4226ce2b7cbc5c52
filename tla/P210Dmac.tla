------------------------------ MODULE P210Dmac ------------------------------
(***************************************************************************)
(* p210_sdr.c: P210DMAC, one DMA controller of the QEMU device, with the   *)
(* part of P210SDRState that it uses.                                      *)
(*                                                                         *)
(* The controller of AxiDmac, with what the device adds: descriptors in a  *)
(* ring, a copy in chunks that the bus can fail at any chunk and that      *)
(* moves the sample index of the receive tones, a scan mask captured with  *)
(* each descriptor, and migration.  QEMU runs register accesses, timers    *)
(* and migration under one lock, so each is one action.                    *)
(*                                                                         *)
(* Addresses, the tones themselves and registers that only store what is   *)
(* written are left out.                                                   *)
(***************************************************************************)
EXTENDS Integers, Sequences

CONSTANTS
    Depth,          \* P210_DMAC_QUEUE_DEPTH
    Directions,     \* values of to_memory: one of the device's two controllers each
    Lengths,        \* bytes of a transfer, X_LENGTH + 1
    Scans,          \* numbers of RX channels a driver enables
    Chunk,          \* P210_DMA_CHUNK
    BytesPerTick,   \* per byte of a frame: P210_SAMPLE_RATE_HZ over a tick
    MaxTransfers    \* bound: submissions between two resets

ASSUME P210Assumption ==
    /\ Depth \in Nat \ {0}
    /\ Directions \subseteq BOOLEAN
    /\ Lengths \subseteq Nat \ {0} /\ 1 \in Lengths
    /\ Scans \subseteq 0 .. 4 /\ 0 \in Scans
    /\ Chunk \in Nat /\ Chunk >= 8
    /\ BytesPerTick \in Nat \ {0}
    /\ MaxTransfers \in Nat

Causes  == {"SOT", "EOT"}
Ids     == 0 .. Depth - 1
NoTimer == -1

\* n is the ordinal of the transfer, as in AxiDmac.
Descriptor == [n : Nat, id : Ids, cyclic : BOOLEAN, length : Lengths, scan : Scans]
Zeroed     == [n |-> 0, id |-> 0, cyclic |-> FALSE, length |-> 1, scan |-> 0]

VARIABLES
    toMemory,             \* to_memory; supports_cyclic is its negation
    enabled, paused,      \* CONTROL
    start,                \* START_TRANSFER
    cyclicFlag, length,   \* FLAGS and X_LENGTH
    scan,                 \* channels enabled in the RX core
    nextId, activeId,     \* TRANSFER_ID, ACTIVE_TRANSFER_ID
    done,                 \* TRANSFER_DONE
    irqMask, irqSource, irqPending,
    line,                 \* the interrupt line of the controller
    ring, head, count,    \* queue, queue_head, queue_count
    running,
    timer,                \* ticks until the QEMUTimer expires, or NoTimer
    saved,                \* pause_remaining_ns
    sampleIndex,          \* rx_sample_index
    issued, finished,     \* history: identifiers taken, and transfers of them ended
    submitted,            \* history: submissions since the last reset
    early,                \* history: identifiers of cyclic transfers that failed
    owed,                 \* history: ticks the head still has to run
    captured              \* history: frames that fit in the transfers copied

config    == <<toMemory, cyclicFlag, length, scan>>
irq       == <<irqMask, irqSource, irqPending, line>>
ids       == <<nextId, activeId, done>>
timing    == <<timer, saved, owed>>
data      == <<sampleIndex, captured>>
transfers == <<ring, head, count, running, start, issued, finished, submitted, early>>

vars == <<enabled, paused, config, ids, irq, transfers, timing, data>>

-----------------------------------------------------------------------------
(* The copy.                                                               *)

Least(a, b) == IF a < b THEN a ELSE b

\* Zero for every transmit: its descriptors have an empty scan mask.
FrameBytes(d) == 2 * d.scan

Delay(d) ==
    LET frame == IF d.scan > 0 THEN FrameBytes(d) ELSE 8
        rate  == BytesPerTick * frame
    IN  IF d.length > rate THEN (d.length + rate - 1) \div rate ELSE 1

\* Bug: a chunk ends in the middle of a frame.
AnyChunk(remaining, frame) == Least(remaining, Chunk)

\* Frames stay whole across the chunks of a copy.
ChunkOf(remaining, frame) ==
    IF frame > 0 /\ remaining > Chunk THEN Chunk - (Chunk % frame)
                                      ELSE Least(remaining, Chunk)

\* The copy of d after k chunks: the bytes left and the frames generated.
Copy(d) ==
    LET frame == FrameBytes(d)
        after[k \in 0 .. d.length] ==
            IF k = 0 THEN [left |-> d.length, frames |-> 0]
            ELSE LET last  == after[k - 1]
                     chunk == ChunkOf(last.left, frame)
                 IN  [left   |-> last.left - chunk,
                      frames |-> IF frame = 0 THEN 0 ELSE last.frames + chunk \div frame]
    IN  after

\* The copies of all descriptors, in every state they can stop in.
Stops ==
    [d \in [length : Lengths, scan : Scans] |->
        {Copy(d)[k] : k \in 0 .. d.length}]

FramesIn(d) == IF FrameBytes(d) = 0 THEN 0 ELSE d.length \div FrameBytes(d)

-----------------------------------------------------------------------------
Slot(i) == (head + i) % Depth

\* The descriptors in the ring, from the head.
Queued == [i \in 1 .. count |-> ring[Slot(i - 1)]]

Init ==
    /\ enabled = FALSE /\ paused = FALSE /\ start = FALSE
    /\ toMemory \in Directions
    /\ cyclicFlag = ~toMemory /\ length = 1 /\ scan = 0
    /\ nextId = 0 /\ activeId = 0 /\ done = {}
    /\ irqMask = Causes /\ irqSource = {} /\ irqPending = {} /\ line = FALSE
    /\ ring = [s \in Ids |-> Zeroed] /\ head = 0 /\ count = 0 /\ running = FALSE
    /\ timer = NoTimer /\ saved = 0 /\ owed = 0
    /\ sampleIndex = 0 /\ captured = 0
    /\ issued = 0 /\ finished = 0 /\ submitted = 0 /\ early = {}

\* p210_dmac_update_irq, with the causes and the mask there are now.
UpdateIrq(source, mask) ==
    /\ irqSource' = source /\ irqMask' = mask
    /\ irqPending' = source \ mask
    /\ line' = (irqPending' # {})

WriteMask ==
    /\ \E mask \in SUBSET Causes : UpdateIrq(irqSource, mask)
    /\ UNCHANGED <<enabled, paused, config, ids, transfers, timing, data>>

Acknowledge ==
    /\ \E causes \in SUBSET Causes : UpdateIrq(irqSource \ causes, irqMask)
    /\ UNCHANGED <<enabled, paused, config, ids, transfers, timing, data>>

-----------------------------------------------------------------------------
(* Submissions.                                                            *)

\* p210_dmac_schedule_head for a controller that is not running: at is the new
\* queue_head, kept the timer it leaves alone.
StartHead(at, kept) ==
    /\ running' = TRUE
    /\ activeId' = ring'[at].id
    /\ owed' = Delay(ring'[at])
    /\ IF paused THEN saved' = owed' /\ timer' = kept
                 ELSE saved' = 0 /\ timer' = owed'

Submitted ==
    [n |-> issued + 1, id |-> nextId, cyclic |-> cyclicFlag, length |-> length,
     scan |-> IF toMemory THEN scan ELSE 0]

EnterCause == IF cyclicFlag THEN {} ELSE {"SOT"}

\* Bug: a descriptor is written into the slot of the head.
TailAtHead(at, waiting) == at % Depth

\* The slot behind the descriptors, at and waiting being queue_head and queue_count.
TailSlot(at, waiting) == (at + waiting) % Depth

FollowingId == (nextId + 1) % Depth

\* The DONE bits as a submission leaves them.
Taken(bits) == IF cyclicFlag THEN bits ELSE bits \ {nextId}

\* p210_dmac_accept_descriptor with room: at, waiting, bits and failed are
\* queue_head, queue_count, done and early as it finds them.
Enter(at, waiting, bits, failed) ==
    /\ ring' = [ring EXCEPT ![TailSlot(at, waiting)] = Submitted]
    /\ count' = waiting + 1
    /\ nextId' = IF cyclicFlag THEN nextId ELSE FollowingId
    /\ issued' = IF cyclicFlag THEN issued ELSE issued + 1
    /\ done' = Taken(bits)
    /\ early' = IF cyclicFlag THEN failed ELSE failed \ {nextId}

Accept ==
    /\ count < Depth
    /\ Enter(head, count, done, early)
    /\ UNCHANGED start
    /\ UpdateIrq(irqSource \cup EnterCause, irqMask)
    /\ IF running THEN UNCHANGED <<running, activeId, timing>>
                  ELSE StartHead(head, timer)

Hold ==
    /\ count = Depth
    /\ start' = TRUE
    /\ UNCHANGED <<ring, count, running, issued, early, ids, irq, timing>>

Submit ==
    /\ enabled /\ ~start
    /\ submitted < MaxTransfers /\ submitted' = submitted + 1
    /\ Accept \/ Hold
    /\ UNCHANGED <<head, finished, enabled, paused, config, data>>

WriteFlags ==
    /\ ~toMemory
    /\ cyclicFlag' = ~cyclicFlag
    /\ UNCHANGED <<toMemory, length, scan, enabled, paused, ids, irq, transfers, timing, data>>

WriteLength ==
    /\ length' \in Lengths \ {length}
    /\ UNCHANGED <<toMemory, cyclicFlag, scan, enabled, paused, ids, irq, transfers, timing, data>>

\* A channel control register of the RX core.
WriteScan ==
    /\ scan' \in Scans \ {scan}
    /\ UNCHANGED <<toMemory, cyclicFlag, length, enabled, paused, ids, irq, transfers, timing, data>>

-----------------------------------------------------------------------------
(* CONTROL and reset.                                                      *)

Disable(pause) ==
    /\ enabled' = FALSE /\ paused' = pause
    /\ timer' = NoTimer /\ saved' = 0 /\ owed' = 0
    /\ ring' = [s \in Ids |-> Zeroed] /\ head' = 0 /\ count' = 0 /\ running' = FALSE
    /\ nextId' = 0 /\ start' = FALSE /\ done' = {} /\ activeId' = 0
    /\ issued' = 0 /\ finished' = 0 /\ early' = {}
    /\ UNCHANGED <<submitted, config, irq, data>>

Suspend ==
    /\ saved' = IF timer > 0 THEN timer ELSE 1
    /\ timer' = NoTimer

Resume ==
    /\ timer' = IF saved # 0 THEN saved ELSE Delay(ring[head])
    /\ saved' = 0

Enable(pause) ==
    /\ enabled' = TRUE /\ paused' = pause
    /\ \/ running /\ ~paused /\ pause /\ Suspend
       \/ running /\ paused /\ ~pause /\ Resume
       \/ (~running \/ paused = pause) /\ UNCHANGED <<timer, saved>>
    /\ UNCHANGED <<owed, config, ids, irq, transfers, data>>

WriteControl == \E pause \in BOOLEAN : Disable(pause) \/ Enable(pause)

\* p210_sdr_reset.
Reset ==
    /\ enabled' = FALSE /\ paused' = FALSE /\ start' = FALSE
    /\ cyclicFlag' = ~toMemory /\ length' = 1 /\ scan' = 0
    /\ UNCHANGED toMemory
    /\ nextId' = 0 /\ activeId' = 0 /\ done' = {}
    /\ irqMask' = Causes /\ irqSource' = {} /\ irqPending' = {} /\ line' = FALSE
    /\ ring' = [s \in Ids |-> Zeroed] /\ head' = 0 /\ count' = 0 /\ running' = FALSE
    /\ timer' = NoTimer /\ saved' = 0 /\ owed' = 0
    /\ sampleIndex' = 0 /\ captured' = 0
    /\ issued' = 0 /\ finished' = 0 /\ submitted' = 0 /\ early' = {}

-----------------------------------------------------------------------------
(* The timer and the copy.                                                 *)

Tick ==
    /\ timer > 0
    /\ timer' = timer - 1
    /\ owed' = IF owed > 0 THEN owed - 1 ELSE 0
    /\ UNCHANGED <<saved, enabled, paused, config, ids, irq, transfers, data>>

\* The copy of d stopped there, by its end or by the bus.
Copied(d, stop) ==
    /\ sampleIndex' = sampleIndex + stop.frames
    /\ captured' = captured + (IF stop.left = 0 THEN FramesIn(d) ELSE stop.frames)

\* A cyclic head starts over.
Repeat(d) ==
    /\ owed' = Delay(d)
    /\ IF paused THEN saved' = owed' /\ timer' = NoTimer
                 ELSE saved' = 0 /\ timer' = owed'
    /\ UNCHANGED <<ids, irq, transfers>>

\* The descriptor d at the head ends; a held submission enters behind the rest.
Retire(d) ==
    LET bits   == done \cup {d.id}
        failed == IF d.cyclic THEN early \cup {d.id} ELSE early
    IN  /\ finished' = IF d.cyclic THEN finished ELSE finished + 1
        /\ head' = Slot(1)
        /\ IF start /\ enabled
           THEN /\ Enter(Slot(1), count - 1, bits, failed)
                /\ start' = FALSE
                /\ UpdateIrq(irqSource \cup {"EOT"} \cup EnterCause, irqMask)
           ELSE /\ count' = count - 1
                /\ done' = bits /\ early' = failed
                /\ UpdateIrq(irqSource \cup {"EOT"}, irqMask)
                /\ UNCHANGED <<ring, nextId, issued, start>>
        /\ UNCHANGED submitted
        /\ IF count' = 0
           THEN /\ running' = FALSE /\ activeId' = nextId
                /\ timer' = NoTimer /\ saved' = 0 /\ owed' = 0
           ELSE StartHead(Slot(1), NoTimer)

\* p210_dmac_complete.  A bus error ends the transfer, a cyclic one too.
Complete ==
    /\ timer = 0
    /\ IF running /\ count > 0
       THEN LET d == ring[head] IN
            \E stop \in Stops[[length |-> d.length, scan |-> d.scan]] :
                /\ Copied(d, stop)
                /\ IF d.cyclic /\ stop.left = 0 THEN Repeat(d) ELSE Retire(d)
       ELSE timer' = NoTimer /\ UNCHANGED <<saved, owed, ids, irq, transfers, data>>
    /\ UNCHANGED <<enabled, paused, config>>

-----------------------------------------------------------------------------
(* Migration: the state is saved and loaded by another QEMU.               *)

\* What p210_sdr_post_load refuses with -EINVAL.
LoadAccepts ==
    /\ head \in Ids /\ count \in 0 .. Depth
    /\ running <=> count # 0
    /\ count # 0 => enabled
    /\ \A i \in 1 .. count :
          /\ Queued[i].id \in Ids
          /\ Queued[i].cyclic => ~toMemory
          /\ Queued[i].length \in Lengths
          /\ Queued[i].scan \in 0 .. 4

\* Bug: the head is always put on the timer anew.
LoadTimerAnew ==
    IF ~running
    THEN timer' = NoTimer /\ saved' = 0
    ELSE IF paused
         THEN timer' = NoTimer /\ saved' = IF saved = 0 THEN Delay(ring[head]) ELSE saved
         ELSE timer' = Delay(ring[head]) /\ saved' = 0

LoadTimer ==
    IF ~running
    THEN timer' = NoTimer /\ saved' = 0
    ELSE IF paused
         THEN timer' = NoTimer /\ saved' = IF saved = 0 THEN Delay(ring[head]) ELSE saved
         ELSE IF timer = NoTimer
              THEN timer' = (IF saved = 0 THEN Delay(ring[head]) ELSE saved) /\ saved' = 0
              ELSE UNCHANGED <<timer, saved>>

Migrate ==
    /\ LoadAccepts
    /\ LoadTimer
    /\ UpdateIrq(irqSource, irqMask)
    /\ UNCHANGED <<owed, enabled, paused, config, ids, transfers, data>>

-----------------------------------------------------------------------------
Driver ==
    \/ WriteMask \/ Acknowledge \/ Submit \/ WriteFlags \/ WriteLength \/ WriteScan
    \/ WriteControl \/ Reset

Next == Driver \/ Tick \/ Complete \/ Migrate

Spec == Init /\ [][Next]_vars

-----------------------------------------------------------------------------
(* Properties.                                                             *)

\* Types of the state.
TypeOK ==
    /\ enabled \in BOOLEAN /\ paused \in BOOLEAN /\ start \in BOOLEAN
    /\ toMemory \in Directions /\ cyclicFlag \in BOOLEAN /\ length \in Lengths /\ scan \in Scans
    /\ nextId \in Ids /\ activeId \in Ids /\ done \subseteq Ids /\ early \subseteq Ids
    /\ irqMask \subseteq Causes /\ irqSource \subseteq Causes
    /\ irqPending \subseteq Causes /\ line \in BOOLEAN
    /\ ring \in [Ids -> Descriptor] /\ head \in Ids /\ count \in 0 .. Depth
    /\ running \in BOOLEAN
    /\ timer \in Nat \cup {NoTimer} /\ saved \in Nat /\ owed \in Nat
    /\ sampleIndex \in Nat /\ captured \in Nat
    /\ issued \in Nat /\ finished \in Nat /\ submitted \in Nat

\* A state saved at any moment is one that migration accepts: a running
\* machine is never refused by its destination, whatever the driver did.
SavedStateLoads == LoadAccepts

\* The timer runs exactly while a transfer does and is not paused; and neither
\* pauses nor migrations change the time of the head, but for the tick that a
\* pause of an expired timer costs.
TimeKept ==
    /\ timer # NoTimer <=> running /\ ~paused
    /\ running /\ ~paused => timer = owed \/ (owed = 0 /\ timer = 1)
    /\ running /\ paused => saved > 0 /\ (saved = owed \/ (owed = 0 /\ saved = 1))

\* The line is up exactly while a cause is latched and not masked.
LineFollowsLatch ==
    irqPending = irqSource \ irqMask /\ (line <=> irqPending # {})

IdsOf(first, last) == {m % Depth : m \in first - 1 .. last - 1}

\* A DONE bit is set exactly when its identifier has finished and has not been
\* taken since, or when a cyclic transfer of that identifier failed since.
DoneBits ==
    done = (IdsOf(1, finished) \ IdsOf(finished + 1, issued)) \cup early

\* The receive tones continue over chunks, transfers and pauses without a jump:
\* every transfer advances the sample index by the frames that fit in it, and
\* one that the bus ends by the frames it wrote ("buffer boundaries do not
\* introduce phase resets", cosim/README.md).
SamplesContinuous == sampleIndex = captured

\* What the ring shows of its transfers.
Transfers(q) == [i \in 1 .. Len(q) |-> [id |-> q[i].id, cyclic |-> q[i].cyclic]]

Queue == INSTANCE DmaQueue WITH
    BusCanFail <- TRUE,
    waiting    <- Transfers(Queued),
    held       <- start,
    next       <- nextId

\* The ring implements the queue a driver relies on, the one AxiDmac implements.
ImplementsQueue == Queue!Spec

\* A machine saved at any moment, while its head runs, is paused, is due or is
\* being copied, loads, and goes on with the head's time, and with the DONE bits
\* of what has finished and of nothing else.
SavedStateResumes == SavedStateLoads /\ TimeKept /\ DoneBits

-----------------------------------------------------------------------------
(* What makes them inductive.                                              *)

\* Only a transmitter has cyclic transfers.
CyclicTransmits == cyclicFlag => ~toMemory

\* The ordinal of what is submitted after d.
After(d) == IF d.cyclic THEN d.n ELSE d.n + 1

\* The ordinal at place i of the transfers q, the one behind them being that of
\* the submission to come, after n.
Ordinal(q, n, i) == IF i <= Len(q) THEN q[i].n ELSE n + 1

\* The transfers q wait in order and none is skipped, f having finished and n
\* been issued, and identifiers are ordinals modulo the depth.
Ordered(q, f, n, id) ==
    /\ Ordinal(q, n, 1) = f + 1
    /\ \A i \in 1 .. Len(q) : \A j \in i + 1 .. Len(q) + 1 :
          Ordinal(q, n, j) \in After(q[i]) .. After(q[i]) + (j - i - 1)
    /\ \A i \in 1 .. Len(q) : q[i].id = (q[i].n - 1) % Depth
    /\ id = n % Depth

FifoOrder == Ordered(Queued, finished, issued, nextId)

IInv ==
    /\ TypeOK /\ SavedStateLoads /\ TimeKept /\ LineFollowsLatch
    /\ CyclicTransmits /\ FifoOrder /\ DoneBits /\ SamplesContinuous

=============================================================================
