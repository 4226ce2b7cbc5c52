------------------------------ MODULE AxiDmac ------------------------------
(***************************************************************************)
(* zynq.py: AXIDMAC, one DMA controller of the P210.                       *)
(*                                                                         *)
(* A driver programs registers and submits transfers; at most Depth of     *)
(* them are queued, one more submission is held in START_TRANSFER.  The    *)
(* head of the queue is on a virtual-clock timer, which a pause stops and  *)
(* a resume continues.  Every operation runs to its end before another     *)
(* starts, so each is one action.                                          *)
(*                                                                         *)
(* Time is counted in ticks.  Addresses, the scratch and version           *)
(* registers and the on_transfer callback are left out: nothing in the     *)
(* program writes the controller from inside the callback.                 *)
(***************************************************************************)
EXTENDS Integers, Sequences

CONSTANTS
    Depth,            \* QUEUE_DEPTH, also the number of transfer identifiers
    Durations,        \* ticks a transfer takes: _descriptor_delay of X_LENGTH
    ResetDuration,    \* the duration at the reset value of X_LENGTH
    SupportsCyclic,   \* memory_to_device only
    MaxTransfers      \* bound: transfers submitted between two disables

ASSUME DmacAssumption ==
    /\ Depth \in Nat \ {0}
    /\ Durations \subseteq Nat \ {0}
    /\ ResetDuration \in Durations
    /\ SupportsCyclic \in BOOLEAN
    /\ MaxTransfers \in Nat

Causes == {"SOT", "EOT"}     \* IRQ_TRANSFER_QUEUED, IRQ_TRANSFER_COMPLETED
Ids    == 0 .. Depth - 1

\* n is the ordinal of the transfer since the controller was enabled; a cyclic
\* one has the ordinal of the transfer that follows it.
Descriptor == [n : Nat, id : Ids, cyclic : BOOLEAN, time : Durations]

\* A pending callback of the VirtualClock; "ours" is the one in _timer.
Event == [ours : BOOLEAN, left : Nat]

VARIABLES
    enabled, paused,      \* CONTROL
    start,                \* START_TRANSFER: a submission is held
    cyclicFlag, duration, \* FLAGS and X_LENGTH
    nextId, activeId,     \* TRANSFER_ID, ACTIVE_TRANSFER_ID
    done,                 \* TRANSFER_DONE, the set of its bits
    irqMask, irqSource, irqPending,
    queue, busy,          \* _queue, busy
    events,               \* uncancelled events of this controller in the clock
    saved,                \* _pause_remaining_ns
    issued, finished,     \* history: transfers accepted and completed
    owed                  \* history: ticks the head still has to run

config    == <<cyclicFlag, duration>>
irq       == <<irqMask, irqSource, irqPending>>
ids       == <<nextId, activeId, done>>
timing    == <<events, saved, owed>>
transfers == <<queue, busy, start, issued, finished>>

vars == <<enabled, paused, config, ids, irq, transfers, timing>>

-----------------------------------------------------------------------------
Init ==
    /\ enabled = FALSE /\ paused = FALSE /\ start = FALSE
    /\ cyclicFlag = SupportsCyclic /\ duration = ResetDuration
    /\ nextId = 0 /\ activeId = 0 /\ done = {}
    /\ irqMask = Causes /\ irqSource = {} /\ irqPending = {}
    /\ queue = << >> /\ busy = FALSE
    /\ events = {} /\ saved = 0
    /\ issued = 0 /\ finished = 0 /\ owed = 0

-----------------------------------------------------------------------------
(* Interrupt causes are latched until they are written back (W1C).         *)

Raise(causes) ==
    /\ irqSource' = irqSource \cup causes
    /\ irqPending' = irqSource' \ irqMask
    /\ UNCHANGED irqMask

WriteMask ==
    /\ \E mask \in SUBSET Causes : irqMask' = mask
    /\ irqPending' = irqSource \ irqMask'
    /\ UNCHANGED <<irqSource, enabled, paused, config, ids, transfers, timing>>

Acknowledge ==
    \E causes \in SUBSET Causes :
        /\ irqSource' = irqSource \ causes
        /\ irqPending' = irqSource' \ irqMask
        /\ UNCHANGED <<irqMask, enabled, paused, config, ids, transfers, timing>>

-----------------------------------------------------------------------------
(* The timer of the head.                                                  *)

Armed(others, delay) ==
    {[e EXCEPT !.ours = FALSE] : e \in others} \cup {[ours |-> TRUE, left |-> delay]}

Cancelled(all) == {e \in all : ~e.ours}

\* _schedule_head for a controller that is not busy: others are the events
\* left in the clock, waiting the new queue.
ScheduleHead(others, waiting) ==
    IF waiting = << >>
    THEN /\ busy' = FALSE
         /\ events' = others
         /\ owed' = 0
         /\ UNCHANGED saved
    ELSE /\ busy' = TRUE
         /\ owed' = Head(waiting).time
         /\ IF paused
            THEN events' = others /\ saved' = Head(waiting).time
            ELSE events' = Armed(others, Head(waiting).time) /\ UNCHANGED saved

\* ACTIVE_TRANSFER_ID once the head is scheduled; nextId when nothing is left.
ActiveAfter(waiting) == IF waiting = << >> THEN nextId ELSE Head(waiting).id

-----------------------------------------------------------------------------
(* Submissions.                                                            *)

Submitted ==
    [n |-> issued + 1, id |-> nextId, cyclic |-> cyclicFlag, time |-> duration]

\* Bug: the DONE bit of a reused identifier stays set.
TakeIdStaleDone(bits) ==
    IF cyclicFlag
    THEN done' = bits /\ UNCHANGED <<nextId, issued>>
    ELSE /\ done' = bits
         /\ nextId' = (nextId + 1) % Depth
         /\ issued' = issued + 1

\* _accept_descriptor with room: a cyclic transfer takes no identifier, raises
\* no cause and leaves the DONE bits alone.
TakeId(bits) ==
    IF cyclicFlag
    THEN done' = bits /\ UNCHANGED <<nextId, issued>>
    ELSE /\ done' = bits \ {nextId}
         /\ nextId' = (nextId + 1) % Depth
         /\ issued' = issued + 1

QueuedCause == IF cyclicFlag THEN {} ELSE {"SOT"}

Accept ==
    /\ Len(queue) < Depth
    /\ queue' = Append(queue, Submitted)
    /\ TakeId(done)
    /\ Raise(QueuedCause)
    /\ IF busy
       THEN UNCHANGED <<busy, timing, activeId>>
       ELSE ScheduleHead(events, queue') /\ activeId' = ActiveAfter(queue')
    /\ UNCHANGED start

\* No room: START_TRANSFER stays set.
Hold ==
    /\ Len(queue) = Depth
    /\ start' = TRUE
    /\ UNCHANGED <<queue, busy, issued, ids, irq, timing>>

\* A write of 1 to START_TRANSFER.
Submit ==
    /\ enabled /\ ~start
    /\ issued < MaxTransfers
    /\ Accept \/ Hold
    /\ UNCHANGED <<enabled, paused, config, finished>>

WriteFlags ==
    /\ SupportsCyclic
    /\ cyclicFlag' = ~cyclicFlag
    /\ UNCHANGED <<duration, enabled, paused, ids, irq, transfers, timing>>

WriteLength ==
    /\ \E time \in Durations \ {duration} : duration' = time
    /\ UNCHANGED <<cyclicFlag, enabled, paused, ids, irq, transfers, timing>>

-----------------------------------------------------------------------------
(* CONTROL.                                                                *)

\* Bug: a held submission survives.
DisableKeepingStart(pause) ==
    /\ enabled' = FALSE /\ paused' = pause
    /\ events' = Cancelled(events)
    /\ queue' = << >> /\ busy' = FALSE
    /\ nextId' = 0 /\ activeId' = 0 /\ done' = {}
    /\ saved' = 0
    /\ issued' = 0 /\ finished' = 0 /\ owed' = 0
    /\ UNCHANGED <<config, irq, start>>

\* Bug: TRANSFER_ID counts on.
DisableKeepingId(pause) ==
    /\ enabled' = FALSE /\ paused' = pause
    /\ events' = Cancelled(events)
    /\ queue' = << >> /\ busy' = FALSE /\ start' = FALSE
    /\ activeId' = 0 /\ done' = {}
    /\ saved' = 0
    /\ issued' = 0 /\ finished' = 0 /\ owed' = 0
    /\ UNCHANGED <<config, irq, nextId>>

\* Everything queued or held is dropped, and the identifiers start again.
Disable(pause) ==
    /\ enabled' = FALSE /\ paused' = pause
    /\ events' = Cancelled(events)
    /\ queue' = << >> /\ busy' = FALSE /\ start' = FALSE
    /\ nextId' = 0 /\ activeId' = 0 /\ done' = {}
    /\ saved' = 0
    /\ issued' = 0 /\ finished' = 0 /\ owed' = 0
    /\ UNCHANGED <<config, irq>>

Live == {e \in events : e.ours}

\* At least one tick: the event may be due and not yet run.
TimeLeft ==
    IF \E e \in Live : e.left > 0 THEN (CHOOSE e \in Live : TRUE).left ELSE 1

\* Bug: the event stays in the clock.
SuspendUncancelled ==
    /\ saved' = TimeLeft
    /\ UNCHANGED events

Suspend ==
    /\ saved' = TimeLeft
    /\ events' = Cancelled(events)

\* Bug: the transfer is started over.
ResumeFromStart ==
    /\ events' = Armed(events, Head(queue).time)
    /\ saved' = 0

\* Bug: the timer is not armed again.
ResumeUnarmed ==
    /\ saved' = 0
    /\ UNCHANGED events

Resume ==
    /\ events' = Armed(events, IF saved # 0 THEN saved ELSE Head(queue).time)
    /\ saved' = 0

Enable(pause) ==
    /\ enabled' = TRUE /\ paused' = pause
    /\ \/ busy /\ ~paused /\ pause /\ Suspend
       \/ busy /\ paused /\ ~pause /\ Resume
       \/ (~busy \/ paused = pause) /\ UNCHANGED <<events, saved>>
    /\ UNCHANGED <<owed, config, ids, irq, transfers>>

WriteControl == \E pause \in BOOLEAN : Disable(pause) \/ Enable(pause)

\* reset(), from Zynq7020.power_off.
Reset ==
    /\ enabled' = FALSE /\ paused' = FALSE /\ start' = FALSE
    /\ cyclicFlag' = SupportsCyclic /\ duration' = ResetDuration
    /\ nextId' = 0 /\ activeId' = 0 /\ done' = {}
    /\ irqMask' = Causes /\ irqSource' = {} /\ irqPending' = {}
    /\ queue' = << >> /\ busy' = FALSE
    /\ events' = Cancelled(events) /\ saved' = 0
    /\ issued' = 0 /\ finished' = 0 /\ owed' = 0

-----------------------------------------------------------------------------
(* The clock.                                                              *)

\* Time does not pass an event that is due.
Tick ==
    /\ events # {}
    /\ \A e \in events : e.left > 0
    /\ events' = {[e EXCEPT !.left = @ - 1] : e \in events}
    /\ owed' = IF owed > 0 THEN owed - 1 ELSE 0
    /\ UNCHANGED <<saved, enabled, paused, config, ids, irq, transfers>>

\* The event e has run: _timer is None.
Popped(e) == {[x EXCEPT !.ours = FALSE] : x \in events \ {e}}

\* A cyclic head is put on the timer again.
Repeat(e) ==
    /\ Head(queue).cyclic
    /\ ScheduleHead(Popped(e), queue)
    /\ UNCHANGED <<queue, start, issued, finished, ids, irq>>

\* Bug: a held submission is forgotten.
NeverAcceptsHeld == FALSE

AcceptsHeld == start

\* The head is retired, the next one scheduled, and a held submission accepted
\* with the identifier and the configuration of now.
Retire(e) ==
    /\ ~Head(queue).cyclic
    /\ finished' = finished + 1
    /\ IF AcceptsHeld
       THEN /\ queue' = Append(Tail(queue), Submitted)
            /\ start' = FALSE
            /\ TakeId(done \cup {Head(queue).id})
            /\ Raise({"EOT"} \cup QueuedCause)
       ELSE /\ queue' = Tail(queue)
            /\ done' = done \cup {Head(queue).id}
            /\ Raise({"EOT"})
            /\ UNCHANGED <<start, nextId, issued>>
    /\ ScheduleHead(Popped(e), queue')
    /\ activeId' = ActiveAfter(queue')

\* _complete_head; it finds no head when it runs late.
Fire ==
    /\ \E e \in events :
        /\ e.left = 0
        /\ IF busy /\ queue # << >>
           THEN Repeat(e) \/ Retire(e)
           ELSE events' = Popped(e)
                /\ UNCHANGED <<saved, owed, ids, irq, transfers>>
    /\ UNCHANGED <<enabled, paused, config>>

-----------------------------------------------------------------------------
Driver ==
    \/ WriteMask \/ Acknowledge \/ Submit \/ WriteFlags \/ WriteLength
    \/ WriteControl \/ Reset

Next == Driver \/ Tick \/ Fire

Spec == Init /\ [][Next]_vars

\* Fairness: whoever owns the VirtualClock keeps advancing it.
FairSpec == Spec /\ WF_vars(Tick) /\ WF_vars(Fire)

-----------------------------------------------------------------------------
(* Properties.                                                             *)

\* Types of the state.
TypeOK ==
    /\ enabled \in BOOLEAN /\ paused \in BOOLEAN /\ start \in BOOLEAN
    /\ cyclicFlag \in BOOLEAN /\ duration \in Durations
    /\ nextId \in Ids /\ activeId \in Ids /\ done \subseteq Ids
    /\ irqMask \subseteq Causes /\ irqSource \subseteq Causes
    /\ irqPending \subseteq Causes
    /\ queue \in Seq(Descriptor) /\ Len(queue) <= Depth
    /\ busy \in BOOLEAN
    /\ events \subseteq Event
    /\ saved \in Nat /\ issued \in Nat /\ finished \in Nat /\ owed \in Nat

\* The controller is busy exactly when something is queued, only then and when
\* not paused does it have a timer, and never two: no completion can be lost or
\* run twice, whatever the driver does between arming and firing.
OneTimer ==
    /\ busy <=> queue # << >>
    /\ busy /\ ~paused =>
          events # {} /\ \A e, f \in events : e.ours /\ e = f
    /\ ~busy \/ paused => events = {}
    /\ busy => enabled

\* A submission is held only while the queue is full, so that a completion,
\* which is what accepts it, is still to come.
HeldMeansFull == start => enabled /\ Len(queue) = Depth

\* The ordinal of what is submitted after d, counting from before it.
After(d) == IF d.cyclic THEN d.n ELSE d.n + 1

\* Transfers run in the order they were accepted and none is skipped; their
\* identifiers are their ordinals modulo the depth, and the next one is the one
\* TRANSFER_ID announces.
FifoOrder ==
    /\ queue = << >> => issued = finished
    /\ queue # << >> => /\ Head(queue).n = finished + 1
                        /\ After(queue[Len(queue)]) = issued + 1
    /\ \A i \in 1 .. Len(queue) - 1 : queue[i + 1].n = After(queue[i])
    /\ \A i, j \in 1 .. Len(queue) : i < j => After(queue[i]) <= queue[j].n
    /\ \A i \in 1 .. Len(queue) :
          /\ queue[i].n \in finished + 1 .. finished + i
          /\ queue[i].id = (queue[i].n - 1) % Depth
    /\ nextId = issued % Depth

IdsOf(first, last) == {m % Depth : m \in first - 1 .. last - 1}

\* A DONE bit is set exactly when its identifier has finished and no transfer
\* that reuses it has been accepted since, held ones included: the driver never
\* takes a transfer in flight for a finished one.
DoneBits == done = IdsOf(1, finished) \ IdsOf(finished + 1, issued)

\* ACTIVE_TRANSFER_ID names the head, or when idle the transfer to come.
ActiveNamesHead == activeId = IF queue = << >> THEN nextId ELSE Head(queue).id

\* Pausing and resuming, however often and at whatever moment, neither shortens
\* nor lengthens the head's transfer, except for the tick that a pause of an
\* event already due costs; and a pause always leaves some to resume with.
TimeKept ==
    /\ busy /\ paused => saved > 0 /\ (saved = owed \/ (owed = 0 /\ saved = 1))
    /\ busy /\ ~paused =>
          \A e \in events : e.left = owed \/ (owed = 0 /\ e.left = 1)

\* The interrupt line is up exactly for the latched causes that are not masked,
\* also after the mask or the latch changes under a raised line.
LineFollowsLatch == irqPending = irqSource \ irqMask

\* What the queue shows of its transfers.
Transfers(q) == [i \in 1 .. Len(q) |-> [id |-> q[i].id, cyclic |-> q[i].cyclic]]

Queue == INSTANCE DmaQueue WITH
    BusCanFail <- FALSE,
    waiting    <- Transfers(queue),
    held       <- start,
    next       <- nextId

\* The controller implements the queue a driver relies on: pauses, timers and
\* interrupts never lose, repeat or reorder a transfer.
ImplementsQueue == Queue!Spec

\* The inductive invariant.
IInv == /\ TypeOK /\ OneTimer /\ HeldMeansFull /\ FifoOrder /\ DoneBits
        /\ ActiveNamesHead /\ TimeKept /\ LineFollowsLatch

Stopped == paused \/ ~enabled \/ (queue # << >> /\ Head(queue).cyclic)

\* A held submission is accepted, unless the driver pauses or disables the
\* controller or a cyclic transfer is at the head.
HeldAccepted == start ~> ~start \/ Stopped

\* Every accepted transfer finishes, with the same exceptions.
TransfersFinish ==
    \A n \in 1 .. MaxTransfers : issued >= n ~> finished >= n \/ issued < n \/ Stopped

=============================================================================
