---------------------------- MODULE UpdateStream ----------------------------
(***************************************************************************)
(* What the continuous spectrum runtime promises to its consumers,         *)
(* without threads, locks, radio or retries.                               *)
(*                                                                         *)
(* FFT frames are absorbed into the update being averaged.  An update is   *)
(* emitted into a bounded FIFO, or the frames it had so far are discarded  *)
(* and owed: the next update that is emitted reports them.  Updates leave  *)
(* the FIFO from its head, each of them once.                              *)
(***************************************************************************)
EXTENDS Integers, Sequences

CONSTANT Capacity   \* complete updates held for the consumers

VARIABLES
    made,     \* number of updates emitted so far
    held,     \* frames in the average in progress
    owed,     \* discarded frames no update has reported yet
    queue,    \* emitted updates that no consumer has
    out       \* updates the consumers have, in the order they got them

streamVars == <<made, held, owed, queue, out>>

Init ==
    /\ made = 0
    /\ held = 0
    /\ owed = 0
    /\ queue = << >>
    /\ out = << >>

Absorb ==
    /\ held' = held + 1
    /\ UNCHANGED <<made, owed, queue, out>>

Discard ==
    /\ held > 0
    /\ owed' = owed + held
    /\ held' = 0
    /\ UNCHANGED <<made, queue, out>>

Emit ==
    /\ held > 0
    /\ Len(queue) < Capacity
    /\ queue' = Append(queue, [n |-> made + 1, frames |-> held, lost |-> owed])
    /\ made' = made + 1
    /\ held' = 0
    /\ owed' = 0
    /\ UNCHANGED out

Take(count) ==
    /\ count \in 1 .. Len(queue)
    /\ out' = out \o SubSeq(queue, 1, count)
    /\ queue' = SubSeq(queue, count + 1, Len(queue))
    /\ UNCHANGED <<made, held, owed>>

Next ==
    \/ Absorb
    \/ Discard
    \/ Emit
    \/ \E count \in 1 .. Len(queue) : Take(count)

Spec == Init /\ [][Next]_streamVars

=============================================================================
