------------------------------ MODULE DmaQueue ------------------------------
(***************************************************************************)
(* What both DMA controllers, AxiDmac and P210Dmac, promise to a driver,   *)
(* without time, pauses, interrupts, rings or data.                        *)
(*                                                                         *)
(* Transfers wait in order; one more submission may be held while the      *)
(* queue is full, and enters as the head ends.  A transfer that is not     *)
(* cyclic takes the next identifier and clears its DONE bit, and sets that *)
(* bit when it ends.  A cyclic one takes none, and ends only when the bus  *)
(* fails.                                                                  *)
(***************************************************************************)
EXTENDS Integers, Sequences

CONSTANTS
    Depth,        \* transfers that can wait, and identifiers there are
    BusCanFail    \* whether a cyclic transfer can end

VARIABLES
    waiting,      \* transfers accepted and not ended, with their identifiers
    held,         \* a submission waits for room
    next,         \* the identifier of the next transfer
    done          \* identifiers whose DONE bit is set

queueVars == <<waiting, held, next, done>>

Init ==
    /\ waiting = << >>
    /\ held = FALSE
    /\ next = 0
    /\ done = {}

\* A transfer enters behind those in line; bits is done as it finds it.
Enter(line, bits, cyclic) ==
    /\ waiting' = Append(line, [id |-> next, cyclic |-> cyclic])
    /\ next' = IF cyclic THEN next ELSE (next + 1) % Depth
    /\ done' = IF cyclic THEN bits ELSE bits \ {next}

Submit ==
    /\ ~held
    /\ Len(waiting) < Depth
    /\ \E cyclic \in BOOLEAN : Enter(waiting, done, cyclic)
    /\ UNCHANGED held

Hold ==
    /\ ~held
    /\ Len(waiting) = Depth
    /\ held' = TRUE
    /\ UNCHANGED <<waiting, next, done>>

End ==
    /\ waiting # << >>
    /\ Head(waiting).cyclic => BusCanFail
    /\ LET line == Tail(waiting)
           bits == done \cup {Head(waiting).id}
       IN  \/ /\ held
              /\ \E cyclic \in BOOLEAN : Enter(line, bits, cyclic)
           \/ /\ ~held
              /\ waiting' = line
              /\ done' = bits
              /\ UNCHANGED next
    /\ held' = FALSE

\* The controller is disabled or reset.
Clear ==
    /\ waiting' = << >>
    /\ held' = FALSE
    /\ next' = 0
    /\ done' = {}

Next == Submit \/ Hold \/ End \/ Clear

Spec == Init /\ [][Next]_queueVars

=============================================================================
