------------------------ MODULE AcceleratorContract ------------------------
(***************************************************************************)
(* What a driver of a P210 accelerator relies on: every start is answered  *)
(* at once by DONE or by ERROR; DONE means that the memory holds the job's *)
(* results, computed from the memory and the registers there were at the   *)
(* start; ERROR means that nothing but the output buffer has changed; and  *)
(* the count of results moves with the results.                            *)
(***************************************************************************)
LOCAL INSTANCE Integers

CONSTANTS
    Job(_, _),      \* the memory after the job that the registers describe
    Output(_)       \* the addresses of the job's output buffer

VARIABLES
    regs, mem,
    status,         \* what STATUS says of the latest start
    serial,         \* results counted
    starts          \* starts written since the latest reset

contractVars == <<regs, mem, status, serial, starts>>

Init == status = "idle" /\ serial = 0 /\ starts = 0

\* The driver programs registers or changes the memory.
Prepare == UNCHANGED <<status, serial, starts>>

Serve ==
    /\ starts' = starts + 1
    /\ status' = "done" /\ serial' = serial + 1
    /\ mem' = Job(regs, mem) /\ regs' = regs

Refuse ==
    /\ starts' = starts + 1
    /\ status' = "failed" /\ serial' = serial /\ regs' = regs
    /\ \A a \in DOMAIN mem \ Output(regs) : mem'[a] = mem[a]

\* The driver takes note of the answer, or resets the accelerator.
Acknowledge ==
    /\ starts' \in {0, starts}
    /\ status' = "idle" /\ serial' \in {0, serial}
    /\ mem' = mem

Next == Prepare \/ Serve \/ Refuse \/ Acknowledge

Spec == Init /\ [][Next]_contractVars
=============================================================================
