---------------------------- MODULE UsbIpImport ----------------------------
(***************************************************************************)
(* usbip.py: _USBIPImportConnection with one native-IIO pipe that is       *)
(* bridged to an IIOD service (_SocketIIODBytePipe).  The session thread   *)
(* takes the host's URBs, the pipe's reader thread what the service sends; *)
(* both answer pending IN URBs (_flush_all).                               *)
(*                                                                         *)
(* A byte is its place in the service's stream.  flush_lock is a variable; *)
(* what is done under state_lock or output_lock is one step.  A removed    *)
(* deque is empty for good, so one queue stands for the endpoint's deques. *)
(* Opening a pipe again is left out.                                       *)
(***************************************************************************)
EXTENDS Integers, Sequences, FiniteSets

CONSTANTS
    Length,         \* bytes that an IN URB asks for
    MaxPending,     \* MAX_PENDING_IN_URBS
    MaxBuffered,    \* MAX_IIOD_BUFFERED_BYTES
    MaxUrbs,        \* bound: IN URBs of the session
    MaxUnlinks,     \* bound: unlink requests
    MaxBytes        \* bound: bytes the service sends

ASSUME ImportAssumption ==
    /\ Length \in Nat \ {0} /\ MaxPending \in Nat \ {0} /\ MaxBuffered \in Nat
    /\ MaxUrbs \in Nat /\ MaxUnlinks \in Nat /\ MaxBytes \in Nat

Threads == {"session", "reader"}
Urbs    == 1 .. MaxUrbs

VARIABLES
    pc,
    urb, data,      \* of each thread: the URB it serves, and the bytes it took
    flushLock,      \* the holder of flush_lock, if any
    pending,        \* the keys of pending
    queue,          \* pending_by_endpoint
    output,         \* what the reader has buffered
    stopEvent,
    open,           \* the pipe is in open_pipes and iio_pipes
    received,       \* bytes received from the service
    left,           \* the reader has left its loop
    submitted,      \* IN URBs submitted
    unlinks,        \* unlink requests
    answers,        \* history: how many RET_SUBMITs each URB had
    unlinked,       \* history: URBs whose unlink was answered with ECONNRESET
    dropped         \* history: URBs for which data was taken and not sent

pipe    == <<output, stopEvent, open, received, left>>
urbVars == <<pending, queue>>
locals  == <<urb, data>>
history == <<submitted, unlinks, answers, unlinked, dropped>>
vars    == <<pc, locals, flushLock, urbVars, pipe, history>>

Init ==
    /\ pc = [t \in Threads |-> IF t = "session" THEN "idle" ELSE "recv"]
    /\ urb = [t \in Threads |-> 0] /\ data = [t \in Threads |-> <<>>]
    /\ flushLock = {} /\ pending = {} /\ queue = <<>>
    /\ output = <<>> /\ stopEvent = FALSE /\ open = TRUE /\ received = 0 /\ left = FALSE
    /\ submitted = 0 /\ unlinks = 0
    /\ answers = [u \in Urbs |-> 0] /\ unlinked = {} /\ dropped = {}

Goto(t, from, to) == pc[t] = from /\ pc' = [pc EXCEPT ![t] = to]

-----------------------------------------------------------------------------
(* bulk_in and the pipe's read: the bytes first, then a look at stop_event.*)

Taken == IF open /\ output # <<>>
         THEN SubSeq(output, 1, IF Len(output) < Length THEN Len(output) ELSE Length)
         ELSE <<>>

TakeBytes(t) ==
    /\ data' = [data EXCEPT ![t] = Taken]
    /\ output' = SubSeq(output, Len(Taken) + 1, Len(output))
    /\ UNCHANGED <<stopEvent, open, received, left>>

\* What was taken, or the EPIPE of a closed pipe, answers the URB.
Answered(t) == data[t] # <<>> \/ stopEvent \/ ~open

\* RET_SUBMIT
SendSubmit(u) ==
    /\ answers' = [answers EXCEPT ![u] = @ + 1]
    /\ UNCHANGED <<submitted, unlinks, unlinked, dropped>>

-----------------------------------------------------------------------------
(* _flush_all, of either thread.                                           *)

\* Bug: two flushes at once.
Unlocked(t) ==
    /\ Goto(t, "flush", "peek")
    /\ UNCHANGED <<flushLock, locals, urbVars, pipe, history>>

AcquireFlush(t) ==
    /\ Goto(t, "flush", "peek")
    /\ flushLock = {} /\ flushLock' = {t}
    /\ UNCHANGED <<locals, urbVars, pipe, history>>

\* A session flushes at the end of a request; a reader's last flush is the
\* end of its thread.
AfterFlush(t) == IF t = "session" THEN "idle" ELSE IF left THEN "done" ELSE "recv"

ReleaseFlush(t) ==
    /\ flushLock' = {}
    /\ pc' = [pc EXCEPT ![t] = AfterFlush(t)]

\* Unlinked URBs at the head are skipped; an empty deque ends the flush.
Peek(t) ==
    /\ pc[t] = "peek"
    /\ \E skipped \in 0 .. Len(queue) :
        /\ \A k \in 1 .. skipped : queue[k] \notin pending
        /\ queue' = SubSeq(queue, skipped + 1, Len(queue))
        /\ \/ /\ skipped = Len(queue)
              /\ ReleaseFlush(t)
              /\ UNCHANGED urb
           \/ /\ skipped < Len(queue) /\ queue[skipped + 1] \in pending
              /\ Goto(t, "peek", "take")
              /\ urb' = [urb EXCEPT ![t] = queue[skipped + 1]]
              /\ UNCHANGED flushLock
    /\ UNCHANGED <<data, pending, pipe, history>>

Take(t) ==
    /\ Goto(t, "take", "check")
    /\ TakeBytes(t)
    /\ UNCHANGED <<urb, flushLock, urbVars, history>>

Check(t) ==
    /\ pc[t] = "check"
    /\ IF Answered(t) THEN Goto(t, "check", "pop") /\ UNCHANGED flushLock ELSE ReleaseFlush(t)
    /\ UNCHANGED <<locals, urbVars, pipe, history>>

\* The URB that was peeked at is still the first one, and still pending.
StillFirst(t)   == queue # <<>> /\ Head(queue) = urb[t]
StillPending(t) == urb[t] \in pending

Pop(t) ==
    /\ pc[t] = "pop"
    /\ queue' = IF StillFirst(t) THEN Tail(queue) ELSE queue
    /\ IF StillFirst(t) /\ StillPending(t)
       THEN /\ Goto(t, "pop", "send")
            /\ pending' = pending \ {urb[t]}
            /\ UNCHANGED history
       ELSE /\ Goto(t, "pop", "peek")
            /\ dropped' = IF data[t] # <<>> THEN dropped \union {urb[t]} ELSE dropped
            /\ UNCHANGED <<pending, submitted, unlinks, answers, unlinked>>
    /\ UNCHANGED <<locals, flushLock, pipe>>

Send(t) ==
    /\ Goto(t, "send", "peek")
    /\ SendSubmit(urb[t])
    /\ UNCHANGED <<locals, flushLock, urbVars, pipe>>

Flush(t) == AcquireFlush(t) \/ Peek(t) \/ Take(t) \/ Check(t) \/ Pop(t) \/ Send(t)

-----------------------------------------------------------------------------
(* The session: run, _submit, _unlink, and the control requests that close *)
(* a pipe.                                                                 *)

\* An IN URB is first read for directly.
SubmitIn ==
    /\ submitted < MaxUrbs
    /\ Goto("session", "idle", "read")
    /\ submitted' = submitted + 1
    /\ urb' = [urb EXCEPT !["session"] = submitted']
    /\ TakeBytes("session")
    /\ UNCHANGED <<flushLock, urbVars, unlinks, answers, unlinked, dropped>>

AnswerAtOnce ==
    /\ Answered("session")
    /\ Goto("session", "read", "idle")
    /\ SendSubmit(urb["session"])
    /\ UNCHANGED <<locals, flushLock, urbVars, pipe>>

NothingYet ==
    /\ ~Answered("session")
    /\ Goto("session", "read", "register")
    /\ UNCHANGED <<locals, flushLock, urbVars, pipe, history>>

\* Bug: data that came after the direct read waits for more.
NoSecondLook == "idle"

\* "Close the race where a backend made data available after the first read."
AfterRegister == "flush"

Register ==
    /\ Cardinality(pending) < MaxPending
    /\ Goto("session", "register", AfterRegister)
    /\ pending' = pending \union {urb["session"]}
    /\ queue' = Append(queue, urb["session"])
    /\ UNCHANGED <<locals, flushLock, pipe, history>>

\* ENOMEM
TooManyPending ==
    /\ Cardinality(pending) >= MaxPending
    /\ Goto("session", "register", "idle")
    /\ SendSubmit(urb["session"])
    /\ UNCHANGED <<locals, flushLock, urbVars, pipe>>

\* An URB is in the deque once.
Without(urbs, u) ==
    IF \E k \in 1 .. Len(urbs) : urbs[k] = u
    THEN LET k == CHOOSE k \in 1 .. Len(urbs) : urbs[k] = u
         IN  SubSeq(urbs, 1, k - 1) \o SubSeq(urbs, k + 1, Len(urbs))
    ELSE urbs

\* ECONNRESET for an URB that was pending, 0 for any other.
Unlink(u) ==
    /\ pc["session"] = "idle" /\ unlinks < MaxUnlinks /\ u <= submitted
    /\ unlinks' = unlinks + 1
    /\ pending' = pending \ {u}
    /\ queue' = IF u \in pending THEN Without(queue, u) ELSE queue
    /\ unlinked' = IF u \in pending THEN unlinked \union {u} ELSE unlinked
    /\ UNCHANGED <<pc, locals, flushLock, pipe, submitted, answers, dropped>>

EndPipe ==
    /\ open' = FALSE /\ stopEvent' = TRUE
    /\ UNCHANGED <<output, received, left>>

ClosePipe ==
    /\ open
    /\ Goto("session", "idle", "flush")
    /\ EndPipe
    /\ UNCHANGED <<locals, flushLock, urbVars, history>>

Disconnect ==
    /\ Goto("session", "idle", "gone")
    /\ pending' = {} /\ queue' = <<>>
    /\ EndPipe
    /\ UNCHANGED <<locals, flushLock, history>>

Request == SubmitIn \/ ClosePipe \/ Disconnect \/ (\E u \in Urbs : Unlink(u))

SessionStep == AnswerAtOnce \/ NothingYet \/ Register \/ TooManyPending \/ Flush("session")

-----------------------------------------------------------------------------
(* The pipe's thread: _reader.                                             *)

Receive ==
    /\ ~stopEvent /\ received < MaxBytes
    /\ Goto("reader", "recv", "append")
    /\ received' = received + 1
    /\ UNCHANGED <<locals, flushLock, urbVars, output, stopEvent, open, left, history>>

\* Beyond the bound the data is dropped and the pipe ends.
Buffer ==
    /\ pc["reader"] = "append"
    /\ IF Len(output) + 1 > MaxBuffered
       THEN Goto("reader", "append", "ending") /\ stopEvent' = TRUE /\ UNCHANGED output
       ELSE Goto("reader", "append", "flush") /\ output' = Append(output, received)
            /\ UNCHANGED stopEvent
    /\ UNCHANGED <<locals, flushLock, urbVars, open, received, left, history>>

\* The service closes the connection.
ServiceEnds ==
    /\ Goto("reader", "recv", "ending")
    /\ UNCHANGED <<locals, flushLock, urbVars, pipe, history>>

\* recv has a timeout: stop_event is seen.
Stopped == stopEvent /\ ServiceEnds

\* "Wake a queued IN URB so backend EOF becomes an EPIPE."
Ending ==
    /\ Goto("reader", "ending", "flush")
    /\ stopEvent' = TRUE /\ left' = TRUE
    /\ UNCHANGED <<locals, flushLock, urbVars, output, open, received, history>>

Service == Receive \/ ServiceEnds

ReaderStep == Buffer \/ Stopped \/ Ending \/ Flush("reader")

-----------------------------------------------------------------------------
Next == Request \/ SessionStep \/ Service \/ ReaderStep

\* The host and the service may do nothing more; the threads go on.
Spec == Init /\ [][Next]_vars /\ WF_vars(SessionStep) /\ WF_vars(ReaderStep)

-----------------------------------------------------------------------------
(* An URB has at most one answer, and none once it was unlinked, however   *)
(* the two threads' flushes and the unlinks interleave; and data that was  *)
(* taken from the stream is only ever dropped for an URB that was unlinked *)
(* during the flush, or at the end of the session (_flush_all, _unlink).   *)
UrbsAnswered ==
    \A u \in Urbs :
        /\ answers[u] <= 1
        /\ u \in unlinked => answers[u] = 0
        /\ u \in dropped => u \in unlinked \/ pc["session"] = "gone"
        /\ u \in pending => answers[u] = 0

(* No URB is forgotten: one that is pending while there is data, or after  *)
(* the pipe has ended, is answered or unlinked unless other URBs take the  *)
(* data ("instead of a request that remains pending forever", usbip.py).   *)
NoneForgotten ==
    LET due == output # <<>> \/ stopEvent \/ ~open
    IN  \A u \in Urbs : (u \in pending /\ due) ~> (u \notin pending \/ ~due)

-----------------------------------------------------------------------------
(* What makes UrbsAnswered inductive.                                      *)

Labels == {"idle", "read", "register", "gone", "recv", "append", "ending", "done",
           "flush", "peek", "take", "check", "pop", "send"}

TypeOK ==
    /\ pc \in [Threads -> Labels]
    /\ urb \in [Threads -> Nat] /\ data \in [Threads -> Seq(Nat)]
    /\ flushLock \in SUBSET Threads
    /\ submitted \in 0 .. MaxUrbs /\ unlinks \in Nat
    /\ pending \in SUBSET (1 .. submitted) /\ queue \in Seq(Nat)
    /\ output \in Seq(Nat) /\ received \in Nat
    /\ stopEvent \in BOOLEAN /\ open \in BOOLEAN /\ left \in BOOLEAN
    /\ answers \in [Urbs -> Nat]
    /\ unlinked \in SUBSET (1 .. submitted) /\ dropped \in SUBSET Urbs

\* The steps of a flush are those of the lock's holder.
OneFlush ==
    \A t \in Threads : pc[t] \in {"peek", "take", "check", "pop", "send"} => flushLock = {t}

\* An URB that is not registered has no answer and was not unlinked, and the
\* other thread does not serve it.
Fresh(u) == u \notin pending /\ u \notin unlinked /\ answers[u] = 0

NewUrbs ==
    /\ \A u \in submitted + 1 .. MaxUrbs : Fresh(u)
    /\ pc["session"] \in {"read", "register"} =>
        urb["session"] = submitted /\ submitted > 0 /\ Fresh(submitted)

\* The URB that is served is the first one that waits, or the host or the end
\* of the session took it away.
ServedFirst ==
    \A t \in Threads :
        pc[t] \in {"take", "check", "pop"} =>
            /\ urb[t] \in 1 .. submitted
            /\ \/ queue # <<>> /\ Head(queue) = urb[t] /\ urb[t] \in pending
               \/ urb[t] \in unlinked
               \/ pc["session"] = "gone"

\* An URB about to be answered is the sender's alone.
Sending ==
    \A t \in Threads :
        pc[t] = "send" =>
            /\ urb[t] \in 1 .. submitted /\ Fresh(urb[t])
            /\ pc["session"] \in {"read", "register"} => urb[t] # submitted

\* An URB that was unlinked is not pending again.
UnlinkedForGood == \A u \in unlinked : u \notin pending

IInv ==
    /\ TypeOK /\ OneFlush /\ NewUrbs /\ ServedFirst /\ Sending /\ UnlinkedForGood
    /\ UrbsAnswered
=============================================================================
