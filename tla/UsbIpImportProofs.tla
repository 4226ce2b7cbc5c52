------------------------- MODULE UsbIpImportProofs -------------------------
(***************************************************************************)
(* The two threads of a USB/IP import answer every URB at most once, for   *)
(* any number of URBs, unlinks and bytes, and any limits.                  *)
(***************************************************************************)
EXTENDS UsbIpImport, TLAPS

\* The bytes taken and those left are bytes of the stream.
LEMMA TakenTyped ==
    ASSUME output \in Seq(Nat)
    PROVE  Taken \in Seq(Nat) /\ SubSeq(output, Len(Taken) + 1, Len(output)) \in Seq(Nat)
<1>1. Taken = <<>> \/ \E n \in 0 .. Len(output) : Taken = SubSeq(output, 1, n)
    BY ImportAssumption DEF Taken
<1>2. \A n \in 0 .. Len(output) :
        SubSeq(output, 1, n) \in Seq(Nat) /\ Len(SubSeq(output, 1, n)) = n
    OBVIOUS
<1>3. Taken \in Seq(Nat) /\ Len(Taken) \in 0 .. Len(output)
    <2>1. <<>> \in Seq(Nat) /\ Len(<<>>) = 0 /\ Len(output) \in Nat
        OBVIOUS
    <2>2. CASE Taken = <<>>
        BY <2>1, <2>2
    <2>3. CASE \E n \in 0 .. Len(output) : Taken = SubSeq(output, 1, n)
        <3>1. PICK n \in 0 .. Len(output) : Taken = SubSeq(output, 1, n)
            BY <2>3
        <3> QED
            BY <1>2, <3>1
    <2> QED
        BY <1>1, <2>2, <2>3
<1>4. \A n \in 0 .. Len(output) : SubSeq(output, n + 1, Len(output)) \in Seq(Nat)
    OBVIOUS
<1> QED
    BY <1>3, <1>4

\* Taking an URB that is not the first one out of the deque keeps the first.
LEMMA WithoutKeeps ==
    ASSUME NEW urbs \in Seq(Nat), NEW u
    PROVE  /\ Without(urbs, u) \in Seq(Nat)
           /\ urbs # <<>> /\ Head(urbs) # u =>
                Without(urbs, u) # <<>> /\ Head(Without(urbs, u)) = Head(urbs)
<1>1. CASE \E k \in 1 .. Len(urbs) : urbs[k] = u
    <2> DEFINE k == CHOOSE k \in 1 .. Len(urbs) : urbs[k] = u
               before == SubSeq(urbs, 1, k - 1)
               after  == SubSeq(urbs, k + 1, Len(urbs))
    <2>1. k \in 1 .. Len(urbs) /\ urbs[k] = u
        BY <1>1
    <2>2. Without(urbs, u) = before \o after
        BY <1>1 DEF Without
    <2> HIDE DEF k
    <2>3. before \in Seq(Nat) /\ after \in Seq(Nat) /\ Len(before) = k - 1
        BY <2>1
    <2>4. CASE k = 1
        BY <2>1, <2>2, <2>3, <2>4
    <2>5. CASE k > 1
        <3>1. Len(before) > 0 /\ before[1] = urbs[1]
            BY <2>1, <2>3, <2>5
        <3> HIDE DEF before, after
        <3>2. before \o after \in Seq(Nat) /\ Len(before \o after) > 0 /\ (before \o after)[1] = before[1]
            BY <2>3, <3>1
        <3> QED
            BY <2>1, <2>2, <3>1, <3>2
    <2> QED
        BY <2>1, <2>4, <2>5
<1>2. CASE ~\E k \in 1 .. Len(urbs) : urbs[k] = u
    BY <1>2 DEF Without
<1> QED
    BY <1>1, <1>2

\* The first of a deque stays when another is put behind it.
LEMMA AppendKeeps ==
    ASSUME NEW urbs \in Seq(Nat), NEW u \in Nat
    PROVE  /\ Append(urbs, u) \in Seq(Nat)
           /\ urbs # <<>> => Append(urbs, u) # <<>> /\ Head(Append(urbs, u)) = Head(urbs)
<1>1. Append(urbs, u) \in Seq(Nat) /\ Len(Append(urbs, u)) = Len(urbs) + 1 /\ Len(urbs) \in Nat
    OBVIOUS
<1>2. urbs # <<>> => Append(urbs, u)[1] = urbs[1]
    OBVIOUS
<1> QED
    BY <1>1, <1>2

\* The first of a deque whose first ones were skipped.
LEMMA SkippedHead ==
    ASSUME NEW urbs \in Seq(Nat), NEW n \in 0 .. Len(urbs), n < Len(urbs)
    PROVE  /\ SubSeq(urbs, n + 1, Len(urbs)) # <<>>
           /\ Head(SubSeq(urbs, n + 1, Len(urbs))) = urbs[n + 1]
<1> DEFINE rest == SubSeq(urbs, n + 1, Len(urbs))
<1>1. rest \in Seq(Nat) /\ Len(rest) = Len(urbs) - n /\ Len(urbs) \in Nat
    OBVIOUS
<1>2. rest[1] = urbs[n + 1]
    OBVIOUS
<1> HIDE DEF rest
<1>3. rest # <<>> /\ Head(rest) = rest[1]
    BY <1>1
<1> QED
    BY <1>2, <1>3 DEF rest

\* The state starts as the invariant says.
LEMMA InitInv == Init => IInv
<1> SUFFICES ASSUME Init PROVE IInv
    OBVIOUS
<1>1. <<>> \in Seq(Nat)
    OBVIOUS
<1>2. TypeOK
    <2>1. pc \in [Threads -> Labels]
        BY <1>1, ImportAssumption DEF Init, TypeOK, Labels, Threads
    <2>2. urb \in [Threads -> Nat] /\ data \in [Threads -> Seq(Nat)] /\ flushLock \in SUBSET Threads
        BY <1>1, ImportAssumption DEF Init, TypeOK, Threads
    <2>3. /\ submitted \in 0 .. MaxUrbs /\ unlinks \in Nat
          /\ pending \in SUBSET (1 .. submitted) /\ unlinked \in SUBSET (1 .. submitted)
        BY <1>1, ImportAssumption DEF Init, TypeOK
    <2>4. queue \in Seq(Nat) /\ output \in Seq(Nat) /\ received \in Nat
        BY <1>1, ImportAssumption DEF Init, TypeOK
    <2>5. stopEvent \in BOOLEAN /\ open \in BOOLEAN /\ left \in BOOLEAN
        BY <1>1, ImportAssumption DEF Init, TypeOK
    <2>6. answers \in [Urbs -> Nat] /\ dropped \in SUBSET Urbs
        BY <1>1, ImportAssumption DEF Init, TypeOK, Urbs
    <2> QED
        BY <2>1, <2>2, <2>3, <2>4, <2>5, <2>6 DEF TypeOK
<1>3. OneFlush /\ ServedFirst /\ Sending /\ UnlinkedForGood
    BY DEF Init, Threads, OneFlush, ServedFirst, Sending, UnlinkedForGood
<1>4. NewUrbs /\ UrbsAnswered
    BY ImportAssumption DEF Init, Threads, Urbs, NewUrbs, Fresh, UrbsAnswered
<1> QED
    BY <1>2, <1>3, <1>4 DEF IInv

\* A step that changes nothing of the URBs but where one thread is.
LEMMA MovesOn ==
    ASSUME IInv, NEW t \in Threads, NEW to, pc' = [pc EXCEPT ![t] = to],
           UNCHANGED <<urb, urbVars, history>>,
           pc[t] # "gone" /\ to # "send",
           to \in {"take", "check", "pop"} => pc[t] \in {"take", "check", "pop"},
           to \in {"read", "register"} => pc[t] \in {"read", "register"}
    PROVE  NewUrbs' /\ ServedFirst' /\ Sending' /\ UnlinkedForGood' /\ UrbsAnswered'
<1> USE DEF IInv, urbVars, history
<1>1. pc'[t] = to /\ \A o \in Threads : o # t => pc'[o] = pc[o]
    BY DEF TypeOK
<1>2. "session" \in Threads
    BY DEF Threads
<1>3. NewUrbs'
    BY <1>1, <1>2 DEF NewUrbs, Fresh
<1>4. pc["session"] = "gone" => pc'["session"] = "gone"
    BY <1>1, <1>2
<1>5. ServedFirst'
    BY <1>1, <1>4 DEF ServedFirst
<1>6. Sending'
    BY <1>1, <1>2 DEF Sending, Fresh
<1>7. UnlinkedForGood' /\ UrbsAnswered'
    BY <1>4 DEF UnlinkedForGood, UrbsAnswered
<1> QED
    BY <1>3, <1>5, <1>6, <1>7

\* A step that answers an URB that no thread but the sender has.
LEMMA AnsweredOnce ==
    ASSUME IInv, NEW t \in Threads, NEW to \in {"peek", "idle"},
           pc' = [pc EXCEPT ![t] = to], pc[t] # "gone",
           urb[t] \in 1 .. submitted, Fresh(urb[t]),
           \A o \in Threads : o # t /\ pc[o] = "send" => urb[o] # urb[t],
           t # "session" /\ pc["session"] \in {"read", "register"} => urb[t] # submitted,
           UNCHANGED <<locals, urbVars>>, SendSubmit(urb[t])
    PROVE  /\ NewUrbs' /\ ServedFirst' /\ Sending' /\ UnlinkedForGood' /\ UrbsAnswered'
           /\ answers' \in [Urbs -> Nat]
<1> USE DEF IInv, urbVars, locals
<1>1. pc'[t] = to /\ \A o \in Threads : o # t => pc'[o] = pc[o]
    BY DEF TypeOK
<1>2. "session" \in Threads
    BY DEF Threads
<1>3. /\ urb[t] \in Urbs /\ answers[urb[t]] = 0 /\ urb[t] \notin pending /\ urb[t] \notin unlinked
      /\ answers' = [answers EXCEPT ![urb[t]] = 1] /\ answers' \in [Urbs -> Nat]
      /\ UNCHANGED <<submitted, unlinks, unlinked, dropped>>
    BY ImportAssumption DEF SendSubmit, TypeOK, Fresh, Urbs
<1>4. \A u \in Urbs : u # urb[t] => (Fresh(u) => Fresh(u)')
    BY <1>3 DEF Fresh, TypeOK
<1>5. NewUrbs'
    <2>1. \A u \in submitted + 1 .. MaxUrbs : u \in Urbs /\ u # urb[t]
        BY DEF TypeOK, Urbs
    <2>2. \A u \in submitted' + 1 .. MaxUrbs : Fresh(u)'
        BY <1>3, <1>4, <2>1 DEF NewUrbs
    <2>3. ASSUME pc'["session"] \in {"read", "register"}
          PROVE  urb["session"] = submitted /\ submitted > 0 /\ Fresh(submitted)'
        <3>1. t # "session" /\ pc["session"] \in {"read", "register"}
            BY <1>1, <1>2, <2>3
        <3>2. submitted \in Urbs /\ submitted > 0 /\ urb["session"] = submitted /\ Fresh(submitted)
            BY <3>1 DEF NewUrbs, TypeOK, Urbs
        <3>3. submitted # urb[t]
            BY <3>1
        <3> QED
            BY <1>3, <3>2, <3>3 DEF Fresh, TypeOK
    <2>4. urb' = urb /\ submitted' = submitted
        BY <1>3
    <2> QED
        BY <2>2, <2>3, <2>4 DEF NewUrbs, Fresh
<1>6. pc["session"] = "gone" => pc'["session"] = "gone"
    BY <1>1, <1>2
<1>7. ServedFirst'
    BY <1>1, <1>3, <1>6 DEF ServedFirst
<1>8. Sending'
    <2>1. \A o \in Threads : pc'[o] = "send" =>
            /\ urb[o] \in 1 .. submitted /\ Fresh(urb[o])'
            /\ pc["session"] \in {"read", "register"} => urb[o] # submitted
        <3>1. ASSUME NEW o \in Threads, pc'[o] = "send"
              PROVE  /\ urb[o] \in 1 .. submitted /\ Fresh(urb[o])'
                     /\ pc["session"] \in {"read", "register"} => urb[o] # submitted
            <4>1. o # t
                BY <1>1, <3>1
            <4>2. pc[o] = "send"
                BY <1>1, <3>1, <4>1
            <4>3. urb[o] # urb[t]
                BY <4>1, <4>2
            <4>4. urb[o] \in 1 .. submitted /\ Fresh(urb[o])
                BY <4>2 DEF Sending
            <4>5. Fresh(urb[o])'
                BY <1>3, <4>3, <4>4 DEF Fresh, TypeOK
            <4> QED
                BY <4>2, <4>4, <4>5 DEF Sending
        <3> QED
            BY <3>1
    <2>2. pc'["session"] \in {"read", "register"} => pc["session"] \in {"read", "register"}
        BY <1>1, <1>2
    <2>3. urb' = urb /\ submitted' = submitted
        BY <1>3
    <2> QED
        BY <2>1, <2>2, <2>3 DEF Sending, Fresh
<1>9. UnlinkedForGood' /\ UrbsAnswered'
    BY <1>3, <1>6 DEF UnlinkedForGood, UrbsAnswered, TypeOK
<1> QED
    BY <1>3, <1>5, <1>7, <1>8, <1>9

\* Releasing flush_lock, by its holder.
LEMMA Released ==
    ASSUME IInv, NEW t \in Threads, flushLock = {t}, ReleaseFlush(t)
    PROVE  /\ \E to \in {"idle", "done", "recv"} : pc' = [pc EXCEPT ![t] = to]
           /\ pc' \in [Threads -> Labels] /\ OneFlush'
<1>1. AfterFlush(t) \in {"idle", "done", "recv"} /\ AfterFlush(t) \in Labels
    BY DEF AfterFlush, Labels
<1>2. pc' = [pc EXCEPT ![t] = AfterFlush(t)] /\ pc' \in [Threads -> Labels]
    BY <1>1 DEF ReleaseFlush, IInv, TypeOK
<1>3. OneFlush'
    BY <1>1, <1>2 DEF IInv, TypeOK, OneFlush
<1> QED
    BY <1>1, <1>2, <1>3

\* The steps of a flush, of either thread.
LEMMA FlushStep ==
    ASSUME IInv, NEW t \in Threads, Flush(t)
    PROVE  IInv'
<1> USE ImportAssumption DEF IInv, locals, urbVars, pipe, history, Goto
<1>1. CASE AcquireFlush(t)
    <2>1. /\ pc[t] = "flush" /\ pc' = [pc EXCEPT ![t] = "peek"] /\ flushLock = {} /\ flushLock' = {t}
          /\ UNCHANGED <<locals, urbVars, pipe, history>>
        BY <1>1 DEF AcquireFlush
    <2>2. TypeOK'
        BY <2>1 DEF TypeOK, Labels
    <2>3. OneFlush'
        BY <2>1 DEF TypeOK, OneFlush
    <2> QED
        BY <2>1, <2>2, <2>3, MovesOn
<1>2. CASE Peek(t)
    <2>1. PICK skipped \in 0 .. Len(queue) :
            /\ \A k \in 1 .. skipped : queue[k] \notin pending
            /\ queue' = SubSeq(queue, skipped + 1, Len(queue))
            /\ \/ /\ skipped = Len(queue)
                  /\ ReleaseFlush(t)
                  /\ UNCHANGED urb
               \/ /\ skipped < Len(queue) /\ queue[skipped + 1] \in pending
                  /\ Goto(t, "peek", "take")
                  /\ urb' = [urb EXCEPT ![t] = queue[skipped + 1]]
                  /\ UNCHANGED flushLock
        BY <1>2 DEF Peek
    <2>2. pc[t] = "peek" /\ flushLock = {t} /\ UNCHANGED <<data, pending, pipe, history>>
        BY <1>2 DEF Peek, OneFlush
    <2>3. queue' \in Seq(Nat)
        BY <2>1 DEF TypeOK
    <2>4. \A o \in Threads : o # t => pc[o] \notin {"peek", "take", "check", "pop", "send"}
        BY <2>2 DEF OneFlush
    <2>5. pc["session"] \in {"read", "register"} => t # "session"
        BY <2>2
    <2>6. \E to \in {"idle", "done", "recv", "take"} :
            /\ pc' = [pc EXCEPT ![t] = to] /\ pc' \in [Threads -> Labels] /\ OneFlush'
            /\ flushLock' \in SUBSET Threads
            /\ urb' \in [Threads -> Nat] /\ \A o \in Threads : o # t => urb'[o] = urb[o]
            /\ to = "take" => /\ urb'[t] \in pending /\ queue' # <<>> /\ Head(queue') = urb'[t]
        <3>1. CASE skipped = Len(queue) /\ ReleaseFlush(t) /\ UNCHANGED urb
            <4>1. flushLock' \in SUBSET Threads
                BY <3>1 DEF ReleaseFlush
            <4> QED
                BY <2>2, <3>1, <4>1, Released DEF TypeOK
        <3>2. CASE /\ skipped < Len(queue) /\ queue[skipped + 1] \in pending
                   /\ Goto(t, "peek", "take")
                   /\ urb' = [urb EXCEPT ![t] = queue[skipped + 1]]
                   /\ UNCHANGED flushLock
            <4>1. queue' # <<>> /\ Head(queue') = queue[skipped + 1]
                BY <2>1, <3>2, SkippedHead DEF TypeOK
            <4>2. queue[skipped + 1] \in Nat
                BY <3>2 DEF TypeOK
            <4>3. pc' = [pc EXCEPT ![t] = "take"] /\ pc' \in [Threads -> Labels]
                BY <3>2 DEF TypeOK, Labels
            <4>4. OneFlush'
                BY <2>2, <2>4, <3>2, <4>3 DEF TypeOK, OneFlush
            <4>5. urb' \in [Threads -> Nat] /\ urb'[t] = queue[skipped + 1]
                  /\ \A o \in Threads : o # t => urb'[o] = urb[o]
                BY <3>2, <4>2 DEF TypeOK
            <4> QED
                BY <2>2, <3>2, <4>1, <4>3, <4>4, <4>5 DEF TypeOK
        <3> QED
            BY <2>1, <3>1, <3>2
    <2>7. PICK to \in {"idle", "done", "recv", "take"} :
            /\ pc' = [pc EXCEPT ![t] = to] /\ pc' \in [Threads -> Labels] /\ OneFlush'
            /\ flushLock' \in SUBSET Threads
            /\ urb' \in [Threads -> Nat] /\ \A o \in Threads : o # t => urb'[o] = urb[o]
            /\ to = "take" => /\ urb'[t] \in pending /\ queue' # <<>> /\ Head(queue') = urb'[t]
        BY <2>6
    <2>8. pc'[t] = to /\ (\A o \in Threads : o # t => pc'[o] = pc[o]) /\ "session" \in Threads
        BY <2>7 DEF TypeOK, Threads
    <2>9. TypeOK'
        BY <2>2, <2>3, <2>7 DEF TypeOK
    <2>10. NewUrbs'
        BY <2>2, <2>5, <2>7, <2>8 DEF NewUrbs, Fresh
    <2>11. ServedFirst'
        BY <2>2, <2>4, <2>7, <2>8 DEF ServedFirst, TypeOK
    <2>12. Sending'
        BY <2>2, <2>4, <2>7, <2>8 DEF Sending, Fresh
    <2>13. UnlinkedForGood' /\ UrbsAnswered'
        BY <2>2, <2>8 DEF UnlinkedForGood, UrbsAnswered
    <2> QED
        BY <2>7, <2>9, <2>10, <2>11, <2>12, <2>13
<1>3. CASE Take(t)
    <2>1. data' \in [Threads -> Seq(Nat)] /\ output' \in Seq(Nat)
        BY <1>3, TakenTyped DEF Take, TakeBytes, TypeOK
    <2>2. /\ pc[t] = "take" /\ pc' = [pc EXCEPT ![t] = "check"]
          /\ UNCHANGED <<urb, flushLock, urbVars, history, stopEvent, open, received, left>>
        BY <1>3 DEF Take, TakeBytes
    <2>3. TypeOK'
        BY <2>1, <2>2 DEF TypeOK, Labels
    <2>4. OneFlush'
        BY <2>2 DEF TypeOK, OneFlush
    <2> QED
        BY <2>2, <2>3, <2>4, MovesOn
<1>4. CASE Check(t)
    <2>1. pc[t] = "check" /\ flushLock = {t} /\ UNCHANGED <<locals, urbVars, pipe, history>>
        BY <1>4 DEF Check, OneFlush
    <2>2. CASE Goto(t, "check", "pop") /\ UNCHANGED flushLock
        <3>1. TypeOK'
            BY <2>1, <2>2 DEF TypeOK, Labels
        <3>2. OneFlush'
            BY <2>1, <2>2 DEF TypeOK, OneFlush
        <3> QED
            BY <2>1, <2>2, <3>1, <3>2, MovesOn
    <2>3. CASE ReleaseFlush(t)
        <3>1. PICK to \in {"idle", "done", "recv"} : pc' = [pc EXCEPT ![t] = to]
            BY <2>1, <2>3, Released
        <3>2. pc' \in [Threads -> Labels] /\ OneFlush' /\ flushLock' = {}
            BY <2>1, <2>3, Released DEF ReleaseFlush
        <3>3. TypeOK'
            BY <2>1, <3>2 DEF TypeOK
        <3> QED
            BY <2>1, <3>1, <3>2, <3>3, MovesOn
    <2> QED
        BY <1>4, <2>2, <2>3 DEF Check
<1>5. CASE Pop(t)
    <2>1. pc[t] = "pop" /\ flushLock = {t} /\ UNCHANGED <<locals, flushLock, pipe>>
        BY <1>5 DEF Pop, OneFlush
    <2>2. queue' \in Seq(Nat)
        <3>1. queue # <<>> => Tail(queue) \in Seq(Nat)
            BY DEF TypeOK
        <3> QED
            BY <1>5, <3>1 DEF Pop, StillFirst, TypeOK
    <2>3. \A o \in Threads : o # t => pc[o] \notin {"peek", "take", "check", "pop", "send"}
        BY <2>1 DEF OneFlush
    <2>4. CASE StillFirst(t) /\ StillPending(t)
        <3>1. /\ pc' = [pc EXCEPT ![t] = "send"] /\ pending' = pending \ {urb[t]}
              /\ UNCHANGED <<history, locals, flushLock, pipe>>
            BY <1>5, <2>4 DEF Pop
        <3>2. urb[t] \in 1 .. submitted /\ urb[t] \in pending
            BY <2>4 DEF StillPending, TypeOK
        <3>3. Fresh(urb[t])' /\ \A u \in Urbs : Fresh(u) => Fresh(u)'
            BY <3>1, <3>2 DEF Fresh, UnlinkedForGood, UrbsAnswered, Urbs, TypeOK
        <3>4. pc'["session"] \in {"read", "register"} => pc'["session"] = pc["session"] /\ urb[t] # submitted
            BY <3>1, <3>2 DEF NewUrbs, Fresh, Threads, TypeOK
        <3>5. TypeOK'
            BY <2>2, <3>1 DEF TypeOK, Labels
        <3>6. OneFlush'
            BY <2>1, <2>3, <3>1 DEF TypeOK, OneFlush
        <3>7. NewUrbs'
            BY <3>1, <3>3, <3>4 DEF TypeOK, NewUrbs, Urbs
        <3>8. ServedFirst'
            BY <2>3, <3>1 DEF TypeOK, ServedFirst
        <3>9. Sending'
            BY <2>3, <3>1, <3>2, <3>3, <3>4 DEF TypeOK, Sending
        <3>10. UnlinkedForGood'
            BY <3>1 DEF UnlinkedForGood
        <3>11. pc["session"] = "gone" => pc'["session"] = "gone"
            BY <2>1, <3>1 DEF TypeOK
        <3>12. UrbsAnswered'
            BY <3>1, <3>11 DEF UrbsAnswered
        <3> QED
            BY <3>5, <3>6, <3>7, <3>8, <3>9, <3>10, <3>12
    <2>5. CASE ~(StillFirst(t) /\ StillPending(t))
        <3>1. /\ urb[t] \in 1 .. submitted
              /\ urb[t] \in unlinked \/ pc["session"] = "gone"
            BY <2>1, <2>5 DEF ServedFirst, StillFirst, StillPending
        <3>2. /\ pc' = [pc EXCEPT ![t] = "peek"] /\ dropped' \in {dropped, dropped \union {urb[t]}}
              /\ UNCHANGED <<locals, flushLock, pipe, pending, submitted, unlinks, answers, unlinked>>
            BY <1>5, <2>5 DEF Pop
        <3>3. dropped' \in SUBSET Urbs
            BY <3>1, <3>2 DEF TypeOK, Urbs
        <3>4. TypeOK'
            BY <2>2, <3>2, <3>3 DEF TypeOK, Labels
        <3>5. OneFlush'
            BY <2>1, <2>3, <3>2 DEF TypeOK, OneFlush
        <3>6. NewUrbs'
            BY <3>2 DEF TypeOK, NewUrbs, Fresh
        <3>7. ServedFirst'
            BY <2>3, <3>2 DEF TypeOK, ServedFirst
        <3>8. Sending'
            BY <2>3, <3>2 DEF TypeOK, Sending, Fresh
        <3>9. UnlinkedForGood'
            BY <3>2 DEF UnlinkedForGood
        <3>10. pc["session"] = "gone" => pc'["session"] = "gone"
            BY <2>1, <3>2 DEF TypeOK
        <3>11. UrbsAnswered'
            BY <3>1, <3>2, <3>10 DEF UrbsAnswered
        <3> QED
            BY <3>4, <3>5, <3>6, <3>7, <3>8, <3>9, <3>11
    <2> QED
        BY <2>4, <2>5
<1>6. CASE Send(t)
    <2>1. pc[t] = "send" /\ flushLock = {t} /\ urb[t] \in 1 .. submitted /\ Fresh(urb[t])
        BY <1>6 DEF Send, OneFlush, Sending
    <2>2. /\ pc' = [pc EXCEPT ![t] = "peek"] /\ SendSubmit(urb[t])
          /\ UNCHANGED <<locals, flushLock, urbVars, pipe>>
        BY <1>6 DEF Send
    <2>3. \A o \in Threads : o # t => pc[o] # "send"
        BY <2>1 DEF OneFlush
    <2>4. pc["session"] \in {"read", "register"} => urb[t] # submitted
        BY <2>1 DEF Sending
    <2>5. /\ NewUrbs' /\ ServedFirst' /\ Sending' /\ UnlinkedForGood' /\ UrbsAnswered'
          /\ answers' \in [Urbs -> Nat]
        BY <2>1, <2>2, <2>3, <2>4, AnsweredOnce
    <2>6. TypeOK'
        BY <2>2, <2>5 DEF SendSubmit, TypeOK, Labels
    <2>7. OneFlush'
        BY <2>1, <2>2 DEF TypeOK, OneFlush
    <2> QED
        BY <2>5, <2>6, <2>7
<1> QED
    BY <1>1, <1>2, <1>3, <1>4, <1>5, <1>6 DEF Flush

\* The steps of the session outside a flush.
LEMMA SessionStepInv ==
    ASSUME IInv, Request \/ AnswerAtOnce \/ NothingYet \/ Register \/ TooManyPending
    PROVE  IInv'
<1> USE ImportAssumption DEF IInv, locals, urbVars, pipe, history, Goto
<1>0. "session" \in Threads
    BY DEF Threads
<1>1. CASE SubmitIn
    <2>1. data' \in [Threads -> Seq(Nat)] /\ output' \in Seq(Nat)
        BY <1>1, TakenTyped DEF SubmitIn, TakeBytes, TypeOK
    <2>2. /\ pc["session"] = "idle" /\ pc' = [pc EXCEPT !["session"] = "read"]
          /\ submitted < MaxUrbs /\ submitted' = submitted + 1
          /\ urb' = [urb EXCEPT !["session"] = submitted + 1]
          /\ UNCHANGED <<flushLock, urbVars, unlinks, answers, unlinked, dropped>>
          /\ UNCHANGED <<stopEvent, open, received, left>>
        BY <1>1 DEF SubmitIn, TakeBytes
    <2>3. /\ pc'["session"] = "read" /\ urb'["session"] = submitted + 1
          /\ \A o \in Threads : o # "session" => pc'[o] = pc[o] /\ urb'[o] = urb[o]
        BY <1>0, <2>2 DEF TypeOK
    <2>4. submitted + 1 \in submitted + 1 .. MaxUrbs /\ 1 .. submitted \subseteq 1 .. submitted + 1
        BY <2>2 DEF TypeOK
    <2>5. Fresh(submitted + 1)
        BY <2>4 DEF NewUrbs
    <2>6. TypeOK'
        <3>1. urb' \in [Threads -> Nat] /\ submitted' \in 0 .. MaxUrbs
            <4>1. submitted + 1 \in Nat /\ submitted + 1 \in 0 .. MaxUrbs
                BY <2>2 DEF TypeOK
            <4> QED
                BY <2>2, <4>1 DEF TypeOK
        <3>2. pending' \in SUBSET (1 .. submitted') /\ unlinked' \in SUBSET (1 .. submitted')
            BY <2>2, <2>4 DEF TypeOK
        <3> QED
            BY <2>1, <2>2, <3>1, <3>2 DEF TypeOK, Labels
    <2>7. OneFlush' /\ UnlinkedForGood'
        BY <2>2, <2>3 DEF OneFlush, UnlinkedForGood
    <2>8. NewUrbs'
        <3>1. \A u \in submitted' + 1 .. MaxUrbs : u \in submitted + 1 .. MaxUrbs
            BY <2>2 DEF TypeOK
        <3>2. \A u : Fresh(u) => Fresh(u)'
            BY <2>2 DEF Fresh
        <3>3. submitted' > 0
            BY <2>2 DEF TypeOK
        <3> QED
            BY <2>2, <2>3, <2>5, <3>1, <3>2, <3>3 DEF NewUrbs
    <2>9. ServedFirst'
        BY <2>2, <2>3, <2>4 DEF ServedFirst
    <2>10. Sending'
        <3>1. ASSUME NEW o \in Threads, pc'[o] = "send"
              PROVE  /\ urb'[o] = urb[o] /\ urb[o] \in 1 .. submitted + 1
                     /\ urb[o] # submitted + 1 /\ Fresh(urb[o])'
            <4>1. o # "session" /\ pc[o] = "send" /\ urb'[o] = urb[o]
                BY <2>3, <3>1
            <4>2. urb[o] \in 1 .. submitted /\ Fresh(urb[o])
                BY <4>1 DEF Sending
            <4>3. urb[o] # submitted + 1
                BY <4>2 DEF TypeOK
            <4> QED
                BY <2>2, <2>4, <4>1, <4>2, <4>3 DEF Fresh
        <3> QED
            BY <2>2, <3>1 DEF Sending, Fresh
    <2>11. UrbsAnswered'
        BY <2>2, <2>3 DEF UrbsAnswered
    <2> QED
        BY <2>6, <2>7, <2>8, <2>9, <2>10, <2>11
<1>2. CASE ClosePipe
    <2>1. /\ pc["session"] = "idle" /\ pc' = [pc EXCEPT !["session"] = "flush"]
          /\ open' = FALSE /\ stopEvent' = TRUE
          /\ UNCHANGED <<locals, flushLock, urbVars, history, output, received, left>>
        BY <1>2 DEF ClosePipe, EndPipe
    <2>2. TypeOK'
        BY <2>1 DEF TypeOK, Labels
    <2>3. OneFlush'
        BY <2>1 DEF TypeOK, OneFlush
    <2> QED
        BY <1>0, <2>1, <2>2, <2>3, MovesOn
<1>3. CASE Disconnect
    <2>1. /\ pc["session"] = "idle" /\ pc' = [pc EXCEPT !["session"] = "gone"]
          /\ pending' = {} /\ queue' = <<>> /\ open' = FALSE /\ stopEvent' = TRUE
          /\ UNCHANGED <<locals, flushLock, history, output, received, left>>
        BY <1>3 DEF Disconnect, EndPipe
    <2>2. pc'["session"] = "gone" /\ \A o \in Threads : o # "session" => pc'[o] = pc[o]
        BY <1>0, <2>1 DEF TypeOK
    <2>3. <<>> \in Seq(Nat)
        OBVIOUS
    <2>4. TypeOK'
        BY <2>1, <2>3 DEF TypeOK, Labels
    <2>5. OneFlush'
        BY <2>1, <2>2 DEF OneFlush
    <2>6. NewUrbs'
        BY <2>1, <2>2 DEF NewUrbs, Fresh
    <2>7. ServedFirst'
        BY <2>1, <2>2 DEF ServedFirst
    <2>8. Sending'
        BY <2>1, <2>2 DEF Sending, Fresh
    <2>9. UnlinkedForGood' /\ UrbsAnswered'
        BY <2>1, <2>2 DEF UnlinkedForGood, UrbsAnswered
    <2> QED
        BY <2>4, <2>5, <2>6, <2>7, <2>8, <2>9
<1>4. ASSUME NEW u \in Urbs, Unlink(u) PROVE IInv'
    <2>1. /\ queue' \in Seq(Nat)
          /\ queue # <<>> /\ Head(queue) # u => queue' # <<>> /\ Head(queue') = Head(queue)
        BY <1>4, WithoutKeeps DEF Unlink, TypeOK
    <2>2. /\ pending' = pending \ {u}
          /\ unlinked' = IF u \in pending THEN unlinked \union {u} ELSE unlinked
          /\ u \notin pending => queue' = queue
          /\ pc["session"] = "idle" /\ unlinks' = unlinks + 1
          /\ UNCHANGED <<pc, locals, flushLock, pipe, submitted, answers, dropped>>
        BY <1>4 DEF Unlink
    <2>3. ServedFirst'
        BY <2>1, <2>2 DEF ServedFirst, TypeOK, Threads
    <2>4. TypeOK' /\ OneFlush' /\ UnlinkedForGood'
        <3>1. pending' \in SUBSET (1 .. submitted') /\ unlinked' \in SUBSET (1 .. submitted')
            BY <2>2 DEF TypeOK
        <3>2. TypeOK'
            BY <2>1, <2>2, <3>1 DEF TypeOK
        <3>3. OneFlush'
            BY <2>2 DEF OneFlush
        <3>4. UnlinkedForGood'
            BY <2>2 DEF UnlinkedForGood
        <3> QED
            BY <3>2, <3>3, <3>4
    <2>5. NewUrbs' /\ Sending'
        BY <2>2 DEF TypeOK, NewUrbs, Fresh, Sending, Threads
    <2>6. UrbsAnswered'
        BY <2>2 DEF UrbsAnswered
    <2> QED
        BY <2>3, <2>4, <2>5, <2>6
<1>5. CASE AnswerAtOnce \/ TooManyPending
    <2>1. /\ pc["session"] \in {"read", "register"} /\ pc' = [pc EXCEPT !["session"] = "idle"]
          /\ SendSubmit(urb["session"]) /\ UNCHANGED <<locals, flushLock, urbVars, pipe>>
        BY <1>5 DEF AnswerAtOnce, TooManyPending
    <2>2. urb["session"] = submitted /\ submitted \in 1 .. submitted /\ Fresh(submitted)
        BY <2>1 DEF NewUrbs, TypeOK
    <2>3. \A o \in Threads : pc[o] = "send" => urb[o] # submitted
        BY <2>1 DEF Sending
    <2>4. /\ NewUrbs' /\ ServedFirst' /\ Sending' /\ UnlinkedForGood' /\ UrbsAnswered'
          /\ answers' \in [Urbs -> Nat]
        <3> DEFINE t == "session"
        <3>1. urb[t] \in 1 .. submitted /\ Fresh(urb[t]) /\ pc[t] # "gone"
            BY <2>1, <2>2
        <3>2. \A o \in Threads : o # t /\ pc[o] = "send" => urb[o] # urb[t]
            BY <2>2, <2>3
        <3> QED
            BY <1>0, <2>1, <3>1, <3>2, AnsweredOnce
    <2>5. TypeOK'
        BY <2>1, <2>4 DEF SendSubmit, TypeOK, Labels
    <2>6. OneFlush'
        BY <2>1 DEF TypeOK, OneFlush
    <2> QED
        BY <2>4, <2>5, <2>6
<1>6. CASE NothingYet
    <2>1. /\ pc["session"] = "read" /\ pc' = [pc EXCEPT !["session"] = "register"]
          /\ UNCHANGED <<locals, flushLock, urbVars, pipe, history>>
        BY <1>6 DEF NothingYet
    <2>2. TypeOK'
        BY <2>1 DEF TypeOK, Labels
    <2>3. OneFlush'
        BY <2>1 DEF TypeOK, OneFlush
    <2> QED
        BY <1>0, <2>1, <2>2, <2>3, MovesOn
<1>7. CASE Register
    <2>1. /\ pc["session"] = "register" /\ urb["session"] = submitted /\ submitted > 0
          /\ Fresh(submitted)
        BY <1>7 DEF Register, NewUrbs
    <2>2. /\ pending' = pending \union {submitted} /\ queue' = Append(queue, submitted)
          /\ pc' = [pc EXCEPT !["session"] = "flush"]
          /\ UNCHANGED <<locals, flushLock, pipe, history>>
        BY <1>7, <2>1 DEF Register, AfterRegister
    <2>3. queue' \in Seq(Nat) /\ (queue # <<>> => queue' # <<>> /\ Head(queue') = Head(queue))
        BY <2>2, AppendKeeps DEF TypeOK
    <2>4. pc'["session"] = "flush" /\ \A o \in Threads : o # "session" => pc'[o] = pc[o]
        BY <1>0, <2>2 DEF TypeOK
    <2>5. TypeOK'
        <3>1. pending' \in SUBSET (1 .. submitted)
            BY <2>1, <2>2 DEF TypeOK
        <3> QED
            BY <2>2, <2>3, <3>1 DEF TypeOK, Labels
    <2>6. OneFlush'
        BY <2>2, <2>4 DEF OneFlush
    <2>7. NewUrbs'
        <3>1. \A u \in submitted + 1 .. MaxUrbs : u # submitted
            BY DEF TypeOK
        <3> QED
            BY <2>2, <2>4, <3>1 DEF NewUrbs, Fresh
    <2>8. ServedFirst'
        BY <2>1, <2>2, <2>3, <2>4 DEF ServedFirst
    <2>9. Sending'
        BY <2>1, <2>2, <2>4 DEF Sending, Fresh
    <2>10. UnlinkedForGood' /\ UrbsAnswered'
        BY <2>1, <2>2, <2>4 DEF UnlinkedForGood, UrbsAnswered, Fresh
    <2> QED
        BY <2>5, <2>6, <2>7, <2>8, <2>9, <2>10
<1> QED
    BY <1>1, <1>2, <1>3, <1>4, <1>5, <1>6, <1>7 DEF Request

\* The steps of the pipe's thread outside a flush, and of the service.
LEMMA ReaderStepInv ==
    ASSUME IInv, Service \/ Buffer \/ Stopped \/ Ending
    PROVE  IInv'
<1> USE ImportAssumption DEF IInv, locals, urbVars, pipe, history, Goto
<1>1. "reader" \in Threads
    BY DEF Threads
<1>2. \E to \in {"append", "ending", "flush"} :
        /\ pc' = [pc EXCEPT !["reader"] = to] /\ pc["reader"] \in {"recv", "append", "ending"}
        /\ UNCHANGED <<locals, flushLock, urbVars, open, history>>
    BY DEF Service, Receive, ServiceEnds, Buffer, Stopped, Ending
<1>3. PICK to \in {"append", "ending", "flush"} :
        /\ pc' = [pc EXCEPT !["reader"] = to] /\ pc["reader"] \in {"recv", "append", "ending"}
        /\ UNCHANGED <<locals, flushLock, urbVars, open, history>>
    BY <1>2
<1>4. Append(output, received) \in Seq(Nat)
    BY DEF TypeOK
<1>5. /\ output' \in Seq(Nat) /\ received' \in Nat
      /\ stopEvent' \in BOOLEAN /\ left' \in BOOLEAN
    <2>1. CASE Receive \/ ServiceEnds \/ Stopped
        BY <2>1 DEF Receive, ServiceEnds, Stopped, TypeOK
    <2>2. CASE Buffer
        BY <1>4, <2>2 DEF Buffer, TypeOK
    <2>3. CASE Ending
        BY <2>3 DEF Ending, TypeOK
    <2> QED
        BY <2>1, <2>2, <2>3 DEF Service
<1>6. pc' \in [Threads -> Labels]
    BY <1>3 DEF TypeOK, Labels
<1>7. TypeOK'
    BY <1>3, <1>5, <1>6 DEF TypeOK
<1>8. OneFlush'
    BY <1>3 DEF TypeOK, OneFlush
<1> QED
    BY <1>1, <1>3, <1>7, <1>8, MovesOn

\* The invariant is inductive.
LEMMA NextInv == IInv /\ [Next]_vars => IInv'
<1> SUFFICES ASSUME IInv, [Next]_vars PROVE IInv'
    OBVIOUS
<1>1. CASE Next
    BY <1>1, FlushStep, SessionStepInv, ReaderStepInv DEF Next, SessionStep, ReaderStep, Threads
<1>2. CASE UNCHANGED vars
    BY <1>2 DEF vars, locals, urbVars, pipe, history, IInv, TypeOK, OneFlush, NewUrbs, Fresh,
       ServedFirst, Sending, UnlinkedForGood, UrbsAnswered
<1> QED
    BY <1>1, <1>2

\* It holds in every reachable state.
THEOREM ImportInvariant == Spec => []IInv
BY InitInv, NextInv, PTL DEF Spec

\* Every URB has at most one answer and none after its unlink, and data is
\* dropped only for an URB that was unlinked or at the end of the session,
\* however the flushes of the two threads and the unlinks interleave.
THEOREM UrbsAnsweredOnce == Spec => []UrbsAnswered
<1>1. IInv => UrbsAnswered
    BY DEF IInv
<1> QED
    BY <1>1, ImportInvariant, PTL

=============================================================================
