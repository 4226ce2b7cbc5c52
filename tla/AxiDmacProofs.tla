--------------------------- MODULE AxiDmacProofs ---------------------------
(* Proofs about AxiDmac: IInv is inductive.                                *)
EXTENDS AxiDmac, TLAPS

(***************************************************************************)
(* Identifiers: remainders by the depth.                                   *)
(***************************************************************************)

\* A remainder is an identifier.
LEMMA ModRange ==
    ASSUME NEW a \in Nat, NEW d \in Nat \ {0}
    PROVE  a % d \in 0 .. d - 1
BY SMT

\* Division with remainder, in both directions.
LEMMA DivMod ==
    ASSUME NEW a \in Nat, NEW d \in Nat \ {0}
    PROVE  a \div d \in Int /\ a = d * (a \div d) + (a % d)
BY SMT

LEMMA ModOfSum ==
    ASSUME NEW d \in Nat \ {0}, NEW q \in Int, NEW r \in 0 .. d - 1
    PROVE  (d * q + r) % d = r
BY SMTT(30)

\* Incrementing an identifier, as TRANSFER_ID is, counts modulo the depth.
LEMMA ModNext ==
    ASSUME NEW a \in Nat, NEW d \in Nat \ {0}
    PROVE  ((a % d) + 1) % d = (a + 1) % d
<1> DEFINE q == a \div d
           r == a % d
<1>1. q \in Int /\ r \in 0 .. d - 1 /\ a = d * q + r
    BY ModRange, DivMod
<1> HIDE DEF q, r
<1>2. CASE r + 1 < d
    <2>1. (d * q + (r + 1)) % d = r + 1
        BY <1>1, <1>2, ModOfSum
    <2>2. (d * 0 + (r + 1)) % d = r + 1
        BY <1>1, <1>2, ModOfSum
    <2>3. d * q + (r + 1) = a + 1 /\ d * 0 + (r + 1) = r + 1
        BY <1>1
    <2> QED
        BY <2>1, <2>2, <2>3 DEF r
<1>3. CASE r + 1 = d
    <2>1. (d * (q + 1) + 0) % d = 0
        BY <1>1, ModOfSum
    <2>2. (d * 1 + 0) % d = 0
        BY ModOfSum
    <2>3. d * (q + 1) + 0 = a + 1 /\ d * 1 + 0 = r + 1
        BY <1>1, <1>3
    <2> QED
        BY <2>1, <2>2, <2>3 DEF r
<1> QED
    BY <1>1, <1>2, <1>3

\* Fewer than d numbers in a row have different remainders.
LEMMA ModDistinct ==
    ASSUME NEW a \in Nat, NEW b \in Nat, NEW d \in Nat \ {0},
           a < b, b < a + d
    PROVE  a % d # b % d
<1> DEFINE q == b \div d - a \div d
<1>1. a \div d \in Int /\ b \div d \in Int
      /\ a = d * (a \div d) + (a % d) /\ b = d * (b \div d) + (b % d)
      /\ a % d \in Int /\ b % d \in Int
    BY ModRange, DivMod
<1>2. SUFFICES ASSUME a % d = b % d PROVE FALSE
    OBVIOUS
<1>3. q \in Int /\ b - a = d * q
    BY <1>1, <1>2
<1> HIDE DEF q
<1>4. CASE q <= 0
    <2>1. d * q <= 0
        BY <1>3, <1>4
    <2> QED
        BY <2>1, <1>3
<1>5. CASE q >= 1
    <2>1. d * q >= d
        BY <1>3, <1>5
    <2> QED
        BY <2>1, <1>3
<1> QED
    BY <1>3, <1>4, <1>5

(***************************************************************************)
(* The queue.                                                              *)
(***************************************************************************)

\* FifoOrder of a queue q, with f transfers finished, n issued and id next.
Ordered(q, f, n, id) ==
    /\ q = << >> => n = f
    /\ q # << >> => Head(q).n = f + 1 /\ After(q[Len(q)]) = n + 1
    /\ \A i \in 1 .. Len(q) - 1 : q[i + 1].n = After(q[i])
    /\ \A i, j \in 1 .. Len(q) : i < j => After(q[i]) <= q[j].n
    /\ \A i \in 1 .. Len(q) :
          /\ q[i].n \in f + 1 .. f + i
          /\ q[i].id = (q[i].n - 1) % Depth
    /\ id = n % Depth

LEMMA FifoIsOrdered == FifoOrder <=> Ordered(queue, finished, issued, nextId)
BY DEF FifoOrder, Ordered

\* No more transfers are in flight than there are in the queue.
LEMMA InFlight ==
    ASSUME NEW q \in Seq(Descriptor), NEW f \in Nat, NEW n \in Nat, NEW id \in Ids,
           Ordered(q, f, n, id)
    PROVE  n \in f .. f + Len(q)
<1>1. CASE q = << >>
    BY <1>1 DEF Ordered
<1>2. CASE q # << >>
    <2>1. Len(q) \in 1 .. Len(q) /\ q[Len(q)] \in Descriptor
        BY <1>2
    <2>2. After(q[Len(q)]) = n + 1 /\ q[Len(q)].n \in f + 1 .. f + Len(q)
        BY <1>2, <2>1 DEF Ordered
    <2>3. After(q[Len(q)]) \in {q[Len(q)].n, q[Len(q)].n + 1}
        BY DEF After
    <2> QED
        BY <2>1, <2>2, <2>3
<1> QED
    BY <1>1, <1>2

\* Retiring a head that is not cyclic keeps the rest in order.
LEMMA TailOrdered ==
    ASSUME NEW q \in Seq(Descriptor), NEW f \in Nat, NEW n \in Nat, NEW id \in Ids,
           Ordered(q, f, n, id), q # << >>, ~Head(q).cyclic
    PROVE  Ordered(Tail(q), f + 1, n, id) /\ Head(q).id = f % Depth /\ f < n
<1> DEFINE t == Tail(q)
<1>1. /\ t \in Seq(Descriptor) /\ Len(t) = Len(q) - 1
      /\ \A i \in 1 .. Len(t) : t[i] = q[i + 1]
      /\ Head(q) = q[1] /\ Len(q) \in Nat \ {0}
    OBVIOUS
<1>2. \A i \in 1 .. Len(q) : q[i].n \in Nat
    <2>1. \A i \in 1 .. Len(q) : q[i] \in Descriptor
        OBVIOUS
    <2>2. \A d \in Descriptor : d.n \in Nat
        BY DEF Descriptor
    <2> QED
        BY <2>1, <2>2
<1>3. q[1].n = f + 1 /\ After(q[1]) = f + 2
    BY <1>1 DEF Ordered, After
<1>4. Head(q).id = f % Depth
    BY <1>1, <1>3 DEF Ordered
<1> HIDE DEF t
<1>5. CASE Len(q) = 1
    <2>1. t = << >> /\ Len(t) = 0
        BY <1>1, <1>5
    <2>2. n = f + 1
        <3>1. After(q[1]) = n + 1
            BY <1>1, <1>5 DEF Ordered
        <3> QED
            BY <1>3, <3>1
    <2>3. id = n % Depth
        BY DEF Ordered
    <2>4. Ordered(t, f + 1, n, id)
        BY <2>1, <2>2, <2>3 DEF Ordered
    <2> QED
        BY <1>4, <2>2, <2>4 DEF t
<1>6. CASE Len(q) > 1
    <2>1. t # << >> /\ Head(t) = q[2] /\ t[Len(t)] = q[Len(q)]
        BY <1>1, <1>6
    <2>2. q[2].n = f + 2
        BY <1>1, <1>3, <1>6 DEF Ordered
    <2>3. After(t[Len(t)]) = n + 1
        BY <2>1 DEF Ordered
    <2>4. \A i \in 1 .. Len(t) - 1 : t[i + 1].n = After(t[i])
        <3>1. SUFFICES ASSUME NEW i \in 1 .. Len(t) - 1
                       PROVE  t[i + 1].n = After(t[i])
            OBVIOUS
        <3>2. /\ i + 1 \in 1 .. Len(q) - 1
              /\ t[i] = q[i + 1] /\ t[i + 1] = q[i + 1 + 1]
            BY <1>1
        <3>3. q[i + 1 + 1].n = After(q[i + 1])
            BY <3>2 DEF Ordered
        <3> QED
            BY <3>2, <3>3
    <2>5. \A i, j \in 1 .. Len(t) : i < j => After(t[i]) <= t[j].n
        <3>1. SUFFICES ASSUME NEW i \in 1 .. Len(t), NEW j \in 1 .. Len(t), i < j
                       PROVE  After(t[i]) <= t[j].n
            OBVIOUS
        <3>2. /\ i + 1 \in 1 .. Len(q) /\ j + 1 \in 1 .. Len(q) /\ i + 1 < j + 1
              /\ t[i] = q[i + 1] /\ t[j] = q[j + 1]
            BY <1>1, <3>1
        <3>3. After(q[i + 1]) <= q[j + 1].n
            BY <3>2 DEF Ordered
        <3> QED
            BY <3>2, <3>3
    <2>6. \A i \in 1 .. Len(t) : t[i].n \in f + 1 + 1 .. f + 1 + i
        <3>1. SUFFICES ASSUME NEW i \in 1 .. Len(t)
                       PROVE  t[i].n \in f + 1 + 1 .. f + 1 + i
            OBVIOUS
        <3>2. t[i] = q[i + 1] /\ i + 1 \in 1 .. Len(q)
            BY <1>1
        <3>3. q[i + 1].n \in f + 1 .. f + (i + 1)
            BY <3>2 DEF Ordered
        <3>4. 1 \in 1 .. Len(q) /\ 1 < i + 1
            BY <1>1
        <3>5. After(q[1]) <= q[i + 1].n
            BY <3>2, <3>4 DEF Ordered
        <3> QED
            BY <1>3, <3>2, <3>3, <3>5
    <2>7. \A i \in 1 .. Len(t) : t[i].id = (t[i].n - 1) % Depth
        <3>1. SUFFICES ASSUME NEW i \in 1 .. Len(t)
                       PROVE  t[i].id = (t[i].n - 1) % Depth
            OBVIOUS
        <3>2. t[i] = q[i + 1] /\ i + 1 \in 1 .. Len(q)
            BY <1>1
        <3>3. q[i + 1].id = (q[i + 1].n - 1) % Depth
            BY <3>2 DEF Ordered
        <3> QED
            BY <3>2, <3>3
    <2>8. f < n
        <3>1. Len(t) \in 1 .. Len(t)
            BY <1>1, <1>6
        <3>2. t[Len(t)].n \in f + 2 .. f + 1 + Len(t)
            BY <2>6, <3>1
        <3>3. After(t[Len(t)]) \in {t[Len(t)].n, t[Len(t)].n + 1}
            BY DEF After
        <3> QED
            BY <2>3, <3>2, <3>3
    <2>9. id = n % Depth
        BY DEF Ordered
    <2>10. Head(t).n = f + 1 + 1
        BY <2>1, <2>2
    <2>11. Ordered(t, f + 1, n, id)
        BY <2>1, <2>3, <2>4, <2>5, <2>6, <2>7, <2>9, <2>10 DEF Ordered
    <2> QED
        BY <1>4, <2>8, <2>11 DEF t
<1> QED
    BY <1>1, <1>5, <1>6

\* Accepting a transfer with the next identifier keeps the queue in order.
LEMMA AppendOrdered ==
    ASSUME NEW q \in Seq(Descriptor), NEW f \in Nat, NEW n \in Nat, NEW id \in Ids,
           Ordered(q, f, n, id),
           NEW d \in Descriptor, d.n = n + 1, d.id = id
    PROVE  Ordered(Append(q, d), f, IF d.cyclic THEN n ELSE n + 1,
                   IF d.cyclic THEN id ELSE (id + 1) % Depth)
<1> DEFINE a == Append(q, d)
           m == IF d.cyclic THEN n ELSE n + 1
           next == IF d.cyclic THEN id ELSE (id + 1) % Depth
<1>1. /\ a \in Seq(Descriptor) /\ Len(a) = Len(q) + 1 /\ Len(q) \in Nat
      /\ \A i \in 1 .. Len(q) : a[i] = q[i]
      /\ a[Len(a)] = d
    OBVIOUS
<1>2. n \in f .. f + Len(q)
    BY InFlight
<1>3. id = n % Depth
    BY DEF Ordered
<1>4. next = m % Depth
    BY <1>3, ModNext, DmacAssumption
<1>5. After(d) = m + 1
    BY DEF After
<1>6. \A i \in 1 .. Len(q) : After(q[i]) <= n + 1
    <2>1. SUFFICES ASSUME NEW i \in 1 .. Len(q) PROVE After(q[i]) <= n + 1
        OBVIOUS
    <2>2. Len(q) \in 1 .. Len(q) /\ q # << >>
        BY <1>1
    <2>3. After(q[Len(q)]) = n + 1
        BY <2>2 DEF Ordered
    <2>4. q[Len(q)] \in Descriptor
        BY <2>2
    <2>5. q[Len(q)].n \in Int
        BY <2>4 DEF Descriptor
    <2>6. q[Len(q)].n <= n + 1
        BY <2>3, <2>5 DEF After
    <2>7. CASE i < Len(q)
        <3>1. After(q[i]) <= q[Len(q)].n
            BY <2>2, <2>7 DEF Ordered
        <3>2. q[i] \in Descriptor
            OBVIOUS
        <3>3. After(q[i]) \in Int
            BY <3>2 DEF After, Descriptor
        <3> QED
            BY <2>5, <2>6, <3>1, <3>3
    <2> QED
        BY <1>1, <2>3, <2>7
<1> HIDE DEF a, m, next
<1>7. a # << >> /\ Head(a) = a[1]
    BY <1>1
<1>8. a[1].n = f + 1
    <2>1. CASE q = << >>
        <3>1. Len(q) = 0 /\ a[1] = d
            BY <1>1, <2>1
        <3>2. n = f
            BY <2>1 DEF Ordered
        <3> QED
            BY <3>1, <3>2
    <2>2. CASE q # << >>
        <3>1. 1 \in 1 .. Len(q) /\ Head(q) = q[1]
            BY <1>1, <2>2
        <3>2. Head(q).n = f + 1
            BY <2>2 DEF Ordered
        <3> QED
            BY <1>1, <3>1, <3>2
    <2> QED
        BY <2>1, <2>2
<1>9. \A i \in 1 .. Len(a) - 1 : a[i + 1].n = After(a[i])
    <2>1. SUFFICES ASSUME NEW i \in 1 .. Len(q) PROVE a[i + 1].n = After(q[i])
        BY <1>1
    <2>2. CASE i = Len(q)
        <3>1. q # << >> /\ a[i + 1] = d
            BY <1>1, <2>2
        <3> QED
            BY <2>2, <3>1 DEF Ordered
    <2>3. CASE i < Len(q)
        <3>1. i \in 1 .. Len(q) - 1 /\ a[i + 1] = q[i + 1]
            BY <1>1, <2>3
        <3> QED
            BY <3>1 DEF Ordered
    <2> QED
        BY <1>1, <2>2, <2>3
<1>10. \A i, j \in 1 .. Len(a) : i < j => After(a[i]) <= a[j].n
    <2>1. SUFFICES ASSUME NEW i \in 1 .. Len(a), NEW j \in 1 .. Len(a), i < j
                   PROVE  After(a[i]) <= a[j].n
        OBVIOUS
    <2>2. i \in 1 .. Len(q) /\ a[i] = q[i]
        BY <1>1, <2>1
    <2>3. CASE j = Len(a)
        BY <1>1, <1>6, <2>2, <2>3
    <2>4. CASE j < Len(a)
        <3>1. j \in 1 .. Len(q) /\ a[j] = q[j]
            BY <1>1, <2>4
        <3> QED
            BY <2>1, <2>2, <3>1 DEF Ordered
    <2> QED
        BY <1>1, <2>3, <2>4
<1>11. \A i \in 1 .. Len(a) : /\ a[i].n \in f + 1 .. f + i
                              /\ a[i].id = (a[i].n - 1) % Depth
    <2>1. SUFFICES ASSUME NEW i \in 1 .. Len(a)
                   PROVE  /\ a[i].n \in f + 1 .. f + i
                          /\ a[i].id = (a[i].n - 1) % Depth
        OBVIOUS
    <2>2. CASE i = Len(a)
        <3>1. d.n \in f + 1 .. f + Len(a)
            BY <1>1, <1>2
        <3>2. d.id = (d.n - 1) % Depth
            BY <1>3
        <3> QED
            BY <1>1, <2>2, <3>1, <3>2
    <2>3. CASE i < Len(a)
        <3>1. i \in 1 .. Len(q) /\ a[i] = q[i]
            BY <1>1, <2>3
        <3> QED
            BY <3>1 DEF Ordered
    <2> QED
        BY <1>1, <2>2, <2>3
<1>12. Ordered(a, f, m, next)
    BY <1>1, <1>4, <1>5, <1>7, <1>8, <1>9, <1>10, <1>11 DEF Ordered
<1> QED
    BY <1>12 DEF a, m, next

(***************************************************************************)
(* The DONE bits.                                                          *)
(***************************************************************************)

\* DoneBits of bits, with f transfers finished and n issued.
DoneAre(bits, f, n) == bits = IdsOf(1, f) \ IdsOf(f + 1, n)

LEMMA BitsAreDone == DoneBits <=> DoneAre(done, finished, issued)
BY DEF DoneBits, DoneAre

\* The identifiers of one more transfer.
LEMMA IdsOfNext ==
    ASSUME NEW f \in Nat, NEW n \in Nat, f <= n
    PROVE  IdsOf(f + 1, n + 1) = IdsOf(f + 1, n) \cup {n % Depth}
<1>1. f + 1 - 1 .. n + 1 - 1 = (f + 1 - 1 .. n - 1) \cup {n}
    OBVIOUS
<1> QED
    BY <1>1 DEF IdsOf

\* The identifiers of one transfer fewer at the front.
LEMMA IdsOfFirst ==
    ASSUME NEW f \in Nat, NEW n \in Nat, f < n
    PROVE  IdsOf(f + 1, n) = IdsOf(f + 1 + 1, n) \cup {f % Depth}
<1>1. f + 1 - 1 .. n - 1 = (f + 1 + 1 - 1 .. n - 1) \cup {f}
    OBVIOUS
<1> QED
    BY <1>1 DEF IdsOf

\* Accepting clears the bit of the identifier it takes.
LEMMA TakeDone ==
    ASSUME NEW bits, NEW f \in Nat, NEW n \in Nat, f <= n, DoneAre(bits, f, n)
    PROVE  DoneAre(bits \ {n % Depth}, f, n + 1)
BY IdsOfNext DEF DoneAre

\* Retiring sets a bit that no transfer in flight uses.
LEMMA RetireDone ==
    ASSUME NEW bits, NEW f \in Nat, NEW n \in Nat, f < n, n <= f + Depth,
           DoneAre(bits, f, n)
    PROVE  DoneAre(bits \cup {f % Depth}, f + 1, n)
<1>1. IdsOf(1, f + 1) = IdsOf(1, f) \cup {f % Depth}
    BY IdsOfNext
<1>2. IdsOf(f + 1, n) = IdsOf(f + 1 + 1, n) \cup {f % Depth}
    BY IdsOfFirst
<1>3. f % Depth \notin IdsOf(f + 1 + 1, n)
    <2>1. \A m \in f + 1 + 1 - 1 .. n - 1 : f % Depth # m % Depth
        <3>1. SUFFICES ASSUME NEW m \in f + 1 + 1 - 1 .. n - 1
                       PROVE  f % Depth # m % Depth
            OBVIOUS
        <3>2. m \in Nat /\ f < m /\ m < f + Depth /\ Depth \in Nat \ {0}
            BY DmacAssumption
        <3> QED
            BY <3>2, ModDistinct
    <2> QED
        BY <2>1 DEF IdsOf
<1> QED
    BY <1>1, <1>2, <1>3 DEF DoneAre

(***************************************************************************)
(* The timer.                                                              *)
(***************************************************************************)

LEMMA ArmedOnce ==
    ASSUME NEW delay \in Nat
    PROVE  /\ Armed({}, delay) # {} /\ Armed({}, delay) \subseteq Event
           /\ \A e, f \in Armed({}, delay) : e.ours /\ e = f
           /\ \A e \in Armed({}, delay) : e.left = delay
<1>1. Armed({}, delay) = {[ours |-> TRUE, left |-> delay]}
    BY Zenon DEF Armed
<1> DEFINE r == [ours |-> TRUE, left |-> delay]
<1>2. r \in Event /\ r.ours /\ r.left = delay
    BY DEF Event
<1> HIDE DEF r
<1>3. Armed({}, delay) = {r}
    BY <1>1 DEF r
<1> QED
    BY <1>2, <1>3, Zenon

\* With one live event or none, cancelling leaves none in the clock.
LEMMA NothingLeft == OneTimer => Cancelled(events) = {}
BY DEF OneTimer, Cancelled

LEMMA PoppedAll ==
    ASSUME TypeOK, OneTimer, NEW e \in events
    PROVE  busy /\ ~paused /\ Popped(e) = {}
BY DEF TypeOK, OneTimer, Popped

\* The part of OneTimer and TimeKept about the timer.
TimerKept ==
    /\ busy /\ ~paused =>
          events # {} /\ \A e, f \in events : e.ours /\ e = f
    /\ ~busy \/ paused => events = {}
    /\ TimeKept

LEMMA TimesTyped == \A d \in Descriptor : d.time \in Nat \ {0}
BY DmacAssumption DEF Descriptor

\* Scheduling a head arms one timer, or none when paused or out of work.
LEMMA Scheduled ==
    ASSUME TypeOK, NEW q \in Seq(Descriptor), ScheduleHead({}, q), paused' = paused
    PROVE  /\ busy' \in BOOLEAN /\ events' \subseteq Event
           /\ saved' \in Nat /\ owed' \in Nat
           /\ busy' <=> q # << >>
           /\ TimerKept'
<1>1. CASE q = << >>
    <2>1. busy' = FALSE /\ events' = {} /\ owed' = 0 /\ saved' = saved
        BY <1>1 DEF ScheduleHead
    <2> QED
        BY <1>1, <2>1 DEF TypeOK, TimerKept, TimeKept
<1>2. CASE q # << >>
    <2>1. Head(q) \in Descriptor
        BY <1>2
    <2>2. Head(q).time \in Nat
        BY <2>1, TimesTyped
    <2>3. Head(q).time > 0
        BY <2>1, TimesTyped
    <2>4. CASE paused
        <3>1. busy' = TRUE /\ events' = {} /\ owed' = Head(q).time
              /\ saved' = Head(q).time
            BY <1>2, <2>4 DEF ScheduleHead
        <3> QED
            BY <1>2, <2>2, <2>3, <2>4, <3>1 DEF TimerKept, TimeKept
    <2>5. CASE ~paused
        <3>1. busy' = TRUE /\ events' = Armed({}, Head(q).time)
              /\ owed' = Head(q).time /\ saved' = saved
            BY <1>2, <2>5 DEF ScheduleHead
        <3>2. /\ events' # {} /\ events' \subseteq Event
              /\ \A e, f \in events' : e.ours /\ e = f
              /\ \A e \in events' : e.left = Head(q).time
            BY <2>2, <3>1, ArmedOnce
        <3>3. TimerKept'
            BY <2>5, <3>1, <3>2 DEF TimerKept, TimeKept
        <3> QED
            BY <1>2, <2>2, <3>1, <3>2, <3>3 DEF TypeOK
    <2> QED
        BY <2>4, <2>5
<1> QED
    BY <1>1, <1>2

\* OneTimer from its parts.
LEMMA TimerParts ==
    /\ OneTimer /\ TimeKept <=>
          TimerKept /\ (busy <=> queue # << >>) /\ (busy => enabled)
    /\ (OneTimer /\ TimeKept)' <=>
          TimerKept' /\ (busy <=> queue # << >>)' /\ (busy => enabled)'
BY DEF OneTimer, TimerKept

(***************************************************************************)
(* Each operation keeps the invariant.                                     *)
(***************************************************************************)

LEMMA InitIInv == Init => IInv
<1> SUFFICES ASSUME Init PROVE IInv
    OBVIOUS
<1>1. 0 % Depth = 0
    BY DmacAssumption
<1>2. TypeOK
    <2>1. 0 \in Ids /\ 0 \in Nat
        BY DmacAssumption DEF Ids
    <2>2. << >> \in Seq(Descriptor) /\ Len(<< >>) = 0 /\ 0 <= Depth
        BY DmacAssumption
    <2>3. ResetDuration \in Durations /\ SupportsCyclic \in BOOLEAN
        BY DmacAssumption
    <2> QED
        BY <2>1, <2>2, <2>3, Zenon DEF Init, TypeOK
<1>3. OneTimer /\ HeldMeansFull /\ ActiveNamesHead /\ TimeKept /\ LineFollowsLatch
    BY DEF Init, OneTimer, HeldMeansFull, ActiveNamesHead, TimeKept, LineFollowsLatch
<1>4. FifoOrder
    BY <1>1 DEF Init, FifoOrder
<1>5. DoneBits
    BY DEF Init, DoneBits, IdsOf
<1> QED
    BY <1>2, <1>3, <1>4, <1>5 DEF IInv

\* What FifoOrder, DoneBits, HeldMeansFull and ActiveNamesHead speak of.
transferVars == <<queue, issued, finished, ids, start, enabled>>

LEMMA TransfersUnchanged ==
    ASSUME IInv, UNCHANGED transferVars
    PROVE  (FifoOrder /\ DoneBits /\ HeldMeansFull /\ ActiveNamesHead)'
BY DEF IInv, transferVars, ids, FifoOrder, DoneBits, HeldMeansFull, ActiveNamesHead

LEMMA TimersUnchanged ==
    ASSUME IInv, UNCHANGED <<busy, paused, timing, queue, enabled>>
    PROVE  (OneTimer /\ TimeKept)'
BY DEF IInv, timing, OneTimer, TimeKept

\* Acknowledging and masking touch the interrupt registers, FLAGS and X_LENGTH
\* the configuration of transfers to come.
LEMMA RegisterKeeps ==
    ASSUME IInv, WriteMask \/ Acknowledge \/ WriteFlags \/ WriteLength
    PROVE  IInv'
<1>1. UNCHANGED <<transferVars, busy, paused, timing, start>>
    BY DEF WriteMask, Acknowledge, WriteFlags, WriteLength, transferVars, transfers
<1>2. (FifoOrder /\ DoneBits /\ HeldMeansFull /\ ActiveNamesHead)'
    BY <1>1, TransfersUnchanged
<1>3. (OneTimer /\ TimeKept)'
    BY <1>1, TimersUnchanged DEF transferVars
<1>4. TypeOK' /\ LineFollowsLatch'
    <2>1. CASE WriteMask \/ Acknowledge
        <3>1. irqPending' = irqSource' \ irqMask'
            BY <2>1 DEF WriteMask, Acknowledge
        <3>2. irqMask' \subseteq Causes /\ irqSource' \subseteq Causes
            BY <2>1 DEF WriteMask, Acknowledge, IInv, TypeOK
        <3>3. UNCHANGED config
            BY <2>1 DEF WriteMask, Acknowledge
        <3> QED
            BY <1>1, <3>1, <3>2, <3>3
            DEF IInv, TypeOK, LineFollowsLatch, transferVars, ids, timing, config
    <2>2. CASE WriteFlags \/ WriteLength
        <3>1. UNCHANGED irq /\ cyclicFlag' \in BOOLEAN /\ duration' \in Durations
            BY <2>2 DEF WriteFlags, WriteLength, IInv, TypeOK
        <3> QED
            BY <1>1, <3>1
            DEF IInv, TypeOK, LineFollowsLatch, transferVars, ids, timing, irq
    <2> QED
        BY <2>1, <2>2
<1> QED
    BY <1>2, <1>3, <1>4 DEF IInv

\* Forgetting everything, as a disable and a reset do.
LEMMA ForgetKeeps ==
    ASSUME IInv,
           enabled' = FALSE, paused' \in BOOLEAN,
           events' = Cancelled(events),
           queue' = << >>, busy' = FALSE, start' = FALSE,
           nextId' = 0, activeId' = 0, done' = {}, saved' = 0,
           issued' = 0, finished' = 0, owed' = 0,
           cyclicFlag' \in BOOLEAN, duration' \in Durations,
           irqMask' \subseteq Causes, irqSource' \subseteq Causes,
           irqPending' = irqSource' \ irqMask'
    PROVE  IInv'
<1>1. events' = {}
    BY NothingLeft DEF IInv
<1>2. 0 % Depth = 0 /\ 0 \in Ids
    BY DmacAssumption DEF Ids
<1>3. TypeOK'
    <2>1. << >> \in Seq(Descriptor) /\ Len(<< >>) = 0 /\ 0 <= Depth /\ 0 \in Nat
        BY DmacAssumption
    <2>2. irqPending' \subseteq Causes
        OBVIOUS
    <2> QED
        BY <1>1, <1>2, <2>1, <2>2, Zenon DEF TypeOK
<1>4. (OneTimer /\ HeldMeansFull /\ ActiveNamesHead /\ TimeKept /\ LineFollowsLatch)'
    BY <1>1 DEF OneTimer, HeldMeansFull, ActiveNamesHead, TimeKept, LineFollowsLatch
<1>5. FifoOrder'
    BY <1>2 DEF FifoOrder
<1>6. DoneBits'
    BY DEF DoneBits, IdsOf
<1> QED
    BY <1>3, <1>4, <1>5, <1>6 DEF IInv

LEMMA DisableKeeps ==
    ASSUME IInv, NEW pause \in BOOLEAN, Disable(pause)
    PROVE  IInv'
<1>1. UNCHANGED <<config, irq>>
    BY DEF Disable
<1>2. /\ cyclicFlag' \in BOOLEAN /\ duration' \in Durations
      /\ irqMask' \subseteq Causes /\ irqSource' \subseteq Causes
      /\ irqPending' = irqSource' \ irqMask'
    BY <1>1 DEF config, irq, IInv, TypeOK, LineFollowsLatch
<1> QED
    BY <1>2, ForgetKeeps DEF Disable

LEMMA ResetKeeps == ASSUME IInv, Reset PROVE IInv'
<1>1. /\ cyclicFlag' \in BOOLEAN /\ duration' \in Durations
      /\ irqMask' \subseteq Causes /\ irqSource' \subseteq Causes
      /\ irqPending' = irqSource' \ irqMask'
    BY DmacAssumption DEF Reset
<1> QED
    BY <1>1, ForgetKeeps DEF Reset

\* Time passes for the timer and for what the head still owes alike.
LEMMA TickKeeps == ASSUME IInv, Tick PROVE IInv'
<1>1. UNCHANGED <<transferVars, busy, paused, saved, irq, config>>
    BY DEF Tick, transferVars, transfers
<1>2. (FifoOrder /\ DoneBits /\ HeldMeansFull /\ ActiveNamesHead)'
    BY <1>1, TransfersUnchanged
<1>3. PICK e \in events : e.left > 0
    BY DEF Tick
<1>4. busy /\ ~paused /\ events = {e} /\ e \in Event /\ e.ours
    BY <1>3, Zenon DEF IInv, OneTimer, TypeOK
<1> DEFINE later == [e EXCEPT !.left = @ - 1]
<1>5. later \in Event /\ later.ours /\ later.left = e.left - 1
    BY <1>3, <1>4 DEF Event
<1>6. events' = {later}
    BY <1>4, Zenon DEF Tick
<1> HIDE DEF later
<1>7. owed \in Nat /\ owed' = (IF owed > 0 THEN owed - 1 ELSE 0)
    BY DEF Tick, IInv, TypeOK
<1>8. owed' \in Nat
    BY <1>7
<1>9. e.left = owed \/ (owed = 0 /\ e.left = 1)
    BY <1>4 DEF IInv, TimeKept
<1>10. later.left = owed' \/ (owed' = 0 /\ later.left = 1)
    <2>1. CASE owed = 0
        BY <1>3, <1>5, <1>7, <1>9, <2>1
    <2>2. CASE owed > 0
        BY <1>5, <1>7, <1>9, <2>2
    <2> QED
        BY <1>7, <2>1, <2>2
<1>11. (OneTimer /\ TimeKept)'
    BY <1>1, <1>4, <1>5, <1>6, <1>10
    DEF IInv, OneTimer, TimeKept, transferVars
<1>12. TypeOK' /\ LineFollowsLatch'
    <2>1. events' \subseteq Event
        BY <1>5, <1>6
    <2> QED
        BY <1>1, <1>8, <2>1, Zenon
        DEF IInv, TypeOK, LineFollowsLatch, transferVars, ids, irq, config
<1> QED
    BY <1>2, <1>11, <1>12 DEF IInv

\* The driver pauses or resumes the head, or enables the controller.
LEMMA EnableKeeps ==
    ASSUME IInv, NEW pause \in BOOLEAN, Enable(pause)
    PROVE  IInv'
<1>1. /\ enabled' = TRUE /\ paused' = pause
      /\ UNCHANGED <<owed, config, ids, irq, transfers>>
    BY DEF Enable
<1>2. UNCHANGED <<nextId, activeId, done, queue, busy, start, issued, finished>>
    BY <1>1 DEF ids, transfers
<1>3. (FifoOrder /\ DoneBits /\ HeldMeansFull /\ ActiveNamesHead)'
    BY <1>1, <1>2 DEF IInv, FifoOrder, DoneBits, HeldMeansFull, ActiveNamesHead
<1>4. events' \subseteq Event /\ saved' \in Nat /\ TimerKept'
    <2>1. CASE busy /\ ~paused /\ pause /\ Suspend
        <3>1. PICK e \in events : events = {e} /\ e.ours /\ e \in Event
            BY <2>1 DEF IInv, OneTimer, TypeOK
        <3>2. events' = {}
            BY <2>1, NothingLeft DEF Suspend, IInv
        <3>3. Live = {e}
            BY <3>1 DEF Live
        <3>4. e.left \in Nat
            BY <3>1 DEF Event
        <3>5. saved' = IF e.left > 0 THEN e.left ELSE 1
            BY <2>1, <3>3 DEF Suspend, TimeLeft
        <3>6. e.left = owed \/ (owed = 0 /\ e.left = 1)
            BY <2>1, <3>1 DEF IInv, TimeKept
        <3>7. saved' > 0 /\ (saved' = owed' \/ (owed' = 0 /\ saved' = 1))
            BY <1>1, <3>4, <3>5, <3>6
        <3>8. saved' \in Nat
            BY <3>4, <3>5
        <3> QED
            BY <1>1, <1>2, <2>1, <3>2, <3>7, <3>8 DEF TimerKept, TimeKept
    <2>2. CASE busy /\ paused /\ ~pause /\ Resume
        <3>1. events = {}
            BY <2>2 DEF IInv, OneTimer
        <3>3. saved \in Nat /\ saved # 0 /\ (saved = owed \/ (owed = 0 /\ saved = 1))
            BY <2>2 DEF IInv, TypeOK, TimeKept
        <3>4. events' = Armed({}, saved) /\ saved' = 0
            BY <2>2, <3>1, <3>3 DEF Resume
        <3>5. /\ events' # {} /\ events' \subseteq Event
              /\ \A e, f \in events' : e.ours /\ e = f
              /\ \A e \in events' : e.left = saved
            BY <3>3, <3>4, ArmedOnce
        <3> QED
            BY <1>1, <1>2, <2>2, <3>3, <3>4, <3>5 DEF TimerKept, TimeKept
    <2>3. CASE (~busy \/ paused = pause) /\ UNCHANGED <<events, saved>>
        <3>1. UNCHANGED <<owed, busy, events, saved>>
            BY <1>1, <1>2, <2>3
        <3> QED
            BY <1>1, <2>3, <3>1 DEF IInv, TypeOK, OneTimer, TimerKept, TimeKept
    <2> QED
        BY <2>1, <2>2, <2>3 DEF Enable
<1>5. (OneTimer /\ TimeKept)'
    BY <1>1, <1>2, <1>4, TimerParts DEF IInv, OneTimer
<1>6. TypeOK' /\ LineFollowsLatch'
    BY <1>1, <1>2, <1>4, Zenon DEF IInv, TypeOK, LineFollowsLatch, config, irq
<1> QED
    BY <1>3, <1>5, <1>6 DEF IInv

\* Raising causes keeps the line at what is latched and not masked.
LEMMA RaiseKeeps ==
    ASSUME TypeOK, NEW causes \in SUBSET Causes, Raise(causes)
    PROVE  /\ irqMask' \subseteq Causes /\ irqSource' \subseteq Causes
           /\ irqPending' \subseteq Causes /\ LineFollowsLatch'
BY DEF TypeOK, Raise, LineFollowsLatch

LEMMA SubmittedTyped == TypeOK => Submitted \in Descriptor
BY DEF TypeOK, Submitted, Descriptor

LEMMA QueuedCauseTyped == QueuedCause \in SUBSET Causes
BY DEF QueuedCause, Causes

\* Taking an identifier for a transfer appended to q, with f finished.
LEMMA Taken ==
    ASSUME TypeOK, NEW q \in Seq(Descriptor), NEW f \in Nat, NEW bits \in SUBSET Ids,
           Ordered(q, f, issued, nextId), DoneAre(bits, f, issued), TakeId(bits)
    PROVE  /\ Ordered(Append(q, Submitted), f, issued', nextId')
           /\ DoneAre(done', f, issued')
           /\ done' \subseteq Ids /\ nextId' \in Ids /\ issued' \in Nat
<1>1. /\ Submitted \in Descriptor /\ Submitted.n = issued + 1
      /\ Submitted.id = nextId /\ Submitted.cyclic = cyclicFlag
    BY SubmittedTyped DEF Submitted
<1>2. issued \in Nat /\ nextId \in Ids /\ nextId = issued % Depth
    BY DEF TypeOK, Ordered
<1> HIDE DEF Submitted
<1>3. Ordered(Append(q, Submitted), f,
              IF Submitted.cyclic THEN issued ELSE issued + 1,
              IF Submitted.cyclic THEN nextId ELSE (nextId + 1) % Depth)
    BY <1>1, <1>2, AppendOrdered
<1>4. CASE cyclicFlag
    <2>1. done' = bits /\ nextId' = nextId /\ issued' = issued
        BY <1>4 DEF TakeId
    <2>2. Submitted.cyclic
        BY <1>1, <1>4
    <2>3. Ordered(Append(q, Submitted), f, issued, nextId)
        BY <1>3, <2>2
    <2>4. Ordered(Append(q, Submitted), f, issued', nextId')
        BY <2>1, <2>3
    <2>5. DoneAre(done', f, issued')
        BY <2>1
    <2>6. done' \subseteq Ids /\ nextId' \in Ids /\ issued' \in Nat
        BY <1>2, <2>1
    <2> QED
        BY <2>4, <2>5, <2>6
<1>5. CASE ~cyclicFlag
    <2>1. /\ done' = bits \ {nextId} /\ nextId' = (nextId + 1) % Depth
          /\ issued' = issued + 1
        BY <1>5 DEF TakeId
    <2>2. f <= issued
        BY <1>2, InFlight
    <2>3. DoneAre(done', f, issued')
        BY <1>2, <2>1, <2>2, TakeDone
    <2>4. nextId + 1 \in Nat /\ Depth \in Nat \ {0}
        BY <1>2, DmacAssumption DEF Ids
    <2>5. nextId' \in Ids
        BY <2>1, <2>4, ModRange DEF Ids
    <2>6. ~Submitted.cyclic
        BY <1>1, <1>5
    <2>7. Ordered(Append(q, Submitted), f, issued + 1, (nextId + 1) % Depth)
        BY <1>3, <2>6
    <2>8. Ordered(Append(q, Submitted), f, issued', nextId')
        BY <2>1, <2>7
    <2>9. bits \ {nextId} \subseteq Ids
        OBVIOUS
    <2>10. done' \subseteq Ids
        BY <2>1, <2>9, Zenon
    <2>11. issued' \in Nat
        BY <1>2, <2>1
    <2> QED
        BY <2>3, <2>5, <2>8, <2>10, <2>11
<1> QED
    BY <1>4, <1>5

\* A submission is queued.
LEMMA AcceptKeeps == ASSUME IInv, Submit, Accept PROVE IInv'
<1>1. TypeOK /\ OneTimer /\ TimeKept
    BY DEF IInv
<1>2. /\ enabled = TRUE /\ start = FALSE /\ start' = start
      /\ UNCHANGED <<enabled, paused, config, finished>>
    BY <1>1, Zenon DEF Submit, Accept, TypeOK
<1>3. queue' = Append(queue, Submitted) /\ Submitted \in Descriptor
    BY <1>1, SubmittedTyped DEF Accept
<1>4. /\ queue \in Seq(Descriptor) /\ Len(queue) < Depth /\ finished \in Nat
      /\ done \in SUBSET Ids
    BY <1>1 DEF TypeOK, Accept
<1>5. /\ queue' \in Seq(Descriptor) /\ Len(queue') <= Depth /\ queue' # << >>
      /\ queue # << >> => Head(queue') = Head(queue)
    BY <1>3, <1>4, DmacAssumption
<1>6. /\ Ordered(queue', finished', issued', nextId')
      /\ DoneAre(done', finished', issued')
      /\ done' \subseteq Ids /\ nextId' \in Ids /\ issued' \in Nat
    <2>1. Ordered(queue, finished, issued, nextId) /\ DoneAre(done, finished, issued)
        BY FifoIsOrdered, BitsAreDone DEF IInv
    <2>2. TakeId(done)
        BY DEF Accept
    <2> QED
        BY <1>1, <1>2, <1>3, <1>4, <2>1, <2>2, Taken
<1>7. FifoOrder' /\ DoneBits'
    BY <1>6 DEF FifoOrder, DoneBits, Ordered, DoneAre
<1>8. /\ irqMask' \subseteq Causes /\ irqSource' \subseteq Causes
      /\ irqPending' \subseteq Causes /\ LineFollowsLatch'
    BY <1>1, RaiseKeeps, QueuedCauseTyped DEF Accept
<1>9. /\ busy' \in BOOLEAN /\ events' \subseteq Event
      /\ saved' \in Nat /\ owed' \in Nat
      /\ busy' = TRUE /\ TimerKept' /\ ActiveNamesHead'
    <2>1. CASE busy
        <3>1. UNCHANGED <<busy, events, saved, owed, activeId>>
            BY <2>1 DEF Accept, timing
        <3>2. queue # << >>
            BY <1>1, <2>1 DEF OneTimer
        <3>3. ActiveNamesHead'
            BY <1>5, <3>1, <3>2 DEF IInv, ActiveNamesHead
        <3>4. TimerKept'
            BY <1>1, <1>2, <2>1, <3>1 DEF OneTimer, TimerKept, TimeKept
        <3>5. busy' = TRUE
            BY <1>1, <2>1, <3>1, Zenon DEF TypeOK
        <3> QED
            BY <1>1, <3>1, <3>3, <3>4, <3>5 DEF TypeOK
    <2>2. CASE ~busy
        <3>1. events = {}
            BY <1>1, <2>2 DEF OneTimer
        <3>2. ScheduleHead({}, queue') /\ activeId' = ActiveAfter(queue')
            BY <2>2, <3>1 DEF Accept
        <3>3. /\ busy' \in BOOLEAN /\ events' \subseteq Event
              /\ saved' \in Nat /\ owed' \in Nat
              /\ busy' <=> queue' # << >>
              /\ TimerKept'
            BY <1>1, <1>2, <1>5, <3>2, Scheduled
        <3>4. ActiveNamesHead'
            BY <1>5, <3>2 DEF ActiveAfter, ActiveNamesHead
        <3> QED
            BY <1>5, <3>3, <3>4
    <2> QED
        BY <2>1, <2>2
<1>10. OneTimer' /\ TimeKept'
    BY <1>2, <1>5, <1>9, TimerParts
<1>11. HeldMeansFull'
    BY <1>2 DEF HeldMeansFull
<1>12. activeId' \in Ids
    <2>1. Head(queue') \in Descriptor
        BY <1>5
    <2>2. activeId' = Head(queue').id
        BY <1>5, <1>9 DEF ActiveNamesHead
    <2> QED
        BY <2>1, <2>2 DEF Descriptor
<1>13. TypeOK'
    BY <1>1, <1>2, <1>4, <1>5, <1>6, <1>8, <1>9, <1>12, Zenon DEF TypeOK, config
<1> QED
    BY <1>7, <1>8, <1>9, <1>10, <1>11, <1>13 DEF IInv

\* A submission is held.
LEMMA HoldKeeps == ASSUME IInv, Submit, Hold PROVE IInv'
<1>1. /\ start' = TRUE /\ enabled /\ Len(queue) = Depth
      /\ UNCHANGED <<queue, busy, issued, ids, irq, timing>>
      /\ UNCHANGED <<enabled, paused, config, finished>>
    BY DEF Submit, Hold
<1>2. FifoOrder' /\ DoneBits' /\ ActiveNamesHead'
    BY <1>1 DEF IInv, FifoOrder, DoneBits, ActiveNamesHead, ids
<1>3. HeldMeansFull'
    BY <1>1 DEF HeldMeansFull
<1>4. (OneTimer /\ TimeKept)'
    BY <1>1, TimersUnchanged
<1>5. TypeOK' /\ LineFollowsLatch'
    BY <1>1, Zenon DEF IInv, TypeOK, LineFollowsLatch, ids, irq, timing, config
<1> QED
    BY <1>2, <1>3, <1>4, <1>5 DEF IInv

\* A cyclic head starts over.
LEMMA RepeatKeeps ==
    ASSUME IInv, NEW e \in events, Repeat(e), UNCHANGED <<enabled, paused, config>>
    PROVE  IInv'
<1>1. TypeOK /\ OneTimer
    BY DEF IInv
<1>2. busy /\ ~paused /\ Popped(e) = {}
    BY <1>1, PoppedAll
<1>3. /\ ScheduleHead({}, queue)
      /\ UNCHANGED <<queue, start, issued, finished, ids, irq>>
    BY <1>2 DEF Repeat
<1>4. queue \in Seq(Descriptor) /\ queue # << >>
    BY <1>1, <1>2 DEF TypeOK, OneTimer
<1>5. /\ busy' \in BOOLEAN /\ events' \subseteq Event
      /\ saved' \in Nat /\ owed' \in Nat
      /\ busy' <=> queue # << >>
      /\ TimerKept'
    BY <1>1, <1>3, <1>4, Scheduled
<1>6. (FifoOrder /\ DoneBits /\ HeldMeansFull /\ ActiveNamesHead)'
    BY <1>3, TransfersUnchanged DEF transferVars
<1>7. (busy => enabled)'
    BY <1>1, <1>2 DEF OneTimer
<1>8. (OneTimer /\ TimeKept)'
    BY <1>3, <1>5, <1>7, TimerParts
<1>9. TypeOK' /\ LineFollowsLatch'
    BY <1>3, <1>5, Zenon DEF IInv, TypeOK, LineFollowsLatch, ids, irq, config
<1> QED
    BY <1>6, <1>8, <1>9 DEF IInv

\* The head is retired and a held submission takes its place.
LEMMA RetireKeeps ==
    ASSUME IInv, NEW e \in events, Retire(e), UNCHANGED <<enabled, paused, config>>
    PROVE  IInv'
<1>1. TypeOK /\ OneTimer
    BY DEF IInv
<1>2. busy /\ ~paused /\ Popped(e) = {} /\ enabled
    BY <1>1, PoppedAll DEF OneTimer
<1>3. /\ ~Head(queue).cyclic /\ finished' = finished + 1
      /\ ScheduleHead({}, queue')
      /\ activeId' = ActiveAfter(queue')
    BY <1>2 DEF Retire
<1>4. /\ queue \in Seq(Descriptor) /\ queue # << >> /\ Len(queue) <= Depth
      /\ finished \in Nat /\ issued \in Nat /\ nextId \in Ids
    BY <1>1, <1>2 DEF TypeOK, OneTimer
<1>5. Ordered(queue, finished, issued, nextId) /\ DoneAre(done, finished, issued)
    BY FifoIsOrdered, BitsAreDone DEF IInv
<1> DEFINE rest == Tail(queue)
           bits == done \cup {Head(queue).id}
<1>6. /\ Ordered(rest, finished', issued, nextId)
      /\ Head(queue).id = finished % Depth /\ finished < issued
    BY <1>3, <1>4, <1>5, TailOrdered
<1>7. rest \in Seq(Descriptor) /\ Len(rest) = Len(queue) - 1 /\ Head(queue) \in Descriptor
    BY <1>4
<1>8. bits \in SUBSET Ids
    <2>1. Head(queue).id \in Ids
        BY <1>7 DEF Descriptor
    <2> QED
        BY <1>1, <2>1 DEF TypeOK
<1>9. DoneAre(bits, finished', issued)
    <2>1. issued <= finished + Depth
        BY <1>4, <1>5, InFlight, DmacAssumption
    <2> QED
        BY <1>3, <1>4, <1>5, <1>6, <2>1, RetireDone
<1>10. finished' \in Nat
    BY <1>3, <1>4
<1> HIDE DEF rest, bits
<1>11. /\ queue' \in Seq(Descriptor) /\ Len(queue') <= Depth
       /\ Ordered(queue', finished', issued', nextId')
       /\ DoneAre(done', finished', issued')
       /\ done' \subseteq Ids /\ nextId' \in Ids /\ issued' \in Nat
       /\ start' = FALSE
       /\ queue' = << >> => nextId' = nextId
       /\ irqMask' \subseteq Causes /\ irqSource' \subseteq Causes
       /\ irqPending' \subseteq Causes /\ LineFollowsLatch'
    <2>1. CASE start
        <3>1. /\ queue' = Append(rest, Submitted) /\ start' = FALSE
              /\ TakeId(bits) /\ Raise({"EOT"} \cup QueuedCause)
            BY <2>1 DEF Retire, AcceptsHeld, rest, bits
        <3>2. /\ Ordered(Append(rest, Submitted), finished', issued', nextId')
              /\ DoneAre(done', finished', issued')
              /\ done' \subseteq Ids /\ nextId' \in Ids /\ issued' \in Nat
            BY <1>1, <1>6, <1>7, <1>8, <1>9, <1>10, <3>1, Taken
        <3>3. Submitted \in Descriptor
            BY <1>1, SubmittedTyped
        <3>4. /\ queue' \in Seq(Descriptor) /\ Len(queue') <= Depth
              /\ queue' # << >>
            BY <1>4, <1>7, <3>1, <3>3, DmacAssumption
        <3>5. {"EOT"} \cup QueuedCause \in SUBSET Causes
            BY QueuedCauseTyped DEF Causes
        <3>6. /\ irqMask' \subseteq Causes /\ irqSource' \subseteq Causes
              /\ irqPending' \subseteq Causes /\ LineFollowsLatch'
            BY <1>1, <3>1, <3>5, RaiseKeeps
        <3> QED
            BY <3>1, <3>2, <3>4, <3>6
    <2>2. CASE ~start
        <3>1. /\ queue' = rest /\ start' = start /\ done' = bits
              /\ Raise({"EOT"}) /\ nextId' = nextId /\ issued' = issued
            BY <2>2 DEF Retire, AcceptsHeld, rest, bits
        <3>2. /\ queue' \in Seq(Descriptor) /\ Len(queue') <= Depth
            BY <1>4, <1>7, <3>1, DmacAssumption
        <3>3. start' = FALSE
            BY <1>1, <2>2, <3>1, Zenon DEF TypeOK
        <3>4. {"EOT"} \in SUBSET Causes
            BY DEF Causes
        <3>5. /\ irqMask' \subseteq Causes /\ irqSource' \subseteq Causes
              /\ irqPending' \subseteq Causes /\ LineFollowsLatch'
            BY <1>1, <3>1, <3>4, RaiseKeeps
        <3> QED
            BY <1>4, <1>6, <1>8, <1>9, <3>1, <3>2, <3>3, <3>5
    <2> QED
        BY <2>1, <2>2
<1>12. /\ busy' \in BOOLEAN /\ events' \subseteq Event
       /\ saved' \in Nat /\ owed' \in Nat
       /\ busy' <=> queue' # << >>
       /\ TimerKept'
    BY <1>1, <1>3, <1>11, Scheduled
<1>13. FifoOrder' /\ DoneBits'
    BY <1>11 DEF FifoOrder, DoneBits, Ordered, DoneAre
<1>14. HeldMeansFull'
    BY <1>11 DEF HeldMeansFull
<1>15. ActiveNamesHead'
    BY <1>3, <1>11 DEF ActiveNamesHead, ActiveAfter
<1>16. OneTimer' /\ TimeKept'
    BY <1>2, <1>12, TimerParts
<1>17. activeId' \in Ids
    <2>1. CASE queue' = << >>
        BY <1>11, <1>15, <2>1 DEF ActiveNamesHead
    <2>2. CASE queue' # << >>
        <3>1. Head(queue') \in Descriptor
            BY <1>11, <2>2
        <3>2. activeId' = Head(queue').id
            BY <1>15, <2>2 DEF ActiveNamesHead
        <3> QED
            BY <3>1, <3>2 DEF Descriptor
    <2> QED
        BY <2>1, <2>2
<1>18. TypeOK'
    BY <1>1, <1>10, <1>11, <1>12, <1>17, Zenon DEF TypeOK, config
<1> QED
    BY <1>11, <1>13, <1>14, <1>15, <1>16, <1>18 DEF IInv

(***************************************************************************)
(* The theorems.                                                           *)
(***************************************************************************)

LEMMA NextKeepsIInv == IInv /\ [Next]_vars => IInv'
<1> SUFFICES ASSUME IInv, [Next]_vars PROVE IInv'
    OBVIOUS
<1>1. CASE WriteMask \/ Acknowledge \/ WriteFlags \/ WriteLength
    BY <1>1, RegisterKeeps
<1>2. CASE Submit
    BY <1>2, AcceptKeeps, HoldKeeps DEF Submit
<1>3. CASE WriteControl
    BY <1>3, DisableKeeps, EnableKeeps DEF WriteControl
<1>4. CASE Reset
    BY <1>4, ResetKeeps
<1>5. CASE Tick
    BY <1>5, TickKeeps
<1>6. CASE Fire
    <2>1. PICK e \in events :
             IF busy /\ queue # << >>
             THEN Repeat(e) \/ Retire(e)
             ELSE events' = Popped(e)
                  /\ UNCHANGED <<saved, owed, ids, irq, transfers>>
        BY <1>6 DEF Fire
    <2>2. busy /\ queue # << >>
        BY <2>1 DEF IInv, OneTimer
    <2>3. UNCHANGED <<enabled, paused, config>>
        BY <1>6 DEF Fire
    <2> QED
        BY <2>1, <2>2, <2>3, RepeatKeeps, RetireKeeps
<1>7. CASE UNCHANGED vars
    <2>1. UNCHANGED <<transferVars, busy, paused, timing, queue, enabled, irq, config>>
        BY <1>7 DEF vars, transferVars, transfers
    <2>2. (FifoOrder /\ DoneBits /\ HeldMeansFull /\ ActiveNamesHead)'
        BY <2>1, TransfersUnchanged
    <2>3. (OneTimer /\ TimeKept)'
        BY <2>1, TimersUnchanged
    <2>4. TypeOK' /\ LineFollowsLatch'
        BY <2>1, Zenon
        DEF IInv, TypeOK, LineFollowsLatch, transferVars, ids, timing, irq, config
    <2> QED
        BY <2>2, <2>3, <2>4 DEF IInv
<1> QED
    BY <1>1, <1>2, <1>3, <1>4, <1>5, <1>6, <1>7 DEF Next, Driver

\* The inductive invariant of the controller holds, for every depth, every set
\* of durations and any number of transfers.
THEOREM DmacInvariant == Spec => []IInv
BY InitIInv, NextKeepsIInv, PTL DEF Spec

\* The controller's registers, its queue and its timers keep their types.
THEOREM DmacTypes == Spec => []TypeOK
<1>1. IInv => TypeOK
    BY DEF IInv
<1> QED
    BY <1>1, DmacInvariant, PTL

\* A held submission always has a completion to come, and ACTIVE_TRANSFER_ID
\* names the transfer that runs (_accept_descriptor, _schedule_head).
THEOREM HeldAndActive == Spec => [](HeldMeansFull /\ ActiveNamesHead)
<1>1. IInv => HeldMeansFull /\ ActiveNamesHead
    BY DEF IInv
<1> QED
    BY <1>1, DmacInvariant, PTL

\* The interrupt line shows the latched causes that are not masked (_update_irq_pending).
THEOREM LineLatched == Spec => []LineFollowsLatch
<1>1. IInv => LineFollowsLatch
    BY DEF IInv
<1> QED
    BY <1>1, DmacInvariant, PTL

\* Transfers complete once each and in the order the queue accepted them, and
\* no identifier is skipped (_accept_descriptor, _complete_head).
THEOREM TransfersInOrder == Spec => []FifoOrder
<1>1. IInv => FifoOrder
    BY DEF IInv
<1> QED
    BY <1>1, DmacInvariant, PTL

\* No DONE bit names a transfer in flight, also when a held submission reuses
\* the identifier of the head that has just completed (_complete_head).
THEOREM DoneBitsHonest == Spec => []DoneBits
<1>1. IInv => DoneBits
    BY DEF IInv
<1> QED
    BY <1>1, DmacInvariant, PTL

\* There is one timer while something runs and none otherwise, whatever pauses,
\* disables and resets come between arming and firing (_arm_timer, _cancel_timer).
THEOREM OneTimerOnly == Spec => []OneTimer
<1>1. IInv => OneTimer
    BY DEF IInv
<1> QED
    BY <1>1, DmacInvariant, PTL

\* Pauses and resumes keep the time of the head (_write_control).
THEOREM PausesKeepTime == Spec => []TimeKept
<1>1. IInv => TimeKept
    BY DEF IInv
<1> QED
    BY <1>1, DmacInvariant, PTL
-----------------------------------------------------------------------------
(* The controller implements DmaQueue, for every depth, durations and       *)
(* number of transfers: each of its steps is a step of the queue, or one     *)
(* that the queue does not see.                                             *)

\* What the queue shows of a descriptor.
Shown(d) == [id |-> d.id, cyclic |-> d.cyclic]

\* Length and elements of what is shown of a queue.
LEMMA ShownFields ==
    ASSUME NEW q \in Seq(Descriptor)
    PROVE  /\ Transfers(q) \in Seq([id : Ids, cyclic : BOOLEAN])
           /\ Len(Transfers(q)) = Len(q)
           /\ \A i \in 1 .. Len(q) : Transfers(q)[i] = Shown(q[i])
<1>1. \A i \in 1 .. Len(q) : Shown(q[i]) \in [id : Ids, cyclic : BOOLEAN]
    <2>1. \A d \in Descriptor : Shown(d) \in [id : Ids, cyclic : BOOLEAN]
        BY DEF Shown, Descriptor
    <2>2. \A i \in 1 .. Len(q) : q[i] \in Descriptor
        OBVIOUS
    <2> QED
        BY <2>1, <2>2
<1>2. Transfers(q) = [i \in 1 .. Len(q) |-> Shown(q[i])]
    BY DEF Transfers, Shown
<1>3. Len(q) \in Nat
    OBVIOUS
<1> HIDE DEF Shown
<1> QED
    BY <1>1, <1>2, <1>3

\* An empty queue, and only that, shows no transfers.
LEMMA EmptyShown ==
    ASSUME NEW q \in Seq(Descriptor)
    PROVE  Transfers(q) = << >> <=> q = << >>
BY ShownFields

\* The head that is shown is that of the queue.
LEMMA HeadShown ==
    ASSUME NEW q \in Seq(Descriptor), q # << >>
    PROVE  Head(Transfers(q)) = Shown(Head(q))
<1>1. 1 \in 1 .. Len(q) /\ Head(q) = q[1]
    OBVIOUS
<1> QED
    BY <1>1, ShownFields

\* Retiring the head retires what is shown of it.
LEMMA TailShown ==
    ASSUME NEW q \in Seq(Descriptor), q # << >>
    PROVE  Transfers(Tail(q)) = Tail(Transfers(q))
<1> DEFINE t == Tail(q)
           T == Transfers(q)
<1>1. /\ t \in Seq(Descriptor) /\ Len(t) = Len(q) - 1 /\ Len(q) \in Nat \ {0}
      /\ \A i \in 1 .. Len(t) : t[i] = q[i + 1]
    OBVIOUS
<1>2. /\ Len(T) = Len(q) /\ T \in Seq([id : Ids, cyclic : BOOLEAN])
      /\ \A i \in 1 .. Len(q) : T[i] = Shown(q[i])
    BY ShownFields
<1>3. /\ Len(Transfers(t)) = Len(t)
      /\ Transfers(t) \in Seq([id : Ids, cyclic : BOOLEAN])
      /\ \A i \in 1 .. Len(t) : Transfers(t)[i] = Shown(t[i])
    BY <1>1, ShownFields
<1> HIDE DEF t, T
<1>4. \A i \in 1 .. Len(t) : i + 1 \in 1 .. Len(q)
    BY <1>1
<1>5. /\ Tail(T) \in Seq([id : Ids, cyclic : BOOLEAN]) /\ Len(Tail(T)) = Len(t)
      /\ \A i \in 1 .. Len(t) : Tail(T)[i] = T[i + 1]
    BY <1>1, <1>2
<1>6. \A i \in 1 .. Len(t) : Tail(T)[i] = Transfers(t)[i]
    BY <1>1, <1>2, <1>3, <1>4, <1>5
<1>7. Transfers(t) = Tail(T)
    BY <1>3, <1>5, <1>6
<1> QED
    BY <1>7 DEF t, T

\* Appending a descriptor appends what is shown of it.
LEMMA AppendShown ==
    ASSUME NEW q \in Seq(Descriptor), NEW d \in Descriptor
    PROVE  Transfers(Append(q, d)) = Append(Transfers(q), Shown(d))
<1> DEFINE a == Append(q, d)
           T == Transfers(q)
           R == [id : Ids, cyclic : BOOLEAN]
<1>1. /\ a \in Seq(Descriptor) /\ Len(a) = Len(q) + 1 /\ Len(q) \in Nat
      /\ a[Len(q) + 1] = d
      /\ \A i \in 1 .. Len(q) : a[i] = q[i]
    OBVIOUS
<1>2. /\ Len(T) = Len(q) /\ T \in Seq(R)
      /\ \A i \in 1 .. Len(q) : T[i] = Shown(q[i])
    BY ShownFields
<1>3. /\ Len(Transfers(a)) = Len(a) /\ Transfers(a) \in Seq(R)
      /\ \A i \in 1 .. Len(a) : Transfers(a)[i] = Shown(a[i])
    BY <1>1, ShownFields
<1>4. Shown(d) \in R
    BY DEF Shown, Descriptor
<1> HIDE DEF a, T, R
<1>5. /\ Append(T, Shown(d)) \in Seq(R) /\ Len(Append(T, Shown(d))) = Len(a)
      /\ Append(T, Shown(d))[Len(q) + 1] = Shown(d)
      /\ \A i \in 1 .. Len(q) : Append(T, Shown(d))[i] = T[i]
    BY <1>1, <1>2, <1>4
<1>6. \A i \in 1 .. Len(a) : Append(T, Shown(d))[i] = Transfers(a)[i]
    <2> TAKE i \in 1 .. Len(a)
    <2>1. CASE i = Len(q) + 1
        BY <2>1, <1>1, <1>3, <1>5
    <2>2. CASE i \in 1 .. Len(q)
        <3>1. Append(T, Shown(d))[i] = Shown(q[i])
            BY <2>2, <1>2, <1>5
        <3>2. Transfers(a)[i] = Shown(a[i]) /\ a[i] = q[i]
            BY <2>2, <1>1, <1>3
        <3> QED
            BY <3>1, <3>2
    <2>3. i = Len(q) + 1 \/ i \in 1 .. Len(q)
        <3>1. Len(a) = Len(q) + 1 /\ Len(q) \in Nat
            BY <1>1
        <3> QED
            BY <3>1
    <2> QED
        BY <2>1, <2>2, <2>3
<1>7. Transfers(a) = Append(T, Shown(d))
    BY <1>3, <1>5, <1>6
<1> QED
    BY <1>7 DEF a, T

\* What an acceptance looks like to the queue.
LEMMA EnterShown ==
    ASSUME TypeOK, NEW q \in Seq(Descriptor), NEW bits,
           queue' = Append(q, Submitted), TakeId(bits)
    PROVE  Queue!Enter(Transfers(q), bits, cyclicFlag)
<1>1. Submitted \in Descriptor /\ Shown(Submitted) = [id |-> nextId, cyclic |-> cyclicFlag]
    BY SubmittedTyped DEF Submitted, Shown
<1>2. Transfers(queue)' = Append(Transfers(q), [id |-> nextId, cyclic |-> cyclicFlag])
    <2>1. Transfers(queue)' = Transfers(Append(q, Submitted))
        BY DEF Transfers
    <2> QED
        BY <2>1, <1>1, AppendShown
<1>3. /\ nextId' = IF cyclicFlag THEN nextId ELSE (nextId + 1) % Depth
      /\ done' = IF cyclicFlag THEN bits ELSE bits \ {nextId}
    BY DEF TakeId
<1> QED
    BY <1>2, <1>3 DEF Queue!Enter

\* Steps that leave the transfers alone.
LEMMA NotSeen ==
    ASSUME UNCHANGED <<queue, start, nextId, done>>
    PROVE  UNCHANGED Queue!queueVars
BY DEF Queue!queueVars, Transfers

\* Disable and reset clear the queue.
LEMMA ForgetShown ==
    ASSUME queue' = << >>, start' = FALSE, nextId' = 0, done' = {}
    PROVE  Queue!Clear
<1>1. << >> \in Seq(Descriptor)
    OBVIOUS
<1>2. Transfers(queue)' = Transfers(<< >>)
    BY DEF Transfers
<1> QED
    BY <1>1, <1>2, EmptyShown DEF Queue!Clear

\* A submission with room is one of the queue (_accept_descriptor).
LEMMA AcceptShown == ASSUME IInv, Submit, Accept PROVE Queue!Submit
<1>1. TypeOK /\ queue \in Seq(Descriptor) /\ cyclicFlag \in BOOLEAN
    BY DEF IInv, TypeOK
<1>2. ~start /\ start' = start /\ Len(queue) < Depth
    BY DEF Submit, Accept
<1>3. queue' = Append(queue, Submitted) /\ TakeId(done)
    BY DEF Accept
<1>4. Queue!Enter(Transfers(queue), done, cyclicFlag)
    BY <1>1, <1>3, EnterShown
<1>5. Len(Transfers(queue)) < Depth
    BY <1>1, <1>2, ShownFields
<1> QED
    BY <1>1, <1>2, <1>4, <1>5 DEF Queue!Submit

\* One without room is held by both.
LEMMA HoldShown == ASSUME IInv, Submit, Hold PROVE Queue!Hold
<1>1. queue \in Seq(Descriptor)
    BY DEF IInv, TypeOK
<1>2. /\ ~start /\ start' = TRUE /\ Len(queue) = Depth
      /\ UNCHANGED <<queue, nextId, done>>
    BY DEF Submit, Hold, ids
<1>3. Len(Transfers(queue)) = Depth /\ UNCHANGED Transfers(queue)
    BY <1>1, <1>2, ShownFields DEF Transfers
<1> QED
    BY <1>2, <1>3 DEF Queue!Hold

\* A retired head is one that is not cyclic, and a held submission enters.
LEMMA RetireShown ==
    ASSUME IInv, queue # << >>, NEW e \in events, Retire(e)
    PROVE  Queue!End
<1>1. TypeOK /\ queue \in Seq(Descriptor) /\ cyclicFlag \in BOOLEAN /\ start \in BOOLEAN
    BY DEF IInv, TypeOK
<1>2. Tail(queue) \in Seq(Descriptor)
    BY <1>1
<1>3. /\ Transfers(queue) # << >>
      /\ Head(Transfers(queue)) = Shown(Head(queue))
      /\ Tail(Transfers(queue)) = Transfers(Tail(queue))
    BY <1>1, EmptyShown, HeadShown, TailShown
<1>4. Head(Transfers(queue)).id = Head(queue).id /\ ~Head(Transfers(queue)).cyclic
    BY <1>3 DEF Retire, Shown
<1> DEFINE bits == done \cup {Head(queue).id}
<1>5. CASE start
    <2>1. /\ queue' = Append(Tail(queue), Submitted) /\ start' = FALSE /\ TakeId(bits)
        BY <1>5 DEF Retire, AcceptsHeld
    <2>2. Queue!Enter(Transfers(Tail(queue)), bits, cyclicFlag)
        BY <1>1, <1>2, <2>1, EnterShown
    <2> QED
        BY <1>1, <1>3, <1>4, <1>5, <2>1, <2>2 DEF Queue!End
<1>6. CASE ~start
    <2>1. queue' = Tail(queue) /\ done' = bits /\ start' = FALSE /\ nextId' = nextId
        BY <1>1, <1>6, Zenon DEF Retire, AcceptsHeld
    <2>2. Transfers(queue)' = Transfers(Tail(queue))
        BY <2>1 DEF Transfers
    <2> QED
        BY <1>3, <1>4, <1>6, <2>1, <2>2 DEF Queue!End
<1> QED
    BY <1>5, <1>6

\* The controller starts with an empty queue.
LEMMA InitShown == Init => Queue!Init
<1>1. << >> \in Seq(Descriptor)
    OBVIOUS
<1> QED
    BY <1>1, EmptyShown DEF Init, Queue!Init

\* Every step is one of the queue or leaves it alone.
LEMMA NextShown == IInv /\ [Next]_vars => [Queue!Next]_(Queue!queueVars)
<1> SUFFICES ASSUME IInv, [Next]_vars
             PROVE  Queue!Next \/ UNCHANGED Queue!queueVars
    OBVIOUS
<1>1. CASE WriteMask \/ Acknowledge \/ WriteFlags \/ WriteLength
    <2>1. UNCHANGED <<queue, start, nextId, done>>
        BY <1>1 DEF WriteMask, Acknowledge, WriteFlags, WriteLength, transfers, ids
    <2> QED
        BY <2>1, NotSeen
<1>2. CASE Submit
    BY <1>2, AcceptShown, HoldShown DEF Submit, Queue!Next
<1>3. CASE WriteControl
    <2>1. CASE \E pause \in BOOLEAN : Disable(pause)
        BY <2>1, ForgetShown DEF Disable, Queue!Next
    <2>2. CASE \E pause \in BOOLEAN : Enable(pause)
        <3>1. UNCHANGED <<queue, start, nextId, done>>
            BY <2>2 DEF Enable, transfers, ids
        <3> QED
            BY <3>1, NotSeen
    <2> QED
        BY <1>3, <2>1, <2>2 DEF WriteControl
<1>4. CASE Reset
    BY <1>4, ForgetShown DEF Reset, Queue!Next
<1>5. CASE Tick
    <2>1. UNCHANGED <<queue, start, nextId, done>>
        BY <1>5 DEF Tick, transfers, ids
    <2> QED
        BY <2>1, NotSeen
<1>6. CASE Fire
    <2>1. PICK e \in events :
              IF busy /\ queue # << >> THEN Repeat(e) \/ Retire(e)
              ELSE UNCHANGED <<ids, transfers>>
        BY <1>6 DEF Fire
    <2>2. CASE queue # << >> /\ Retire(e)
        BY <2>2, RetireShown DEF Queue!Next
    <2>3. CASE Repeat(e)
        <3>1. UNCHANGED <<queue, start, nextId, done>>
            BY <2>3 DEF Repeat, ids
        <3> QED
            BY <3>1, NotSeen
    <2>4. CASE UNCHANGED <<ids, transfers>>
        <3>1. UNCHANGED <<queue, start, nextId, done>>
            BY <2>4 DEF transfers, ids
        <3> QED
            BY <3>1, NotSeen
    <2> QED
        BY <2>1, <2>2, <2>3, <2>4
<1>7. CASE UNCHANGED vars
    <2>1. UNCHANGED <<queue, start, nextId, done>>
        BY <1>7 DEF vars, transfers, ids
    <2> QED
        BY <2>1, NotSeen
<1> QED
    BY <1>1, <1>2, <1>3, <1>4, <1>5, <1>6, <1>7 DEF Next, Driver

\* Whatever the driver does, the controller loses, repeats and reorders nothing
\* that the abstract queue would not (_accept_descriptor, _complete_head).
THEOREM ControllerImplementsQueue == Spec => ImplementsQueue
<1>1. Init => Queue!Init
    BY InitShown
<1>2. IInv /\ [Next]_vars => [Queue!Next]_(Queue!queueVars)
    BY NextShown
<1> QED
    BY <1>1, <1>2, DmacInvariant, PTL DEF Spec, ImplementsQueue, Queue!Spec

=============================================================================
