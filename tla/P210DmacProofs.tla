------------------------- MODULE P210DmacProofs -------------------------
(***************************************************************************)
(* The DMA controller of the QEMU device, for any depth of its ring, any   *)
(* lengths, chunk and rate: what it saves is what it can load, its DONE    *)
(* bits and its head's time are honest, the receive tones are continuous,  *)
(* and the ring is the queue that a driver relies on.                      *)
(***************************************************************************)
EXTENDS P210Dmac, WellFoundedInduction, TLAPS

-----------------------------------------------------------------------------
(* Remainders and quotients.                                               *)

\* A remainder is less than the divisor, and division leaves it.
LEMMA DivMod ==
    ASSUME NEW a \in Nat, NEW d \in Nat \ {0}
    PROVE  /\ a % d \in 0 .. d - 1 /\ a \div d \in Nat
           /\ a = d * (a \div d) + (a % d)
BY SMT

\* There is one quotient and one remainder.
LEMMA OneRemainder ==
    ASSUME NEW d \in Nat \ {0}, NEW q \in Int, NEW r \in 0 .. d - 1
    PROVE  (d * q + r) % d = r
BY SMTT(30)

LEMMA OneQuotient ==
    ASSUME NEW d \in Nat \ {0}, NEW q \in Int, NEW r \in 0 .. d - 1
    PROVE  (d * q + r) \div d = q
BY SMTT(30)

\* Places in a ring can be counted from any other.
LEMMA ModAdd ==
    ASSUME NEW a \in Nat, NEW b \in Nat, NEW d \in Nat \ {0}
    PROVE  ((a % d) + b) % d = (a + b) % d
<1> DEFINE q == a \div d
           r == a % d
           p == (r + b) \div d
           s == (r + b) % d
<1>1. q \in Int /\ r \in Nat /\ a = d * q + r
    BY DivMod
<1>2. p \in Int /\ s \in 0 .. d - 1 /\ r + b = d * p + s
    BY <1>1, DivMod
<1> HIDE DEF q, r, p, s
<1>3. a + b = d * (q + p) + s
    BY <1>1, <1>2
<1>4. q + p \in Int
    BY <1>1, <1>2
<1>5. (d * (q + p) + s) % d = s
    BY <1>2, <1>4, OneRemainder
<1> QED
    BY <1>3, <1>5 DEF r, s

\* Fewer than d numbers in a row have different remainders.
LEMMA ModDistinct ==
    ASSUME NEW a \in Nat, NEW b \in Nat, NEW d \in Nat \ {0},
           a < b, b < a + d
    PROVE  a % d # b % d
<1> DEFINE q == b \div d - a \div d
<1>1. /\ a \div d \in Int /\ a = d * (a \div d) + (a % d) /\ a % d \in Int
      /\ b \div d \in Int /\ b = d * (b \div d) + (b % d) /\ b % d \in Int
    BY DivMod
<1>2. SUFFICES ASSUME a % d = b % d PROVE FALSE
    OBVIOUS
<1>3. q \in Int /\ b - a = d * q
    BY <1>1, <1>2
<1> HIDE DEF q
<1>4. CASE q <= 0
    <2>1. d * q <= 0
        BY <1>3, <1>4
    <2> QED
        BY <2>1, <1>3
<1>5. CASE q >= 1
    <2>1. d * q >= d
        BY <1>3, <1>5
    <2> QED
        BY <2>1, <1>3
<1> QED
    BY <1>3, <1>4, <1>5

-----------------------------------------------------------------------------
(* The ring.                                                               *)

\* The c descriptors of the ring r from place h on.
From(r, h, c) == [i \in 1 .. c |-> r[(h + (i - 1)) % Depth]]

LEMMA QueuedIsFrom == Queued = From(ring, head, count)
BY DEF Queued, From, Slot

LEMMA PlaceIsId ==
    ASSUME NEW h \in Nat
    PROVE  h % Depth \in Ids
BY DivMod, P210Assumption DEF Ids

LEMMA FromTyped ==
    ASSUME NEW D, NEW r \in [Ids -> D], NEW h \in Ids, NEW c \in Nat
    PROVE  From(r, h, c) \in Seq(D) /\ Len(From(r, h, c)) = c
<1>1. \A i \in 1 .. c : h + (i - 1) \in Nat
    BY DEF Ids
<1>2. \A i \in 1 .. c : r[(h + (i - 1)) % Depth] \in D
    BY <1>1, PlaceIsId
<1> QED
    BY <1>2 DEF From

\* The ring without its head.
LEMMA FromNext ==
    ASSUME NEW D, NEW r \in [Ids -> D], NEW h \in Ids, NEW c \in Nat \ {0}
    PROVE  From(r, (h + 1) % Depth, c - 1) = Tail(From(r, h, c))
<1> DEFINE n == (h + 1) % Depth
           t == From(r, n, c - 1)
           q == From(r, h, c)
<1>0. h \in Nat /\ h + 1 \in Nat /\ c - 1 \in Nat /\ Depth \in Nat \ {0}
    BY P210Assumption DEF Ids
<1>1. n \in Ids /\ c - 1 \in Nat /\ h \in Nat /\ Depth \in Nat \ {0}
    BY <1>0, PlaceIsId
<1>2. t \in Seq(D) /\ Len(t) = c - 1 /\ q \in Seq(D) /\ Len(q) = c
    BY <1>1, FromTyped
<1>3. \A i \in 1 .. c - 1 : t[i] = q[i + 1]
    <2> TAKE i \in 1 .. c - 1
    <2>1. (n + (i - 1)) % Depth = ((h + 1) + (i - 1)) % Depth
        <3>1. i - 1 \in Nat /\ h + 1 \in Nat
            BY <1>0
        <3> QED
            BY <1>0, <3>1, ModAdd
    <2>2. (h + 1) + (i - 1) = h + ((i + 1) - 1) /\ i + 1 \in 1 .. c
        BY <1>1
    <2>3. t[i] = r[(n + (i - 1)) % Depth] /\ q[i + 1] = r[(h + ((i + 1) - 1)) % Depth]
        BY <2>2 DEF From
    <2> QED
        BY <2>1, <2>2, <2>3
<1> HIDE DEF t, q
<1>4. Tail(q) \in Seq(D) /\ Len(Tail(q)) = c - 1 /\ \A i \in 1 .. c - 1 : Tail(q)[i] = q[i + 1]
    BY <1>2
<1>5. t = Tail(q)
    BY <1>2, <1>3, <1>4
<1> QED
    BY <1>5 DEF t, q, n

\* w is the ring r with d at place k.
Put(w, r, k, d) == w[k] = d /\ \A s \in Ids : s # k => w[s] = r[s]

\* A descriptor written behind those in the ring.
LEMMA FromEnter ==
    ASSUME NEW r \in [Ids -> Descriptor], NEW h \in Ids, NEW c \in Nat, c < Depth,
           NEW d \in Descriptor,
           NEW w \in [Ids -> Descriptor], Put(w, r, (h + c) % Depth, d)
    PROVE  From(w, h, c + 1) = Append(From(r, h, c), d)
<1> DEFINE k == (h + c) % Depth
           q == From(r, h, c)
           a == From(w, h, c + 1)
<1>0. h + c \in Nat /\ h \in Nat /\ c + 1 \in Nat /\ Depth \in Nat \ {0} /\ Depth \in Nat
    BY P210Assumption DEF Ids
<1>1. k \in Ids /\ h \in Nat /\ c + 1 \in Nat /\ Depth \in Nat \ {0} /\ Depth \in Nat
    BY <1>0, PlaceIsId
<1>2. w \in [Ids -> Descriptor] /\ w[k] = d /\ \A s \in Ids : s # k => w[s] = r[s]
    BY DEF Put
<1>3. q \in Seq(Descriptor) /\ Len(q) = c /\ a \in Seq(Descriptor) /\ Len(a) = c + 1
    <2>1. q \in Seq(Descriptor) /\ Len(q) = c
        BY FromTyped
    <2>2. a \in Seq(Descriptor) /\ Len(a) = c + 1
        <3>1. \A v \in [Ids -> Descriptor] :
                From(v, h, c + 1) \in Seq(Descriptor) /\ Len(From(v, h, c + 1)) = c + 1
            BY <1>0, FromTyped
        <3> QED
            BY <1>2, <3>1
    <2> QED
        BY <2>1, <2>2
<1>4. a[c + 1] = d
    <2>1. c + 1 \in 1 .. c + 1 /\ h + ((c + 1) - 1) = h + c
        BY <1>1
    <2>2. a[c + 1] = w[(h + ((c + 1) - 1)) % Depth]
        BY <2>1 DEF From
    <2> QED
        BY <1>1, <1>2, <2>1, <2>2
<1>5. \A i \in 1 .. c : a[i] = q[i]
    <2> TAKE i \in 1 .. c
    <2> DEFINE j == h + (i - 1)
    <2>1. j \in Nat /\ j < h + c /\ h + c < j + Depth /\ h + c \in Nat /\ i \in 1 .. c + 1
        BY <1>1
    <2>2. a[i] = w[j % Depth] /\ q[i] = r[j % Depth]
        BY <2>1 DEF From
    <2> HIDE DEF j
    <2>3. j % Depth # k /\ j % Depth \in Ids
        BY <1>1, <2>1, ModDistinct, PlaceIsId
    <2> QED
        BY <1>2, <2>2, <2>3
<1> HIDE DEF a, q
<1>6. Append(q, d) \in Seq(Descriptor) /\ Len(Append(q, d)) = c + 1 /\ Append(q, d)[c + 1] = d
      /\ \A i \in 1 .. c : Append(q, d)[i] = q[i]
    BY <1>3
<1>7. \A i \in 1 .. c + 1 : a[i] = Append(q, d)[i]
    <2> TAKE i \in 1 .. c + 1
    <2>1. i = c + 1 \/ i \in 1 .. c
        OBVIOUS
    <2> QED
        BY <1>4, <1>5, <1>6, <2>1
<1>8. a = Append(q, d)
    BY <1>3, <1>6, <1>7
<1> QED
    BY <1>2, <1>8 DEF a, q

-----------------------------------------------------------------------------
(* The order of the transfers.                                             *)

LEMMA DescriptorFields ==
    ASSUME NEW q \in Seq(Descriptor), NEW i \in 1 .. Len(q)
    PROVE  /\ q[i] \in Descriptor /\ q[i].n \in Nat /\ q[i].cyclic \in BOOLEAN
           /\ After(q[i]) \in Nat /\ After(q[i]) \in q[i].n .. q[i].n + 1
<1>1. q[i] \in Descriptor
    OBVIOUS
<1>2. q[i].n \in Nat /\ q[i].cyclic \in BOOLEAN
    BY <1>1 DEF Descriptor
<1> QED
    BY <1>1, <1>2 DEF After

\* As many identifiers are in use as transfers wait, or fewer.
LEMMA InFlight ==
    ASSUME NEW q \in Seq(Descriptor), NEW f \in Nat, NEW n \in Nat, NEW id, Ordered(q, f, n, id)
    PROVE  n \in f .. f + Len(q)
<1>1. Len(q) \in Nat
    OBVIOUS
<1>2. CASE Len(q) = 0
    BY <1>2 DEF Ordered, Ordinal
<1>3. CASE Len(q) > 0
    <2>1. 1 \in 1 .. Len(q) /\ Len(q) + 1 \in 1 + 1 .. Len(q) + 1
        BY <1>1, <1>3
    <2>2. /\ Ordinal(q, n, 1) = f + 1
          /\ Ordinal(q, n, Len(q) + 1) \in After(q[1]) .. After(q[1]) + (Len(q) + 1 - 1 - 1)
        BY <2>1 DEF Ordered
    <2>3. Ordinal(q, n, 1) = q[1].n /\ Ordinal(q, n, Len(q) + 1) = n + 1
        BY <1>1, <1>3 DEF Ordinal
    <2>4. After(q[1]) \in Nat /\ After(q[1]) \in f + 1 .. f + 2
        BY <2>1, <2>2, <2>3, DescriptorFields
    <2> QED
        BY <1>1, <2>2, <2>3, <2>4
<1> QED
    BY <1>1, <1>2, <1>3

\* The end of the head keeps the order of the rest.
LEMMA TailOrdered ==
    ASSUME NEW q \in Seq(Descriptor), NEW f \in Nat, NEW n \in Nat, NEW id, Ordered(q, f, n, id),
           q # <<>>
    PROVE  /\ Ordered(Tail(q), IF Head(q).cyclic THEN f ELSE f + 1, n, id)
           /\ ~Head(q).cyclic => Head(q).id = f % Depth /\ f < n
<1> DEFINE t == Tail(q)
           g == IF q[1].cyclic THEN f ELSE f + 1
<1>1. /\ t \in Seq(Descriptor) /\ Len(t) = Len(q) - 1 /\ Head(q) = q[1] /\ Len(q) \in Nat \ {0}
      /\ \A i \in 1 .. Len(t) : t[i] = q[i + 1]
    OBVIOUS
<1>2. 1 \in 1 .. Len(q)
    BY <1>1
<1>3. q[1].n = f + 1 /\ After(q[1]) = g + 1 /\ g \in Nat
    <2>1. q[1].n = Ordinal(q, n, 1)
        BY <1>2 DEF Ordinal
    <2> QED
        BY <2>1 DEF Ordered, After
<1> HIDE DEF t
<1>4. \A i \in 1 .. Len(t) + 1 : Ordinal(t, n, i) = Ordinal(q, n, i + 1)
    BY <1>1 DEF Ordinal
<1>5. Ordinal(t, n, 1) = g + 1
    <2>1. 2 \in 1 + 1 .. Len(q) + 1 /\ 1 \in 1 .. Len(t) + 1
        BY <1>1
    <2>2. Ordinal(q, n, 2) \in After(q[1]) .. After(q[1]) + (2 - 1 - 1)
        BY <1>2, <2>1 DEF Ordered
    <2>3. Ordinal(t, n, 1) = Ordinal(q, n, 2)
        BY <1>4, <2>1
    <2> QED
        BY <1>3, <2>2, <2>3
<1>6. \A i \in 1 .. Len(t) : \A j \in i + 1 .. Len(t) + 1 :
        Ordinal(t, n, j) \in After(t[i]) .. After(t[i]) + (j - i - 1)
    <2> TAKE i \in 1 .. Len(t)
    <2> TAKE j \in i + 1 .. Len(t) + 1
    <2>1. /\ i + 1 \in 1 .. Len(q) /\ j + 1 \in (i + 1) + 1 .. Len(q) + 1
          /\ j \in 1 .. Len(t) + 1 /\ (j + 1) - (i + 1) - 1 = j - i - 1
        BY <1>1
    <2>2. Ordinal(q, n, j + 1) \in After(q[i + 1]) .. After(q[i + 1]) + ((j + 1) - (i + 1) - 1)
        BY <2>1 DEF Ordered
    <2> QED
        BY <1>1, <1>4, <2>1, <2>2
<1>7. \A i \in 1 .. Len(t) : t[i].id = (t[i].n - 1) % Depth
    <2> TAKE i \in 1 .. Len(t)
    <2>1. i + 1 \in 1 .. Len(q) /\ t[i] = q[i + 1]
        BY <1>1
    <2> QED
        BY <2>1 DEF Ordered
<1>8. Ordered(t, g, n, id)
    BY <1>5, <1>6, <1>7 DEF Ordered
<1>9. q[1].id = f % Depth
    <2>1. q[1].id = (q[1].n - 1) % Depth
        BY <1>2 DEF Ordered
    <2> QED
        BY <1>3, <2>1
<1>10. ~q[1].cyclic => f < n
    <2>1. n \in g .. g + Len(t)
        BY <1>1, <1>3, <1>8, InFlight
    <2> QED
        BY <2>1
<1> QED
    BY <1>1, <1>8, <1>9, <1>10 DEF t

\* A submission keeps the order, and takes the next identifier.
LEMMA AppendOrdered ==
    ASSUME NEW q \in Seq(Descriptor), NEW f \in Nat, NEW n \in Nat, NEW id, Ordered(q, f, n, id),
           NEW d \in Descriptor, d.n = n + 1, d.id = id
    PROVE  Ordered(Append(q, d), f, IF d.cyclic THEN n ELSE n + 1,
                   IF d.cyclic THEN id ELSE (id + 1) % Depth)
<1> DEFINE a == Append(q, d)
           m == IF d.cyclic THEN n ELSE n + 1
<1>1. /\ a \in Seq(Descriptor) /\ Len(a) = Len(q) + 1 /\ Len(q) \in Nat /\ a[Len(q) + 1] = d
      /\ \A i \in 1 .. Len(q) : a[i] = q[i]
    OBVIOUS
<1>2. m \in Nat /\ After(d) = m + 1 /\ m \in n .. n + 1
    BY DEF After
<1>3. id = n % Depth /\ (IF d.cyclic THEN id ELSE (id + 1) % Depth) = m % Depth
    <2>1. id = n % Depth
        BY DEF Ordered
    <2>2. ((n % Depth) + 1) % Depth = (n + 1) % Depth
        BY ModAdd, P210Assumption
    <2> QED
        BY <2>1, <2>2
<1> HIDE DEF a, m
<1>4. \A i \in 1 .. Len(q) + 1 : Ordinal(a, m, i) = Ordinal(q, n, i)
    <2> TAKE i \in 1 .. Len(q) + 1
    <2>1. CASE i = Len(q) + 1
        BY <1>1, <2>1 DEF Ordinal
    <2>2. CASE i \in 1 .. Len(q)
        BY <1>1, <2>2 DEF Ordinal
    <2> QED
        BY <1>1, <2>1, <2>2
<1>5. Ordinal(a, m, Len(q) + 2) = m + 1
    BY <1>1 DEF Ordinal
<1>6. Ordinal(a, m, 1) = f + 1
    BY <1>1, <1>4 DEF Ordered
<1>7. \A i \in 1 .. Len(a) : \A j \in i + 1 .. Len(a) + 1 :
        Ordinal(a, m, j) \in After(a[i]) .. After(a[i]) + (j - i - 1)
    <2> TAKE i \in 1 .. Len(a)
    <2> TAKE j \in i + 1 .. Len(a) + 1
    <2>1. CASE i = Len(q) + 1
        BY <1>1, <1>2, <1>5, <2>1
    <2>2. CASE i \in 1 .. Len(q) /\ j \in i + 1 .. Len(q) + 1
        <3>1. Ordinal(q, n, j) \in After(q[i]) .. After(q[i]) + (j - i - 1)
            BY <2>2 DEF Ordered
        <3>2. j \in 1 .. Len(q) + 1
            BY <2>2
        <3> QED
            BY <1>1, <1>4, <2>2, <3>1, <3>2
    <2>3. CASE i \in 1 .. Len(q) /\ j = Len(q) + 2
        <3>1. Len(q) + 1 \in i + 1 .. Len(q) + 1 /\ Ordinal(q, n, Len(q) + 1) = n + 1
            BY <1>1, <2>3 DEF Ordinal
        <3>2. n + 1 \in After(q[i]) .. After(q[i]) + (Len(q) + 1 - i - 1)
            BY <2>3, <3>1 DEF Ordered
        <3>3. After(q[i]) \in Nat
            BY <2>3, DescriptorFields
        <3>4. m + 1 \in After(q[i]) .. After(q[i]) + (j - i - 1)
            BY <1>1, <1>2, <2>3, <3>2, <3>3
        <3> QED
            BY <1>1, <1>5, <2>3, <3>4
    <2>4. i = Len(q) + 1 \/ i \in 1 .. Len(q)
        BY <1>1
    <2>5. j \in i + 1 .. Len(q) + 1 \/ j = Len(q) + 2
        BY <1>1
    <2> QED
        BY <2>1, <2>2, <2>3, <2>4, <2>5
<1>8. \A i \in 1 .. Len(a) : a[i].id = (a[i].n - 1) % Depth
    <2> TAKE i \in 1 .. Len(a)
    <2>1. CASE i = Len(q) + 1
        BY <1>1, <1>3, <2>1
    <2>2. CASE i \in 1 .. Len(q)
        BY <1>1, <2>2 DEF Ordered
    <2> QED
        BY <1>1, <2>1, <2>2
<1>9. Ordered(a, f, m, m % Depth)
    BY <1>6, <1>7, <1>8 DEF Ordered
<1> QED
    BY <1>3, <1>9 DEF a, m

-----------------------------------------------------------------------------
(* The DONE bits.                                                          *)

\* DoneBits of bits and failed, f transfers having finished and n been issued.
DoneAre(bits, failed, f, n) == bits = (IdsOf(1, f) \ IdsOf(f + 1, n)) \cup failed

\* A submission clears the bit of the identifier it takes.
LEMMA TakenDone ==
    ASSUME NEW bits, NEW failed, NEW f \in Nat, NEW n \in Nat, f <= n, DoneAre(bits, failed, f, n)
    PROVE  DoneAre(bits \ {n % Depth}, failed \ {n % Depth}, f, n + 1)
<1>1. f + 1 - 1 .. n + 1 - 1 = (f + 1 - 1 .. n - 1) \cup {n}
    OBVIOUS
<1>2. IdsOf(f + 1, n + 1) = IdsOf(f + 1, n) \cup {n % Depth}
    BY <1>1 DEF IdsOf
<1> QED
    BY <1>2 DEF DoneAre

\* The end of a transfer sets a bit that no waiting transfer uses.
LEMMA RetiredDone ==
    ASSUME NEW bits, NEW failed, NEW f \in Nat, NEW n \in Nat, f < n, n <= f + Depth,
           DoneAre(bits, failed, f, n)
    PROVE  DoneAre(bits \cup {f % Depth}, failed, f + 1, n)
<1>1. 1 - 1 .. f + 1 - 1 = (1 - 1 .. f - 1) \cup {f}
    OBVIOUS
<1>2. f + 1 - 1 .. n - 1 = (f + 1 + 1 - 1 .. n - 1) \cup {f}
    OBVIOUS
<1>3. /\ IdsOf(1, f + 1) = IdsOf(1, f) \cup {f % Depth}
      /\ IdsOf(f + 1, n) = IdsOf(f + 1 + 1, n) \cup {f % Depth}
    BY <1>1, <1>2 DEF IdsOf
<1>4. f % Depth \notin IdsOf(f + 1 + 1, n)
    <2>1. \A m \in f + 1 + 1 - 1 .. n - 1 : f % Depth # m % Depth
        <3> TAKE m \in f + 1 + 1 - 1 .. n - 1
        <3>1. m \in Nat /\ f < m /\ m < f + Depth /\ Depth \in Nat \ {0}
            BY P210Assumption
        <3> QED
            BY <3>1, ModDistinct
    <2> QED
        BY <2>1 DEF IdsOf
<1> QED
    BY <1>3, <1>4 DEF DoneAre

-----------------------------------------------------------------------------
(* The copy of a descriptor, chunk after chunk.                            *)

\* Before the first chunk, and after one more.
Uncopied(d) == [left |-> d.length, frames |-> 0]

Further(frame, last) ==
    LET chunk == ChunkOf(last.left, frame)
    IN  [left   |-> last.left - chunk,
         frames |-> IF frame = 0 THEN 0 ELSE last.frames + chunk \div frame]

LEMMA LeastNumber ==
    ASSUME NEW S, S \subseteq Nat, S # {}
    PROVE  \E m \in S : \A k \in S : m <= k
<1>1. IsWellFoundedOn(OpToRel(<, Nat), Nat)
    BY NatLessThanWellFounded, Zenon
<1>2. PICK m \in S : \A k \in S : <<k, m>> \notin OpToRel(<, Nat)
    BY <1>1, WFMin, Zenon
<1>3. \A k \in S : ~(k < m)
    BY <1>2 DEF OpToRel
<1> QED
    BY <1>3

\* g is the copy of d by m chunks.
IsCopy(g, d, frame, m) ==
    g = [k \in 0 .. m |-> IF k = 0 THEN Uncopied(d) ELSE Further(frame, g[k - 1])]

\* There is a copy of any number of chunks.
LEMMA CopiesExist ==
    ASSUME NEW d, NEW frame
    PROVE  \A m \in Nat : \E g : IsCopy(g, d, frame, m)
<1> DEFINE Is(g, m) == IsCopy(g, d, frame, m)
           None == {m \in Nat : ~\E g : Is(g, m)}
<1> USE DEF IsCopy
<1> SUFFICES ASSUME None # {} PROVE FALSE
    OBVIOUS
<1>1. PICK m \in None : \A k \in None : m <= k
    BY LeastNumber
<1>2. m # 0
    <2> DEFINE g == [k \in 0 .. 0 |-> Uncopied(d)]
    <2>1. Is(g, 0)
        OBVIOUS
    <2> QED
        BY <1>1, <2>1
<1>3. m \in Nat /\ m - 1 \in Nat /\ m - 1 \notin None
    <2>1. m \in Nat
        BY <1>1
    <2> HIDE DEF None
    <2> QED
        BY <1>1, <1>2, <2>1
<1>4. PICK g : Is(g, m - 1)
    BY <1>3
<1> DEFINE h == [k \in 0 .. m |-> IF k = m THEN Further(frame, g[m - 1]) ELSE g[k]]
<1>5. \A k \in 0 .. m - 1 : g[k] = IF k = 0 THEN Uncopied(d) ELSE Further(frame, g[k - 1])
    BY <1>4
<1> HIDE DEF Uncopied, Further
<1>6. \A k \in 0 .. m : h[k] = IF k = 0 THEN Uncopied(d) ELSE Further(frame, h[k - 1])
    <2> TAKE k \in 0 .. m
    <2>1. CASE k = m
        <3>1. h[k] = Further(frame, g[m - 1]) /\ h[k - 1] = g[m - 1]
            BY <1>3, <2>1
        <3> QED
            BY <1>2, <2>1, <3>1
    <2>2. CASE k # m /\ k # 0
        <3>1. k \in 0 .. m - 1 /\ k - 1 \in 0 .. m /\ k - 1 # m
            BY <1>3, <2>2
        <3>2. h[k] = g[k] /\ h[k - 1] = g[k - 1]
            BY <2>2, <3>1
        <3> QED
            BY <1>5, <2>2, <3>1, <3>2
    <2>3. CASE k # m /\ k = 0
        <3>1. h[k] = g[k] /\ k \in 0 .. m - 1
            BY <1>3, <2>3
        <3> QED
            BY <1>5, <2>3, <3>1
    <2> QED
        BY <2>1, <2>2, <2>3
<1>7. Is(h, m)
    <2>1. h = [k \in 0 .. m |-> h[k]]
        OBVIOUS
    <2> HIDE DEF h
    <2> QED
        BY <1>6, <2>1
<1> QED
    BY <1>1, <1>7

\* The equation that defines a copy holds of it.
LEMMA CopySteps ==
    ASSUME NEW d, d.length \in Nat
    PROVE  /\ Copy(d)[0] = Uncopied(d)
           /\ \A k \in 1 .. d.length : Copy(d)[k] = Further(FrameBytes(d), Copy(d)[k - 1])
<1> DEFINE frame == FrameBytes(d)
<1>1. Copy(d) = CHOOSE g : IsCopy(g, d, frame, d.length)
    BY DEF Copy, IsCopy, Uncopied, Further
<1>2. \E g : IsCopy(g, d, frame, d.length)
    BY CopiesExist
<1>3. IsCopy(Copy(d), d, frame, d.length)
    BY <1>1, <1>2
<1> DEFINE c == Copy(d)
<1> HIDE DEF c
<1>4. c = [k \in 0 .. d.length |-> IF k = 0 THEN Uncopied(d) ELSE Further(FrameBytes(d), c[k - 1])]
    BY <1>3 DEF c, IsCopy
<1>5. \A k \in 0 .. d.length :
        c[k] = IF k = 0 THEN Uncopied(d) ELSE Further(FrameBytes(d), c[k - 1])
    BY <1>4
<1>6. c[0] = Uncopied(d)
    BY <1>5
<1>7. \A k \in 1 .. d.length : c[k] = Further(FrameBytes(d), c[k - 1])
    BY <1>5
<1> QED
    BY <1>6, <1>7 DEF c

\* What a copy of d has counted when it has s: its frames so far are whole, and
\* at the end they are those that fit in d.
Counted(d, s) ==
    /\ s.left \in Nat /\ s.frames \in Nat
    /\ FrameBytes(d) = 0 => s.frames = 0
    /\ FrameBytes(d) > 0 =>
        \/ s.frames * FrameBytes(d) + s.left = d.length
        \/ s.left = 0 /\ s.frames = d.length \div FrameBytes(d)

\* Every whole chunk is a whole number of frames.
LEMMA WholeFrames ==
    ASSUME NEW frame \in Nat \ {0}
    PROVE  /\ Chunk \div frame \in Nat /\ Chunk - (Chunk % frame) = frame * (Chunk \div frame)
           /\ (Chunk - (Chunk % frame)) \div frame = Chunk \div frame
           /\ Chunk - (Chunk % frame) \in 0 .. Chunk
<1> DEFINE p == Chunk \div frame
           r == Chunk % frame
<1>1. p \in Nat /\ r \in 0 .. frame - 1 /\ Chunk = frame * p + r
    BY DivMod, P210Assumption
<1> HIDE DEF p, r
<1>2. frame * p \in Nat /\ Chunk - r = frame * p
    BY <1>1
<1>3. (frame * p + 0) \div frame = p
    BY <1>1, OneQuotient
<1>4. frame * p + 0 = frame * p
    BY <1>2
<1>5. Chunk - r \in 0 .. Chunk
    BY <1>1, <1>2, P210Assumption
<1> QED
    BY <1>1, <1>2, <1>3, <1>4, <1>5 DEF p, r

LEMMA FurtherCounted ==
    ASSUME NEW d, d.length \in Nat, d.scan \in 0 .. 4, NEW s, Counted(d, s)
    PROVE  Counted(d, Further(FrameBytes(d), s))
<1> DEFINE frame == FrameBytes(d)
           chunk == ChunkOf(s.left, frame)
           t     == Further(frame, s)
<1>0. frame \in Nat /\ Chunk \in Nat
    BY P210Assumption DEF FrameBytes
<1>1. s.left \in Nat /\ s.frames \in Nat
    BY DEF Counted
<1>2. t.left = s.left - chunk /\ t.frames = IF frame = 0 THEN 0 ELSE s.frames + chunk \div frame
    BY DEF Further
<1> HIDE DEF frame, chunk, t
<1>3. CASE frame = 0
    <2>1. chunk = Least(s.left, Chunk)
        BY <1>3 DEF chunk, ChunkOf
    <2>2. chunk \in 0 .. s.left
        BY <1>0, <1>1, <2>1 DEF Least
    <2>3. t.left \in Nat /\ t.frames = 0
        BY <1>1, <1>2, <1>3, <2>2
    <2> QED
        BY <1>3, <2>3 DEF Counted, frame, t
<1>4. CASE frame > 0 /\ s.left > Chunk
    <2> DEFINE p == Chunk \div frame
    <2>1. chunk = Chunk - (Chunk % frame)
        BY <1>4 DEF chunk, ChunkOf
    <2>2. p \in Nat /\ chunk = frame * p /\ chunk \div frame = p /\ chunk \in 0 .. Chunk
        <3>1. frame \in Nat \ {0}
            BY <1>0, <1>4
        <3>2. /\ p \in Nat /\ Chunk - (Chunk % frame) = frame * p
              /\ (Chunk - (Chunk % frame)) \div frame = p /\ Chunk - (Chunk % frame) \in 0 .. Chunk
            BY <3>1, WholeFrames
        <3> HIDE DEF p
        <3> QED
            BY <2>1, <3>2
    <2>3. s.left # 0
        BY <1>0, <1>1, <1>4
    <2>4. s.frames * frame + s.left = d.length
        BY <1>4, <2>3 DEF Counted, frame
    <2> HIDE DEF p
    <2>5. t.left = s.left - frame * p /\ t.frames = s.frames + p
        BY <1>2, <1>4, <2>2
    <2>6. t.left \in Nat /\ t.frames \in Nat
        BY <1>0, <1>1, <1>4, <2>2, <2>5
    <2>7. t.frames * frame + t.left = d.length
        BY <1>0, <1>1, <2>2, <2>4, <2>5
    <2> QED
        BY <1>4, <2>6, <2>7 DEF Counted, frame, t
<1>5. CASE frame > 0 /\ ~(s.left > Chunk)
    <2>1. chunk = Least(s.left, Chunk)
        BY <1>5 DEF chunk, ChunkOf
    <2>2. chunk = s.left
        BY <1>0, <1>1, <1>5, <2>1 DEF Least
    <2>3. frame \in Nat \ {0}
        BY <1>0, <1>5
    <2> DEFINE p == s.left \div frame
               r == s.left % frame
    <2>4. p \in Nat /\ r \in 0 .. frame - 1 /\ s.left = frame * p + r
        BY <1>1, <2>3, DivMod
    <2>5. t.left = 0 /\ t.frames = s.frames + p
        BY <1>1, <1>2, <1>5, <2>2
    <2>6. t.frames = d.length \div frame
        <3>1. CASE s.frames * frame + s.left = d.length
            <4> HIDE DEF p, r
            <4>1. s.frames + p \in Int
                BY <1>1, <2>4
            <4>2. (frame * (s.frames + p) + r) \div frame = s.frames + p
                BY <2>3, <2>4, <4>1, OneQuotient
            <4>3. frame * (s.frames + p) + r = d.length
                BY <1>0, <1>1, <2>4, <3>1
            <4> QED
                BY <2>5, <4>2, <4>3
        <3>2. CASE s.left = 0 /\ s.frames = d.length \div frame
            <4>1. (frame * 0 + 0) \div frame = 0 /\ frame * 0 + 0 = 0
                BY <2>3, OneQuotient
            <4> QED
                BY <1>1, <2>5, <3>2, <4>1
        <3> QED
            BY <1>5, <3>1, <3>2 DEF Counted, frame
    <2>7. t.frames \in Nat
        BY <1>1, <2>4, <2>5
    <2> QED
        BY <1>5, <2>5, <2>6, <2>7 DEF Counted, frame, t
<1> QED
    BY <1>0, <1>3, <1>4, <1>5 DEF frame

\* Wherever a copy stops, its frames are whole, and all there are when it is
\* complete.
LEMMA StopsCounted ==
    ASSUME NEW d \in Descriptor, NEW stop \in Stops[[length |-> d.length, scan |-> d.scan]]
    PROVE  stop.left \in Nat /\ stop.frames \in Nat /\ (stop.left = 0 => stop.frames = FramesIn(d))
<1> DEFINE e == [length |-> d.length, scan |-> d.scan]
<1>1. d.length \in Lengths /\ d.scan \in Scans /\ d.length \in Nat /\ d.scan \in 0 .. 4
    BY P210Assumption DEF Descriptor
<1>2. e \in [length : Lengths, scan : Scans] /\ e.length = d.length /\ e.scan = d.scan
    BY <1>1
<1>3. FrameBytes(e) = FrameBytes(d) /\ FrameBytes(d) \in Nat
    BY <1>1 DEF FrameBytes
<1> HIDE DEF e
<1>4. PICK k \in 0 .. d.length : stop = Copy(e)[k]
    BY <1>2 DEF Stops, e
<1> DEFINE Bad == {i \in 0 .. d.length : ~Counted(e, Copy(e)[i])}
<1>5. Counted(e, Copy(e)[0])
    <2>1. Copy(e)[0] = Uncopied(e)
        BY <1>1, <1>2, CopySteps
    <2>2. Uncopied(e).left = d.length /\ Uncopied(e).frames = 0
        BY <1>2 DEF Uncopied
    <2> QED
        BY <1>1, <1>2, <1>3, <2>1, <2>2 DEF Counted
<1>6. Bad = {}
    <2> SUFFICES ASSUME Bad # {} PROVE FALSE
        OBVIOUS
    <2>1. PICK m \in Bad : \A i \in Bad : m <= i
        <3>1. Bad \subseteq Nat
            BY <1>1
        <3> HIDE DEF Bad
        <3> QED
            BY <3>1, LeastNumber
    <2>2. m \in 1 .. d.length /\ m - 1 \in 0 .. d.length
        BY <1>1, <1>5, <2>1
    <2>3. m - 1 \notin Bad
        <3> HIDE DEF Bad
        <3> QED
            BY <2>1, <2>2
    <2>4. Counted(e, Copy(e)[m - 1])
        BY <2>2, <2>3
    <2>5. Copy(e)[m] = Further(FrameBytes(e), Copy(e)[m - 1])
        BY <1>1, <1>2, <2>2, CopySteps
    <2>6. Counted(e, Copy(e)[m])
        BY <1>1, <1>2, <2>4, <2>5, FurtherCounted
    <2> QED
        BY <2>1, <2>6
<1>7. Counted(e, stop)
    BY <1>4, <1>6
<1> QED
    <2>1. CASE FrameBytes(d) = 0
        BY <1>3, <1>7, <2>1 DEF Counted, FramesIn
    <2>2. CASE FrameBytes(d) > 0
        <3>1. stop.left = 0 => stop.frames = d.length \div FrameBytes(d)
            <4> DEFINE frame == FrameBytes(d)
            <4> HIDE DEF frame
            <4>1. CASE stop.frames * frame + stop.left = d.length /\ stop.left = 0
                <5>1. frame \in Nat \ {0} /\ stop.frames \in Nat
                    BY <1>3, <1>7, <2>2 DEF Counted, frame
                <5>2. (frame * stop.frames + 0) \div frame = stop.frames
                    BY <5>1, OneQuotient
                <5>3. frame * stop.frames + 0 = d.length
                    BY <1>1, <4>1, <5>1
                <5> QED
                    BY <5>2, <5>3 DEF frame
            <4> QED
                BY <1>2, <1>3, <1>7, <2>2, <4>1 DEF Counted, frame
        <3> QED
            BY <1>7, <2>2, <3>1 DEF Counted, FramesIn
    <2> QED
        BY <1>3, <2>1, <2>2

-----------------------------------------------------------------------------
(* What the steps have in common.                                          *)

LEMMA DelayPositive ==
    ASSUME NEW d \in Descriptor
    PROVE  Delay(d) \in Nat \ {0}
<1> DEFINE frame == IF d.scan > 0 THEN FrameBytes(d) ELSE 8
           rate  == BytesPerTick * frame
           a     == d.length + rate - 1
<1>1. d.length \in Nat /\ d.scan \in 0 .. 4 /\ BytesPerTick \in Nat \ {0}
    BY P210Assumption DEF Descriptor
<1>2. frame \in Nat \ {0}
    BY <1>1 DEF FrameBytes
<1> HIDE DEF frame
<1>3. rate \in Nat \ {0}
    BY <1>1, <1>2
<1>4. Delay(d) = IF d.length > rate THEN a \div rate ELSE 1
    BY Zenon DEF Delay, frame
<1> HIDE DEF rate
<1>5. CASE d.length > rate
    <2> DEFINE p == a \div rate
               r == a % rate
    <2>1. a \in Nat /\ a >= rate
        BY <1>1, <1>3, <1>5
    <2> HIDE DEF a
    <2>2. p \in Nat /\ r \in 0 .. rate - 1 /\ a = rate * p + r
        BY <1>3, <2>1, DivMod
    <2> HIDE DEF p, r
    <2>3. p # 0
        BY <1>3, <2>1, <2>2
    <2> QED
        BY <1>4, <1>5, <2>2, <2>3 DEF p
<1> QED
    BY <1>4, <1>5

LEMMA SubmittedTyped ==
    ASSUME TypeOK
    PROVE  /\ Submitted \in Descriptor /\ Submitted.n = issued + 1 /\ Submitted.id = nextId
           /\ Submitted.cyclic = cyclicFlag
BY P210Assumption DEF TypeOK, Submitted, Descriptor

\* The queue that the ring holds.
LEMMA QueuedTyped ==
    ASSUME TypeOK
    PROVE  /\ Queued = From(ring, head, count) /\ Queued \in Seq(Descriptor) /\ Len(Queued) = count
           /\ count # 0 => Queued # <<>> /\ Head(Queued) = ring[head]
<1>1. ring \in [Ids -> Descriptor] /\ head \in Ids /\ count \in Nat
    BY P210Assumption DEF TypeOK
<1>2. Queued = From(ring, head, count) /\ Queued \in Seq(Descriptor) /\ Len(Queued) = count
    BY <1>1, QueuedIsFrom, FromTyped
<1>3. ASSUME count # 0
      PROVE  Queued # <<>> /\ Head(Queued) = ring[head]
    <2>1. 1 \in 1 .. count /\ head + (1 - 1) = head /\ head % Depth = head
        BY <1>1, <1>3, P210Assumption DEF Ids
    <2>2. Queued[1] = ring[head]
        BY <1>2, <2>1 DEF From
    <2> QED
        BY <1>2, <1>3, <2>2
<1> QED
    BY <1>2, <1>3

\* Of the transfers q, none of a receiver is cyclic.
Transmitted(q) == \A i \in 1 .. Len(q) : q[i].cyclic => ~toMemory

\* What remains of LoadAccepts when the ring has its type.
Loadable == (running <=> count # 0) /\ (count # 0 => enabled) /\ Transmitted(Queued)

LEMMA LoadAcceptsMeans == TypeOK => (LoadAccepts <=> Loadable)
<1> SUFFICES ASSUME TypeOK PROVE LoadAccepts <=> Loadable
    OBVIOUS
<1>1. Queued \in Seq(Descriptor) /\ Len(Queued) = count
    BY QueuedTyped
<1>2. \A i \in 1 .. count :
        Queued[i].id \in Ids /\ Queued[i].length \in Lengths /\ Queued[i].scan \in 0 .. 4
    <2> TAKE i \in 1 .. count
    <2>1. Queued[i] \in Descriptor
        BY <1>1
    <2> QED
        BY <2>1, P210Assumption DEF Descriptor
<1> QED
    BY <1>1, <1>2 DEF LoadAccepts, Loadable, Transmitted, TypeOK

LEMMA LoadAcceptsNext == TypeOK' => (LoadAccepts' <=> Loadable')
BY LoadAcceptsMeans, PTL

\* A descriptor enters behind those from at on.
LEMMA EnterKeeps ==
    ASSUME TypeOK, CyclicTransmits, NEW at \in Ids, NEW waiting \in Nat, waiting < Depth,
           NEW bits \in SUBSET Ids, NEW failed \in SUBSET Ids, NEW f \in Nat,
           Ordered(From(ring, at, waiting), f, issued, nextId), DoneAre(bits, failed, f, issued),
           Transmitted(From(ring, at, waiting)), toMemory' = toMemory,
           Enter(at, waiting, bits, failed)
    PROVE  /\ ring' \in [Ids -> Descriptor] /\ count' = waiting + 1
           /\ nextId' \in Ids /\ issued' \in Nat /\ done' \subseteq Ids /\ early' \subseteq Ids
           /\ From(ring', at, waiting + 1) = Append(From(ring, at, waiting), Submitted)
           /\ Ordered(From(ring', at, waiting + 1), f, issued', nextId')
           /\ DoneAre(done', early', f, issued')
           /\ Transmitted(From(ring', at, waiting + 1))
<1> DEFINE q == From(ring, at, waiting)
           a == From(ring', at, waiting + 1)
           n == IF cyclicFlag THEN issued ELSE issued + 1
           id == IF cyclicFlag THEN nextId ELSE (nextId + 1) % Depth
<1>1. /\ ring \in [Ids -> Descriptor] /\ issued \in Nat /\ nextId \in Ids /\ cyclicFlag \in BOOLEAN
      /\ Submitted \in Descriptor /\ Submitted.n = issued + 1 /\ Submitted.id = nextId
      /\ Submitted.cyclic = cyclicFlag
    BY SubmittedTyped DEF TypeOK
<1>2. /\ ring' = [ring EXCEPT ![(at + waiting) % Depth] = Submitted] /\ count' = waiting + 1
      /\ nextId' = id /\ issued' = n
      /\ done' = IF cyclicFlag THEN bits ELSE bits \ {nextId}
      /\ early' = IF cyclicFlag THEN failed ELSE failed \ {nextId}
    BY DEF Enter, TailSlot, FollowingId, Taken
<1>3. ring' \in [Ids -> Descriptor] /\ a = Append(q, Submitted)
    <2> DEFINE k == (at + waiting) % Depth
    <2>1. k \in Ids
        BY PlaceIsId DEF Ids
    <2>2. ring' = [ring EXCEPT ![k] = Submitted]
        BY <1>2
    <2> HIDE DEF k
    <2>3. ring' \in [Ids -> Descriptor] /\ Put(ring', ring, k, Submitted)
        BY <1>1, <2>1, <2>2 DEF Put
    <2> QED
        BY <1>1, <2>3, FromEnter DEF k
<1>4. q \in Seq(Descriptor) /\ Len(q) = waiting
    BY <1>1, FromTyped
<1> HIDE DEF q, a
<1>5. Ordered(a, f, n, id)
    <2>1. Ordered(q, f, issued, nextId)
        BY DEF q
    <2>2. Ordered(Append(q, Submitted), f, n, id)
        BY <1>1, <1>4, <2>1, AppendOrdered
    <2> QED
        BY <1>3, <2>2
<1>6. issued \in f .. f + waiting /\ nextId = issued % Depth
    <2>1. Ordered(q, f, issued, nextId)
        BY DEF q
    <2>2. issued \in f .. f + Len(q)
        BY <1>1, <1>4, <2>1, InFlight
    <2> QED
        BY <1>4, <2>1, <2>2 DEF Ordered
<1>7. DoneAre(done', early', f, issued')
    <2>1. CASE cyclicFlag
        BY <1>2, <2>1
    <2>2. CASE ~cyclicFlag
        <3>1. DoneAre(bits \ {issued % Depth}, failed \ {issued % Depth}, f, issued + 1)
            BY <1>1, <1>6, TakenDone
        <3> QED
            BY <1>2, <1>6, <2>2, <3>1
    <2> QED
        BY <2>1, <2>2
<1>8. nextId' \in Ids /\ issued' \in Nat /\ done' \subseteq Ids /\ early' \subseteq Ids
    <2>1. (nextId + 1) % Depth \in Ids
        <3>1. nextId + 1 \in Nat
            BY <1>1 DEF Ids
        <3> QED
            BY <3>1, PlaceIsId
    <2> QED
        BY <1>1, <1>2, <2>1
<1>9. \A i \in 1 .. waiting + 1 : a[i].cyclic => ~toMemory
    <2> TAKE i \in 1 .. waiting + 1
    <2>1. CASE i = waiting + 1
        <3>1. Append(q, Submitted)[Len(q) + 1] = Submitted
            BY <1>4
        <3> QED
            BY <1>1, <1>3, <1>4, <2>1, <3>1 DEF CyclicTransmits
    <2>2. CASE i \in 1 .. waiting
        <3>1. Append(q, Submitted)[i] = q[i]
            BY <1>4, <2>2
        <3>2. q[i].cyclic => ~toMemory
            BY <1>4, <2>2 DEF Transmitted, q
        <3> QED
            BY <1>3, <3>1, <3>2
    <2> QED
        BY <2>1, <2>2
<1> QED
    <2>1. Transmitted(a)
        <3>1. Len(a) = waiting + 1
            BY <1>1, <1>3, <1>4
        <3> QED
            BY <1>9, <3>1 DEF Transmitted
    <2> QED
        BY <1>2, <1>3, <1>5, <1>7, <1>8, <2>1 DEF q, a

\* A head that starts has all its time.
LEMMA StartHeadKeeps ==
    ASSUME NEW at \in Ids, NEW kept, ring' \in [Ids -> Descriptor], paused \in BOOLEAN,
           paused => kept = NoTimer, paused' = paused, StartHead(at, kept)
    PROVE  /\ running' = TRUE /\ activeId' \in Ids
           /\ timer' \in Nat \cup {NoTimer} /\ saved' \in Nat /\ owed' \in Nat
           /\ TimeKept'
<1>1. ring'[at] \in Descriptor /\ ring'[at].id \in Ids
    BY DEF Descriptor
<1>2. Delay(ring'[at]) \in Nat \ {0}
    BY <1>1, DelayPositive
<1> DEFINE time == Delay(ring'[at])
<1> HIDE DEF time
<1>3. /\ running' = TRUE /\ activeId' = ring'[at].id /\ owed' = time
      /\ IF paused THEN saved' = time /\ timer' = NoTimer ELSE saved' = 0 /\ timer' = time
    BY DEF StartHead, time
<1>4. time \in Nat \ {0}
    BY <1>2 DEF time
<1> QED
    BY <1>1, <1>3, <1>4 DEF TimeKept, NoTimer

-----------------------------------------------------------------------------
(* The steps.                                                              *)

\* The controller with nothing to do, and what is then true.
Cleared ==
    /\ ring = [s \in Ids |-> Zeroed] /\ head = 0 /\ count = 0 /\ running = FALSE
    /\ start = FALSE /\ nextId = 0 /\ activeId = 0 /\ done = {} /\ early = {}
    /\ timer = NoTimer /\ saved = 0 /\ owed = 0
    /\ issued = 0 /\ finished = 0

ClearTypes ==
    /\ ring \in [Ids -> Descriptor] /\ head \in Ids /\ count \in 0 .. Depth /\ running \in BOOLEAN
    /\ start \in BOOLEAN /\ nextId \in Ids /\ activeId \in Ids /\ done \subseteq Ids /\ early \subseteq Ids
    /\ timer \in Nat \cup {NoTimer} /\ saved \in Nat /\ owed \in Nat
    /\ issued \in Nat /\ finished \in Nat

LEMMA ClearedIsSound ==
    Cleared => ClearTypes /\ SavedStateLoads /\ TimeKept /\ FifoOrder /\ DoneBits
<1> SUFFICES ASSUME Cleared
             PROVE  ClearTypes /\ SavedStateLoads /\ TimeKept /\ FifoOrder /\ DoneBits
    OBVIOUS
<1>1. Zeroed \in Descriptor /\ 0 \in Ids /\ 0 \in 0 .. Depth
    BY P210Assumption DEF Zeroed, Descriptor, Ids
<1>2. ClearTypes
    BY <1>1 DEF Cleared, ClearTypes
<1>3. SavedStateLoads
    BY <1>1 DEF Cleared, SavedStateLoads, LoadAccepts
<1>4. TimeKept
    BY DEF Cleared, TimeKept
<1>5. FifoOrder
    <2>1. Queued \in Seq(Descriptor) /\ Len(Queued) = 0
        BY <1>2, QueuedIsFrom, FromTyped DEF Cleared, ClearTypes
    <2>2. 0 % Depth = 0
        BY P210Assumption
    <2> QED
        BY <2>1, <2>2 DEF Cleared, FifoOrder, Ordered, Ordinal
<1>6. DoneBits
    BY DEF Cleared, DoneBits
<1> QED
    BY <1>2, <1>3, <1>4, <1>5, <1>6

LEMMA ClearedNext ==
    Cleared' => ClearTypes' /\ SavedStateLoads' /\ TimeKept' /\ FifoOrder' /\ DoneBits'
BY ClearedIsSound, PTL

LEMMA InitInv == Init => IInv
<1> SUFFICES ASSUME Init PROVE IInv
    OBVIOUS
<1>1. Cleared
    BY DEF Init, Cleared
<1>2. ClearTypes /\ SavedStateLoads /\ TimeKept /\ FifoOrder /\ DoneBits
    BY <1>1, ClearedIsSound
<1>3. TypeOK
    BY <1>2, P210Assumption DEF Init, TypeOK, ClearTypes, Causes
<1>4. LineFollowsLatch /\ CyclicTransmits /\ SamplesContinuous
    BY DEF Init, LineFollowsLatch, CyclicTransmits, SamplesContinuous
<1> QED
    BY <1>2, <1>3, <1>4 DEF IInv

\* An update of the interrupt registers leaves the line at what is pending.
LEMMA IrqUpdated ==
    ASSUME NEW source \in SUBSET Causes, NEW mask \in SUBSET Causes, UpdateIrq(source, mask)
    PROVE  /\ irqMask' \subseteq Causes /\ irqSource' \subseteq Causes
           /\ irqPending' \subseteq Causes /\ line' \in BOOLEAN
           /\ LineFollowsLatch'
BY DEF UpdateIrq, LineFollowsLatch

\* What the waiting transfers and their order depend on.
LEMMA QueueStays ==
    ASSUME IInv, UNCHANGED <<toMemory, enabled, head, count, ring, running, nextId, done, issued,
                             finished, early>>
    PROVE  SavedStateLoads' /\ FifoOrder' /\ DoneBits'
BY DEF IInv, SavedStateLoads, LoadAccepts, FifoOrder, DoneBits, Queued, Slot

\* Register accesses that the timer and the ring do not see.
LEMMA RegisterInv ==
    ASSUME IInv, WriteMask \/ Acknowledge \/ WriteFlags \/ WriteLength \/ WriteScan
    PROVE  IInv'
<1>1. UNCHANGED <<enabled, paused, toMemory, ids, transfers, timing, data>>
    BY DEF WriteMask, Acknowledge, WriteFlags, WriteLength, WriteScan, config
<1>2. SavedStateLoads' /\ FifoOrder' /\ DoneBits'
    BY <1>1, QueueStays DEF ids, transfers
<1>3. TimeKept' /\ SamplesContinuous'
    BY <1>1 DEF IInv, TimeKept, SamplesContinuous, transfers, timing, data
<1>4. /\ irqMask' \subseteq Causes /\ irqSource' \subseteq Causes
      /\ irqPending' \subseteq Causes /\ line' \in BOOLEAN
      /\ LineFollowsLatch'
    <2>1. CASE WriteMask
        BY <2>1, IrqUpdated DEF WriteMask, IInv, TypeOK
    <2>2. CASE Acknowledge
        <3>1. PICK causes \in SUBSET Causes : UpdateIrq(irqSource \ causes, irqMask)
            BY <2>2 DEF Acknowledge
        <3>2. irqSource \ causes \in SUBSET Causes /\ irqMask \in SUBSET Causes
            BY DEF IInv, TypeOK
        <3> QED
            BY <3>1, <3>2, IrqUpdated
    <2>3. CASE WriteFlags \/ WriteLength \/ WriteScan
        BY <2>3 DEF WriteFlags, WriteLength, WriteScan, irq, IInv, TypeOK, LineFollowsLatch
    <2> QED
        BY <2>1, <2>2, <2>3
<1>5. cyclicFlag' \in BOOLEAN /\ length' \in Lengths /\ scan' \in Scans /\ CyclicTransmits'
    <2>1. CASE WriteMask \/ Acknowledge
        BY <2>1 DEF WriteMask, Acknowledge, config, IInv, TypeOK, CyclicTransmits
    <2>2. CASE WriteFlags
        BY <2>2 DEF WriteFlags, IInv, TypeOK, CyclicTransmits
    <2>3. CASE WriteLength
        BY <2>3 DEF WriteLength, IInv, TypeOK, CyclicTransmits
    <2>4. CASE WriteScan
        BY <2>4 DEF WriteScan, IInv, TypeOK, CyclicTransmits
    <2> QED
        BY <2>1, <2>2, <2>3, <2>4
<1>6. TypeOK'
    BY <1>1, <1>4, <1>5 DEF IInv, TypeOK, ids, transfers, timing, data
<1> QED
    BY <1>2, <1>3, <1>4, <1>5, <1>6 DEF IInv

\* CONTROL: a write that disables clears the ring, one that enables keeps the
\* head's time.
LEMMA ControlInv ==
    ASSUME IInv, WriteControl
    PROVE  IInv'
<1>1. CASE \E pause \in BOOLEAN : Disable(pause)
    <2>1. PICK pause \in BOOLEAN : Disable(pause)
        BY <1>1
    <2>2. Cleared'
        BY <2>1 DEF Disable, Cleared
    <2>3. ClearTypes' /\ SavedStateLoads' /\ TimeKept' /\ FifoOrder' /\ DoneBits'
        BY <2>2, ClearedNext
    <2>4. enabled' = FALSE /\ paused' = pause /\ UNCHANGED <<submitted, config, irq, data>>
        BY <2>1 DEF Disable
    <2>5. TypeOK'
        BY <2>3, <2>4 DEF IInv, TypeOK, ClearTypes, config, irq, data
    <2>6. LineFollowsLatch' /\ CyclicTransmits' /\ SamplesContinuous'
        BY <2>4 DEF IInv, LineFollowsLatch, CyclicTransmits, SamplesContinuous, config, irq, data
    <2> QED
        BY <2>3, <2>5, <2>6 DEF IInv
<1>2. CASE \E pause \in BOOLEAN : Enable(pause)
    <2>1. PICK pause \in BOOLEAN : Enable(pause)
        BY <1>2
    <2>2. /\ enabled' = TRUE /\ paused' = pause
          /\ UNCHANGED <<owed, config, ids, irq, transfers, data>>
        BY <2>1 DEF Enable
    <2>3. SavedStateLoads' /\ FifoOrder' /\ DoneBits'
        <3>1. FifoOrder' /\ DoneBits'
            BY <2>2 DEF IInv, FifoOrder, DoneBits, Queued, Slot, ids, transfers
        <3>2. SavedStateLoads'
            BY <2>2 DEF IInv, SavedStateLoads, LoadAccepts, Queued, Slot, config, transfers
        <3> QED
            BY <3>1, <3>2
    <2>4. /\ timer \in Nat \cup {NoTimer} /\ saved \in Nat /\ owed \in Nat
          /\ paused \in BOOLEAN /\ running \in BOOLEAN /\ TimeKept
        BY DEF IInv, TypeOK
    <2>5. timer' \in Nat \cup {NoTimer} /\ saved' \in Nat /\ TimeKept'
        <3>1. CASE running /\ ~paused /\ pause /\ Suspend
            BY <2>2, <2>4, <3>1 DEF Suspend, TimeKept, NoTimer, transfers
        <3>2. CASE running /\ paused /\ ~pause /\ Resume
            <4>1. timer' = saved /\ saved' = 0
                BY <2>4, <3>2 DEF Resume, TimeKept
            <4> QED
                BY <2>2, <2>4, <3>2, <4>1 DEF TimeKept, NoTimer, transfers
        <3>3. CASE (~running \/ paused = pause) /\ UNCHANGED <<timer, saved>>
            BY <2>2, <2>4, <3>3 DEF TimeKept, transfers
        <3> QED
            BY <2>1, <3>1, <3>2, <3>3 DEF Enable
    <2>6. TypeOK'
        BY <2>2, <2>5 DEF IInv, TypeOK, config, ids, irq, transfers, data
    <2>7. LineFollowsLatch' /\ CyclicTransmits' /\ SamplesContinuous'
        BY <2>2 DEF IInv, LineFollowsLatch, CyclicTransmits, SamplesContinuous, config, irq, data
    <2> QED
        BY <2>3, <2>5, <2>6, <2>7 DEF IInv
<1> QED
    BY <1>1, <1>2 DEF WriteControl

LEMMA ResetInv ==
    ASSUME IInv, Reset
    PROVE  IInv'
<1>1. Cleared'
    BY DEF Reset, Cleared
<1>2. ClearTypes' /\ SavedStateLoads' /\ TimeKept' /\ FifoOrder' /\ DoneBits'
    BY <1>1, ClearedNext
<1>3. TypeOK'
    BY <1>2, P210Assumption DEF Reset, IInv, TypeOK, ClearTypes, Causes
<1>4. LineFollowsLatch' /\ CyclicTransmits' /\ SamplesContinuous'
    BY DEF Reset, LineFollowsLatch, CyclicTransmits, SamplesContinuous
<1> QED
    BY <1>2, <1>3, <1>4 DEF IInv

LEMMA TickInv ==
    ASSUME IInv, Tick
    PROVE  IInv'
<1>1. /\ timer > 0 /\ timer' = timer - 1 /\ owed' = IF owed > 0 THEN owed - 1 ELSE 0
      /\ UNCHANGED <<saved, enabled, paused, config, ids, irq, transfers, data>>
    BY DEF Tick
<1>2. SavedStateLoads' /\ FifoOrder' /\ DoneBits'
    BY <1>1, QueueStays DEF ids, transfers, config
<1>3. timer \in Nat /\ timer' \in Nat /\ owed \in Nat /\ owed' \in Nat
    BY <1>1 DEF IInv, TypeOK, NoTimer
<1>4. TimeKept'
    BY <1>1, <1>3 DEF IInv, TimeKept, NoTimer, transfers
<1>5. TypeOK'
    BY <1>1, <1>3 DEF IInv, TypeOK, config, ids, irq, transfers, data
<1>6. LineFollowsLatch' /\ CyclicTransmits' /\ SamplesContinuous'
    BY <1>1 DEF IInv, LineFollowsLatch, CyclicTransmits, SamplesContinuous, config, irq, data
<1> QED
    BY <1>2, <1>4, <1>5, <1>6 DEF IInv

\* A saved state is loaded with the time it was saved with.
LEMMA MigrateInv ==
    ASSUME IInv, Migrate
    PROVE  IInv'
<1>1. /\ UNCHANGED <<owed, enabled, paused, config, ids, transfers, data>>
      /\ LoadTimer /\ UpdateIrq(irqSource, irqMask)
    BY DEF Migrate
<1>2. SavedStateLoads' /\ FifoOrder' /\ DoneBits'
    BY <1>1, QueueStays DEF ids, transfers, config
<1>3. /\ timer \in Nat \cup {NoTimer} /\ saved \in Nat /\ owed \in Nat
      /\ paused \in BOOLEAN /\ running \in BOOLEAN /\ TimeKept
    BY DEF IInv, TypeOK
<1>4. timer' \in Nat \cup {NoTimer} /\ saved' \in Nat /\ TimeKept'
    <2>1. CASE ~running
        BY <1>1, <1>3, <2>1 DEF LoadTimer, TimeKept, transfers
    <2>2. CASE running /\ paused
        BY <1>1, <1>3, <2>2 DEF LoadTimer, TimeKept, transfers
    <2>3. CASE running /\ ~paused
        BY <1>1, <1>3, <2>3 DEF LoadTimer, TimeKept, transfers
    <2> QED
        BY <1>3, <2>1, <2>2, <2>3
<1>5. /\ irqMask' \subseteq Causes /\ irqSource' \subseteq Causes
      /\ irqPending' \subseteq Causes /\ line' \in BOOLEAN
      /\ LineFollowsLatch'
    BY <1>1, IrqUpdated DEF IInv, TypeOK
<1>6. TypeOK'
    BY <1>1, <1>4, <1>5 DEF IInv, TypeOK, config, ids, transfers, data
<1>7. CyclicTransmits' /\ SamplesContinuous'
    BY <1>1 DEF IInv, CyclicTransmits, SamplesContinuous, config, data
<1> QED
    BY <1>2, <1>4, <1>5, <1>6, <1>7 DEF IInv

\* The ring after a step, in terms of its queue.
LEMMA RingAfter ==
    ASSUME NEW q, q = From(ring', head', count'), toMemory' = toMemory
    PROVE  /\ Queued' = q
           /\ FifoOrder' <=> Ordered(q, finished', issued', nextId')
           /\ DoneBits' <=> DoneAre(done', early', finished', issued')
           /\ Loadable' <=> (running' <=> count' # 0) /\ (count' # 0 => enabled') /\ Transmitted(q)
<1>1. Queued' = q
    BY DEF Queued, From, Slot
<1>2. FifoOrder' <=> Ordered(q, finished', issued', nextId')
    BY <1>1 DEF FifoOrder
<1>3. DoneBits' <=> DoneAre(done', early', finished', issued')
    BY DEF DoneBits, DoneAre
<1>4. Transmitted(Queued)' <=> Transmitted(q)
    BY <1>1 DEF Transmitted
<1> QED
    BY <1>1, <1>2, <1>3, <1>4 DEF Loadable

\* A submission enters the ring, or is held.
LEMMA SubmitInv ==
    ASSUME IInv, Submit
    PROVE  IInv'
<1>1. /\ enabled /\ ~start /\ submitted' = submitted + 1
      /\ UNCHANGED <<head, finished, enabled, paused, config, data>>
    BY DEF Submit
<1>2. TypeOK /\ CyclicTransmits /\ TimeKept /\ LineFollowsLatch
    BY DEF IInv
<1>3. CyclicTransmits' /\ SamplesContinuous'
    BY <1>1 DEF IInv, CyclicTransmits, SamplesContinuous, config, data
<1>4. CASE Hold
    <2>1. start' = TRUE /\ UNCHANGED <<ring, count, running, issued, early, ids, irq, timing>>
        BY <1>4 DEF Hold
    <2>2. SavedStateLoads' /\ FifoOrder' /\ DoneBits'
        BY <1>1, <2>1, QueueStays DEF ids, config
    <2>3. TimeKept' /\ LineFollowsLatch'
        BY <1>1, <1>2, <2>1 DEF TimeKept, LineFollowsLatch, timing, irq
    <2>4. TypeOK'
        BY <1>1, <1>2, <2>1 DEF TypeOK, config, data, ids, irq, timing
    <2> QED
        BY <1>3, <2>2, <2>3, <2>4 DEF IInv
<1>5. CASE Accept
    <2>1. /\ count < Depth /\ Enter(head, count, done, early) /\ start' = start
          /\ UpdateIrq(irqSource \cup EnterCause, irqMask)
          /\ IF running THEN UNCHANGED <<running, activeId, timing>> ELSE StartHead(head, timer)
        BY <1>5 DEF Accept
    <2>2. /\ head \in Ids /\ count \in Nat /\ finished \in Nat /\ issued \in Nat /\ Depth \in Nat
          /\ done \in SUBSET Ids /\ early \in SUBSET Ids /\ toMemory' = toMemory
        BY <1>1, <1>2, P210Assumption DEF TypeOK, config
    <2>3. /\ Ordered(From(ring, head, count), finished, issued, nextId)
          /\ DoneAre(done, early, finished, issued)
          /\ Transmitted(From(ring, head, count)) /\ (running <=> count # 0)
        BY <1>2, QueuedTyped, LoadAcceptsMeans
           DEF IInv, FifoOrder, DoneBits, DoneAre, SavedStateLoads, Loadable
    <2> DEFINE q == From(ring', head, count + 1)
    <2>4. /\ ring' \in [Ids -> Descriptor] /\ count' = count + 1
          /\ nextId' \in Ids /\ issued' \in Nat /\ done' \subseteq Ids /\ early' \subseteq Ids
          /\ Ordered(q, finished, issued', nextId')
          /\ DoneAre(done', early', finished, issued')
          /\ Transmitted(q)
        BY <1>2, <2>1, <2>2, <2>3, EnterKeeps
    <2>5. /\ running' = TRUE /\ activeId' \in Ids
          /\ timer' \in Nat \cup {NoTimer} /\ saved' \in Nat /\ owed' \in Nat
          /\ TimeKept'
        <3>1. CASE running
            <4>1. UNCHANGED <<running, activeId, timing, paused>>
                BY <1>1, <2>1, <3>1
            <4> QED
                BY <1>2, <3>1, <4>1 DEF TypeOK, TimeKept, timing
        <3>2. CASE ~running
            <4>1. paused \in BOOLEAN /\ (paused => timer = NoTimer)
                BY <1>2 DEF TypeOK, TimeKept
            <4> QED
                BY <1>1, <2>1, <2>2, <2>4, <3>2, <4>1, StartHeadKeeps
        <3> QED
            BY <1>2, <3>1, <3>2
    <2>6. q = From(ring', head', count')
        BY <1>1, <2>4
    <2> HIDE DEF q
    <2>7. FifoOrder' /\ DoneBits' /\ Loadable'
        <3>1. count' # 0 /\ finished' = finished /\ enabled' = enabled
            BY <1>1, <2>2, <2>4
        <3> QED
            BY <1>1, <2>2, <2>4, <2>5, <2>6, <3>1, RingAfter
    <2>8. /\ irqMask' \subseteq Causes /\ irqSource' \subseteq Causes
          /\ irqPending' \subseteq Causes /\ line' \in BOOLEAN
          /\ LineFollowsLatch'
        <3>1. irqSource \cup EnterCause \in SUBSET Causes /\ irqMask \in SUBSET Causes
            BY <1>2 DEF TypeOK, EnterCause, Causes
        <3> QED
            BY <2>1, <3>1, IrqUpdated
    <2>9. TypeOK'
        <3>1. count' \in 0 .. Depth
            BY <2>1, <2>2, <2>4
        <3> QED
            BY <1>1, <1>2, <2>1, <2>4, <2>5, <2>8, <3>1 DEF TypeOK, config, data
    <2>10. SavedStateLoads'
        BY <2>7, <2>9, LoadAcceptsNext DEF SavedStateLoads
    <2> QED
        BY <1>3, <2>5, <2>7, <2>8, <2>9, <2>10 DEF IInv
<1> QED
    BY <1>4, <1>5 DEF Submit

\* The histories after the head d has ended.
FinishedAfter(d) == IF d.cyclic THEN finished ELSE finished + 1
EarlyAfter(d)    == IF d.cyclic THEN early \cup {d.id} ELSE early

\* What is left when the head has ended.
LEMMA HeadEnded ==
    ASSUME IInv, count # 0, NEW d, d = ring[head]
    PROVE  /\ Slot(1) \in Ids /\ count - 1 \in Nat /\ count - 1 < Depth
           /\ FinishedAfter(d) \in Nat /\ done \cup {d.id} \in SUBSET Ids /\ EarlyAfter(d) \in SUBSET Ids
           /\ From(ring, Slot(1), count - 1) = Tail(Queued)
           /\ Ordered(From(ring, Slot(1), count - 1), FinishedAfter(d), issued, nextId)
           /\ DoneAre(done \cup {d.id}, EarlyAfter(d), FinishedAfter(d), issued)
           /\ Transmitted(From(ring, Slot(1), count - 1))
<1> DEFINE f      == FinishedAfter(d)
           failed == EarlyAfter(d)
<1>0. /\ f = IF d.cyclic THEN finished ELSE finished + 1
      /\ failed = IF d.cyclic THEN early \cup {d.id} ELSE early
    BY DEF FinishedAfter, EarlyAfter
<1> HIDE DEF f, failed
<1> DEFINE q == Queued
           t == Tail(Queued)
<1>1. /\ ring \in [Ids -> Descriptor] /\ head \in Ids /\ head \in Nat /\ count \in Nat \ {0}
      /\ count <= Depth /\ Depth \in Nat /\ finished \in Nat /\ issued \in Nat
      /\ done \subseteq Ids /\ early \subseteq Ids
    BY P210Assumption DEF IInv, TypeOK, Ids
<1>2. q = From(ring, head, count) /\ q \in Seq(Descriptor) /\ Len(q) = count /\ q # <<>> /\ Head(q) = d
    BY QueuedTyped DEF IInv
<1>3. d \in Descriptor /\ d.id \in Ids /\ d.cyclic \in BOOLEAN
    BY <1>1 DEF Descriptor
<1>4. Slot(1) = (head + 1) % Depth /\ Slot(1) \in Ids
    <2>1. head + 1 \in Nat
        BY <1>1
    <2> QED
        BY <2>1, PlaceIsId DEF Slot
<1>5. From(ring, Slot(1), count - 1) = t
    BY <1>1, <1>2, <1>4, FromNext
<1>6. Ordered(q, finished, issued, nextId) /\ DoneAre(done, early, finished, issued)
    BY DEF IInv, FifoOrder, DoneBits, DoneAre
<1>7. Transmitted(q)
    BY LoadAcceptsMeans DEF IInv, SavedStateLoads, Loadable
<1>8. t \in Seq(Descriptor) /\ Len(t) = count - 1 /\ \A i \in 1 .. Len(t) : t[i] = q[i + 1]
    BY <1>2
<1>9. Transmitted(t)
    <2>1. \A i \in 1 .. Len(t) : i + 1 \in 1 .. Len(q)
        BY <1>1, <1>2, <1>8
    <2> QED
        BY <1>7, <1>8, <2>1 DEF Transmitted
<1> HIDE DEF q, t
<1>10. /\ Ordered(t, f, issued, nextId)
       /\ ~d.cyclic => d.id = finished % Depth /\ finished < issued
    <2>1. /\ Ordered(Tail(q), IF Head(q).cyclic THEN finished ELSE finished + 1, issued, nextId)
          /\ ~Head(q).cyclic => Head(q).id = finished % Depth /\ finished < issued
        BY <1>1, <1>2, <1>6, TailOrdered
    <2> QED
        BY <1>0, <1>2, <2>1 DEF q, t
<1>11. DoneAre(done \cup {d.id}, failed, f, issued)
    <2>1. CASE d.cyclic
        BY <1>0, <1>6, <2>1 DEF DoneAre
    <2>2. CASE ~d.cyclic
        <3>1. issued \in finished .. finished + count
            BY <1>1, <1>2, <1>6, InFlight
        <3>2. issued <= finished + Depth /\ finished < issued
            BY <1>1, <1>10, <2>2, <3>1
        <3> QED
            BY <1>0, <1>1, <1>6, <1>10, <2>2, <3>2, RetiredDone
    <2> QED
        BY <2>1, <2>2
<1> QED
    <2>1. count - 1 \in Nat /\ count - 1 < Depth /\ f \in Nat
        BY <1>0, <1>1
    <2>2. done \cup {d.id} \in SUBSET Ids /\ failed \in SUBSET Ids
        BY <1>0, <1>1, <1>3
    <2>3. From(ring, Slot(1), count - 1) = Tail(Queued)
        BY <1>5 DEF t
    <2> QED
        BY <1>4, <1>5, <1>9, <1>10, <1>11, <2>1, <2>2, <2>3 DEF f, failed

\* The ring after its head has ended, and a held submission has entered.
LEMMA RetireKeeps ==
    ASSUME IInv, running, count # 0, timer = 0, NEW d, d = ring[head], Retire(d),
           UNCHANGED <<enabled, paused, config>>, sampleIndex' \in Nat, captured' \in Nat
    PROVE  /\ TypeOK' /\ SavedStateLoads' /\ FifoOrder' /\ DoneBits' /\ TimeKept'
           /\ LineFollowsLatch'
<1> DEFINE f      == FinishedAfter(d)
           bits   == done \cup {d.id}
           failed == EarlyAfter(d)
           at     == Slot(1)
           q      == From(ring, at, count - 1)
           enters == start /\ enabled
<1>1. TypeOK /\ CyclicTransmits /\ toMemory' = toMemory
    BY DEF IInv, config
<1>2. /\ at \in Ids /\ count - 1 \in Nat /\ count - 1 < Depth /\ f \in Nat
      /\ bits \in SUBSET Ids /\ failed \in SUBSET Ids
      /\ Ordered(q, f, issued, nextId) /\ DoneAre(bits, failed, f, issued) /\ Transmitted(q)
    BY HeadEnded
<1>3. /\ finished' = f /\ head' = at /\ submitted' = submitted
      /\ IF enters
         THEN /\ Enter(at, count - 1, bits, failed) /\ start' = FALSE
              /\ UpdateIrq(irqSource \cup {"EOT"} \cup EnterCause, irqMask)
         ELSE /\ count' = count - 1 /\ done' = bits /\ early' = failed
              /\ UpdateIrq(irqSource \cup {"EOT"}, irqMask)
              /\ UNCHANGED <<ring, nextId, issued, start>>
      /\ IF count' = 0
         THEN /\ running' = FALSE /\ activeId' = nextId
              /\ timer' = NoTimer /\ saved' = 0 /\ owed' = 0
         ELSE StartHead(at, NoTimer)
    BY DEF Retire, FinishedAfter, EarlyAfter
<1>4. enabled
    BY LoadAcceptsMeans DEF IInv, SavedStateLoads, Loadable
<1> HIDE DEF f, bits, failed, at
<1> DEFINE r == From(ring', at, count')
<1>5. /\ ring' \in [Ids -> Descriptor] /\ count' \in 0 .. Depth
      /\ nextId' \in Ids /\ issued' \in Nat /\ done' \subseteq Ids /\ early' \subseteq Ids
      /\ Ordered(r, f, issued', nextId') /\ DoneAre(done', early', f, issued') /\ Transmitted(r)
    <2>1. CASE enters
        <3>1. count' = (count - 1) + 1 /\ count' \in 0 .. Depth
            BY <1>2, <1>3, <2>1, P210Assumption DEF Enter
        <3> QED
            BY <1>1, <1>2, <1>3, <2>1, <3>1, EnterKeeps
    <2>2. CASE ~enters
        BY <1>1, <1>2, <1>3, <2>2, P210Assumption DEF TypeOK
    <2> QED
        BY <2>1, <2>2
<1>6. /\ irqMask' \subseteq Causes /\ irqSource' \subseteq Causes
      /\ irqPending' \subseteq Causes /\ line' \in BOOLEAN
      /\ LineFollowsLatch'
    <2>1. /\ irqSource \cup {"EOT"} \cup EnterCause \in SUBSET Causes
          /\ irqSource \cup {"EOT"} \in SUBSET Causes /\ irqMask \in SUBSET Causes
        BY <1>1 DEF TypeOK, EnterCause, Causes
    <2> QED
        BY <1>3, <2>1, IrqUpdated
<1>7. /\ running' \in BOOLEAN /\ (running' <=> count' # 0) /\ activeId' \in Ids
      /\ timer' \in Nat \cup {NoTimer} /\ saved' \in Nat /\ owed' \in Nat
      /\ TimeKept'
    <2>1. CASE count' = 0
        <3>1. running' = FALSE /\ activeId' = nextId /\ timer' = NoTimer /\ saved' = 0 /\ owed' = 0
            BY <1>3, <2>1
        <3>2. nextId \in Ids
            BY <1>1 DEF TypeOK
        <3> QED
            BY <2>1, <3>1, <3>2 DEF TimeKept
    <2>2. CASE count' # 0
        <3>1. paused \in BOOLEAN /\ paused' = paused
            BY <1>1 DEF TypeOK
        <3> QED
            BY <1>2, <1>3, <1>5, <2>2, <3>1, StartHeadKeeps
    <2> QED
        BY <2>1, <2>2
<1>8. r = From(ring', head', count')
    BY <1>3
<1> HIDE DEF r
<1>9. FifoOrder' /\ DoneBits' /\ Loadable'
    BY <1>1, <1>3, <1>4, <1>5, <1>7, <1>8, RingAfter
<1>10. TypeOK'
    <2>1. start' \in BOOLEAN /\ submitted' \in Nat
        BY <1>1, <1>3 DEF TypeOK
    <2> QED
        BY <1>1, <1>2, <1>3, <1>5, <1>6, <1>7, <2>1 DEF TypeOK, config
<1>11. SavedStateLoads'
    BY <1>9, <1>10, LoadAcceptsNext DEF SavedStateLoads
<1> QED
    BY <1>6, <1>7, <1>9, <1>10, <1>11

\* A copy moves the sample index by the frames that it wrote.
LEMMA CompleteInv ==
    ASSUME IInv, Complete
    PROVE  IInv'
<1>1. timer = 0 /\ UNCHANGED <<enabled, paused, config>>
    BY DEF Complete
<1>2. running /\ count # 0 /\ ~paused
    BY <1>1, LoadAcceptsMeans DEF IInv, TimeKept, NoTimer, SavedStateLoads, Loadable
<1>3. count > 0
    BY <1>2 DEF IInv, TypeOK
<1> DEFINE d == ring[head]
<1>4. PICK stop \in Stops[[length |-> d.length, scan |-> d.scan]] :
        /\ Copied(d, stop)
        /\ IF d.cyclic /\ stop.left = 0 THEN Repeat(d) ELSE Retire(d)
    BY <1>2, <1>3 DEF Complete
<1>5. d \in Descriptor
    BY DEF IInv, TypeOK
<1>6. /\ stop.frames \in Nat /\ stop.left \in Nat /\ (stop.left = 0 => stop.frames = FramesIn(d))
    BY <1>5, StopsCounted
<1>7. /\ sampleIndex' \in Nat /\ captured' \in Nat /\ SamplesContinuous'
    <2>1. sampleIndex' = sampleIndex + stop.frames /\ captured' = captured + stop.frames
        BY <1>4, <1>6 DEF Copied
    <2> QED
        BY <1>6, <2>1 DEF IInv, TypeOK, SamplesContinuous
<1>8. CyclicTransmits'
    BY <1>1 DEF IInv, CyclicTransmits, config
<1>9. CASE Repeat(d)
    <2>1. /\ owed' = Delay(d) /\ saved' = 0 /\ timer' = owed'
          /\ UNCHANGED <<ids, irq, transfers>>
        BY <1>2, <1>9 DEF Repeat
    <2>2. Delay(d) \in Nat \ {0}
        BY <1>5, DelayPositive
    <2>3. SavedStateLoads' /\ FifoOrder' /\ DoneBits'
        BY <1>1, <2>1, QueueStays DEF ids, transfers, config
    <2>4. TimeKept'
        BY <1>1, <1>2, <2>1, <2>2 DEF TimeKept, NoTimer, transfers
    <2>5. LineFollowsLatch'
        BY <2>1 DEF IInv, LineFollowsLatch, irq
    <2>6. TypeOK'
        BY <1>1, <1>7, <2>1, <2>2 DEF IInv, TypeOK, config, ids, irq, transfers
    <2> QED
        BY <1>7, <1>8, <2>3, <2>4, <2>5, <2>6 DEF IInv
<1>10. CASE Retire(d)
    <2>1. /\ TypeOK' /\ SavedStateLoads' /\ FifoOrder' /\ DoneBits' /\ TimeKept'
          /\ LineFollowsLatch'
        BY <1>1, <1>2, <1>7, <1>10, RetireKeeps
    <2> QED
        BY <1>7, <1>8, <2>1 DEF IInv
<1> QED
    BY <1>4, <1>9, <1>10

\* The invariant is inductive.
LEMMA NextInv == IInv /\ [Next]_vars => IInv'
<1> SUFFICES ASSUME IInv, [Next]_vars PROVE IInv'
    OBVIOUS
<1>1. CASE Next
    BY <1>1, RegisterInv, SubmitInv, ControlInv, ResetInv, TickInv, CompleteInv, MigrateInv
       DEF Next, Driver
<1>2. CASE UNCHANGED vars
    <2>1. SavedStateLoads' /\ FifoOrder' /\ DoneBits'
        BY <1>2, QueueStays DEF vars, config, ids, transfers
    <2>2. TypeOK'
        BY <1>2 DEF vars, config, irq, ids, timing, data, transfers, IInv, TypeOK
    <2>3. TimeKept' /\ LineFollowsLatch' /\ CyclicTransmits' /\ SamplesContinuous'
        BY <1>2 DEF vars, config, irq, timing, data, transfers, IInv, TimeKept, LineFollowsLatch,
           CyclicTransmits, SamplesContinuous
    <2> QED
        BY <2>1, <2>2, <2>3 DEF IInv
<1> QED
    BY <1>1, <1>2

-----------------------------------------------------------------------------
(* What holds in every reachable state.                                    *)

\* Every reachable state satisfies the inductive invariant.
THEOREM P210DmacInvariant == Spec => []IInv
BY InitInv, NextInv, PTL DEF Spec

\* The state has its types.
THEOREM P210DmacTypes == Spec => []TypeOK
<1>1. IInv => TypeOK
    BY DEF IInv
<1> QED
    BY <1>1, P210DmacInvariant, PTL

\* Whatever the driver did and wherever the controller is, its saved state is
\* one that p210_sdr_post_load accepts, the head has the time it is owed, and
\* the DONE bits are those of what has finished.
THEOREM SavedStatesResume == Spec => []SavedStateResumes
<1>1. IInv => SavedStateResumes
    BY DEF IInv, SavedStateResumes
<1> QED
    BY <1>1, P210DmacInvariant, PTL

\* The receive tones continue over chunks, transfers, pauses and bus errors:
\* for any lengths, channels and chunk, the sample index is the number of
\* frames of what was copied (p210_dmac_complete).
THEOREM TonesContinue == Spec => []SamplesContinuous
<1>1. IInv => SamplesContinuous
    BY DEF IInv
<1> QED
    BY <1>1, P210DmacInvariant, PTL

\* The interrupt line is up exactly while a cause is latched and not masked,
\* also after a migration (p210_dmac_update_irq).
THEOREM P210LineLatched == Spec => []LineFollowsLatch
<1>1. IInv => LineFollowsLatch
    BY DEF IInv
<1> QED
    BY <1>1, P210DmacInvariant, PTL

\* Transfers run in the order they were accepted and none is skipped, also
\* after a cyclic one ended by a bus error.
THEOREM RingInOrder == Spec => []FifoOrder
<1>1. IInv => FifoOrder
    BY DEF IInv
<1> QED
    BY <1>1, P210DmacInvariant, PTL

-----------------------------------------------------------------------------
(* The ring implements DmaQueue.                                           *)

\* What the queue shows of a descriptor.
Shown(d) == [id |-> d.id, cyclic |-> d.cyclic]

\* Length and elements of what is shown of a queue.
LEMMA ShownFields ==
    ASSUME NEW q \in Seq(Descriptor)
    PROVE  /\ Transfers(q) \in Seq([id : Ids, cyclic : BOOLEAN])
           /\ Len(Transfers(q)) = Len(q)
           /\ \A i \in 1 .. Len(q) : Transfers(q)[i] = Shown(q[i])
<1>1. \A i \in 1 .. Len(q) : Shown(q[i]) \in [id : Ids, cyclic : BOOLEAN]
    <2>1. \A d \in Descriptor : Shown(d) \in [id : Ids, cyclic : BOOLEAN]
        BY DEF Shown, Descriptor
    <2>2. \A i \in 1 .. Len(q) : q[i] \in Descriptor
        OBVIOUS
    <2> QED
        BY <2>1, <2>2
<1>2. Transfers(q) = [i \in 1 .. Len(q) |-> Shown(q[i])]
    BY DEF Transfers, Shown
<1>3. Len(q) \in Nat
    OBVIOUS
<1> HIDE DEF Shown
<1> QED
    BY <1>1, <1>2, <1>3

\* An empty queue, and only that, shows no transfers.
LEMMA EmptyShown ==
    ASSUME NEW q \in Seq(Descriptor)
    PROVE  Transfers(q) = << >> <=> q = << >>
BY ShownFields

\* The head that is shown is that of the queue.
LEMMA HeadShown ==
    ASSUME NEW q \in Seq(Descriptor), q # << >>
    PROVE  Head(Transfers(q)) = Shown(Head(q))
<1>1. 1 \in 1 .. Len(q) /\ Head(q) = q[1]
    OBVIOUS
<1> QED
    BY <1>1, ShownFields

\* Retiring the head retires what is shown of it.
LEMMA TailShown ==
    ASSUME NEW q \in Seq(Descriptor), q # << >>
    PROVE  Transfers(Tail(q)) = Tail(Transfers(q))
<1> DEFINE t == Tail(q)
           T == Transfers(q)
<1>1. /\ t \in Seq(Descriptor) /\ Len(t) = Len(q) - 1 /\ Len(q) \in Nat \ {0}
      /\ \A i \in 1 .. Len(t) : t[i] = q[i + 1]
    OBVIOUS
<1>2. /\ Len(T) = Len(q) /\ T \in Seq([id : Ids, cyclic : BOOLEAN])
      /\ \A i \in 1 .. Len(q) : T[i] = Shown(q[i])
    BY ShownFields
<1>3. /\ Len(Transfers(t)) = Len(t)
      /\ Transfers(t) \in Seq([id : Ids, cyclic : BOOLEAN])
      /\ \A i \in 1 .. Len(t) : Transfers(t)[i] = Shown(t[i])
    BY <1>1, ShownFields
<1> HIDE DEF t, T
<1>4. \A i \in 1 .. Len(t) : i + 1 \in 1 .. Len(q)
    BY <1>1
<1>5. /\ Tail(T) \in Seq([id : Ids, cyclic : BOOLEAN]) /\ Len(Tail(T)) = Len(t)
      /\ \A i \in 1 .. Len(t) : Tail(T)[i] = T[i + 1]
    BY <1>1, <1>2
<1>6. \A i \in 1 .. Len(t) : Tail(T)[i] = Transfers(t)[i]
    BY <1>1, <1>2, <1>3, <1>4, <1>5
<1>7. Transfers(t) = Tail(T)
    BY <1>3, <1>5, <1>6
<1> QED
    BY <1>7 DEF t, T

\* Appending a descriptor appends what is shown of it.
LEMMA AppendShown ==
    ASSUME NEW q \in Seq(Descriptor), NEW d \in Descriptor
    PROVE  Transfers(Append(q, d)) = Append(Transfers(q), Shown(d))
<1> DEFINE a == Append(q, d)
           T == Transfers(q)
           R == [id : Ids, cyclic : BOOLEAN]
<1>1. /\ a \in Seq(Descriptor) /\ Len(a) = Len(q) + 1 /\ Len(q) \in Nat
      /\ a[Len(q) + 1] = d
      /\ \A i \in 1 .. Len(q) : a[i] = q[i]
    OBVIOUS
<1>2. /\ Len(T) = Len(q) /\ T \in Seq(R)
      /\ \A i \in 1 .. Len(q) : T[i] = Shown(q[i])
    BY ShownFields
<1>3. /\ Len(Transfers(a)) = Len(a) /\ Transfers(a) \in Seq(R)
      /\ \A i \in 1 .. Len(a) : Transfers(a)[i] = Shown(a[i])
    BY <1>1, ShownFields
<1>4. Shown(d) \in R
    BY DEF Shown, Descriptor
<1> HIDE DEF a, T, R
<1>5. /\ Append(T, Shown(d)) \in Seq(R) /\ Len(Append(T, Shown(d))) = Len(a)
      /\ Append(T, Shown(d))[Len(q) + 1] = Shown(d)
      /\ \A i \in 1 .. Len(q) : Append(T, Shown(d))[i] = T[i]
    BY <1>1, <1>2, <1>4
<1>6. \A i \in 1 .. Len(a) : Append(T, Shown(d))[i] = Transfers(a)[i]
    <2> TAKE i \in 1 .. Len(a)
    <2>1. CASE i = Len(q) + 1
        BY <2>1, <1>1, <1>3, <1>5
    <2>2. CASE i \in 1 .. Len(q)
        <3>1. Append(T, Shown(d))[i] = Shown(q[i])
            BY <2>2, <1>2, <1>5
        <3>2. Transfers(a)[i] = Shown(a[i]) /\ a[i] = q[i]
            BY <2>2, <1>1, <1>3
        <3> QED
            BY <3>1, <3>2
    <2>3. i = Len(q) + 1 \/ i \in 1 .. Len(q)
        <3>1. Len(a) = Len(q) + 1 /\ Len(q) \in Nat
            BY <1>1
        <3> QED
            BY <3>1
    <2> QED
        BY <2>1, <2>2, <2>3
<1>7. Transfers(a) = Append(T, Shown(d))
    BY <1>3, <1>5, <1>6
<1> QED
    BY <1>7 DEF a, T


\* What a submission looks like to the queue.
LEMMA EnterShown ==
    ASSUME TypeOK, NEW q \in Seq(Descriptor), NEW at, NEW waiting, NEW bits, NEW failed,
           Queued' = Append(q, Submitted), Enter(at, waiting, bits, failed)
    PROVE  Queue!Enter(Transfers(q), bits, cyclicFlag)
<1>1. Submitted \in Descriptor /\ Shown(Submitted) = [id |-> nextId, cyclic |-> cyclicFlag]
    BY SubmittedTyped DEF Submitted, Shown
<1>2. Transfers(Queued)' = Append(Transfers(q), [id |-> nextId, cyclic |-> cyclicFlag])
    <2>1. Transfers(Queued)' = Transfers(Append(q, Submitted))
        BY DEF Transfers
    <2> QED
        BY <2>1, <1>1, AppendShown
<1>3. /\ nextId' = IF cyclicFlag THEN nextId ELSE (nextId + 1) % Depth
      /\ done' = IF cyclicFlag THEN bits ELSE bits \ {nextId}
    BY DEF Enter, FollowingId, Taken
<1> QED
    BY <1>2, <1>3 DEF Queue!Enter

\* Steps that leave the transfers alone.
LEMMA NotSeen ==
    ASSUME UNCHANGED <<ring, head, count, start, nextId, done>>
    PROVE  UNCHANGED Queue!queueVars
<1>1. Queued' = Queued
    BY DEF Queued, Slot
<1> QED
    BY <1>1 DEF Queue!queueVars, Transfers

\* The controller with nothing to do shows an empty queue.
LEMMA ClearedShown == Cleared => Queue!Init
<1> SUFFICES ASSUME Cleared PROVE Queue!Init
    OBVIOUS
<1>1. Queued \in Seq(Descriptor) /\ Len(Queued) = 0
    BY ClearedIsSound, QueuedIsFrom, FromTyped DEF Cleared, ClearTypes
<1>2. Queued = << >>
    BY <1>1
<1> QED
    BY <1>1, <1>2, EmptyShown DEF Cleared, Queue!Init

LEMMA ForgetShown == Cleared' => Queue!Clear
<1>1. Cleared' => Queue!Init'
    BY ClearedShown, PTL
<1> QED
    BY <1>1 DEF Queue!Init, Queue!Clear

\* A submission with room is one of the queue, and one without is held by both.
LEMMA SubmitShown == ASSUME IInv, Submit PROVE Queue!Next
<1>1. /\ TypeOK /\ Queued = From(ring, head, count) /\ Queued \in Seq(Descriptor)
      /\ Len(Queued) = count /\ head \in Ids /\ count \in Nat /\ cyclicFlag \in BOOLEAN
      /\ ~start /\ head' = head
    BY QueuedTyped, P210Assumption DEF IInv, TypeOK, Submit
<1>2. Len(Transfers(Queued)) = count
    BY <1>1, ShownFields
<1>3. CASE Accept
    <2>1. count < Depth /\ Enter(head, count, done, early) /\ start' = start /\ count' = count + 1
        BY <1>3 DEF Accept, Enter
    <2>2. Queued' = Append(Queued, Submitted)
        <3>1. /\ CyclicTransmits /\ toMemory' = toMemory
              /\ done \in SUBSET Ids /\ early \in SUBSET Ids /\ finished \in Nat
            BY DEF IInv, TypeOK, Submit, config
        <3>2. /\ Ordered(From(ring, head, count), finished, issued, nextId)
              /\ DoneAre(done, early, finished, issued) /\ Transmitted(From(ring, head, count))
            BY <1>1, LoadAcceptsMeans
               DEF IInv, FifoOrder, DoneBits, DoneAre, SavedStateLoads, Loadable
        <3>3. From(ring', head, count + 1) = Append(From(ring, head, count), Submitted)
            BY <1>1, <2>1, <3>1, <3>2, EnterKeeps
        <3>4. Queued' = From(ring', head', count')
            BY DEF Queued, From, Slot
        <3> QED
            BY <1>1, <2>1, <3>3, <3>4
    <2>3. Queue!Enter(Transfers(Queued), done, cyclicFlag)
        BY <1>1, <2>1, <2>2, EnterShown
    <2>4. Queue!Submit
        BY <1>1, <1>2, <2>1, <2>3 DEF Queue!Submit
    <2> QED
        BY <2>4 DEF Queue!Next
<1>4. CASE Hold
    <2>1. count = Depth /\ start' = TRUE /\ UNCHANGED <<ring, count, nextId, done>>
        BY <1>4 DEF Hold, ids
    <2>2. Transfers(Queued)' = Transfers(Queued)
        <3>1. Queued' = Queued
            BY <1>1, <2>1 DEF Queued, Slot
        <3> QED
            BY <3>1 DEF Transfers
    <2>3. Queue!Hold
        BY <1>1, <1>2, <2>1, <2>2 DEF Queue!Hold
    <2> QED
        BY <2>3 DEF Queue!Next
<1> QED
    BY <1>3, <1>4 DEF Submit

\* The head that ends is the first of the queue, and a held submission enters.
LEMMA RetireShown ==
    ASSUME IInv, running, count # 0, NEW d, d = ring[head], Retire(d),
           UNCHANGED <<enabled, paused, config>>
    PROVE  Queue!End
<1> DEFINE at   == Slot(1)
           q    == From(ring, at, count - 1)
           bits == done \cup {d.id}
           failed == EarlyAfter(d)
<1>1. /\ TypeOK /\ CyclicTransmits /\ toMemory' = toMemory /\ cyclicFlag \in BOOLEAN
      /\ start \in BOOLEAN /\ enabled
    BY LoadAcceptsMeans DEF IInv, TypeOK, config, SavedStateLoads, Loadable
<1>2. Queued \in Seq(Descriptor) /\ Queued # << >> /\ Head(Queued) = d
    BY <1>1, QueuedTyped
<1>3. /\ at \in Ids /\ count - 1 \in Nat /\ count - 1 < Depth /\ FinishedAfter(d) \in Nat
      /\ bits \in SUBSET Ids /\ failed \in SUBSET Ids /\ q = Tail(Queued)
      /\ Ordered(q, FinishedAfter(d), issued, nextId)
      /\ DoneAre(bits, failed, FinishedAfter(d), issued) /\ Transmitted(q)
    BY HeadEnded
<1>4. Queued' = From(ring', head', count') /\ head' = at
    <2>1. Queued' = From(ring', head', count')
        BY DEF Queued, From, Slot
    <2> QED
        BY <2>1 DEF Retire
<1> HIDE DEF at, failed
<1>5. q \in Seq(Descriptor) /\ q = Tail(Queued)
    BY <1>2, <1>3
<1>6. /\ Transfers(Queued) # << >> /\ Head(Transfers(Queued)).id = d.id
      /\ Tail(Transfers(Queued)) = Transfers(q)
    <2>1. Transfers(Queued) # << >>
        BY <1>2, EmptyShown
    <2>2. Head(Transfers(Queued)) = Shown(d)
        BY <1>2, HeadShown
    <2>3. Shown(d).id = d.id
        BY DEF Shown
    <2>4. Transfers(Tail(Queued)) = Tail(Transfers(Queued))
        BY <1>2, TailShown
    <2> QED
        BY <1>5, <2>1, <2>2, <2>3, <2>4
<1> HIDE DEF q
<1>7. CASE start
    <2>1. Enter(at, count - 1, bits, failed) /\ start' = FALSE
        BY <1>1, <1>7 DEF Retire, at, failed, EarlyAfter
    <2>2. count' = (count - 1) + 1
        BY <2>1 DEF Enter
    <2>3. Queued' = Append(q, Submitted)
        <3>1. From(ring', at, (count - 1) + 1) = Append(q, Submitted)
            BY <1>1, <1>3, <2>1, EnterKeeps DEF q
        <3> QED
            BY <1>4, <2>2, <3>1
    <2>4. Queue!Enter(Transfers(q), bits, cyclicFlag)
        BY <1>1, <1>5, <2>1, <2>3, EnterShown
    <2> QED
        BY <1>1, <1>6, <1>7, <2>1, <2>4 DEF Queue!End
<1>8. CASE ~start
    <2>1. /\ count' = count - 1 /\ done' = bits /\ start' = start
          /\ ring' = ring /\ nextId' = nextId
        BY <1>8 DEF Retire
    <2>2. Transfers(Queued)' = Transfers(q)
        <3>1. Queued' = q
            BY <1>4, <2>1 DEF q
        <3> QED
            BY <3>1 DEF Transfers
    <2> QED
        BY <1>6, <1>8, <2>1, <2>2 DEF Queue!End
<1> QED
    BY <1>1, <1>7, <1>8

\* Every step is one of the queue or leaves it alone.
LEMMA NextShown == IInv /\ [Next]_vars => [Queue!Next]_(Queue!queueVars)
<1> SUFFICES ASSUME IInv, [Next]_vars
             PROVE  Queue!Next \/ UNCHANGED Queue!queueVars
    OBVIOUS
<1>1. CASE WriteMask \/ Acknowledge \/ WriteFlags \/ WriteLength \/ WriteScan
    <2>1. UNCHANGED <<ring, head, count, start, nextId, done>>
        BY <1>1 DEF WriteMask, Acknowledge, WriteFlags, WriteLength, WriteScan, transfers, ids
    <2> QED
        BY <2>1, NotSeen
<1>2. CASE Submit
    BY <1>2, SubmitShown
<1>3. CASE WriteControl
    <2>1. CASE \E pause \in BOOLEAN : Disable(pause)
        <3>1. Cleared'
            BY <2>1 DEF Disable, Cleared
        <3> QED
            BY <3>1, ForgetShown DEF Queue!Next
    <2>2. CASE \E pause \in BOOLEAN : Enable(pause)
        <3>1. UNCHANGED <<ring, head, count, start, nextId, done>>
            BY <2>2 DEF Enable, transfers, ids
        <3> QED
            BY <3>1, NotSeen
    <2> QED
        BY <1>3, <2>1, <2>2 DEF WriteControl
<1>4. CASE Reset
    <2>1. Cleared'
        BY <1>4 DEF Reset, Cleared
    <2> QED
        BY <2>1, ForgetShown DEF Queue!Next
<1>5. CASE Tick \/ Migrate
    <2>1. UNCHANGED <<ring, head, count, start, nextId, done>>
        BY <1>5 DEF Tick, Migrate, transfers, ids
    <2> QED
        BY <2>1, NotSeen
<1>6. CASE Complete
    <2>1. running /\ count # 0 /\ count > 0
        BY <1>6, LoadAcceptsMeans
           DEF Complete, IInv, TypeOK, TimeKept, NoTimer, SavedStateLoads, Loadable
    <2>2. Repeat(ring[head]) \/ Retire(ring[head])
        BY <1>6, <2>1 DEF Complete
    <2>3. CASE Repeat(ring[head])
        <3>1. UNCHANGED <<ring, head, count, start, nextId, done>>
            BY <2>3 DEF Repeat, ids, transfers
        <3> QED
            BY <3>1, NotSeen
    <2>4. CASE Retire(ring[head])
        BY <1>6, <2>1, <2>4, RetireShown DEF Complete, Queue!Next
    <2> QED
        BY <2>2, <2>3, <2>4
<1>7. CASE UNCHANGED vars
    <2>1. UNCHANGED <<ring, head, count, start, nextId, done>>
        BY <1>7 DEF vars, transfers, ids
    <2> QED
        BY <2>1, NotSeen
<1> QED
    BY <1>1, <1>2, <1>3, <1>4, <1>5, <1>6, <1>7 DEF Next, Driver

\* Whatever the driver, the bus and migration do, the ring loses, repeats and
\* reorders nothing that the abstract queue would not
\* (p210_dmac_accept_descriptor, p210_dmac_complete).
THEOREM RingImplementsQueue == Spec => ImplementsQueue
<1>1. Init => Queue!Init
    <2>1. Init => Cleared
        BY DEF Init, Cleared
    <2> QED
        BY <2>1, ClearedShown
<1>2. IInv /\ [Next]_vars => [Queue!Next]_(Queue!queueVars)
    BY NextShown
<1> QED
    BY <1>1, <1>2, P210DmacInvariant, PTL DEF Spec, ImplementsQueue, Queue!Spec

=============================================================================
