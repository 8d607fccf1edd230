--------------------------- MODULE ThreadLabProofs --------------------------
(***************************************************************************)
(* What both thread labs rest on, proved for every number of threads,      *)
(* every size and step, and whatever fails: the ring keeps its shape and   *)
(* its messages through puts, takes and resizes, a message has one owner,  *)
(* and the main thread keeps its books.  SemQueueProofs and                *)
(* CondQueueProofs add what the threads do.                                *)
(***************************************************************************)
EXTENDS ThreadLab, FiniteSetTheorems, SequenceTheorems, TLAPS

-----------------------------------------------------------------------------
(* The ring, as an array b of c slots with n messages from slot h to slot  *)
(* t.                                                                      *)

Wrapped(a, c) == a % c

Place(b, c, h, k) == b[Wrapped(h + k, c)]

Places(b, c, h, n) == {Place(b, c, h, k) : k \in 0 .. n - 1}

\* The places in use hold messages, all of them different.
Holds(b, c, h, n) ==
  /\ \A k \in 0 .. n - 1 : Place(b, c, h, k) \in Message
  /\ \A j, k \in 0 .. n - 1 : Place(b, c, h, j) = Place(b, c, h, k) => j = k

\* t is where the messages end, modulo the capacity; one past the array only after
\* an exact fit.
RingOf(b, c, h, t, n) ==
  /\ c \in Nat /\ h \in 0 .. c /\ t \in 0 .. c /\ n \in 0 .. c
  /\ b \in [0 .. c - 1 -> Message \cup {NoMessage}]
  /\ c > 0 => h < c
  /\ t = h + n \/ t + c = h + n \/ (t = c /\ h = 0 /\ n = 0)
  /\ Holds(b, c, h, n)

LEMMA Wraps ==
  ASSUME NEW c \in Nat, NEW a \in Nat, a < c + c
  PROVE  Wrapped(a, c) = IF a < c THEN a ELSE a - c
<1>1. CASE a < c
  BY <1>1 DEF Wrapped
<1>2. CASE a >= c
  BY <1>2 DEF Wrapped
<1> QED
  BY <1>1, <1>2

LEMMA PlaceIs ==
  ASSUME NEW b, NEW c \in Nat, NEW h \in 0 .. c - 1, NEW k \in 0 .. c
  PROVE  Place(b, c, h, k) = b[IF h + k < c THEN h + k ELSE h + k - c]
<1>1. h + k \in Nat /\ h + k < c + c
  OBVIOUS
<1>2. Wrapped(h + k, c) = IF h + k < c THEN h + k ELSE h + k - c
  BY <1>1, Wraps
<1> QED
  BY <1>2 DEF Place

LEMMA NoMessageIsNone == NoMessage \notin Message
BY DEF NoMessage, Message

\* A new message in the slot behind the others.
Stored(b, t, m, d) == d = [b EXCEPT ![t] = m]

LEMMA PutInRing ==
  ASSUME NEW b, NEW c, NEW h, NEW t, NEW n, NEW m, NEW d, NEW u, NEW v,
         RingOf(b, c, h, t, n), n < c, t < c, m \in Message, m \notin Places(b, c, h, n),
         Stored(b, t, m, d), u = Wrapped(t + 1, c), v = n + 1
  PROVE  /\ RingOf(d, c, h, u, v)
         /\ Places(d, c, h, v) = Places(b, c, h, n) \cup {m}
         /\ Place(d, c, h, n) = m
         /\ \A k \in 0 .. n - 1 : Place(d, c, h, k) = Place(b, c, h, k)
<1>1. /\ c \in Nat /\ c > 0 /\ h \in 0 .. c - 1 /\ t \in 0 .. c - 1 /\ n \in 0 .. c - 1
      /\ b \in [0 .. c - 1 -> Message \cup {NoMessage}]
      /\ t = IF h + n < c THEN h + n ELSE h + n - c
  BY DEF RingOf
<1>2. Wrapped(t + 1, c) = IF t + 1 < c THEN t + 1 ELSE t + 1 - c
  <2>1. t + 1 \in Nat /\ t + 1 < c + c
    BY <1>1
  <2> QED
    BY <1>1, <2>1, Wraps
<1>3. /\ d \in [0 .. c - 1 -> Message \cup {NoMessage}]
      /\ d[t] = m /\ \A k \in 0 .. c - 1 : k # t => d[k] = b[k]
  BY <1>1 DEF Stored
<1>4. ASSUME NEW k \in 0 .. n - 1 PROVE Place(d, c, h, k) = Place(b, c, h, k)
  <2>1. k \in 0 .. c
    BY <1>1
  <2>2. /\ Place(b, c, h, k) = b[IF h + k < c THEN h + k ELSE h + k - c]
        /\ Place(d, c, h, k) = d[IF h + k < c THEN h + k ELSE h + k - c]
    BY <1>1, <2>1, PlaceIs
  <2>3. (IF h + k < c THEN h + k ELSE h + k - c) \in (0 .. c - 1) \ {t}
    BY <1>1
  <2> QED
    BY <1>3, <2>2, <2>3
<1>5. Place(d, c, h, n) = m
  <2>1. n \in 0 .. c
    BY <1>1
  <2>2. Place(d, c, h, n) = d[IF h + n < c THEN h + n ELSE h + n - c]
    BY <1>1, <2>1, PlaceIs
  <2> QED
    BY <1>1, <1>3, <2>2
<1>6. 0 .. (n + 1) - 1 = (0 .. n - 1) \cup {n}
  BY <1>1
<1>7. Places(d, c, h, n + 1) = Places(b, c, h, n) \cup {m}
  BY <1>4, <1>5, <1>6 DEF Places
<1>8. \A k \in 0 .. n - 1 : Place(b, c, h, k) # m
  BY DEF Places
<1>9. Holds(d, c, h, n + 1)
  <2>1. \A k \in 0 .. (n + 1) - 1 : Place(d, c, h, k) \in Message
    BY <1>4, <1>5, <1>6 DEF RingOf, Holds
  <2>2. ASSUME NEW j \in 0 .. (n + 1) - 1, NEW k \in 0 .. (n + 1) - 1,
               Place(d, c, h, j) = Place(d, c, h, k)
        PROVE  j = k
    BY <1>4, <1>5, <1>6, <1>8, <2>2 DEF RingOf, Holds
  <2> QED
    BY <2>1, <2>2 DEF Holds
<1>10. RingOf(d, c, h, Wrapped(t + 1, c), n + 1)
  BY <1>1, <1>2, <1>3, <1>9 DEF RingOf
<1> QED
  BY <1>4, <1>5, <1>7, <1>10

\* What is left after the oldest message was taken.
LEMMA TakeFromRing ==
  ASSUME NEW b, NEW c, NEW h, NEW t, NEW n, NEW f, NEW v, RingOf(b, c, h, t, n), n > 0,
         f = Wrapped(h + 1, c), v = n - 1
  PROVE  /\ RingOf(b, c, f, t, v)
         /\ b[h] = Place(b, c, h, 0) /\ b[h] \in Message /\ b[h] \in Places(b, c, h, n)
         /\ Places(b, c, f, v) = Places(b, c, h, n) \ {b[h]}
         /\ \A k \in 0 .. n - 2 : Place(b, c, f, k) = Place(b, c, h, k + 1)
<1>1. /\ c \in Nat /\ c > 0 /\ h \in 0 .. c - 1 /\ n \in 1 .. c
      /\ b \in [0 .. c - 1 -> Message \cup {NoMessage}]
  BY DEF RingOf
<1>2. f = IF h + 1 < c THEN h + 1 ELSE h + 1 - c
  <2>1. h + 1 \in Nat /\ h + 1 < c + c
    BY <1>1
  <2> QED
    BY <1>1, <2>1, Wraps
<1>3. f \in 0 .. c - 1
  BY <1>1, <1>2
<1>4. b[h] = Place(b, c, h, 0)
  <2>1. Place(b, c, h, 0) = b[IF h + 0 < c THEN h + 0 ELSE h + 0 - c]
    BY <1>1, PlaceIs
  <2> QED
    BY <1>1, <2>1
<1>5. ASSUME NEW k \in 0 .. n - 2 PROVE Place(b, c, f, k) = Place(b, c, h, k + 1)
  <2>1. k \in 0 .. c /\ k + 1 \in 0 .. c
    BY <1>1
  <2>2. /\ Place(b, c, f, k) = b[IF f + k < c THEN f + k ELSE f + k - c]
        /\ Place(b, c, h, k + 1) = b[IF h + (k + 1) < c THEN h + (k + 1) ELSE h + (k + 1) - c]
    BY <1>1, <1>3, <2>1, PlaceIs
  <2>3. (IF f + k < c THEN f + k ELSE f + k - c)
          = IF h + (k + 1) < c THEN h + (k + 1) ELSE h + (k + 1) - c
    BY <1>1, <1>2
  <2> QED
    BY <2>2, <2>3
<1>6. /\ \A k \in 0 .. n - 2 : k + 1 \in 0 .. n - 1 /\ k + 1 # 0
      /\ \A k \in 0 .. n - 1 : k # 0 => k - 1 \in 0 .. n - 2 /\ (k - 1) + 1 = k
      /\ 0 \in 0 .. n - 1 /\ (n - 1) - 1 = n - 2
  BY <1>1
<1>7. b[h] \in Message /\ b[h] \in Places(b, c, h, n)
  BY <1>4, <1>6 DEF RingOf, Holds, Places
<1>8. Holds(b, c, f, n - 1)
  <2>1. \A k \in 0 .. n - 2 : Place(b, c, f, k) \in Message
    BY <1>5, <1>6 DEF RingOf, Holds
  <2>2. ASSUME NEW j \in 0 .. n - 2, NEW k \in 0 .. n - 2, Place(b, c, f, j) = Place(b, c, f, k)
        PROVE  j = k
    <3>1. j + 1 = k + 1
      BY <1>5, <1>6, <2>2 DEF RingOf, Holds
    <3> QED
      BY <3>1
  <2> QED
    BY <1>6, <2>1, <2>2 DEF Holds
<1>9. RingOf(b, c, f, t, n - 1)
  BY <1>1, <1>2, <1>8 DEF RingOf
<1>10. Places(b, c, f, n - 1) = Places(b, c, h, n) \ {b[h]}
  <2>1. ASSUME NEW k \in 0 .. n - 2
        PROVE  Place(b, c, f, k) \in Places(b, c, h, n) /\ Place(b, c, f, k) # b[h]
    <3>1. k + 1 \in 0 .. n - 1 /\ k + 1 # 0 /\ 0 \in 0 .. n - 1
      BY <1>6
    <3>2. Place(b, c, f, k) = Place(b, c, h, k + 1)
      BY <1>5
    <3>3. Place(b, c, h, k + 1) # Place(b, c, h, 0)
      BY <3>1 DEF RingOf, Holds
    <3> QED
      BY <1>4, <3>1, <3>2, <3>3 DEF Places
  <2>2. ASSUME NEW x \in Places(b, c, h, n), x # b[h]
        PROVE  x \in Places(b, c, f, n - 1)
    <3>1. PICK k \in 0 .. n - 1 : x = Place(b, c, h, k)
      BY DEF Places
    <3>2. k - 1 \in 0 .. n - 2 /\ (k - 1) + 1 = k
      BY <1>4, <1>6, <2>2, <3>1
    <3>3. x = Place(b, c, f, k - 1)
      BY <1>5, <3>1, <3>2
    <3> QED
      BY <1>6, <3>2, <3>3 DEF Places
  <2>3. Places(b, c, f, n - 1) \subseteq Places(b, c, h, n) \ {b[h]}
    BY <1>6, <2>1 DEF Places
  <2> QED
    BY <2>2, <2>3
<1> QED
  BY <1>4, <1>5, <1>7, <1>9, <1>10

\* The messages at the front of a new array of e slots.
LEMMA MovedRing ==
  ASSUME NEW b, NEW c, NEW h, NEW t, NEW n, NEW e \in Nat, RingOf(b, c, h, t, n), n <= e, e > 0
  PROVE  LET d == [i \in 0 .. e - 1 |-> IF i < n THEN Place(b, c, h, i) ELSE NoMessage]
         IN  /\ RingOf(d, e, 0, n, n)
             /\ Places(d, e, 0, n) = Places(b, c, h, n)
             /\ \A k \in 0 .. n - 1 : Place(d, e, 0, k) = Place(b, c, h, k)
<1> DEFINE d == [i \in 0 .. e - 1 |-> IF i < n THEN Place(b, c, h, i) ELSE NoMessage]
<1>1. n \in Nat /\ \A k \in 0 .. n - 1 : Place(b, c, h, k) \in Message
  BY DEF RingOf, Holds
<1>2. d \in [0 .. e - 1 -> Message \cup {NoMessage}]
  <2>1. ASSUME NEW i \in 0 .. e - 1
        PROVE  (IF i < n THEN Place(b, c, h, i) ELSE NoMessage) \in Message \cup {NoMessage}
    <3>1. CASE i < n
      <4>1. i \in 0 .. n - 1
        BY <1>1, <3>1
      <4> QED
        BY <1>1, <3>1, <4>1
    <3>2. CASE ~(i < n)
      BY <3>2
    <3> QED
      BY <3>1, <3>2
  <2> QED
    BY <2>1
<1>3. ASSUME NEW k \in 0 .. n - 1 PROVE Place(d, e, 0, k) = Place(b, c, h, k)
  <2>1. k \in 0 .. e - 1 /\ k < n /\ 0 \in 0 .. e - 1
    BY <1>1
  <2>2. Place(d, e, 0, k) = d[IF 0 + k < e THEN 0 + k ELSE 0 + k - e]
    BY <2>1, PlaceIs
  <2>3. Place(d, e, 0, k) = d[k]
    BY <2>1, <2>2
  <2> QED
    BY <2>1, <2>3
<1> HIDE DEF d
<1>4. Holds(d, e, 0, n)
  BY <1>3 DEF RingOf, Holds
<1>5. RingOf(d, e, 0, n, n)
  BY <1>1, <1>2, <1>4 DEF RingOf
<1>6. Places(d, e, 0, n) = Places(b, c, h, n)
  BY <1>3 DEF Places
<1> QED
  BY <1>3, <1>5, <1>6 DEF d

-----------------------------------------------------------------------------
(* The messages.                                                           *)

Ring == RingOf(buffer, capacity, head, tail, count)

Queued == Places(buffer, capacity, head, count)

Held(hd) == {hd[i] : i \in ConsumerIds} \ {NoMessage}

Added(md) == {m \in Message : m[2] <= md[m[1]]}

\* The messages in q, in the consumers' hands and in fr are those that were added.
Owned(q, md, hd, fr) ==
  /\ md \in [ProducerIds -> 0 .. MaxMade]
  /\ hd \in [ConsumerIds -> Message \cup {NoMessage}]
  /\ \A i, j \in ConsumerIds : hd[i] = hd[j] /\ i # j => hd[i] = NoMessage
  /\ q \cup Held(hd) \cup fr = Added(md)
  /\ q \cap Held(hd) = {} /\ q \cap fr = {} /\ Held(hd) \cap fr = {}

Owners == Owned(Queued, made, hand, freed)

\* A producer adds the next message.
LEMMA NextMessage ==
  ASSUME NEW q, NEW md, NEW hd, NEW fr, NEW i \in ProducerIds,
         Owned(q, md, hd, fr), md[i] < MaxMade
  PROVE  /\ <<i, md[i] + 1>> \in Message \ q
         /\ Owned(q \cup {<<i, md[i] + 1>>}, [md EXCEPT ![i] = @ + 1], hd, fr)
<1> DEFINE m == <<i, md[i] + 1>>
           mine == [md EXCEPT ![i] = @ + 1]
<1>1. /\ MaxMade \in Nat /\ md \in [ProducerIds -> 0 .. MaxMade] /\ md[i] \in 0 .. MaxMade
      /\ md[i] + 1 \in 1 .. MaxMade
  BY ConstantsAssumption DEF ConstantsAssumption, Owned
<1>2. m \in Message /\ m[1] = i /\ m[2] = md[i] + 1
  BY <1>1 DEF Message
<1>3. m \notin Added(md)
  BY <1>1, <1>2 DEF Added
<1>4. mine \in [ProducerIds -> 0 .. MaxMade]
  BY <1>1
<1>5. Added(mine) = Added(md) \cup {m}
  <2>1. ASSUME NEW x \in Message PROVE x[2] <= mine[x[1]] <=> x[2] <= md[x[1]] \/ x = m
    <3>1. x = <<x[1], x[2]>> /\ x[1] \in ProducerIds /\ x[2] \in 1 .. MaxMade
      BY DEF Message
    <3>2. CASE x[1] = i
      <4>1. mine[x[1]] = md[i] + 1
        BY <1>1, <3>2
      <4>2. x[2] <= md[i] + 1 <=> x[2] <= md[i] \/ x[2] = md[i] + 1
        BY <1>1, <3>1
      <4>3. x = m <=> x[2] = md[i] + 1
        BY <3>1, <3>2, <1>2
      <4> HIDE DEF m, mine
      <4> QED
        BY <3>2, <4>1, <4>2, <4>3
    <3>3. CASE x[1] # i
      BY <1>1, <1>2, <3>1, <3>3
    <3> QED
      BY <3>2, <3>3
  <2> HIDE DEF m, mine
  <2> QED
    BY <1>2, <2>1 DEF Added
<1> HIDE DEF m, mine
<1>6. Owned(q \cup {m}, mine, hd, fr)
  BY <1>3, <1>4, <1>5 DEF Owned
<1> QED
  BY <1>2, <1>3, <1>6 DEF m, mine, Owned

\* A consumer takes a message from the ring.
LEMMA HandedOver ==
  ASSUME NEW q, NEW md, NEW hd, NEW fr, NEW i \in ConsumerIds, NEW m \in q \cap Message,
         Owned(q, md, hd, fr), hd[i] = NoMessage
  PROVE  Owned(q \ {m}, md, [hd EXCEPT ![i] = m], fr)
<1> DEFINE full == [hd EXCEPT ![i] = m]
<1>1. hd \in [ConsumerIds -> Message \cup {NoMessage}]
  BY DEF Owned
<1>2. /\ full \in [ConsumerIds -> Message \cup {NoMessage}]
      /\ full[i] = m /\ \A j \in ConsumerIds \ {i} : full[j] = hd[j]
  BY <1>1
<1>3. m # NoMessage
  BY NoMessageIsNone
<1> HIDE DEF full
<1>4. Held(full) = Held(hd) \cup {m}
  BY <1>1, <1>2, <1>3 DEF Held
<1>5. m \notin Held(hd) /\ m \notin fr
  BY DEF Owned
<1>6. \A j \in ConsumerIds : hd[j] # m
  BY <1>3, <1>5 DEF Held
<1>7. \A j, k \in ConsumerIds : full[j] = full[k] /\ j # k => full[j] = NoMessage
  BY <1>2, <1>6 DEF Owned
<1>8. /\ (q \ {m}) \cup Held(full) \cup fr = Added(md)
      /\ (q \ {m}) \cap Held(full) = {} /\ (q \ {m}) \cap fr = {} /\ Held(full) \cap fr = {}
  BY <1>4, <1>5 DEF Owned
<1>9. Owned(q \ {m}, md, full, fr)
  BY <1>2, <1>7, <1>8 DEF Owned
<1> QED
  BY <1>9 DEF full

\* A consumer destroys the message it holds.
LEMMA Destroyed ==
  ASSUME NEW q, NEW md, NEW hd, NEW fr, NEW i \in ConsumerIds,
         Owned(q, md, hd, fr), hd[i] # NoMessage
  PROVE  Owned(q, md, [hd EXCEPT ![i] = NoMessage], fr \cup {hd[i]})
<1> DEFINE empty == [hd EXCEPT ![i] = NoMessage]
<1>1. hd \in [ConsumerIds -> Message \cup {NoMessage}]
  BY DEF Owned
<1>2. /\ empty \in [ConsumerIds -> Message \cup {NoMessage}]
      /\ empty[i] = NoMessage /\ \A j \in ConsumerIds \ {i} : empty[j] = hd[j]
  BY <1>1
<1> HIDE DEF empty
<1>3. hd[i] \in Held(hd)
  BY DEF Held
<1>4. Held(empty) = Held(hd) \ {hd[i]}
  <2>1. \A j \in ConsumerIds \ {i} : hd[j] # hd[i]
    BY DEF Owned
  <2> QED
    BY <1>2, <2>1 DEF Held
<1>5. \A j, k \in ConsumerIds : empty[j] = empty[k] /\ j # k => empty[j] = NoMessage
  BY <1>2 DEF Owned
<1>6. Owned(q, md, empty, fr \cup {hd[i]})
  BY <1>2, <1>3, <1>4, <1>5 DEF Owned
<1> QED
  BY <1>6 DEF empty

\* What is left in the ring is destroyed with it.
LEMMA AllDestroyed ==
  ASSUME NEW q, NEW md, NEW hd, NEW fr, Owned(q, md, hd, fr)
  PROVE  Owned({}, md, hd, fr \cup q)
BY DEF Owned

\* What OwnedOnce says of the ring follows from its shape.
LEMMA InRingIsQueued ==
  ASSUME Ring
  PROVE  InRing = Queued /\ Cardinality(InRing) = count
<1>1. count \in Nat
  BY DEF Ring, RingOf
<1>2. ASSUME NEW i \in 1 .. count
      PROVE  i - 1 \in 0 .. count - 1 /\ Contents[i] = Place(buffer, capacity, head, i - 1)
  <2>1. head \in Nat /\ i - 1 \in 0 .. count - 1 /\ head + i - 1 = head + (i - 1)
    BY <1>1 DEF Ring, RingOf
  <2> QED
    BY <2>1 DEF Contents, Slot, Place, Wrapped
<1>3. \A k \in 0 .. count - 1 : k + 1 \in 1 .. count /\ (k + 1) - 1 = k
  BY <1>1
<1>4. InRing = Queued
  <2>1. \A i \in 1 .. count : Contents[i] \in Queued
    BY <1>2 DEF Queued, Places
  <2>2. \A k \in 0 .. count - 1 : Place(buffer, capacity, head, k) = Contents[k + 1]
    BY <1>2, <1>3
  <2> QED
    BY <1>3, <2>1, <2>2 DEF InRing, Queued, Places
<1>5. Contents \in Bijection(1 .. count, InRing)
  <2>1. Contents \in [1 .. count -> InRing]
    BY DEF InRing, Contents
  <2>2. ASSUME NEW i \in 1 .. count, NEW j \in 1 .. count, Contents[i] = Contents[j]
        PROVE  i = j
    <3>1. i - 1 = j - 1
      BY <1>2, <2>2 DEF Ring, RingOf, Holds
    <3> QED
      BY <3>1
  <2>3. \A m \in InRing : \E i \in 1 .. count : Contents[i] = m
    BY DEF InRing
  <2> QED
    BY <2>1, <2>2, <2>3 DEF Bijection, Injection, Surjection, IsInjective
<1>6. Cardinality(InRing) = count
  BY <1>1, <1>5, FS_CountingElements DEF ExistsBijection
<1> QED
  BY <1>4, <1>6

\* The ring and its owners say all that OwnedOnce says.
LEMMA OwnersOwnOnce ==
  ASSUME Ring, Owners
  PROVE  OwnedOnce
BY InRingIsQueued DEF Owners, Owned, OwnedOnce, Held, Added, InHand, Made

-----------------------------------------------------------------------------
(* What main keeps of the threads of one kind: which of them it has told   *)
(* to run (a), how many of those it counts (n), and the next id (x).       *)

Running(a, x) == {i \in 0 .. x - 1 : a[i]}

\* No more threads run than are counted, and the ids from x on are nobody's.
Side(a, n, x, max, pc) ==
  /\ a \in [0 .. max - 1 -> BOOLEAN]
  /\ x \in 0 .. max /\ n \in 0 .. x
  /\ Cardinality(Running(a, x)) <= n
  /\ \A i \in 0 .. max - 1 : i >= x => pc[i] = "none"

LEMMA RunningIsFinite ==
  ASSUME NEW a, NEW x \in Int
  PROVE  IsFiniteSet(Running(a, x)) /\ Cardinality(Running(a, x)) \in Nat
<1>1. IsFiniteSet(0 .. x - 1) /\ Running(a, x) \in SUBSET (0 .. x - 1)
  BY FS_Interval DEF Running
<1> QED
  BY <1>1, FS_Subset, FS_CardinalityType

\* A flag of a running thread falls, or none does; only threads with an id move.
LEMMA FlagsFall ==
  ASSUME NEW a, NEW n, NEW x, NEW max \in Nat, NEW pc, NEW b, NEW qc,
         Side(a, n, x, max, pc),
         b \in [0 .. max - 1 -> BOOLEAN],
         \A i \in 0 .. max - 1 : i < x /\ b[i] => a[i],
         \A i \in 0 .. max - 1 : i >= x => qc[i] = pc[i]
  PROVE  Side(b, n, x, max, qc)
<1>1. x \in Int /\ n \in Nat /\ Running(b, x) \subseteq Running(a, x)
  BY DEF Side, Running
<1>2. Cardinality(Running(b, x)) <= Cardinality(Running(a, x))
  BY <1>1, RunningIsFinite, FS_Subset
<1>3. Cardinality(Running(b, x)) <= n
  BY <1>1, <1>2, RunningIsFinite DEF Side
<1> QED
  BY <1>3 DEF Side

\* The next thread is created.
LEMMA ThreadAdded ==
  ASSUME NEW a, NEW n, NEW x, NEW max \in Nat, NEW pc, NEW b, NEW m, NEW y, NEW qc,
         Side(a, n, x, max, pc), x \in 0 .. max - 1,
         b = [a EXCEPT ![x] = TRUE], m = n + 1, y = x + 1,
         \A i \in 0 .. max - 1 : i # x => qc[i] = pc[i]
  PROVE  Side(b, m, y, max, qc)
<1>1. /\ x \in Int /\ n \in Nat /\ (x + 1) - 1 = x
      /\ a \in [0 .. max - 1 -> BOOLEAN]
      /\ x \notin 0 .. x - 1 /\ 0 .. x - 1 \subseteq 0 .. max - 1
  BY DEF Side
<1>0. 0 .. x = (0 .. x - 1) \cup {x}
  BY DEF Side
<1>7. b \in [0 .. max - 1 -> BOOLEAN] /\ b[x] /\ \A i \in 0 .. x - 1 : b[i] = a[i]
  BY <1>1
<1>2. Running(b, x + 1) = Running(a, x) \cup {x}
  BY <1>0, <1>1, <1>7 DEF Running
<1>3. Cardinality(Running(b, x + 1)) <= n + 1
  <2>1. IsFiniteSet(Running(a, x)) /\ Cardinality(Running(a, x)) \in Nat
    BY <1>1, RunningIsFinite
  <2>2. Cardinality(Running(b, x + 1))
          = IF x \in Running(a, x) THEN Cardinality(Running(a, x)) ELSE Cardinality(Running(a, x)) + 1
    BY <1>2, <2>1, FS_AddElement
  <2> QED
    BY <1>1, <2>1, <2>2 DEF Side
<1>4. x + 1 \in 0 .. max /\ n + 1 \in 0 .. x + 1
  BY DEF Side
<1>5. \A i \in 0 .. max - 1 : i >= x + 1 => qc[i] = "none"
  BY <1>1 DEF Side
<1> QED
  BY <1>3, <1>4, <1>5, <1>7 DEF Side

\* The newest running thread is told to stop.
LEMMA ThreadRetired ==
  ASSUME NEW a, NEW n, NEW x, NEW max \in Nat, NEW pc, NEW b, NEW m, NEW i,
         Side(a, n, x, max, pc), LastActive(a, x, i),
         b = [a EXCEPT ![i] = FALSE], m = n - 1
  PROVE  Side(b, m, x, max, pc)
<1>1. /\ x \in Int /\ n \in Nat /\ i \in Running(a, x)
      /\ b \in [0 .. max - 1 -> BOOLEAN]
      /\ ~b[i] /\ \A j \in 0 .. x - 1 : j # i => b[j] = a[j]
  BY DEF Side, LastActive, Running
<1>2. Running(b, x) = Running(a, x) \ {i}
  BY <1>1 DEF Running
<1>3. Cardinality(Running(b, x)) = Cardinality(Running(a, x)) - 1
  BY <1>1, <1>2, RunningIsFinite, FS_RemoveElement
<1>4. Cardinality(Running(b, x)) \in Nat /\ Cardinality(Running(a, x)) \in Nat
  BY <1>1, RunningIsFinite
<1>5. n - 1 \in 0 .. x /\ Cardinality(Running(b, x)) <= n - 1
  BY <1>1, <1>3, <1>4 DEF Side
<1> QED
  BY <1>1, <1>5 DEF Side

-----------------------------------------------------------------------------
(* The books of the main thread.                                           *)

\* Main has retired a thread, or is stopping the program.
Dismissed ==
  \/ ~keep_running
  \/ producer_count # next_producer_id \/ consumer_count # next_consumer_id

Books ==
  /\ Side(producer_active, producer_count, next_producer_id, MaxProducers, producer_pc)
  /\ Side(consumer_active, consumer_count, next_consumer_id, MaxConsumers, consumer_pc)
  /\ resize_request \in {-1, 0, 1} /\ new_capacity_request \in Nat
  /\ resize_request # 0 => new_capacity_request > 0
  /\ keep_running \in BOOLEAN
  /\ main \in {"run", "key", "wake", "stop", "wake twice", "wake once more",
               "join", "destroy", "done"}
  /\ broken \in {"no", "buffer", "producer_active", "consumer_active"}
  /\ main \notin {"run", "key"} => Dismissed

\* Side with primed arguments is Side in the next state.
LEMMA SidesNext ==
  ASSUME Side(producer_active', producer_count', next_producer_id', MaxProducers, producer_pc'),
         Side(consumer_active', consumer_count', next_consumer_id', MaxConsumers, consumer_pc')
  PROVE  /\ Side(producer_active, producer_count, next_producer_id, MaxProducers, producer_pc)'
         /\ Side(consumer_active, consumer_count, next_consumer_id, MaxConsumers, consumer_pc)'
BY DEF Side, Running

LEMMA NobodyRuns ==
  ASSUME NEW max \in Nat
  PROVE  Side([i \in 0 .. max - 1 |-> FALSE], 0, 0, max, [i \in 0 .. max - 1 |-> "none"])
<1> DEFINE a == [i \in 0 .. max - 1 |-> FALSE]
           pc == [i \in 0 .. max - 1 |-> "none"]
<1>1. a \in [0 .. max - 1 -> BOOLEAN] /\ \A i \in 0 .. max - 1 : pc[i] = "none"
  OBVIOUS
<1> HIDE DEF a, pc
<1>2. Running(a, 0) = {}
  BY DEF Running
<1>3. Cardinality(Running(a, 0)) <= 0
  BY <1>2, FS_EmptySet
<1>4. Side(a, 0, 0, max, pc)
  BY <1>1, <1>3 DEF Side
<1> QED
  BY <1>4 DEF a, pc

LEMMA BooksInit ==
  ASSUME LabInit
  PROVE  Books
<1>3. Side(producer_active, 0, 0, MaxProducers, producer_pc)
  BY NobodyRuns, ConstantsAssumption DEF LabInit, ProducerIds, ConstantsAssumption
<1>4. Side(consumer_active, 0, 0, MaxConsumers, consumer_pc)
  BY NobodyRuns, ConstantsAssumption DEF LabInit, ConsumerIds, ConstantsAssumption
<1> QED
  BY <1>3, <1>4 DEF Books, LabInit

\* A thread leaves its flag alone or clears it.
Lowered(a, i, b) == b = a \/ b = [a EXCEPT ![i] = FALSE]

\* A step of a thread that has been created, and of no other, moves that thread
\* and may clear its flag, keep_running and the request.
LEMMA BooksKeptByProducer ==
  ASSUME Books, NEW i \in ProducerIds, producer_pc[i] # "none",
         NEW to, ProducerGoes(i, to), UNCHANGED <<consumer_pc, consumer_active, idVars, main>>,
         Lowered(producer_active, i, producer_active'),
         keep_running' \in {keep_running, FALSE},
         UNCHANGED resizeVars, broken' \in {broken, "buffer"}
  PROVE  Books'
<1>1. Side(producer_active, producer_count, next_producer_id, MaxProducers, producer_pc)'
  <2>1. MaxProducers \in Nat /\ UNCHANGED <<producer_count, next_producer_id>>
    BY ConstantsAssumption DEF ConstantsAssumption, idVars
  <2>2. Side(producer_active, producer_count, next_producer_id, MaxProducers, producer_pc)
    BY DEF Books
  <2>3. /\ producer_active' \in [0 .. MaxProducers - 1 -> BOOLEAN]
        /\ \A j \in 0 .. MaxProducers - 1 :
             j < next_producer_id /\ producer_active'[j] => producer_active[j]
    BY <2>2 DEF Side, Lowered
  <2>4. \A j \in 0 .. MaxProducers - 1 :
          j >= next_producer_id => producer_pc'[j] = producer_pc[j]
    BY <2>2 DEF Side, ProducerIds, ProducerGoes
  <2>5. Side(producer_active', producer_count, next_producer_id, MaxProducers, producer_pc')
    BY <2>1, <2>2, <2>3, <2>4, FlagsFall
  <2> QED
    BY <2>1, <2>5 DEF Side, Running
<1>2. Side(consumer_active, consumer_count, next_consumer_id, MaxConsumers, consumer_pc)'
  BY DEF Books, Side, Running, idVars
<1>3. Dismissed => Dismissed'
  BY DEF Dismissed, idVars
<1> QED
  BY <1>1, <1>2, <1>3 DEF Books, resizeVars

LEMMA BooksKeptByConsumer ==
  ASSUME Books, NEW i \in ConsumerIds, consumer_pc[i] # "none",
         NEW to, ConsumerGoes(i, to), UNCHANGED <<producer_pc, producer_active, idVars, main>>,
         Lowered(consumer_active, i, consumer_active'),
         keep_running' \in {keep_running, FALSE},
         resize_request' \in {resize_request, 0}, UNCHANGED <<new_capacity_request, broken>>
  PROVE  Books'
<1>1. Side(consumer_active, consumer_count, next_consumer_id, MaxConsumers, consumer_pc)'
  <2>1. MaxConsumers \in Nat /\ UNCHANGED <<consumer_count, next_consumer_id>>
    BY ConstantsAssumption DEF ConstantsAssumption, idVars
  <2>2. Side(consumer_active, consumer_count, next_consumer_id, MaxConsumers, consumer_pc)
    BY DEF Books
  <2>3. /\ consumer_active' \in [0 .. MaxConsumers - 1 -> BOOLEAN]
        /\ \A j \in 0 .. MaxConsumers - 1 :
             j < next_consumer_id /\ consumer_active'[j] => consumer_active[j]
    BY <2>2 DEF Side, Lowered
  <2>4. \A j \in 0 .. MaxConsumers - 1 :
          j >= next_consumer_id => consumer_pc'[j] = consumer_pc[j]
    BY <2>2 DEF Side, ConsumerIds, ConsumerGoes
  <2>5. Side(consumer_active', consumer_count, next_consumer_id, MaxConsumers, consumer_pc')
    BY <2>1, <2>2, <2>3, <2>4, FlagsFall
  <2> QED
    BY <2>1, <2>5 DEF Side, Running
<1>2. Side(producer_active, producer_count, next_producer_id, MaxProducers, producer_pc)'
  BY DEF Books, Side, Running, idVars
<1>3. Dismissed => Dismissed'
  BY DEF Dismissed, idVars
<1> QED
  BY <1>1, <1>2, <1>3 DEF Books

\* Every step of the main thread that both labs share keeps the books.
LEMMA BooksKeptByMain ==
  ASSUME Books, RunLabLogic
  PROVE  Books'
<1> USE DEF MainGoes, Press, PressThen, Dismissed, resizeVars, idVars, flagVars, threadVars
<1>0. /\ MaxProducers \in Nat /\ MaxConsumers \in Nat
      /\ Side(producer_active, producer_count, next_producer_id, MaxProducers, producer_pc)
      /\ Side(consumer_active, consumer_count, next_consumer_id, MaxConsumers, consumer_pc)
  BY ConstantsAssumption DEF ConstantsAssumption, Books
<1>1. CASE LoopTest
  BY <1>0, <1>1, SidesNext DEF LoopTest, Books
<1>2. CASE Idle
  BY <1>0, <1>2, SidesNext DEF Idle, Books
<1>3. CASE AddProducer
  <2>0. /\ next_producer_id \in 0 .. MaxProducers - 1
        /\ producer_active' = [producer_active EXCEPT ![next_producer_id] = TRUE]
        /\ producer_count' = producer_count + 1 /\ next_producer_id' = next_producer_id + 1
        /\ \A i \in 0 .. MaxProducers - 1 : i # next_producer_id => producer_pc'[i] = producer_pc[i]
    BY <1>3 DEF AddProducer, ProducerGoes, ProducerIds
  <2>1. Side(producer_active', producer_count', next_producer_id', MaxProducers, producer_pc')
    BY <1>0, <2>0, ThreadAdded
  <2>2. UNCHANGED <<consumer_active, consumer_count, next_consumer_id, consumer_pc>>
    BY <1>3 DEF AddProducer
  <2> QED
    BY <1>0, <1>3, <2>1, <2>2, SidesNext DEF AddProducer, Books
<1>4. CASE AddConsumer
  <2>0. /\ next_consumer_id \in 0 .. MaxConsumers - 1
        /\ consumer_active' = [consumer_active EXCEPT ![next_consumer_id] = TRUE]
        /\ consumer_count' = consumer_count + 1 /\ next_consumer_id' = next_consumer_id + 1
        /\ \A i \in 0 .. MaxConsumers - 1 : i # next_consumer_id => consumer_pc'[i] = consumer_pc[i]
    BY <1>4 DEF AddConsumer, ConsumerGoes, ConsumerIds
  <2>1. Side(consumer_active', consumer_count', next_consumer_id', MaxConsumers, consumer_pc')
    BY <1>0, <2>0, ThreadAdded
  <2>2. UNCHANGED <<producer_active, producer_count, next_producer_id, producer_pc>>
    BY <1>4 DEF AddConsumer
  <2> QED
    BY <1>0, <1>4, <2>1, <2>2, SidesNext DEF AddConsumer, Books
<1>5. CASE AddFails
  <2>1. /\ \/ UNCHANGED producer_active
           \/ \E flag \in BOOLEAN : producer_active' = [producer_active EXCEPT ![next_producer_id] = flag]
        /\ \/ UNCHANGED consumer_active
           \/ \E flag \in BOOLEAN : consumer_active' = [consumer_active EXCEPT ![next_consumer_id] = flag]
    BY <1>5 DEF AddFails, FlagAfter
  <2>2. Side(producer_active', producer_count, next_producer_id, MaxProducers, producer_pc)
    <3>1. /\ producer_active' \in [0 .. MaxProducers - 1 -> BOOLEAN]
          /\ \A j \in 0 .. MaxProducers - 1 :
               j < next_producer_id /\ producer_active'[j] => producer_active[j]
      BY <1>0, <2>1 DEF Side
    <3> QED
      BY <1>0, <3>1, FlagsFall
  <2>3. Side(consumer_active', consumer_count, next_consumer_id, MaxConsumers, consumer_pc)
    <3>1. /\ consumer_active' \in [0 .. MaxConsumers - 1 -> BOOLEAN]
          /\ \A j \in 0 .. MaxConsumers - 1 :
               j < next_consumer_id /\ consumer_active'[j] => consumer_active[j]
      BY <1>0, <2>1 DEF Side
    <3> QED
      BY <1>0, <3>1, FlagsFall
  <2> QED
    BY <1>5, <2>2, <2>3, SidesNext DEF AddFails, Books
<1>6. CASE IdOverrun
  BY <1>0, <1>6, SidesNext DEF IdOverrun, Books
<1>7. CASE RemoveProducer
  <2>1. UNCHANGED <<next_producer_id, producer_pc, consumer_active, consumer_count, next_consumer_id, consumer_pc>>
    BY <1>7 DEF RemoveProducer
  <2>2. /\ Side(producer_active', producer_count', next_producer_id', MaxProducers, producer_pc')
        /\ producer_count' # next_producer_id'
    <3>1. producer_count' = producer_count - 1
      BY <1>7 DEF RemoveProducer
    <3>2. PICK i : /\ LastActive(producer_active, next_producer_id, i)
                   /\ producer_active' = [producer_active EXCEPT ![i] = FALSE]
      BY <1>7 DEF RemoveProducer
    <3>3. Side(producer_active', producer_count', next_producer_id, MaxProducers, producer_pc)
      BY <1>0, <3>1, <3>2, ThreadRetired
    <3>4. producer_count' # next_producer_id
      BY <1>0, <3>1 DEF Side
    <3> QED
      BY <2>1, <3>3, <3>4
  <2> QED
    BY <1>0, <1>7, <2>1, <2>2, SidesNext DEF RemoveProducer, Books
<1>8. CASE RemoveConsumer
  <2>1. UNCHANGED <<next_consumer_id, consumer_pc, producer_active, producer_count, next_producer_id, producer_pc>>
    BY <1>8 DEF RemoveConsumer
  <2>2. /\ Side(consumer_active', consumer_count', next_consumer_id', MaxConsumers, consumer_pc')
        /\ consumer_count' # next_consumer_id'
    <3>1. consumer_count' = consumer_count - 1
      BY <1>8 DEF RemoveConsumer
    <3>2. PICK i : /\ LastActive(consumer_active, next_consumer_id, i)
                   /\ consumer_active' = [consumer_active EXCEPT ![i] = FALSE]
      BY <1>8 DEF RemoveConsumer
    <3>3. Side(consumer_active', consumer_count', next_consumer_id, MaxConsumers, consumer_pc)
      BY <1>0, <3>1, <3>2, ThreadRetired
    <3>4. consumer_count' # next_consumer_id
      BY <1>0, <3>1 DEF Side
    <3> QED
      BY <2>1, <3>3, <3>4
  <2> QED
    BY <1>0, <1>8, <2>1, <2>2, SidesNext DEF RemoveConsumer, Books
<1>9. CASE Quit
  BY <1>0, <1>9, SidesNext DEF Quit, Books
<1>10. CASE StopThreads
  <2>1. Side(producer_active', producer_count, next_producer_id, MaxProducers, producer_pc)
    <3>1. /\ producer_active' \in [0 .. MaxProducers - 1 -> BOOLEAN]
          /\ \A j \in 0 .. MaxProducers - 1 :
               j < next_producer_id /\ producer_active'[j] => producer_active[j]
      BY <1>0, <1>10 DEF StopThreads, Side, ProducerIds
    <3> QED
      BY <1>0, <3>1, FlagsFall
  <2>2. Side(consumer_active', consumer_count, next_consumer_id, MaxConsumers, consumer_pc)
    <3>1. /\ consumer_active' \in [0 .. MaxConsumers - 1 -> BOOLEAN]
          /\ \A j \in 0 .. MaxConsumers - 1 :
               j < next_consumer_id /\ consumer_active'[j] => consumer_active[j]
      BY <1>0, <1>10 DEF StopThreads, Side, ConsumerIds
    <3> QED
      BY <1>0, <3>1, FlagsFall
  <2> QED
    BY <1>10, <2>1, <2>2, SidesNext DEF StopThreads, Books
<1>11. CASE JoinThreads
  BY <1>0, <1>11, SidesNext DEF JoinThreads, Books
<1> QED
  BY <1>1, <1>2, <1>3, <1>4, <1>5, <1>6, <1>7, <1>8, <1>9, <1>10, <1>11 DEF RunLabLogic

\* So do a request and the two calls that wake the threads.
LEMMA BooksKeptByRequest ==
  ASSUME Books, capacity \in Nat, NEW key, RequestResize(key)
  PROVE  Books'
BY ConstantsAssumption, SidesNext
   DEF RequestResize, ConstantsAssumption, Books, MainGoes, Press, PressThen,
       Dismissed, idVars, flagVars, threadVars

LEMMA BooksKeptByCleanup ==
  ASSUME Books, SignalCleanup
  PROVE  Books'
BY SidesNext DEF SignalCleanup, Books, MainGoes, Dismissed, resizeVars, idVars,
       flagVars, threadVars

\* The end of the program.
LEMMA BooksKeptByDestroy ==
  ASSUME Books, MainGoes("destroy", "done"),
         UNCHANGED <<new_capacity_request, producer_pc, consumer_pc,
                     producer_active, consumer_active, idVars, broken>>,
         resize_request' \in {resize_request, 0}, keep_running' \in {keep_running, FALSE}
  PROVE  Books'
<1>1. /\ Side(producer_active', producer_count', next_producer_id', MaxProducers, producer_pc')
      /\ Side(consumer_active', consumer_count', next_consumer_id', MaxConsumers, consumer_pc')
  BY DEF Books, idVars
<1>2. Dismissed'
  BY DEF Books, MainGoes, Dismissed, idVars
<1> QED
  BY <1>1, <1>2, SidesNext DEF Books, MainGoes

-----------------------------------------------------------------------------
(* What the steps do to the ring and the owners.                           *)

\* Which consumers hold a message.
Hands ==
  \A i \in ConsumerIds : hand[i] # NoMessage <=> consumer_pc[i] \in {"post", "work"}

LEMMA LabStart ==
  ASSUME LabInit
  PROVE  Ring /\ Owners /\ Hands
<1>1. /\ InitialSize \in Nat \ {0} /\ MaxMade \in Nat
      /\ Fresh(InitialSize) \in [0 .. InitialSize - 1 -> Message \cup {NoMessage}]
  BY ConstantsAssumption DEF ConstantsAssumption, Fresh
<1>2. Ring
  BY <1>1 DEF LabInit, Ring, RingOf, Holds
<1>3. Queued = {} /\ Held(hand) = {} /\ Added(made) = {}
  BY DEF LabInit, Queued, Places, Held, Added, Message
<1>4. Owners
  <2>1. made \in [ProducerIds -> 0 .. MaxMade] /\ hand \in [ConsumerIds -> Message \cup {NoMessage}]
    BY <1>1 DEF LabInit
  <2> QED
    BY <1>3, <2>1 DEF LabInit, Owners, Owned
<1> QED
  BY <1>2, <1>4 DEF LabInit, Hands

LEMMA StillStep ==
  ASSUME Ring, Owners, UNCHANGED <<ringVars, msgVars>>
  PROVE  Ring' /\ Owners'
BY DEF Ring, Owners, Queued, ringVars, msgVars

LEMMA PutStep ==
  ASSUME Ring, Owners, NEW i \in ProducerIds, StoreMessage(i), count < capacity, made[i] < MaxMade
  PROVE  Ring' /\ Owners'
<1> DEFINE m == <<i, made[i] + 1>>
<1>1. i \in DOMAIN made
  BY DEF Owners, Owned
<1>2. /\ made' = [made EXCEPT ![i] = @ + 1] /\ buffer' = [buffer EXCEPT ![tail] = m]
      /\ tail' = Wrapped(tail + 1, capacity) /\ count' = count + 1
      /\ UNCHANGED <<capacity, head, hand, freed>> /\ tail < capacity
  BY <1>1 DEF StoreMessage, Slot, Wrapped
<1>3. m \in Message /\ m \notin Queued /\ Owned(Queued \cup {m}, made', hand, freed)
  BY <1>2, NextMessage DEF Owners
<1> HIDE DEF m
<1>4. /\ RingOf(buffer, capacity, head, tail, count) /\ m \notin Places(buffer, capacity, head, count)
      /\ Stored(buffer, tail, m, buffer')
      /\ m \in Message /\ tail < capacity
      /\ tail' = Wrapped(tail + 1, capacity) /\ count' = count + 1
  BY <1>2, <1>3 DEF Ring, Queued, Stored
<1>5. RingOf(buffer', capacity, head, tail', count')
  BY <1>4, PutInRing
<1>6. Places(buffer', capacity, head, count') = Places(buffer, capacity, head, count) \cup {m}
  BY <1>4, <1>5, PutInRing
<1> QED
  BY <1>2, <1>3, <1>5, <1>6 DEF Ring, Owners, Queued

LEMMA TakeStep ==
  ASSUME Ring, Owners, NEW i \in ConsumerIds, count > 0, hand[i] = NoMessage,
         NEW first, NEW n, first = Slot(head + 1), n = count - 1
  PROVE  /\ RingOf(buffer, capacity, first, tail, n)
         /\ buffer[head] \in Message
         /\ Owned(Places(buffer, capacity, first, n),
                  made, [hand EXCEPT ![i] = buffer[head]], freed)
<1>1. first = Wrapped(head + 1, capacity)
  BY DEF Slot, Wrapped
<1>2. RingOf(buffer, capacity, first, tail, n)
  BY <1>1, TakeFromRing DEF Ring
<1>3. /\ buffer[head] \in Message /\ buffer[head] \in Queued
      /\ Places(buffer, capacity, first, n) = Queued \ {buffer[head]}
  BY <1>1, <1>2, TakeFromRing DEF Ring, Queued
<1>4. Owned(Queued \ {buffer[head]}, made, [hand EXCEPT ![i] = buffer[head]], freed)
  BY <1>3, HandedOver DEF Owners
<1> QED
  BY <1>2, <1>3, <1>4

LEMMA MoveStep ==
  ASSUME NEW first, NEW last, NEW n, RingOf(buffer, capacity, first, last, n),
         new_capacity_request \in Nat, new_capacity_request > 0, n <= new_capacity_request,
         MoveRing(first, n)
  PROVE  Ring' /\ Queued' = Places(buffer, capacity, first, n)
<1> DEFINE d == [i \in 0 .. new_capacity_request - 1 |->
                   IF i < n THEN Place(buffer, capacity, first, i) ELSE NoMessage]
<1>1. /\ buffer' = d /\ capacity' = new_capacity_request
      /\ head' = 0 /\ tail' = n /\ count' = n
  BY DEF MoveRing, Resized, Slot, Place, Wrapped
<1>2. /\ RingOf(d, new_capacity_request, 0, n, n)
      /\ Places(d, new_capacity_request, 0, n) = Places(buffer, capacity, first, n)
  BY MovedRing
<1> HIDE DEF d
<1> QED
  BY <1>1, <1>2 DEF Ring, Queued

LEMMA WorkStep ==
  ASSUME Ring, Owners, NEW i \in ConsumerIds, hand[i] # NoMessage, destroy_message(i),
         UNCHANGED ringVars
  PROVE  Ring' /\ Owners'
<1>1. Owned(Queued, made, [hand EXCEPT ![i] = NoMessage], freed \cup {hand[i]})
  BY Destroyed DEF Owners
<1> QED
  BY <1>1 DEF Ring, Owners, Queued, ringVars, destroy_message

LEMMA DestroyStep ==
  ASSUME Ring, Owners, DestroyRing
  PROVE  Ring' /\ Owners'
<1>1. Owned({}, made', hand', freed')
  BY InRingIsQueued, AllDestroyed DEF Owners, DestroyRing
<1>2. Queued' = {}
  BY DEF Queued, Places, DestroyRing
<1>3. Ring'
  BY DEF Ring, RingOf, Holds, DestroyRing
<1> QED
  BY <1>1, <1>2, <1>3 DEF Owners

\* The steps of main that both labs share leave all that alone; they may start a thread.
LEMMA MainStep ==
  ASSUME Books, Hands, RunLabLogic,
         NEW S, "loop" \in S, producer_pc \in [ProducerIds -> S], consumer_pc \in [ConsumerIds -> S]
  PROVE  /\ UNCHANGED <<ringVars, msgVars>>
         /\ producer_pc' \in [ProducerIds -> S] /\ consumer_pc' \in [ConsumerIds -> S]
         /\ \A i \in ProducerIds :
              \/ producer_pc'[i] = producer_pc[i]
              \/ producer_pc[i] = "none" /\ producer_pc'[i] = "loop"
         /\ \A i \in ConsumerIds :
              \/ consumer_pc'[i] = consumer_pc[i]
              \/ consumer_pc[i] = "none" /\ consumer_pc'[i] = "loop"
         /\ Hands'
         /\ main # "done" /\ main' # "done"
         /\ Dismissed => Dismissed'
<1>1. /\ UNCHANGED <<ringVars, msgVars>> /\ main # "done" /\ main' # "done"
      /\ \/ UNCHANGED producer_pc
         \/ next_producer_id \in ProducerIds /\ ProducerGoes(next_producer_id, "loop")
      /\ \/ UNCHANGED consumer_pc
         \/ next_consumer_id \in ConsumerIds /\ ConsumerGoes(next_consumer_id, "loop")
  <2> USE DEF MainGoes, Press, PressThen, threadVars
  <2>1. CASE LoopTest \/ Idle \/ IdOverrun \/ Quit \/ StopThreads \/ JoinThreads
    BY <2>1 DEF LoopTest, Idle, IdOverrun, Quit, StopThreads, JoinThreads
  <2>2. CASE AddProducer \/ AddConsumer
    BY <2>2 DEF AddProducer, AddConsumer
  <2>3. CASE AddFails
    BY <2>3 DEF AddFails
  <2>4. CASE RemoveProducer \/ RemoveConsumer
    BY <2>4 DEF RemoveProducer, RemoveConsumer
  <2> QED
    BY <2>1, <2>2, <2>3, <2>4 DEF RunLabLogic
<1>2. /\ next_producer_id \in Int /\ next_consumer_id \in Int
      /\ producer_count \in Int /\ consumer_count \in Int
      /\ producer_count <= next_producer_id /\ consumer_count <= next_consumer_id
  <2>1. /\ next_producer_id \in 0 .. MaxProducers /\ next_consumer_id \in 0 .. MaxConsumers
        /\ producer_count \in 0 .. next_producer_id /\ consumer_count \in 0 .. next_consumer_id
        /\ MaxProducers \in Nat /\ MaxConsumers \in Nat
    BY ConstantsAssumption DEF ConstantsAssumption, Books, Side
  <2> QED
    BY <2>1
<1>7. /\ next_producer_id \in ProducerIds => producer_pc[next_producer_id] = "none"
      /\ next_consumer_id \in ConsumerIds => consumer_pc[next_consumer_id] = "none"
  <2>1. next_producer_id >= next_producer_id /\ next_consumer_id >= next_consumer_id
    BY <1>2
  <2> QED
    BY <2>1 DEF Books, Side, ProducerIds, ConsumerIds
<1>3. /\ producer_pc' \in [ProducerIds -> S]
      /\ \A i \in ProducerIds :
           \/ producer_pc'[i] = producer_pc[i]
           \/ producer_pc[i] = "none" /\ producer_pc'[i] = "loop"
  <2>1. CASE UNCHANGED producer_pc
    BY <2>1
  <2>2. CASE next_producer_id \in ProducerIds /\ ProducerGoes(next_producer_id, "loop")
    BY <1>7, <2>2 DEF ProducerGoes
  <2> QED
    BY <1>1, <2>1, <2>2
<1>4. /\ consumer_pc' \in [ConsumerIds -> S]
      /\ \A i \in ConsumerIds :
           \/ consumer_pc'[i] = consumer_pc[i]
           \/ consumer_pc[i] = "none" /\ consumer_pc'[i] = "loop"
  <2>1. CASE UNCHANGED consumer_pc
    BY <2>1
  <2>2. CASE next_consumer_id \in ConsumerIds /\ ConsumerGoes(next_consumer_id, "loop")
    BY <1>7, <2>2 DEF ConsumerGoes
  <2> QED
    BY <1>1, <2>1, <2>2
<1>5. Hands'
  BY <1>1, <1>4 DEF Hands, msgVars
<1>6. Dismissed => Dismissed'
  <2>1. /\ keep_running' = keep_running \/ keep_running' = FALSE
        /\ \/ UNCHANGED <<producer_count, next_producer_id>>
           \/ producer_count' = producer_count + 1 /\ next_producer_id' = next_producer_id + 1
           \/ producer_count' = producer_count - 1 /\ UNCHANGED next_producer_id
        /\ \/ UNCHANGED <<consumer_count, next_consumer_id>>
           \/ consumer_count' = consumer_count + 1 /\ next_consumer_id' = next_consumer_id + 1
           \/ consumer_count' = consumer_count - 1 /\ UNCHANGED next_consumer_id
    <3> USE DEF flagVars, idVars
    <3>1. CASE LoopTest \/ Idle \/ IdOverrun \/ StopThreads \/ JoinThreads
      BY <3>1 DEF LoopTest, Idle, IdOverrun, StopThreads, JoinThreads
    <3>5. CASE Quit
      BY <3>5 DEF Quit
    <3>2. CASE AddProducer \/ AddConsumer
      BY <3>2 DEF AddProducer, AddConsumer
    <3>3. CASE AddFails
      BY <3>3 DEF AddFails
    <3>4. CASE RemoveProducer \/ RemoveConsumer
      BY <3>4 DEF RemoveProducer, RemoveConsumer
    <3> QED
      BY <3>1, <3>2, <3>3, <3>4, <3>5 DEF RunLabLogic
  <2> QED
    BY <1>2, <2>1 DEF Dismissed
<1> QED
  BY <1>1, <1>3, <1>4, <1>5, <1>6

LEMMA LabTyped ==
  ASSUME Ring, Owners, Books
  PROVE  LabTypeOK
<1>1. freed \subseteq Message
  BY DEF Owners, Owned, Added
<1>2. /\ producer_count \in 0 .. MaxProducers /\ next_producer_id \in 0 .. MaxProducers
      /\ consumer_count \in 0 .. MaxConsumers /\ next_consumer_id \in 0 .. MaxConsumers
  <2>1. /\ next_producer_id \in 0 .. MaxProducers /\ next_consumer_id \in 0 .. MaxConsumers
        /\ producer_count \in 0 .. next_producer_id /\ consumer_count \in 0 .. next_consumer_id
        /\ MaxProducers \in Nat /\ MaxConsumers \in Nat
    BY ConstantsAssumption DEF ConstantsAssumption, Books, Side
  <2> QED
    BY <2>1
<1> QED
  BY <1>1, <1>2 DEF Ring, RingOf, Owners, Owned, Books, Side, LabTypeOK, ProducerIds, ConsumerIds

-----------------------------------------------------------------------------
(* The ring as a FIFO buffer.                                              *)

\* The messages in the ring, oldest first.
Row(b, c, h, n) == [k \in 1 .. n |-> Place(b, c, h, k - 1)]

LEMMA RowTyped ==
  ASSUME NEW b, NEW c, NEW h, NEW t, NEW n, RingOf(b, c, h, t, n)
  PROVE  /\ n \in Nat /\ n <= c
         /\ Row(b, c, h, n) \in Seq(Message) /\ Len(Row(b, c, h, n)) = n
         /\ \A k \in 1 .. n : Row(b, c, h, n)[k] = Place(b, c, h, k - 1)
<1>1. n \in Nat /\ n <= c /\ \A k \in 1 .. n : k - 1 \in 0 .. n - 1
  BY DEF RingOf
<1>2. Row(b, c, h, n) \in [1 .. n -> Message]
  BY <1>1 DEF RingOf, Holds, Row
<1> QED
  BY <1>1, <1>2 DEF Row

LEMMA SlotsInRow ==
  ASSUME NEW b, NEW c, NEW h, NEW t, NEW n, RingOf(b, c, h, t, n)
  PROVE  [i \in 1 .. n |-> b[(h + i - 1) % c]] = Row(b, c, h, n)
<1>1. h \in Int /\ n \in Int
  BY DEF RingOf
<1>2. \A k \in 1 .. n : b[(h + k - 1) % c] = Place(b, c, h, k - 1)
  <2>1. \A k \in Int : h + k - 1 = h + (k - 1)
    BY <1>1
  <2> QED
    BY <1>1, <2>1 DEF Place, Wrapped
<1> QED
  BY <1>2 DEF Row

LEMMA ContentsInRow ==
  ASSUME Ring
  PROVE  Contents = Row(buffer, capacity, head, count)
BY SlotsInRow DEF Ring, Contents, Slot

LEMMA NextContentsInRow ==
  ASSUME Ring'
  PROVE  Contents' = Row(buffer', capacity', head', count')
<1>1. RingOf(buffer', capacity', head', tail', count')
  BY DEF Ring
<1>2. [i \in 1 .. count' |-> buffer'[(head' + i - 1) % capacity']] = Row(buffer', capacity', head', count')
  BY <1>1, SlotsInRow
<1> QED
  BY <1>2 DEF Contents, Slot

LEMMA IsAppended ==
  ASSUME NEW S, NEW s \in Seq(S), NEW m \in S, NEW r \in Seq(S), NEW n, n = Len(s),
         Len(r) = n + 1, \A k \in 1 .. n : r[k] = s[k], r[n + 1] = m
  PROVE  r = Append(s, m)
<1>1. /\ Append(s, m) \in Seq(S) /\ Len(Append(s, m)) = n + 1
      /\ \A k \in 1 .. n : Append(s, m)[k] = s[k]
      /\ Append(s, m)[n + 1] = m
  BY AppendProperties
<1>2. \A k \in 1 .. Len(r) : r[k] = Append(s, m)[k]
  <2>1. \A k \in 1 .. Len(r) : k \in 1 .. n \/ k = n + 1
    OBVIOUS
  <2> QED
    BY <1>1, <2>1
<1> QED
  BY <1>1, <1>2, SeqEqual

LEMMA IsTail ==
  ASSUME NEW S, NEW s \in Seq(S), NEW r \in Seq(S), NEW n, n = Len(r),
         Len(s) = n + 1, \A k \in 1 .. n : r[k] = s[k + 1]
  PROVE  s # <<>> /\ r = Tail(s)
<1>1. s # <<>>
  OBVIOUS
<1>2. Tail(s) \in Seq(S) /\ Len(Tail(s)) = n /\ \A k \in 1 .. n : Tail(s)[k] = s[k + 1]
  BY <1>1, HeadTailProperties
<1> QED
  BY <1>1, <1>2, SeqEqual

LEMMA RowGrows ==
  ASSUME NEW b, NEW c, NEW h, NEW t, NEW n, NEW d, NEW v, NEW m,
         RingOf(b, c, h, t, n), NEW u, RingOf(d, c, h, u, v), v = n + 1, m \in Message, Place(d, c, h, n) = m,
         \A k \in 0 .. n - 1 : Place(d, c, h, k) = Place(b, c, h, k)
  PROVE  Row(d, c, h, v) = Append(Row(b, c, h, n), m)
<1> DEFINE old == Row(b, c, h, n)
           new == Row(d, c, h, v)
<1>1. n \in Nat /\ old \in Seq(Message) /\ Len(old) = n
      /\ \A k \in 1 .. n : old[k] = Place(b, c, h, k - 1)
  BY RowTyped
<1>2. new \in Seq(Message) /\ Len(new) = n + 1
      /\ \A k \in 1 .. n + 1 : new[k] = Place(d, c, h, k - 1)
  BY RowTyped
<1>3. \A k \in 1 .. n : new[k] = old[k]
  <2>1. \A k \in 1 .. n : k - 1 \in 0 .. n - 1 /\ k \in 1 .. n + 1
    BY <1>1
  <2> QED
    BY <1>1, <1>2, <2>1
<1>4. new[n + 1] = m
  <2>1. n + 1 \in 1 .. n + 1 /\ (n + 1) - 1 = n
    BY <1>1
  <2> QED
    BY <1>2, <2>1
<1> HIDE DEF old, new
<1>5. new = Append(old, m)
  BY <1>1, <1>2, <1>3, <1>4, IsAppended
<1> QED
  BY <1>5 DEF old, new

LEMMA RowShrinks ==
  ASSUME NEW b, NEW c, NEW h, NEW t, NEW n, NEW f, NEW v, RingOf(b, c, h, t, n),
         RingOf(b, c, f, t, v), n > 0, v = n - 1,
         \A k \in 0 .. n - 2 : Place(b, c, f, k) = Place(b, c, h, k + 1)
  PROVE  /\ Row(b, c, h, n) # <<>> /\ Head(Row(b, c, h, n)) = Place(b, c, h, 0)
         /\ Row(b, c, f, v) = Tail(Row(b, c, h, n))
<1> DEFINE old == Row(b, c, h, n)
           new == Row(b, c, f, v)
<1>1. n \in Nat /\ old \in Seq(Message) /\ Len(old) = n
      /\ \A k \in 1 .. n : old[k] = Place(b, c, h, k - 1)
  BY RowTyped
<1>2. new \in Seq(Message) /\ Len(new) = n - 1
      /\ \A k \in 1 .. n - 1 : new[k] = Place(b, c, f, k - 1)
  BY RowTyped
<1>3. \A k \in 1 .. n - 1 : new[k] = old[k + 1]
  <2>1. \A k \in 1 .. n - 1 : k - 1 \in 0 .. n - 2 /\ k + 1 \in 1 .. n /\ (k - 1) + 1 = (k + 1) - 1
    BY <1>1
  <2> QED
    BY <1>1, <1>2, <2>1
<1>4. old # <<>> /\ Head(old) = Place(b, c, h, 0)
  <2>1. 1 \in 1 .. n /\ 1 - 1 = 0
    BY <1>1
  <2>2. old[1] = Place(b, c, h, 0)
    BY <1>1, <2>1
  <2> HIDE DEF old
  <2> QED
    BY <1>1, <2>2
<1> HIDE DEF old, new
<1>5. new = Tail(old)
  <2>1. Len(old) = (n - 1) + 1
    BY <1>1
  <2> QED
    BY <1>1, <1>2, <1>3, <2>1, IsTail
<1> QED
  BY <1>4, <1>5 DEF old, new

LEMMA RowMoves ==
  ASSUME NEW b, NEW c, NEW h, NEW n, NEW d, NEW e, NEW g, n \in Nat,
         \A k \in 0 .. n - 1 : Place(d, e, g, k) = Place(b, c, h, k)
  PROVE  Row(d, e, g, n) = Row(b, c, h, n)
<1>1. \A k \in 1 .. n : k - 1 \in 0 .. n - 1
  OBVIOUS
<1> QED
  BY <1>1 DEF Row

\* The messages keep their order when they are copied into a new array.
LEMMA RowMoved ==
  ASSUME NEW first, NEW last, NEW n, RingOf(buffer, capacity, first, last, n),
         new_capacity_request \in Nat, new_capacity_request > 0, n <= new_capacity_request,
         MoveRing(first, n)
  PROVE  Ring' /\ Contents' = Row(buffer, capacity, first, n)
<1> DEFINE d == [i \in 0 .. new_capacity_request - 1 |->
                   IF i < n THEN Place(buffer, capacity, first, i) ELSE NoMessage]
<1>1. /\ buffer' = d /\ capacity' = new_capacity_request
      /\ head' = 0 /\ tail' = n /\ count' = n
  BY DEF MoveRing, Resized, Slot, Place, Wrapped
<1>2. /\ RingOf(d, new_capacity_request, 0, n, n)
      /\ Places(d, new_capacity_request, 0, n) = Places(buffer, capacity, first, n)
      /\ \A k \in 0 .. n - 1 : Place(d, new_capacity_request, 0, k) = Place(buffer, capacity, first, k)
  BY ONLY MovedRing, RingOf(buffer, capacity, first, last, n), new_capacity_request \in Nat,
         new_capacity_request > 0, n <= new_capacity_request
<1> HIDE DEF d
<1>3. Row(d, new_capacity_request, 0, n) = Row(buffer, capacity, first, n)
  <2>1. n \in Nat
    BY RowTyped
  <2> QED
    BY <1>2, <2>1, RowMoves
<1>4. Ring'
  BY <1>1, <1>2 DEF Ring
<1> QED
  BY <1>1, <1>3, <1>4, ContentsInRow, NextContentsInRow

\* What each producer would add next.
Offers(md) == [i \in ProducerIds |-> IF md[i] < MaxMade THEN <<i, md[i] + 1>> ELSE NoMessage]

LEMMA FifoStart ==
  ASSUME LabInit, Ring, Owners
  PROVE  Fifo!Init
<1>1. Contents = <<>>
  BY DEF LabInit, Contents
<1>2. capacity \in Nat
  BY DEF Ring, RingOf
<1>3. Offers(made) \in [ProducerIds -> Message \cup {NoMessage}]
  <2>1. ASSUME NEW i \in ProducerIds, made[i] < MaxMade
        PROVE  <<i, made[i] + 1>> \in Message
    BY <2>1, NextMessage DEF Owners
  <2> QED
    BY <2>1 DEF Offers
<1>4. hand = [i \in ConsumerIds |-> NoMessage]
  BY DEF LabInit
<1> QED
  BY <1>1, <1>2, <1>3, <1>4 DEF Fifo!Init, Offers

\* Steps that the buffer does not see.
LEMMA FifoStill ==
  ASSUME UNCHANGED <<buffer, capacity, head, count, made, hand>>
  PROVE  UNCHANGED Fifo!vars
BY DEF Fifo!vars, Contents, Slot

LEMMA FifoPut ==
  ASSUME Ring, Owners, NEW i \in ProducerIds, StoreMessage(i), count < capacity, made[i] < MaxMade
  PROVE  Fifo!Next
<1> DEFINE m == <<i, made[i] + 1>>
<1>1. i \in DOMAIN made /\ made \in [ProducerIds -> 0 .. MaxMade]
  BY DEF Owners, Owned
<1>2. /\ made' = [made EXCEPT ![i] = @ + 1] /\ buffer' = [buffer EXCEPT ![tail] = m]
      /\ tail' = Wrapped(tail + 1, capacity) /\ count' = count + 1
      /\ UNCHANGED <<capacity, head, hand, freed>> /\ tail < capacity
  BY <1>1 DEF StoreMessage, Slot, Wrapped
<1>3. m \in Message /\ m \notin Queued
  BY <1>2, NextMessage DEF Owners
<1>4. Ring' /\ Owners'
  BY PutStep
<1>5. Offers(made)[i] = m /\ m # NoMessage
  BY <1>3, NoMessageIsNone DEF Offers
<1>6. \E x \in Message \cup {NoMessage} : Offers(made') = [Offers(made) EXCEPT ![i] = x]
  <2>1. \A j \in ProducerIds : j # i => made'[j] = made[j]
    BY <1>1, <1>2
  <2> DEFINE x == IF made'[i] < MaxMade THEN <<i, made'[i] + 1>> ELSE NoMessage
  <2>2. x \in Message \cup {NoMessage}
    BY <1>4, NextMessage DEF Owners
  <2>3. Offers(made') = [Offers(made) EXCEPT ![i] = x]
    BY <2>1 DEF Offers
  <2> QED
    BY <2>2, <2>3
<1> HIDE DEF m
<1>7. /\ RingOf(buffer, capacity, head, tail, count) /\ m \notin Places(buffer, capacity, head, count)
      /\ Stored(buffer, tail, m, buffer')
      /\ m \in Message /\ tail < capacity
      /\ tail' = Wrapped(tail + 1, capacity) /\ count' = count + 1
  BY <1>2, <1>3 DEF Ring, Queued, Stored
<1>8. RingOf(buffer', capacity, head, tail', count')
  BY <1>7, PutInRing
<1>9. /\ Place(buffer', capacity, head, count) = m
      /\ \A k \in 0 .. count - 1 : Place(buffer', capacity, head, k) = Place(buffer, capacity, head, k)
  BY <1>7, <1>8, PutInRing
<1>10. Row(buffer', capacity, head, count') = Append(Row(buffer, capacity, head, count), m)
  BY <1>7, <1>8, <1>9, RowGrows
<1>11. Contents = Row(buffer, capacity, head, count) /\ Contents' = Row(buffer', capacity, head, count')
  BY <1>2, <1>4, ContentsInRow, NextContentsInRow
<1>12. Len(Contents) < capacity
  BY <1>7, <1>11, RowTyped
<1>13. Fifo!Put(i)
  BY <1>2, <1>5, <1>6, <1>10, <1>11, <1>12 DEF Fifo!Put, Offers
<1> QED
  BY <1>13 DEF Fifo!Next

\* The oldest message is taken, and a resize may be carried out at once.
LEMMA FifoTake ==
  ASSUME Ring, Owners, NEW i \in ConsumerIds, count > 0, hand[i] = NoMessage,
         NEW first, NEW n, first = Slot(head + 1), n = count - 1,
         hand' = [hand EXCEPT ![i] = buffer[head]], UNCHANGED made,
         \/ head' = first /\ count' = n /\ UNCHANGED <<buffer, capacity, tail>>
         \/ /\ MoveRing(first, n)
            /\ new_capacity_request \in Nat /\ new_capacity_request > 0 /\ n <= new_capacity_request
  PROVE  Fifo!Next
<1>1. first = Wrapped(head + 1, capacity) /\ RingOf(buffer, capacity, head, tail, count)
  BY DEF Slot, Wrapped, Ring
<1>2. RingOf(buffer, capacity, first, tail, n)
  BY <1>1, TakeFromRing
<1>3. /\ buffer[head] = Place(buffer, capacity, head, 0)
      /\ \A k \in 0 .. count - 2 : Place(buffer, capacity, first, k) = Place(buffer, capacity, head, k + 1)
  BY <1>1, <1>2, TakeFromRing
<1>4. /\ Contents # <<>> /\ Head(Contents) = buffer[head]
      /\ Row(buffer, capacity, first, n) = Tail(Contents)
  BY <1>1, <1>2, <1>3, RowShrinks, ContentsInRow
<1>5. Ring' /\ Contents' = Row(buffer, capacity, first, n)
  <2>1. CASE head' = first /\ count' = n /\ UNCHANGED <<buffer, capacity, tail>>
    <3>1. Ring'
      BY <1>2, <2>1 DEF Ring
    <3> QED
      BY <2>1, <3>1, ContentsInRow, NextContentsInRow
  <2>2. CASE /\ MoveRing(first, n)
             /\ new_capacity_request \in Nat /\ new_capacity_request > 0 /\ n <= new_capacity_request
    BY <1>2, <2>2, RowMoved
  <2> QED
    BY <2>1, <2>2
<1>6. capacity' \in Nat /\ Len(Contents') <= capacity'
  <2>1. RingOf(buffer', capacity', head', tail', count') /\ Contents' = Row(buffer', capacity', head', count')
    BY <1>5, ContentsInRow, NextContentsInRow DEF Ring
  <2> QED
    BY <2>1, RowTyped DEF RingOf
<1>7. Fifo!Get(i)
  BY <1>4, <1>5, <1>6 DEF Fifo!Get, Fifo!BoundHolds
<1> QED
  BY <1>7 DEF Fifo!Next

LEMMA FifoMove ==
  ASSUME Ring, MoveRing(head, count), new_capacity_request \in Nat, new_capacity_request > 0,
         count <= new_capacity_request, UNCHANGED <<made, hand>>
  PROVE  Fifo!Next
<1>1. Ring' /\ Contents' = Contents
  BY RowMoved, ContentsInRow, NextContentsInRow DEF Ring
<1>2. capacity' \in Nat /\ Len(Contents') <= capacity'
  <2>1. RingOf(buffer', capacity', head', tail', count') /\ Contents' = Row(buffer', capacity', head', count')
    BY <1>1, ContentsInRow, NextContentsInRow DEF Ring
  <2> QED
    BY <2>1, RowTyped DEF RingOf
<1> QED
  BY <1>1, <1>2 DEF Fifo!Next, Fifo!Resize, Fifo!BoundHolds

LEMMA FifoWork ==
  ASSUME NEW i \in ConsumerIds, destroy_message(i), UNCHANGED ringVars
  PROVE  Fifo!Next
<1>1. Fifo!Finish(i)
  BY DEF Fifo!Finish, destroy_message, ringVars, Contents, Slot
<1> QED
  BY <1>1 DEF Fifo!Next

LEMMA FifoClose ==
  ASSUME DestroyRing
  PROVE  Fifo!Next
<1>1. Fifo!Close
  BY DEF Fifo!Close, DestroyRing, Contents
<1> QED
  BY <1>1 DEF Fifo!Next

=============================================================================
