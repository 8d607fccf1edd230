--------------------------- MODULE SemQueueProofs ---------------------------
(***************************************************************************)
(* What is proved of SemQueue for every number of threads, every ring      *)
(* size, step and number of spare tokens, every set of keys, and whatever  *)
(* fails.                                                                  *)
(*                                                                         *)
(* TokensAccounted is not inductive by itself: that a resize leaves enough *)
(* tokens needs the ring not to be overfull, that a retired thread may     *)
(* give its token back needs the books of main, and that a message is in   *)
(* one place only needs to know which consumers hold one.  IInv is their   *)
(* conjunction.                                                            *)
(***************************************************************************)
EXTENDS SemQueue, ThreadLabProofs

ProducerPlaces == {"none", "loop", "wait", "got", "lock", "post", "repost", "report", "exit", "gone"}

ConsumerPlaces == {"none", "loop", "enter", "wait", "got", "lock", "post", "repost", "work",
                   "exit", "gone"}

Positions ==
  /\ producer_pc \in [ProducerIds -> ProducerPlaces]
  /\ consumer_pc \in [ConsumerIds -> ConsumerPlaces]
  /\ empty_slots \in Nat /\ filled_slots \in Nat

\* A producer that is after a slot has a message to put there.
HasMore == \A i \in ProducerIds : producer_pc[i] \in {"wait", "got", "lock"} => made[i] < MaxMade

-----------------------------------------------------------------------------
(* Counting.                                                               *)

Tally(S, f, A) == Cardinality({x \in S : f[x] \in A})

Unit(place, A) == IF place \in A THEN 1 ELSE 0

Carriers == {"got", "lock", "repost"}

Owing == {"post"}

\* EmptyTokens and FilledTokens, of the semaphore and the positions.
EmptyOf(e, ppc, cpc) == e + Tally(ProducerIds, ppc, Carriers) + Tally(ConsumerIds, cpc, Owing)
FilledOf(f, ppc, cpc) == f + Tally(ConsumerIds, cpc, Carriers) + Tally(ProducerIds, ppc, Owing)

LEMMA TallyType ==
  ASSUME NEW S, NEW f, NEW A, IsFiniteSet(S)
  PROVE  Tally(S, f, A) \in Nat
<1>1. {x \in S : f[x] \in A} \in SUBSET S
  OBVIOUS
<1> QED
  BY <1>1, FS_Subset, FS_CardinalityType DEF Tally

\* How many members of S are at a place in A after one of them has moved there.
LEMMA TallyMove ==
  ASSUME NEW S, NEW f, NEW g, NEW A, NEW c \in S, NEW to, IsFiniteSet(S),
         g[c] = to, \A x \in S : x # c => g[x] = f[x]
  PROVE  Tally(S, g, A) = Tally(S, f, A) + Unit(to, A) - Unit(f[c], A)
<1> DEFINE F == {x \in S : f[x] \in A}
           G == {x \in S : g[x] \in A}
<1>1. IsFiniteSet(F) /\ Cardinality(F) \in Nat
  BY FS_Subset, FS_CardinalityType
<1>2. Tally(S, f, A) = Cardinality(F) /\ Tally(S, g, A) = Cardinality(G)
  BY DEF Tally
<1>3. c \in F <=> f[c] \in A
  OBVIOUS
<1>4. CASE to \in A
  <2>1. G = F \cup {c}
    BY <1>4
  <2>2. Cardinality(G) = IF c \in F THEN Cardinality(F) ELSE Cardinality(F) + 1
    BY <1>1, <2>1, FS_AddElement
  <2> HIDE DEF F, G
  <2> QED
    BY <1>1, <1>2, <1>3, <1>4, <2>2 DEF Unit
<1>5. CASE to \notin A
  <2>1. G = F \ {c}
    BY <1>5
  <2>2. Cardinality(G) = IF c \in F THEN Cardinality(F) - 1 ELSE Cardinality(F)
    BY <1>1, <2>1, FS_RemoveElement
  <2> HIDE DEF F, G
  <2> QED
    BY <1>1, <1>2, <1>3, <1>5, <2>2 DEF Unit
<1> QED
  BY <1>4, <1>5

\* Threads that are counted neither before nor after do not change a tally.
LEMMA TallySame ==
  ASSUME NEW S, NEW f, NEW g, NEW A, \A x \in S : g[x] \in A <=> f[x] \in A
  PROVE  Tally(S, g, A) = Tally(S, f, A)
<1>1. {x \in S : g[x] \in A} = {x \in S : f[x] \in A}
  OBVIOUS
<1> QED
  BY <1>1 DEF Tally

LEMMA IdsAreFinite == IsFiniteSet(ProducerIds) /\ IsFiniteSet(ConsumerIds)
BY ConstantsAssumption, FS_Interval DEF ConstantsAssumption, ProducerIds, ConsumerIds

-----------------------------------------------------------------------------
(* The inductive invariant.                                                *)

Tokens ==
  /\ main # "done" =>
       /\ FilledOf(filled_slots, producer_pc, consumer_pc) >= count
       /\ EmptyOf(empty_slots, producer_pc, consumer_pc) >= capacity - count
  /\ ~Dismissed => FilledOf(filled_slots, producer_pc, consumer_pc) = count

IInv == Ring /\ Owners /\ Hands /\ Books /\ Positions /\ HasMore /\ Tokens

\* The tokens a producer's move carries along.
LEMMA ProducerTokens ==
  ASSUME Positions, NEW i \in ProducerIds, NEW from, NEW to, ProducerTo(i, from, to)
  PROVE  /\ Tally(ProducerIds, producer_pc, Carriers) \in Nat
         /\ Tally(ProducerIds, producer_pc, Owing) \in Nat
         /\ Tally(ConsumerIds, consumer_pc, Carriers) \in Nat
         /\ Tally(ConsumerIds, consumer_pc, Owing) \in Nat
         /\ Tally(ProducerIds, producer_pc', Carriers)
              = Tally(ProducerIds, producer_pc, Carriers) + Unit(to, Carriers) - Unit(from, Carriers)
         /\ Tally(ProducerIds, producer_pc', Owing)
              = Tally(ProducerIds, producer_pc, Owing) + Unit(to, Owing) - Unit(from, Owing)
         /\ UNCHANGED consumer_pc
<1>1. /\ producer_pc[i] = from /\ producer_pc'[i] = to
      /\ \A x \in ProducerIds : x # i => producer_pc'[x] = producer_pc[x]
      /\ UNCHANGED consumer_pc
  BY DEF ProducerTo, ProducerGoes, Positions
<1> QED
  BY <1>1, IdsAreFinite, TallyType, TallyMove

LEMMA ConsumerTokens ==
  ASSUME Positions, NEW i \in ConsumerIds, NEW from, NEW to, ConsumerTo(i, from, to)
  PROVE  /\ Tally(ProducerIds, producer_pc, Carriers) \in Nat
         /\ Tally(ProducerIds, producer_pc, Owing) \in Nat
         /\ Tally(ConsumerIds, consumer_pc, Carriers) \in Nat
         /\ Tally(ConsumerIds, consumer_pc, Owing) \in Nat
         /\ Tally(ConsumerIds, consumer_pc', Carriers)
              = Tally(ConsumerIds, consumer_pc, Carriers) + Unit(to, Carriers) - Unit(from, Carriers)
         /\ Tally(ConsumerIds, consumer_pc', Owing)
              = Tally(ConsumerIds, consumer_pc, Owing) + Unit(to, Owing) - Unit(from, Owing)
         /\ UNCHANGED producer_pc
<1>1. /\ consumer_pc[i] = from /\ consumer_pc'[i] = to
      /\ \A x \in ConsumerIds : x # i => consumer_pc'[x] = consumer_pc[x]
      /\ UNCHANGED producer_pc
  BY DEF ConsumerTo, ConsumerGoes, Positions
<1> QED
  BY <1>1, IdsAreFinite, TallyType, TallyMove

-----------------------------------------------------------------------------
(* The producer.                                                           *)

\* A producer that leaves the ring alone keeps the invariant if it takes and
\* posts exactly the tokens that its position says.
LEMMA StillProducer ==
  ASSUME IInv, NEW i \in ProducerIds, NEW from, NEW to \in ProducerPlaces, from # "none",
         ProducerTo(i, from, to), OnlySems,
         Lowered(producer_active, i, producer_active'),
         UNCHANGED <<keep_running, consumer_active>>,
         empty_slots' \in Nat, filled_slots' \in Nat,
         empty_slots' = empty_slots + Unit(from, Carriers) - Unit(to, Carriers),
         filled_slots' = filled_slots + Unit(from, Owing) - Unit(to, Owing),
         to \in {"wait", "got", "lock"} => made[i] < MaxMade
  PROVE  IInv'
<1>1. Ring' /\ Owners'
  BY StillStep DEF IInv, OnlySems
<1>2. Hands'
  BY DEF IInv, Hands, OnlySems, msgVars, ProducerTo
<1>3. Books'
  <2>1. UNCHANGED <<idVars, main, broken, resizeVars>>
    BY DEF OnlySems, mainVars
  <2>2. producer_pc[i] # "none" /\ ProducerGoes(i, to) /\ UNCHANGED consumer_pc
    BY DEF ProducerTo
  <2> QED
    BY <2>1, <2>2, BooksKeptByProducer DEF IInv
<1>4. Positions'
  BY DEF IInv, Positions, ProducerTo, ProducerGoes
<1>5. HasMore'
  BY DEF IInv, Positions, HasMore, ProducerTo, ProducerGoes, OnlySems, msgVars
<1>6. Tokens'
  <2>1. UNCHANGED <<capacity, count, main>> /\ (Dismissed' <=> Dismissed)
    BY DEF OnlySems, ringVars, mainVars, idVars, Dismissed
  <2>2. /\ FilledOf(filled_slots', producer_pc', consumer_pc') = FilledOf(filled_slots, producer_pc, consumer_pc)
        /\ EmptyOf(empty_slots', producer_pc', consumer_pc') = EmptyOf(empty_slots, producer_pc, consumer_pc)
    <3>1. empty_slots \in Nat /\ filled_slots \in Nat /\ Positions
      BY DEF IInv, Positions
    <3> QED
      BY <3>1, ProducerTokens DEF FilledOf, EmptyOf, Unit
  <2> QED
    BY <2>1, <2>2 DEF IInv, Tokens
<1> QED
  BY <1>1, <1>2, <1>3, <1>4, <1>5, <1>6 DEF IInv

LEMMA PutKeepsIInv ==
  ASSUME IInv, NEW i \in ProducerIds, ~ProducerBlocked, ProducerTo(i, "lock", "post"), StoreMessage(i),
         UNCHANGED <<resizeVars, mainVars, flagVars, semVars>>
  PROVE  IInv'
<1>1. count < capacity /\ made[i] < MaxMade
  BY DEF IInv, Ring, RingOf, HasMore, ProducerTo, ProducerBlocked
<1>2. Ring' /\ Owners'
  BY <1>1, PutStep DEF IInv
<1>3. Hands'
  BY DEF IInv, Hands, ProducerTo, StoreMessage
<1>4. Books'
  <2>1. producer_pc[i] # "none" /\ ProducerGoes(i, "post") /\ UNCHANGED consumer_pc
    BY DEF ProducerTo
  <2> QED
    BY <2>1, BooksKeptByProducer DEF IInv, mainVars, flagVars, Lowered
<1>5. Positions'
  BY DEF IInv, Positions, ProducerTo, ProducerGoes, ProducerPlaces, semVars
<1>6. HasMore'
  BY DEF IInv, Owners, Owned, Positions, HasMore, ProducerTo, ProducerGoes, StoreMessage
<1>7. Tokens'
  <2>1. /\ UNCHANGED <<capacity, main, empty_slots, filled_slots>> /\ count' = count + 1
        /\ (Dismissed' <=> Dismissed)
    BY DEF StoreMessage, mainVars, idVars, flagVars, semVars, Dismissed
  <2>2. Positions /\ empty_slots \in Nat /\ filled_slots \in Nat /\ count \in Nat /\ capacity \in Nat
    BY DEF IInv, Positions, Ring, RingOf
  <2>3. Unit("lock", Carriers) = 1 /\ Unit("post", Carriers) = 0 /\ Unit("lock", Owing) = 0 /\ Unit("post", Owing) = 1
    BY DEF Unit, Carriers, Owing
  <2>4. /\ FilledOf(filled_slots, producer_pc', consumer_pc') = FilledOf(filled_slots, producer_pc, consumer_pc) + 1
        /\ EmptyOf(empty_slots, producer_pc', consumer_pc') = EmptyOf(empty_slots, producer_pc, consumer_pc) - 1
        /\ FilledOf(filled_slots, producer_pc, consumer_pc) \in Nat
        /\ EmptyOf(empty_slots, producer_pc, consumer_pc) \in Nat
    BY <2>2, <2>3, ProducerTokens DEF FilledOf, EmptyOf
  <2>5. /\ FilledOf(filled_slots', producer_pc', consumer_pc') = FilledOf(filled_slots, producer_pc, consumer_pc) + 1
        /\ EmptyOf(empty_slots', producer_pc', consumer_pc') = EmptyOf(empty_slots, producer_pc, consumer_pc) - 1
    BY <2>1, <2>4
  <2> QED
    BY <2>1, <2>2, <2>4, <2>5 DEF IInv, Tokens
<1> QED
  BY <1>2, <1>3, <1>4, <1>5, <1>6, <1>7 DEF IInv

\* The step after which an array has been overrun.
LEMMA OverrunKeepsIInv ==
  ASSUME IInv, Overrun, UNCHANGED semVars
  PROVE  IInv'
<1>1. UNCHANGED <<ringVars, msgVars, producer_pc, consumer_pc, resizeVars, flagVars, idVars, main>>
  BY DEF Overrun, threadVars
<1>2. Ring' /\ Owners'
  BY <1>1, StillStep DEF IInv
<1>3. Books'
  <2>1. /\ Side(producer_active', producer_count', next_producer_id', MaxProducers, producer_pc')
        /\ Side(consumer_active', consumer_count', next_consumer_id', MaxConsumers, consumer_pc')
        /\ (Dismissed' <=> Dismissed)
    BY <1>1 DEF IInv, Books, idVars, flagVars, Dismissed
  <2> QED
    BY <1>1, <2>1, SidesNext DEF IInv, Books, Overrun, resizeVars, flagVars
<1>4. Hands' /\ Positions' /\ HasMore'
  BY <1>1 DEF IInv, Hands, Positions, HasMore, msgVars, semVars
<1>5. Tokens'
  BY <1>1 DEF IInv, Tokens, Dismissed, ringVars, idVars, flagVars, semVars
<1> QED
  BY <1>2, <1>3, <1>4, <1>5 DEF IInv

LEMMA ProducerKeepsIInv ==
  ASSUME IInv, NEW i \in ProducerIds, Producer(i)
  PROVE  IInv'
<1> USE DEF Carriers, Owing, ProducerPlaces
<1>0. empty_slots \in Nat /\ filled_slots \in Nat
  BY DEF IInv, Positions
<1>12. Lowered(producer_active, i, producer_active')
  BY DEF Lowered, Producer, ProducerLoop, ProducerToken, ProducerTimeout, ProducerWaitFails,
         ProducerCreate, ProducerPut, ProducerOverrun, Overrun, ProducerPost, ProducerRepost,
         ProducerReport, ProducerExit, flagVars
<1>1. CASE ProducerLoop(i)
  BY <1>0, <1>12, <1>1, StillProducer DEF ProducerLoop, semVars, flagVars, Unit
<1>2. CASE ProducerToken(i)
  BY <1>0, <1>12, <1>2, StillProducer DEF ProducerToken, flagVars, sem_wait, Unit, IInv, HasMore, ProducerTo
<1>3. CASE ProducerTimeout(i)
  BY <1>0, <1>12, <1>3, StillProducer DEF ProducerTimeout, semVars, flagVars, Unit
<1>4. CASE ProducerWaitFails(i)
  <2>1. /\ ProducerTo(i, "wait", "exit") /\ OnlySems
        /\ UNCHANGED <<keep_running, consumer_active, semVars>>
    BY <1>4 DEF ProducerWaitFails
  <2> QED
    BY <1>0, <1>12, <2>1, StillProducer DEF semVars, Unit
<1>5. CASE ProducerCreate(i)
  BY <1>0, <1>12, <1>5, StillProducer DEF ProducerCreate, flagVars, sem_post, Unit, IInv, HasMore, ProducerTo
<1>6. CASE ProducerPut(i)
  <2>1. CASE ProducerBlocked
    BY <1>0, <1>12, <1>6, <2>1, StillProducer DEF ProducerPut, semVars, flagVars, Unit
  <2>2. CASE ~ProducerBlocked
    BY <1>6, <2>2, PutKeepsIInv DEF ProducerPut
  <2> QED
    BY <2>1, <2>2
<1>7. CASE ProducerOverrun(i)
  BY <1>7, OverrunKeepsIInv DEF ProducerOverrun
<1>8. CASE ProducerPost(i)
  BY <1>0, <1>12, <1>8, StillProducer DEF ProducerPost, flagVars, sem_post, Unit
<1>9. CASE ProducerRepost(i)
  BY <1>0, <1>12, <1>9, StillProducer DEF ProducerRepost, flagVars, sem_post, Unit
<1>10. CASE ProducerReport(i)
  BY <1>0, <1>12, <1>10, StillProducer DEF ProducerReport, semVars, flagVars, Unit
<1>11. CASE ProducerExit(i)
  <2>1. /\ ProducerTo(i, "exit", "gone") /\ OnlySems
        /\ UNCHANGED <<keep_running, consumer_active, semVars>>
    BY <1>11 DEF ProducerExit
  <2> QED
    BY <1>0, <1>12, <2>1, StillProducer DEF semVars, Unit
<1> QED
  BY <1>1, <1>2, <1>3, <1>4, <1>5, <1>6, <1>7, <1>8, <1>9, <1>10, <1>11 DEF Producer

-----------------------------------------------------------------------------
(* The consumer.                                                           *)

LEMMA StillConsumer ==
  ASSUME IInv, NEW i \in ConsumerIds, NEW from, NEW to \in ConsumerPlaces, from # "none",
         ConsumerTo(i, from, to), OnlySems,
         Lowered(consumer_active, i, consumer_active'),
         UNCHANGED <<keep_running, producer_active>>,
         empty_slots' \in Nat, filled_slots' \in Nat,
         filled_slots' = filled_slots + Unit(from, Carriers) - Unit(to, Carriers),
         empty_slots' = empty_slots + Unit(from, Owing) - Unit(to, Owing),
         from \in {"post", "work"} <=> to \in {"post", "work"}
  PROVE  IInv'
<1>1. Ring' /\ Owners'
  BY StillStep DEF IInv, OnlySems
<1>2. Hands'
  BY DEF IInv, Hands, OnlySems, msgVars, ConsumerTo, ConsumerGoes, Positions
<1>3. Books'
  <2>1. UNCHANGED <<idVars, main, broken, resizeVars>>
    BY DEF OnlySems, mainVars
  <2>2. consumer_pc[i] # "none" /\ ConsumerGoes(i, to) /\ UNCHANGED producer_pc
    BY DEF ConsumerTo
  <2> QED
    BY <2>1, <2>2, BooksKeptByConsumer DEF IInv, resizeVars
<1>4. Positions'
  BY DEF IInv, Positions, ConsumerTo, ConsumerGoes
<1>5. HasMore'
  BY DEF IInv, HasMore, ConsumerTo, OnlySems, msgVars
<1>6. Tokens'
  <2>1. UNCHANGED <<capacity, count, main>> /\ (Dismissed' <=> Dismissed)
    BY DEF OnlySems, ringVars, mainVars, idVars, Dismissed
  <2>2. /\ FilledOf(filled_slots', producer_pc', consumer_pc') = FilledOf(filled_slots, producer_pc, consumer_pc)
        /\ EmptyOf(empty_slots', producer_pc', consumer_pc') = EmptyOf(empty_slots, producer_pc, consumer_pc)
    <3>1. empty_slots \in Nat /\ filled_slots \in Nat /\ Positions
      BY DEF IInv, Positions
    <3> QED
      BY <3>1, ConsumerTokens DEF FilledOf, EmptyOf, Unit
  <2> QED
    BY <2>1, <2>2 DEF IInv, Tokens
<1> QED
  BY <1>1, <1>2, <1>3, <1>4, <1>5, <1>6 DEF IInv

\* A resize leaves a token for every slot there is afterwards: what it cannot
\* take away some thread carries, or the ring is not full.
LEMMA ResizeKeepsIInv ==
  ASSUME IInv, NEW i \in ConsumerIds, NEW from, NEW to \in ConsumerPlaces, from # "none",
         ConsumerTo(i, from, to), resize_request # 0, Resize,
         UNCHANGED <<msgVars, flagVars, mainVars>>,
         from \notin {"post", "work"}, to \notin {"post", "work"},
         Unit(from, Carriers) = Unit(to, Carriers)
  PROVE  IInv'
<1>1. /\ new_capacity_request \in Nat /\ new_capacity_request > 0
      /\ count \in Nat /\ capacity \in Nat /\ count <= capacity
      /\ empty_slots \in Nat /\ filled_slots \in Nat /\ Positions
  <2>1. new_capacity_request \in Nat /\ new_capacity_request > 0
    BY DEF IInv, Books
  <2>2. capacity \in Nat /\ count \in 0 .. capacity
    BY DEF IInv, Ring, RingOf
  <2> QED
    BY <2>1, <2>2 DEF IInv, Positions
<1>3. /\ Ring' /\ Queued' = Queued
      /\ UNCHANGED <<count, filled_slots>>
      /\ \/ UNCHANGED <<capacity, empty_slots>>
         \/ capacity' = new_capacity_request /\ AdjustEmpty
  <2>1. CASE UNCHANGED <<ringVars, empty_slots>>
    BY <2>1 DEF IInv, Ring, Queued, ringVars, Resize
  <2>2. CASE count <= new_capacity_request /\ MoveRing(head, count) /\ AdjustEmpty
    <3>1. Ring' /\ Queued' = Queued
      BY <1>1, <2>2, MoveStep DEF IInv, Ring, Queued
    <3> QED
      BY <2>2, <3>1 DEF MoveRing, Resize
  <2> QED
    BY <2>1, <2>2 DEF Resize
<1>4. Owners'
  BY <1>3 DEF IInv, Owners, msgVars
<1>5. Hands'
  BY DEF IInv, Hands, msgVars, ConsumerTo, ConsumerGoes, Positions
<1>6. Books'
  <2>1. consumer_pc[i] # "none" /\ ConsumerGoes(i, to) /\ UNCHANGED producer_pc
    BY DEF ConsumerTo
  <2>2. /\ UNCHANGED <<idVars, main, broken, new_capacity_request, keep_running, producer_active>>
        /\ Lowered(consumer_active, i, consumer_active') /\ resize_request' = 0
    BY DEF Resize, mainVars, flagVars, Lowered
  <2> QED
    BY <2>1, <2>2, BooksKeptByConsumer DEF IInv
<1>7. Positions'
  BY <1>1, <1>3 DEF Positions, ConsumerTo, ConsumerGoes, AdjustEmpty
<1>8. HasMore'
  BY DEF IInv, HasMore, ConsumerTo, msgVars
<1>9. Tokens'
  <2>1. UNCHANGED main /\ (Dismissed' <=> Dismissed)
    BY DEF mainVars, idVars, flagVars, Dismissed
  <2>2. Unit(from, Owing) = 0 /\ Unit(to, Owing) = 0 /\ Unit(from, Carriers) \in Nat
    BY DEF Unit, Owing
  <2> DEFINE carried == Tally(ProducerIds, producer_pc, Carriers) + Tally(ConsumerIds, consumer_pc, Owing)
  <2>3. /\ FilledOf(filled_slots', producer_pc', consumer_pc') = FilledOf(filled_slots, producer_pc, consumer_pc)
        /\ carried \in Nat
        /\ EmptyOf(empty_slots', producer_pc', consumer_pc') = empty_slots' + carried
        /\ EmptyOf(empty_slots, producer_pc, consumer_pc) = empty_slots + carried
    BY <1>1, <1>3, <1>7, <2>2, ConsumerTokens DEF FilledOf, EmptyOf, Positions
  <2> HIDE DEF carried
  <2>4. empty_slots + carried >= capacity - count => empty_slots' + carried >= capacity' - count
    <3>1. CASE UNCHANGED <<capacity, empty_slots>>
      BY <3>1
    <3>2. CASE capacity' = new_capacity_request /\ AdjustEmpty
      BY <1>1, <2>3, <3>2 DEF AdjustEmpty
    <3> QED
      BY <1>3, <3>1, <3>2
  <2> QED
    BY <1>3, <2>1, <2>3, <2>4 DEF IInv, Tokens
<1> QED
  BY <1>3, <1>4, <1>5, <1>6, <1>7, <1>8, <1>9 DEF IInv

LEMMA TakeKeepsIInv ==
  ASSUME IInv, NEW i \in ConsumerIds, count > 0, ConsumerTo(i, "lock", "post"),
         hand' = [hand EXCEPT ![i] = buffer[head]],
         head' = Slot(head + 1), count' = count - 1,
         UNCHANGED <<buffer, capacity, tail, resizeVars, made, freed, semVars, flagVars, mainVars>>
  PROVE  IInv'
<1>1. consumer_pc[i] = "lock" /\ ConsumerGoes(i, "post") /\ UNCHANGED producer_pc
  BY DEF ConsumerTo
<1>2. hand[i] = NoMessage
  BY <1>1 DEF IInv, Hands
<1>3. /\ RingOf(buffer, capacity, head', tail, count') /\ buffer[head] \in Message
      /\ Owned(Places(buffer, capacity, head', count'), made, [hand EXCEPT ![i] = buffer[head]], freed)
  BY <1>2, TakeStep DEF IInv
<1>4. Ring' /\ Owners'
  BY <1>3 DEF Ring, Owners, Queued
<1>5. Hands'
  <2>1. hand \in [ConsumerIds -> Message \cup {NoMessage}] /\ consumer_pc \in [ConsumerIds -> ConsumerPlaces]
    BY DEF IInv, Owners, Owned, Positions
  <2>2. buffer[head] # NoMessage
    BY <1>3, NoMessageIsNone
  <2>3. \A j \in ConsumerIds : hand'[j] = (IF j = i THEN buffer[head] ELSE hand[j])
    BY <2>1
  <2>4. \A j \in ConsumerIds : consumer_pc'[j] = (IF j = i THEN "post" ELSE consumer_pc[j])
    BY <1>1, <2>1 DEF ConsumerGoes
  <2> QED
    BY <2>2, <2>3, <2>4 DEF IInv, Hands
<1>6. Books'
  <2>1. /\ UNCHANGED <<idVars, main, broken, new_capacity_request, keep_running, producer_active, resize_request>>
        /\ Lowered(consumer_active, i, consumer_active')
    BY DEF resizeVars, mainVars, flagVars, Lowered
  <2> QED
    BY <1>1, <2>1, BooksKeptByConsumer DEF IInv
<1>7. Positions'
  BY <1>1 DEF IInv, Positions, ConsumerGoes, ConsumerPlaces, semVars
<1>8. HasMore'
  BY <1>1 DEF IInv, HasMore
<1>9. Tokens'
  <2>1. /\ UNCHANGED <<capacity, main, empty_slots, filled_slots>> /\ count' = count - 1
        /\ (Dismissed' <=> Dismissed)
    BY DEF mainVars, idVars, flagVars, semVars, Dismissed
  <2>2. Positions /\ empty_slots \in Nat /\ filled_slots \in Nat /\ count \in Nat /\ capacity \in Nat
    BY DEF IInv, Positions, Ring, RingOf
  <2>3. Unit("lock", Carriers) = 1 /\ Unit("post", Carriers) = 0 /\ Unit("lock", Owing) = 0 /\ Unit("post", Owing) = 1
    BY DEF Unit, Carriers, Owing
  <2>4. /\ FilledOf(filled_slots, producer_pc', consumer_pc') = FilledOf(filled_slots, producer_pc, consumer_pc) - 1
        /\ EmptyOf(empty_slots, producer_pc', consumer_pc') = EmptyOf(empty_slots, producer_pc, consumer_pc) + 1
        /\ FilledOf(filled_slots, producer_pc, consumer_pc) \in Nat
        /\ EmptyOf(empty_slots, producer_pc, consumer_pc) \in Nat
    BY <2>2, <2>3, ConsumerTokens DEF FilledOf, EmptyOf
  <2>5. /\ FilledOf(filled_slots', producer_pc', consumer_pc') = FilledOf(filled_slots, producer_pc, consumer_pc) - 1
        /\ EmptyOf(empty_slots', producer_pc', consumer_pc') = EmptyOf(empty_slots, producer_pc, consumer_pc) + 1
    BY <2>1, <2>4
  <2> QED
    BY <2>1, <2>2, <2>4, <2>5 DEF IInv, Tokens
<1> QED
  BY <1>4, <1>5, <1>6, <1>7, <1>8, <1>9 DEF IInv

\* The consumer destroys the message it took.
LEMMA WorkKeepsIInv ==
  ASSUME IInv, NEW i \in ConsumerIds, ConsumerWork(i)
  PROVE  IInv'
<1>1. /\ consumer_pc[i] = "work" /\ ConsumerGoes(i, "loop") /\ UNCHANGED producer_pc
      /\ destroy_message(i) /\ ConsumerTo(i, "work", "loop")
      /\ UNCHANGED <<ringVars, resizeVars, flagVars, mainVars, semVars>>
  BY DEF ConsumerWork, ConsumerTo
<1>2. hand[i] # NoMessage
  BY <1>1 DEF IInv, Hands
<1>3. Ring' /\ Owners'
  BY <1>1, <1>2, WorkStep DEF IInv
<1>4. Hands'
  <2>1. hand \in [ConsumerIds -> Message \cup {NoMessage}] /\ consumer_pc \in [ConsumerIds -> ConsumerPlaces]
    BY DEF IInv, Owners, Owned, Positions
  <2>2. \A j \in ConsumerIds : hand'[j] = (IF j = i THEN NoMessage ELSE hand[j])
    BY <1>1, <2>1 DEF destroy_message
  <2>3. \A j \in ConsumerIds : consumer_pc'[j] = (IF j = i THEN "loop" ELSE consumer_pc[j])
    BY <1>1, <2>1 DEF ConsumerGoes
  <2> QED
    BY <2>2, <2>3 DEF IInv, Hands
<1>5. Books'
  <2>1. /\ UNCHANGED <<idVars, main, broken, new_capacity_request, keep_running, producer_active, resize_request>>
        /\ Lowered(consumer_active, i, consumer_active')
    BY <1>1 DEF resizeVars, mainVars, flagVars, Lowered
  <2> QED
    BY <1>1, <2>1, BooksKeptByConsumer DEF IInv
<1>6. Positions'
  BY <1>1 DEF IInv, Positions, ConsumerGoes, ConsumerPlaces, semVars
<1>7. HasMore'
  BY <1>1 DEF IInv, HasMore, destroy_message
<1>8. Tokens'
  <2>1. /\ UNCHANGED <<capacity, count, main, empty_slots, filled_slots>>
        /\ (Dismissed' <=> Dismissed)
    BY <1>1 DEF ringVars, mainVars, idVars, flagVars, semVars, Dismissed
  <2>2. Positions /\ empty_slots \in Nat /\ filled_slots \in Nat
    BY DEF IInv, Positions
  <2>3. Unit("work", Carriers) = 0 /\ Unit("loop", Carriers) = 0 /\ Unit("work", Owing) = 0 /\ Unit("loop", Owing) = 0
    BY DEF Unit, Carriers, Owing
  <2>4. /\ FilledOf(filled_slots, producer_pc', consumer_pc') = FilledOf(filled_slots, producer_pc, consumer_pc)
        /\ EmptyOf(empty_slots, producer_pc', consumer_pc') = EmptyOf(empty_slots, producer_pc, consumer_pc)
    BY <1>1, <2>2, <2>3, ConsumerTokens DEF FilledOf, EmptyOf
  <2>5. /\ FilledOf(filled_slots', producer_pc', consumer_pc') = FilledOf(filled_slots, producer_pc, consumer_pc)
        /\ EmptyOf(empty_slots', producer_pc', consumer_pc') = EmptyOf(empty_slots, producer_pc, consumer_pc)
    BY <2>1, <2>4
  <2> QED
    BY <2>1, <2>5 DEF IInv, Tokens
<1> QED
  BY <1>3, <1>4, <1>5, <1>6, <1>7, <1>8 DEF IInv

LEMMA ConsumerKeepsIInv ==
  ASSUME IInv, NEW i \in ConsumerIds, Consumer(i)
  PROVE  IInv'
<1> USE DEF Carriers, Owing, ConsumerPlaces
<1>0. empty_slots \in Nat /\ filled_slots \in Nat
  BY DEF IInv, Positions
<1>1. CASE ConsumerLoop(i)
  BY <1>0, <1>1, StillConsumer DEF ConsumerLoop, semVars, flagVars, Unit, Lowered
<1>2. CASE ConsumerEnter(i)
  <2>1. CASE resize_request # 0
    BY <1>2, <2>1, ResizeKeepsIInv DEF ConsumerEnter, Unit
  <2>2. CASE resize_request = 0
    <3>1. ConsumerTo(i, "enter", "wait") /\ OnlySems /\ UNCHANGED <<flagVars, semVars>>
      BY <1>2, <2>2 DEF ConsumerEnter, OnlySems
    <3> QED
      BY <1>0, <3>1, StillConsumer DEF semVars, flagVars, Unit, Lowered
  <2> QED
    BY <2>1, <2>2
<1>3. CASE ConsumerToken(i)
  BY <1>0, <1>3, StillConsumer DEF ConsumerToken, flagVars, sem_wait, Unit, Lowered
<1>4. CASE ConsumerTimeout(i)
  BY <1>0, <1>4, StillConsumer DEF ConsumerTimeout, semVars, flagVars, Unit, Lowered
<1>5. CASE ConsumerWaitFails(i)
  <2>1. /\ ConsumerTo(i, "wait", "exit") /\ OnlySems
        /\ UNCHANGED <<keep_running, producer_active, semVars>>
        /\ Lowered(consumer_active, i, consumer_active')
    BY <1>5 DEF ConsumerWaitFails, Lowered
  <2> QED
    BY <1>0, <2>1, StillConsumer DEF semVars, Unit
<1>6. CASE ConsumerStopTest(i)
  BY <1>0, <1>6, StillConsumer DEF ConsumerStopTest, GiveBack, flagVars, sem_post, Unit, Lowered
<1>7. CASE ConsumerTake(i)
  <2>1. CASE CanResizeNow
    <3>1. resize_request # 0 /\ ConsumerTo(i, "lock", "repost") /\ Resize
          /\ UNCHANGED <<msgVars, flagVars, mainVars>>
      BY <1>7, <2>1 DEF ConsumerTake, CanResizeNow
    <3> QED
      BY <3>1, ResizeKeepsIInv DEF Unit
  <2>2. CASE ~CanResizeNow /\ ConsumerTo(i, "lock", "repost") /\ UNCHANGED <<ringVars, resizeVars, msgVars, semVars>>
    <3>1. ConsumerTo(i, "lock", "repost") /\ OnlySems /\ UNCHANGED <<flagVars, semVars>>
      BY <1>7, <2>2 DEF ConsumerTake, OnlySems
    <3> QED
      BY <1>0, <3>1, StillConsumer DEF semVars, flagVars, Unit, Lowered
  <2>3. CASE ~CanResizeNow /\ count > 0 /\ ConsumerTo(i, "lock", "post")
    <3>1. /\ count > 0 /\ ConsumerTo(i, "lock", "post")
          /\ hand' = [hand EXCEPT ![i] = buffer[head]]
          /\ head' = Slot(head + 1) /\ count' = count - 1
          /\ UNCHANGED <<buffer, capacity, tail, resizeVars, made, freed, semVars, flagVars, mainVars>>
      BY <1>7, <2>3 DEF ConsumerTake, ConsumerTo, ConsumerGoes, IInv, Positions
    <3> QED
      BY <3>1, TakeKeepsIInv
  <2> QED
    BY <1>7, <2>1, <2>2, <2>3 DEF ConsumerTake
<1>8. CASE ConsumerRepost(i)
  BY <1>0, <1>8, StillConsumer DEF ConsumerRepost, flagVars, sem_post, Unit, Lowered
<1>9. CASE ConsumerPost(i)
  BY <1>0, <1>9, StillConsumer DEF ConsumerPost, flagVars, sem_post, Unit, Lowered
<1>10. CASE ConsumerWork(i)
  BY <1>10, WorkKeepsIInv
<1>11. CASE ConsumerExit(i)
  <2>1. /\ ConsumerTo(i, "exit", "gone") /\ OnlySems
        /\ UNCHANGED <<keep_running, producer_active, semVars>>
        /\ Lowered(consumer_active, i, consumer_active')
    BY <1>11 DEF ConsumerExit, Lowered
  <2> QED
    BY <1>0, <2>1, StillConsumer DEF semVars, Unit
<1> QED
  BY <1>1, <1>2, <1>3, <1>4, <1>5, <1>6, <1>7, <1>8, <1>9, <1>10, <1>11 DEF Consumer

-----------------------------------------------------------------------------
(* The main thread.                                                        *)

\* The tallies are numbers.
LEMMA Tallies ==
  /\ Tally(ProducerIds, producer_pc, Carriers) \in Nat /\ Tally(ProducerIds, producer_pc, Owing) \in Nat
  /\ Tally(ConsumerIds, consumer_pc, Carriers) \in Nat /\ Tally(ConsumerIds, consumer_pc, Owing) \in Nat
BY IdsAreFinite, TallyType

LEMMA MainKeepsIInv ==
  ASSUME IInv, Main
  PROVE  IInv'
<1>1. CASE RunLabLogic /\ UNCHANGED semVars
  <2> DEFINE S == ProducerPlaces \cup ConsumerPlaces
  <2>1. /\ "loop" \in S /\ producer_pc \in [ProducerIds -> S] /\ consumer_pc \in [ConsumerIds -> S]
    BY DEF IInv, Positions, ProducerPlaces
  <2>2. /\ UNCHANGED <<ringVars, msgVars>>
        /\ producer_pc' \in [ProducerIds -> S] /\ consumer_pc' \in [ConsumerIds -> S]
        /\ \A i \in ProducerIds :
             \/ producer_pc'[i] = producer_pc[i]
             \/ producer_pc[i] = "none" /\ producer_pc'[i] = "loop"
        /\ \A i \in ConsumerIds :
             \/ consumer_pc'[i] = consumer_pc[i]
             \/ consumer_pc[i] = "none" /\ consumer_pc'[i] = "loop"
        /\ Hands'
        /\ main # "done" /\ main' # "done"
        /\ Dismissed => Dismissed'
    BY <1>1, <2>1, MainStep DEF IInv
  <2>3. Ring' /\ Owners'
    BY <2>2, StillStep DEF IInv
  <2>4. Books'
    BY <1>1, BooksKeptByMain DEF IInv
  <2>5. Positions'
    <3>1. producer_pc' \in [ProducerIds -> ProducerPlaces]
      BY <2>2 DEF IInv, Positions, ProducerPlaces
    <3>2. consumer_pc' \in [ConsumerIds -> ConsumerPlaces]
      BY <2>2 DEF IInv, Positions, ConsumerPlaces
    <3> QED
      BY <1>1, <3>1, <3>2 DEF IInv, Positions, semVars
  <2>6. HasMore'
    BY <2>2 DEF IInv, HasMore, msgVars
  <2>7. /\ Tally(ProducerIds, producer_pc', Carriers) = Tally(ProducerIds, producer_pc, Carriers)
        /\ Tally(ProducerIds, producer_pc', Owing) = Tally(ProducerIds, producer_pc, Owing)
        /\ Tally(ConsumerIds, consumer_pc', Carriers) = Tally(ConsumerIds, consumer_pc, Carriers)
        /\ Tally(ConsumerIds, consumer_pc', Owing) = Tally(ConsumerIds, consumer_pc, Owing)
    <3>1. /\ \A i \in ProducerIds : producer_pc'[i] \in Carriers <=> producer_pc[i] \in Carriers
          /\ \A i \in ProducerIds : producer_pc'[i] \in Owing <=> producer_pc[i] \in Owing
          /\ \A i \in ConsumerIds : consumer_pc'[i] \in Carriers <=> consumer_pc[i] \in Carriers
          /\ \A i \in ConsumerIds : consumer_pc'[i] \in Owing <=> consumer_pc[i] \in Owing
      BY <2>2 DEF Carriers, Owing
    <3> QED
      BY <3>1, TallySame
  <2>8. Tokens'
    BY <1>1, <2>2, <2>7 DEF IInv, Tokens, FilledOf, EmptyOf, ringVars, semVars
  <2> QED
    BY <2>2, <2>3, <2>4, <2>5, <2>6, <2>8 DEF IInv
<1>2. CASE request_resize_sem /\ UNCHANGED semVars
  <2>1. PICK key : RequestResize(key)
    BY <1>2 DEF request_resize_sem
  <2>2. UNCHANGED <<ringVars, producer_pc, consumer_pc, msgVars, flagVars, idVars>> /\ main = "key" /\ main' = "run"
    BY <2>1 DEF RequestResize, Press, PressThen, MainGoes, threadVars
  <2>3. Ring' /\ Owners' /\ Hands'
    BY <2>2, StillStep DEF IInv, Hands, msgVars
  <2>4. Books'
    BY <2>1, BooksKeptByRequest DEF IInv, Ring, RingOf
  <2>5. Positions' /\ HasMore' /\ Tokens'
    BY <1>2, <2>2 DEF IInv, Positions, HasMore, Tokens, Dismissed, msgVars, ringVars, flagVars, idVars, semVars
  <2> QED
    BY <2>3, <2>4, <2>5 DEF IInv
<1>3. CASE signal_cleanup_sem
  <2>1. /\ UNCHANGED <<ringVars, producer_pc, consumer_pc, msgVars, flagVars, idVars>>
        /\ main \notin {"run", "key", "done"} /\ SignalCleanup
    BY <1>3 DEF signal_cleanup_sem, SignalCleanup, MainGoes, threadVars
  <2>2. Ring' /\ Owners' /\ Hands'
    BY <2>1, StillStep DEF IInv, Hands, msgVars
  <2>3. Books'
    BY <2>1, BooksKeptByCleanup DEF IInv
  <2>4. PICK signals \in Nat : /\ empty_slots' = empty_slots + signals
                               /\ filled_slots' = filled_slots + signals
    <3> DEFINE signals == capacity + producer_count + consumer_count + Spare
    <3>1. capacity \in Nat /\ producer_count \in Nat /\ consumer_count \in Nat /\ Spare \in Nat
      <4>1. /\ next_producer_id \in 0 .. MaxProducers /\ next_consumer_id \in 0 .. MaxConsumers
            /\ producer_count \in 0 .. next_producer_id /\ consumer_count \in 0 .. next_consumer_id
            /\ MaxProducers \in Nat /\ MaxConsumers \in Nat
        BY ConstantsAssumption DEF ConstantsAssumption, IInv, Books, Side
      <4>2. producer_count \in Nat /\ consumer_count \in Nat
        BY <4>1
      <4>3. capacity \in Nat
        BY DEF IInv, Ring, RingOf
      <4> QED
        BY <4>2, <4>3, SpareAssumption DEF SpareAssumption
    <3>2. signals \in Nat
      BY <3>1
    <3> QED
      BY <1>3, <3>2 DEF signal_cleanup_sem
  <2>5. Positions' /\ HasMore'
    BY <2>1, <2>4 DEF IInv, Positions, HasMore, msgVars
  <2>6. Tokens'
    <3>1. Dismissed /\ (Dismissed' <=> Dismissed) /\ main # "done"
      BY <2>1 DEF IInv, Books, Dismissed, flagVars, idVars
    <3>2. /\ FilledOf(filled_slots', producer_pc', consumer_pc')
               = FilledOf(filled_slots, producer_pc, consumer_pc) + signals
          /\ EmptyOf(empty_slots', producer_pc', consumer_pc')
               = EmptyOf(empty_slots, producer_pc, consumer_pc) + signals
          /\ FilledOf(filled_slots, producer_pc, consumer_pc) \in Nat
          /\ EmptyOf(empty_slots, producer_pc, consumer_pc) \in Nat
      BY <2>1, <2>4, Tallies DEF FilledOf, EmptyOf, IInv, Positions
    <3>3. count \in Nat /\ capacity \in Nat /\ UNCHANGED <<count, capacity>>
      BY <2>1 DEF IInv, Ring, RingOf, ringVars
    <3> QED
      BY <3>1, <3>2, <3>3 DEF IInv, Tokens
  <2> QED
    BY <2>2, <2>3, <2>5, <2>6 DEF IInv
<1>4. CASE destroy_queue_sem
  <2>1. Ring' /\ Owners'
    BY <1>4, DestroyStep DEF IInv, destroy_queue_sem
  <2>2. UNCHANGED <<producer_pc, consumer_pc, made, hand, semVars>>
    BY <1>4 DEF destroy_queue_sem, DestroyRing
  <2>3. Hands' /\ Positions' /\ HasMore'
    BY <2>2 DEF IInv, Hands, Positions, HasMore, semVars
  <2>4. Books'
    BY <1>4, BooksKeptByDestroy DEF IInv, destroy_queue_sem, resizeVars, flagVars
  <2>5. main' = "done"
    BY <1>4 DEF destroy_queue_sem, MainGoes
  <2>6. Tokens'
    BY <2>4, <2>5 DEF Tokens, Books
  <2> QED
    BY <2>1, <2>3, <2>4, <2>6 DEF IInv
<1> QED
  BY <1>1, <1>2, <1>3, <1>4 DEF Main

-----------------------------------------------------------------------------
(* The theorems.                                                           *)

LEMMA InitIInv ==
  ASSUME Init
  PROVE  IInv
<1>1. Ring /\ Owners /\ Hands /\ Books
  BY LabStart, BooksInit DEF Init
<1>2. Positions /\ HasMore
  BY ConstantsAssumption
     DEF ConstantsAssumption, Init, LabInit, Positions, HasMore, ProducerPlaces, ConsumerPlaces
<1>3. /\ Tally(ConsumerIds, consumer_pc, Carriers) = 0 /\ Tally(ProducerIds, producer_pc, Owing) = 0
      /\ Tally(ProducerIds, producer_pc, Carriers) = 0 /\ Tally(ConsumerIds, consumer_pc, Owing) = 0
  <2>1. /\ {x \in ConsumerIds : consumer_pc[x] \in Carriers} = {}
        /\ {x \in ConsumerIds : consumer_pc[x] \in Owing} = {}
        /\ {x \in ProducerIds : producer_pc[x] \in Carriers} = {}
        /\ {x \in ProducerIds : producer_pc[x] \in Owing} = {}
    BY DEF Init, LabInit, Carriers, Owing
  <2> QED
    BY <2>1, FS_EmptySet DEF Tally
<1>4. Tokens
  BY <1>3, ConstantsAssumption DEF ConstantsAssumption, Init, LabInit, Tokens, FilledOf, EmptyOf
<1> QED
  BY <1>1, <1>2, <1>4 DEF IInv

LEMMA StutterKeepsIInv ==
  ASSUME IInv, UNCHANGED vars
  PROVE  IInv'
<1>1. UNCHANGED <<ringVars, resizeVars, msgVars, producer_pc, consumer_pc, flagVars, idVars, main, broken, semVars>>
  BY DEF vars, labVars, threadVars, mainVars
<1>2. Ring' /\ Owners' /\ Hands'
  BY <1>1, StillStep DEF IInv, Hands, msgVars
<1>3. Positions' /\ HasMore' /\ Tokens'
  BY <1>1 DEF IInv, Positions, HasMore, Tokens, Dismissed, msgVars, ringVars, flagVars, idVars, semVars
<1>4. Books'
  <2>1. /\ Side(producer_active', producer_count', next_producer_id', MaxProducers, producer_pc')
        /\ Side(consumer_active', consumer_count', next_consumer_id', MaxConsumers, consumer_pc')
        /\ (Dismissed' <=> Dismissed)
    BY <1>1 DEF IInv, Books, idVars, flagVars, Dismissed
  <2> QED
    BY <1>1, <2>1, SidesNext DEF IInv, Books, resizeVars, flagVars
<1> QED
  BY <1>2, <1>3, <1>4 DEF IInv

\* IInv holds in every reachable state.
THEOREM Invariance == Spec => []IInv
<1>1. ASSUME IInv, [Next]_vars
      PROVE  IInv'
  <2>1. CASE Next
    <3>1. \/ Main
          \/ \E i \in ProducerIds : Producer(i)
          \/ \E i \in ConsumerIds : Consumer(i)
      BY <2>1 DEF Next
    <3> QED
      BY <1>1, <3>1, MainKeepsIInv, ProducerKeepsIInv, ConsumerKeepsIInv
  <2>2. CASE UNCHANGED vars
    BY <1>1, <2>2, StutterKeepsIInv
  <2> QED
    BY <1>1, <2>1, <2>2
<1> QED
  BY <1>1, InitIInv, PTL DEF Spec

\* Type correctness: indices, counters and flags stay in their ranges, whatever
\* the semaphores of queue_sem.c say.
THEOREM TypeCorrect == Spec => []TypeOK
<1>1. IInv => TypeOK
  BY LabTyped DEF IInv, TypeOK, Positions, ProducerPlaces, ConsumerPlaces
<1> QED
  BY <1>1, Invariance, PTL

\* Every message is in one place, through every put, take, resize and retirement
\* in queue_sem.c: none is lost, handed out twice, or destroyed early.
THEOREM MessagesOwnedOnce == Spec => []OwnedOnce
<1>1. IInv => OwnedOnce
  BY OwnersOwnOnce DEF IInv
<1> QED
  BY <1>1, Invariance, PTL

\* No slot and no message is ever without a token of empty_slots or
\* filled_slots, whatever fails and whoever is retired while it carries one.
THEOREM TokensAreAccounted == Spec => []TokensAccounted
<1>1. /\ FilledOf(filled_slots, producer_pc, consumer_pc) = FilledTokens
      /\ EmptyOf(empty_slots, producer_pc, consumer_pc) = EmptyTokens
  BY DEF FilledOf, EmptyOf, FilledTokens, EmptyTokens, ProducersAt, ConsumersAt, Tally, Carriers, Owing
<1>2. Dismissed <=> SurplusPosted
  BY DEF Dismissed, SurplusPosted
<1>3. IInv => TokensAccounted
  BY <1>1, <1>2 DEF IInv, Tokens, TokensAccounted
<1> QED
  BY <1>3, Invariance, PTL

-----------------------------------------------------------------------------
(* The ring implements the FIFO buffer: one step of the lab at a time.      *)

LEMMA ProducerFifo ==
  ASSUME IInv, NEW i \in ProducerIds, Producer(i)
  PROVE  [Fifo!Next]_Fifo!vars
<1>1. CASE UNCHANGED <<ringVars, msgVars>>
  BY <1>1, FifoStill DEF ringVars, msgVars
<1>2. CASE ProducerPut(i)
  <2>1. CASE ProducerTo(i, "lock", "post") /\ StoreMessage(i) /\ ~ProducerBlocked
    <3>1. count < capacity
      BY <2>1 DEF IInv, Ring, RingOf, ProducerBlocked
    <3>2. made[i] < MaxMade
      BY <2>1 DEF IInv, HasMore, ProducerTo
    <3> QED
      BY <2>1, <3>1, <3>2, FifoPut DEF IInv
  <2>2. CASE OnlySems
    BY <1>1, <2>2 DEF OnlySems
  <2> QED
    BY <1>2, <2>1, <2>2 DEF ProducerPut
<1>3. CASE ProducerOverrun(i)
  BY <1>1, <1>3 DEF ProducerOverrun, Overrun, threadVars
<1>4. CASE \/ ProducerLoop(i) \/ ProducerToken(i) \/ ProducerTimeout(i) \/ ProducerWaitFails(i)
           \/ ProducerCreate(i) \/ ProducerPost(i) \/ ProducerRepost(i) \/ ProducerReport(i)
           \/ ProducerExit(i)
  <2>1. OnlySems
    BY <1>4 DEF ProducerLoop, ProducerToken, ProducerTimeout, ProducerWaitFails, ProducerCreate,
                ProducerPost, ProducerRepost, ProducerReport, ProducerExit
  <2> QED
    BY <1>1, <2>1 DEF OnlySems
<1> QED
  BY <1>2, <1>3, <1>4 DEF Producer

LEMMA ResizeFifo ==
  ASSUME IInv, resize_request # 0, Resize, UNCHANGED msgVars
  PROVE  [Fifo!Next]_Fifo!vars
<1>1. CASE count <= new_capacity_request /\ MoveRing(head, count)
  <2>1. new_capacity_request \in Nat /\ new_capacity_request > 0
    BY DEF IInv, Books
  <2> QED
    BY <1>1, <2>1, FifoMove DEF IInv, msgVars
<1>2. CASE UNCHANGED ringVars
  BY <1>2, FifoStill DEF ringVars, msgVars
<1> QED
  BY <1>1, <1>2 DEF Resize

LEMMA ConsumerFifo ==
  ASSUME IInv, NEW i \in ConsumerIds, Consumer(i)
  PROVE  [Fifo!Next]_Fifo!vars
<1>1. CASE UNCHANGED <<ringVars, msgVars>>
  BY <1>1, FifoStill DEF ringVars, msgVars
<1>2. CASE ConsumerEnter(i)
  BY <1>1, <1>2, ResizeFifo DEF ConsumerEnter
<1>3. CASE ConsumerTake(i)
  <2>1. CASE CanResizeNow /\ Resize /\ UNCHANGED msgVars
    <3>1. resize_request = 1 \/ resize_request = -1
      BY <2>1 DEF CanResizeNow
    <3>2. resize_request # 0
      BY <3>1
    <3> QED
      BY <2>1, <3>2, ResizeFifo
  <2>2. CASE /\ ConsumerTo(i, "lock", "post") /\ count > 0
             /\ hand' = [hand EXCEPT ![i] = buffer[head]]
             /\ head' = Slot(head + 1) /\ count' = count - 1
             /\ UNCHANGED <<buffer, capacity, tail, made>>
    <3>1. hand[i] = NoMessage
      BY <2>2 DEF IInv, Hands, ConsumerTo
    <3> QED
      BY <2>2, <3>1, FifoTake DEF IInv
  <2> QED
    BY <1>1, <1>3, <2>1, <2>2 DEF ConsumerTake
<1>4. CASE ConsumerWork(i)
  BY <1>4, FifoWork DEF ConsumerWork
<1>5. CASE \/ ConsumerLoop(i) \/ ConsumerToken(i) \/ ConsumerTimeout(i) \/ ConsumerWaitFails(i)
           \/ ConsumerStopTest(i) \/ ConsumerRepost(i) \/ ConsumerPost(i) \/ ConsumerExit(i)
  <2>1. OnlySems
    BY <1>5 DEF ConsumerLoop, ConsumerToken, ConsumerTimeout, ConsumerWaitFails, ConsumerStopTest,
                ConsumerRepost, ConsumerPost, ConsumerExit
  <2> QED
    BY <1>1, <2>1 DEF OnlySems
<1> QED
  BY <1>2, <1>3, <1>4, <1>5 DEF Consumer

LEMMA MainFifo ==
  ASSUME IInv, Main
  PROVE  [Fifo!Next]_Fifo!vars
<1>1. CASE UNCHANGED <<ringVars, msgVars>>
  BY <1>1, FifoStill DEF ringVars, msgVars
<1>2. CASE RunLabLogic
  <2>1. /\ "loop" \in ProducerPlaces \cup ConsumerPlaces
        /\ producer_pc \in [ProducerIds -> ProducerPlaces \cup ConsumerPlaces]
        /\ consumer_pc \in [ConsumerIds -> ProducerPlaces \cup ConsumerPlaces]
    BY DEF IInv, Positions, ProducerPlaces
  <2>2. UNCHANGED <<ringVars, msgVars>>
    BY <1>2, <2>1, MainStep DEF IInv
  <2> QED
    BY <1>1, <2>2
<1>3. CASE request_resize_sem \/ signal_cleanup_sem
  BY <1>1, <1>3 DEF request_resize_sem, signal_cleanup_sem, RequestResize, SignalCleanup, threadVars
<1>4. CASE destroy_queue_sem
  BY <1>4, FifoClose DEF destroy_queue_sem
<1> QED
  BY <1>2, <1>3, <1>4 DEF Main

\* With any number of threads, whatever tokens are about, and through every resize and
\* retirement, the ring of queue_sem.c is a FIFO buffer of its current capacity.
THEOREM FifoImplemented == Spec => ImplementsFifo
<1>1. Init => Fifo!Init
  BY InitIInv, FifoStart DEF Init, IInv
<1>2. IInv /\ [Next]_vars => [Fifo!Next]_Fifo!vars
  <2> SUFFICES ASSUME IInv, [Next]_vars
               PROVE  [Fifo!Next]_Fifo!vars
    OBVIOUS
  <2>1. CASE Next
    <3>1. \/ Main
          \/ \E i \in ProducerIds : Producer(i)
          \/ \E i \in ConsumerIds : Consumer(i)
      BY <2>1 DEF Next
    <3> QED
      BY <3>1, MainFifo, ProducerFifo, ConsumerFifo
  <2>2. CASE UNCHANGED vars
    BY <2>2, FifoStill DEF vars, labVars, ringVars, threadVars, msgVars
  <2> QED
    BY <2>1, <2>2
<1> QED
  BY <1>1, <1>2, Invariance, PTL DEF Spec, ImplementsFifo, Fifo!Spec

=============================================================================
