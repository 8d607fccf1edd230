--------------------------- MODULE CondQueueProofs --------------------------
(***************************************************************************)
(* What is proved of CondQueue for every number of threads, every ring     *)
(* size and step and every set of keys.                                    *)
(*                                                                         *)
(* IInv gathers what the ring, the owners of the messages and the books of *)
(* main need of one another; NobodyOverlooked is inductive once only       *)
(* waiting threads are known to be in the wait sets, which IInv says too.  *)
(***************************************************************************)
EXTENDS CondQueue, ThreadLabProofs

ProducerPlaces == {"none", "loop", "wait", "report", "exit", "gone"}

ConsumerPlaces == {"none", "loop", "enter", "wait", "work", "exit", "gone"}

Positions ==
  /\ producer_pc \in [ProducerIds -> ProducerPlaces]
  /\ consumer_pc \in [ConsumerIds -> ConsumerPlaces]

WaitSets ==
  /\ can_produce \subseteq {i \in ProducerIds : producer_pc[i] = "wait"}
  /\ can_consume \subseteq {i \in ConsumerIds : consumer_pc[i] = "wait"}

\* An increase stays one until it is served.
Growing == resize_request = 1 => capacity <= new_capacity_request

IInv == Ring /\ Owners /\ Hands /\ Books /\ Positions /\ WaitSets /\ Growing

\* A signal takes at most one thread out of the wait set.
LEMMA SignalTakesOut ==
  ASSUME NEW W, NEW V, V \in Signalled(W)
  PROVE  V \subseteq W /\ (V = {} \/ \E w \in W : V = W \ {w})
BY DEF Signalled

-----------------------------------------------------------------------------
(* The producer.                                                           *)

\* A producer that leaves the ring alone, whatever else it does.
LEMMA StillProducer ==
  ASSUME IInv, NEW i \in ProducerIds, producer_pc[i] # "none", NEW to \in ProducerPlaces,
         ProducerGoes(i, to), UNCHANGED <<ringVars, resizeVars, consumer_pc, msgVars, mainVars>>,
         Lowered(producer_active, i, producer_active'), UNCHANGED consumer_active,
         keep_running' \in {keep_running, FALSE},
         can_produce' \subseteq can_produce \cup {i}, i \in can_produce' => to = "wait",
         can_consume' \subseteq can_consume
  PROVE  IInv'
<1>1. Ring' /\ Owners'
  BY StillStep DEF IInv
<1>2. Hands'
  BY DEF IInv, Hands, msgVars
<1>3. Books'
  <2>1. UNCHANGED <<idVars, main, broken>>
    BY DEF mainVars
  <2> QED
    BY <2>1, BooksKeptByProducer DEF IInv
<1>4. Positions'
  BY DEF IInv, Positions, ProducerGoes
<1>5. WaitSets'
  BY DEF IInv, Positions, WaitSets, ProducerGoes
<1>6. Growing'
  BY DEF IInv, Growing, ringVars, resizeVars
<1> QED
  BY <1>1, <1>2, <1>3, <1>4, <1>5, <1>6 DEF IInv

LEMMA PutKeepsIInv ==
  ASSUME IInv, NEW i \in ProducerIds, producer_pc[i] # "none", ~ProducerBlocked,
         made[i] < MaxMade, Put(i)
  PROVE  IInv'
<1>1. StoreMessage(i) /\ count < capacity
  BY DEF IInv, Ring, RingOf, Put, ProducerBlocked
<1>2. Ring' /\ Owners'
  BY <1>1, PutStep DEF IInv
<1>3. Hands'
  BY <1>1 DEF IInv, Hands, Put, StoreMessage
<1>4. Books'
  <2>1. /\ ProducerGoes(i, "report") /\ UNCHANGED <<consumer_pc, consumer_active, idVars, main, broken, resizeVars>>
        /\ Lowered(producer_active, i, producer_active') /\ UNCHANGED keep_running
    BY DEF Put, mainVars, flagVars, Lowered
  <2> QED
    BY <2>1, BooksKeptByProducer DEF IInv
<1>5. Positions'
  BY DEF IInv, Positions, Put, ProducerGoes, ProducerPlaces
<1>6. WaitSets'
  <2>1. can_consume' \subseteq can_consume
    BY SignalTakesOut DEF Put, Announce
  <2> QED
    BY <2>1 DEF IInv, Positions, WaitSets, Put, ProducerGoes
<1>7. Growing'
  BY <1>1 DEF IInv, Growing, Put, StoreMessage, resizeVars
<1> QED
  BY <1>2, <1>3, <1>4, <1>5, <1>6, <1>7 DEF IInv

\* The step after which an array has been overrun.
LEMMA OverrunKeepsIInv ==
  ASSUME IInv, Overrun, UNCHANGED condVars
  PROVE  IInv'
<1>1. UNCHANGED <<ringVars, msgVars, producer_pc, consumer_pc, resizeVars, flagVars, idVars, main>>
  BY DEF Overrun, threadVars
<1>2. Ring' /\ Owners'
  BY <1>1, StillStep DEF IInv
<1>3. Books'
  <2>1. /\ Side(producer_active', producer_count', next_producer_id', MaxProducers, producer_pc')
        /\ Side(consumer_active', consumer_count', next_consumer_id', MaxConsumers, consumer_pc')
        /\ (Dismissed' <=> Dismissed)
    BY <1>1 DEF IInv, Books, idVars, flagVars, Dismissed
  <2> QED
    BY <1>1, <2>1, SidesNext DEF IInv, Books, Overrun, resizeVars, flagVars
<1>4. Hands' /\ Positions' /\ WaitSets' /\ Growing'
  BY <1>1 DEF IInv, Hands, Positions, WaitSets, Growing, msgVars, condVars, ringVars, resizeVars
<1> QED
  BY <1>2, <1>3, <1>4 DEF IInv

\* Behind the wait, or at the top of the loop.
LEMMA LeavingKeepsIInv ==
  ASSUME IInv, NEW i \in ProducerIds, producer_pc[i] # "none",
         NEW to \in ProducerPlaces, ProducerLeavesRing(i, to)
  PROVE  IInv'
<1>1. /\ ProducerGoes(i, to) /\ UNCHANGED <<ringVars, resizeVars, consumer_pc, msgVars, mainVars>>
      /\ Lowered(producer_active, i, producer_active') /\ UNCHANGED <<consumer_active, keep_running>>
      /\ can_produce' \subseteq can_produce \cup {i} /\ i \notin can_produce'
      /\ can_consume' \subseteq can_consume
  BY DEF ProducerLeavesRing, flagVars, Lowered
<1> QED
  BY <1>1, StillProducer

LEMMA ProduceKeepsIInv ==
  ASSUME IInv, NEW i \in ProducerIds, producer_pc[i] # "none", Produce(i)
  PROVE  IInv'
<1>1. CASE ProducerLeavesRing(i, "exit") \/ ProducerLeavesRing(i, "loop")
  BY <1>1, LeavingKeepsIInv DEF ProducerPlaces
<1>2. CASE ~ProducerBlocked /\ made[i] < MaxMade /\ Put(i)
  BY <1>2, PutKeepsIInv
<1>3. CASE Overrun /\ UNCHANGED condVars
  BY <1>3, OverrunKeepsIInv
<1> QED
  BY <1>1, <1>2, <1>3 DEF Produce

LEMMA ProducerKeepsIInv ==
  ASSUME IInv, NEW i \in ProducerIds, Producer(i)
  PROVE  IInv'
<1>0. producer_pc[i] # "none"
  BY DEF Producer, ProducerEnter, ProducerTimeout, ProducerWaitFails, ProducerReport, ProducerExit
<1>1. CASE ProducerEnter(i)
  <2>1. CASE ProducerWaits(i)
    <3>1. /\ ProducerGoes(i, "wait") /\ UNCHANGED <<ringVars, resizeVars, consumer_pc, msgVars, mainVars>>
          /\ Lowered(producer_active, i, producer_active') /\ UNCHANGED <<consumer_active, keep_running>>
          /\ can_produce' \subseteq can_produce \cup {i} /\ can_consume' \subseteq can_consume
      BY <2>1 DEF ProducerWaits, flagVars, Lowered
    <3> QED
      BY <1>0, <3>1, StillProducer DEF ProducerPlaces
  <2> QED
    BY <1>0, <1>1, <2>1, ProduceKeepsIInv DEF ProducerEnter
<1>2. CASE ProducerTimeout(i)
  BY <1>0, <1>2, LeavingKeepsIInv, ProduceKeepsIInv DEF ProducerTimeout, ProducerPlaces
<1>3. CASE ProducerWaitFails(i)
  <2>1. /\ ProducerGoes(i, "exit") /\ UNCHANGED <<ringVars, resizeVars, consumer_pc, msgVars, mainVars>>
        /\ Lowered(producer_active, i, producer_active') /\ UNCHANGED consumer_active /\ keep_running' = FALSE
        /\ can_produce' \subseteq can_produce \cup {i} /\ i \notin can_produce'
        /\ can_consume' \subseteq can_consume
    BY <1>3 DEF ProducerWaitFails, Lowered
  <2> QED
    BY <1>0, <2>1, StillProducer DEF ProducerPlaces
<1>4. CASE ProducerReport(i)
  BY <1>0, <1>4, LeavingKeepsIInv DEF ProducerReport, ProducerPlaces
<1>5. CASE ProducerExit(i)
  <2>1. /\ ProducerGoes(i, "gone") /\ UNCHANGED <<ringVars, resizeVars, consumer_pc, msgVars, mainVars>>
        /\ Lowered(producer_active, i, producer_active') /\ UNCHANGED <<consumer_active, keep_running>>
        /\ can_produce' \subseteq can_produce \cup {i} /\ i \notin can_produce'
        /\ can_consume' \subseteq can_consume
    BY <1>5 DEF ProducerExit, Broadcast, Lowered
  <2> QED
    BY <1>0, <2>1, StillProducer DEF ProducerPlaces
<1> QED
  BY <1>1, <1>2, <1>3, <1>4, <1>5 DEF Producer

-----------------------------------------------------------------------------
(* The consumer.                                                           *)

\* The books, the positions and the wait sets after a step of one consumer.
LEMMA ConsumerMoves ==
  ASSUME IInv, NEW i \in ConsumerIds, consumer_pc[i] # "none", NEW to \in ConsumerPlaces,
         ConsumerGoes(i, to), UNCHANGED <<producer_pc, new_capacity_request, mainVars>>,
         Lowered(consumer_active, i, consumer_active'), UNCHANGED producer_active,
         keep_running' \in {keep_running, FALSE}, resize_request' \in {resize_request, 0},
         can_consume' \subseteq can_consume \cup {i}, i \in can_consume' => to = "wait",
         can_produce' \subseteq can_produce
  PROVE  Books' /\ Positions' /\ WaitSets'
<1>1. Books'
  <2>1. UNCHANGED <<idVars, main, broken>>
    BY DEF mainVars
  <2> QED
    BY <2>1, BooksKeptByConsumer DEF IInv
<1>2. Positions'
  BY DEF IInv, Positions, ConsumerGoes
<1>3. WaitSets'
  BY DEF IInv, Positions, WaitSets, ConsumerGoes
<1> QED
  BY <1>1, <1>2, <1>3

\* A consumer that leaves the ring and the messages alone.
LEMMA StillConsumer ==
  ASSUME IInv, NEW i \in ConsumerIds, consumer_pc[i] # "none", NEW to \in ConsumerPlaces,
         ConsumerGoes(i, to), UNCHANGED <<ringVars, resizeVars, producer_pc, msgVars, mainVars>>,
         Lowered(consumer_active, i, consumer_active'), UNCHANGED producer_active,
         keep_running' \in {keep_running, FALSE},
         can_consume' \subseteq can_consume \cup {i}, i \in can_consume' => to = "wait",
         can_produce' \subseteq can_produce,
         consumer_pc[i] # "work", to # "work"
  PROVE  IInv'
<1>1. Ring' /\ Owners'
  BY StillStep DEF IInv
<1>2. Hands'
  BY DEF IInv, Hands, msgVars, Positions, ConsumerPlaces, ConsumerGoes
<1>3. Books' /\ Positions' /\ WaitSets'
  BY ConsumerMoves DEF resizeVars
<1>4. Growing'
  BY DEF IInv, Growing, ringVars, resizeVars
<1> QED
  BY <1>1, <1>2, <1>3, <1>4 DEF IInv

LEMMA LeavingConsumerKeepsIInv ==
  ASSUME IInv, NEW i \in ConsumerIds, consumer_pc[i] \notin {"none", "work"},
         NEW to \in ConsumerPlaces, to # "work", ConsumerLeavesRing(i, to)
  PROVE  IInv'
<1>1. /\ ConsumerGoes(i, to) /\ UNCHANGED <<ringVars, resizeVars, producer_pc, msgVars, mainVars>>
      /\ Lowered(consumer_active, i, consumer_active') /\ UNCHANGED <<producer_active, keep_running>>
      /\ can_consume' \subseteq can_consume \cup {i} /\ i \notin can_consume'
      /\ can_produce' \subseteq can_produce
  BY DEF ConsumerLeavesRing, flagVars, Lowered
<1> QED
  BY <1>1, StillConsumer

\* A pending request asks for a size of at least one.
LEMMA RequestedSize ==
  ASSUME IInv, resize_request = 1 \/ resize_request = -1
  PROVE  new_capacity_request \in Nat /\ new_capacity_request > 0
<1>1. (resize_request # 0 => new_capacity_request > 0) /\ new_capacity_request \in Nat
  BY DEF IInv, Books
<1>2. resize_request # 0
  OBVIOUS
<1> QED
  BY <1>1, <1>2

LEMMA ServingKeepsIInv ==
  ASSUME IInv, NEW i \in ConsumerIds, ServeRequest(i)
  PROVE  IInv'
<1>1. /\ consumer_pc[i] = "enter" /\ ConsumerGoes(i, "loop")
      /\ UNCHANGED <<producer_pc, new_capacity_request, msgVars, mainVars, flagVars>>
      /\ resize_request' = 0
  BY DEF ServeRequest, ResizeRing, ResizeFails
<1>2. /\ can_produce' \subseteq can_produce /\ can_consume' \subseteq can_consume
      /\ i \notin can_consume
  BY <1>1 DEF ServeRequest, ResizeRing, Broadcast, condVars, IInv, WaitSets
<1>3. Books' /\ Positions' /\ WaitSets'
  BY <1>1, <1>2, ConsumerMoves DEF flagVars, Lowered, ConsumerPlaces
<1>4. Ring' /\ Queued' = Queued
  <2>1. CASE MoveRing(head, count)
    <3>1. /\ new_capacity_request \in Nat /\ new_capacity_request > 0
          /\ resize_request = 1 \/ count <= new_capacity_request
      BY RequestedSize DEF ServeRequest, CanResizeNow
    <3>2. /\ RingOf(buffer, capacity, head, tail, count)
          /\ capacity \in Nat /\ count \in 0 .. capacity
      BY DEF IInv, Ring, RingOf
    <3>3. count <= new_capacity_request
      BY <3>1, <3>2 DEF IInv, Growing
    <3> QED
      BY <2>1, <3>1, <3>2, <3>3, MoveStep DEF Queued
  <2>2. CASE UNCHANGED <<buffer, capacity, tail, head, count>>
    BY <2>2 DEF IInv, Ring, Queued
  <2> QED
    BY <2>1, <2>2 DEF ServeRequest, ResizeRing, ResizeFails
<1>5. Owners' /\ Hands'
  BY <1>1, <1>4 DEF IInv, Owners, Hands, msgVars, Positions, ConsumerPlaces, ConsumerGoes
<1>6. Growing'
  BY <1>1 DEF Growing
<1> QED
  BY <1>3, <1>4, <1>5, <1>6 DEF IInv

\* A consumer takes the oldest message, and carries out a decrease that now fits.
LEMMA TakeKeepsIInv ==
  ASSUME IInv, NEW i \in ConsumerIds, consumer_pc[i] \in {"enter", "wait"}, count > 0, Take(i)
  PROVE  IInv'
<1> DEFINE first == Slot(head + 1)
           n == count - 1
<1>1. /\ hand' = [hand EXCEPT ![i] = buffer[head]] /\ ConsumerGoes(i, "work")
      /\ UNCHANGED <<new_capacity_request, producer_pc, made, freed, flagVars, mainVars>>
      /\ \/ PendingDecrease /\ ResizeRing(first, n)
         \/ /\ head' = first /\ count' = n /\ UNCHANGED <<buffer, capacity, tail>>
            /\ resize_request' \in {resize_request, 0}
            /\ can_produce' \in Signalled(can_produce) /\ can_consume' = can_consume \ {i}
  BY DEF Take, ResizeFails
<1>2. hand[i] = NoMessage
  BY DEF IInv, Hands
<1>3. /\ RingOf(buffer, capacity, first, tail, n) /\ buffer[head] \in Message
      /\ Owned(Places(buffer, capacity, first, n), made, [hand EXCEPT ![i] = buffer[head]], freed)
  BY <1>2, TakeStep DEF IInv
<1>4. PendingDecrease => /\ n <= new_capacity_request
                         /\ new_capacity_request \in Nat /\ new_capacity_request > 0
  BY RequestedSize DEF PendingDecrease
<1> HIDE DEF first, n
<1>5. /\ Ring' /\ Queued' = Places(buffer, capacity, first, n)
      /\ resize_request' \in {resize_request, 0}
      /\ capacity' = capacity \/ resize_request' = 0
      /\ can_produce' \subseteq can_produce /\ can_consume' \subseteq can_consume \ {i}
  <2>1. CASE PendingDecrease /\ ResizeRing(first, n)
    <3>1. Ring' /\ Queued' = Places(buffer, capacity, first, n)
      BY <1>3, <1>4, <2>1, MoveStep DEF ResizeRing
    <3> QED
      BY <2>1, <3>1 DEF ResizeRing, Broadcast
  <2>2. CASE /\ head' = first /\ count' = n /\ UNCHANGED <<buffer, capacity, tail>>
             /\ resize_request' \in {resize_request, 0}
             /\ can_produce' \in Signalled(can_produce) /\ can_consume' = can_consume \ {i}
    <3>1. can_produce' \subseteq can_produce
      BY <2>2, SignalTakesOut
    <3> QED
      BY <1>3, <2>2, <3>1 DEF Ring, Queued
  <2> QED
    BY <1>1, <2>1, <2>2
<1>6. Owners'
  BY <1>1, <1>3, <1>5 DEF Owners
<1>7. Hands'
  <2>1. hand \in [ConsumerIds -> Message \cup {NoMessage}] /\ consumer_pc \in [ConsumerIds -> ConsumerPlaces]
    BY DEF IInv, Owners, Owned, Positions
  <2>2. buffer[head] # NoMessage
    BY <1>3, NoMessageIsNone
  <2>3. \A j \in ConsumerIds : hand'[j] = (IF j = i THEN buffer[head] ELSE hand[j])
    BY <1>1, <2>1
  <2>4. \A j \in ConsumerIds : consumer_pc'[j] = (IF j = i THEN "work" ELSE consumer_pc[j])
    BY <1>1, <2>1 DEF ConsumerGoes
  <2> QED
    BY <2>2, <2>3, <2>4 DEF IInv, Hands
<1>8. Books' /\ Positions' /\ WaitSets'
  <2>1. /\ UNCHANGED <<producer_pc, new_capacity_request, mainVars, producer_active, keep_running>>
        /\ Lowered(consumer_active, i, consumer_active')
    BY <1>1 DEF flagVars, Lowered
  <2>2. can_consume' \subseteq can_consume \cup {i} /\ i \notin can_consume'
    BY <1>5
  <2> QED
    BY <1>1, <1>5, <2>1, <2>2, ConsumerMoves DEF ConsumerPlaces
<1>9. Growing'
  BY <1>1, <1>5 DEF IInv, Growing
<1> QED
  BY <1>5, <1>6, <1>7, <1>8, <1>9 DEF IInv

LEMMA ConsumeKeepsIInv ==
  ASSUME IInv, NEW i \in ConsumerIds, consumer_pc[i] \in {"enter", "wait"}, Consume(i)
  PROVE  IInv'
<1>1. CASE ConsumerLeavesRing(i, "exit")
  BY <1>1, LeavingConsumerKeepsIInv DEF ConsumerPlaces
<1>2. CASE count > 0 /\ Take(i)
  BY <1>2, TakeKeepsIInv
<1> QED
  BY <1>1, <1>2 DEF Consume

LEMMA WorkKeepsIInv ==
  ASSUME IInv, NEW i \in ConsumerIds, ConsumerWork(i)
  PROVE  IInv'
<1>1. /\ consumer_pc[i] = "work" /\ ConsumerGoes(i, "loop") /\ destroy_message(i)
      /\ UNCHANGED <<ringVars, resizeVars, condVars, producer_pc, flagVars, mainVars>>
  BY DEF ConsumerWork
<1>2. hand[i] # NoMessage
  BY <1>1 DEF IInv, Hands
<1>3. Ring' /\ Owners'
  BY <1>1, <1>2, WorkStep DEF IInv
<1>4. Hands'
  <2>1. hand \in [ConsumerIds -> Message \cup {NoMessage}] /\ consumer_pc \in [ConsumerIds -> ConsumerPlaces]
    BY DEF IInv, Owners, Owned, Positions
  <2>2. \A j \in ConsumerIds : hand'[j] = (IF j = i THEN NoMessage ELSE hand[j])
    BY <1>1, <2>1 DEF destroy_message
  <2>3. \A j \in ConsumerIds : consumer_pc'[j] = (IF j = i THEN "loop" ELSE consumer_pc[j])
    BY <1>1, <2>1 DEF ConsumerGoes
  <2> QED
    BY <2>2, <2>3 DEF IInv, Hands
<1>5. Books' /\ Positions' /\ WaitSets'
  <2>1. /\ UNCHANGED <<producer_pc, new_capacity_request, mainVars, producer_active, keep_running, resize_request>>
        /\ Lowered(consumer_active, i, consumer_active')
    BY <1>1 DEF flagVars, Lowered, resizeVars
  <2>2. can_consume' \subseteq can_consume \cup {i} /\ i \notin can_consume' /\ can_produce' \subseteq can_produce
    BY <1>1 DEF IInv, WaitSets, condVars
  <2> QED
    BY <1>1, <2>1, <2>2, ConsumerMoves DEF ConsumerPlaces
<1>6. Growing'
  BY <1>1 DEF IInv, Growing, ringVars, resizeVars
<1> QED
  BY <1>3, <1>4, <1>5, <1>6 DEF IInv

LEMMA ConsumerKeepsIInv ==
  ASSUME IInv, NEW i \in ConsumerIds, Consumer(i)
  PROVE  IInv'
<1> USE DEF ConsumerPlaces
<1>1. CASE ConsumerLoop(i)
  BY <1>1, LeavingConsumerKeepsIInv DEF ConsumerLoop
<1>2. CASE ServeRequest(i)
  BY <1>2, ServingKeepsIInv
<1>3. CASE ConsumerEnter(i)
  <2>1. consumer_pc[i] \in {"enter", "wait"}
    BY <1>3 DEF ConsumerEnter
  <2>2. CASE ConsumerWaits(i)
    <3>1. /\ ConsumerGoes(i, "wait") /\ UNCHANGED <<ringVars, resizeVars, producer_pc, msgVars, mainVars>>
          /\ Lowered(consumer_active, i, consumer_active') /\ UNCHANGED <<producer_active, keep_running>>
          /\ can_consume' \subseteq can_consume \cup {i} /\ can_produce' \subseteq can_produce
      BY <2>2 DEF ConsumerWaits, flagVars, Lowered
    <3> QED
      BY <2>1, <3>1, StillConsumer
  <2> QED
    BY <1>3, <2>1, <2>2, ConsumeKeepsIInv DEF ConsumerEnter
<1>4. CASE ConsumerTimeout(i)
  <2>1. consumer_pc[i] = "wait" /\ (Consume(i) \/ ConsumerLeavesRing(i, "loop"))
    BY <1>4 DEF ConsumerTimeout
  <2> QED
    BY <2>1, ConsumeKeepsIInv, LeavingConsumerKeepsIInv
<1>5. CASE ConsumerWaitFails(i)
  <2>1. /\ ConsumerGoes(i, "exit") /\ UNCHANGED <<ringVars, resizeVars, producer_pc, msgVars, mainVars>>
        /\ Lowered(consumer_active, i, consumer_active') /\ UNCHANGED producer_active /\ keep_running' = FALSE
        /\ can_consume' \subseteq can_consume \cup {i} /\ i \notin can_consume'
        /\ can_produce' \subseteq can_produce /\ consumer_pc[i] = "wait"
    BY <1>5 DEF ConsumerWaitFails, Lowered
  <2> QED
    BY <2>1, StillConsumer
<1>6. CASE ConsumerWork(i)
  BY <1>6, WorkKeepsIInv
<1>7. CASE ConsumerExit(i)
  <2>1. /\ ConsumerGoes(i, "gone") /\ UNCHANGED <<ringVars, resizeVars, producer_pc, msgVars, mainVars>>
        /\ Lowered(consumer_active, i, consumer_active') /\ UNCHANGED <<producer_active, keep_running>>
        /\ can_consume' \subseteq can_consume \cup {i} /\ i \notin can_consume'
        /\ can_produce' \subseteq can_produce /\ consumer_pc[i] = "exit"
    BY <1>7 DEF ConsumerExit, Broadcast, Lowered
  <2> QED
    BY <2>1, StillConsumer
<1> QED
  BY <1>1, <1>2, <1>3, <1>4, <1>5, <1>6, <1>7 DEF Consumer

-----------------------------------------------------------------------------
(* The main thread.                                                        *)

LEMMA MainKeepsIInv ==
  ASSUME IInv, Main
  PROVE  IInv'
<1>1. CASE RunLabLogic /\ UNCHANGED condVars
  <2> DEFINE S == ProducerPlaces \cup ConsumerPlaces
  <2>1. /\ "loop" \in S /\ producer_pc \in [ProducerIds -> S] /\ consumer_pc \in [ConsumerIds -> S]
    BY DEF IInv, Positions, ProducerPlaces
  <2>2. /\ UNCHANGED <<ringVars, msgVars>>
        /\ producer_pc' \in [ProducerIds -> S] /\ consumer_pc' \in [ConsumerIds -> S]
        /\ \A i \in ProducerIds :
             \/ producer_pc'[i] = producer_pc[i]
             \/ producer_pc[i] = "none" /\ producer_pc'[i] = "loop"
        /\ \A i \in ConsumerIds :
             \/ consumer_pc'[i] = consumer_pc[i]
             \/ consumer_pc[i] = "none" /\ consumer_pc'[i] = "loop"
        /\ Hands'
    BY <1>1, <2>1, MainStep DEF IInv
  <2>3. Ring' /\ Owners'
    BY <2>2, StillStep DEF IInv
  <2>4. Books'
    BY <1>1, BooksKeptByMain DEF IInv
  <2>5. Positions'
    <3>1. producer_pc' \in [ProducerIds -> ProducerPlaces]
      BY <2>2 DEF IInv, Positions, ProducerPlaces
    <3>2. consumer_pc' \in [ConsumerIds -> ConsumerPlaces]
      BY <2>2 DEF IInv, Positions, ConsumerPlaces
    <3> QED
      BY <3>1, <3>2 DEF Positions
  <2>6. WaitSets'
    BY <1>1, <2>2 DEF IInv, WaitSets, condVars
  <2>7. UNCHANGED resizeVars
    BY <1>1 DEF RunLabLogic, LoopTest, Idle, AddProducer, AddConsumer, AddFails, IdOverrun,
                RemoveProducer, RemoveConsumer, Quit, StopThreads, JoinThreads
  <2>8. Growing'
    BY <2>2, <2>7 DEF IInv, Growing, ringVars, resizeVars
  <2> QED
    BY <2>2, <2>3, <2>4, <2>5, <2>6, <2>8 DEF IInv
<1>2. CASE request_resize_cond
  <2>1. PICK key : /\ RequestResize(key) /\ Announce
                   /\ can_produce' = IF key = "-" THEN {} ELSE can_produce
    BY <1>2 DEF request_resize_cond
  <2>2. UNCHANGED <<ringVars, producer_pc, consumer_pc, msgVars>>
    BY <2>1 DEF RequestResize, threadVars
  <2>3. Ring' /\ Owners' /\ Hands' /\ Positions'
    BY <2>2, StillStep DEF IInv, Hands, Positions, msgVars
  <2>4. Books'
    BY <2>1, BooksKeptByRequest DEF IInv, Ring, RingOf
  <2>5. WaitSets'
    <3>1. can_produce' \subseteq can_produce /\ can_consume' \subseteq can_consume
      BY <2>1, SignalTakesOut DEF Announce
    <3> QED
      BY <2>2, <3>1 DEF IInv, WaitSets
  <2>6. Growing'
    <3>1. capacity \in Nat /\ Step \in Nat /\ UNCHANGED capacity
      BY <2>2, ConstantsAssumption DEF ConstantsAssumption, IInv, Ring, RingOf, ringVars
    <3> QED
      BY <2>1, <3>1 DEF Growing, RequestResize
  <2> QED
    BY <2>3, <2>4, <2>5, <2>6 DEF IInv
<1>3. CASE signal_cleanup_cond
  <2>1. /\ UNCHANGED <<ringVars, resizeVars, producer_pc, consumer_pc, msgVars>> /\ SignalCleanup
        /\ can_produce' = {} /\ can_consume' = {}
    BY <1>3 DEF signal_cleanup_cond, SignalCleanup, threadVars, Broadcast
  <2>2. Ring' /\ Owners' /\ Hands' /\ Positions' /\ WaitSets' /\ Growing'
    BY <2>1, StillStep DEF IInv, Hands, Positions, WaitSets, Growing, msgVars, ringVars, resizeVars
  <2>3. Books'
    BY <2>1, BooksKeptByCleanup DEF IInv
  <2> QED
    BY <2>2, <2>3 DEF IInv
<1>4. CASE destroy_queue_cond
  <2>1. Ring' /\ Owners'
    BY <1>4, DestroyStep DEF IInv, destroy_queue_cond
  <2>2. /\ UNCHANGED <<producer_pc, consumer_pc, made, hand>> /\ resize_request' = 0
        /\ can_produce' = {} /\ can_consume' = {}
    BY <1>4 DEF destroy_queue_cond, DestroyRing, Broadcast
  <2>3. Hands' /\ Positions' /\ WaitSets' /\ Growing'
    BY <2>2 DEF IInv, Hands, Positions, WaitSets, Growing
  <2>4. Books'
    BY <1>4, BooksKeptByDestroy DEF IInv, destroy_queue_cond
  <2> QED
    BY <2>1, <2>3, <2>4 DEF IInv
<1> QED
  BY <1>1, <1>2, <1>3, <1>4 DEF Main

-----------------------------------------------------------------------------
(* The theorems on what holds of one state by itself.                      *)

LEMMA InitIInv ==
  ASSUME Init
  PROVE  IInv
<1>1. Ring /\ Owners /\ Hands /\ Books
  BY LabStart, BooksInit DEF Init
<1>2. Positions /\ WaitSets /\ Growing
  BY DEF Init, LabInit, Positions, WaitSets, Growing, ProducerPlaces, ConsumerPlaces
<1> QED
  BY <1>1, <1>2 DEF IInv

LEMMA StutterKeepsIInv ==
  ASSUME IInv, UNCHANGED vars
  PROVE  IInv'
<1>1. UNCHANGED <<ringVars, resizeVars, msgVars, producer_pc, consumer_pc, flagVars, idVars, main, broken, condVars>>
  BY DEF vars, labVars, threadVars, mainVars
<1>2. Ring' /\ Owners' /\ Hands'
  BY <1>1, StillStep DEF IInv, Hands, msgVars
<1>3. Positions' /\ WaitSets' /\ Growing'
  BY <1>1 DEF IInv, Positions, WaitSets, Growing, ringVars, resizeVars, condVars
<1>4. Books'
  <2>1. /\ Side(producer_active', producer_count', next_producer_id', MaxProducers, producer_pc')
        /\ Side(consumer_active', consumer_count', next_consumer_id', MaxConsumers, consumer_pc')
        /\ (Dismissed' <=> Dismissed)
    BY <1>1 DEF IInv, Books, idVars, flagVars, Dismissed
  <2> QED
    BY <1>1, <2>1, SidesNext DEF IInv, Books, resizeVars, flagVars
<1> QED
  BY <1>2, <1>3, <1>4 DEF IInv

LEMMA StepKeepsIInv ==
  ASSUME IInv, [Next]_vars
  PROVE  IInv'
<1>1. CASE Next
  <2>1. \/ Main
        \/ \E i \in ProducerIds : Producer(i)
        \/ \E i \in ConsumerIds : Consumer(i)
    BY <1>1 DEF Next
  <2> QED
    BY <2>1, MainKeepsIInv, ProducerKeepsIInv, ConsumerKeepsIInv
<1> QED
  BY <1>1, StutterKeepsIInv

\* IInv holds in every reachable state.
THEOREM Invariance == Spec => []IInv
BY InitIInv, StepKeepsIInv, PTL DEF Spec

\* Type correctness, for every number of threads: among the rest, no thread is in a
\* wait set of queue_cond.c that does not wait, whatever wakes it.
THEOREM TypeCorrect == Spec => []TypeOK
<1>1. IInv => TypeOK
  BY LabTyped DEF IInv, TypeOK, Positions, WaitSets, ProducerPlaces, ConsumerPlaces
<1> QED
  BY <1>1, Invariance, PTL

\* Every message is in one place, through every put, take, resize and retirement
\* in queue_cond.c: none is lost, handed out twice, or destroyed early.
THEOREM MessagesOwnedOnce == Spec => []OwnedOnce
<1>1. IInv => OwnedOnce
  BY OwnersOwnOnce DEF IInv
<1> QED
  BY <1>1, Invariance, PTL

-----------------------------------------------------------------------------
(* Nobody is overlooked.  After a step one of these holds: the wait set is *)
(* empty, the thread that made the step is awake, a waiter has just been   *)
(* signalled, there is nothing to wake up for, or nothing has changed.     *)

\* Nobody is waiting, or somebody is awake.
Awake(waiters, ids, pc) ==
  waiters = {} \/ \E i \in ids \ waiters : pc[i] \notin {"none", "gone"}

LEMMA SignalWakes ==
  ASSUME NEW ids, NEW pc, NEW W, NEW V,
         W \subseteq {i \in ids : pc[i] = "wait"}, V \in Signalled(W)
  PROVE  Awake(V, ids, pc)
BY SignalTakesOut DEF Awake

LEMMA ConsumerAwake ==
  ASSUME IInv, NEW i \in ConsumerIds, NEW to, to \notin {"none", "gone"},
         ConsumerGoes(i, to), i \notin can_consume'
  PROVE  NoMessageOverlooked'
BY DEF IInv, Positions, ConsumerGoes, NoMessageOverlooked

LEMMA ProducerAwake ==
  ASSUME IInv, NEW i \in ProducerIds, NEW to, to \notin {"none", "gone"},
         ProducerGoes(i, to), i \notin can_produce'
  PROVE  NoRoomOverlooked'
BY DEF IInv, Positions, ProducerGoes, NoRoomOverlooked

LEMMA BroadcastWakes ==
  ASSUME Broadcast
  PROVE  NobodyOverlooked'
BY DEF Broadcast, NobodyOverlooked, NoMessageOverlooked, NoRoomOverlooked

LEMMA ConsumersLeftAlone ==
  ASSUME NoMessageOverlooked, UNCHANGED <<count, can_consume, consumer_pc>>
  PROVE  NoMessageOverlooked'
BY DEF NoMessageOverlooked

LEMMA ProducersLeftAlone ==
  ASSUME NoRoomOverlooked, UNCHANGED <<count, capacity, resize_request, can_produce, producer_pc>>
  PROVE  NoRoomOverlooked'
BY DEF NoRoomOverlooked, ProducerBlocked

LEMMA AnnounceWakes ==
  ASSUME IInv, Announce, UNCHANGED consumer_pc
  PROVE  NoMessageOverlooked'
<1>1. Awake(can_consume', ConsumerIds, consumer_pc)
  BY SignalWakes DEF IInv, WaitSets, Announce
<1> QED
  BY <1>1 DEF Awake, NoMessageOverlooked

LEMMA SignalToProducersWakes ==
  ASSUME IInv, can_produce' \in Signalled(can_produce), UNCHANGED producer_pc
  PROVE  NoRoomOverlooked'
<1>1. Awake(can_produce', ProducerIds, producer_pc)
  BY SignalWakes DEF IInv, WaitSets
<1> QED
  BY <1>1 DEF Awake, NoRoomOverlooked

LEMMA ProducerOverlooksNobody ==
  ASSUME IInv, NobodyOverlooked, NEW i \in ProducerIds, Producer(i)
  PROVE  NobodyOverlooked'
<1>1. ASSUME NEW to, to \notin {"none", "gone"}, ProducerLeavesRing(i, to)
      PROVE  NobodyOverlooked'
  <2>1. NoMessageOverlooked'
    BY <1>1, ConsumersLeftAlone DEF NobodyOverlooked, ProducerLeavesRing, ringVars
  <2>2. NoRoomOverlooked'
    BY <1>1, ProducerAwake DEF ProducerLeavesRing
  <2> QED
    BY <2>1, <2>2 DEF NobodyOverlooked
<1>2. CASE ProducerWaits(i)
  <2>1. NoMessageOverlooked'
    BY <1>2, ConsumersLeftAlone DEF NobodyOverlooked, ProducerWaits, ringVars
  <2>2. NoRoomOverlooked'
    BY <1>2 DEF ProducerWaits, ProducerBlocked, NoRoomOverlooked, ringVars, resizeVars
  <2> QED
    BY <2>1, <2>2 DEF NobodyOverlooked
<1>3. CASE Produce(i)
  <2>1. CASE Put(i)
    <3>1. NoMessageOverlooked'
      BY <2>1, AnnounceWakes DEF Put
    <3>2. NoRoomOverlooked'
      BY <2>1, ProducerAwake DEF Put
    <3> QED
      BY <3>1, <3>2 DEF NobodyOverlooked
  <2>2. CASE Overrun /\ UNCHANGED condVars
    BY <2>2, ConsumersLeftAlone, ProducersLeftAlone
       DEF NobodyOverlooked, Overrun, ringVars, resizeVars, threadVars, condVars
  <2> QED
    BY <1>1, <1>3, <2>1, <2>2 DEF Produce
<1>4. CASE ProducerWaitFails(i)
  <2>1. NoMessageOverlooked'
    BY <1>4, ConsumersLeftAlone DEF NobodyOverlooked, ProducerWaitFails, ringVars
  <2>2. NoRoomOverlooked'
    BY <1>4, ProducerAwake DEF ProducerWaitFails
  <2> QED
    BY <2>1, <2>2 DEF NobodyOverlooked
<1>5. CASE ProducerExit(i)
  BY <1>5, BroadcastWakes DEF ProducerExit
<1> QED
  BY <1>1, <1>2, <1>3, <1>4, <1>5 DEF Producer, ProducerEnter, ProducerTimeout, ProducerReport

\* This is where memory matters: when the new array cannot be had the request is
\* dropped and no producer is told.
LEMMA ConsumerOverlooksNobody ==
  ASSUME "malloc" \notin Faults, IInv, NobodyOverlooked, NEW i \in ConsumerIds, Consumer(i)
  PROVE  NobodyOverlooked'
<1>1. ASSUME NEW to, to \notin {"none", "gone"}, ConsumerLeavesRing(i, to)
      PROVE  NobodyOverlooked'
  <2>1. NoMessageOverlooked'
    BY <1>1, ConsumerAwake DEF ConsumerLeavesRing
  <2>2. NoRoomOverlooked'
    BY <1>1, ProducersLeftAlone DEF NobodyOverlooked, ConsumerLeavesRing, ringVars, resizeVars
  <2> QED
    BY <2>1, <2>2 DEF NobodyOverlooked
<1>2. CASE ServeRequest(i)
  BY <1>2, BroadcastWakes DEF ServeRequest, ResizeRing, ResizeFails
<1>3. CASE ConsumerWaits(i)
  <2>1. NoMessageOverlooked'
    BY <1>3 DEF ConsumerWaits, NoMessageOverlooked, ringVars
  <2>2. NoRoomOverlooked'
    BY <1>3, ProducersLeftAlone DEF NobodyOverlooked, ConsumerWaits, ringVars, resizeVars
  <2> QED
    BY <2>1, <2>2 DEF NobodyOverlooked
<1>4. CASE Take(i)
  <2>1. CASE Broadcast
    BY <2>1, BroadcastWakes
  <2>2. CASE can_produce' \in Signalled(can_produce) /\ can_consume' = can_consume \ {i}
    <3>1. NoMessageOverlooked'
      BY <1>4, <2>2, ConsumerAwake DEF Take
    <3>2. NoRoomOverlooked'
      BY <1>4, <2>2, SignalToProducersWakes DEF Take
    <3> QED
      BY <3>1, <3>2 DEF NobodyOverlooked
  <2> QED
    BY <1>4, <2>1, <2>2 DEF Take, ResizeRing
<1>5. CASE ConsumerWaitFails(i)
  <2>1. NoMessageOverlooked'
    BY <1>5, ConsumerAwake DEF ConsumerWaitFails
  <2>2. NoRoomOverlooked'
    BY <1>5, ProducersLeftAlone DEF NobodyOverlooked, ConsumerWaitFails, ringVars, resizeVars
  <2> QED
    BY <2>1, <2>2 DEF NobodyOverlooked
<1>6. CASE ConsumerWork(i)
  <2>1. i \notin can_consume'
    BY <1>6 DEF ConsumerWork, IInv, WaitSets, condVars
  <2>2. NoMessageOverlooked'
    BY <1>6, <2>1, ConsumerAwake DEF ConsumerWork
  <2>3. NoRoomOverlooked'
    BY <1>6, ProducersLeftAlone DEF NobodyOverlooked, ConsumerWork, ringVars, resizeVars, condVars
  <2> QED
    BY <2>2, <2>3 DEF NobodyOverlooked
<1>7. CASE ConsumerExit(i)
  BY <1>7, BroadcastWakes DEF ConsumerExit
<1>8. ConsumerLoop(i) => ConsumerLeavesRing(i, "enter") \/ ConsumerLeavesRing(i, "exit")
  BY DEF ConsumerLoop
<1> QED
  BY <1>1, <1>2, <1>3, <1>4, <1>5, <1>6, <1>7, <1>8
     DEF Consumer, Consume, ConsumerEnter, ConsumerTimeout

LEMMA MainOverlooksNobody ==
  ASSUME IInv, NobodyOverlooked, Main
  PROVE  NobodyOverlooked'
<1>1. CASE RunLabLogic /\ UNCHANGED condVars
  <2> DEFINE S == ProducerPlaces \cup ConsumerPlaces
  <2>1. "loop" \in S /\ producer_pc \in [ProducerIds -> S] /\ consumer_pc \in [ConsumerIds -> S]
    BY DEF IInv, Positions, ProducerPlaces
  <2>2. /\ UNCHANGED <<ringVars, msgVars>>
        /\ \A i \in ProducerIds :
             \/ producer_pc'[i] = producer_pc[i]
             \/ producer_pc[i] = "none" /\ producer_pc'[i] = "loop"
        /\ \A i \in ConsumerIds :
             \/ consumer_pc'[i] = consumer_pc[i]
             \/ consumer_pc[i] = "none" /\ consumer_pc'[i] = "loop"
    BY <1>1, <2>1, MainStep DEF IInv
  <2>3. UNCHANGED resizeVars
    BY <1>1 DEF RunLabLogic, LoopTest, Idle, AddProducer, AddConsumer, AddFails, IdOverrun,
                RemoveProducer, RemoveConsumer, Quit, StopThreads, JoinThreads
  <2>4. UNCHANGED <<count, capacity, resize_request, can_produce, can_consume>>
    BY <1>1, <2>2, <2>3 DEF ringVars, resizeVars, condVars
  <2>5. NoMessageOverlooked'
    BY <2>2, <2>4 DEF NobodyOverlooked, NoMessageOverlooked
  <2>6. NoRoomOverlooked'
    BY <2>2, <2>4 DEF NobodyOverlooked, NoRoomOverlooked, ProducerBlocked
  <2> QED
    BY <2>5, <2>6 DEF NobodyOverlooked
<1>2. CASE request_resize_cond
  <2>1. /\ Announce /\ UNCHANGED consumer_pc
        /\ resize_request' = 1 \/ resize_request' = -1
    BY <1>2 DEF request_resize_cond, RequestResize, threadVars
  <2>2. resize_request' # 0
    BY <2>1
  <2> QED
    BY <2>1, <2>2, AnnounceWakes DEF NobodyOverlooked, NoRoomOverlooked, ProducerBlocked
<1> QED
  BY <1>1, <1>2, BroadcastWakes DEF Main, signal_cleanup_cond, destroy_queue_cond

\* As long as there is memory for the new array, whatever the signals of
\* queue_cond.c hit and whichever threads retire: no consumer sleeps beside a
\* message and no producer beside a free slot unless another of its kind is awake.
THEOREM NobodyLeftAsleep ==
  ASSUME "malloc" \notin Faults
  PROVE  Spec => []NobodyOverlooked
<1>1. Init => NobodyOverlooked
  BY DEF Init, NobodyOverlooked, NoMessageOverlooked, NoRoomOverlooked
<1>2. IInv /\ NobodyOverlooked /\ [Next]_vars => NobodyOverlooked'
  <2> SUFFICES ASSUME IInv, NobodyOverlooked, [Next]_vars
               PROVE  NobodyOverlooked'
    OBVIOUS
  <2>1. CASE Next
    <3>1. \/ Main
          \/ \E i \in ProducerIds : Producer(i)
          \/ \E i \in ConsumerIds : Consumer(i)
      BY <2>1 DEF Next
    <3> QED
      BY <3>1, MainOverlooksNobody, ProducerOverlooksNobody, ConsumerOverlooksNobody
  <2>2. CASE UNCHANGED vars
    <3>1. UNCHANGED <<count, capacity, resize_request, condVars, producer_pc, consumer_pc>>
      BY <2>2 DEF vars, labVars, ringVars, resizeVars, threadVars
    <3> QED
      BY <3>1, ConsumersLeftAlone, ProducersLeftAlone DEF NobodyOverlooked, condVars
  <2> QED
    BY <2>1, <2>2
<1> QED
  BY <1>1, <1>2, Invariance, PTL DEF Spec

-----------------------------------------------------------------------------
(* The ring implements the FIFO buffer: one step of the lab at a time.      *)

LEMMA ProducerFifo ==
  ASSUME IInv, NEW i \in ProducerIds, Producer(i)
  PROVE  [Fifo!Next]_Fifo!vars
<1>1. CASE UNCHANGED <<ringVars, msgVars>>
  BY <1>1, FifoStill DEF ringVars, msgVars
<1>2. CASE Put(i) /\ ~ProducerBlocked /\ made[i] < MaxMade
  <2>1. StoreMessage(i) /\ count < capacity
    BY <1>2 DEF IInv, Ring, RingOf, Put, ProducerBlocked
  <2> QED
    BY <1>2, <2>1, FifoPut DEF IInv
<1>3. ASSUME NEW to, ProducerLeavesRing(i, to)
      PROVE  UNCHANGED <<ringVars, msgVars>>
  BY <1>3 DEF ProducerLeavesRing
<1>4. CASE ProducerWaits(i) \/ ProducerWaitFails(i) \/ ProducerExit(i) \/ Overrun
  BY <1>1, <1>4 DEF ProducerWaits, ProducerWaitFails, ProducerExit, Overrun, threadVars
<1>5. CASE Produce(i)
  BY <1>1, <1>2, <1>3, <1>4, <1>5 DEF Produce
<1> QED
  BY <1>1, <1>3, <1>4, <1>5 DEF Producer, ProducerEnter, ProducerTimeout, ProducerReport

LEMMA ConsumerFifo ==
  ASSUME IInv, NEW i \in ConsumerIds, Consumer(i)
  PROVE  [Fifo!Next]_Fifo!vars
<1>1. CASE UNCHANGED <<ringVars, msgVars>>
  BY <1>1, FifoStill DEF ringVars, msgVars
<1>2. ASSUME NEW to, ConsumerLeavesRing(i, to)
      PROVE  UNCHANGED <<ringVars, msgVars>>
  BY <1>2 DEF ConsumerLeavesRing
<1>3. CASE ConsumerWaits(i) \/ ConsumerWaitFails(i) \/ ConsumerExit(i)
  BY <1>1, <1>3 DEF ConsumerWaits, ConsumerWaitFails, ConsumerExit
<1>4. CASE ConsumerWork(i)
  BY <1>4, FifoWork DEF ConsumerWork
<1>5. CASE ServeRequest(i)
  <2>1. CASE ResizeRing(head, count)
    <3>1. /\ MoveRing(head, count) /\ UNCHANGED <<made, hand>>
      BY <1>5, <2>1 DEF ServeRequest, ResizeRing, msgVars
    <3>2. /\ new_capacity_request \in Nat /\ new_capacity_request > 0
          /\ resize_request = 1 \/ count <= new_capacity_request
      BY <1>5, RequestedSize DEF ServeRequest, CanResizeNow
    <3>3. capacity \in Nat /\ count \in 0 .. capacity
      BY DEF IInv, Ring, RingOf
    <3>4. count <= new_capacity_request
      BY <3>2, <3>3 DEF IInv, Growing
    <3> QED
      BY <3>1, <3>2, <3>4, FifoMove DEF IInv
  <2>2. CASE ResizeFails(head, count)
    BY <1>1, <1>5, <2>2 DEF ServeRequest, ResizeFails, ringVars
  <2> QED
    BY <1>5, <2>1, <2>2 DEF ServeRequest
<1>6. CASE consumer_pc[i] \in {"enter", "wait"} /\ count > 0 /\ Take(i)
  <2> DEFINE first == Slot(head + 1)
             n == count - 1
  <2>1. /\ hand' = [hand EXCEPT ![i] = buffer[head]] /\ UNCHANGED made
        /\ \/ PendingDecrease /\ MoveRing(first, n)
           \/ head' = first /\ count' = n /\ UNCHANGED <<buffer, capacity, tail>>
    BY <1>6 DEF Take, ResizeFails, ResizeRing
  <2>2. PendingDecrease => /\ n <= new_capacity_request
                           /\ new_capacity_request \in Nat /\ new_capacity_request > 0
    BY RequestedSize DEF PendingDecrease
  <2>3. hand[i] = NoMessage
    BY <1>6 DEF IInv, Hands
  <2> QED
    BY <1>6, <2>1, <2>2, <2>3, FifoTake DEF IInv
<1>7. ConsumerLoop(i) => ConsumerLeavesRing(i, "enter") \/ ConsumerLeavesRing(i, "exit")
  BY DEF ConsumerLoop
<1>8. CASE consumer_pc[i] \in {"enter", "wait"} /\ Consume(i)
  BY <1>1, <1>2, <1>6, <1>8 DEF Consume
<1>9. ConsumerEnter(i) \/ ConsumerTimeout(i) =>
        /\ consumer_pc[i] \in {"enter", "wait"}
        /\ ConsumerWaits(i) \/ Consume(i) \/ ConsumerLeavesRing(i, "loop")
  BY DEF ConsumerEnter, ConsumerTimeout
<1> QED
  BY <1>1, <1>2, <1>3, <1>4, <1>5, <1>7, <1>8, <1>9 DEF Consumer

LEMMA MainFifo ==
  ASSUME IInv, Main
  PROVE  [Fifo!Next]_Fifo!vars
<1>1. CASE UNCHANGED <<ringVars, msgVars>>
  BY <1>1, FifoStill DEF ringVars, msgVars
<1>2. CASE RunLabLogic
  <2>1. UNCHANGED <<ringVars, msgVars>>
    <3>1. "loop" \in ProducerPlaces \cup ConsumerPlaces
          /\ producer_pc \in [ProducerIds -> ProducerPlaces \cup ConsumerPlaces]
          /\ consumer_pc \in [ConsumerIds -> ProducerPlaces \cup ConsumerPlaces]
      BY DEF IInv, Positions, ProducerPlaces
    <3> QED
      BY <1>2, <3>1, MainStep DEF IInv
  <2> QED
    BY <1>1, <2>1
<1>3. CASE request_resize_cond \/ signal_cleanup_cond
  BY <1>1, <1>3 DEF request_resize_cond, signal_cleanup_cond, RequestResize, SignalCleanup, threadVars
<1>4. CASE destroy_queue_cond
  BY <1>4, FifoClose DEF destroy_queue_cond
<1> QED
  BY <1>2, <1>3, <1>4 DEF Main

\* With any number of threads, and through every resize, failed allocation and
\* retirement, the ring of queue_cond.c is a FIFO buffer of its current capacity.
THEOREM FifoImplemented == Spec => ImplementsFifo
<1>1. Init => Fifo!Init
  BY InitIInv, FifoStart DEF Init, IInv
<1>2. IInv /\ [Next]_vars => [Fifo!Next]_Fifo!vars
  <2> SUFFICES ASSUME IInv, [Next]_vars
               PROVE  [Fifo!Next]_Fifo!vars
    OBVIOUS
  <2>1. CASE Next
    <3>1. \/ Main
          \/ \E i \in ProducerIds : Producer(i)
          \/ \E i \in ConsumerIds : Consumer(i)
      BY <2>1 DEF Next
    <3> QED
      BY <3>1, MainFifo, ProducerFifo, ConsumerFifo
  <2>2. CASE UNCHANGED vars
    BY <2>2, FifoStill DEF vars, labVars, ringVars, threadVars, msgVars
  <2> QED
    BY <2>1, <2>2
<1> QED
  BY <1>1, <1>2, Invariance, PTL DEF Spec, ImplementsFifo, Fifo!Spec

=============================================================================
