----------------------------- MODULE ThreadLab ------------------------------
(***************************************************************************)
(* What the two producer-consumer systems for threads (lab 5.1 with        *)
(* semaphores, lab 5.2 with condition variables) have in common: the ring  *)
(* of message pointers with its resize requests, and run_lab_logic, the    *)
(* main thread that creates, retires, stops and joins the threads.  The    *)
(* ring operations of queue_sem.c and queue_cond.c are the same statement  *)
(* for statement; run_lab_logic is one function that is handed the thread  *)
(* functions and the function that wakes the threads.  SemQueue and        *)
(* CondQueue extend this module: they say what waking the threads is, and  *)
(* add the threads.                                                        *)
(*                                                                         *)
(* A message is <<producer, serial>>; hashing, printing and the totals     *)
(* that only reports read are left out.  An access outside an array is     *)
(* undefined: the run ends there, and broken names the array.              *)
(***************************************************************************)
EXTENDS Integers, Sequences, FiniteSets

CONSTANTS
  MaxProducers, \* MAX_THREADS, the length of producer_active
  MaxConsumers, \* MAX_THREADS, the length of consumer_active
  InitialSize,  \* INITIAL_QUEUE_SIZE
  Step,         \* what '+' and '-' change the capacity by
  MaxCapacity,  \* bound: the largest size '+' is pressed for
  MaxMade,      \* bound: messages a producer makes
  Keys,         \* the keys the user presses: subset of p P c C + - q
  Faults        \* subset of {"malloc", "create", "wait"}: calls that may fail

ASSUME ConstantsAssumption ==
  /\ MaxProducers \in Nat /\ MaxConsumers \in Nat
  /\ InitialSize \in Nat \ {0} /\ Step \in Nat \ {0}
  /\ MaxCapacity \in Nat /\ MaxMade \in Nat

VARIABLES
  buffer, capacity, head, tail, count,  \* the ring
  resize_request, new_capacity_request,
  producer_pc, consumer_pc,
  made, hand,                           \* messages made; message a consumer holds
  freed,                                \* destroyed messages
  keep_running, producer_active, consumer_active,
  producer_count, consumer_count, next_producer_id, next_consumer_id,
  main,                                 \* position of the main thread
  broken                                \* the array that was overrun

ringVars   == <<buffer, capacity, head, tail, count>>
resizeVars == <<resize_request, new_capacity_request>>
msgVars    == <<made, hand, freed>>
flagVars   == <<keep_running, producer_active, consumer_active>>
idVars     == <<producer_count, consumer_count, next_producer_id, next_consumer_id>>
mainVars   == <<idVars, main, broken>>
threadVars == <<producer_pc, consumer_pc, msgVars>>
labVars    == <<ringVars, resizeVars, threadVars, flagVars, mainVars>>

ProducerIds == 0 .. MaxProducers - 1
ConsumerIds == 0 .. MaxConsumers - 1
NoMessage == <<>>
Message == ProducerIds \X (1 .. MaxMade)

\* A new array holds anything; reading such a slot would yield NoMessage.
Fresh(n) == [i \in 0 .. n - 1 |-> NoMessage]

LabInit ==
  /\ buffer = Fresh(InitialSize) /\ capacity = InitialSize
  /\ head = 0 /\ tail = 0 /\ count = 0
  /\ resize_request = 0 /\ new_capacity_request = 0
  /\ producer_pc = [i \in ProducerIds |-> "none"]
  /\ consumer_pc = [i \in ConsumerIds |-> "none"]
  /\ made = [i \in ProducerIds |-> 0] /\ hand = [i \in ConsumerIds |-> NoMessage]
  /\ freed = {}
  /\ keep_running = TRUE
  /\ producer_active = [i \in ProducerIds |-> FALSE]
  /\ consumer_active = [i \in ConsumerIds |-> FALSE]
  /\ producer_count = 0 /\ consumer_count = 0
  /\ next_producer_id = 0 /\ next_consumer_id = 0
  /\ main = "run" /\ broken = "no"

-----------------------------------------------------------------------------
(* The ring.                                                               *)

Slot(i) == i % capacity

\* The message is stored at tail.
StoreMessage(i) ==
  /\ tail < capacity
  /\ made' = [made EXCEPT ![i] = @ + 1]
  /\ buffer' = [buffer EXCEPT ![tail] = <<i, made'[i]>>]
  /\ tail' = Slot(tail + 1)
  /\ count' = count + 1
  /\ UNCHANGED <<capacity, head, hand, freed>>

\* After an exact fit tail is one past the array.
Overrun ==
  /\ tail = capacity
  /\ broken' = "buffer"
  /\ UNCHANGED <<ringVars, resizeVars, threadVars, flagVars, idVars, main>>

Mut_Resized(first, n) ==
  [i \in 0 .. new_capacity_request - 1 |->
     IF i < n THEN buffer[Slot(head + i)] ELSE NoMessage]

Mut_ResizedInPlace(first, n) ==
  [i \in 0 .. new_capacity_request - 1 |-> IF i < n THEN buffer[i] ELSE NoMessage]

\* The messages of a ring that starts at slot first move to the front of a new array.
Resized(first, n) ==
  [i \in 0 .. new_capacity_request - 1 |->
     IF i < n THEN buffer[Slot(first + i)] ELSE NoMessage]

\* tail becomes count, also when that is the new capacity.
MoveRing(first, n) ==
  /\ buffer' = Resized(first, n) /\ capacity' = new_capacity_request
  /\ head' = 0 /\ tail' = n /\ count' = n

Mut_ProducerRuns(i) == keep_running

ProducerRuns(i) == keep_running /\ producer_active[i]
ConsumerRuns(i) == keep_running /\ consumer_active[i]

ProducerGoes(i, to) == producer_pc' = [producer_pc EXCEPT ![i] = to]
ConsumerGoes(i, to) == consumer_pc' = [consumer_pc EXCEPT ![i] = to]

\* The consumer is done with its message.
destroy_message(i) ==
  /\ freed' = freed \cup {hand[i]}
  /\ hand' = [hand EXCEPT ![i] = NoMessage]
  /\ UNCHANGED made

Contents == [i \in 1 .. count |-> buffer[Slot(head + i - 1)]]

InRing == {Contents[i] : i \in 1 .. count}

Mut_DestroyRing ==
  /\ buffer' = <<>> /\ capacity' = 0 /\ head' = 0 /\ tail' = 0 /\ count' = 0
  /\ UNCHANGED msgVars

\* What is left in the ring is destroyed with it.
DestroyRing ==
  /\ freed' = freed \cup InRing
  /\ buffer' = <<>> /\ capacity' = 0 /\ head' = 0 /\ tail' = 0 /\ count' = 0
  /\ UNCHANGED <<made, hand>>

-----------------------------------------------------------------------------
(* run_lab_logic                                                           *)

MainGoes(from, to) == main = from /\ main' = to

LoopTest ==
  /\ MainGoes("run", IF keep_running THEN "key" ELSE "stop")
  /\ UNCHANGED <<ringVars, resizeVars, threadVars, flagVars, idVars, broken>>

\* No key, 's', or a key that can do nothing now.
Idle ==
  /\ MainGoes("key", "run")
  /\ UNCHANGED <<ringVars, resizeVars, threadVars, flagVars, idVars, broken>>

PressThen(key, to) == key \in Keys /\ MainGoes("key", to)
Press(key) == PressThen(key, "run")

AddProducer ==
  /\ Press("p")
  /\ producer_count < MaxProducers /\ next_producer_id \in ProducerIds
  /\ producer_active' = [producer_active EXCEPT ![next_producer_id] = TRUE]
  /\ ProducerGoes(next_producer_id, "loop")
  /\ producer_count' = producer_count + 1
  /\ next_producer_id' = next_producer_id + 1
  /\ UNCHANGED <<ringVars, resizeVars, consumer_pc, msgVars, keep_running,
                 consumer_active, consumer_count, next_consumer_id, broken>>

AddConsumer ==
  /\ Press("c")
  /\ consumer_count < MaxConsumers /\ next_consumer_id \in ConsumerIds
  /\ consumer_active' = [consumer_active EXCEPT ![next_consumer_id] = TRUE]
  /\ ConsumerGoes(next_consumer_id, "loop")
  /\ consumer_count' = consumer_count + 1
  /\ next_consumer_id' = next_consumer_id + 1
  /\ UNCHANGED <<ringVars, resizeVars, producer_pc, msgVars, keep_running,
                 producer_active, producer_count, next_producer_id, broken>>

\* malloc fails after the flag is set and leaves it set; pthread_create clears it.
FlagAfter(fault) == fault = "malloc"

AddFails ==
  /\ \E fault \in Faults \cap {"malloc", "create"} :
       \/ /\ Press("p")
          /\ producer_count < MaxProducers /\ next_producer_id \in ProducerIds
          /\ producer_active' = [producer_active EXCEPT ![next_producer_id] = FlagAfter(fault)]
          /\ UNCHANGED consumer_active
       \/ /\ Press("c")
          /\ consumer_count < MaxConsumers /\ next_consumer_id \in ConsumerIds
          /\ consumer_active' = [consumer_active EXCEPT ![next_consumer_id] = FlagAfter(fault)]
          /\ UNCHANGED producer_active
  /\ UNCHANGED <<ringVars, resizeVars, threadVars, keep_running, idVars, broken>>

\* 'P' and 'C' give the counts back, not the ids.
IdOverrun ==
  /\ \/ /\ Press("p") /\ producer_count < MaxProducers
        /\ next_producer_id \notin ProducerIds /\ broken' = "producer_active"
     \/ /\ Press("c") /\ consumer_count < MaxConsumers
        /\ next_consumer_id \notin ConsumerIds /\ broken' = "consumer_active"
  /\ UNCHANGED <<ringVars, resizeVars, threadVars, flagVars, idVars>>

LastActive(active, next, i) ==
  i \in 0 .. next - 1 /\ active[i] /\ \A j \in i + 1 .. next - 1 : ~active[j]

\* The flag and the count; the threads are woken in a step of its own.
RemoveProducer ==
  /\ PressThen("P", "wake")
  /\ \E i \in ProducerIds :
       /\ LastActive(producer_active, next_producer_id, i)
       /\ producer_active' = [producer_active EXCEPT ![i] = FALSE]
  /\ producer_count' = producer_count - 1
  /\ UNCHANGED <<ringVars, resizeVars, threadVars, keep_running, consumer_active,
                 consumer_count, next_producer_id, next_consumer_id, broken>>

RemoveConsumer ==
  /\ PressThen("C", "wake")
  /\ \E i \in ConsumerIds :
       /\ LastActive(consumer_active, next_consumer_id, i)
       /\ consumer_active' = [consumer_active EXCEPT ![i] = FALSE]
  /\ consumer_count' = consumer_count - 1
  /\ UNCHANGED <<ringVars, resizeVars, threadVars, keep_running, producer_active,
                 producer_count, next_producer_id, next_consumer_id, broken>>

\* request_resize_sem and request_resize_cond: one request at a time.
RequestResize(key) ==
  /\ resize_request = 0
  /\ Press(key)
  /\ \/ /\ key = "+" /\ capacity + Step <= MaxCapacity
        /\ resize_request' = 1 /\ new_capacity_request' = capacity + Step
     \/ /\ key = "-" /\ capacity - Step > 0
        /\ resize_request' = -1 /\ new_capacity_request' = capacity - Step
  /\ UNCHANGED <<ringVars, threadVars, flagVars, idVars, broken>>

Quit ==
  /\ PressThen("q", "wake")
  /\ keep_running' = FALSE
  /\ UNCHANGED <<ringVars, resizeVars, threadVars, producer_active, consumer_active,
                 idVars, broken>>

\* All flags are cleared, and the threads woken, twice.
StopThreads ==
  /\ MainGoes("stop", "wake twice")
  /\ producer_active' = [i \in ProducerIds |-> producer_active[i] /\ i >= next_producer_id]
  /\ consumer_active' = [i \in ConsumerIds |-> consumer_active[i] /\ i >= next_consumer_id]
  /\ UNCHANGED <<ringVars, resizeVars, threadVars, keep_running, idVars, broken>>

\* The call of the signal_cleanup function of the lab.
SignalCleanup ==
  /\ \/ MainGoes("wake", "run")
     \/ MainGoes("wake twice", "wake once more")
     \/ MainGoes("wake once more", "join")
  /\ UNCHANGED <<ringVars, resizeVars, threadVars, flagVars, idVars, broken>>

Mut_Joined(place) == place = "gone"

\* A thread that was never created is not joined.
Joined(place) == place \in {"none", "gone"}

JoinThreads ==
  /\ MainGoes("join", "destroy")
  /\ \A i \in ProducerIds : Joined(producer_pc[i])
  /\ \A i \in ConsumerIds : Joined(consumer_pc[i])
  /\ UNCHANGED <<ringVars, resizeVars, threadVars, flagVars, idVars, broken>>

\* The steps of the main thread that are the same in both labs.
RunLabLogic ==
  \/ LoopTest \/ Idle \/ AddProducer \/ AddConsumer \/ AddFails \/ IdOverrun
  \/ RemoveProducer \/ RemoveConsumer \/ Quit \/ StopThreads \/ JoinThreads

-----------------------------------------------------------------------------
\* The part of each type invariant that both labs share.
LabTypeOK ==
  /\ capacity \in Nat
  /\ buffer \in [0 .. capacity - 1 -> Message \cup {NoMessage}]
  /\ head \in 0 .. capacity /\ tail \in 0 .. capacity /\ count \in 0 .. capacity
  /\ resize_request \in {-1, 0, 1} /\ new_capacity_request \in Nat
  /\ made \in [ProducerIds -> 0 .. MaxMade]
  /\ hand \in [ConsumerIds -> Message \cup {NoMessage}]
  /\ freed \subseteq Message
  /\ keep_running \in BOOLEAN
  /\ producer_active \in [ProducerIds -> BOOLEAN]
  /\ consumer_active \in [ConsumerIds -> BOOLEAN]
  /\ producer_count \in 0 .. MaxProducers /\ consumer_count \in 0 .. MaxConsumers
  /\ next_producer_id \in 0 .. MaxProducers /\ next_consumer_id \in 0 .. MaxConsumers
  /\ main \in {"run", "key", "wake", "stop", "wake twice", "wake once more",
               "join", "destroy", "done"}
  /\ broken \in {"no", "buffer", "producer_active", "consumer_active"}

Made == {m \in Message : m[2] <= made[m[1]]}
InHand == {hand[i] : i \in ConsumerIds} \ {NoMessage}

\* Every message ever added is in exactly one place, once: a slot of the ring,
\* the hands of one consumer, or destroyed.  No message is leaked, handed out
\* twice, or destroyed while it is still queued, through every resize and every
\* retirement of a thread, and none is left when the queue is destroyed.
OwnedOnce ==
  /\ Cardinality(InRing) = count
  /\ \A i, j \in ConsumerIds : hand[i] = hand[j] /\ i # j => hand[i] = NoMessage
  /\ InRing \cup InHand \cup freed = Made
  /\ InRing \cap InHand = {} /\ InRing \cap freed = {} /\ InHand \cap freed = {}

\* The ring is a FIFO buffer of its current capacity, through resizes.
Fifo == INSTANCE FifoBuffer WITH
  Writers <- ProducerIds, Readers <- ConsumerIds,
  items   <- Contents,
  bound   <- capacity,
  offered <- [i \in ProducerIds |-> IF made[i] < MaxMade THEN <<i, made[i] + 1>> ELSE NoMessage],
  taken   <- hand

ImplementsFifo == Fifo!Spec

\* No thread consumes; a flag that malloc left set stands for none.
NoConsumerRuns == \A i \in ConsumerIds : ConsumerRuns(i) => consumer_pc[i] = "none"

\* 'q', or whatever else clears keep_running, ends the program: every thread
\* sees it and is joined, whatever it was waiting for, and the queue is destroyed.
ShutdownCompletes == ~keep_running ~> main = "done" \/ broken # "no"

\* A thread that waits when it is told to retire does, while the others go on.
RetiredThreadsExit ==
  /\ \A i \in ProducerIds :
       producer_pc[i] = "wait" /\ ~producer_active[i] ~> producer_pc[i] = "gone" \/ broken # "no"
  /\ \A i \in ConsumerIds :
       consumer_pc[i] = "wait" /\ ~consumer_active[i] ~> consumer_pc[i] = "gone" \/ broken # "no"

\* No message is stored outside the ring.
StoresInRing == broken # "buffer"
=============================================================================
