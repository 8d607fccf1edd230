------------------------------ MODULE SemQueue ------------------------------
(***************************************************************************)
(* The producer-consumer system for threads, semaphores (lab 5.1): tokens  *)
(* of empty_slots and filled_slots admit the threads, the mutex guards the *)
(* ring.  A thread takes its token before it takes the mutex and posts the *)
(* other kind, or gives its own back, after it has released it; main posts *)
(* surplus tokens of both kinds to wake threads that should stop.  So the  *)
(* semaphores and the ring agree only up to what the threads carry.        *)
(***************************************************************************)
EXTENDS ThreadLab

CONSTANT Spare  \* the 5 of signal_cleanup_sem

ASSUME SpareAssumption == Spare \in Nat

VARIABLES empty_slots, filled_slots

semVars == <<empty_slots, filled_slots>>
vars == <<labVars, semVars>>

Init == LabInit /\ empty_slots = InitialSize /\ filled_slots = 0

-----------------------------------------------------------------------------
(* Semaphores.                                                             *)

sem_wait(sem) == sem > 0 /\ sem' = sem - 1

sem_post(sem) == sem' = sem + 1

\* A larger ring gets its new slots' tokens; a smaller one takes as many away
\* as nobody holds (sem_trywait).
AdjustEmpty ==
  empty_slots' =
    IF new_capacity_request >= capacity
    THEN empty_slots + (new_capacity_request - capacity)
    ELSE IF empty_slots >= capacity - new_capacity_request
         THEN empty_slots - (capacity - new_capacity_request)
         ELSE 0

Mut_Resize ==
  /\ UNCHANGED <<new_capacity_request, filled_slots>>
  /\ \/ /\ count <= new_capacity_request
        /\ MoveRing(head, count)
        /\ AdjustEmpty
        /\ resize_request' = 0
     \/ /\ count > new_capacity_request \/ "malloc" \in Faults
        /\ UNCHANGED <<ringVars, empty_slots, resize_request>>

\* resize_queue_internal_sem fails if the messages do not fit, or for lack of
\* memory.  The request is gone either way.
Resize ==
  /\ resize_request' = 0
  /\ \/ /\ count <= new_capacity_request
        /\ MoveRing(head, count)
        /\ AdjustEmpty
     \/ /\ count > new_capacity_request \/ "malloc" \in Faults
        /\ UNCHANGED <<ringVars, empty_slots>>
  /\ UNCHANGED <<new_capacity_request, filled_slots>>

-----------------------------------------------------------------------------
(* The producer thread.                                                    *)

\* A step of a thread that leaves ring and messages alone.
OnlySems == UNCHANGED <<ringVars, resizeVars, msgVars, mainVars>>

ProducerTo(i, from, to) == producer_pc[i] = from /\ ProducerGoes(i, to) /\ UNCHANGED consumer_pc

ConsumerTo(i, from, to) == consumer_pc[i] = from /\ ConsumerGoes(i, to) /\ UNCHANGED producer_pc

\* While a resize is pending the thread sleeps and looks again.
ProducerLoop(i) ==
  /\ \/ ~ProducerRuns(i) /\ ProducerTo(i, "loop", "exit")
     \/ /\ ProducerRuns(i) /\ resize_request = 0 /\ made[i] < MaxMade
        /\ ProducerTo(i, "loop", "wait")
  /\ OnlySems /\ UNCHANGED <<flagVars, semVars>>

ProducerToken(i) ==
  /\ ProducerTo(i, "wait", "got")
  /\ sem_wait(empty_slots)
  /\ OnlySems /\ UNCHANGED <<flagVars, filled_slots>>

\* ETIMEDOUT: the test for a stop is the one at the top of the loop.
ProducerTimeout(i) ==
  /\ ProducerTo(i, "wait", "loop")
  /\ empty_slots = 0
  /\ OnlySems /\ UNCHANGED <<flagVars, semVars>>

ProducerWaitFails(i) ==
  /\ "wait" \in Faults
  /\ ProducerTo(i, "wait", "exit")
  /\ producer_active' = [producer_active EXCEPT ![i] = FALSE]
  /\ OnlySems /\ UNCHANGED <<keep_running, consumer_active, semVars>>

\* Told to stop the thread gives its token back and exits; without memory for a
\* message it gives it back and tries again.
ProducerCreate(i) ==
  /\ \/ ~ProducerRuns(i) /\ ProducerTo(i, "got", "exit") /\ sem_post(empty_slots)
     \/ /\ ProducerRuns(i) /\ "malloc" \in Faults
        /\ ProducerTo(i, "got", "loop") /\ sem_post(empty_slots)
     \/ ProducerRuns(i) /\ ProducerTo(i, "got", "lock") /\ UNCHANGED empty_slots
  /\ OnlySems /\ UNCHANGED <<flagVars, filled_slots>>

Mut_ProducerBlocked == resize_request # 0

ProducerBlocked == count >= capacity \/ resize_request # 0

\* The section of the mutex: a message is added, or the token is no use.
ProducerPut(i) ==
  /\ \/ /\ ProducerBlocked
        /\ ProducerTo(i, "lock", "repost")
        /\ OnlySems
     \/ /\ ~ProducerBlocked
        /\ ProducerTo(i, "lock", "post")
        /\ StoreMessage(i)
        /\ UNCHANGED <<resizeVars, mainVars>>
  /\ UNCHANGED <<flagVars, semVars>>

ProducerOverrun(i) ==
  /\ producer_pc[i] = "lock" /\ ~ProducerBlocked
  /\ Overrun
  /\ UNCHANGED semVars

\* Then the report reads the message again.
ProducerPost(i) ==
  /\ ProducerTo(i, "post", "report")
  /\ sem_post(filled_slots)
  /\ OnlySems /\ UNCHANGED <<flagVars, empty_slots>>

\* The unused message is destroyed.
ProducerRepost(i) ==
  /\ ProducerTo(i, "repost", "loop")
  /\ sem_post(empty_slots)
  /\ OnlySems /\ UNCHANGED <<flagVars, filled_slots>>

ProducerReport(i) ==
  /\ ProducerTo(i, "report", "loop")
  /\ OnlySems /\ UNCHANGED <<flagVars, semVars>>

ProducerExit(i) ==
  /\ ProducerTo(i, "exit", "gone")
  /\ producer_active' = [producer_active EXCEPT ![i] = FALSE]
  /\ OnlySems /\ UNCHANGED <<keep_running, consumer_active, semVars>>

-----------------------------------------------------------------------------
(* The consumer thread.                                                    *)

ConsumerLoop(i) ==
  /\ \/ ConsumerRuns(i) /\ ConsumerTo(i, "loop", "enter")
     \/ ~ConsumerRuns(i) /\ ConsumerTo(i, "loop", "exit")
  /\ OnlySems /\ UNCHANGED <<flagVars, semVars>>

\* Whatever is requested is tried at once, and the request dropped if it fails.
ConsumerEnter(i) ==
  /\ \/ resize_request # 0 /\ ConsumerTo(i, "enter", "loop") /\ Resize
     \/ /\ resize_request = 0 /\ ConsumerTo(i, "enter", "wait")
        /\ UNCHANGED <<ringVars, resizeVars, semVars>>
  /\ UNCHANGED <<msgVars, flagVars, mainVars>>

ConsumerToken(i) ==
  /\ ConsumerTo(i, "wait", "got")
  /\ sem_wait(filled_slots)
  /\ OnlySems /\ UNCHANGED <<flagVars, empty_slots>>

ConsumerTimeout(i) ==
  /\ ConsumerTo(i, "wait", "loop")
  /\ filled_slots = 0
  /\ OnlySems /\ UNCHANGED <<flagVars, semVars>>

ConsumerWaitFails(i) ==
  /\ "wait" \in Faults
  /\ ConsumerTo(i, "wait", "exit")
  /\ consumer_active' = [consumer_active EXCEPT ![i] = FALSE]
  /\ OnlySems /\ UNCHANGED <<keep_running, producer_active, semVars>>

Mut_GiveBack == UNCHANGED filled_slots

\* A retired consumer gives the token it took back.
GiveBack == sem_post(filled_slots)

ConsumerStopTest(i) ==
  /\ \/ ~ConsumerRuns(i) /\ ConsumerTo(i, "got", "exit") /\ GiveBack
     \/ ConsumerRuns(i) /\ ConsumerTo(i, "got", "lock") /\ UNCHANGED filled_slots
  /\ OnlySems /\ UNCHANGED <<flagVars, empty_slots>>

CanResizeNow ==
  \/ resize_request = 1
  \/ resize_request = -1 /\ count <= new_capacity_request

\* A request that came meanwhile goes first; else the oldest message is taken,
\* even if a decrease is still pending; or there is none.
ConsumerTake(i) ==
  /\ \/ CanResizeNow /\ ConsumerTo(i, "lock", "repost") /\ Resize /\ UNCHANGED msgVars
     \/ /\ ~CanResizeNow /\ count = 0
        /\ ConsumerTo(i, "lock", "repost")
        /\ UNCHANGED <<ringVars, resizeVars, msgVars, semVars>>
     \/ /\ ~CanResizeNow /\ count > 0
        /\ ConsumerTo(i, "lock", "post")
        /\ hand' = [hand EXCEPT ![i] = buffer[head]]
        /\ head' = Slot(head + 1) /\ count' = count - 1
        /\ UNCHANGED <<buffer, capacity, tail, resizeVars, made, freed, semVars>>
  /\ UNCHANGED <<flagVars, mainVars>>

ConsumerRepost(i) ==
  /\ ConsumerTo(i, "repost", "loop")
  /\ sem_post(filled_slots)
  /\ OnlySems /\ UNCHANGED <<flagVars, empty_slots>>

ConsumerPost(i) ==
  /\ ConsumerTo(i, "post", "work")
  /\ sem_post(empty_slots)
  /\ OnlySems /\ UNCHANGED <<flagVars, filled_slots>>

ConsumerWork(i) ==
  /\ ConsumerTo(i, "work", "loop")
  /\ destroy_message(i)
  /\ UNCHANGED <<ringVars, resizeVars, flagVars, mainVars, semVars>>

ConsumerExit(i) ==
  /\ ConsumerTo(i, "exit", "gone")
  /\ consumer_active' = [consumer_active EXCEPT ![i] = FALSE]
  /\ OnlySems /\ UNCHANGED <<keep_running, producer_active, semVars>>

-----------------------------------------------------------------------------
(* What main does to the semaphores.                                       *)

\* Tokens for everybody, whether there is a slot or a message for them or not;
\* they are posted one by one, here in one step.
signal_cleanup_sem ==
  LET signals == capacity + producer_count + consumer_count + Spare
  IN  /\ SignalCleanup
      /\ empty_slots' = empty_slots + signals /\ filled_slots' = filled_slots + signals

request_resize_sem == \E key \in {"+", "-"} : RequestResize(key)

destroy_queue_sem ==
  /\ MainGoes("destroy", "done")
  /\ DestroyRing
  /\ UNCHANGED <<resizeVars, producer_pc, consumer_pc, flagVars, idVars, broken, semVars>>

-----------------------------------------------------------------------------
Producer(i) ==
  \/ ProducerLoop(i) \/ ProducerToken(i) \/ ProducerTimeout(i) \/ ProducerWaitFails(i)
  \/ ProducerCreate(i) \/ ProducerPut(i) \/ ProducerOverrun(i)
  \/ ProducerPost(i) \/ ProducerRepost(i) \/ ProducerReport(i) \/ ProducerExit(i)

Consumer(i) ==
  \/ ConsumerLoop(i) \/ ConsumerEnter(i) \/ ConsumerToken(i) \/ ConsumerTimeout(i)
  \/ ConsumerWaitFails(i) \/ ConsumerStopTest(i) \/ ConsumerTake(i)
  \/ ConsumerRepost(i) \/ ConsumerPost(i) \/ ConsumerWork(i) \/ ConsumerExit(i)

Main ==
  \/ (RunLabLogic \/ request_resize_sem) /\ UNCHANGED semVars
  \/ signal_cleanup_sem \/ destroy_queue_sem

Next ==
  /\ broken = "no"
  /\ \/ Main
     \/ \E i \in ProducerIds : Producer(i)
     \/ \E i \in ConsumerIds : Consumer(i)

Spec == Init /\ [][Next]_vars

\* Every thread is scheduled and gets the mutex in turn; a wait for a token
\* ends after a second at the latest.
Fairness ==
  /\ WF_vars(broken = "no" /\ Main)
  /\ \A i \in ProducerIds : WF_vars(broken = "no" /\ Producer(i))
  /\ \A i \in ConsumerIds : WF_vars(broken = "no" /\ Consumer(i))

FairSpec == Spec /\ Fairness

-----------------------------------------------------------------------------
\* Indices, counters, flags and positions stay in their ranges; whatever the
\* semaphores say, the ring is never overfull.
TypeOK ==
  /\ LabTypeOK
  /\ producer_pc \in [ProducerIds -> {"none", "loop", "wait", "got", "lock", "post",
                                      "repost", "report", "exit", "gone"}]
  /\ consumer_pc \in [ConsumerIds -> {"none", "loop", "enter", "wait", "got", "lock", "post",
                                      "repost", "work", "exit", "gone"}]
  /\ empty_slots \in Nat /\ filled_slots \in Nat

\* The threads that carry a token, or owe the other kind.
ProducersAt(places) == Cardinality({i \in ProducerIds : producer_pc[i] \in places})
ConsumersAt(places) == Cardinality({i \in ConsumerIds : consumer_pc[i] \in places})

EmptyTokens == empty_slots + ProducersAt({"got", "lock", "repost"}) + ConsumersAt({"post"})
FilledTokens == filled_slots + ConsumersAt({"got", "lock", "repost"}) + ProducersAt({"post"})

\* Main posts surplus tokens when it retires a thread, and when the lab ends.
SurplusPosted ==
  \/ ~keep_running
  \/ producer_count # next_producer_id \/ consumer_count # next_consumer_id

\* No slot and no message is ever without a token: through retirements, failed
\* calls, resizes that found no token to take away, and requests that were
\* dropped, a message in the ring is always announced, or about to be, and so
\* is a free slot.  Until main posts surplus tokens there are exactly as many
\* filled tokens as messages.
TokensAccounted ==
  /\ main # "done" => FilledTokens >= count /\ EmptyTokens >= capacity - count
  /\ ~SurplusPosted => FilledTokens = count

\* A pending request is served or dropped as long as some consumer keeps running.
RequestCleared ==
  resize_request # 0 ~>
    \/ resize_request = 0
    \/ NoConsumerRuns
    \/ broken # "no"
=============================================================================
