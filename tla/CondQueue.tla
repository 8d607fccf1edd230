----------------------------- MODULE CondQueue ------------------------------
(***************************************************************************)
(* The producer-consumer system for threads, condition variables (lab      *)
(* 5.2).  One action is one critical section of queue_cond.mutex: the ring *)
(* is only touched under it, and no thread blocks while holding it except  *)
(* in pthread_cond_timedwait, which gives it up.  The flags keep_running   *)
(* and *_active are read and written without it.                           *)
(***************************************************************************)
EXTENDS ThreadLab

VARIABLES can_produce, can_consume  \* the threads waiting unsignalled

condVars == <<can_produce, can_consume>>
vars == <<labVars, condVars>>

Init == LabInit /\ can_produce = {} /\ can_consume = {}

-----------------------------------------------------------------------------
(* Condition variables.                                                    *)

\* pthread_cond_signal wakes one of the waiters, if there is any.
Signalled(waiters) ==
  IF waiters = {} THEN {{}} ELSE {waiters \ {w} : w \in waiters}

Mut_Announce == UNCHANGED can_consume

Announce == can_consume' \in Signalled(can_consume)

Broadcast == can_produce' = {} /\ can_consume' = {}

-----------------------------------------------------------------------------
(* resize_queue_internal_cond                                              *)

\* The pending request is carried out for a ring that starts at slot first and
\* holds n messages, or fails for lack of memory; it is gone either way.
ResizeRing(first, n) == MoveRing(first, n) /\ resize_request' = 0 /\ Broadcast

ResizeFails(first, n) ==
  /\ "malloc" \in Faults
  /\ head' = first /\ count' = n
  /\ resize_request' = 0
  /\ UNCHANGED <<buffer, capacity, tail>>

-----------------------------------------------------------------------------
(* The producer thread.                                                    *)

Mut_ProducerBlocked == resize_request # 0

ProducerBlocked == count = capacity \/ resize_request # 0

\* The thread moves on without touching the ring, out of the wait if it was in it.
ProducerLeavesRing(i, to) ==
  /\ ProducerGoes(i, to)
  /\ can_produce' = can_produce \ {i}
  /\ UNCHANGED <<ringVars, resizeVars, can_consume, consumer_pc, msgVars, flagVars, mainVars>>

ProducerWaits(i) ==
  /\ ProducerRuns(i) /\ ProducerBlocked
  /\ ProducerGoes(i, "wait")
  /\ can_produce' = can_produce \cup {i}
  /\ UNCHANGED <<ringVars, resizeVars, can_consume, consumer_pc, msgVars, flagVars, mainVars>>

Put(i) ==
  /\ StoreMessage(i)
  /\ Announce
  /\ can_produce' = can_produce \ {i}
  /\ ProducerGoes(i, "report")
  /\ UNCHANGED <<resizeVars, consumer_pc, flagVars, mainVars>>

\* Behind the wait: told to stop, no memory for a message, or one is added.
Produce(i) ==
  \/ ~ProducerRuns(i) /\ ProducerLeavesRing(i, "exit")
  \/ /\ ProducerRuns(i) /\ ~ProducerBlocked
     /\ \/ "malloc" \in Faults /\ ProducerLeavesRing(i, "loop")
        \/ made[i] < MaxMade /\ Put(i)
        \/ made[i] < MaxMade /\ Overrun /\ UNCHANGED condVars

\* The top of the loop, or signalled while waiting.  A stop seen before the
\* mutex and one seen inside come to the same, so that is one step.
ProducerEnter(i) ==
  /\ \/ producer_pc[i] = "loop"
     \/ producer_pc[i] = "wait" /\ i \notin can_produce
  /\ ProducerWaits(i) \/ Produce(i)

\* The wait times out (a spurious wakeup comes to the same): blocked still, the
\* thread gives the mutex up and starts over.
ProducerTimeout(i) ==
  /\ producer_pc[i] = "wait" /\ i \in can_produce
  /\ \/ Produce(i)
     \/ ProducerRuns(i) /\ ProducerBlocked /\ ProducerLeavesRing(i, "loop")

\* Any other error of the wait stops the whole program.
ProducerWaitFails(i) ==
  /\ "wait" \in Faults
  /\ producer_pc[i] = "wait"
  /\ keep_running' = FALSE
  /\ producer_active' = [producer_active EXCEPT ![i] = FALSE]
  /\ ProducerGoes(i, "exit")
  /\ can_produce' = can_produce \ {i}
  /\ UNCHANGED <<ringVars, resizeVars, can_consume, consumer_pc, msgVars,
                 consumer_active, mainVars>>

\* The report reads the message again (its size), without the mutex.
ProducerReport(i) == producer_pc[i] = "report" /\ ProducerLeavesRing(i, "loop")

ProducerExit(i) ==
  /\ producer_pc[i] = "exit"
  /\ ProducerGoes(i, "gone")
  /\ producer_active' = [producer_active EXCEPT ![i] = FALSE]
  /\ Broadcast
  /\ UNCHANGED <<ringVars, resizeVars, consumer_pc, msgVars, keep_running,
                 consumer_active, mainVars>>

-----------------------------------------------------------------------------
(* The consumer thread.                                                    *)

ConsumerLeavesRing(i, to) ==
  /\ ConsumerGoes(i, to)
  /\ can_consume' = can_consume \ {i}
  /\ UNCHANGED <<ringVars, resizeVars, can_produce, producer_pc, msgVars, flagVars, mainVars>>

ConsumerLoop(i) ==
  /\ consumer_pc[i] = "loop"
  /\ ConsumerLeavesRing(i, IF ConsumerRuns(i) THEN "enter" ELSE "exit")

Mut_CanResizeNow == resize_request = 1

CanResizeNow ==
  \/ resize_request = 1
  \/ resize_request = -1 /\ count <= new_capacity_request

\* A pending request comes first; it is served even by a thread that was told
\* to stop after the test at the top of its loop.
ServeRequest(i) ==
  /\ consumer_pc[i] = "enter"
  /\ CanResizeNow
  /\ ConsumerGoes(i, "loop")
  /\ \/ ResizeRing(head, count)
     \/ ResizeFails(head, count) /\ UNCHANGED condVars
  /\ UNCHANGED <<new_capacity_request, producer_pc, msgVars, flagVars, mainVars>>

ConsumerWaits(i) ==
  /\ ConsumerRuns(i) /\ count = 0
  /\ ConsumerGoes(i, "wait")
  /\ can_consume' = can_consume \cup {i}
  /\ UNCHANGED <<ringVars, resizeVars, can_produce, producer_pc, msgVars, flagVars, mainVars>>

\* Having taken a message the consumer signals a producer and carries out a
\* decrease that has become possible.
PendingDecrease == resize_request = -1 /\ count - 1 <= new_capacity_request

Take(i) ==
  LET first == Slot(head + 1)
      Signal == /\ can_produce' \in Signalled(can_produce)
                /\ can_consume' = can_consume \ {i}
  IN  /\ hand' = [hand EXCEPT ![i] = buffer[head]]
      /\ ConsumerGoes(i, "work")
      /\ \/ PendingDecrease /\ ResizeRing(first, count - 1)
         \/ PendingDecrease /\ ResizeFails(first, count - 1) /\ Signal
         \/ /\ ~PendingDecrease
            /\ head' = first /\ count' = count - 1
            /\ Signal
            /\ UNCHANGED <<buffer, capacity, tail, resize_request>>
      /\ UNCHANGED <<new_capacity_request, producer_pc, made, freed, flagVars, mainVars>>

Consume(i) ==
  \/ ~ConsumerRuns(i) /\ ConsumerLeavesRing(i, "exit")
  \/ ConsumerRuns(i) /\ count > 0 /\ Take(i)

ConsumerEnter(i) ==
  /\ \/ consumer_pc[i] = "enter" /\ ~CanResizeNow
     \/ consumer_pc[i] = "wait" /\ i \notin can_consume
  /\ ConsumerWaits(i) \/ Consume(i)

ConsumerTimeout(i) ==
  /\ consumer_pc[i] = "wait" /\ i \in can_consume
  /\ \/ Consume(i)
     \/ ConsumerRuns(i) /\ count = 0 /\ ConsumerLeavesRing(i, "loop")

ConsumerWaitFails(i) ==
  /\ "wait" \in Faults
  /\ consumer_pc[i] = "wait"
  /\ keep_running' = FALSE
  /\ consumer_active' = [consumer_active EXCEPT ![i] = FALSE]
  /\ ConsumerGoes(i, "exit")
  /\ can_consume' = can_consume \ {i}
  /\ UNCHANGED <<ringVars, resizeVars, can_produce, producer_pc, msgVars,
                 producer_active, mainVars>>

\* The hash is checked, the message destroyed, the thread sleeps.
ConsumerWork(i) ==
  /\ consumer_pc[i] = "work"
  /\ ConsumerGoes(i, "loop")
  /\ destroy_message(i)
  /\ UNCHANGED <<ringVars, resizeVars, condVars, producer_pc, flagVars, mainVars>>

ConsumerExit(i) ==
  /\ consumer_pc[i] = "exit"
  /\ ConsumerGoes(i, "gone")
  /\ consumer_active' = [consumer_active EXCEPT ![i] = FALSE]
  /\ Broadcast
  /\ UNCHANGED <<ringVars, resizeVars, producer_pc, msgVars, keep_running,
                 producer_active, mainVars>>

-----------------------------------------------------------------------------
(* What main does to the condition variables.                              *)

\* A consumer is told of a request, and the producers too if it is a decrease.
request_resize_cond ==
  \E key \in {"+", "-"} :
    /\ RequestResize(key)
    /\ Announce
    /\ can_produce' = IF key = "-" THEN {} ELSE can_produce

signal_cleanup_cond == SignalCleanup /\ Broadcast

destroy_queue_cond ==
  /\ MainGoes("destroy", "done")
  /\ DestroyRing
  /\ resize_request' = 0
  /\ keep_running' = FALSE
  /\ Broadcast
  /\ UNCHANGED <<new_capacity_request, producer_pc, consumer_pc,
                 producer_active, consumer_active, idVars, broken>>

-----------------------------------------------------------------------------
Producer(i) ==
  \/ ProducerEnter(i) \/ ProducerTimeout(i) \/ ProducerWaitFails(i)
  \/ ProducerReport(i) \/ ProducerExit(i)

Consumer(i) ==
  \/ ConsumerLoop(i) \/ ServeRequest(i) \/ ConsumerEnter(i)
  \/ ConsumerTimeout(i) \/ ConsumerWaitFails(i) \/ ConsumerWork(i) \/ ConsumerExit(i)

Main ==
  \/ RunLabLogic /\ UNCHANGED condVars
  \/ signal_cleanup_cond \/ request_resize_cond \/ destroy_queue_cond

Next ==
  /\ broken = "no"
  /\ \/ Main
     \/ \E i \in ProducerIds : Producer(i)
     \/ \E i \in ConsumerIds : Consumer(i)

Spec == Init /\ [][Next]_vars

\* Every thread is scheduled, gets the mutex in turn, and its waits end after
\* a second at the latest.
Fairness ==
  /\ WF_vars(broken = "no" /\ Main)
  /\ \A i \in ProducerIds : WF_vars(broken = "no" /\ Producer(i))
  /\ \A i \in ConsumerIds : WF_vars(broken = "no" /\ Consumer(i))

FairSpec == Spec /\ Fairness

-----------------------------------------------------------------------------
\* Indices, counters, flags and positions stay in their ranges; only waiting
\* threads are in a wait set.
TypeOK ==
  /\ LabTypeOK
  /\ can_produce \subseteq {i \in ProducerIds : producer_pc[i] = "wait"}
  /\ can_consume \subseteq {i \in ConsumerIds : consumer_pc[i] = "wait"}
  /\ producer_pc \in [ProducerIds -> {"none", "loop", "wait", "report", "exit", "gone"}]
  /\ consumer_pc \in [ConsumerIds -> {"none", "loop", "enter", "wait", "work", "exit", "gone"}]

\* A consumer that sleeps beside a message is not the only one to see to it.
NoMessageOverlooked ==
  can_consume # {} /\ count > 0 =>
    \E i \in ConsumerIds \ can_consume : consumer_pc[i] \notin {"none", "gone"}

\* The same for a producer and a free slot.
NoRoomOverlooked ==
  can_produce # {} /\ ~ProducerBlocked =>
    \E i \in ProducerIds \ can_produce : producer_pc[i] \notin {"none", "gone"}

\* pthread_cond_signal wakes one waiter only, and a thread may be retired with
\* the signal in its pocket.  Still no consumer sleeps beside a message, unless
\* another consumer is up and about; nor does a producer beside a free slot while
\* no resize is pending: nobody needs the timeout for that.
NobodyOverlooked == NoMessageOverlooked /\ NoRoomOverlooked

\* A pending resize is served as long as some consumer keeps running, although
\* a consumer that waits for messages does not look at the request before its
\* wait times out, and a decrease has to wait for the ring to drain.
ResizeServed ==
  resize_request # 0 ~>
    \/ resize_request = 0
    \/ NoConsumerRuns
    \/ broken # "no"
=============================================================================
