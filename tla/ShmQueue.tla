------------------------------ MODULE ShmQueue ------------------------------
(***************************************************************************)
(* The producer-consumer system for processes: a ring of messages in one   *)
(* System V shared memory segment, a set of three System V semaphores      *)
(* (mutex, empty slots, filled slots), children forked by the main process *)
(* on a key press and removed with SIGKILL on another.                     *)
(*                                                                         *)
(* A child may be killed between any two of its steps, also while it is    *)
(* inside the ring, and the semaphores carry no SEM_UNDO.  The stores of   *)
(* one ring operation are therefore split into two steps, so that a kill   *)
(* can tear it.  Payloads, checksums and printing are abstracted to the    *)
(* identity of a message.                                                  *)
(***************************************************************************)
EXTENDS Integers, Sequences, FiniteSets

CONSTANTS
  Producers, Consumers, \* the children main may fork, each forked at most once
  Message, NoMessage,   \* payloads, and the zeroed MsgPayload
  Capacity,             \* BUFFER_CAPACITY
  MaxChildren,          \* MAX_CHILD_PROCESSES
  MaxAdded,             \* bound: messages ever added
  Keys,                 \* the keys the user presses: subset of P p C c s q
  Faults                \* subset of {"fork", "semop"}: system calls that may fail

ASSUME ConstantsAssumption ==
  /\ IsFiniteSet(Producers) /\ IsFiniteSet(Consumers)
  /\ Producers \cap Consumers = {}
  /\ NoMessage \notin Message
  /\ Capacity \in Nat /\ Capacity >= 2
  /\ MaxChildren \in Nat /\ MaxAdded \in Nat

VARIABLES
  mutex, empty, filled,         \* the semaphore set
  buffer, head, tail,           \* QueueBuffer: head is written, tail is read
  count, added, extracted,      \* QueueBuffer counters
  pc, msg,                      \* each child's position and local MsgPayload
  doomed, dead, reaped,         \* SIGKILL sent; gone; collected by wait(NULL)
  main,                         \* position of the main process
  producer_pids, consumer_pids  \* the children main counts as active

semVars   == <<mutex, empty, filled>>
queueVars == <<buffer, head, tail, count, added, extracted>>
childVars == <<pc, msg>>
lifeVars  == <<doomed, dead, reaped>>
mainVars  == <<main, producer_pids, consumer_pids>>
vars == <<semVars, queueVars, childVars, lifeVars, mainVars>>

Children == Producers \cup Consumers

\* A child runs until it is gone; SIGKILL takes effect at a moment of its own.
Live(c) == pc[c] # "unborn" /\ c \notin dead

\* semop of +1 and -1 on one semaphore of the set.
semaphore_signal(sem) == sem' = sem + 1
semaphore_wait(sem)   == sem > 0 /\ sem' = sem - 1

\* The index is wrapped lazily, at the start of the next operation.
Wrapped(idx) == IF idx = Capacity THEN 0 ELSE idx

-----------------------------------------------------------------------------
(* system_init and initialize_queue                                        *)

Init ==
  /\ mutex = 1 /\ empty = Capacity /\ filled = 0
  /\ buffer = [i \in 0 .. Capacity - 1 |-> NoMessage]
  /\ head = 0 /\ tail = 0
  /\ count = 0 /\ added = 0 /\ extracted = 0
  /\ pc = [c \in Children |-> "unborn"]
  /\ msg = [c \in Children |-> NoMessage]
  /\ doomed = {} /\ dead = {} /\ reaped = {}
  /\ main = "menu"
  /\ producer_pids = <<>> /\ consumer_pids = <<>>

-----------------------------------------------------------------------------
(* The producer's loop.                                                    *)

Goto(c, from, to) ==
  /\ Live(c)
  /\ pc[c] = from
  /\ pc' = [pc EXCEPT ![c] = to]

generate_and_fill_message(p) ==
  /\ added < MaxAdded
  /\ Goto(p, "generate", "wait_empty")
  /\ \E m \in Message : msg' = [msg EXCEPT ![p] = m]
  /\ UNCHANGED <<semVars, queueVars, lifeVars, mainVars>>

WaitEmpty(p) ==
  /\ Goto(p, "wait_empty", "p_lock")
  /\ semaphore_wait(empty)
  /\ UNCHANGED <<mutex, filled, queueVars, msg, lifeVars, mainVars>>

ProducerLock(p) ==
  /\ Goto(p, "p_lock", "add")
  /\ semaphore_wait(mutex)
  /\ UNCHANGED <<empty, filled, queueVars, msg, lifeVars, mainVars>>

\* Mutation: the off-by-one that lets the last slot be used.
Mut_AddFull == count = Capacity

\* The guard of add_message_to_queue: the child exits inside the mutex.
AddFull == count = Capacity - 1

add_full(p) ==
  /\ Live(p) /\ pc[p] = "add"
  /\ AddFull
  /\ dead' = dead \cup {p}
  /\ UNCHANGED <<semVars, queueVars, childVars, doomed, reaped, mainVars>>

\* The wrap, the copy into the ring and head++ ...
add_store(p) ==
  /\ ~AddFull
  /\ Goto(p, "add", "add_count")
  /\ buffer' = [buffer EXCEPT ![Wrapped(head)] = msg[p]]
  /\ head' = Wrapped(head) + 1
  /\ UNCHANGED <<semVars, tail, count, added, extracted, msg, lifeVars, mainVars>>

\* ... then the two counters.
add_count(p) ==
  /\ Goto(p, "add_count", "p_unlock")
  /\ count' = count + 1
  /\ added' = added + 1
  /\ UNCHANGED <<semVars, buffer, head, tail, extracted, msg, lifeVars, mainVars>>

ProducerUnlock(p) ==
  /\ Goto(p, "p_unlock", "post_filled")
  /\ semaphore_signal(mutex)
  /\ UNCHANGED <<empty, filled, queueVars, msg, lifeVars, mainVars>>

\* Mutation: the message is added but not announced.
Mut_PostFilled(p) ==
  /\ Goto(p, "post_filled", "generate")
  /\ msg' = [msg EXCEPT ![p] = NoMessage]
  /\ UNCHANGED <<semVars, queueVars, lifeVars, mainVars>>

\* The post, the report, sleep(5), and the memset that starts the next round.
PostFilled(p) ==
  /\ Goto(p, "post_filled", "generate")
  /\ semaphore_signal(filled)
  /\ msg' = [msg EXCEPT ![p] = NoMessage]
  /\ UNCHANGED <<mutex, empty, queueVars, lifeVars, mainVars>>

-----------------------------------------------------------------------------
(* The consumer's loop.                                                    *)

WaitFilled(c) ==
  /\ Goto(c, "wait_filled", "c_lock")
  /\ semaphore_wait(filled)
  /\ UNCHANGED <<mutex, empty, queueVars, msg, lifeVars, mainVars>>

\* Mutation: the consumer does not take the mutex.
Mut_ConsumerLock(c) ==
  /\ Goto(c, "c_lock", "get")
  /\ UNCHANGED <<semVars, queueVars, msg, lifeVars, mainVars>>

ConsumerLock(c) ==
  /\ Goto(c, "c_lock", "get")
  /\ semaphore_wait(mutex)
  /\ UNCHANGED <<empty, filled, queueVars, msg, lifeVars, mainVars>>

\* Mutation: the read index is not advanced.
Mut_get_copy(c) ==
  /\ Goto(c, "get", "get_count")
  /\ msg' = [msg EXCEPT ![c] = buffer[Wrapped(tail)]]
  /\ UNCHANGED <<semVars, queueVars, lifeVars, mainVars>>

\* An empty queue would make the child exit inside the mutex; otherwise the
\* wrap, the copy out of the ring and tail++ ...
get_copy(c) ==
  /\ IF count = 0
     THEN /\ Live(c) /\ pc[c] = "get"
          /\ dead' = dead \cup {c}
          /\ UNCHANGED <<tail, childVars>>
     ELSE /\ Goto(c, "get", "get_count")
          /\ msg' = [msg EXCEPT ![c] = buffer[Wrapped(tail)]]
          /\ tail' = Wrapped(tail) + 1
          /\ UNCHANGED dead
  /\ UNCHANGED <<semVars, buffer, head, count, added, extracted, doomed, reaped, mainVars>>

\* Mutation: the total is forgotten.
Mut_get_count(c) ==
  /\ Goto(c, "get_count", "c_unlock")
  /\ count' = count - 1
  /\ UNCHANGED <<semVars, buffer, head, tail, added, extracted, msg, lifeVars, mainVars>>

\* ... then the two counters.
get_count(c) ==
  /\ Goto(c, "get_count", "c_unlock")
  /\ count' = count - 1
  /\ extracted' = extracted + 1
  /\ UNCHANGED <<semVars, buffer, head, tail, added, msg, lifeVars, mainVars>>

ConsumerUnlock(c) ==
  /\ Goto(c, "c_unlock", "post_empty")
  /\ semaphore_signal(mutex)
  /\ UNCHANGED <<empty, filled, queueVars, msg, lifeVars, mainVars>>

\* Mutation: the wrong semaphore of the set.
Mut_PostEmpty(c) ==
  /\ Goto(c, "post_empty", "verify")
  /\ semaphore_signal(filled)
  /\ UNCHANGED <<mutex, empty, queueVars, msg, lifeVars, mainVars>>

PostEmpty(c) ==
  /\ Goto(c, "post_empty", "verify")
  /\ semaphore_signal(empty)
  /\ UNCHANGED <<mutex, filled, queueVars, msg, lifeVars, mainVars>>

\* The checksum, the report, sleep(5), and the memset of the next round.
process_and_verify_message(c) ==
  /\ Goto(c, "verify", "wait_filled")
  /\ msg' = [msg EXCEPT ![c] = NoMessage]
  /\ UNCHANGED <<semVars, queueVars, lifeVars, mainVars>>

\* A blocked semop fails (EINTR after stop and continue) and the child exits.
SemopFails(c) ==
  /\ "semop" \in Faults
  /\ Live(c)
  /\ pc[c] \in {"wait_empty", "p_lock", "wait_filled", "c_lock"}
  /\ dead' = dead \cup {c}
  /\ UNCHANGED <<semVars, queueVars, childVars, doomed, reaped, mainVars>>

\* SIGKILL takes effect; the child keeps its place, as the shared state does.
Die(c) ==
  /\ c \in doomed \ dead
  /\ dead' = dead \cup {c}
  /\ UNCHANGED <<semVars, queueVars, childVars, doomed, reaped, mainVars>>

-----------------------------------------------------------------------------
(* The main process: one key at a time.                                    *)

Press(key, to) ==
  /\ key \in Keys
  /\ main = "menu"
  /\ main' = to

spawn_producer_process ==
  /\ Press("P", "menu")
  /\ Len(producer_pids) < MaxChildren - 1
  /\ \E p \in Producers :
       /\ pc[p] = "unborn"
       /\ pc' = [pc EXCEPT ![p] = "generate"]
       /\ producer_pids' = Append(producer_pids, p)
  /\ UNCHANGED <<semVars, queueVars, msg, lifeVars, consumer_pids>>

spawn_consumer_process ==
  /\ Press("C", "menu")
  /\ Len(consumer_pids) < MaxChildren - 1
  /\ \E c \in Consumers :
       /\ pc[c] = "unborn"
       /\ pc' = [pc EXCEPT ![c] = "wait_filled"]
       /\ consumer_pids' = Append(consumer_pids, c)
  /\ UNCHANGED <<semVars, queueVars, msg, lifeVars, producer_pids>>

\* fork returned -1: main exits at once and leaves everything behind.
ForkFails ==
  /\ "fork" \in Faults
  /\ \/ Press("P", "exited") /\ Len(producer_pids) < MaxChildren - 1
     \/ Press("C", "exited") /\ Len(consumer_pids) < MaxChildren - 1
  /\ UNCHANGED <<semVars, queueVars, childVars, lifeVars, producer_pids, consumer_pids>>

\* Mutation: wait without kill.
Mut_Kill(c) == doomed' = doomed

\* kill of a child that was already reaped reaches nobody (ESRCH).
Kill(c) == doomed' = IF c \in reaped THEN doomed ELSE doomed \cup {c}

Last(s) == s[Len(s)]
ButLast(s) == SubSeq(s, 1, Len(s) - 1)

terminate_last_producer ==
  /\ Press("p", "wait")
  /\ producer_pids # <<>>
  /\ Kill(Last(producer_pids))
  /\ producer_pids' = ButLast(producer_pids)
  /\ UNCHANGED <<semVars, queueVars, childVars, dead, reaped, consumer_pids>>

terminate_last_consumer ==
  /\ Press("c", "wait")
  /\ consumer_pids # <<>>
  /\ Kill(Last(consumer_pids))
  /\ consumer_pids' = ButLast(consumer_pids)
  /\ UNCHANGED <<semVars, queueVars, childVars, dead, reaped, producer_pids>>

\* wait(NULL) collects any one child that is gone, not the one just killed.
Zombies == dead \ reaped

Reap(from, to) ==
  /\ main = from
  /\ \E z \in Zombies : reaped' = reaped \cup {z}
  /\ main' = to
  /\ UNCHANGED <<semVars, queueVars, childVars, doomed, dead, producer_pids, consumer_pids>>

WaitChild == Reap("wait", "menu")

display_current_status ==
  /\ Press("s", "status")
  /\ UNCHANGED <<semVars, queueVars, childVars, lifeVars, producer_pids, consumer_pids>>

StatusLock ==
  /\ main = "status" /\ main' = "report"
  /\ semaphore_wait(mutex)
  /\ UNCHANGED <<empty, filled, queueVars, childVars, lifeVars, producer_pids, consumer_pids>>

\* Mutation: the report keeps the mutex.
Mut_StatusUnlock ==
  /\ main = "report" /\ main' = "menu"
  /\ UNCHANGED <<semVars, queueVars, childVars, lifeVars, producer_pids, consumer_pids>>

StatusUnlock ==
  /\ main = "report" /\ main' = "menu"
  /\ semaphore_signal(mutex)
  /\ UNCHANGED <<empty, filled, queueVars, childVars, lifeVars, producer_pids, consumer_pids>>

StatusFails ==
  /\ "semop" \in Faults
  /\ main = "status" /\ main' = "exited"
  /\ UNCHANGED <<semVars, queueVars, childVars, lifeVars, producer_pids, consumer_pids>>

Quit ==
  /\ Press("q", "cleanup")
  /\ UNCHANGED <<semVars, queueVars, childVars, lifeVars, producer_pids, consumer_pids>>

\* system_cleanup: kill and wait, producers then consumers, oldest first.
\* The lists are consumed here; nothing reads them afterwards.
CleanupKill ==
  /\ main = "cleanup" /\ main' = "cleanup_wait"
  /\ \/ /\ producer_pids # <<>>
        /\ Kill(producer_pids[1])
        /\ producer_pids' = Tail(producer_pids)
        /\ UNCHANGED consumer_pids
     \/ /\ producer_pids = <<>> /\ consumer_pids # <<>>
        /\ Kill(consumer_pids[1])
        /\ consumer_pids' = Tail(consumer_pids)
        /\ UNCHANGED producer_pids
  /\ UNCHANGED <<semVars, queueVars, childVars, dead, reaped>>

CleanupWait == Reap("cleanup_wait", "cleanup")

\* Mutation: cleanup forgets the consumers.
Mut_CleanupRemove ==
  /\ main = "cleanup" /\ main' = "removed"
  /\ producer_pids = <<>>
  /\ UNCHANGED <<semVars, queueVars, childVars, lifeVars, producer_pids, consumer_pids>>

\* IPC_RMID of the segment and of the semaphore set, then exit.
CleanupRemove ==
  /\ main = "cleanup" /\ main' = "removed"
  /\ producer_pids = <<>> /\ consumer_pids = <<>>
  /\ UNCHANGED <<semVars, queueVars, childVars, lifeVars, producer_pids, consumer_pids>>

-----------------------------------------------------------------------------
Producer(p) ==
  \/ generate_and_fill_message(p) \/ WaitEmpty(p) \/ ProducerLock(p)
  \/ add_full(p) \/ add_store(p) \/ add_count(p)
  \/ ProducerUnlock(p) \/ PostFilled(p)

Consumer(c) ==
  \/ WaitFilled(c) \/ ConsumerLock(c)
  \/ get_copy(c) \/ get_count(c)
  \/ ConsumerUnlock(c) \/ PostEmpty(c) \/ process_and_verify_message(c)

\* What main does without waiting for a key.
MainProceeds ==
  \/ WaitChild \/ StatusLock \/ StatusUnlock
  \/ CleanupKill \/ CleanupWait \/ CleanupRemove

Main ==
  \/ spawn_producer_process \/ spawn_consumer_process \/ ForkFails
  \/ terminate_last_producer \/ terminate_last_consumer
  \/ display_current_status \/ StatusFails \/ Quit
  \/ MainProceeds

Next ==
  \/ Main
  \/ \E p \in Producers : Producer(p)
  \/ \E c \in Consumers : Consumer(c)
  \/ \E c \in Children : SemopFails(c) \/ Die(c)

Spec == Init /\ [][Next]_vars

\* The kernel runs every runnable process and serves semaphore waiters in
\* turn: strong fairness for the waits, weak fairness for everything else.
Fairness ==
  /\ SF_vars(MainProceeds)
  /\ \A p \in Producers : SF_vars(Producer(p))
  /\ \A c \in Consumers : SF_vars(Consumer(c))
  /\ \A c \in Children : WF_vars(Die(c))

FairSpec == Spec /\ Fairness
-----------------------------------------------------------------------------
(* Properties.                                                             *)

Places ==
  {"unborn", "generate", "wait_empty", "p_lock", "add", "add_count", "p_unlock",
   "post_filled", "wait_filled", "c_lock", "get", "get_count", "c_unlock",
   "post_empty", "verify"}

TypeOK ==
  /\ mutex \in {0, 1} /\ empty \in 0 .. Capacity /\ filled \in 0 .. Capacity
  /\ buffer \in [0 .. Capacity - 1 -> Message \cup {NoMessage}]
  /\ head \in 0 .. Capacity /\ tail \in 0 .. Capacity
  /\ count \in 0 .. Capacity - 1
  /\ added \in Nat /\ extracted \in Nat
  /\ pc \in [Children -> Places]
  /\ msg \in [Children -> Message \cup {NoMessage}]
  /\ doomed \subseteq Children /\ dead \subseteq Children /\ reaped \subseteq dead
  /\ main \in {"menu", "wait", "status", "report", "cleanup", "cleanup_wait",
               "removed", "exited"}
  /\ producer_pids \in Seq(Producers) /\ consumer_pids \in Seq(Consumers)

\* Between semaphore_wait and semaphore_signal of QUEUE_MUTEX_IDX, running or
\* killed there.
Inside(c) ==
  pc[c] \in {"add", "add_count", "p_unlock", "get", "get_count", "c_unlock"}

\* The ring is never in two hands: at most one child is between taking and
\* giving back the mutex, none is while main prints the status, and the
\* semaphore is 0 as long as someone is, even if that one was killed there.
MutualExclusion ==
  /\ \A c, d \in Children : Inside(c) /\ Inside(d) => c = d
  /\ (mutex = 0) <=> (main = "report" \/ \E c \in Children : Inside(c))
  /\ main = "report" => \A c \in Children : ~Inside(c)

\* head is ahead of tail by count, in a ring whose indices wrap lazily.
RingIndices == head = tail + count \/ head + Capacity = tail + count

\* Whoever gets the mutex, or reads the counters for the status report, finds
\* a whole ring: a child killed in the middle of an operation left it torn
\* only behind a mutex that nobody will ever get again.
UnlockedRingIsWhole ==
  (mutex = 1 \/ main = "report") => RingIndices /\ added = extracted + count

\* get_message_from_queue never finds the queue empty and so never exits:
\* a post of filled_slots always stands for a message that is in the ring,
\* whatever children are killed and wherever.
ConsumerNeverFindsEmpty ==
  \A c \in Consumers : pc[c] = "get" => count # 0

\* The children that hold a unit of a semaphore, or owe one.
HoldEmpty  == {p \in Producers : pc[p] \in {"p_lock", "add", "add_count"}}
OweFilled  == {p \in Producers : pc[p] \in {"p_unlock", "post_filled"}}
HoldFilled == {c \in Consumers : pc[c] \in {"c_lock", "get", "get_count"}}
OweEmpty   == {c \in Consumers : pc[c] \in {"c_unlock", "post_empty"}}

\* No slot and no message is ever counted twice: every slot is free, held,
\* occupied or owed, every message is announced, about to be, or claimed.  A
\* kill can lose a unit for ever (its holder is dead) but never makes one.
SlotsAccounted ==
  /\ Capacity = empty + count + Cardinality(HoldEmpty) + Cardinality(OweEmpty)
  /\ count = filled + Cardinality(OweFilled) + Cardinality(HoldFilled)

\* The queue is a FIFO buffer of Capacity - 1 messages: a message enters when
\* the count is raised and leaves when it is copied out, in order, once.
Contents ==
  LET n == IF \E c \in Consumers : pc[c] = "get_count" THEN count - 1 ELSE count
  IN  [i \in 1 .. n |-> buffer[(tail + i - 1) % Capacity]]

Fifo == INSTANCE FifoBuffer WITH
  Writers <- Producers, Readers <- Consumers,
  items   <- Contents,
  bound   <- Capacity - 1,
  offered <- [p \in Producers |->
                IF pc[p] \in {"wait_empty", "p_lock", "add", "add_count"}
                THEN msg[p] ELSE NoMessage],
  taken   <- [c \in Consumers |-> msg[c]]

ImplementsFifo == Fifo!Spec

\* wait(NULL) may collect another child than the one just killed (one that
\* exited by itself), yet it never waits for a child that will not come.
WaitNeverBlocks ==
  main \in {"wait", "cleanup_wait"} => Zombies # {} \/ doomed \ dead # {}

\* When the segment and the semaphores are removed, every child ever forked
\* is gone and collected, the ones that exited by themselves included.
RemovedMeansAllReaped ==
  main = "removed" => {c \in Children : pc[c] # "unborn"} \subseteq reaped

\* 'q' always gets to IPC_RMID and exit, whatever was killed before and even
\* when the mutex is lost: cleanup takes no semaphore.
QuitCompletes == main = "cleanup" ~> main = "removed"

\* The mutex went with a child that was killed, or exited, inside the ring.
MutexLost == \E c \in dead : Inside(c)

\* 's' gets the mutex, prints the status and returns to the menu however many
\* children compete for the mutex, unless the mutex is lost.
StatusReturns == main = "status" ~> main # "status" \/ MutexLost

\* The keys that wait for others come back: 'q' always, 's' unless the mutex is lost.
KeysServed == QuitCompletes /\ StatusReturns

\* A message that was added is extracted as long as some consumer runs: it is
\* announced, and the consumers do not starve, unless a child was lost.
EveryMessageExtracted ==
  \A n \in 1 .. MaxAdded :
    added >= n /\ consumer_pids # <<>> ~> extracted >= n \/ doomed \cup dead # {}

\* A producer that got an empty slot finds room in the ring.
EmptySlotMeansRoom == \A p \in Producers : pc[p] = "add" => ~AddFull
=============================================================================
