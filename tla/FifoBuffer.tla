----------------------------- MODULE FifoBuffer -----------------------------
(***************************************************************************)
(* What a producer-consumer queue of this repository promises, whichever   *)
(* way it is synchronised: a writer offers one message at a time, an       *)
(* offered message enters the queue at most once and in one piece, the     *)
(* queue never holds more than its bound, a reader takes the oldest        *)
(* message and no other reader ever gets that message again, and a         *)
(* bound only changes to one that still holds every queued message.        *)
(*                                                                         *)
(* ShmQueue (processes, System V semaphores), CondQueue (threads,          *)
(* condition variables) and SemQueue (threads, POSIX semaphores) are each  *)
(* checked to implement Spec under a refinement mapping.                   *)
(***************************************************************************)
EXTENDS Naturals, Sequences

CONSTANTS Writers, Readers, Message, NoMessage

VARIABLES
  items,    \* the queued messages, oldest first
  bound,    \* how many messages the queue may hold
  offered,  \* offered[w]: the message writer w is trying to add
  taken     \* taken[r]: the message reader r took and still works on

vars == <<items, bound, offered, taken>>

Init ==
  /\ items = <<>>
  /\ bound \in Nat
  /\ offered \in [Writers -> Message \cup {NoMessage}]
  /\ taken = [r \in Readers |-> NoMessage]

\* The queue is only ever resized to hold what is in it.
BoundHolds == bound' \in Nat /\ Len(items') <= bound'

\* A writer makes a message, or gives one up that never got in.
Offer(w) ==
  /\ offered[w] = NoMessage
  /\ \E m \in Message : offered' = [offered EXCEPT ![w] = m]
  /\ UNCHANGED <<items, bound, taken>>

Withdraw(w) ==
  /\ offered' = [offered EXCEPT ![w] = NoMessage]
  /\ UNCHANGED <<items, bound, taken>>

\* Having put its message the writer may have the next one at once.
Put(w) ==
  /\ offered[w] # NoMessage
  /\ Len(items) < bound
  /\ items' = Append(items, offered[w])
  /\ \E m \in Message \cup {NoMessage} : offered' = [offered EXCEPT ![w] = m]
  /\ UNCHANGED <<bound, taken>>

\* A reader that makes room may carry out a pending resize.
Get(r) ==
  /\ items # <<>>
  /\ taken[r] = NoMessage
  /\ taken' = [taken EXCEPT ![r] = Head(items)]
  /\ items' = Tail(items)
  /\ BoundHolds
  /\ UNCHANGED offered

Finish(r) ==
  /\ taken' = [taken EXCEPT ![r] = NoMessage]
  /\ UNCHANGED <<items, bound, offered>>

Resize ==
  /\ UNCHANGED <<items, offered, taken>>
  /\ BoundHolds

\* The queue is thrown away, with what nobody took.
Close ==
  /\ items' = <<>>
  /\ bound' = 0
  /\ UNCHANGED <<offered, taken>>

Next ==
  \/ \E w \in Writers : Offer(w) \/ Withdraw(w) \/ Put(w)
  \/ \E r \in Readers : Get(r) \/ Finish(r)
  \/ Resize \/ Close

Spec == Init /\ [][Next]_vars
=============================================================================
