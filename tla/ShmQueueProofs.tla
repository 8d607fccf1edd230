--------------------------- MODULE ShmQueueProofs ---------------------------
(***************************************************************************)
(* What is proved of ShmQueue for every number of children, every ring     *)
(* size, every set of keys and faults.                                     *)
(*                                                                         *)
(* None of the safety invariants is inductive by itself: the types of the  *)
(* semaphores need the slot accounting, the accounting needs the ring not  *)
(* to be full when count is raised, and that needs mutual exclusion.       *)
(* IInv is their conjunction with the shape of the ring at each of the     *)
(* steps of an operation.  Two more arguments rest on it: what main counts *)
(* on when it collects children, and the refinement of FifoBuffer.         *)
(***************************************************************************)
EXTENDS ShmQueue, FiniteSetTheorems, SequenceTheorems, TLAPS

\* Nobody is inside the ring between the two stores of an operation.
Settled == \A c \in Children : pc[c] \notin {"add_count", "get_count"}

\* RingIndices while head is d ahead of what count says.
Shifted(d) == head = tail + count + d \/ head + Capacity = tail + count + d

Totals == added = extracted + count

\* The ring at each step of an operation; a child killed there leaves it so.
RingSteps ==
  /\ Settled => Shifted(0)
  /\ \A c \in Children : pc[c] = "add_count" => Shifted(1) /\ count < Capacity - 1
  /\ \A c \in Children : pc[c] = "get_count" => Shifted(-1)
  /\ Totals

IInv == TypeOK /\ MutualExclusion /\ SlotsAccounted /\ RingSteps

-----------------------------------------------------------------------------
(* Counting.                                                               *)

Tally(S, f, A) == Cardinality({x \in S : f[x] \in A})

\* What process c of S adds to that tally at a place.
Unit(c, S, place, A) == IF c \in S /\ place \in A THEN 1 ELSE 0

\* How many members of S are at a place in A, after one process has moved.
LEMMA TallyMove ==
  ASSUME NEW S \in SUBSET Children, IsFiniteSet(S),
         NEW f, NEW g, NEW v, NEW A, NEW c \in Children,
         \A x \in Children : g[x] = IF x = c THEN v ELSE f[x]
  PROVE  Tally(S, g, A) = Tally(S, f, A) + Unit(c, S, v, A) - Unit(c, S, f[c], A)
<1> DEFINE F == {x \in S : f[x] \in A}
           G == {x \in S : g[x] \in A}
<1>1. IsFiniteSet(F) /\ Cardinality(F) \in Nat
  BY FS_Subset, FS_CardinalityType
<1>3. Tally(S, f, A) = Cardinality(F) /\ Tally(S, g, A) = Cardinality(G)
  BY DEF Tally
<1>4. CASE c \in S /\ v \in A
  <2>1. G = F \cup {c}
    BY <1>4
  <2>2. c \in F <=> f[c] \in A
    BY <1>4
  <2>3. Cardinality(G) = IF c \in F THEN Cardinality(F) ELSE Cardinality(F) + 1
    BY <1>1, <2>1, FS_AddElement
  <2> HIDE DEF F, G
  <2> QED
    BY <1>1, <1>3, <1>4, <2>2, <2>3 DEF Unit
<1>5. CASE c \in S /\ v \notin A
  <2>1. G = F \ {c}
    BY <1>5
  <2>2. c \in F <=> f[c] \in A
    BY <1>5
  <2>3. Cardinality(G) = IF c \in F THEN Cardinality(F) - 1 ELSE Cardinality(F)
    BY <1>1, <2>1, FS_RemoveElement
  <2> HIDE DEF F, G
  <2> QED
    BY <1>1, <1>3, <1>5, <2>2, <2>3 DEF Unit
<1>6. CASE c \notin S
  <2>1. G = F
    BY <1>6
  <2> HIDE DEF F, G
  <2> QED
    BY <1>1, <1>3, <1>6, <2>1 DEF Unit
<1> QED
  BY <1>4, <1>5, <1>6

-----------------------------------------------------------------------------
(* What a step of one child does to the slot accounting and to who is      *)
(* inside the ring.                                                        *)

Moves(c, from, to) == pc[c] = from /\ pc' = [pc EXCEPT ![c] = to]

\* The four tallies of SlotsAccounted are numbers.
LEMMA SlotTallies ==
  /\ Cardinality(HoldEmpty) \in Nat /\ Cardinality(OweFilled) \in Nat
  /\ Cardinality(HoldFilled) \in Nat /\ Cardinality(OweEmpty) \in Nat
<1>1. /\ HoldEmpty \subseteq Producers /\ OweFilled \subseteq Producers
      /\ HoldFilled \subseteq Consumers /\ OweEmpty \subseteq Consumers
  BY DEF HoldEmpty, OweFilled, HoldFilled, OweEmpty
<1> QED
  BY <1>1, ConstantsAssumption, FS_Subset, FS_CardinalityType DEF ConstantsAssumption

LEMMA SlotTalliesNext ==
  /\ Cardinality(HoldEmpty') \in Nat /\ Cardinality(OweFilled') \in Nat
  /\ Cardinality(HoldFilled') \in Nat /\ Cardinality(OweEmpty') \in Nat
<1>1. /\ HoldEmpty' \subseteq Producers /\ OweFilled' \subseteq Producers
      /\ HoldFilled' \subseteq Consumers /\ OweEmpty' \subseteq Consumers
  BY DEF HoldEmpty, OweFilled, HoldFilled, OweEmpty
<1> QED
  BY <1>1, ConstantsAssumption, FS_Subset, FS_CardinalityType DEF ConstantsAssumption

\* How one process that moves changes them.
LEMMA MoveTallies ==
  ASSUME TypeOK, NEW from, NEW to, NEW c \in Children, Moves(c, from, to)
  PROVE  /\ Cardinality(HoldEmpty') = Cardinality(HoldEmpty)
              + Unit(c, Producers, to, {"p_lock", "add", "add_count"})
              - Unit(c, Producers, from, {"p_lock", "add", "add_count"})
         /\ Cardinality(OweFilled') = Cardinality(OweFilled)
              + Unit(c, Producers, to, {"p_unlock", "post_filled"})
              - Unit(c, Producers, from, {"p_unlock", "post_filled"})
         /\ Cardinality(HoldFilled') = Cardinality(HoldFilled)
              + Unit(c, Consumers, to, {"c_lock", "get", "get_count"})
              - Unit(c, Consumers, from, {"c_lock", "get", "get_count"})
         /\ Cardinality(OweEmpty') = Cardinality(OweEmpty)
              + Unit(c, Consumers, to, {"c_unlock", "post_empty"})
              - Unit(c, Consumers, from, {"c_unlock", "post_empty"})
<1>1. pc \in [Children -> Places] /\ pc' = [pc EXCEPT ![c] = to] /\ pc[c] = from
  BY DEF TypeOK, Moves
<1>2. /\ IsFiniteSet(Producers) /\ Producers \in SUBSET Children
      /\ IsFiniteSet(Consumers) /\ Consumers \in SUBSET Children
  BY ConstantsAssumption DEF ConstantsAssumption, Children
<1>3. \A A : Tally(Producers, pc', A) = Tally(Producers, pc, A)
              + Unit(c, Producers, to, A) - Unit(c, Producers, from, A)
  <2> TAKE A
  <2>1. \A x \in Children : pc'[x] = IF x = c THEN to ELSE pc[x]
    BY <1>1
  <2>2. Tally(Producers, pc', A) = Tally(Producers, pc, A)
          + Unit(c, Producers, to, A) - Unit(c, Producers, pc[c], A)
    BY <1>2, <2>1, TallyMove
  <2> QED
    BY <1>1, <2>2
<1>4. \A A : Tally(Consumers, pc', A) = Tally(Consumers, pc, A)
              + Unit(c, Consumers, to, A) - Unit(c, Consumers, from, A)
  <2> TAKE A
  <2>1. \A x \in Children : pc'[x] = IF x = c THEN to ELSE pc[x]
    BY <1>1
  <2>2. Tally(Consumers, pc', A) = Tally(Consumers, pc, A)
          + Unit(c, Consumers, to, A) - Unit(c, Consumers, pc[c], A)
    BY <1>2, <2>1, TallyMove
  <2> QED
    BY <1>1, <2>2
<1>5. /\ Cardinality(HoldEmpty) = Tally(Producers, pc, {"p_lock", "add", "add_count"})
      /\ Cardinality(OweFilled) = Tally(Producers, pc, {"p_unlock", "post_filled"})
      /\ Cardinality(HoldFilled) = Tally(Consumers, pc, {"c_lock", "get", "get_count"})
      /\ Cardinality(OweEmpty) = Tally(Consumers, pc, {"c_unlock", "post_empty"})
  BY DEF Tally, HoldEmpty, OweFilled, HoldFilled, OweEmpty
<1>6. /\ Cardinality(HoldEmpty') = Tally(Producers, pc', {"p_lock", "add", "add_count"})
      /\ Cardinality(OweFilled') = Tally(Producers, pc', {"p_unlock", "post_filled"})
      /\ Cardinality(HoldFilled') = Tally(Consumers, pc', {"c_lock", "get", "get_count"})
      /\ Cardinality(OweEmpty') = Tally(Consumers, pc', {"c_unlock", "post_empty"})
  BY DEF Tally, HoldEmpty, OweFilled, HoldFilled, OweEmpty
<1>7. /\ Cardinality(HoldEmpty') = Cardinality(HoldEmpty)
              + Unit(c, Producers, to, {"p_lock", "add", "add_count"})
              - Unit(c, Producers, from, {"p_lock", "add", "add_count"})
      /\ Cardinality(OweFilled') = Cardinality(OweFilled)
              + Unit(c, Producers, to, {"p_unlock", "post_filled"})
              - Unit(c, Producers, from, {"p_unlock", "post_filled"})
  BY <1>3, <1>5, <1>6
<1>8. /\ Cardinality(HoldFilled') = Cardinality(HoldFilled)
              + Unit(c, Consumers, to, {"c_lock", "get", "get_count"})
              - Unit(c, Consumers, from, {"c_lock", "get", "get_count"})
      /\ Cardinality(OweEmpty') = Cardinality(OweEmpty)
              + Unit(c, Consumers, to, {"c_unlock", "post_empty"})
              - Unit(c, Consumers, from, {"c_unlock", "post_empty"})
  BY <1>4, <1>5, <1>6
<1> QED
  BY <1>7, <1>8

\* A ring operation in progress excludes every other one.
LEMMA InsideAlone ==
  ASSUME MutualExclusion, NEW c \in Children, Inside(c)
  PROVE  /\ mutex = 0 /\ main # "report"
         /\ \A d \in Children : Inside(d) => d = c
  BY DEF MutualExclusion

\* What the accounting bounds, read in the state after a step.
LEMMA PostInRange ==
  ASSUME SlotsAccounted', empty' \in Nat, filled' \in Nat, count' \in Int
  PROVE  empty' <= Capacity /\ filled' <= Capacity /\ count' >= 0
  BY SlotTalliesNext, ConstantsAssumption DEF ConstantsAssumption, SlotsAccounted

\* A child that stays inside, or outside, leaves mutual exclusion as it was.
LEMMA InsideMove ==
  ASSUME TypeOK, NEW from, NEW to, NEW c \in Children, Moves(c, from, to)
  PROVE  \A d \in Children : Inside(d)' <=>
           IF d = c THEN to \in {"add", "add_count", "p_unlock", "get", "get_count", "c_unlock"}
           ELSE Inside(d)
  BY DEF TypeOK, Moves, Inside

\* system_init and initialize_queue establish the invariant.
THEOREM InitInv == Init => IInv
<1> SUFFICES ASSUME Init PROVE IInv
  OBVIOUS
<1>1. TypeOK
  BY ConstantsAssumption DEF Init, TypeOK, ConstantsAssumption, Places
<1>2. MutualExclusion
  BY DEF Init, MutualExclusion, Inside
<1>3. SlotsAccounted
  <2>1. HoldEmpty = {} /\ OweFilled = {} /\ HoldFilled = {} /\ OweEmpty = {}
    BY DEF Init, HoldEmpty, OweFilled, HoldFilled, OweEmpty, Children
  <2> QED
    BY <2>1, FS_EmptySet, ConstantsAssumption DEF Init, SlotsAccounted, ConstantsAssumption
<1>4. RingSteps
  BY ConstantsAssumption DEF Init, RingSteps, Settled, Shifted, Totals, ConstantsAssumption
<1> QED
  BY <1>1, <1>2, <1>3, <1>4 DEF IInv

-----------------------------------------------------------------------------
(* One lemma per step of a child: the accounting after the step, the types *)
(* it disturbs, who is inside, and the shape of the ring.                  *)

LEMMA generate_and_fill_messageInv ==
  ASSUME IInv, NEW p \in Producers, generate_and_fill_message(p) PROVE IInv'
<1>1. /\ p \in Children /\ p \notin Consumers /\ Moves(p, "generate", "wait_empty")
      /\ TypeOK /\ MutualExclusion /\ SlotsAccounted /\ RingSteps
  BY ConstantsAssumption DEF IInv, generate_and_fill_message, Goto, Moves, Children, ConstantsAssumption
<1>2. SlotsAccounted'
  <2>1. /\ Cardinality(HoldEmpty') = Cardinality(HoldEmpty)
        /\ Cardinality(OweFilled') = Cardinality(OweFilled)
        /\ Cardinality(HoldFilled') = Cardinality(HoldFilled)
        /\ Cardinality(OweEmpty') = Cardinality(OweEmpty)
    BY <1>1, MoveTallies, SlotTallies DEF Unit
  <2>2. empty' = empty /\ filled' = filled /\ count' = count
    BY <1>1 DEF generate_and_fill_message, queueVars, semVars
  <2>3. empty \in Int /\ filled \in Int /\ count \in Int /\ Capacity \in Int
    BY <1>1, ConstantsAssumption DEF TypeOK, ConstantsAssumption
  <2> QED
    BY <1>1, <2>1, <2>2, <2>3, SlotTallies DEF SlotsAccounted
<1>3. TypeOK'
  <2>1. msg' \in [Children -> Message \cup {NoMessage}]
    BY <1>1 DEF TypeOK, generate_and_fill_message
  <2>2. pc' \in [Children -> Places]
    BY <1>1 DEF TypeOK, Moves, Places
  <2> QED
    BY <2>1, <2>2, <1>1 DEF TypeOK, generate_and_fill_message, semVars, queueVars, lifeVars, mainVars
<1>4. MutualExclusion'
  BY <1>1, InsideMove DEF MutualExclusion, Inside, Moves, generate_and_fill_message, semVars, lifeVars, mainVars
<1>5. RingSteps'
  BY <1>1 DEF RingSteps, Settled, Shifted, Totals, Moves, generate_and_fill_message, queueVars, TypeOK
<1> QED
  BY <1>2, <1>3, <1>4, <1>5 DEF IInv

LEMMA WaitEmptyInv ==
  ASSUME IInv, NEW p \in Producers, WaitEmpty(p) PROVE IInv'
<1>1. /\ p \in Children /\ p \notin Consumers /\ Moves(p, "wait_empty", "p_lock")
      /\ TypeOK /\ MutualExclusion /\ SlotsAccounted /\ RingSteps
  BY ConstantsAssumption DEF IInv, WaitEmpty, Goto, Moves, Children, ConstantsAssumption
<1>2. SlotsAccounted'
  <2>1. /\ Cardinality(HoldEmpty') = Cardinality(HoldEmpty) + 1
        /\ Cardinality(OweFilled') = Cardinality(OweFilled)
        /\ Cardinality(HoldFilled') = Cardinality(HoldFilled)
        /\ Cardinality(OweEmpty') = Cardinality(OweEmpty)
    BY <1>1, MoveTallies, SlotTallies DEF Unit
  <2>2. empty' = empty - 1 /\ filled' = filled /\ count' = count
    BY <1>1 DEF WaitEmpty, queueVars, semaphore_wait
  <2>3. empty \in Int /\ filled \in Int /\ count \in Int /\ Capacity \in Int
    BY <1>1, ConstantsAssumption DEF TypeOK, ConstantsAssumption
  <2> QED
    BY <1>1, <2>1, <2>2, <2>3, SlotTallies DEF SlotsAccounted
<1>3. TypeOK'
  <2>1. empty' \in 0 .. Capacity
    BY <1>1, ConstantsAssumption DEF TypeOK, WaitEmpty, semaphore_wait, ConstantsAssumption
  <2>2. pc' \in [Children -> Places]
    BY <1>1 DEF TypeOK, Moves, Places
  <2> QED
    BY <2>1, <2>2, <1>1 DEF TypeOK, WaitEmpty, queueVars, lifeVars, mainVars
<1>4. MutualExclusion'
  BY <1>1, InsideMove DEF MutualExclusion, Inside, Moves, WaitEmpty, lifeVars, mainVars
<1>5. RingSteps'
  BY <1>1 DEF RingSteps, Settled, Shifted, Totals, Moves, WaitEmpty, queueVars, TypeOK
<1> QED
  BY <1>2, <1>3, <1>4, <1>5 DEF IInv

LEMMA ProducerLockInv ==
  ASSUME IInv, NEW p \in Producers, ProducerLock(p) PROVE IInv'
<1>1. /\ p \in Children /\ p \notin Consumers /\ Moves(p, "p_lock", "add")
      /\ TypeOK /\ MutualExclusion /\ SlotsAccounted /\ RingSteps
  BY ConstantsAssumption DEF IInv, ProducerLock, Goto, Moves, Children, ConstantsAssumption
<1>2. SlotsAccounted'
  <2>1. /\ Cardinality(HoldEmpty') = Cardinality(HoldEmpty)
        /\ Cardinality(OweFilled') = Cardinality(OweFilled)
        /\ Cardinality(HoldFilled') = Cardinality(HoldFilled)
        /\ Cardinality(OweEmpty') = Cardinality(OweEmpty)
    BY <1>1, MoveTallies, SlotTallies DEF Unit
  <2>2. empty' = empty /\ filled' = filled /\ count' = count
    BY <1>1 DEF ProducerLock, queueVars, semaphore_wait
  <2>3. empty \in Int /\ filled \in Int /\ count \in Int /\ Capacity \in Int
    BY <1>1, ConstantsAssumption DEF TypeOK, ConstantsAssumption
  <2> QED
    BY <1>1, <2>1, <2>2, <2>3, SlotTallies DEF SlotsAccounted
<1>3. TypeOK'
  <2>1. mutex' \in {0, 1}
    BY <1>1, InsideAlone DEF TypeOK, ProducerLock, Moves, Inside, semaphore_wait
  <2>2. pc' \in [Children -> Places]
    BY <1>1 DEF TypeOK, Moves, Places
  <2> QED
    BY <2>1, <2>2, <1>1 DEF TypeOK, ProducerLock, queueVars, lifeVars, mainVars
<1>4. MutualExclusion'
  <2>1. main # "report" /\ \A d \in Children : ~Inside(d)
    BY <1>1 DEF MutualExclusion, ProducerLock, semaphore_wait, TypeOK
  <2>2. \A d \in Children : Inside(d)' <=> d = p
    BY <1>1, <2>1, InsideMove
  <2>3. mutex' = 0 /\ main' = main
    BY <1>1 DEF ProducerLock, semaphore_wait, TypeOK, mainVars
  <2> QED
    BY <1>1, <2>1, <2>2, <2>3 DEF MutualExclusion
<1>5. RingSteps'
  BY <1>1 DEF RingSteps, Settled, Shifted, Totals, Moves, ProducerLock, queueVars, TypeOK
<1> QED
  BY <1>2, <1>3, <1>4, <1>5 DEF IInv

LEMMA add_storeInv ==
  ASSUME IInv, NEW p \in Producers, add_store(p) PROVE IInv'
<1>1. /\ p \in Children /\ p \notin Consumers /\ Moves(p, "add", "add_count")
      /\ TypeOK /\ MutualExclusion /\ SlotsAccounted /\ RingSteps
  BY ConstantsAssumption DEF IInv, add_store, Goto, Moves, Children, ConstantsAssumption
<1>2. SlotsAccounted'
  <2>1. /\ Cardinality(HoldEmpty') = Cardinality(HoldEmpty)
        /\ Cardinality(OweFilled') = Cardinality(OweFilled)
        /\ Cardinality(HoldFilled') = Cardinality(HoldFilled)
        /\ Cardinality(OweEmpty') = Cardinality(OweEmpty)
    BY <1>1, MoveTallies, SlotTallies DEF Unit
  <2>2. empty' = empty /\ filled' = filled /\ count' = count
    BY <1>1 DEF add_store, semVars
  <2>3. empty \in Int /\ filled \in Int /\ count \in Int /\ Capacity \in Int
    BY <1>1, ConstantsAssumption DEF TypeOK, ConstantsAssumption
  <2> QED
    BY <1>1, <2>1, <2>2, <2>3, SlotTallies DEF SlotsAccounted
<1>3. TypeOK'
  <2>1. buffer' \in [0 .. Capacity - 1 -> Message \cup {NoMessage}]
    BY <1>1, ConstantsAssumption DEF TypeOK, add_store, AddFull, Wrapped, Moves, ConstantsAssumption
  <2>2. head' \in 0 .. Capacity
    BY <1>1, ConstantsAssumption DEF TypeOK, add_store, AddFull, Wrapped, Moves, ConstantsAssumption
  <2>3. pc' \in [Children -> Places]
    BY <1>1 DEF TypeOK, Moves, Places
  <2> QED
    BY <2>1, <2>2, <2>3, <1>1 DEF TypeOK, add_store, semVars, lifeVars, mainVars
<1>4. MutualExclusion'
  BY <1>1, InsideMove DEF MutualExclusion, Inside, Moves, add_store, semVars, lifeVars, mainVars
<1>5. RingSteps'
  <2>1. Inside(p) /\ pc[p] = "add"
    BY <1>1 DEF Moves, Inside
  <2>2. \A d \in Children : pc[d] \notin {"add_count", "get_count"}
    BY <2>1, <1>1, InsideAlone DEF Inside
  <2>3. Shifted(0) /\ Totals
    BY <1>1, <2>2 DEF RingSteps, Settled
  <2>4. \A d \in Children : pc'[d] = IF d = p THEN "add_count" ELSE pc[d]
    BY <1>1 DEF Moves, TypeOK
  <2>5. Shifted(1)' /\ Totals' /\ count' < Capacity - 1
    BY <1>1, <2>3, ConstantsAssumption DEF Shifted, Totals, add_store, AddFull, Wrapped, TypeOK, ConstantsAssumption
  <2> QED
    BY <1>1, <2>2, <2>4, <2>5 DEF RingSteps, Settled
<1> QED
  BY <1>2, <1>3, <1>4, <1>5 DEF IInv

LEMMA add_countInv ==
  ASSUME IInv, NEW p \in Producers, add_count(p) PROVE IInv'
<1>1. /\ p \in Children /\ p \notin Consumers /\ Moves(p, "add_count", "p_unlock")
      /\ TypeOK /\ MutualExclusion /\ SlotsAccounted /\ RingSteps
  BY ConstantsAssumption DEF IInv, add_count, Goto, Moves, Children, ConstantsAssumption
<1>2. SlotsAccounted'
  <2>1. /\ Cardinality(HoldEmpty') = Cardinality(HoldEmpty) - 1
        /\ Cardinality(OweFilled') = Cardinality(OweFilled) + 1
        /\ Cardinality(HoldFilled') = Cardinality(HoldFilled)
        /\ Cardinality(OweEmpty') = Cardinality(OweEmpty)
    BY <1>1, MoveTallies, SlotTallies DEF Unit
  <2>2. empty' = empty /\ filled' = filled /\ count' = count + 1
    BY <1>1 DEF add_count, semVars
  <2>3. empty \in Int /\ filled \in Int /\ count \in Int /\ Capacity \in Int
    BY <1>1, ConstantsAssumption DEF TypeOK, ConstantsAssumption
  <2> QED
    BY <1>1, <2>1, <2>2, <2>3, SlotTallies DEF SlotsAccounted
<1>3. TypeOK'
  <2>1. count' \in 0 .. Capacity - 1 /\ added' \in Nat
    BY <1>1, ConstantsAssumption DEF TypeOK, add_count, Moves, RingSteps, ConstantsAssumption
  <2>2. pc' \in [Children -> Places]
    BY <1>1 DEF TypeOK, Moves, Places
  <2> QED
    BY <2>1, <2>2, <1>1 DEF TypeOK, add_count, semVars, lifeVars, mainVars
<1>4. MutualExclusion'
  BY <1>1, InsideMove DEF MutualExclusion, Inside, Moves, add_count, semVars, lifeVars, mainVars
<1>5. RingSteps'
  <2>1. Inside(p) /\ pc[p] = "add_count"
    BY <1>1 DEF Moves, Inside
  <2>2. \A d \in Children : pc'[d] \notin {"add_count", "get_count"}
    BY <2>1, <1>1, InsideAlone DEF Inside, Moves, TypeOK
  <2>3. Shifted(1) /\ Totals
    BY <1>1, <2>1 DEF RingSteps
  <2>4. Shifted(0)' /\ Totals'
    BY <1>1, <2>3, ConstantsAssumption DEF Shifted, Totals, add_count, TypeOK, ConstantsAssumption
  <2> QED
    BY <2>2, <2>4 DEF RingSteps, Settled
<1> QED
  BY <1>2, <1>3, <1>4, <1>5 DEF IInv

LEMMA ProducerUnlockInv ==
  ASSUME IInv, NEW p \in Producers, ProducerUnlock(p) PROVE IInv'
<1>1. /\ p \in Children /\ p \notin Consumers /\ Moves(p, "p_unlock", "post_filled")
      /\ TypeOK /\ MutualExclusion /\ SlotsAccounted /\ RingSteps
  BY ConstantsAssumption DEF IInv, ProducerUnlock, Goto, Moves, Children, ConstantsAssumption
<1>2. SlotsAccounted'
  <2>1. /\ Cardinality(HoldEmpty') = Cardinality(HoldEmpty)
        /\ Cardinality(OweFilled') = Cardinality(OweFilled)
        /\ Cardinality(HoldFilled') = Cardinality(HoldFilled)
        /\ Cardinality(OweEmpty') = Cardinality(OweEmpty)
    BY <1>1, MoveTallies, SlotTallies DEF Unit
  <2>2. empty' = empty /\ filled' = filled /\ count' = count
    BY <1>1 DEF ProducerUnlock, queueVars, semaphore_signal
  <2>3. empty \in Int /\ filled \in Int /\ count \in Int /\ Capacity \in Int
    BY <1>1, ConstantsAssumption DEF TypeOK, ConstantsAssumption
  <2> QED
    BY <1>1, <2>1, <2>2, <2>3, SlotTallies DEF SlotsAccounted
<1>3. TypeOK'
  <2>1. mutex' \in {0, 1}
    BY <1>1, InsideAlone DEF TypeOK, ProducerUnlock, Moves, Inside, semaphore_signal
  <2>2. pc' \in [Children -> Places]
    BY <1>1 DEF TypeOK, Moves, Places
  <2> QED
    BY <2>1, <2>2, <1>1 DEF TypeOK, ProducerUnlock, queueVars, lifeVars, mainVars
<1>4. MutualExclusion'
  <2>1. Inside(p)
    BY <1>1 DEF Inside, Moves
  <2>2. mutex = 0 /\ main # "report" /\ \A d \in Children : Inside(d) => d = p
    BY <1>1, <2>1, InsideAlone
  <2>3. \A d \in Children : ~Inside(d)'
    BY <1>1, <2>2, InsideMove
  <2>4. mutex' = 1 /\ main' = main
    BY <2>2 DEF ProducerUnlock, semaphore_signal, mainVars
  <2> QED
    BY <2>2, <2>3, <2>4 DEF MutualExclusion
<1>5. RingSteps'
  BY <1>1 DEF RingSteps, Settled, Shifted, Totals, Moves, ProducerUnlock, queueVars, TypeOK
<1> QED
  BY <1>2, <1>3, <1>4, <1>5 DEF IInv

LEMMA PostFilledInv ==
  ASSUME IInv, NEW p \in Producers, PostFilled(p) PROVE IInv'
<1>1. /\ p \in Children /\ p \notin Consumers /\ Moves(p, "post_filled", "generate")
      /\ TypeOK /\ MutualExclusion /\ SlotsAccounted /\ RingSteps
  BY ConstantsAssumption DEF IInv, PostFilled, Goto, Moves, Children, ConstantsAssumption
<1>2. SlotsAccounted'
  <2>1. /\ Cardinality(HoldEmpty') = Cardinality(HoldEmpty)
        /\ Cardinality(OweFilled') = Cardinality(OweFilled) - 1
        /\ Cardinality(HoldFilled') = Cardinality(HoldFilled)
        /\ Cardinality(OweEmpty') = Cardinality(OweEmpty)
    BY <1>1, MoveTallies, SlotTallies DEF Unit
  <2>2. empty' = empty /\ filled' = filled + 1 /\ count' = count
    BY <1>1 DEF PostFilled, queueVars, semaphore_signal
  <2>3. empty \in Int /\ filled \in Int /\ count \in Int /\ Capacity \in Int
    BY <1>1, ConstantsAssumption DEF TypeOK, ConstantsAssumption
  <2> QED
    BY <1>1, <2>1, <2>2, <2>3, SlotTallies DEF SlotsAccounted
<1>3. TypeOK'
  <2>1. filled' \in 0 .. Capacity
    BY <1>1, <1>2, PostInRange, ConstantsAssumption DEF TypeOK, PostFilled, semaphore_signal, queueVars, ConstantsAssumption
  <2>2. msg' \in [Children -> Message \cup {NoMessage}]
    BY <1>1 DEF TypeOK, PostFilled
  <2>3. pc' \in [Children -> Places]
    BY <1>1 DEF TypeOK, Moves, Places
  <2> QED
    BY <2>1, <2>2, <2>3, <1>1 DEF TypeOK, PostFilled, queueVars, lifeVars, mainVars
<1>4. MutualExclusion'
  BY <1>1, InsideMove DEF MutualExclusion, Inside, Moves, PostFilled, lifeVars, mainVars
<1>5. RingSteps'
  BY <1>1 DEF RingSteps, Settled, Shifted, Totals, Moves, PostFilled, queueVars, TypeOK
<1> QED
  BY <1>2, <1>3, <1>4, <1>5 DEF IInv

LEMMA WaitFilledInv ==
  ASSUME IInv, NEW c \in Consumers, WaitFilled(c) PROVE IInv'
<1>1. /\ c \in Children /\ c \notin Producers /\ Moves(c, "wait_filled", "c_lock")
      /\ TypeOK /\ MutualExclusion /\ SlotsAccounted /\ RingSteps
  BY ConstantsAssumption DEF IInv, WaitFilled, Goto, Moves, Children, ConstantsAssumption
<1>2. SlotsAccounted'
  <2>1. /\ Cardinality(HoldEmpty') = Cardinality(HoldEmpty)
        /\ Cardinality(OweFilled') = Cardinality(OweFilled)
        /\ Cardinality(HoldFilled') = Cardinality(HoldFilled) + 1
        /\ Cardinality(OweEmpty') = Cardinality(OweEmpty)
    BY <1>1, MoveTallies, SlotTallies DEF Unit
  <2>2. empty' = empty /\ filled' = filled - 1 /\ count' = count
    BY <1>1 DEF WaitFilled, queueVars, semaphore_wait
  <2>3. empty \in Int /\ filled \in Int /\ count \in Int /\ Capacity \in Int
    BY <1>1, ConstantsAssumption DEF TypeOK, ConstantsAssumption
  <2> QED
    BY <1>1, <2>1, <2>2, <2>3, SlotTallies DEF SlotsAccounted
<1>3. TypeOK'
  <2>1. filled' \in 0 .. Capacity
    BY <1>1, ConstantsAssumption DEF TypeOK, WaitFilled, semaphore_wait, ConstantsAssumption
  <2>2. pc' \in [Children -> Places]
    BY <1>1 DEF TypeOK, Moves, Places
  <2> QED
    BY <2>1, <2>2, <1>1 DEF TypeOK, WaitFilled, queueVars, lifeVars, mainVars
<1>4. MutualExclusion'
  BY <1>1, InsideMove DEF MutualExclusion, Inside, Moves, WaitFilled, lifeVars, mainVars
<1>5. RingSteps'
  BY <1>1 DEF RingSteps, Settled, Shifted, Totals, Moves, WaitFilled, queueVars, TypeOK
<1> QED
  BY <1>2, <1>3, <1>4, <1>5 DEF IInv

LEMMA ConsumerLockInv ==
  ASSUME IInv, NEW c \in Consumers, ConsumerLock(c) PROVE IInv'
<1>1. /\ c \in Children /\ c \notin Producers /\ Moves(c, "c_lock", "get")
      /\ TypeOK /\ MutualExclusion /\ SlotsAccounted /\ RingSteps
  BY ConstantsAssumption DEF IInv, ConsumerLock, Goto, Moves, Children, ConstantsAssumption
<1>2. SlotsAccounted'
  <2>1. /\ Cardinality(HoldEmpty') = Cardinality(HoldEmpty)
        /\ Cardinality(OweFilled') = Cardinality(OweFilled)
        /\ Cardinality(HoldFilled') = Cardinality(HoldFilled)
        /\ Cardinality(OweEmpty') = Cardinality(OweEmpty)
    BY <1>1, MoveTallies, SlotTallies DEF Unit
  <2>2. empty' = empty /\ filled' = filled /\ count' = count
    BY <1>1 DEF ConsumerLock, queueVars, semaphore_wait
  <2>3. empty \in Int /\ filled \in Int /\ count \in Int /\ Capacity \in Int
    BY <1>1, ConstantsAssumption DEF TypeOK, ConstantsAssumption
  <2> QED
    BY <1>1, <2>1, <2>2, <2>3, SlotTallies DEF SlotsAccounted
<1>3. TypeOK'
  <2>1. mutex' \in {0, 1}
    BY <1>1, InsideAlone DEF TypeOK, ConsumerLock, Moves, Inside, semaphore_wait
  <2>2. pc' \in [Children -> Places]
    BY <1>1 DEF TypeOK, Moves, Places
  <2> QED
    BY <2>1, <2>2, <1>1 DEF TypeOK, ConsumerLock, queueVars, lifeVars, mainVars
<1>4. MutualExclusion'
  <2>1. main # "report" /\ \A d \in Children : ~Inside(d)
    BY <1>1 DEF MutualExclusion, ConsumerLock, semaphore_wait, TypeOK
  <2>2. \A d \in Children : Inside(d)' <=> d = c
    BY <1>1, <2>1, InsideMove
  <2>3. mutex' = 0 /\ main' = main
    BY <1>1 DEF ConsumerLock, semaphore_wait, TypeOK, mainVars
  <2> QED
    BY <1>1, <2>1, <2>2, <2>3 DEF MutualExclusion
<1>5. RingSteps'
  BY <1>1 DEF RingSteps, Settled, Shifted, Totals, Moves, ConsumerLock, queueVars, TypeOK
<1> QED
  BY <1>2, <1>3, <1>4, <1>5 DEF IInv

LEMMA get_copyInv ==
  ASSUME IInv, NEW c \in Consumers, get_copy(c), count # 0 PROVE IInv'
<1>1. /\ c \in Children /\ c \notin Producers /\ Moves(c, "get", "get_count")
      /\ TypeOK /\ MutualExclusion /\ SlotsAccounted /\ RingSteps
  BY ConstantsAssumption DEF IInv, get_copy, Goto, Moves, Children, ConstantsAssumption
<1>2. SlotsAccounted'
  <2>1. /\ Cardinality(HoldEmpty') = Cardinality(HoldEmpty)
        /\ Cardinality(OweFilled') = Cardinality(OweFilled)
        /\ Cardinality(HoldFilled') = Cardinality(HoldFilled)
        /\ Cardinality(OweEmpty') = Cardinality(OweEmpty)
    BY <1>1, MoveTallies, SlotTallies DEF Unit
  <2>2. empty' = empty /\ filled' = filled /\ count' = count
    BY <1>1 DEF get_copy, semVars
  <2>3. empty \in Int /\ filled \in Int /\ count \in Int /\ Capacity \in Int
    BY <1>1, ConstantsAssumption DEF TypeOK, ConstantsAssumption
  <2> QED
    BY <1>1, <2>1, <2>2, <2>3, SlotTallies DEF SlotsAccounted
<1>3. TypeOK'
  <2>1. msg' \in [Children -> Message \cup {NoMessage}]
    BY <1>1, ConstantsAssumption DEF TypeOK, get_copy, Wrapped, ConstantsAssumption
  <2>2. tail' \in 0 .. Capacity
    BY <1>1, ConstantsAssumption DEF TypeOK, get_copy, Wrapped, Moves, ConstantsAssumption
  <2>3. pc' \in [Children -> Places]
    BY <1>1 DEF TypeOK, Moves, Places
  <2> QED
    BY <2>1, <2>2, <2>3, <1>1 DEF TypeOK, get_copy, semVars, mainVars
<1>4. MutualExclusion'
  BY <1>1, InsideMove DEF MutualExclusion, Inside, Moves, get_copy, semVars, mainVars
<1>5. RingSteps'
  <2>1. Inside(c) /\ pc[c] = "get"
    BY <1>1 DEF Moves, Inside
  <2>2. \A d \in Children : pc[d] \notin {"add_count", "get_count"}
    BY <2>1, <1>1, InsideAlone DEF Inside
  <2>3. Shifted(0) /\ Totals
    BY <1>1, <2>2 DEF RingSteps, Settled
  <2>4. \A d \in Children : pc'[d] = IF d = c THEN "get_count" ELSE pc[d]
    BY <1>1 DEF Moves, TypeOK
  <2>5. Shifted(-1)' /\ Totals'
    <3>1. /\ tail' = Wrapped(tail) + 1 /\ head' = head /\ count' = count
          /\ added' = added /\ extracted' = extracted
      BY DEF get_copy
    <3>2. /\ head \in 0 .. Capacity /\ tail \in 0 .. Capacity /\ count \in 1 .. Capacity - 1
          /\ Capacity \in Nat
      BY <1>1, ConstantsAssumption DEF TypeOK, ConstantsAssumption
    <3>3. head = tail' + count - 1 \/ head + Capacity = tail' + count - 1
      BY <2>3, <3>1, <3>2 DEF Shifted, Wrapped
    <3> QED
      BY <2>3, <3>1, <3>2, <3>3 DEF Shifted, Totals, Wrapped
  <2> QED
    BY <1>1, <2>2, <2>4, <2>5 DEF RingSteps, Settled
<1> QED
  BY <1>2, <1>3, <1>4, <1>5 DEF IInv

LEMMA get_countInv ==
  ASSUME IInv, NEW c \in Consumers, get_count(c) PROVE IInv'
<1>1. /\ c \in Children /\ c \notin Producers /\ Moves(c, "get_count", "c_unlock")
      /\ TypeOK /\ MutualExclusion /\ SlotsAccounted /\ RingSteps
  BY ConstantsAssumption DEF IInv, get_count, Goto, Moves, Children, ConstantsAssumption
<1>2. SlotsAccounted'
  <2>1. /\ Cardinality(HoldEmpty') = Cardinality(HoldEmpty)
        /\ Cardinality(OweFilled') = Cardinality(OweFilled)
        /\ Cardinality(HoldFilled') = Cardinality(HoldFilled) - 1
        /\ Cardinality(OweEmpty') = Cardinality(OweEmpty) + 1
    BY <1>1, MoveTallies, SlotTallies DEF Unit
  <2>2. empty' = empty /\ filled' = filled /\ count' = count - 1
    BY <1>1 DEF get_count, semVars
  <2>3. empty \in Int /\ filled \in Int /\ count \in Int /\ Capacity \in Int
    BY <1>1, ConstantsAssumption DEF TypeOK, ConstantsAssumption
  <2> QED
    BY <1>1, <2>1, <2>2, <2>3, SlotTallies DEF SlotsAccounted
<1>3. TypeOK'
  <2>1. count' \in 0 .. Capacity - 1 /\ extracted' \in Nat
    BY <1>1, <1>2, PostInRange, ConstantsAssumption DEF TypeOK, get_count, semVars, Moves, ConstantsAssumption
  <2>2. pc' \in [Children -> Places]
    BY <1>1 DEF TypeOK, Moves, Places
  <2> QED
    BY <2>1, <2>2, <1>1 DEF TypeOK, get_count, semVars, lifeVars, mainVars
<1>4. MutualExclusion'
  BY <1>1, InsideMove DEF MutualExclusion, Inside, Moves, get_count, semVars, lifeVars, mainVars
<1>5. RingSteps'
  <2>1. Inside(c) /\ pc[c] = "get_count"
    BY <1>1 DEF Moves, Inside
  <2>2. \A d \in Children : pc'[d] \notin {"add_count", "get_count"}
    BY <2>1, <1>1, InsideAlone DEF Inside, Moves, TypeOK
  <2>3. Shifted(-1) /\ Totals
    BY <1>1, <2>1 DEF RingSteps
  <2>4. Shifted(0)' /\ Totals'
    BY <1>1, <2>3, ConstantsAssumption DEF Shifted, Totals, get_count, TypeOK, ConstantsAssumption
  <2> QED
    BY <2>2, <2>4 DEF RingSteps, Settled
<1> QED
  BY <1>2, <1>3, <1>4, <1>5 DEF IInv

LEMMA ConsumerUnlockInv ==
  ASSUME IInv, NEW c \in Consumers, ConsumerUnlock(c) PROVE IInv'
<1>1. /\ c \in Children /\ c \notin Producers /\ Moves(c, "c_unlock", "post_empty")
      /\ TypeOK /\ MutualExclusion /\ SlotsAccounted /\ RingSteps
  BY ConstantsAssumption DEF IInv, ConsumerUnlock, Goto, Moves, Children, ConstantsAssumption
<1>2. SlotsAccounted'
  <2>1. /\ Cardinality(HoldEmpty') = Cardinality(HoldEmpty)
        /\ Cardinality(OweFilled') = Cardinality(OweFilled)
        /\ Cardinality(HoldFilled') = Cardinality(HoldFilled)
        /\ Cardinality(OweEmpty') = Cardinality(OweEmpty)
    BY <1>1, MoveTallies, SlotTallies DEF Unit
  <2>2. empty' = empty /\ filled' = filled /\ count' = count
    BY <1>1 DEF ConsumerUnlock, queueVars, semaphore_signal
  <2>3. empty \in Int /\ filled \in Int /\ count \in Int /\ Capacity \in Int
    BY <1>1, ConstantsAssumption DEF TypeOK, ConstantsAssumption
  <2> QED
    BY <1>1, <2>1, <2>2, <2>3, SlotTallies DEF SlotsAccounted
<1>3. TypeOK'
  <2>1. mutex' \in {0, 1}
    BY <1>1, InsideAlone DEF TypeOK, ConsumerUnlock, Moves, Inside, semaphore_signal
  <2>2. pc' \in [Children -> Places]
    BY <1>1 DEF TypeOK, Moves, Places
  <2> QED
    BY <2>1, <2>2, <1>1 DEF TypeOK, ConsumerUnlock, queueVars, lifeVars, mainVars
<1>4. MutualExclusion'
  <2>1. Inside(c)
    BY <1>1 DEF Inside, Moves
  <2>2. mutex = 0 /\ main # "report" /\ \A d \in Children : Inside(d) => d = c
    BY <1>1, <2>1, InsideAlone
  <2>3. \A d \in Children : ~Inside(d)'
    BY <1>1, <2>2, InsideMove
  <2>4. mutex' = 1 /\ main' = main
    BY <2>2 DEF ConsumerUnlock, semaphore_signal, mainVars
  <2> QED
    BY <2>2, <2>3, <2>4 DEF MutualExclusion
<1>5. RingSteps'
  BY <1>1 DEF RingSteps, Settled, Shifted, Totals, Moves, ConsumerUnlock, queueVars, TypeOK
<1> QED
  BY <1>2, <1>3, <1>4, <1>5 DEF IInv

LEMMA PostEmptyInv ==
  ASSUME IInv, NEW c \in Consumers, PostEmpty(c) PROVE IInv'
<1>1. /\ c \in Children /\ c \notin Producers /\ Moves(c, "post_empty", "verify")
      /\ TypeOK /\ MutualExclusion /\ SlotsAccounted /\ RingSteps
  BY ConstantsAssumption DEF IInv, PostEmpty, Goto, Moves, Children, ConstantsAssumption
<1>2. SlotsAccounted'
  <2>1. /\ Cardinality(HoldEmpty') = Cardinality(HoldEmpty)
        /\ Cardinality(OweFilled') = Cardinality(OweFilled)
        /\ Cardinality(HoldFilled') = Cardinality(HoldFilled)
        /\ Cardinality(OweEmpty') = Cardinality(OweEmpty) - 1
    BY <1>1, MoveTallies, SlotTallies DEF Unit
  <2>2. empty' = empty + 1 /\ filled' = filled /\ count' = count
    BY <1>1 DEF PostEmpty, queueVars, semaphore_signal
  <2>3. empty \in Int /\ filled \in Int /\ count \in Int /\ Capacity \in Int
    BY <1>1, ConstantsAssumption DEF TypeOK, ConstantsAssumption
  <2> QED
    BY <1>1, <2>1, <2>2, <2>3, SlotTallies DEF SlotsAccounted
<1>3. TypeOK'
  <2>1. empty' \in 0 .. Capacity
    BY <1>1, <1>2, PostInRange, ConstantsAssumption DEF TypeOK, PostEmpty, semaphore_signal, queueVars, ConstantsAssumption
  <2>2. pc' \in [Children -> Places]
    BY <1>1 DEF TypeOK, Moves, Places
  <2> QED
    BY <2>1, <2>2, <1>1 DEF TypeOK, PostEmpty, queueVars, lifeVars, mainVars
<1>4. MutualExclusion'
  BY <1>1, InsideMove DEF MutualExclusion, Inside, Moves, PostEmpty, lifeVars, mainVars
<1>5. RingSteps'
  BY <1>1 DEF RingSteps, Settled, Shifted, Totals, Moves, PostEmpty, queueVars, TypeOK
<1> QED
  BY <1>2, <1>3, <1>4, <1>5 DEF IInv

LEMMA process_and_verify_messageInv ==
  ASSUME IInv, NEW c \in Consumers, process_and_verify_message(c) PROVE IInv'
<1>1. /\ c \in Children /\ c \notin Producers /\ Moves(c, "verify", "wait_filled")
      /\ TypeOK /\ MutualExclusion /\ SlotsAccounted /\ RingSteps
  BY ConstantsAssumption DEF IInv, process_and_verify_message, Goto, Moves, Children, ConstantsAssumption
<1>2. SlotsAccounted'
  <2>1. /\ Cardinality(HoldEmpty') = Cardinality(HoldEmpty)
        /\ Cardinality(OweFilled') = Cardinality(OweFilled)
        /\ Cardinality(HoldFilled') = Cardinality(HoldFilled)
        /\ Cardinality(OweEmpty') = Cardinality(OweEmpty)
    BY <1>1, MoveTallies, SlotTallies DEF Unit
  <2>2. empty' = empty /\ filled' = filled /\ count' = count
    BY <1>1 DEF process_and_verify_message, queueVars, semVars
  <2>3. empty \in Int /\ filled \in Int /\ count \in Int /\ Capacity \in Int
    BY <1>1, ConstantsAssumption DEF TypeOK, ConstantsAssumption
  <2> QED
    BY <1>1, <2>1, <2>2, <2>3, SlotTallies DEF SlotsAccounted
<1>3. TypeOK'
  <2>1. msg' \in [Children -> Message \cup {NoMessage}]
    BY <1>1 DEF TypeOK, process_and_verify_message
  <2>2. pc' \in [Children -> Places]
    BY <1>1 DEF TypeOK, Moves, Places
  <2> QED
    BY <2>1, <2>2, <1>1 DEF TypeOK, process_and_verify_message, semVars, queueVars, lifeVars, mainVars
<1>4. MutualExclusion'
  BY <1>1, InsideMove DEF MutualExclusion, Inside, Moves, process_and_verify_message, semVars, lifeVars, mainVars
<1>5. RingSteps'
  BY <1>1 DEF RingSteps, Settled, Shifted, Totals, Moves, process_and_verify_message, queueVars, TypeOK
<1> QED
  BY <1>2, <1>3, <1>4, <1>5 DEF IInv

-----------------------------------------------------------------------------
(* Steps that move no child inside the ring.                               *)

\* Nothing IInv speaks of changes but lists of children and main's place.
LEMMA FrameInv ==
  ASSUME IInv, TypeOK', UNCHANGED <<semVars, queueVars, pc>>,
         main' = "report" <=> main = "report"
  PROVE  IInv'
<1>1. SlotsAccounted'
  BY DEF IInv, SlotsAccounted, HoldEmpty, OweFilled, HoldFilled, OweEmpty, semVars, queueVars
<1>2. MutualExclusion'
  BY DEF IInv, MutualExclusion, Inside, semVars
<1>3. RingSteps'
  BY DEF IInv, RingSteps, Settled, Shifted, Totals, queueVars
<1> QED
  BY <1>1, <1>2, <1>3 DEF IInv

\* A child that exits or is killed keeps its place.
LEMMA DeathInv ==
  ASSUME IInv, NEW c \in Children, dead' = dead \cup {c},
         UNCHANGED <<semVars, queueVars, childVars, doomed, reaped, mainVars>>
  PROVE  IInv'
<1>1. TypeOK'
  BY DEF IInv, TypeOK, semVars, queueVars, childVars, mainVars
<1> QED
  BY <1>1, FrameInv DEF childVars, mainVars

\* fork: a child that was unborn enters its loop, outside the ring.
LEMMA SpawnInv ==
  ASSUME IInv, spawn_producer_process \/ spawn_consumer_process
  PROVE  IInv'
<1>1. PICK c \in Children, to \in {"generate", "wait_filled"} :
        pc[c] = "unborn" /\ pc' = [pc EXCEPT ![c] = to]
  BY DEF spawn_producer_process, spawn_consumer_process, Children
<1>2. /\ main' = main /\ main # "report" /\ UNCHANGED <<semVars, queueVars, msg, lifeVars>>
      /\ producer_pids' \in Seq(Producers) /\ consumer_pids' \in Seq(Consumers)
  <2>1. producer_pids \in Seq(Producers) /\ consumer_pids \in Seq(Consumers)
    BY DEF IInv, TypeOK
  <2>2. CASE spawn_producer_process
    BY <2>1, <2>2 DEF spawn_producer_process, Press
  <2>3. CASE spawn_consumer_process
    BY <2>1, <2>3 DEF spawn_consumer_process, Press
  <2> QED
    BY <2>2, <2>3
<1>3. Moves(c, "unborn", to) /\ TypeOK /\ MutualExclusion /\ SlotsAccounted /\ RingSteps
  BY <1>1 DEF Moves, IInv
<1>4. SlotsAccounted'
  <2>1. /\ Cardinality(HoldEmpty') = Cardinality(HoldEmpty)
        /\ Cardinality(OweFilled') = Cardinality(OweFilled)
        /\ Cardinality(HoldFilled') = Cardinality(HoldFilled)
        /\ Cardinality(OweEmpty') = Cardinality(OweEmpty)
    BY <1>1, <1>3, MoveTallies, SlotTallies DEF Unit
  <2> QED
    BY <1>2, <1>3, <2>1 DEF SlotsAccounted, semVars, queueVars
<1>5. TypeOK'
  <2>1. pc' \in [Children -> Places]
    BY <1>1, <1>3 DEF TypeOK, Places
  <2> QED
    BY <2>1, <1>2, <1>3 DEF TypeOK, semVars, queueVars, lifeVars
<1>6. MutualExclusion'
  BY <1>1, <1>2, <1>3, InsideMove DEF MutualExclusion, Inside, semVars
<1>7. RingSteps'
  BY <1>1, <1>2, <1>3 DEF RingSteps, Settled, Shifted, Totals, queueVars, TypeOK
<1> QED
  BY <1>4, <1>5, <1>6, <1>7 DEF IInv

\* 's': main itself holds the mutex while it prints.
LEMMA StatusLockInv ==
  ASSUME IInv, StatusLock PROVE IInv'
<1>1. /\ TypeOK /\ MutualExclusion /\ SlotsAccounted /\ RingSteps
      /\ mutex > 0 /\ mutex' = mutex - 1 /\ main = "status" /\ main' = "report"
      /\ UNCHANGED <<empty, filled, queueVars, childVars, lifeVars, producer_pids, consumer_pids>>
  BY DEF IInv, StatusLock, semaphore_wait
<1>2. TypeOK'
  BY <1>1 DEF TypeOK, queueVars, childVars, lifeVars
<1>3. MutualExclusion'
  BY <1>1 DEF TypeOK, MutualExclusion, Inside, childVars
<1>4. SlotsAccounted' /\ RingSteps'
  BY <1>1 DEF SlotsAccounted, HoldEmpty, OweFilled, HoldFilled, OweEmpty,
    RingSteps, Settled, Shifted, Totals, queueVars, childVars
<1> QED
  BY <1>2, <1>3, <1>4 DEF IInv

LEMMA StatusUnlockInv ==
  ASSUME IInv, StatusUnlock PROVE IInv'
<1>1. /\ TypeOK /\ MutualExclusion /\ SlotsAccounted /\ RingSteps
      /\ mutex' = mutex + 1 /\ main = "report" /\ main' = "menu"
      /\ UNCHANGED <<empty, filled, queueVars, childVars, lifeVars, producer_pids, consumer_pids>>
  BY DEF IInv, StatusUnlock, semaphore_signal
<1>2. mutex = 0 /\ \A c \in Children : ~Inside(c)
  BY <1>1 DEF MutualExclusion
<1>3. TypeOK'
  BY <1>1, <1>2 DEF TypeOK, queueVars, childVars, lifeVars
<1>4. MutualExclusion'
  BY <1>1, <1>2 DEF MutualExclusion, Inside, childVars
<1>5. SlotsAccounted' /\ RingSteps'
  BY <1>1 DEF SlotsAccounted, HoldEmpty, OweFilled, HoldFilled, OweEmpty,
    RingSteps, Settled, Shifted, Totals, queueVars, childVars
<1> QED
  BY <1>3, <1>4, <1>5 DEF IInv

\* The rest of what main does touches neither the ring nor the semaphores.
LEMMA MainFrameInv ==
  ASSUME IInv,
         \/ ForkFails \/ terminate_last_producer \/ terminate_last_consumer
         \/ display_current_status \/ StatusFails \/ Quit
         \/ WaitChild \/ CleanupKill \/ CleanupWait \/ CleanupRemove
  PROVE  IInv'
<1> USE DEF IInv, TypeOK, semVars, queueVars, childVars, lifeVars, mainVars, Press
<1>1. CASE ForkFails \/ display_current_status \/ StatusFails \/ Quit \/ CleanupRemove
  BY <1>1, FrameInv DEF ForkFails, display_current_status, StatusFails, Quit, CleanupRemove
<1>2. CASE WaitChild \/ CleanupWait
  BY <1>2, FrameInv DEF WaitChild, CleanupWait, Reap, Zombies
<1>3. CASE terminate_last_producer
  <2>1. Last(producer_pids) \in Producers /\ ButLast(producer_pids) \in Seq(Producers)
    BY <1>3 DEF terminate_last_producer, Last, ButLast
  <2> QED
    BY <1>3, <2>1, FrameInv DEF terminate_last_producer, Kill, Children
<1>4. CASE terminate_last_consumer
  <2>1. Last(consumer_pids) \in Consumers /\ ButLast(consumer_pids) \in Seq(Consumers)
    BY <1>4 DEF terminate_last_consumer, Last, ButLast
  <2> QED
    BY <1>4, <2>1, FrameInv DEF terminate_last_consumer, Kill, Children
<1>5. CASE CleanupKill
  <2>1. CASE producer_pids # <<>>
    <3>1. producer_pids[1] \in Producers /\ Tail(producer_pids) \in Seq(Producers)
      BY <2>1
    <3> QED
      BY <1>5, <2>1, <3>1, FrameInv DEF CleanupKill, Kill, Children
  <2>2. CASE producer_pids = <<>>
    <3>1. consumer_pids # <<>>
      BY <1>5, <2>2 DEF CleanupKill
    <3>2. consumer_pids[1] \in Consumers /\ Tail(consumer_pids) \in Seq(Consumers)
      BY <3>1
    <3> QED
      BY <1>5, <2>2, <3>2, FrameInv DEF CleanupKill, Kill, Children
  <2> QED
    BY <2>1, <2>2
<1> QED
  BY <1>1, <1>2, <1>3, <1>4, <1>5

-----------------------------------------------------------------------------
\* Every step of a child, of main, of the kernel (a kill) preserves it.
THEOREM StepInv == IInv /\ [Next]_vars => IInv'
<1> SUFFICES ASSUME IInv, [Next]_vars PROVE IInv'
  OBVIOUS
<1>1. ASSUME NEW p \in Producers, Producer(p) PROVE IInv'
  <2>1. CASE add_full(p)
    BY <2>1, DeathInv DEF add_full, Children
  <2> QED
    BY <1>1, <2>1, generate_and_fill_messageInv, WaitEmptyInv, ProducerLockInv, add_storeInv,
      add_countInv, ProducerUnlockInv, PostFilledInv DEF Producer
<1>2. ASSUME NEW c \in Consumers, Consumer(c) PROVE IInv'
  <2>1. CASE get_copy(c) /\ count = 0
    BY <2>1, DeathInv DEF get_copy, Children, queueVars
  <2> QED
    BY <1>2, <2>1, WaitFilledInv, ConsumerLockInv, get_copyInv, get_countInv,
      ConsumerUnlockInv, PostEmptyInv, process_and_verify_messageInv DEF Consumer
<1>3. ASSUME NEW c \in Children, SemopFails(c) \/ Die(c) PROVE IInv'
  BY <1>3, DeathInv DEF SemopFails, Die
<1>4. CASE Main
  BY <1>4, SpawnInv, StatusLockInv, StatusUnlockInv, MainFrameInv DEF Main, MainProceeds
<1>5. CASE UNCHANGED vars
  <2>1. UNCHANGED <<semVars, queueVars, childVars, lifeVars, mainVars>>
    BY <1>5 DEF vars
  <2>2. TypeOK'
    BY <2>1 DEF IInv, TypeOK, semVars, queueVars, childVars, lifeVars, mainVars
  <2> QED
    BY <2>1, <2>2, FrameInv DEF childVars, mainVars
<1> QED
  BY <1>1, <1>2, <1>3, <1>4, <1>5 DEF Next

\* The inductive invariant holds in every reachable state.
THEOREM Invariant == Spec => []IInv
<1>1. Init => IInv
  BY InitInv
<1>2. IInv /\ [Next]_vars => IInv'
  BY StepInv
<1> QED
  BY <1>1, <1>2, PTL DEF Spec

\* Semaphore values, ring indices and counters stay in their ranges: no post
\* overflows its semaphore's initial value and count never reaches Capacity.
THEOREM TypeCorrect == Spec => []TypeOK
<1>1. IInv => TypeOK
  BY DEF IInv
<1> QED
  BY <1>1, Invariant, PTL

\* At most one of the children and main is inside the ring, for any number of
\* children killed at any of their steps.
THEOREM RingIsExclusive == Spec => []MutualExclusion
<1>1. IInv => MutualExclusion
  BY DEF IInv
<1> QED
  BY <1>1, Invariant, PTL

\* Kills lose semaphore units but never make one.
THEOREM SlotsAreAccounted == Spec => []SlotsAccounted
<1>1. IInv => SlotsAccounted
  BY DEF IInv
<1> QED
  BY <1>1, Invariant, PTL

\* get_message_from_queue never takes its "queue is empty" exit.
THEOREM ConsumerFindsMessage == Spec => []ConsumerNeverFindsEmpty
<1>1. IInv => ConsumerNeverFindsEmpty
  <2> SUFFICES ASSUME IInv, NEW c \in Consumers, pc[c] = "get" PROVE count # 0
    BY DEF ConsumerNeverFindsEmpty
  <2>1. HoldFilled # {} /\ HoldFilled \subseteq Consumers
    BY DEF HoldFilled
  <2>2. Cardinality(HoldFilled) \in Nat \ {0}
    BY <2>1, FS_Subset, FS_EmptySet, SlotTallies, ConstantsAssumption DEF ConstantsAssumption
  <2>3. filled \in Nat /\ count = filled + Cardinality(OweFilled) + Cardinality(HoldFilled)
    BY DEF IInv, TypeOK, SlotsAccounted
  <2> QED
    BY <2>2, <2>3, SlotTallies
<1> QED
  BY <1>1, Invariant, PTL

\* Whoever holds the mutex finds head, tail, count and the totals consistent,
\* wherever other children were killed.
THEOREM UnlockedRingWhole == Spec => []UnlockedRingIsWhole
<1>1. IInv => UnlockedRingIsWhole
  <2> SUFFICES ASSUME IInv, mutex = 1 \/ main = "report"
               PROVE  RingIndices /\ added = extracted + count
    BY DEF UnlockedRingIsWhole
  <2>1. \A c \in Children : ~Inside(c)
    BY DEF IInv, MutualExclusion
  <2>2. Settled
    BY <2>1 DEF Settled, Inside
  <2> QED
    BY <2>2, ConstantsAssumption DEF IInv, TypeOK, RingSteps, Shifted, Totals, RingIndices, ConstantsAssumption
<1> QED
  BY <1>1, Invariant, PTL

-----------------------------------------------------------------------------
(* The main process kills the child at the end of a list and then collects *)
(* whichever child is gone.  The argument is a count: a child leaves the   *)
(* lists once, and each time one does, one child is collected, so that     *)
(* there are as many collected children as removed ones, or one less while *)
(* main waits.  In that case some removed child is not collected, and      *)
(* SIGKILL has been sent to it.                                            *)

Forked == {c \in Children : pc[c] # "unborn"}

Elements(s) == {s[i] : i \in 1 .. Len(s)}
Distinct(s) == \A i, j \in 1 .. Len(s) : s[i] = s[j] => i = j

Listed  == Elements(producer_pids) \cup Elements(consumer_pids)
Removed == Forked \ Listed

Waiting == IF main \in {"wait", "cleanup_wait"} THEN 1 ELSE 0

RInv ==
  /\ Distinct(producer_pids) /\ Distinct(consumer_pids)
  /\ Listed \subseteq Forked /\ doomed \subseteq Forked /\ dead \subseteq Forked
  /\ Removed \subseteq doomed \cup reaped
  /\ Cardinality(Removed) = Cardinality(reaped) + Waiting
  /\ main = "removed" => Listed = {}

-----------------------------------------------------------------------------
(* Lists of children.                                                      *)

\* A list from which its last entry is taken.
LEMMA ButLastList ==
  ASSUME NEW S, NEW s \in Seq(S), s # <<>>, Distinct(s)
  PROVE  /\ Last(s) \in Elements(s)
         /\ Elements(ButLast(s)) = Elements(s) \ {Last(s)}
         /\ Distinct(ButLast(s))
<1>1. Len(s) \in Nat /\ Len(s) >= 1
  BY EmptySeq
<1>2. \A i \in 1 .. Len(s) - 1 : s[i] \in S
  BY <1>1, ElementOfSeq
<1>3. /\ Len(ButLast(s)) = Len(s) - 1
      /\ \A i \in 1 .. Len(s) - 1 : ButLast(s)[i] = s[i]
  <2> DEFINE n == Len(s) - 1
  <2>1. n \in Nat /\ n <= Len(s)
    BY <1>1
  <2>2. SubSeq(s, 1, n) = [i \in 1 .. n |-> s[i]]
    BY <2>1
  <2>3. Len(SubSeq(s, 1, n)) = n
    BY <2>1
  <2> QED
    BY <1>1, <2>2, <2>3 DEF ButLast
<1>4. Last(s) = s[Len(s)] /\ Last(s) \in Elements(s)
  BY <1>1 DEF Last, Elements
<1>5. Elements(ButLast(s)) = Elements(s) \ {Last(s)}
  <2>1. Elements(ButLast(s)) = {s[i] : i \in 1 .. Len(s) - 1}
    BY <1>3 DEF Elements
  <2>2. \A i \in 1 .. Len(s) - 1 : s[i] # s[Len(s)]
    BY <1>1 DEF Distinct
  <2>3. 1 .. Len(s) = (1 .. Len(s) - 1) \cup {Len(s)}
    BY <1>1
  <2>4. Elements(s) = {s[i] : i \in 1 .. Len(s) - 1} \cup {s[Len(s)]}
    BY <2>3 DEF Elements
  <2> QED
    BY <1>4, <2>1, <2>2, <2>4
<1>6. Distinct(ButLast(s))
  BY <1>1, <1>3 DEF Distinct
<1> QED
  BY <1>4, <1>5, <1>6

\* A list from which its first entry is taken.
LEMMA TailList ==
  ASSUME NEW S, NEW s \in Seq(S), s # <<>>, Distinct(s)
  PROVE  /\ s[1] \in Elements(s)
         /\ Elements(Tail(s)) = Elements(s) \ {s[1]}
         /\ Distinct(Tail(s))
<1>1. Len(s) \in Nat /\ Len(s) >= 1
  BY EmptySeq
<1>2. /\ Len(Tail(s)) = Len(s) - 1
      /\ \A i \in 1 .. Len(s) - 1 : Tail(s)[i] = s[i + 1]
  BY <1>1, HeadTailProperties
<1>3. s[1] \in Elements(s)
  BY <1>1 DEF Elements
<1>4. Elements(Tail(s)) = Elements(s) \ {s[1]}
  <2>1. Elements(Tail(s)) = {s[i + 1] : i \in 1 .. Len(s) - 1}
    BY <1>2 DEF Elements
  <2>2. Elements(Tail(s)) = {s[i] : i \in 2 .. Len(s)}
    <3>1. \A i \in 1 .. Len(s) - 1 : i + 1 \in 2 .. Len(s)
      BY <1>1
    <3>2. \A i \in 2 .. Len(s) : i - 1 \in 1 .. Len(s) - 1 /\ s[i] = s[(i - 1) + 1]
      BY <1>1
    <3> QED
      BY <2>1, <3>1, <3>2
  <2>3. \A i \in 2 .. Len(s) : s[i] # s[1]
    BY <1>1 DEF Distinct
  <2>4. 1 .. Len(s) = {1} \cup (2 .. Len(s))
    BY <1>1
  <2>5. Elements(s) = {s[1]} \cup {s[i] : i \in 2 .. Len(s)}
    BY <2>4 DEF Elements
  <2> QED
    BY <2>2, <2>3, <2>5
<1>5. Distinct(Tail(s))
  <2> SUFFICES ASSUME NEW i \in 1 .. Len(s) - 1, NEW j \in 1 .. Len(s) - 1, s[i + 1] = s[j + 1]
               PROVE  i = j
    BY <1>2 DEF Distinct
  <2>1. i + 1 \in 1 .. Len(s) /\ j + 1 \in 1 .. Len(s)
    BY <1>1
  <2>2. i + 1 = j + 1
    BY <2>1 DEF Distinct
  <2> QED
    BY <2>2
<1> QED
  BY <1>3, <1>4, <1>5

\* A list with a new entry at its end.
LEMMA AppendList ==
  ASSUME NEW S, NEW s \in Seq(S), NEW e \in S, Distinct(s), e \notin Elements(s)
  PROVE  /\ Elements(Append(s, e)) = Elements(s) \cup {e}
         /\ Distinct(Append(s, e))
<1>1. /\ Len(s) \in Nat /\ Len(Append(s, e)) = Len(s) + 1
      /\ \A i \in 1 .. Len(s) : Append(s, e)[i] = s[i]
      /\ Append(s, e)[Len(s) + 1] = e
  BY LenProperties
<1>2. 1 .. Len(s) + 1 = (1 .. Len(s)) \cup {Len(s) + 1}
  BY <1>1
<1>3. Elements(Append(s, e)) = Elements(s) \cup {e}
  BY <1>1, <1>2 DEF Elements
<1>4. Distinct(Append(s, e))
  BY <1>1, <1>2 DEF Distinct, Elements
<1> QED
  BY <1>3, <1>4

\* A child is in one list only.
LEMMA Disjoint ==
  ASSUME producer_pids \in Seq(Producers), consumer_pids \in Seq(Consumers)
  PROVE  Elements(producer_pids) \cap Elements(consumer_pids) = {}
<1>1. Elements(producer_pids) \subseteq Producers /\ Elements(consumer_pids) \subseteq Consumers
  BY ElementOfSeq DEF Elements
<1> QED
  BY <1>1, ConstantsAssumption DEF ConstantsAssumption

LEMMA EmptyList == Elements(<<>>) = {} /\ Distinct(<<>>)
BY DEF Elements, Distinct

-----------------------------------------------------------------------------
(* The count.                                                              *)

LEMMA FiniteChildren ==
  ASSUME NEW S \in SUBSET Children
  PROVE  IsFiniteSet(S) /\ Cardinality(S) \in Nat
<1>1. IsFiniteSet(Children)
  BY ConstantsAssumption, FS_Union DEF ConstantsAssumption, Children
<1> QED
  BY <1>1, FS_Subset, FS_CardinalityType

\* A child leaves the lists, and main starts to wait.
LEMMA RemoveOne ==
  ASSUME TypeOK, TypeOK', RInv, NEW c \in Listed,
         pc' = pc, reaped' = reaped, dead' = dead, Kill(c),
         Listed' = Listed \ {c}, Distinct(producer_pids)', Distinct(consumer_pids)',
         Waiting = 0, Waiting' = 1, main' # "removed"
  PROVE  RInv'
<1>1. Forked' = Forked /\ c \in Forked
  BY DEF Forked, RInv
<1>2. Removed' = Removed \cup {c} /\ c \notin Removed /\ Removed \subseteq Children
  BY <1>1 DEF Removed, RInv, Forked
<1>3. Cardinality(Removed') = Cardinality(Removed) + 1
  BY <1>2, FiniteChildren, FS_AddElement
<1>4. Cardinality(Removed) \in Nat /\ Cardinality(reaped) \in Nat
  BY <1>2, FiniteChildren DEF TypeOK
<1>5. Cardinality(Removed') = Cardinality(reaped') + Waiting'
  BY <1>3, <1>4 DEF RInv
<1>6. Removed' \subseteq doomed' \cup reaped' /\ doomed' \subseteq Forked'
  BY <1>1, <1>2 DEF RInv, Kill
<1> QED
  BY <1>1, <1>5, <1>6 DEF RInv

\* wait(NULL) returns a child.
LEMMA ReapOne ==
  ASSUME TypeOK, TypeOK', RInv, NEW from \in {"wait", "cleanup_wait"},
         NEW to \in {"menu", "cleanup"}, Reap(from, to)
  PROVE  RInv'
<1>1. PICK z \in Zombies : reaped' = reaped \cup {z}
  BY DEF Reap
<1>2. /\ main = from /\ main' = to
      /\ UNCHANGED <<childVars, doomed, dead, producer_pids, consumer_pids>>
  BY DEF Reap
<1>3. Forked' = Forked /\ Listed' = Listed /\ Removed' = Removed
  BY <1>2 DEF Forked, Listed, Removed, childVars
<1>4. z \notin reaped /\ reaped \subseteq Children
  BY <1>1 DEF Zombies, TypeOK
<1>5. Cardinality(reaped') = Cardinality(reaped) + 1
  BY <1>1, <1>4, FiniteChildren, FS_AddElement
<1>6. Waiting = 1 /\ Waiting' = 0
  BY <1>2 DEF Waiting
<1>7. Cardinality(reaped) \in Nat
  BY <1>4, FiniteChildren
<1>8. Cardinality(Removed') = Cardinality(reaped') + Waiting'
  BY <1>3, <1>5, <1>6, <1>7 DEF RInv
<1>9. Distinct(producer_pids)' /\ Distinct(consumer_pids)'
  BY <1>2 DEF RInv
<1> QED
  BY <1>1, <1>2, <1>3, <1>8, <1>9 DEF RInv

\* A child is forked and listed.
LEMMA SpawnOne ==
  ASSUME TypeOK, TypeOK', RInv, spawn_producer_process \/ spawn_consumer_process
  PROVE  RInv'
<1>1. PICK c \in Children, to \in {"generate", "wait_filled"} :
        /\ pc[c] = "unborn" /\ pc' = [pc EXCEPT ![c] = to]
        /\ \/ /\ c \in Producers /\ consumer_pids' = consumer_pids
              /\ producer_pids' = Append(producer_pids, c)
           \/ /\ c \in Consumers /\ producer_pids' = producer_pids
              /\ consumer_pids' = Append(consumer_pids, c)
  BY DEF spawn_producer_process, spawn_consumer_process, Children
<1>2. main = "menu" /\ main' = "menu" /\ UNCHANGED lifeVars
  BY DEF spawn_producer_process, spawn_consumer_process, Press
<1>3. c \notin Forked /\ Forked' = Forked \cup {c}
  BY <1>1 DEF Forked, TypeOK
<1>4. c \notin Listed
  BY <1>3 DEF RInv
<1>5. /\ Listed' = Listed \cup {c}
      /\ Distinct(producer_pids)' /\ Distinct(consumer_pids)'
  <2>1. producer_pids \in Seq(Producers) /\ consumer_pids \in Seq(Consumers)
    BY DEF TypeOK
  <2>2. CASE c \in Producers /\ consumer_pids' = consumer_pids /\ producer_pids' = Append(producer_pids, c)
    <3>1. /\ Elements(producer_pids') = Elements(producer_pids) \cup {c}
          /\ Distinct(producer_pids')
      BY <1>4, <2>1, <2>2, AppendList DEF RInv, Listed
    <3> QED
      BY <2>2, <3>1 DEF Listed, RInv
  <2>3. CASE c \in Consumers /\ producer_pids' = producer_pids /\ consumer_pids' = Append(consumer_pids, c)
    <3>1. /\ Elements(consumer_pids') = Elements(consumer_pids) \cup {c}
          /\ Distinct(consumer_pids')
      BY <1>4, <2>1, <2>3, AppendList DEF RInv, Listed
    <3> QED
      BY <2>3, <3>1 DEF Listed, RInv
  <2> QED
    BY <1>1, <2>2, <2>3
<1>6. Removed' = Removed
  BY <1>3, <1>4, <1>5 DEF Removed
<1>7. Waiting' = Waiting
  BY <1>2 DEF Waiting
<1> QED
  BY <1>2, <1>3, <1>5, <1>6, <1>7 DEF RInv, lifeVars

\* Steps that fork, kill, list and collect nobody.
LEMMA QuietStep ==
  ASSUME RInv, Forked' = Forked, Waiting' = Waiting,
         UNCHANGED <<doomed, reaped, producer_pids, consumer_pids>>, dead' \subseteq Forked,
         main' = "removed" => main = "removed" \/ Listed = {}
  PROVE  RInv'
<1>1. Listed' = Listed /\ Removed' = Removed
  BY DEF Listed, Removed
<1>2. Distinct(producer_pids)' /\ Distinct(consumer_pids)'
  BY DEF RInv
<1> QED
  BY <1>1, <1>2 DEF RInv

\* A child that moves has been forked, and stays so.
LEMMA ChildStep ==
  ASSUME TypeOK, RInv, NEW c \in Children,
         Producer(c) \/ Consumer(c) \/ SemopFails(c) \/ Die(c)
  PROVE  RInv'
<1>1. UNCHANGED <<doomed, reaped, mainVars>>
  BY DEF Producer, Consumer, SemopFails, Die, generate_and_fill_message, WaitEmpty, ProducerLock,
    add_full, add_store, add_count, ProducerUnlock, PostFilled, WaitFilled, ConsumerLock, get_copy,
    get_count, ConsumerUnlock, PostEmpty, process_and_verify_message, lifeVars
<1>2. /\ Forked' = Forked /\ (dead' = dead \/ dead' = dead \cup {c})
      /\ c \in Forked
  <2>1. CASE pc' = pc
    <3>1. /\ dead' = dead \/ dead' = dead \cup {c}
          /\ Live(c) \/ c \in doomed
      BY DEF Producer, Consumer, SemopFails, Die, generate_and_fill_message, WaitEmpty, ProducerLock,
        add_full, add_store, add_count, ProducerUnlock, PostFilled, WaitFilled, ConsumerLock, get_copy,
        get_count, ConsumerUnlock, PostEmpty, process_and_verify_message, lifeVars, Goto
    <3> QED
      BY <2>1, <3>1 DEF Forked, Live, RInv
  <2>2. CASE \E from, to \in Places \ {"unborn"} :
               /\ pc[c] = from /\ pc' = [pc EXCEPT ![c] = to] /\ dead' = dead
    BY <2>2 DEF Forked, TypeOK
  <2>3. \/ pc' = pc
        \/ \E from, to \in Places \ {"unborn"} :
             /\ pc[c] = from /\ pc' = [pc EXCEPT ![c] = to] /\ dead' = dead
    <3>1. CASE Producer(c)
      BY <3>1 DEF Producer, generate_and_fill_message, WaitEmpty, ProducerLock,
        add_full, add_store, add_count, ProducerUnlock, PostFilled, lifeVars, childVars, Goto, Places
    <3>2. CASE Consumer(c)
      BY <3>2 DEF Consumer, WaitFilled, ConsumerLock, get_copy,
        get_count, ConsumerUnlock, PostEmpty, process_and_verify_message, lifeVars, childVars, Goto, Places
    <3>3. CASE SemopFails(c) \/ Die(c)
      BY <3>3 DEF SemopFails, Die, childVars
    <3> QED
      BY <3>1, <3>2, <3>3
  <2> QED
    BY <2>1, <2>2, <2>3
<1>3. Waiting' = Waiting /\ main' = main /\ UNCHANGED <<producer_pids, consumer_pids>>
  BY <1>1 DEF Waiting, mainVars
<1> QED
  BY <1>1, <1>2, <1>3, QuietStep DEF RInv

-----------------------------------------------------------------------------
LEMMA RemovalInit == Init => RInv
<1> SUFFICES ASSUME Init PROVE RInv
  OBVIOUS
<1>1. Forked = {} /\ Listed = {} /\ Removed = {} /\ Waiting = 0
  BY EmptyList DEF Init, Forked, Listed, Removed, Waiting
<1> QED
  BY <1>1, EmptyList, FS_EmptySet DEF Init, RInv

LEMMA RemovalStep ==
  ASSUME TypeOK, TypeOK', RInv, [Next]_vars
  PROVE  RInv'
<1>0. producer_pids \in Seq(Producers) /\ consumer_pids \in Seq(Consumers)
  BY DEF TypeOK
<1>1. CASE spawn_producer_process \/ spawn_consumer_process
  BY <1>1, SpawnOne
<1>2. CASE ForkFails \/ display_current_status \/ StatusFails \/ Quit \/ StatusLock \/ StatusUnlock
  <2>1. /\ UNCHANGED <<childVars, lifeVars, producer_pids, consumer_pids>>
        /\ main' # "removed" /\ Waiting = 0 /\ Waiting' = 0
    BY <1>2 DEF ForkFails, display_current_status, StatusFails, Quit, StatusLock, StatusUnlock, Press, Waiting
  <2>2. Forked' = Forked /\ dead' \subseteq Forked
    BY <2>1 DEF Forked, childVars, lifeVars, RInv
  <2> QED
    BY <2>1, <2>2, QuietStep DEF lifeVars
<1>3. CASE terminate_last_producer
  <2>1. /\ Last(producer_pids) \in Elements(producer_pids)
        /\ Elements(producer_pids') = Elements(producer_pids) \ {Last(producer_pids)}
        /\ Distinct(producer_pids')
    BY <1>0, <1>3, ButLastList DEF terminate_last_producer, RInv
  <2>2. Last(producer_pids) \notin Elements(consumer_pids)
    BY <1>0, <2>1, Disjoint
  <2>3. Last(producer_pids) \in Listed /\ Listed' = Listed \ {Last(producer_pids)}
    BY <1>3, <2>1, <2>2 DEF Listed, terminate_last_producer
  <2>4. Distinct(consumer_pids)' /\ Waiting = 0 /\ Waiting' = 1 /\ main' # "removed"
    BY <1>3 DEF terminate_last_producer, RInv, Press, Waiting
  <2> QED
    BY <1>3, <2>1, <2>3, <2>4, RemoveOne DEF terminate_last_producer, childVars
<1>4. CASE terminate_last_consumer
  <2>1. /\ Last(consumer_pids) \in Elements(consumer_pids)
        /\ Elements(consumer_pids') = Elements(consumer_pids) \ {Last(consumer_pids)}
        /\ Distinct(consumer_pids')
    BY <1>0, <1>4, ButLastList DEF terminate_last_consumer, RInv
  <2>2. Last(consumer_pids) \notin Elements(producer_pids)
    BY <1>0, <2>1, Disjoint
  <2>3. Last(consumer_pids) \in Listed /\ Listed' = Listed \ {Last(consumer_pids)}
    BY <1>4, <2>1, <2>2 DEF Listed, terminate_last_consumer
  <2>4. Distinct(producer_pids)' /\ Waiting = 0 /\ Waiting' = 1 /\ main' # "removed"
    BY <1>4 DEF terminate_last_consumer, RInv, Press, Waiting
  <2> QED
    BY <1>4, <2>1, <2>3, <2>4, RemoveOne DEF terminate_last_consumer, childVars
<1>5. CASE WaitChild \/ CleanupWait
  BY <1>5, ReapOne DEF WaitChild, CleanupWait
<1>6. CASE CleanupKill
  <2>1. CASE producer_pids # <<>>
    <3>1. /\ Kill(producer_pids[1]) /\ producer_pids' = Tail(producer_pids)
          /\ consumer_pids' = consumer_pids
      BY <1>6, <2>1 DEF CleanupKill
    <3>2. /\ producer_pids[1] \in Elements(producer_pids)
          /\ Elements(producer_pids') = Elements(producer_pids) \ {producer_pids[1]}
          /\ Distinct(producer_pids')
      BY <1>0, <2>1, <3>1, TailList DEF RInv
    <3>3. producer_pids[1] \notin Elements(consumer_pids)
      BY <1>0, <3>2, Disjoint
    <3>4. producer_pids[1] \in Listed /\ Listed' = Listed \ {producer_pids[1]}
      BY <3>1, <3>2, <3>3 DEF Listed
    <3>5. Distinct(consumer_pids)' /\ Waiting = 0 /\ Waiting' = 1 /\ main' # "removed"
      BY <1>6, <3>1 DEF CleanupKill, RInv, Waiting
    <3> QED
      BY <1>6, <3>1, <3>2, <3>4, <3>5, RemoveOne DEF CleanupKill, childVars
  <2>2. CASE producer_pids = <<>>
    <3>1. /\ consumer_pids # <<>> /\ Kill(consumer_pids[1]) /\ consumer_pids' = Tail(consumer_pids)
          /\ producer_pids' = producer_pids
      BY <1>6, <2>2 DEF CleanupKill
    <3>2. /\ consumer_pids[1] \in Elements(consumer_pids)
          /\ Elements(consumer_pids') = Elements(consumer_pids) \ {consumer_pids[1]}
          /\ Distinct(consumer_pids')
      BY <1>0, <3>1, TailList DEF RInv
    <3>3. consumer_pids[1] \notin Elements(producer_pids)
      BY <1>0, <3>2, Disjoint
    <3>4. consumer_pids[1] \in Listed /\ Listed' = Listed \ {consumer_pids[1]}
      BY <3>1, <3>2, <3>3 DEF Listed
    <3>5. Distinct(producer_pids)' /\ Waiting = 0 /\ Waiting' = 1 /\ main' # "removed"
      BY <1>6, <3>1 DEF CleanupKill, RInv, Waiting
    <3> QED
      BY <1>6, <3>1, <3>2, <3>4, <3>5, RemoveOne DEF CleanupKill, childVars
  <2> QED
    BY <2>1, <2>2
<1>7. CASE CleanupRemove
  <2>1. /\ UNCHANGED <<childVars, lifeVars, producer_pids, consumer_pids>>
        /\ Waiting = 0 /\ Waiting' = 0
        /\ producer_pids = <<>> /\ consumer_pids = <<>>
    BY <1>7 DEF CleanupRemove, Waiting
  <2>2. Forked' = Forked /\ dead' \subseteq Forked /\ Listed = {}
    BY <2>1, EmptyList DEF Forked, childVars, lifeVars, RInv, Listed
  <2> QED
    BY <2>1, <2>2, QuietStep DEF lifeVars
<1>8. CASE \E c \in Children : Producer(c) \/ Consumer(c) \/ SemopFails(c) \/ Die(c)
  BY <1>8, ChildStep
<1>9. CASE UNCHANGED vars
  <2>1. Forked' = Forked /\ dead' \subseteq Forked /\ Waiting' = Waiting
    BY <1>9 DEF vars, Forked, childVars, lifeVars, mainVars, RInv, Waiting
  <2> QED
    BY <1>9, <2>1, QuietStep DEF vars, lifeVars, mainVars
<1> QED
  BY <1>1, <1>2, <1>3, <1>4, <1>5, <1>6, <1>7, <1>8, <1>9 DEF Next, Main, MainProceeds, Children

LEMMA Removal == Spec => []RInv
<1>1. Init => RInv
  BY RemovalInit
<1>2. TypeOK /\ TypeOK' /\ RInv /\ [Next]_vars => RInv'
  BY RemovalStep
<1> QED
  BY <1>1, <1>2, TypeCorrect, PTL DEF Spec

\* main never waits for a child that does not come, whichever child wait(NULL)
\* returned before, and whoever exited by itself.
THEOREM WaitReturns == Spec => []WaitNeverBlocks
<1>1. TypeOK /\ RInv => WaitNeverBlocks
  <2> SUFFICES ASSUME TypeOK, RInv, main \in {"wait", "cleanup_wait"}
               PROVE  Zombies # {} \/ doomed \ dead # {}
    BY DEF WaitNeverBlocks
  <2>1. Cardinality(Removed) = Cardinality(reaped) + 1
    BY DEF RInv, Waiting
  <2>2. reaped \subseteq Children /\ IsFiniteSet(reaped) /\ Cardinality(reaped) \in Nat
    BY FiniteChildren DEF TypeOK
  <2>3. ~(Removed \subseteq reaped)
    <3> SUFFICES ASSUME Removed \subseteq reaped PROVE FALSE
      OBVIOUS
    <3>1. Cardinality(Removed) <= Cardinality(reaped) /\ Cardinality(Removed) \in Nat
      BY <2>2, FS_Subset, FS_CardinalityType
    <3> QED
      BY <2>1, <2>2, <3>1
  <2> QED
    BY <2>3 DEF RInv, Zombies
<1> QED
  BY <1>1, Removal, TypeCorrect, PTL

\* When the segment and the semaphores are removed, no child is left.
THEOREM AllReaped == Spec => []RemovedMeansAllReaped
<1>1. TypeOK /\ RInv => RemovedMeansAllReaped
  <2> SUFFICES ASSUME TypeOK, RInv, main = "removed" PROVE Forked \subseteq reaped
    BY DEF RemovedMeansAllReaped, Forked
  <2>1. Removed = Forked /\ Cardinality(Forked) = Cardinality(reaped) + 0
    BY DEF RInv, Removed, Waiting
  <2>2. reaped \in SUBSET Forked /\ IsFiniteSet(Forked) /\ Cardinality(reaped) \in Nat
    BY FiniteChildren DEF TypeOK, RInv, Forked
  <2> QED
    BY <2>1, <2>2, FS_Subset
<1> QED
  BY <1>1, Removal, TypeCorrect, PTL

-----------------------------------------------------------------------------
(* The refinement of FifoBuffer.  The mutex keeps the two stores of an     *)
(* operation together as far as the other children see, so that a message  *)
(* enters when count is raised and leaves when it is copied out, also when *)
(* the child that began the operation is killed before it ends: MInv says  *)
(* whose message is where at each of the steps.                            *)

Offering == {"wait_empty", "p_lock", "add", "add_count"}
Holding  == {"get_count", "c_unlock", "post_empty", "verify"}

MInv ==
  /\ \A p \in Producers : pc[p] \in Offering => msg[p] \in Message
  /\ \A p \in Producers : pc[p] = "add_count" => head >= 1 /\ buffer[head - 1] = msg[p]
  /\ \A c \in Consumers : pc[c] \notin Holding => msg[c] = NoMessage

Offered == [p \in Producers |-> IF pc[p] \in Offering THEN msg[p] ELSE NoMessage]
Taken   == [c \in Consumers |-> msg[c]]
Taking  == \E c \in Consumers : pc[c] = "get_count"
Size    == IF Taking THEN count - 1 ELSE count

-----------------------------------------------------------------------------
(* The ring, as n messages of the array b from slot t on.                  *)

Datum == Message \cup {NoMessage}

Spot(t, k) == IF t + k - 1 < Capacity THEN t + k - 1 ELSE t + k - 1 - Capacity
Row(b, t, n) == [k \in 1 .. n |-> b[(t + k - 1) % Capacity]]

RingShape(b, t, n) ==
  b \in [0 .. Capacity - 1 -> Datum] /\ t \in 0 .. Capacity /\ n \in 0 .. Capacity - 1

LEMMA Wraps ==
  ASSUME NEW c \in Nat, NEW a \in Nat, a < c + c
  PROVE  a % c = IF a < c THEN a ELSE a - c
<1>1. CASE a < c
  BY <1>1
<1>2. CASE a >= c
  BY <1>2
<1> QED
  BY <1>1, <1>2

LEMMA RowTyped ==
  ASSUME NEW b, NEW t, NEW n, RingShape(b, t, n)
  PROVE  /\ Row(b, t, n) \in Seq(Datum) /\ Len(Row(b, t, n)) = n
         /\ \A k \in 1 .. n : Row(b, t, n)[k] = b[Spot(t, k)]
<1>1. Capacity \in Nat /\ Capacity >= 2
  BY ConstantsAssumption DEF ConstantsAssumption
<1>2. \A k \in 1 .. n : (t + k - 1) % Capacity = Spot(t, k) /\ Spot(t, k) \in 0 .. Capacity - 1
  <2> SUFFICES ASSUME NEW k \in 1 .. n
               PROVE  (t + k - 1) % Capacity = Spot(t, k) /\ Spot(t, k) \in 0 .. Capacity - 1
    OBVIOUS
  <2> DEFINE a == t + k - 1
  <2>1. t \in Nat /\ k \in Nat /\ a \in Nat /\ a < Capacity + Capacity
    BY <1>1 DEF RingShape
  <2>2. a % Capacity = IF a < Capacity THEN a ELSE a - Capacity
    <3> HIDE DEF a
    <3> QED
      BY <1>1, <2>1, Wraps
  <2>3. Spot(t, k) \in 0 .. Capacity - 1
    BY <1>1, <2>1 DEF Spot
  <2>4. Spot(t, k) = IF a < Capacity THEN a ELSE a - Capacity
    BY <1>1, <2>1 DEF Spot
  <2> HIDE DEF a
  <2>5. a % Capacity = Spot(t, k)
    BY <2>2, <2>4
  <2> QED
    BY <2>3, <2>5 DEF a
<1>3. \A k \in 1 .. n : Row(b, t, n)[k] = b[Spot(t, k)] /\ b[Spot(t, k)] \in Datum
  BY <1>2 DEF RingShape, Row
<1>4. Row(b, t, n) \in [1 .. n -> Datum]
  BY <1>3 DEF Row
<1>5. n \in Nat
  BY <1>1 DEF RingShape
<1>6. Row(b, t, n) \in Seq(Datum) /\ Len(Row(b, t, n)) = n
  BY <1>4, <1>5
<1> QED
  BY <1>3, <1>6

\* A message is counted in.
LEMMA RowGrows ==
  ASSUME NEW b, NEW t, NEW n, RingShape(b, t, n), RingShape(b, t, n + 1)
  PROVE  Row(b, t, n + 1) = Append(Row(b, t, n), b[Spot(t, n + 1)])
<1> DEFINE r == Row(b, t, n)
           q == Row(b, t, n + 1)
           m == b[Spot(t, n + 1)]
<1>1. n \in Nat
  BY DEF RingShape
<1>2. /\ r \in Seq(Datum) /\ Len(r) = n /\ \A k \in 1 .. n : r[k] = b[Spot(t, k)]
      /\ q \in Seq(Datum) /\ Len(q) = n + 1 /\ \A k \in 1 .. n + 1 : q[k] = b[Spot(t, k)]
  BY RowTyped
<1>3. m \in Datum /\ q[n + 1] = m /\ \A k \in 1 .. n : q[k] = r[k]
  BY <1>1, <1>2, ElementOfSeq
<1> HIDE DEF r, q, m
<1>4. /\ Append(r, m) \in Seq(Datum) /\ Len(Append(r, m)) = n + 1
      /\ \A k \in 1 .. n : Append(r, m)[k] = r[k]
      /\ Append(r, m)[n + 1] = m
  BY <1>2, <1>3, AppendProperties
<1>5. \A k \in 1 .. Len(q) : q[k] = Append(r, m)[k]
  BY <1>1, <1>2, <1>3, <1>4
<1>6. q = Append(r, m)
  BY <1>2, <1>4, <1>5, SeqEqual
<1> QED
  BY <1>6 DEF r, q, m

\* The message at the front is left behind.
LEMMA RowShrinks ==
  ASSUME NEW b, NEW t, NEW n, NEW u, RingShape(b, t, n), n # 0, u = Wrapped(t) + 1
  PROVE  /\ RingShape(b, u, n - 1)
         /\ Row(b, t, n) # <<>>
         /\ Head(Row(b, t, n)) = b[Wrapped(t)]
         /\ Row(b, u, n - 1) = Tail(Row(b, t, n))
<1> DEFINE r == Row(b, t, n)
           q == Row(b, u, n - 1)
<1>1. n \in Nat /\ n >= 1 /\ t \in 0 .. Capacity /\ Capacity \in Nat /\ Capacity >= 2
  BY ConstantsAssumption DEF ConstantsAssumption, RingShape
<1>2. RingShape(b, u, n - 1)
  BY <1>1 DEF RingShape, Wrapped
<1>3. /\ r \in Seq(Datum) /\ Len(r) = n /\ \A k \in 1 .. n : r[k] = b[Spot(t, k)]
      /\ q \in Seq(Datum) /\ Len(q) = n - 1 /\ \A k \in 1 .. n - 1 : q[k] = b[Spot(u, k)]
  BY <1>2, RowTyped
<1>4. Spot(t, 1) = Wrapped(t) /\ \A k \in 1 .. n - 1 : Spot(u, k) = Spot(t, k + 1)
  BY <1>1 DEF Spot, Wrapped, RingShape
<1>5. r[1] = b[Wrapped(t)] /\ \A k \in 1 .. n - 1 : q[k] = r[k + 1]
  <2>1. 1 \in 1 .. n /\ \A k \in 1 .. n - 1 : k + 1 \in 1 .. n
    BY <1>1
  <2> QED
    BY <1>3, <1>4, <2>1
<1> HIDE DEF r, q
<1>6. r # <<>>
  BY <1>1, <1>3
<1>7. /\ Head(r) = r[1] /\ Tail(r) \in Seq(Datum) /\ Len(Tail(r)) = n - 1
      /\ \A k \in 1 .. n - 1 : Tail(r)[k] = r[k + 1]
  BY <1>3, <1>6, HeadTailProperties
<1>8. q = Tail(r)
  <2>1. \A k \in 1 .. Len(q) : q[k] = Tail(r)[k]
    BY <1>3, <1>5, <1>7
  <2> QED
    BY <1>3, <1>7, <2>1, SeqEqual
<1> QED
  BY <1>2, <1>5, <1>6, <1>7, <1>8 DEF r, q

\* A store outside the row leaves it.
LEMMA RowKept ==
  ASSUME NEW b, NEW t, NEW n, NEW d, NEW h, NEW m \in Datum, RingShape(b, t, n),
         h \in 0 .. Capacity, h = t + n \/ h + Capacity = t + n, d = [b EXCEPT ![Wrapped(h)] = m]
  PROVE  RingShape(d, t, n) /\ Row(d, t, n) = Row(b, t, n)
<1>1. n \in Nat /\ n < Capacity /\ t \in 0 .. Capacity /\ Capacity \in Nat /\ Capacity >= 2
  BY ConstantsAssumption DEF ConstantsAssumption, RingShape
<1>2. RingShape(d, t, n)
  BY DEF RingShape
<1>3. \A k \in 1 .. n : Spot(t, k) # Wrapped(h) /\ Spot(t, k) \in 0 .. Capacity - 1
  BY <1>1 DEF Spot, Wrapped
<1>4. \A k \in 1 .. n : d[Spot(t, k)] = b[Spot(t, k)]
  BY <1>3 DEF RingShape
<1>5. /\ Row(d, t, n) \in Seq(Datum) /\ Len(Row(d, t, n)) = n
      /\ \A k \in 1 .. n : Row(d, t, n)[k] = d[Spot(t, k)]
  BY ONLY <1>2, RowTyped
<1>6. /\ Row(b, t, n) \in Seq(Datum) /\ Len(Row(b, t, n)) = n
      /\ \A k \in 1 .. n : Row(b, t, n)[k] = b[Spot(t, k)]
  BY RowTyped
<1>7. \A k \in 1 .. Len(Row(d, t, n)) : Row(d, t, n)[k] = Row(b, t, n)[k]
  BY <1>4, <1>5, <1>6
<1>8. Row(d, t, n) = Row(b, t, n)
  BY <1>5, <1>6, <1>7, SeqEqual
<1> QED
  BY <1>2, <1>8
-----------------------------------------------------------------------------
(* What the buffer sees.                                                   *)

LEMMA ContentsInRow ==
  /\ Contents = Row(buffer, tail, Size)
  /\ Contents' = Row(buffer', tail', Size')
BY DEF Contents, Row, Size, Taking

LEMMA Unseen ==
  ASSUME UNCHANGED <<buffer, tail, count, Taking, Offered, Taken>>
  PROVE  UNCHANGED Fifo!vars
<1>1. UNCHANGED Contents
  BY ContentsInRow DEF Size
<1> QED
  BY <1>1 DEF Fifo!vars, Offered, Offering, Taken

\* Steps in which no child moves.
LEMMA StillStep ==
  ASSUME MInv, UNCHANGED <<buffer, head, tail, count, pc, msg>>
  PROVE  MInv' /\ UNCHANGED Fifo!vars
BY Unseen DEF MInv, Taking, Offered, Taken

\* Steps of a child that neither begin nor end what the buffer sees.
LEMMA RingKept ==
  ASSUME TypeOK, MInv, NEW c \in Children, NEW to, pc' = [pc EXCEPT ![c] = to],
         pc[c] \in Offering <=> to \in Offering, pc[c] \in Holding <=> to \in Holding,
         {pc[c], to} \cap {"add_count", "get_count"} = {},
         UNCHANGED <<buffer, head, tail, count, msg>>
  PROVE  MInv' /\ UNCHANGED Fifo!vars
<1>1. \A d \in Children : pc'[d] = IF d = c THEN to ELSE pc[d]
  BY DEF TypeOK
<1>2. Producers \subseteq Children /\ Consumers \subseteq Children
  BY DEF Children
<1>3. UNCHANGED <<Taking, Offered, Taken>>
  <2>1. UNCHANGED Taking
    BY <1>1, <1>2 DEF Taking
  <2>2. UNCHANGED Offered
    BY <1>1, <1>2 DEF Offered
  <2> QED
    BY <2>1, <2>2 DEF Taken
<1>4. MInv'
  <2>1. \A p \in Producers : pc'[p] \in Offering => msg'[p] \in Message
    BY <1>1, <1>2 DEF MInv
  <2>2. \A p \in Producers : pc'[p] = "add_count" => head' >= 1 /\ buffer'[head' - 1] = msg'[p]
    BY <1>1, <1>2 DEF MInv
  <2>3. \A d \in Consumers : pc'[d] \notin Holding => msg'[d] = NoMessage
    BY <1>1, <1>2 DEF MInv
  <2> QED
    BY <2>1, <2>2, <2>3 DEF MInv
<1> QED
  BY <1>3, <1>4, Unseen

-----------------------------------------------------------------------------
(* The steps of a producer.                                                *)

\* A step of producer p that leaves the consumers alone.
LEMMA ProducerMoves ==
  ASSUME TypeOK, MInv, NEW p \in Producers, NEW to, NEW m \in Datum,
         pc' = [pc EXCEPT ![p] = to], msg' = [msg EXCEPT ![p] = m]
  PROVE  /\ pc'[p] = to /\ msg'[p] = m
         /\ \A q \in Producers : q # p => pc'[q] = pc[q] /\ msg'[q] = msg[q]
         /\ \A c \in Consumers : pc'[c] = pc[c] /\ msg'[c] = msg[c]
         /\ UNCHANGED <<Taking, Taken>>
         /\ Offered' = [Offered EXCEPT ![p] = IF to \in Offering THEN m ELSE NoMessage]
         /\ Offered[p] = IF pc[p] \in Offering THEN msg[p] ELSE NoMessage
<1>1. /\ p \in Children /\ p \notin Consumers
      /\ Producers \subseteq Children /\ Consumers \subseteq Children
  BY ConstantsAssumption DEF ConstantsAssumption, Children
<1>2. \A d \in Children : /\ pc'[d] = IF d = p THEN to ELSE pc[d]
                          /\ msg'[d] = IF d = p THEN m ELSE msg[d]
  BY DEF TypeOK
<1>3. UNCHANGED <<Taking, Taken>>
  BY <1>1, <1>2 DEF Taking, Taken
<1>4. Offered' = [Offered EXCEPT ![p] = IF to \in Offering THEN m ELSE NoMessage]
  BY <1>1, <1>2 DEF Offered
<1> QED
  BY <1>1, <1>2, <1>3, <1>4 DEF Offered

LEMMA GenerateStep ==
  ASSUME TypeOK, MInv, NEW p \in Producers, generate_and_fill_message(p)
  PROVE  MInv' /\ Fifo!Next
<1>1. PICK m \in Message : msg' = [msg EXCEPT ![p] = m]
  BY DEF generate_and_fill_message
<1>2. /\ pc[p] = "generate" /\ pc' = [pc EXCEPT ![p] = "wait_empty"]
      /\ UNCHANGED <<buffer, head, tail, count>>
  BY DEF generate_and_fill_message, Goto, queueVars
<1>3. m \in Datum
  BY DEF Datum
<1>4. /\ pc'[p] = "wait_empty" /\ msg'[p] = m
      /\ \A q \in Producers : q # p => pc'[q] = pc[q] /\ msg'[q] = msg[q]
      /\ \A c \in Consumers : pc'[c] = pc[c] /\ msg'[c] = msg[c]
      /\ UNCHANGED <<Taking, Taken>>
      /\ Offered' = [Offered EXCEPT ![p] = IF "wait_empty" \in Offering THEN m ELSE NoMessage]
      /\ Offered[p] = IF pc[p] \in Offering THEN msg[p] ELSE NoMessage
  BY <1>1, <1>2, <1>3, ProducerMoves
<1>5. MInv'
  BY <1>2, <1>4 DEF MInv, Offering
<1>6. Offered[p] = NoMessage /\ Offered' = [Offered EXCEPT ![p] = m]
  BY <1>2, <1>4 DEF Offering
<1>7. UNCHANGED Contents
  BY <1>2, <1>4, ContentsInRow DEF Size
<1>8. Fifo!Offer(p)
  BY <1>2, <1>4, <1>6, <1>7 DEF Fifo!Offer, Offered, Offering, Taken
<1> QED
  BY <1>5, <1>8 DEF Fifo!Next

LEMMA PostFilledStep ==
  ASSUME TypeOK, MInv, NEW p \in Producers, PostFilled(p)
  PROVE  MInv' /\ UNCHANGED Fifo!vars
<1>1. /\ pc[p] = "post_filled" /\ pc' = [pc EXCEPT ![p] = "generate"]
      /\ msg' = [msg EXCEPT ![p] = NoMessage] /\ NoMessage \in Datum
      /\ UNCHANGED <<buffer, head, tail, count>>
  BY DEF PostFilled, Goto, queueVars, Datum
<1>2. /\ pc'[p] = "generate" /\ msg'[p] = NoMessage
      /\ \A q \in Producers : q # p => pc'[q] = pc[q] /\ msg'[q] = msg[q]
      /\ \A c \in Consumers : pc'[c] = pc[c] /\ msg'[c] = msg[c]
      /\ UNCHANGED <<Taking, Taken>>
      /\ Offered' = [Offered EXCEPT ![p] = IF "generate" \in Offering THEN NoMessage ELSE NoMessage]
      /\ Offered[p] = IF pc[p] \in Offering THEN msg[p] ELSE NoMessage
  BY <1>1, ProducerMoves
<1>3. MInv'
  BY <1>1, <1>2 DEF MInv, Offering
<1>4. UNCHANGED Offered
  BY <1>1, <1>2 DEF Offering, Offered
<1> QED
  BY <1>1, <1>2, <1>3, <1>4, Unseen

LEMMA AddStoreStep ==
  ASSUME IInv, MInv, NEW p \in Producers, add_store(p)
  PROVE  MInv' /\ UNCHANGED Fifo!vars
<1>1. /\ pc[p] = "add" /\ pc' = [pc EXCEPT ![p] = "add_count"] /\ p \in Children
      /\ buffer' = [buffer EXCEPT ![Wrapped(head)] = msg[p]] /\ head' = Wrapped(head) + 1
      /\ UNCHANGED <<tail, count, msg>> /\ count # Capacity - 1
  BY DEF add_store, AddFull, Goto, Children
<1>2. TypeOK /\ MutualExclusion /\ RingSteps /\ Capacity \in Nat /\ Capacity >= 2
  BY ConstantsAssumption DEF IInv, ConstantsAssumption
<1>3. Shifted(0) /\ ~Taking /\ \A q \in Producers : pc[q] # "add_count"
  <2>1. \A d \in Children : pc[d] \notin {"add_count", "get_count"}
    BY <1>1, <1>2, InsideAlone DEF Inside
  <2> QED
    BY <1>2, <2>1 DEF RingSteps, Settled, Taking, Children
<1>4. msg[p] \in Message /\ msg[p] \in Datum /\ msg' = [msg EXCEPT ![p] = msg[p]]
  BY <1>1, <1>2 DEF MInv, Offering, Datum, TypeOK
<1>5. /\ pc'[p] = "add_count" /\ msg'[p] = msg[p]
      /\ \A q \in Producers : q # p => pc'[q] = pc[q] /\ msg'[q] = msg[q]
      /\ \A c \in Consumers : pc'[c] = pc[c] /\ msg'[c] = msg[c]
      /\ UNCHANGED <<Taking, Taken>>
      /\ Offered' = [Offered EXCEPT ![p] = IF "add_count" \in Offering THEN msg[p] ELSE NoMessage]
      /\ Offered[p] = IF pc[p] \in Offering THEN msg[p] ELSE NoMessage
  BY <1>1, <1>2, <1>4, ProducerMoves
<1>6. MInv'
  <2>1. head' >= 1 /\ buffer'[head' - 1] = msg'[p]
    BY <1>1, <1>2, <1>5 DEF TypeOK, Wrapped
  <2>2. \A q \in Producers : pc'[q] = "add_count" => q = p
    BY <1>3, <1>5
  <2> QED
    BY <1>1, <1>4, <1>5, <2>1, <2>2 DEF MInv
<1>7. UNCHANGED Offered
  BY <1>1, <1>5 DEF Offering, Offered
<1>8. UNCHANGED Contents
  <2>1. RingShape(buffer, tail, count) /\ head \in 0 .. Capacity
    BY <1>2 DEF TypeOK, RingShape, Datum
  <2>2. head = tail + count \/ head + Capacity = tail + count
    BY <1>2, <1>3, <2>1 DEF Shifted, RingShape
  <2>3. Row(buffer', tail, count) = Row(buffer, tail, count)
    BY <1>1, <1>4, <2>1, <2>2, RowKept
  <2> QED
    BY <1>1, <1>3, <1>5, <2>3, ContentsInRow DEF Size
<1> QED
  BY <1>5, <1>6, <1>7, <1>8 DEF Fifo!vars, Offered, Offering, Taken

\* The message is in: from here on the consumers count on it.
LEMMA AddCountStep ==
  ASSUME IInv, IInv', MInv, NEW p \in Producers, add_count(p)
  PROVE  MInv' /\ Fifo!Next
<1>1. /\ pc[p] = "add_count" /\ pc' = [pc EXCEPT ![p] = "p_unlock"] /\ p \in Children
      /\ count' = count + 1 /\ UNCHANGED <<buffer, head, tail, msg>>
  BY DEF add_count, Goto, Children
<1>2. TypeOK /\ TypeOK' /\ MutualExclusion /\ RingSteps /\ Capacity \in Nat /\ Capacity >= 2
  BY ConstantsAssumption DEF IInv, ConstantsAssumption
<1>3. Shifted(1) /\ ~Taking
  <2>1. \A d \in Children : pc[d] = "get_count" => d = p
    BY <1>1, <1>2, InsideAlone DEF Inside
  <2> QED
    BY <1>1, <1>2, <2>1 DEF RingSteps, Taking, Children
<1>4. msg[p] \in Message /\ msg[p] \in Datum /\ msg' = [msg EXCEPT ![p] = msg[p]]
  BY <1>1, <1>2 DEF MInv, Offering, Datum, TypeOK
<1>5. /\ pc'[p] = "p_unlock" /\ msg'[p] = msg[p]
      /\ \A q \in Producers : q # p => pc'[q] = pc[q] /\ msg'[q] = msg[q]
      /\ \A c \in Consumers : pc'[c] = pc[c] /\ msg'[c] = msg[c]
      /\ UNCHANGED <<Taking, Taken>>
      /\ Offered' = [Offered EXCEPT ![p] = IF "p_unlock" \in Offering THEN msg[p] ELSE NoMessage]
      /\ Offered[p] = IF pc[p] \in Offering THEN msg[p] ELSE NoMessage
  BY <1>1, <1>2, <1>4, ProducerMoves
<1>6. MInv'
  BY <1>1, <1>5 DEF MInv, Offering
<1>7. Offered[p] = msg[p] /\ msg[p] # NoMessage /\ Offered' = [Offered EXCEPT ![p] = NoMessage]
  BY <1>1, <1>4, <1>5, ConstantsAssumption DEF Offering, ConstantsAssumption
<1>8. RingShape(buffer, tail, count) /\ RingShape(buffer, tail, count + 1)
  BY <1>1, <1>2 DEF TypeOK, RingShape, Datum
<1>9. buffer[Spot(tail, count + 1)] = msg[p]
  <2>1. head \in 1 .. Capacity /\ buffer[head - 1] = msg[p]
    BY <1>1, <1>2 DEF MInv, TypeOK
  <2>2. head - 1 = Spot(tail, count + 1)
    BY <1>2, <1>3, <2>1 DEF Spot, Shifted, TypeOK
  <2> QED
    BY <2>1, <2>2
<1>10. Contents' = Append(Contents, msg[p]) /\ Len(Contents) < Capacity - 1
  <2>1. Contents = Row(buffer, tail, count) /\ Contents' = Row(buffer, tail, count + 1)
    BY <1>1, <1>3, <1>5, ContentsInRow DEF Size
  <2>2. Row(buffer, tail, count + 1) = Append(Row(buffer, tail, count), msg[p])
    BY <1>8, <1>9, RowGrows
  <2>3. Len(Row(buffer, tail, count)) = count
    BY <1>8, RowTyped
  <2>4. count < Capacity - 1
    BY <1>2, <1>8 DEF RingShape
  <2> QED
    BY <2>1, <2>2, <2>3, <2>4
<1>11. Fifo!Put(p)
  <2>1. \E m \in Message \cup {NoMessage} : Offered' = [Offered EXCEPT ![p] = m]
    BY <1>7
  <2> QED
    BY <1>5, <1>7, <1>10, <2>1 DEF Fifo!Put, Offered, Offering, Taken
<1> QED
  BY <1>6, <1>11 DEF Fifo!Next

-----------------------------------------------------------------------------
(* The steps of a consumer.                                                *)

\* A step of consumer c that leaves the producers alone.
LEMMA ConsumerMoves ==
  ASSUME TypeOK, MInv, NEW c \in Consumers, NEW to, NEW m \in Datum,
         pc' = [pc EXCEPT ![c] = to], msg' = [msg EXCEPT ![c] = m]
  PROVE  /\ pc'[c] = to /\ msg'[c] = m
         /\ \A d \in Consumers : d # c => pc'[d] = pc[d] /\ msg'[d] = msg[d]
         /\ \A p \in Producers : pc'[p] = pc[p] /\ msg'[p] = msg[p]
         /\ UNCHANGED Offered
         /\ Taken' = [Taken EXCEPT ![c] = m]
         /\ Taken[c] = msg[c]
<1>1. /\ c \in Children /\ c \notin Producers
      /\ Producers \subseteq Children /\ Consumers \subseteq Children
  BY ConstantsAssumption DEF ConstantsAssumption, Children
<1>2. \A d \in Children : /\ pc'[d] = IF d = c THEN to ELSE pc[d]
                          /\ msg'[d] = IF d = c THEN m ELSE msg[d]
  BY DEF TypeOK
<1>3. UNCHANGED Offered
  BY <1>1, <1>2 DEF Offered
<1>4. Taken' = [Taken EXCEPT ![c] = m]
  BY <1>1, <1>2 DEF Taken
<1> QED
  BY <1>1, <1>2, <1>3, <1>4 DEF Taken

\* The message is out: the copy is what the consumer works on.
LEMMA GetCopyStep ==
  ASSUME IInv, MInv, NEW c \in Consumers, get_copy(c), count # 0
  PROVE  MInv' /\ Fifo!Next
<1>1. /\ pc[c] = "get" /\ pc' = [pc EXCEPT ![c] = "get_count"] /\ c \in Children
      /\ msg' = [msg EXCEPT ![c] = buffer[Wrapped(tail)]] /\ tail' = Wrapped(tail) + 1
      /\ UNCHANGED <<buffer, head, count>>
  BY DEF get_copy, Goto, Children
<1>2. TypeOK /\ MutualExclusion /\ RingSteps /\ Capacity \in Nat /\ Capacity >= 2
  BY ConstantsAssumption DEF IInv, ConstantsAssumption
<1>3. ~Taking /\ \A q \in Producers : pc[q] # "add_count"
  <2>1. \A d \in Children : pc[d] \notin {"add_count", "get_count"}
    BY <1>1, <1>2, InsideAlone DEF Inside
  <2> QED
    BY <2>1 DEF Taking, Children
<1>4. buffer[Wrapped(tail)] \in Datum
  BY <1>2 DEF TypeOK, Wrapped, Datum
<1>5. /\ pc'[c] = "get_count" /\ msg'[c] = buffer[Wrapped(tail)]
      /\ \A d \in Consumers : d # c => pc'[d] = pc[d] /\ msg'[d] = msg[d]
      /\ \A p \in Producers : pc'[p] = pc[p] /\ msg'[p] = msg[p]
      /\ UNCHANGED Offered
      /\ Taken' = [Taken EXCEPT ![c] = buffer[Wrapped(tail)]]
      /\ Taken[c] = msg[c]
  BY <1>1, <1>2, <1>4, ConsumerMoves
<1>6. MInv'
  BY <1>1, <1>3, <1>5 DEF MInv, Holding
<1>7. Taken[c] = NoMessage /\ Taking'
  BY <1>1, <1>5 DEF MInv, Holding, Taking
<1>8. RingShape(buffer, tail, count)
  BY <1>2 DEF TypeOK, RingShape, Datum
<1>9. /\ RingShape(buffer, tail', count - 1)
      /\ Row(buffer, tail, count) # <<>>
      /\ Head(Row(buffer, tail, count)) = buffer[Wrapped(tail)]
      /\ Row(buffer, tail', count - 1) = Tail(Row(buffer, tail, count))
  BY ONLY <1>1, <1>8, count # 0, RowShrinks
<1>10. Contents = Row(buffer, tail, count) /\ Contents' = Row(buffer, tail', count - 1)
  BY <1>1, <1>3, <1>7, ContentsInRow DEF Size
<1>11. Len(Contents') <= Capacity - 1 /\ Capacity - 1 \in Nat
  <2>1. Len(Row(buffer, tail', count - 1)) = count - 1
    BY ONLY <1>9, RowTyped
  <2> QED
    BY <1>2, <1>8, <1>10, <2>1 DEF RingShape
<1>12. Fifo!Get(c)
  BY <1>5, <1>7, <1>9, <1>10, <1>11 DEF Fifo!Get, Fifo!BoundHolds, Offered, Offering, Taken
<1> QED
  BY <1>6, <1>12 DEF Fifo!Next

LEMMA GetCountStep ==
  ASSUME IInv, MInv, NEW c \in Consumers, get_count(c)
  PROVE  MInv' /\ UNCHANGED Fifo!vars
<1>1. /\ pc[c] = "get_count" /\ pc' = [pc EXCEPT ![c] = "c_unlock"] /\ c \in Children
      /\ count' = count - 1 /\ UNCHANGED <<buffer, head, tail, msg>>
  BY DEF get_count, Goto, Children
<1>2. TypeOK /\ MutualExclusion
  BY DEF IInv
<1>3. Taking /\ \A d \in Consumers : d # c => pc[d] # "get_count"
  <2>1. \A d \in Children : pc[d] = "get_count" => d = c
    BY <1>1, <1>2, InsideAlone DEF Inside
  <2> QED
    BY <1>1, <2>1 DEF Taking, Children
<1>4. msg[c] \in Datum /\ msg' = [msg EXCEPT ![c] = msg[c]]
  BY <1>1, <1>2 DEF Datum, TypeOK
<1>5. /\ pc'[c] = "c_unlock" /\ msg'[c] = msg[c]
      /\ \A d \in Consumers : d # c => pc'[d] = pc[d] /\ msg'[d] = msg[d]
      /\ \A p \in Producers : pc'[p] = pc[p] /\ msg'[p] = msg[p]
      /\ UNCHANGED Offered
      /\ Taken' = [Taken EXCEPT ![c] = msg[c]]
      /\ Taken[c] = msg[c]
  BY <1>1, <1>2, <1>4, ConsumerMoves
<1>6. MInv'
  BY <1>1, <1>5 DEF MInv, Holding
<1>7. ~Taking'
  BY <1>3, <1>5 DEF Taking
<1>8. UNCHANGED <<Contents, Taken>>
  BY <1>1, <1>3, <1>7, ContentsInRow DEF Size, Taken
<1> QED
  BY <1>5, <1>6, <1>8 DEF Fifo!vars, Offered, Offering, Taken

LEMMA VerifyStep ==
  ASSUME TypeOK, MInv, NEW c \in Consumers, process_and_verify_message(c)
  PROVE  MInv' /\ Fifo!Next
<1>1. /\ pc[c] = "verify" /\ pc' = [pc EXCEPT ![c] = "wait_filled"]
      /\ msg' = [msg EXCEPT ![c] = NoMessage] /\ NoMessage \in Datum
      /\ UNCHANGED <<buffer, head, tail, count>>
  BY DEF process_and_verify_message, Goto, queueVars, Datum
<1>2. /\ pc'[c] = "wait_filled" /\ msg'[c] = NoMessage
      /\ \A d \in Consumers : d # c => pc'[d] = pc[d] /\ msg'[d] = msg[d]
      /\ \A p \in Producers : pc'[p] = pc[p] /\ msg'[p] = msg[p]
      /\ UNCHANGED Offered
      /\ Taken' = [Taken EXCEPT ![c] = NoMessage]
      /\ Taken[c] = msg[c]
  BY <1>1, ConsumerMoves
<1>3. MInv'
  BY <1>1, <1>2 DEF MInv, Holding
<1>4. UNCHANGED Contents
  BY <1>1, <1>2, ContentsInRow DEF Size, Taking
<1>5. Fifo!Finish(c)
  BY <1>1, <1>2, <1>4 DEF Fifo!Finish, Offered, Offering, Taken
<1> QED
  BY <1>3, <1>5 DEF Fifo!Next

-----------------------------------------------------------------------------
LEMMA FifoStep ==
  ASSUME IInv, IInv', MInv, [Next]_vars
  PROVE  MInv' /\ [Fifo!Next]_Fifo!vars
<1>0. TypeOK
  BY DEF IInv
<1>1. ASSUME NEW p \in Producers, Producer(p)
      PROVE  MInv' /\ [Fifo!Next]_Fifo!vars
  <2>0. p \in Children
    BY DEF Children
  <2>1. CASE generate_and_fill_message(p) \/ PostFilled(p) \/ add_store(p) \/ add_count(p)
    BY <1>0, <2>1, GenerateStep, PostFilledStep, AddStoreStep, AddCountStep
  <2>2. CASE add_full(p)
    BY <2>2, StillStep DEF add_full, queueVars, childVars
  <2>3. CASE WaitEmpty(p)
    BY <1>0, <2>0, <2>3, RingKept DEF WaitEmpty, Goto, queueVars, Offering, Holding
  <2>4. CASE ProducerLock(p)
    BY <1>0, <2>0, <2>4, RingKept DEF ProducerLock, Goto, queueVars, Offering, Holding
  <2>5. CASE ProducerUnlock(p)
    BY <1>0, <2>0, <2>5, RingKept DEF ProducerUnlock, Goto, queueVars, Offering, Holding
  <2> QED
    BY <1>1, <2>1, <2>2, <2>3, <2>4, <2>5 DEF Producer
<1>2. ASSUME NEW c \in Consumers, Consumer(c)
      PROVE  MInv' /\ [Fifo!Next]_Fifo!vars
  <2>0. c \in Children
    BY DEF Children
  <2>1. CASE (get_copy(c) /\ count # 0) \/ get_count(c) \/ process_and_verify_message(c)
    BY <1>0, <2>1, GetCopyStep, GetCountStep, VerifyStep
  <2>2. CASE get_copy(c) /\ count = 0
    BY <2>2, StillStep DEF get_copy, childVars
  <2>3. CASE WaitFilled(c)
    BY <1>0, <2>0, <2>3, RingKept DEF WaitFilled, Goto, queueVars, Offering, Holding
  <2>4. CASE ConsumerLock(c)
    BY <1>0, <2>0, <2>4, RingKept DEF ConsumerLock, Goto, queueVars, Offering, Holding
  <2>5. CASE ConsumerUnlock(c)
    BY <1>0, <2>0, <2>5, RingKept DEF ConsumerUnlock, Goto, queueVars, Offering, Holding
  <2>6. CASE PostEmpty(c)
    BY <1>0, <2>0, <2>6, RingKept DEF PostEmpty, Goto, queueVars, Offering, Holding
  <2> QED
    BY <1>2, <2>1, <2>2, <2>3, <2>4, <2>5, <2>6 DEF Consumer
<1>3. CASE \E c \in Children : SemopFails(c) \/ Die(c)
  BY <1>3, StillStep DEF SemopFails, Die, queueVars, childVars
<1>4. CASE Main
  <2>1. CASE spawn_producer_process \/ spawn_consumer_process
    <3>1. PICK c \in Children, to \in {"generate", "wait_filled"} :
            pc[c] = "unborn" /\ pc' = [pc EXCEPT ![c] = to]
      BY <2>1 DEF spawn_producer_process, spawn_consumer_process, Children
    <3>2. UNCHANGED <<buffer, head, tail, count, msg>>
      BY <2>1 DEF spawn_producer_process, spawn_consumer_process, queueVars
    <3> QED
      BY <1>0, <3>1, <3>2, RingKept DEF Offering, Holding
  <2>2. UNCHANGED <<queueVars, msg>> /\ (pc' = pc \/ spawn_producer_process \/ spawn_consumer_process)
    BY <1>4 DEF Main, MainProceeds, spawn_producer_process, spawn_consumer_process, ForkFails,
      terminate_last_producer, terminate_last_consumer, display_current_status, StatusFails, Quit,
      WaitChild, StatusLock, StatusUnlock, CleanupKill, CleanupWait, CleanupRemove, Reap, childVars
  <2> QED
    BY <2>1, <2>2, StillStep DEF queueVars
<1>5. CASE UNCHANGED vars
  BY <1>5, StillStep DEF vars, queueVars, childVars
<1> QED
  BY <1>1, <1>2, <1>3, <1>4, <1>5 DEF Next

\* With any number of children, killed or exiting at any of their steps, the ring in
\* the shared segment is a FIFO buffer of BUFFER_CAPACITY - 1 messages.
THEOREM FifoImplemented == Spec => ImplementsFifo
<1>1. Init => MInv /\ Fifo!Init
  <2> SUFFICES ASSUME Init PROVE MInv /\ Fifo!Init
    OBVIOUS
  <2>1. MInv
    BY DEF Init, MInv, Offering, Holding, Children
  <2>2. Contents = <<>> /\ Capacity - 1 \in Nat
    <3>1. Contents = [i \in 1 .. 0 |-> buffer[(tail + i - 1) % Capacity]]
      BY DEF Init, Contents, Children
    <3> QED
      BY <3>1, ConstantsAssumption DEF ConstantsAssumption
  <2> QED
    BY <2>1, <2>2 DEF Init, Fifo!Init, Children
<1>2. IInv /\ IInv' /\ MInv /\ [Next]_vars => MInv' /\ [Fifo!Next]_Fifo!vars
  BY FifoStep
<1> QED
  BY <1>1, <1>2, Invariant, PTL DEF Spec, ImplementsFifo, Fifo!Spec
=============================================================================
