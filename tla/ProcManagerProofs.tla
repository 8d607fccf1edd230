------------------------- MODULE ProcManagerProofs --------------------------
(***************************************************************************)
(* Proofs about ProcManager, for any number of children, any array, and a  *)
(* handler that runs between any two steps of main: the array lists        *)
(* children only, main and the handler stay inside it, and at the prompt   *)
(* it lists exactly those that should live, unless the handler collected a *)
(* child at one of the places Disturbs names.                              *)
(*                                                                         *)
(* The inductive invariant follows main through each command: how far the  *)
(* array is filled by then, what it lists although the handler may have    *)
(* removed children from it since main looked at it, what main's search    *)
(* has ruled out so far, and where the gap is that main is closing.        *)
(***************************************************************************)
EXTENDS ProcManager, WellFoundedInduction, TLAPS

-----------------------------------------------------------------------------
(* The inductive invariant.                                                *)

\* Entries from the start of the array that have been filled by now: size, or what
\* it was when main read it, or the place main fills for a child.
Filled ==
  CASE main = "write" -> index
    [] main = "grow" -> index + 1
    [] main = "grown" -> loaded + 1
    [] main \in {"dropped", "unloaded"} -> loaded
    [] OTHER -> size

\* The handler may lower size at any place, but what main has still to store is within
\* the array, and the entries below it are children.
Room ==
  /\ capacity > 0
  /\ size <= Filled /\ Filled <= capacity
  /\ \A i \in 0 .. Filled - 1 : child_processes[i] \in Children
  /\ main \in {"fork", "init"} => size < capacity
  /\ main \in {"grow", "grown"} => size < Filled
  /\ main \in {"realloc", "moved", "fork"} => Unborn # {}
  /\ main \in {"init", "write"} => pid \in Children
  /\ main = "pick" => child_processes[index] \in Children
  /\ main \in {"load", "store"} => index + 1 < capacity
  /\ main = "load" => child_processes[index + 1] \in Children
  /\ main = "store" => pid \in Children

\* Pids go up, and only a child can be told to end.
Ages ==
  /\ \A c, d \in Children : state[c] = "unborn" /\ state[d] # "unborn" => d < c
  /\ \A c \in told : state[c] # "unborn"

Held(list, n) == {list[i] : i \in 0 .. n - 1}
Rising(list, n) == \A i, j \in 0 .. n - 1 : i < j => list[i] < list[j]

\* Who should be kept is in S, but for children that ended and are not collected yet:
\* main takes one out without telling it when it ends just before kill.
Near(S) == S \subseteq Kept /\ Kept \ S \subseteq Zombies

\* While main closes the gap: where it is, and the list without it.
Gap == IF index < size THEN index ELSE size - 1
HeldBut(list, g, n) == {list[i] : i \in (0 .. n - 1) \ {g}}
RisingBut(list, g, n) == \A i, j \in (0 .. n - 1) \ {g} : i < j => list[i] < list[j]

\* What is in the gap was collected, or is still found at its place before the gap.
Spent(g) ==
  \/ state[child_processes[g]] = "reaped"
  \/ \E i \in 0 .. g - 1 : child_processes[i] = child_processes[g]

Level == {"realloc", "moved", "fork", "delete", "check", "pick", "kill", "reap", "sent"}
Raising == {"init", "write"}
Raised == {"grow", "grown"}
Removing == {"shift", "drop"}
Searching == {"find", "compare"}
Closing == {"unlist", "load", "store"}
Lowered == {"unload", "unloaded"}

\* What the array lists at each place of main, as long as the handler has not
\* disturbed it.
InOrder ==
  /\ main = "prompt" => Held(child_processes, size) = Kept
  /\ main \in {"prompt"} \cup Level \cup Raising \cup Removing \cup Searching =>
       Rising(child_processes, size)
  /\ main \in Level => Near(Held(child_processes, size))

WhileAdding ==
  /\ main \in Raising =>
       /\ Near(Held(child_processes, size) \cup {pid})
       /\ \A i \in 0 .. size - 1 : child_processes[i] < pid
  /\ main = "write" => index = size
  /\ main \in Raised =>
       /\ Rising(child_processes, size + 1) /\ Near(Held(child_processes, size + 1))
       /\ child_processes[size] = pid
  /\ main = "grown" => loaded = size

WhileDeleting ==
  /\ main = "check" => index >= size - 1
  /\ main = "pick" =>
       size > 0 /\ index >= size - 1 /\ child_processes[index] = child_processes[size - 1]
  /\ main \in {"kill"} \cup Removing => size > 0 /\ child_processes[size - 1] = pid
  /\ main \in Removing => Near(Held(child_processes, size) \ {pid})
  /\ main = "dropped" =>
       /\ loaded > 0 /\ pid \notin Held(child_processes, loaded - 1)
       /\ Rising(child_processes, loaded - 1) /\ Near(Held(child_processes, loaded - 1))
       /\ size \in {loaded - 1, loaded}

WhileReaping ==
  /\ main \in Searching =>
       /\ pid \in Children /\ state[pid] = "reaped"
       /\ Near(Held(child_processes, size) \ {pid})
       /\ \A i \in 0 .. size - 1 : i < index => child_processes[i] # pid
  /\ main = "compare" /\ index >= size => child_processes[index] # pid
  /\ main \in Closing =>
       /\ size > 0 /\ RisingBut(child_processes, Gap, size)
       /\ Near(HeldBut(child_processes, Gap, size)) /\ Spent(Gap)
  /\ main = "load" /\ index >= size - 1 => state[child_processes[index + 1]] = "reaped"
  /\ main = "store" /\ index < size - 1 => pid = child_processes[index + 1]
  /\ main = "store" /\ index >= size - 1 => state[pid] = "reaped"
  /\ main \in Lowered =>
       size > 0 /\ Rising(child_processes, size - 1) /\ Near(Held(child_processes, size - 1))
  /\ main = "unload" => Spent(size - 1)
  /\ main = "unloaded" => loaded = size

Listing == InOrder /\ WhileAdding /\ WhileDeleting /\ WhileReaping

Sound == Typed /\ Room /\ Ages

IInv ==
  /\ Sound
  /\ broken => raced \/ Dangling
  /\ ~broken /\ ~raced => Listing

-----------------------------------------------------------------------------
(* The array.                                                              *)

\* First is what a search of the array finds.
LEMMA FirstIsLeast ==
  ASSUME NEW S, S \subseteq Nat, S # {}
  PROVE  First(S) \in S /\ \A j \in S : First(S) <= j
<1> DEFINE R == {ss \in Nat \X Nat : ss[1] < ss[2]}
<1>1. IsWellFoundedOn(R, Nat)
  BY NatLessThanWellFounded DEF OpToRel
<1>2. \A x, y \in Nat : <<y, x>> \in R <=> y < x
  OBVIOUS
<1> HIDE DEF R
<1>3. PICK x \in S : \A y \in S : ~ (<<y, x>> \in R)
  BY <1>1, WFMin
<1>4. \A y \in S : x <= y
  <2> TAKE y \in S
  <2>1. x \in Nat /\ y \in Nat
    BY <1>3
  <2>2. ~ (y < x)
    BY <1>2, <1>3, <2>1
  <2> QED
    BY <2>1, <2>2
<1> QED
  BY <1>4 DEF First

\* A child is taken out of the array, if it is there.
LEMMA UnlistProps ==
  ASSUME Typed, NEW c \in Children, Unlist(c)
  PROVE  \/ UNCHANGED arrayVars /\ \A i \in 0 .. size - 1 : child_processes[i] # c
         \/ \E k \in 0 .. size - 1 :
              /\ child_processes[k] = c /\ \A j \in 0 .. k - 1 : child_processes[j] # c
              /\ Listed(c) /\ First(Entries(c)) = k
              /\ child_processes' = ClosedUp(k, size)
              /\ size' = size - 1 /\ capacity' = capacity
<1>1. CASE Entries(c) = {}
  BY <1>1 DEF Unlist, Entries
<1>2. CASE Entries(c) # {}
  <2>1. size \in Nat /\ Entries(c) \subseteq Nat
    BY DEF Typed, Entries
  <2>2. First(Entries(c)) \in Entries(c)
    BY <1>2, <2>1, FirstIsLeast
  <2>3. PICK k \in 0 .. size - 1 : k = First(Entries(c)) /\ child_processes[k] = c
    BY <2>2 DEF Entries
  <2>4. \A j \in 0 .. k - 1 : child_processes[j] # c
    <3> SUFFICES ASSUME NEW j \in 0 .. k - 1, child_processes[j] = c PROVE FALSE
      OBVIOUS
    <3>1. j \in Entries(c) /\ j < k
      BY <2>1 DEF Entries
    <3> QED
      BY <1>2, <2>1, <2>3, <3>1, FirstIsLeast
  <2> QED
    BY <1>2, <2>3, <2>4 DEF Unlist, Listed
<1> QED
  BY <1>1, <1>2

\* Whoever is in the first n entries, n being size or more, is still a child.
LEMMA UnlistTyped ==
  ASSUME Typed, NEW c \in Children, Unlist(c)
  PROVE  /\ capacity' = capacity /\ size' \in Nat /\ size' <= size
         /\ child_processes' \in [0 .. capacity - 1 -> Children \cup {0}]
         /\ \A i \in 0 .. capacity - 1 :
              child_processes[i] \in Children => child_processes'[i] \in Children
<1>1. CASE UNCHANGED arrayVars
  BY <1>1 DEF Typed, arrayVars
<1>2. CASE \E k \in 0 .. size - 1 :
             /\ child_processes' = ClosedUp(k, size)
             /\ size' = size - 1 /\ capacity' = capacity
  <2>1. PICK k \in 0 .. size - 1 :
          child_processes' = ClosedUp(k, size) /\ size' = size - 1 /\ capacity' = capacity
    BY <1>2
  <2>2. capacity \in Nat /\ size \in 0 .. capacity
        /\ child_processes \in [0 .. capacity - 1 -> Children \cup {0}]
        /\ \A i \in 0 .. size - 1 : child_processes[i] \in Children
    BY DEF Typed
  <2>3. \A i \in 0 .. capacity - 1 :
          child_processes'[i] = IF k <= i /\ i < size - 1 THEN child_processes[i + 1]
                                                          ELSE child_processes[i]
    BY <2>1, <2>2 DEF ClosedUp
  <2>4. child_processes' \in [0 .. capacity - 1 -> Children \cup {0}]
    BY <2>1, <2>2 DEF ClosedUp
  <2> QED
    BY <2>1, <2>2, <2>3, <2>4
<1> QED
  BY <1>1, <1>2, UnlistProps

\* The array without the child at entry k: the others, in the same order.
LEMMA ClosedUpProps ==
  ASSUME Typed, NEW k \in 0 .. size - 1, Rising(child_processes, size)
  PROVE  /\ Rising(ClosedUp(k, size), size - 1)
         /\ Held(ClosedUp(k, size), size - 1) = Held(child_processes, size) \ {child_processes[k]}
         /\ k < size - 1 => ClosedUp(k, size)[size - 2] = child_processes[size - 1]
         /\ \A i \in size - 1 .. capacity - 1 : ClosedUp(k, size)[i] = child_processes[i]
<1> DEFINE new == ClosedUp(k, size)
<1>1. capacity \in Nat /\ size \in 0 .. capacity
      /\ DOMAIN child_processes = 0 .. capacity - 1
      /\ \A i \in 0 .. size - 1 : child_processes[i] \in Nat
  BY ConstantsAssumption DEF Typed, Children, ConstantsAssumption
<1>2. \A i \in 0 .. capacity - 1 :
        new[i] = IF k <= i /\ i < size - 1 THEN child_processes[i + 1] ELSE child_processes[i]
  BY <1>1 DEF ClosedUp
<1> HIDE DEF new
<1>3. Rising(new, size - 1)
  BY <1>1, <1>2 DEF Rising
<1>4. Held(new, size - 1) = Held(child_processes, size) \ {child_processes[k]}
  <2>1. ASSUME NEW x \in Held(new, size - 1)
        PROVE  x \in Held(child_processes, size) \ {child_processes[k]}
    <3>1. PICK i \in 0 .. size - 2 : x = new[i]
      BY <1>1, <2>1 DEF Held
    <3>2. CASE i < k
      BY <1>1, <1>2, <3>1, <3>2 DEF Held, Rising
    <3>3. CASE i >= k
      <4>1. x = child_processes[i + 1] /\ i + 1 \in 0 .. size - 1 /\ k < i + 1
        BY <1>1, <1>2, <3>1, <3>3
      <4> QED
        BY <1>1, <4>1 DEF Held, Rising
    <3> QED
      BY <3>1, <3>2, <3>3
  <2>2. ASSUME NEW x \in Held(child_processes, size) \ {child_processes[k]}
        PROVE  x \in Held(new, size - 1)
    <3>1. PICK i \in 0 .. size - 1 : x = child_processes[i] /\ i # k
      BY <2>2 DEF Held
    <3>2. CASE i < k
      <4>1. i \in 0 .. (size - 1) - 1 /\ new[i] = x
        BY <1>1, <1>2, <3>1, <3>2
      <4> QED
        BY <4>1 DEF Held
    <3>3. CASE i > k
      <4>1. i - 1 \in 0 .. (size - 1) - 1 /\ new[i - 1] = x
        BY <1>1, <1>2, <3>1, <3>3
      <4> QED
        BY <4>1 DEF Held
    <3> QED
      BY <1>1, <3>1, <3>2, <3>3
  <2> QED
    BY <2>1, <2>2
<1>5. k < size - 1 => new[size - 2] = child_processes[size - 1]
  BY <1>1, <1>2
<1>6. \A i \in size - 1 .. capacity - 1 : new[i] = child_processes[i]
  BY <1>1, <1>2
<1> QED
  BY <1>3, <1>4, <1>5, <1>6 DEF new

\* The same while there is a gap at g: the gap moves to h.
LEMMA GapProps ==
  ASSUME Typed, NEW k \in 0 .. size - 1, NEW g \in 0 .. size - 1, k # g,
         RisingBut(child_processes, g, size), NEW h, h = IF k < g THEN g - 1 ELSE g
  PROVE  /\ h \in 0 .. size - 2
         /\ RisingBut(ClosedUp(k, size), h, size - 1)
         /\ HeldBut(ClosedUp(k, size), h, size - 1)
              = HeldBut(child_processes, g, size) \ {child_processes[k]}
         /\ ClosedUp(k, size)[h] = child_processes[g]
         /\ \A i \in 0 .. g - 1 : i # k =>
              \E j \in 0 .. h - 1 : ClosedUp(k, size)[j] = child_processes[i]
<1> DEFINE new == ClosedUp(k, size)
<1>1. capacity \in Nat /\ size \in 0 .. capacity
      /\ DOMAIN child_processes = 0 .. capacity - 1
      /\ \A i \in 0 .. size - 1 : child_processes[i] \in Nat
  BY ConstantsAssumption DEF Typed, Children, ConstantsAssumption
<1>2. \A i \in 0 .. capacity - 1 :
        new[i] = IF k <= i /\ i < size - 1 THEN child_processes[i + 1] ELSE child_processes[i]
  BY <1>1 DEF ClosedUp
<1>3. h \in 0 .. size - 2
  BY <1>1
<1> HIDE DEF new
<1>4. \A i \in 0 .. size - 2 :
        new[i] = IF k <= i THEN child_processes[i + 1] ELSE child_processes[i]
  BY <1>1, <1>2
\* Where the entry at i of the new array was before.
<1> DEFINE old(i) == IF k <= i THEN i + 1 ELSE i
<1>5. \A i \in (0 .. size - 2) \ {h} :
        old(i) \in (0 .. size - 1) \ {g} /\ old(i) # k /\ new[i] = child_processes[old(i)]
  BY <1>1, <1>3, <1>4
<1>6. \A i, j \in 0 .. size - 2 : i < j => old(i) < old(j)
  BY <1>1
<1>7. RisingBut(new, h, size - 1)
  <2>1. ASSUME NEW i \in (0 .. (size - 1) - 1) \ {h}, NEW j \in (0 .. (size - 1) - 1) \ {h}, i < j
        PROVE  new[i] < new[j]
    <3>1. i \in (0 .. size - 2) \ {h} /\ j \in (0 .. size - 2) \ {h}
      BY <1>1
    <3>2. new[i] = child_processes[old(i)] /\ new[j] = child_processes[old(j)] /\ old(i) < old(j)
          /\ old(i) \in (0 .. size - 1) \ {g} /\ old(j) \in (0 .. size - 1) \ {g}
      BY <1>5, <1>6, <2>1, <3>1
    <3> HIDE DEF old
    <3> QED
      BY <3>2 DEF RisingBut
  <2> QED
    BY <2>1 DEF RisingBut
<1>8. HeldBut(new, h, size - 1) = HeldBut(child_processes, g, size) \ {child_processes[k]}
  <2>1. ASSUME NEW x \in HeldBut(new, h, size - 1)
        PROVE  x \in HeldBut(child_processes, g, size) \ {child_processes[k]}
    <3>1. PICK i \in (0 .. size - 2) \ {h} : x = new[i]
      BY <1>1, <2>1 DEF HeldBut
    <3>2. PICK m \in (0 .. size - 1) \ {g} : m # k /\ x = child_processes[m]
      BY <1>5, <3>1
    <3>3. child_processes[m] # child_processes[k]
      <4>1. k \in (0 .. size - 1) \ {g} /\ (m < k \/ k < m)
        BY <1>1, <3>2
      <4> QED
        BY <1>1, <3>2, <4>1 DEF RisingBut
    <3> QED
      BY <3>2, <3>3 DEF HeldBut
  <2>2. ASSUME NEW x \in HeldBut(child_processes, g, size) \ {child_processes[k]}
        PROVE  x \in HeldBut(new, h, size - 1)
    <3>1. PICK m \in (0 .. size - 1) \ {g} : x = child_processes[m] /\ m # k
      BY <2>2 DEF HeldBut
    <3>2. CASE m < k
      <4>1. m \in (0 .. (size - 1) - 1) \ {h} /\ new[m] = x
        BY <1>1, <1>4, <3>1, <3>2
      <4> QED
        BY <4>1 DEF HeldBut
    <3>3. CASE m > k
      <4>1. m - 1 \in (0 .. (size - 1) - 1) \ {h} /\ new[m - 1] = x
        BY <1>1, <1>4, <3>1, <3>3
      <4> QED
        BY <4>1 DEF HeldBut
    <3> QED
      BY <1>1, <3>1, <3>2, <3>3
  <2> QED
    BY <2>1, <2>2
<1>9. new[h] = child_processes[g]
  BY <1>1, <1>3, <1>4
<1>10. ASSUME NEW i \in 0 .. g - 1, i # k
       PROVE  \E j \in 0 .. h - 1 : new[j] = child_processes[i]
  <2>1. CASE i < k
    <3>1. i \in 0 .. h - 1 /\ new[i] = child_processes[i]
      BY <1>1, <1>4, <1>10, <2>1
    <3> QED
      BY <3>1
  <2>2. CASE i > k
    <3>1. i - 1 \in 0 .. h - 1 /\ new[i - 1] = child_processes[i]
      BY <1>1, <1>4, <1>10, <2>2
    <3> QED
      BY <3>1
  <2> QED
    BY <1>1, <1>10, <2>1, <2>2
<1> QED
  BY <1>3, <1>7, <1>8, <1>9, <1>10 DEF new

\* A gap at the end is no gap in what is before it.
LEMMA LastGap ==
  ASSUME NEW list, NEW n \in Nat, n > 0
  PROVE  /\ RisingBut(list, n - 1, n) <=> Rising(list, n - 1)
         /\ HeldBut(list, n - 1, n) = Held(list, n - 1)
<1>1. (0 .. n - 1) \ {n - 1} = 0 .. (n - 1) - 1
  OBVIOUS
<1> QED
  BY <1>1 DEF RisingBut, Rising, HeldBut, Held

-----------------------------------------------------------------------------
(* Types, and the room in the array.                                       *)

LEMMA InitSound == Init => Sound
<1> SUFFICES ASSUME Init PROVE Sound
  OBVIOUS
<1>1. Typed
  <2>1. /\ capacity \in Nat /\ size \in 0 .. capacity
        /\ index \in 0 .. capacity /\ index < capacity
        /\ child_processes \in [0 .. capacity - 1 -> Children \cup {0}]
        /\ \A i \in 0 .. size - 1 : child_processes[i] \in Children
        /\ loaded \in 0 .. capacity
    BY ConstantsAssumption DEF ConstantsAssumption, Init
  <2> QED
    BY <2>1 DEF Init, Typed, Places
<1>2. Filled = 0
  BY DEF Init, Filled
<1>3. Room
  BY <1>2, ConstantsAssumption DEF ConstantsAssumption, Init, Room
<1>4. Ages
  BY DEF Init, Ages
<1> QED
  BY <1>1, <1>3, <1>4 DEF Sound

\* What the types say of the numbers.
LEMMA Numbers ==
  ASSUME Sound
  PROVE  /\ capacity \in Nat /\ size \in Nat /\ index \in Nat /\ loaded \in Nat
         /\ Filled \in Nat /\ Children \subseteq Nat \ {0}
BY ConstantsAssumption DEF ConstantsAssumption, Sound, Typed, Filled, Children

\* What is below the smaller of two numbers is below the other.
LEMMA Below ==
  ASSUME NEW n \in Nat, NEW m \in Nat, n <= m, NEW i \in 0 .. n - 1
  PROVE  i \in 0 .. m - 1
OBVIOUS

\* Children only change what they do themselves, and never become unborn again.
LEMMA ChildSound ==
  ASSUME Sound, NEW c \in Children, Child(c)
  PROVE  Sound'
<1>1. UNCHANGED <<arrayVars, mainVars, handling, told, broken, raced>>
  BY DEF Child, Report, Ends, childVars
<1>2. pending' \subseteq {"SIGUSR", "SIGCHLD"}
  BY DEF Child, Report, Ends, Send, Sound, Typed
<1>3. /\ state' \in [Children -> {"unborn", "running", "zombie", "reaped"}]
      /\ \A d \in Children : state'[d] = "unborn" <=> state[d] = "unborn"
  BY DEF Child, Report, Ends, Become, Sound, Typed, childVars
<1>4. Typed'
  BY <1>1, <1>2, <1>3 DEF Sound, Typed, arrayVars, mainVars, localVars
<1>5. Unborn' = Unborn /\ Filled' = Filled
  BY <1>1, <1>3 DEF Unborn, Filled, arrayVars, mainVars, localVars
<1>6. Room'
  BY <1>1, <1>5 DEF Sound, Room, arrayVars, mainVars, localVars
<1>7. Ages'
  BY <1>1, <1>3 DEF Sound, Ages, Typed
<1> QED
  BY <1>4, <1>6, <1>7 DEF Sound

\* The handler takes entries out, and leaves what main is about to use within the array.
LEMMA HandlerSound ==
  ASSUME Sound, signal_handler_usr \/ Collect
  PROVE  Sound'
<1>1. CASE signal_handler_usr \/ signal_handler_chld \/ HandlerReturns
  <2>1. /\ UNCHANGED <<arrayVars, mainVars, childVars, raced>>
        /\ pending' \subseteq pending /\ handling' \in BOOLEAN /\ broken' \in BOOLEAN
    BY <1>1 DEF signal_handler_usr, signal_handler_chld, HandlerReturns, Deliver, Sound, Typed
  <2>2. Typed'
    BY <2>1 DEF Sound, Typed, arrayVars, mainVars, localVars, childVars
  <2>3. Unborn' = Unborn /\ Filled' = Filled
    BY <2>1 DEF Unborn, Filled, arrayVars, mainVars, localVars, childVars
  <2>4. Room' /\ Ages'
    BY <2>1, <2>3 DEF Sound, Room, Ages, arrayVars, mainVars, localVars, childVars
  <2> QED
    BY <2>2, <2>4 DEF Sound
<1>2. ASSUME NEW c \in Children, HandlerReaps(c)
      PROVE  Sound'
  <2>1. UNCHANGED arrayVars \/ Unlist(c)
    BY <1>2 DEF HandlerReaps
  <2>2. /\ capacity' = capacity /\ size' \in Nat /\ size' <= size
        /\ child_processes' \in [0 .. capacity - 1 -> Children \cup {0}]
        /\ \A i \in 0 .. capacity - 1 :
             child_processes[i] \in Children => child_processes'[i] \in Children
    <3>1. Typed
      BY DEF Sound
    <3>2. CASE UNCHANGED arrayVars
      BY <3>1, <3>2 DEF arrayVars, Typed
    <3> QED
      BY <2>1, <3>1, <3>2, UnlistTyped
  <2>3. /\ UNCHANGED <<mainVars, sigVars, told>>
        /\ broken' \in BOOLEAN /\ raced' \in BOOLEAN
    BY <1>2 DEF HandlerReaps, Sound, Typed, Disturbs
  <2>4. /\ state' \in [Children -> {"unborn", "running", "zombie", "reaped"}]
        /\ \A d \in Children : state'[d] = "unborn" <=> state[d] = "unborn"
    BY <1>2 DEF HandlerReaps, Become, Sound, Typed
  <2>5. capacity \in Nat /\ size \in 0 .. capacity
        /\ \A i \in 0 .. size - 1 : child_processes[i] \in Children
    BY DEF Sound, Typed
  <2>a. capacity \in Nat /\ size \in Nat /\ size <= capacity /\ size' \in Nat /\ size' <= size
    BY <2>2, <2>5
  <2>6. Typed'
    <3>1. size' \in 0 .. capacity'
      BY <2>2, <2>5
    <3>2. ASSUME NEW i \in 0 .. size' - 1
          PROVE  child_processes'[i] \in Children
      <4>1. i \in 0 .. size - 1 /\ i \in 0 .. capacity - 1
        BY <2>a, <3>2, Below
      <4> QED
        BY <2>2, <2>5, <4>1
    <3> QED
      BY <2>2, <2>3, <2>4, <3>1, <3>2 DEF Sound, Typed, mainVars, localVars, sigVars
  <2>7. Unborn' = Unborn
    BY <2>4 DEF Unborn
  <2>8. size' <= Filled' /\ Filled' <= Filled /\ Filled' \in Nat /\ Filled \in Nat
        /\ (main \in {"grow", "grown"} => size' < Filled')
    BY <2>2, <2>3, Numbers DEF Filled, Sound, Room, mainVars, localVars
  <2>9. Room'
    <3>1. Room /\ index \in 0 .. capacity /\ (main # "find" => index < capacity)
      BY DEF Sound, Typed
    <3>2. ASSUME NEW i \in 0 .. Filled' - 1
          PROVE  child_processes'[i] \in Children
      <4>1. i \in 0 .. Filled - 1 /\ i \in 0 .. capacity - 1
        <5>1. Filled <= capacity /\ Filled' <= Filled /\ Filled' \in Nat /\ Filled \in Nat
          BY <2>8, <3>1 DEF Room
        <5> QED
          BY <2>a, <3>2, <5>1, Below
      <4> QED
        BY <2>2, <3>1, <4>1 DEF Room
    <3>3. capacity' > 0 /\ size' <= Filled' /\ Filled' <= capacity'
      BY <2>2, <2>5, <2>8, <3>1 DEF Room
    <3>4. main' \in {"fork", "init"} => size' < capacity'
      BY <2>2, <2>3, <2>5, <3>1 DEF Room, mainVars
    <3>5. main' = "pick" => child_processes'[index'] \in Children
      <4>1. main = "pick" => index \in 0 .. capacity - 1
        BY <2>5, <3>1
      <4> QED
        BY <2>2, <2>3, <3>1, <4>1 DEF Room, mainVars, localVars
    <3>6. /\ main' \in {"load", "store"} => index' + 1 < capacity'
          /\ main' = "load" => child_processes'[index' + 1] \in Children
      <4>1. main \in {"load", "store"} => index + 1 \in 0 .. capacity - 1
        BY <2>5, <3>1 DEF Room
      <4> QED
        BY <2>2, <2>3, <3>1, <4>1 DEF Room, mainVars, localVars
    <3> QED
      BY <2>2, <2>3, <2>7, <2>8, <3>1, <3>2, <3>3, <3>4, <3>5, <3>6 DEF Room, mainVars, localVars
  <2>10. Ages'
    BY <2>3, <2>4 DEF Sound, Ages, Typed
  <2> QED
    BY <2>6, <2>9, <2>10 DEF Sound
<1> QED
  BY <1>1, <1>2 DEF Collect

\* size is set to how far the array is filled, or to less.
LEMMA StoreSound ==
  ASSUME Sound, NEW n \in Nat, n <= Filled, NEW from, NEW to \in {"reap", "delete"},
         StoreSize(from, to, n)
  PROVE  Sound'
<1>1. /\ size' = n /\ main' = to /\ index' = 0 /\ pid' = 0 /\ loaded' = 0
      /\ UNCHANGED <<child_processes, capacity, key, sigVars, childVars, broken, raced>>
  BY DEF StoreSize, Goto, Return
<1>2. /\ capacity \in Nat /\ capacity > 0 /\ Filled <= capacity
      /\ \A i \in 0 .. Filled - 1 : child_processes[i] \in Children
  BY DEF Sound, Typed, Room
<1>3. n \in 0 .. capacity /\ \A i \in 0 .. n - 1 : child_processes[i] \in Children
  BY <1>2, Numbers
<1>4. 0 < capacity /\ 0 \in 0 .. capacity
  BY <1>2
<1>5. Typed'
  BY <1>1, <1>3, <1>4 DEF Sound, Typed, Places, sigVars, childVars
<1>6. Filled' = n
  BY <1>1 DEF Filled
<1>7. Room'
  BY <1>1, <1>2, <1>3, <1>6 DEF Room
<1>8. Ages'
  BY <1>1 DEF Sound, Ages, childVars
<1> QED
  BY <1>5, <1>7, <1>8 DEF Sound

\* A step of main that leaves the array alone.
LEMMA NoStore ==
  ASSUME Sound, UNCHANGED <<arrayVars, sigVars, raced>>, broken' \in BOOLEAN,
         main' \in Places, key' \in {"none", "+", "-", "l", "k", "q"},
         index' \in 0 .. capacity, main' # "find" => index' < capacity,
         pid' \in Children \cup {0}, loaded' \in 0 .. capacity,
         main' \in {"kill", "init", "write", "store"} => pid' \in Children,
         state' \in [Children -> {"unborn", "running", "zombie", "reaped"}],
         told' \subseteq Children, Ages',
         size <= Filled', Filled' <= Filled, Filled' \in Nat,
         main' \in {"fork", "init"} => size < capacity,
         main' \in {"grow", "grown"} => size < Filled',
         main' \in {"realloc", "moved", "fork"} => Unborn' # {},
         main' = "pick" => child_processes[index'] \in Children,
         main' \in {"load", "store"} => index' + 1 < capacity,
         main' = "load" => child_processes[index' + 1] \in Children
  PROVE  Sound'
<1>1. Typed'
  BY DEF Sound, Typed, arrayVars, sigVars
<1>2. \A i \in 0 .. Filled' - 1 : i \in 0 .. Filled - 1
  BY Numbers, Below
<1>3. Filled' <= capacity
  BY Numbers DEF Sound, Room
<1>4. Room'
  BY <1>2, <1>3 DEF Sound, Room, arrayVars
<1> QED
  BY <1>1, <1>4 DEF Sound

\* And one that leaves its locals and the children alone as well.
LEMMA OnlyMoves ==
  ASSUME Sound, UNCHANGED <<arrayVars, localVars, sigVars, childVars, raced>>,
         broken' \in BOOLEAN, key' \in {"none", "+", "-", "l", "k", "q"},
         main' \in Places, main # "find" \/ index < size,
         main' \notin {"kill", "init", "write", "grow", "grown", "dropped", "unloaded", "store"},
         main' = "fork" => size < capacity,
         main' \in {"realloc", "moved", "fork"} => Unborn # {},
         main' = "pick" => index < size,
         main' = "load" => index < size - 1
  PROVE  Sound'
<1>1. Ages' /\ Unborn' = Unborn
  BY DEF Sound, Ages, childVars, Unborn
<1>2. Filled' = size /\ size <= Filled
  BY DEF Filled, arrayVars, Sound, Room
<1>3. index < size => child_processes[index] \in Children
  BY DEF Sound, Typed
<1>4. index < size - 1 => child_processes[index + 1] \in Children /\ index + 1 < capacity
  BY DEF Sound, Typed
<1>5. index < capacity
  BY DEF Sound, Typed
<1> QED
  BY <1>1, <1>2, <1>3, <1>4, <1>5, NoStore, Numbers DEF Sound, Typed, localVars, childVars

\* main reads size for size--.
LEMMA LoadLowerSound ==
  ASSUME Sound, LoadSize("drop", "dropped") \/ LoadSize("unload", "unloaded")
  PROVE  Sound'
<1>1. /\ UNCHANGED <<arrayVars, key, index, pid, sigVars, childVars, broken, raced>>
      /\ main # "find" /\ main' \in {"dropped", "unloaded"} /\ loaded' = size
  BY DEF LoadSize, Goto, At
<1>2. Filled' = size /\ size <= Filled
  BY <1>1 DEF Filled, Sound, Room
<1>3. Ages'
  BY <1>1 DEF Sound, Ages, childVars
<1> QED
  BY <1>1, <1>2, <1>3, NoStore, Numbers DEF Sound, Typed, Places, childVars

\* size-- of 0 ends the behaviour.
LEMMA WrapsSound ==
  ASSUME Sound, NEW from \in {"dropped", "unloaded"}, Wraps(from)
  PROVE  Sound'
<1>1. /\ UNCHANGED <<arrayVars, mainVars, sigVars, childVars, raced>> /\ broken' = TRUE
      /\ main = from
  BY DEF Wraps, At
<1>2. Filled' = Filled /\ Ages'
  BY <1>1 DEF Filled, Sound, Ages, arrayVars, mainVars, localVars, childVars
<1>3. size <= Filled
  BY DEF Sound, Room
<1> QED
  BY <1>1, <1>2, <1>3, NoStore, Numbers DEF Sound, Typed, Places, childVars, mainVars, localVars

\* The steps of main, one lemma for each function it is in.
LEMMA PressSound ==
  ASSUME Sound, PressPlus \/ PressMinus \/ PressDelete \/ PressList
  PROVE  Sound'
<1>1. /\ UNCHANGED <<arrayVars, localVars, sigVars, childVars, broken, raced>>
      /\ key' \in {"+", "-", "l", "k", "q"}
      /\ main = "prompt" /\ main' \in {"realloc", "fork", "reap", "delete", "leave"}
      /\ main' = "fork" => size < capacity
      /\ main' \in {"realloc", "fork"} => Unborn # {}
  BY DEF PressPlus, PressMinus, PressDelete, PressList, Press, Goto, At
<1> QED
  BY <1>1, OnlyMoves DEF Places, Sound, Typed

LEMMA PlusSound ==
  ASSUME Sound, Plus
  PROVE  Sound'
<1>1. ASSUME Realloc
      PROVE  Sound'
  <2>1. /\ UNCHANGED <<arrayVars, key, localVars, sigVars, childVars, broken, raced>>
        /\ main = "realloc" /\ main' \in {"moved", "reap"}
    BY <1>1 DEF Realloc, Goto, At
  <2> QED
    BY <2>1, OnlyMoves DEF Places, Sound, Typed, Room
<1>2. ASSUME TakeMoved
      PROVE  Sound'
  <2>1. /\ main = "moved" /\ main' = "fork" /\ child_processes' = Grown /\ capacity' = 2 * capacity
        /\ UNCHANGED <<size, key, localVars, sigVars, childVars, broken, raced>>
    BY <1>2 DEF TakeMoved, Goto, At
  <2>2. /\ capacity \in Nat /\ capacity > 0 /\ size \in 0 .. capacity
        /\ child_processes \in [0 .. capacity - 1 -> Children \cup {0}]
        /\ \A i \in 0 .. size - 1 : child_processes[i] \in Children
        /\ index \in 0 .. capacity /\ index < capacity /\ loaded \in 0 .. capacity
    BY <2>1 DEF Sound, Typed, Room
  <2>3. /\ Grown \in [0 .. 2 * capacity - 1 -> Children \cup {0}]
        /\ \A i \in 0 .. size - 1 : Grown[i] \in Children
    BY <2>2 DEF Grown
  <2>4. /\ 2 * capacity \in Nat /\ size \in 0 .. 2 * capacity /\ size < 2 * capacity
        /\ index \in 0 .. 2 * capacity /\ index < 2 * capacity /\ loaded \in 0 .. 2 * capacity
    BY <2>2
  <2>5. Typed'
    BY <2>1, <2>3, <2>4 DEF Sound, Typed, Places, localVars, sigVars, childVars
  <2>6. Filled' = size /\ Unborn' = Unborn
    BY <2>1 DEF Filled, Unborn, childVars
  <2>7. Room'
    BY <2>1, <2>2, <2>3, <2>4, <2>6 DEF Sound, Room
  <2>8. Ages'
    BY <2>1 DEF Sound, Ages, childVars
  <2> QED
    BY <2>5, <2>7, <2>8 DEF Sound
<1>3. ASSUME Fork
      PROVE  Sound'
  <2>1. CASE Goto("fork", "init") /\ pid' = First(Unborn) /\ state' = [state EXCEPT ![First(Unborn)] = "running"]
    <3>1. /\ UNCHANGED <<arrayVars, key, index, loaded, sigVars, told, broken, raced>>
          /\ main = "fork" /\ main' = "init"
      BY <1>3, <2>1 DEF Fork, Goto, At
    <3>2. Unborn # {} /\ Unborn \subseteq Nat
      BY <3>1, Numbers DEF Sound, Room, Unborn
    <3>3. pid' \in Children /\ state[pid'] = "unborn" /\ \A d \in Unborn : pid' <= d
      BY <2>1, <3>2, FirstIsLeast DEF Unborn
    <3>4. state \in [Children -> {"unborn", "running", "zombie", "reaped"}] /\ told \subseteq Children
      BY DEF Sound, Typed
    <3>5. state' \in [Children -> {"unborn", "running", "zombie", "reaped"}]
      BY <2>1, <3>3, <3>4
    <3>6. \A d \in Children : state'[d] = IF d = pid' THEN "running" ELSE state[d]
      BY <2>1, <3>3, <3>4
    <3>7. ASSUME NEW c \in Children, NEW d \in Children, state'[c] = "unborn", state'[d] # "unborn"
          PROVE  d < c
      <4>1. state[c] = "unborn" /\ c # pid'
        BY <3>6, <3>7
      <4>2. c \in Nat /\ d \in Nat /\ pid' \in Nat
        BY <3>3, Numbers
      <4>3. CASE d = pid'
        BY <3>3, <4>1, <4>2, <4>3 DEF Unborn
      <4>4. CASE d # pid'
        BY <3>6, <3>7, <4>1, <4>4 DEF Sound, Ages
      <4> QED
        BY <4>3, <4>4
    <3>8. Ages'
      BY <3>1, <3>4, <3>6, <3>7 DEF Sound, Ages
    <3>9. Filled' = size /\ Filled = size
      BY <3>1 DEF Filled, arrayVars
    <3> QED
      BY <3>1, <3>3, <3>4, <3>5, <3>8, <3>9, NoStore, Numbers DEF Sound, Typed, Room, Places
  <2>2. CASE Goto("fork", "reap") /\ UNCHANGED <<pid, state>>
    <3>1. /\ UNCHANGED <<arrayVars, key, localVars, sigVars, childVars, broken, raced>>
          /\ main = "fork" /\ main' = "reap"
      BY <1>3, <2>2 DEF Fork, Goto, At, localVars, childVars
    <3> QED
      BY <3>1, OnlyMoves DEF Places, Sound, Typed
  <2> QED
    BY <1>3, <2>1, <2>2 DEF Fork
<1>4. ASSUME ReadIndex
      PROVE  Sound'
  <2>1. /\ UNCHANGED <<arrayVars, key, pid, loaded, sigVars, childVars, broken, raced>>
        /\ main = "init" /\ main' = "write" /\ index' = size
    BY <1>4 DEF ReadIndex, Goto, At
  <2>2. Filled' = size /\ Filled = size
    BY <2>1 DEF Filled
  <2>3. size \in 0 .. capacity - 1
    BY <2>1, Numbers DEF Sound, Room
  <2>4. Ages'
    BY <2>1 DEF Sound, Ages, childVars
  <2> QED
    BY <2>1, <2>2, <2>3, <2>4, NoStore, Numbers DEF Sound, Typed, Room, Places, childVars
<1>5. ASSUME init_child_process
      PROVE  Sound'
  <2>1. /\ UNCHANGED <<size, capacity, key, localVars, sigVars, childVars, broken, raced>>
        /\ main = "write" /\ main' = "grow"
        /\ child_processes' = [child_processes EXCEPT ![index] = pid]
    BY <1>5 DEF init_child_process, Goto, At
  <2>2. Filled' = index + 1 /\ Filled = index /\ Unborn' = Unborn
    BY <2>1 DEF Filled, localVars, Unborn, childVars
  <2>3. /\ capacity \in Nat /\ size \in 0 .. capacity /\ size <= index
        /\ child_processes \in [0 .. capacity - 1 -> Children \cup {0}]
        /\ \A i \in 0 .. index - 1 : child_processes[i] \in Children
        /\ index \in 0 .. capacity - 1 /\ pid \in Children
    BY <2>1, <2>2 DEF Sound, Typed, Room
  <2>4. /\ child_processes' \in [0 .. capacity - 1 -> Children \cup {0}]
        /\ \A i \in 0 .. (index + 1) - 1 : child_processes'[i] \in Children
    BY <2>1, <2>3
  <2>5. \A i \in 0 .. size - 1 : child_processes'[i] \in Children
    BY <2>3, <2>4
  <2>6. Typed'
    BY <2>1, <2>4, <2>5 DEF Sound, Typed, Places, localVars, sigVars, childVars
  <2>7. Room'
    BY <2>1, <2>2, <2>3, <2>4 DEF Sound, Room, localVars
  <2>8. Ages'
    BY <2>1 DEF Sound, Ages, childVars
  <2> QED
    BY <2>6, <2>7, <2>8 DEF Sound
<1>6. ASSUME LoadSize("grow", "grown")
      PROVE  Sound'
  <2>1. /\ UNCHANGED <<arrayVars, key, index, pid, sigVars, childVars, broken, raced>>
        /\ main = "grow" /\ main' = "grown" /\ loaded' = size
    BY <1>6 DEF LoadSize, Goto, At
  <2>2. Filled' = size + 1 /\ size < Filled
    BY <2>1 DEF Filled, Sound, Room
  <2>3. Ages'
    BY <2>1 DEF Sound, Ages, childVars
  <2> QED
    BY <2>1, <2>2, <2>3, NoStore, Numbers DEF Sound, Typed, Places, childVars
<1>7. ASSUME StoreSize("grown", "reap", loaded + 1)
      PROVE  Sound'
  <2>1. main = "grown" /\ Filled = loaded + 1
    BY <1>7 DEF StoreSize, Goto, At, Filled
  <2> QED
    BY <1>7, <2>1, StoreSound, Numbers
<1> QED
  BY <1>1, <1>2, <1>3, <1>4, <1>5, <1>6, <1>7 DEF Plus

LEMMA DeleteSound ==
  ASSUME Sound, Delete
  PROVE  Sound'
<1>1. ASSUME DeleteLast
      PROVE  Sound'
  <2>1. /\ UNCHANGED <<arrayVars, key, pid, loaded, sigVars, childVars, broken, raced>>
        /\ main = "delete" /\ main' = "check" /\ index' = size - 1 /\ size > 0
    BY <1>1 DEF DeleteLast, Goto, At
  <2>2. Filled' = size /\ Filled = size
    BY <2>1 DEF Filled, arrayVars
  <2>3. Ages'
    BY <2>1 DEF Sound, Ages, childVars
  <2>4. size - 1 \in 0 .. capacity - 1
    BY <2>1 DEF Sound, Typed
  <2> QED
    BY <2>1, <2>2, <2>3, <2>4, NoStore, Numbers DEF Sound, Typed, Places, childVars
<1>2. ASSUME NoneLeft
      PROVE  Sound'
  <2>1. /\ UNCHANGED <<arrayVars, key, localVars, sigVars, childVars, broken, raced>>
        /\ main = "delete" /\ main' \in {"reap", "sent"}
    BY <1>2 DEF NoneLeft, Goto, At
  <2> QED
    BY <2>1, OnlyMoves DEF Places, Sound, Typed
<1>3. ASSUME CheckIndex
      PROVE  Sound'
  <2>1. CASE index >= size /\ Goto("check", AfterDelete) /\ Return
    <3>1. /\ UNCHANGED <<arrayVars, key, sigVars, childVars, broken, raced>>
          /\ main' \in {"reap", "delete"} /\ index' = 0 /\ pid' = 0 /\ loaded' = 0
      BY <1>3, <2>1 DEF CheckIndex, Goto, Return, AfterDelete
    <3>2. Filled' = size /\ size <= Filled
      BY <3>1 DEF Filled, arrayVars, Sound, Room
    <3>3. Ages'
      BY <3>1 DEF Sound, Ages, childVars
    <3>4. 0 \in 0 .. capacity - 1 /\ 0 \in 0 .. capacity
      BY Numbers DEF Sound, Room
    <3> QED
      BY <3>1, <3>2, <3>3, <3>4, NoStore, Numbers DEF Sound, Typed, Places, childVars
  <2>2. CASE index < size /\ Goto("check", "pick") /\ UNCHANGED localVars
    <3>1. /\ UNCHANGED <<arrayVars, key, localVars, sigVars, childVars, broken, raced>>
          /\ main = "check" /\ main' = "pick" /\ index < size
      BY <1>3, <2>2 DEF CheckIndex, Goto, At
    <3> QED
      BY <3>1, OnlyMoves DEF Places, Sound, Typed
  <2> QED
    BY <1>3, <2>1, <2>2 DEF CheckIndex
<1>4. ASSUME PickPid
      PROVE  Sound'
  <2>1. /\ UNCHANGED <<arrayVars, key, index, loaded, sigVars, childVars, broken, raced>>
        /\ main = "pick" /\ main' = "kill" /\ pid' = child_processes[index]
    BY <1>4 DEF PickPid, Goto, At
  <2>2. Filled' = size /\ Filled = size
    BY <2>1 DEF Filled, arrayVars
  <2>3. Ages'
    BY <2>1 DEF Sound, Ages, childVars
  <2>4. pid' \in Children
    BY <2>1 DEF Sound, Room
  <2> QED
    BY <2>1, <2>2, <2>3, <2>4, NoStore, Numbers DEF Sound, Typed, Places, childVars
<1>5. ASSUME Kill
      PROVE  Sound'
  <2>1. /\ UNCHANGED <<arrayVars, key, localVars, sigVars, state, broken, raced>>
        /\ main = "kill" /\ main' = "shift" /\ told' = IF Alive(pid) THEN told \cup {pid} ELSE told
    BY <1>5 DEF Kill, Goto, At
  <2>2. Filled' = size /\ Filled = size
    BY <2>1 DEF Filled, arrayVars
  <2>3. pid \in Children
    BY <2>1 DEF Sound, Typed
  <2>4. told' \subseteq Children /\ Ages'
    BY <2>1, <2>3 DEF Sound, Ages, Typed, Alive
  <2> QED
    BY <2>1, <2>2, <2>3, <2>4, NoStore, Numbers DEF Sound, Typed, Places, localVars
<1>6. ASSUME Shift
      PROVE  Sound'
  <2>1. /\ UNCHANGED <<arrayVars, key, localVars, sigVars, childVars, raced>>
        /\ broken' \in BOOLEAN /\ main = "shift" /\ main' = "drop"
    BY <1>6 DEF Shift, Goto, At
  <2> QED
    BY <2>1, OnlyMoves DEF Places, Sound, Typed
<1>7. ASSUME LoadSize("drop", "dropped")
      PROVE  Sound'
  BY <1>7, LoadLowerSound
<1>8. ASSUME Wraps("dropped")
      PROVE  Sound'
  BY <1>8, WrapsSound
<1>9. ASSUME loaded > 0, StoreSize("dropped", AfterDelete, loaded - 1)
      PROVE  Sound'
  <2>1. main = "dropped" /\ Filled = loaded
    BY <1>9 DEF StoreSize, Goto, At, Filled
  <2>2. AfterDelete \in {"reap", "delete"} /\ loaded - 1 \in Nat /\ loaded - 1 <= Filled
    BY <1>9, <2>1, Numbers DEF AfterDelete
  <2> QED
    BY <1>9, <2>2, StoreSound
<1> QED
  BY <1>1, <1>2, <1>3, <1>4, <1>5, <1>6, <1>7, <1>8, <1>9 DEF Delete

LEMMA ReapSound ==
  ASSUME Sound, Reap
  PROVE  Sound'
<1>1. ASSUME MainReaps
      PROVE  Sound'
  <2>1. ASSUME NEW c \in Zombies, Goto("reap", "find"), Become(c, "zombie", "reaped"), pid' = c,
               index' = 0, UNCHANGED key
        PROVE  Sound'
    <3>1. /\ UNCHANGED <<arrayVars, key, loaded, sigVars, told, broken, raced>>
          /\ main = "reap" /\ main' = "find" /\ pid' = c /\ index' = 0
      BY <1>1, <2>1 DEF MainReaps, Goto, At
    <3>2. /\ c \in Children
          /\ state' \in [Children -> {"unborn", "running", "zombie", "reaped"}]
          /\ \A d \in Children : state'[d] = "unborn" <=> state[d] = "unborn"
      BY <2>1 DEF Zombies, Become, Sound, Typed
    <3>3. Filled' = size /\ Filled = size
      BY <3>1 DEF Filled, arrayVars
    <3>4. Ages'
      BY <3>1, <3>2 DEF Sound, Ages, Typed
    <3> QED
      BY <3>1, <3>2, <3>3, <3>4, NoStore, Numbers DEF Sound, Typed, Places
  <2>2. CASE Zombies = {} /\ Goto("reap", "prompt") /\ key' = "none" /\ UNCHANGED <<index, pid, state>>
    <3>1. /\ UNCHANGED <<arrayVars, localVars, sigVars, childVars, broken, raced>>
          /\ main = "reap" /\ main' = "prompt" /\ key' = "none"
      BY <1>1, <2>2 DEF MainReaps, Goto, At, localVars, childVars
    <3> QED
      BY <3>1, OnlyMoves DEF Places, Sound, Typed
  <2> QED
    BY <1>1, <2>1, <2>2 DEF MainReaps
<1>2. ASSUME Find
      PROVE  Sound'
  <2>1. CASE index < size /\ Goto("find", "compare") /\ UNCHANGED localVars
    <3>1. /\ UNCHANGED <<arrayVars, key, localVars, sigVars, childVars, broken, raced>>
          /\ main' = "compare" /\ index < size
      BY <1>2, <2>1 DEF Find, Goto
    <3> QED
      BY <3>1, OnlyMoves DEF Places, Sound, Typed
  <2>2. CASE index >= size /\ Goto("find", "reap") /\ Return
    <3>1. /\ UNCHANGED <<arrayVars, key, sigVars, childVars, broken, raced>>
          /\ main' = "reap" /\ index' = 0 /\ pid' = 0 /\ loaded' = 0
      BY <1>2, <2>2 DEF Find, Goto, Return
    <3>2. Filled' = size /\ size <= Filled
      BY <3>1 DEF Filled, arrayVars, Sound, Room
    <3>3. Ages'
      BY <3>1 DEF Sound, Ages, childVars
    <3>4. 0 < capacity /\ 0 \in 0 .. capacity
      BY Numbers DEF Sound, Room
    <3> QED
      BY <3>1, <3>2, <3>3, <3>4, NoStore, Numbers DEF Sound, Typed, Places, childVars
  <2> QED
    BY <1>2, <2>1, <2>2 DEF Find
<1>3. ASSUME Compare
      PROVE  Sound'
  <2>1. /\ UNCHANGED <<arrayVars, key, pid, loaded, sigVars, childVars, broken, raced>>
        /\ main = "compare"
        /\ \/ main' = "unlist" /\ index' = index
           \/ main' = "find" /\ index' = index + 1
    BY <1>3 DEF Compare, Goto, At
  <2>2. index \in 0 .. capacity /\ index < capacity /\ capacity \in Nat
    BY <2>1 DEF Sound, Typed
  <2>3. index' \in 0 .. capacity /\ (main' # "find" => index' < capacity)
    BY <2>1, <2>2
  <2>4. Filled' = size /\ size <= Filled
    BY <2>1 DEF Filled, arrayVars, Sound, Room
  <2>5. Ages'
    BY <2>1 DEF Sound, Ages, childVars
  <2>6. CASE main' = "unlist" /\ index' = index
    BY <2>1, <2>3, <2>4, <2>5, <2>6, NoStore, Numbers DEF Sound, Typed, Places, childVars
  <2>7. CASE main' = "find" /\ index' = index + 1
    BY <2>1, <2>3, <2>4, <2>5, <2>7, NoStore, Numbers DEF Sound, Typed, Places, childVars
  <2> QED
    BY <2>1, <2>6, <2>7
<1>7. ASSUME CloseUp
      PROVE  Sound'
  <2>1. /\ UNCHANGED <<arrayVars, key, localVars, sigVars, childVars, raced>>
        /\ main = "unlist" /\ main' \in {"unlist", "load", "unload"}
        /\ broken' \in BOOLEAN /\ (main' = "load" => index < size - 1)
    BY <1>7 DEF CloseUp, Goto, At, Sound, Typed
  <2> QED
    BY <2>1, OnlyMoves DEF Places, Sound, Typed
<1>8. ASSUME CopyLoad
      PROVE  Sound'
  <2>1. /\ UNCHANGED <<arrayVars, key, index, loaded, sigVars, childVars, broken, raced>>
        /\ main = "load" /\ main' = "store" /\ pid' = child_processes[index + 1]
    BY <1>8 DEF CopyLoad, Goto, At
  <2>2. index + 1 < capacity /\ child_processes[index + 1] \in Children
    BY <2>1 DEF Sound, Room
  <2>3. Filled' = size /\ size <= Filled
    BY <2>1 DEF Filled, arrayVars, Sound, Room
  <2>4. Ages'
    BY <2>1 DEF Sound, Ages, childVars
  <2> QED
    BY <2>1, <2>2, <2>3, <2>4, NoStore, Numbers DEF Sound, Typed, Places, childVars
<1>9. ASSUME CopyStore
      PROVE  Sound'
  <2>1. /\ UNCHANGED <<size, capacity, key, pid, loaded, sigVars, childVars, broken, raced>>
        /\ main = "store" /\ main' = "unlist" /\ index' = index + 1
        /\ child_processes' = [child_processes EXCEPT ![index] = pid]
    BY <1>9 DEF CopyStore, Goto, At
  <2>2. /\ size \in 0 .. capacity /\ capacity \in Nat /\ index \in 0 .. capacity
        /\ child_processes \in [0 .. capacity - 1 -> Children \cup {0}]
        /\ \A i \in 0 .. size - 1 : child_processes[i] \in Children
        /\ index + 1 < capacity /\ pid \in Children
    BY <2>1 DEF Sound, Typed, Room
  <2>3. index' \in 0 .. capacity /\ index' < capacity
    BY <2>1, <2>2
  <2>4. /\ child_processes' \in [0 .. capacity - 1 -> Children \cup {0}]
        /\ \A i \in 0 .. size - 1 : child_processes'[i] \in Children
    BY <2>1, <2>2
  <2>5. Typed'
    BY <2>1, <2>2, <2>3, <2>4 DEF Sound, Typed, Places, sigVars, childVars
  <2>6. Filled' = size
    BY <2>1 DEF Filled
  <2>7. Room'
    BY <2>1, <2>2, <2>4, <2>6 DEF Sound, Room
  <2>8. Ages'
    BY <2>1 DEF Sound, Ages, childVars
  <2> QED
    BY <2>5, <2>7, <2>8 DEF Sound
<1>4. ASSUME LoadSize("unload", "unloaded")
      PROVE  Sound'
  BY <1>4, LoadLowerSound
<1>5. ASSUME Wraps("unloaded")
      PROVE  Sound'
  BY <1>5, WrapsSound
<1>6. ASSUME loaded > 0, StoreSize("unloaded", "reap", loaded - 1)
      PROVE  Sound'
  <2>1. main = "unloaded" /\ Filled = loaded
    BY <1>6 DEF StoreSize, Goto, At, Filled
  <2>2. loaded - 1 \in Nat /\ loaded - 1 <= Filled
    BY <1>6, <2>1, Numbers
  <2> QED
    BY <1>6, <2>2, StoreSound
<1> QED
  BY <1>1, <1>2, <1>3, <1>4, <1>5, <1>6, <1>7, <1>8, <1>9 DEF Reap

LEMMA EndSound ==
  ASSUME Sound, AllSent \/ Leave
  PROVE  Sound'
<1>1. CASE AllSent
  <2>1. /\ UNCHANGED <<arrayVars, key, localVars, sigVars, childVars, broken, raced>>
        /\ main = "sent" /\ main' \in {"leave", "reap"}
    BY <1>1 DEF AllSent, Goto, At
  <2> QED
    BY <2>1, OnlyMoves DEF Places, Sound, Typed
<1>2. CASE Leave
  <2>1. /\ UNCHANGED <<arrayVars, key, localVars, sigVars, told, broken, raced>>
        /\ main = "leave" /\ main' \in {"leave", "exited"}
        /\ state' \in [Children -> {"unborn", "running", "zombie", "reaped"}]
        /\ \A d \in Children : state'[d] = "unborn" <=> state[d] = "unborn"
    BY <1>2 DEF Leave, Goto, At, Become, Zombies, Sound, Typed
  <2>2. Filled' = size /\ Filled = size
    BY <2>1 DEF Filled, arrayVars
  <2>3. Ages'
    BY <2>1 DEF Sound, Ages, Typed
  <2> QED
    BY <2>1, <2>2, <2>3, NoStore, Numbers DEF Sound, Typed, Places, localVars
<1> QED
  BY <1>1, <1>2

\* Types, room and ages hold after every step.
LEMMA SoundStep ==
  ASSUME Sound, [Next]_vars
  PROVE  Sound'
<1>1. CASE UNCHANGED vars
  <2>1. /\ UNCHANGED <<child_processes, size, capacity, main, key, index, pid, loaded>>
        /\ UNCHANGED <<pending, handling, state, told, broken, raced>>
    BY <1>1 DEF vars, arrayVars, mainVars, localVars, sigVars, childVars
  <2>2. Filled' = Filled /\ Unborn' = Unborn
    BY <2>1 DEF Filled, Unborn
  <2> QED
    BY <2>1, <2>2 DEF Sound, Typed, Room, Ages
<1>2. CASE Next
  BY <1>2, ChildSound, HandlerSound, PressSound, PlusSound, DeleteSound, ReapSound, EndSound
  DEF Next, Main, Command
<1> QED
  BY <1>1, <1>2

-----------------------------------------------------------------------------
(* What the array lists.                                                   *)

\* What is in use, in the gap, or about to be copied is a child.
LEMMA EntriesAreChildren ==
  ASSUME Sound
  PROVE  /\ size > 0 => Gap \in 0 .. size - 1 /\ child_processes[Gap] \in Children
         /\ size > 0 => size - 1 \in 0 .. size - 1 /\ child_processes[size - 1] \in Children
         /\ main = "load" => child_processes[index + 1] \in Children
         /\ main = "store" => pid \in Children
<1>1. index \in Nat /\ size \in Nat
  BY Numbers
<1>2. size > 0 => Gap \in 0 .. size - 1 /\ size - 1 \in 0 .. size - 1
  BY <1>1 DEF Gap
<1> QED
  BY <1>2 DEF Sound, Typed, Room

\* Steps that leave the array, main and the children to be kept as they are.
LEMMA ListingKept ==
  ASSUME Sound, Listing, UNCHANGED <<arrayVars, mainVars>>, Kept' = Kept, Zombies \subseteq Zombies',
         \A d \in Children : state[d] = "reaped" => state'[d] = "reaped"
  PROVE  Listing'
<1>1. UNCHANGED <<child_processes, size, main, index, pid, loaded>>
  BY DEF arrayVars, mainVars, localVars
<1>2. \A S : Near(S) => S \subseteq Kept' /\ Kept' \ S \subseteq Zombies'
  BY DEF Near
<1>3. InOrder' /\ WhileAdding' /\ WhileDeleting'
  BY <1>1, <1>2 DEF Listing, InOrder, WhileAdding, WhileDeleting, Near
<1>4. Gap' = Gap
  BY <1>1 DEF Gap
<1>5. /\ size > 0 /\ Spent(Gap) => Spent(Gap)'
      /\ size > 0 /\ Spent(size - 1) => Spent(size - 1)'
  BY <1>1, <1>4, EntriesAreChildren DEF Spent
<1>6. /\ main = "load" /\ index >= size - 1 => state'[child_processes[index + 1]] = "reaped"
      /\ main = "store" /\ index >= size - 1 => state'[pid] = "reaped"
  BY EntriesAreChildren DEF Listing, WhileReaping
<1>7. WhileReaping'
  BY <1>1, <1>2, <1>4, <1>5, <1>6 DEF Listing, WhileReaping, Searching, Closing, Lowered, Near
<1> QED
  BY <1>3, <1>7 DEF Listing

\* A child that ends is kept until it is collected.
LEMMA ChildListing ==
  ASSUME Sound, Listing, NEW c \in Children, Child(c)
  PROVE  Listing'
<1>1. UNCHANGED <<arrayVars, mainVars, told>>
  BY DEF Child, Report, Ends, childVars
<1>2. UNCHANGED state \/ Become(c, "running", "zombie")
  BY DEF Child, Report, Ends, childVars
<1>3. state \in [Children -> {"unborn", "running", "zombie", "reaped"}]
  BY DEF Sound, Typed
<1>4. \A d \in Children : state'[d] # state[d] => state[d] = "running" /\ state'[d] = "zombie"
  BY <1>2, <1>3 DEF Become
<1>5. \A d \in Children : state[d] = "reaped" => state'[d] = "reaped"
  BY <1>4
<1>6. Kept' = Kept /\ Zombies \subseteq Zombies'
  BY <1>1, <1>4 DEF Kept, Zombies
<1> QED
  BY <1>1, <1>5, <1>6, ListingKept

\* Once c is collected and out of the array, the others are listed as before.
LEMMA Removed ==
  ASSUME Typed, Rising(child_processes, size), NEW c \in Children, Unlist(c)
  PROVE  /\ Rising(child_processes', size')
         /\ Held(child_processes', size') = Held(child_processes, size) \ {c}
         /\ size' \in 0 .. size
         /\ size > 0 /\ child_processes[size - 1] # c =>
              size' > 0 /\ child_processes'[size' - 1] = child_processes[size - 1]
         /\ \A i \in size - 1 .. capacity - 1 : child_processes'[i] = child_processes[i]
<1>0. capacity \in Nat /\ size \in 0 .. capacity
  BY DEF Typed
<1>1. CASE UNCHANGED arrayVars /\ \A i \in 0 .. size - 1 : child_processes[i] # c
  <2>1. Held(child_processes, size) \ {c} = Held(child_processes, size)
    BY <1>1 DEF Held
  <2> QED
    BY <1>0, <1>1, <2>1 DEF arrayVars
<1>2. ASSUME NEW k \in 0 .. size - 1, child_processes[k] = c,
             child_processes' = ClosedUp(k, size), size' = size - 1
      PROVE  /\ Rising(child_processes', size')
             /\ Held(child_processes', size') = Held(child_processes, size) \ {c}
             /\ size' \in 0 .. size
             /\ size > 0 /\ child_processes[size - 1] # c =>
                  size' > 0 /\ child_processes'[size' - 1] = child_processes[size - 1]
             /\ \A i \in size - 1 .. capacity - 1 : child_processes'[i] = child_processes[i]
  <2>1. /\ Rising(ClosedUp(k, size), size - 1)
        /\ Held(ClosedUp(k, size), size - 1) = Held(child_processes, size) \ {child_processes[k]}
        /\ k < size - 1 => ClosedUp(k, size)[size - 2] = child_processes[size - 1]
        /\ \A i \in size - 1 .. capacity - 1 : ClosedUp(k, size)[i] = child_processes[i]
    BY ClosedUpProps
  <2>2. size - 1 \in 0 .. size
    BY <1>0, <1>2
  <2>3. ASSUME child_processes[size - 1] # c
        PROVE  size' > 0 /\ child_processes'[size' - 1] = child_processes[size - 1]
    <3>1. k < size - 1
      BY <1>0, <1>2, <2>3
    <3>2. size' - 1 = size - 2 /\ size' > 0
      BY <1>0, <1>2, <3>1
    <3> QED
      BY <1>2, <2>1, <3>1, <3>2
  <2> QED
    BY <1>2, <2>1, <2>2, <2>3
<1> QED
  BY <1>1, <1>2, UnlistProps

\* What a collection that does no harm does to the children and the array.
LEMMA Collected ==
  ASSUME Sound, NEW c \in Children, HandlerReaps(c), ~broken', ~raced'
  PROVE  /\ UNCHANGED <<main, index, pid, loaded, told>> /\ ~Disturbs(c) /\ Unlist(c)
         /\ Typed /\ state[c] = "zombie"
         /\ \A d \in Children : state'[d] = IF d = c THEN "reaped" ELSE state[d]
         /\ Kept' = Kept \ {c}
         /\ \A S : Near(S) => S \ {c} \subseteq Kept' /\ Kept' \ (S \ {c}) \subseteq Zombies'
<1>1. /\ UNCHANGED <<main, index, pid, loaded, told>> /\ ~Disturbs(c) /\ Unlist(c)
      /\ Become(c, "zombie", "reaped")
  BY DEF HandlerReaps, mainVars, localVars, Dangling
<1>2. Typed
  BY DEF Sound
<1>3. \A d \in Children : state'[d] = IF d = c THEN "reaped" ELSE state[d]
  BY <1>1, <1>2 DEF Become, Typed
<1>4. state[c] = "zombie"
  BY <1>1 DEF Become
<1>5. Kept' = Kept \ {c} /\ Zombies' = Zombies \ {c}
  BY <1>1, <1>3 DEF Kept, Zombies
<1> QED
  BY <1>1, <1>2, <1>3, <1>4, <1>5 DEF Near

\* A child that is not listed is collected, and the array stays.
LEMMA NotListed ==
  ASSUME Typed, NEW c \in Children, Unlist(c), ~Listed(c)
  PROVE  /\ UNCHANGED <<child_processes, size, capacity>>
         /\ \A i \in 0 .. size - 1 : child_processes[i] # c
BY DEF Unlist, Listed, Entries, arrayVars

\* The places where the array is in order: it stays so, without c.
LEMMA HandlerInOrder ==
  ASSUME Sound, Listing, NEW c \in Children, HandlerReaps(c), ~broken', ~raced'
  PROVE  InOrder'
<1> DEFINE here == Held(child_processes, size)
           after == Held(child_processes', size')
           somewhere == {"prompt"} \cup Level \cup Raising \cup Removing \cup Searching
<1>1. /\ main' = main /\ Unlist(c) /\ Typed /\ Kept' = Kept \ {c}
      /\ \A S : Near(S) => S \ {c} \subseteq Kept' /\ Kept' \ (S \ {c}) \subseteq Zombies'
  BY Collected
<1>2. CASE main \in somewhere
  <2>1. Rising(child_processes, size)
    BY <1>2 DEF Listing, InOrder
  <2>2. Rising(child_processes', size') /\ after = here \ {c}
    BY <1>1, <2>1, Removed
  <2>3. main = "prompt" => after = Kept'
    BY <1>1, <2>2 DEF Listing, InOrder
  <2>4. ASSUME main \in Level
        PROVE  after \subseteq Kept' /\ Kept' \ after \subseteq Zombies'
    <3>1. Near(here)
      BY <2>4 DEF Listing, InOrder
    <3> QED
      BY <1>1, <2>2, <3>1
  <2> QED
    BY <1>1, <2>2, <2>3, <2>4 DEF InOrder, Near
<1>3. CASE main \notin somewhere
  BY <1>1, <1>3 DEF InOrder
<1> QED
  BY <1>2, <1>3

\* While main adds a child, c is neither that child nor in the array, or size was
\* not read yet.
LEMMA HandlerAdding ==
  ASSUME Sound, Listing, NEW c \in Children, HandlerReaps(c), ~broken', ~raced'
  PROVE  WhileAdding'
<1> DEFINE here == Held(child_processes, size)
           after == Held(child_processes', size')
<1>1. /\ main' = main /\ index' = index /\ pid' = pid /\ loaded' = loaded
      /\ ~Disturbs(c) /\ Unlist(c) /\ Typed
      /\ \A S : Near(S) => S \ {c} \subseteq Kept' /\ Kept' \ (S \ {c}) \subseteq Zombies'
  BY Collected
<1>2. CASE main \in Raising
  <2>1. /\ Near(here \cup {pid}) /\ \A i \in 0 .. size - 1 : child_processes[i] < pid
        /\ Rising(child_processes, size)
    BY <1>2 DEF Listing, WhileAdding, InOrder
  <2>2. c # pid
    BY <1>1, <1>2 DEF Raising, Disturbs
  <2>3. after = here \ {c}
    BY <1>1, <2>1, Removed
  <2>4. (here \cup {pid}) \ {c} = after \cup {pid}
    BY <2>2, <2>3
  <2>5. (after \cup {pid}) \subseteq Kept' /\ Kept' \ (after \cup {pid}) \subseteq Zombies'
    BY <1>1, <2>1, <2>4
  <2>6. ASSUME NEW i \in 0 .. size' - 1
        PROVE  child_processes'[i] < pid
    <3>1. child_processes'[i] \in here
      BY <2>3, <2>6 DEF Held
    <3> QED
      BY <2>1, <3>1 DEF Held
  <2>7. ASSUME main = "write"
        PROVE  index = size'
    <3>1. ~Listed(c)
      BY <1>1, <2>7 DEF Disturbs
    <3> QED
      BY <1>1, <2>7, <3>1, NotListed DEF Listing, WhileAdding
  <2> HIDE DEF after, here
  <2> QED
    BY <1>1, <1>2, <2>5, <2>6, <2>7 DEF WhileAdding, Raising, Raised, Near, after
<1>3. CASE main \in Raised
  <2>1. c # pid /\ ~Listed(c)
    BY <1>1, <1>3 DEF Raised, Disturbs
  <2>2. /\ UNCHANGED <<child_processes, size>>
        /\ \A i \in 0 .. size - 1 : child_processes[i] # c
    BY <1>1, <2>1, NotListed
  <2>3. /\ Rising(child_processes, size + 1) /\ Near(Held(child_processes, size + 1))
        /\ child_processes[size] = pid /\ (main = "grown" => loaded = size)
    BY <1>3 DEF Listing, WhileAdding
  <2>4. c \notin Held(child_processes, size + 1)
    <3>1. \A i \in 0 .. (size + 1) - 1 : i = size \/ i \in 0 .. size - 1
      BY Numbers
    <3> QED
      BY <2>1, <2>2, <2>3, <3>1 DEF Held
  <2>5. Near(Held(child_processes, size + 1))'
    <3>1. Held(child_processes, size + 1) \ {c} = Held(child_processes, size + 1)
      BY <2>4
    <3> QED
      BY <1>1, <2>2, <2>3, <3>1 DEF Near
  <2> QED
    BY <1>1, <1>3, <2>2, <2>3, <2>5 DEF WhileAdding, Raising, Raised
<1>4. CASE main \notin Raising \cup Raised
  BY <1>1, <1>4 DEF WhileAdding, Raising, Raised
<1> QED
  BY <1>2, <1>3, <1>4

\* While main deletes the last child, that child is still the last one.
LEMMA HandlerDeleting ==
  ASSUME Sound, Listing, NEW c \in Children, HandlerReaps(c), ~broken', ~raced'
  PROVE  WhileDeleting'
<1> DEFINE here == Held(child_processes, size)
           after == Held(child_processes', size')
<1>1. /\ main' = main /\ index' = index /\ pid' = pid /\ loaded' = loaded
      /\ ~Disturbs(c) /\ Unlist(c) /\ Typed
      /\ \A S : Near(S) => S \ {c} \subseteq Kept' /\ Kept' \ (S \ {c}) \subseteq Zombies'
  BY Collected
<1>2. capacity \in Nat /\ size \in 0 .. capacity /\ index \in 0 .. capacity
      /\ (main # "find" => index < capacity) /\ loaded \in Nat
  BY <1>1 DEF Typed
<1>3. CASE main \in {"check", "pick", "kill"} \cup Removing
  <2>1. Rising(child_processes, size)
    BY <1>3 DEF Listing, InOrder, Level, Removing
  <2>2. /\ after = here \ {c} /\ size' \in 0 .. size
        /\ size > 0 /\ child_processes[size - 1] # c =>
             size' > 0 /\ child_processes'[size' - 1] = child_processes[size - 1]
        /\ \A i \in size - 1 .. capacity - 1 : child_processes'[i] = child_processes[i]
    BY <1>1, <2>1, Removed
  <2>3. index >= size - 1 => index >= size' - 1
    <3>1. PICK n \in 0 .. size : n = size'
      BY <2>2
    <3>2. index >= size - 1 => index >= n - 1
      BY <1>2
    <3> QED
      BY <3>1, <3>2
  <2>4. main = "check" => index >= size' - 1
    BY <2>3 DEF Listing, WhileDeleting
  <2>5. ASSUME main = "pick"
        PROVE  size' > 0 /\ index >= size' - 1 /\ child_processes'[index] = child_processes'[size' - 1]
    <3>1. size > 0 /\ index >= size - 1 /\ child_processes[index] = child_processes[size - 1]
      BY <2>5 DEF Listing, WhileDeleting
    <3>2. child_processes[size - 1] # c
      BY <1>1, <2>5, <3>1 DEF Disturbs
    <3>3. index \in size - 1 .. capacity - 1
      BY <1>2, <2>5, <3>1
    <3> QED
      BY <2>2, <2>3, <3>1, <3>2, <3>3
  <2>6. ASSUME main \in {"kill"} \cup Removing
        PROVE  size' > 0 /\ child_processes'[size' - 1] = pid
    <3>1. size > 0 /\ child_processes[size - 1] = pid
      BY <2>6 DEF Listing, WhileDeleting
    <3>2. c # pid
      BY <1>1, <2>6 DEF Removing, Disturbs
    <3> QED
      BY <2>2, <3>1, <3>2
  <2>7. ASSUME main \in Removing
        PROVE  after \ {pid} \subseteq Kept' /\ Kept' \ (after \ {pid}) \subseteq Zombies'
    <3>1. Near(here \ {pid})
      BY <2>7 DEF Listing, WhileDeleting
    <3>2. (here \ {pid}) \ {c} = after \ {pid}
      BY <2>2
    <3> QED
      BY <1>1, <3>1, <3>2
  <2> HIDE DEF here, after
  <2> QED
    BY <1>1, <1>3, <2>4, <2>5, <2>6, <2>7 DEF WhileDeleting, Removing, Near, after
<1>4. CASE main = "dropped"
  <2> DEFINE rest == Held(child_processes, loaded - 1)
  <2>1. /\ loaded > 0 /\ pid \notin rest /\ Rising(child_processes, loaded - 1)
        /\ Near(rest) /\ size \in {loaded - 1, loaded}
    BY <1>4 DEF Listing, WhileDeleting
  <2>2. c \notin rest \/ Listed(c)
    <3>1. \A i \in 0 .. (loaded - 1) - 1 : i \in 0 .. size - 1
      BY <1>2, <2>1
    <3> QED
      BY <3>1 DEF Held, Listed, Entries
  <2>3. c \notin rest
    BY <1>1, <1>4, <2>1, <2>2 DEF Disturbs
  <2>4. rest \subseteq Kept' /\ Kept' \ rest \subseteq Zombies'
    <3>1. rest \ {c} = rest
      BY <2>3
    <3> QED
      BY <1>1, <2>1, <3>1
  <2>5. /\ size' \in {loaded - 1, loaded}
        /\ \A i \in 0 .. (loaded - 1) - 1 : child_processes'[i] = child_processes[i]
    <3>1. CASE ~Listed(c)
      BY <1>1, <2>1, <3>1, NotListed
    <3>2. CASE Listed(c)
      <4>1. PICK k \in 0 .. size - 1 :
              child_processes[k] = c /\ child_processes' = ClosedUp(k, size) /\ size' = size - 1
        BY <1>1, <3>2, UnlistProps DEF Listed, Entries
      <4>2. k \notin 0 .. (loaded - 1) - 1
        BY <2>3, <4>1 DEF Held
      <4>3. size = loaded /\ k = size - 1
        BY <1>2, <2>1, <4>2
      <4>4. \A i \in 0 .. capacity - 1 : child_processes'[i] = child_processes[i]
        BY <1>1, <1>2, <4>1, <4>3 DEF ClosedUp, Typed
      <4> QED
        BY <1>2, <4>1, <4>3, <4>4
    <3> QED
      BY <3>1, <3>2
  <2>6. Held(child_processes', loaded - 1) = rest /\ Rising(child_processes', loaded - 1)
    BY <2>1, <2>5 DEF Held, Rising
  <2> HIDE DEF rest
  <2> QED
    BY <1>1, <1>4, <2>1, <2>4, <2>5, <2>6 DEF WhileDeleting, Removing, Near
<1>5. CASE main \notin {"check", "pick", "kill", "dropped"} \cup Removing
  BY <1>1, <1>5 DEF WhileDeleting
<1> QED
  BY <1>3, <1>4, <1>5

\* While main searches, no entry it has passed becomes the one it looks for.
LEMMA HandlerSearching ==
  ASSUME Sound, Listing, NEW c \in Children, HandlerReaps(c), ~broken', ~raced', main \in Searching
  PROVE  /\ pid \in Children /\ state'[pid] = "reaped"
         /\ Near(Held(child_processes, size) \ {pid})'
         /\ \A i \in 0 .. size' - 1 : i < index => child_processes'[i] # pid
         /\ main = "compare" /\ index >= size' => child_processes'[index] # pid
<1>1. /\ pid' = pid /\ ~Disturbs(c) /\ Unlist(c) /\ Typed /\ state[c] = "zombie"
      /\ \A d \in Children : state'[d] = IF d = c THEN "reaped" ELSE state[d]
      /\ \A S : Near(S) => S \ {c} \subseteq Kept' /\ Kept' \ (S \ {c}) \subseteq Zombies'
  BY Collected
<1>2. /\ pid \in Children /\ state[pid] = "reaped" /\ Rising(child_processes, size)
      /\ Near(Held(child_processes, size) \ {pid})
      /\ \A i \in 0 .. size - 1 : i < index => child_processes[i] # pid
      /\ main = "compare" /\ index >= size => child_processes[index] # pid
  BY DEF Listing, InOrder, WhileReaping, Searching
<1>3. state'[pid] = "reaped" /\ c # pid
  BY <1>1, <1>2
<1>4. Near(Held(child_processes, size) \ {pid})'
  <2>1. Held(child_processes', size') = Held(child_processes, size) \ {c}
    BY <1>1, <1>2, Removed
  <2>2. (Held(child_processes, size) \ {pid}) \ {c} = Held(child_processes', size') \ {pid}
    BY <2>1
  <2> QED
    BY <1>1, <1>2, <2>2 DEF Near
<1>5. /\ capacity \in Nat /\ size \in 0 .. capacity /\ index \in 0 .. capacity
      /\ (main = "compare" => index < capacity)
  BY <1>1 DEF Typed
<1>6. CASE ~Listed(c)
  BY <1>1, <1>2, <1>3, <1>4, <1>6, NotListed
<1>7. CASE Listed(c)
  <2>1. PICK k \in 0 .. size - 1 :
          /\ child_processes[k] = c /\ First(Entries(c)) = k
          /\ child_processes' = ClosedUp(k, size) /\ size' = size - 1
    BY <1>1, <1>7, UnlistProps DEF Listed, Entries
  <2>2. \A i \in 0 .. capacity - 1 :
          child_processes'[i] = IF k <= i /\ i < size - 1 THEN child_processes[i + 1]
                                                          ELSE child_processes[i]
    BY <1>1, <1>5, <2>1 DEF ClosedUp, Typed
  <2>3. index < size /\ child_processes[index] = pid => k > index
    <3>1. index < size /\ child_processes[index] = pid => ~ (k < index) /\ k # index
      BY <1>1, <1>3, <1>7, <2>1 DEF Disturbs, Before, Searching
    <3> QED
      BY <1>5, <3>1
  <2>4. \A i \in 0 .. (size - 1) - 1 : i < index => child_processes'[i] # pid
    <3> SUFFICES ASSUME NEW i \in 0 .. (size - 1) - 1, i < index PROVE child_processes'[i] # pid
      OBVIOUS
    <3>1. child_processes'[i] = IF k <= i THEN child_processes[i + 1] ELSE child_processes[i]
      BY <1>5, <2>2
    <3>2. CASE k <= i
      <4>1. i + 1 \in 0 .. size - 1 /\ (i + 1 < index \/ i + 1 = index)
        BY <1>5
      <4>2. i + 1 = index => child_processes[index] # pid
        BY <1>5, <2>3, <3>2
      <4> QED
        BY <1>2, <3>1, <3>2, <4>1, <4>2
    <3>3. CASE ~ (k <= i)
      BY <1>2, <1>5, <3>1, <3>3
    <3> QED
      BY <3>2, <3>3
  <2>5. ASSUME main = "compare", index >= size - 1
        PROVE  child_processes'[index] # pid
    <3>1. child_processes'[index] = child_processes[index]
      BY <1>5, <2>2, <2>5
    <3>2. index < size => child_processes[index] # pid
      BY <1>5, <2>3, <2>5
    <3> QED
      BY <1>2, <1>5, <2>5, <3>1, <3>2
  <2> QED
    BY <1>1, <1>2, <1>3, <1>4, <2>1, <2>4, <2>5
<1> QED
  BY <1>6, <1>7

\* With a gap at g: c is not what is in the gap, and the others are listed as before.
LEMMA GapStays ==
  ASSUME Typed, NEW c \in Children, Unlist(c), state[c] = "zombie",
         \A d \in Children : state'[d] = IF d = c THEN "reaped" ELSE state[d],
         NEW g \in 0 .. size - 1, RisingBut(child_processes, g, size), Spent(g)
  PROVE  \/ /\ UNCHANGED <<child_processes, size>> /\ Spent(g)'
            /\ HeldBut(child_processes, g, size) = HeldBut(child_processes, g, size) \ {c}
         \/ \E k \in 0 .. size - 1, h \in 0 .. size - 2 :
              /\ k # g /\ h = (IF k < g THEN g - 1 ELSE g)
              /\ child_processes[k] = c /\ Listed(c) /\ First(Entries(c)) = k
              /\ child_processes' = ClosedUp(k, size) /\ size' = size - 1
              /\ RisingBut(child_processes', h, size - 1)
              /\ HeldBut(child_processes', h, size - 1) = HeldBut(child_processes, g, size) \ {c}
              /\ Spent(h)'
<1>1. size \in Nat /\ g \in 0 .. size - 1 /\ \A i \in 0 .. size - 1 : child_processes[i] \in Children
  BY DEF Typed
<1>2. CASE ~Listed(c)
  <2>1. /\ UNCHANGED <<child_processes, size>>
        /\ \A i \in 0 .. size - 1 : child_processes[i] # c
    BY <1>2, NotListed
  <2>2. c \notin HeldBut(child_processes, g, size)
    BY <2>1 DEF HeldBut
  <2>3. Spent(g)'
    BY <1>1, <2>1 DEF Spent
  <2> QED
    BY <2>1, <2>2, <2>3
<1>3. CASE Listed(c)
  <2>1. PICK k \in 0 .. size - 1 :
          /\ child_processes[k] = c /\ \A j \in 0 .. k - 1 : child_processes[j] # c
          /\ First(Entries(c)) = k
          /\ child_processes' = ClosedUp(k, size) /\ size' = size - 1
    BY <1>3, UnlistProps DEF Listed, Entries
  <2>2. k # g
    <3> SUFFICES ASSUME k = g PROVE FALSE
      OBVIOUS
    <3>1. state[child_processes[g]] # "reaped" /\ \A i \in 0 .. g - 1 : child_processes[i] # child_processes[g]
      BY <2>1
    <3> QED
      BY <3>1 DEF Spent
  <2>3. PICK h : h = IF k < g THEN g - 1 ELSE g
    OBVIOUS
  <2>4. /\ h \in 0 .. size - 2
        /\ RisingBut(ClosedUp(k, size), h, size - 1)
        /\ HeldBut(ClosedUp(k, size), h, size - 1)
             = HeldBut(child_processes, g, size) \ {child_processes[k]}
        /\ ClosedUp(k, size)[h] = child_processes[g]
        /\ \A i \in 0 .. g - 1 : i # k =>
             \E j \in 0 .. h - 1 : ClosedUp(k, size)[j] = child_processes[i]
    BY <2>2, <2>3, GapProps
  <2>5. Spent(h)'
    <3>1. child_processes'[h] = child_processes[g] /\ child_processes[g] \in Children
      BY <1>1, <2>1, <2>4
    <3>2. CASE state[child_processes[g]] = "reaped" \/ child_processes[g] = c
      BY <3>1, <3>2 DEF Spent
    <3>3. CASE state[child_processes[g]] # "reaped" /\ child_processes[g] # c
      <4>1. PICK i \in 0 .. g - 1 : child_processes[i] = child_processes[g]
        BY <3>3 DEF Spent
      <4>2. i # k
        BY <2>1, <3>3, <4>1
      <4>3. PICK j \in 0 .. h - 1 : ClosedUp(k, size)[j] = child_processes[i]
        BY <2>4, <4>2
      <4> QED
        BY <2>1, <3>1, <4>1, <4>3 DEF Spent
    <3> QED
      BY <3>2, <3>3
  <2> QED
    BY <1>3, <2>1, <2>2, <2>3, <2>4, <2>5
<1> QED
  BY <1>2, <1>3

\* While main closes the gap, what the handler takes out is behind it, or the gap
\* is the last entry.
LEMMA HandlerClosing ==
  ASSUME Sound, Listing, NEW c \in Children, HandlerReaps(c), ~broken', ~raced', main \in Closing
  PROVE  /\ size' > 0 /\ RisingBut(child_processes, Gap, size)'
         /\ Near(HeldBut(child_processes, Gap, size))' /\ Spent(Gap)'
         /\ main = "load" /\ index >= size' - 1 => state'[child_processes'[index + 1]] = "reaped"
         /\ main = "store" /\ index < size' - 1 => pid = child_processes'[index + 1]
         /\ main = "store" /\ index >= size' - 1 => state'[pid] = "reaped"
<1>1. /\ index' = index /\ pid' = pid /\ ~Disturbs(c) /\ Unlist(c) /\ Typed /\ state[c] = "zombie"
      /\ \A d \in Children : state'[d] = IF d = c THEN "reaped" ELSE state[d]
      /\ \A S : Near(S) => S \ {c} \subseteq Kept' /\ Kept' \ (S \ {c}) \subseteq Zombies'
  BY Collected
<1>2. /\ size > 0 /\ RisingBut(child_processes, Gap, size)
      /\ Near(HeldBut(child_processes, Gap, size)) /\ Spent(Gap)
      /\ main = "load" /\ index >= size - 1 => state[child_processes[index + 1]] = "reaped"
      /\ main = "store" /\ index < size - 1 => pid = child_processes[index + 1]
      /\ main = "store" /\ index >= size - 1 => state[pid] = "reaped"
  BY DEF Listing, WhileReaping
<1>3. /\ capacity \in Nat /\ size \in 0 .. capacity /\ index \in 0 .. capacity - 1
      /\ (main \in {"load", "store"} => index + 1 \in 0 .. capacity - 1)
  BY <1>1 DEF Sound, Typed, Room, Closing
<1>4. PICK g \in 0 .. size - 1 : g = Gap
  BY <1>2, EntriesAreChildren
<1>5. g = IF index < size THEN index ELSE size - 1
  BY <1>4 DEF Gap
<1>6. /\ main = "load" => child_processes[index + 1] \in Children
      /\ main = "store" => pid \in Children
  BY EntriesAreChildren
<1> DEFINE left == HeldBut(child_processes, g, size) \ {c}
<1>7. left \subseteq Kept' /\ Kept' \ left \subseteq Zombies'
  BY <1>1, <1>2, <1>4
<1>8. CASE UNCHANGED <<child_processes, size>> /\ Spent(g)' /\ HeldBut(child_processes, g, size) = left
  <2>1. Gap' = g
    BY <1>1, <1>5, <1>8 DEF Gap
  <2>2. Near(HeldBut(child_processes, Gap, size))'
    BY <1>7, <1>8, <2>1 DEF Near
  <2>3. RisingBut(child_processes, Gap, size)' /\ Spent(Gap)'
    BY <1>2, <1>4, <1>8, <2>1 DEF Spent
  <2> QED
    BY <1>1, <1>2, <1>6, <1>8, <2>2, <2>3
<1>9. ASSUME NEW k \in 0 .. size - 1, NEW h \in 0 .. size - 2,
             k # g, h = (IF k < g THEN g - 1 ELSE g),
             child_processes[k] = c, Listed(c), First(Entries(c)) = k,
             child_processes' = ClosedUp(k, size), size' = size - 1,
             RisingBut(child_processes', h, size - 1),
             HeldBut(child_processes', h, size - 1) = left,
             Spent(h)'
      PROVE  /\ size' > 0 /\ RisingBut(child_processes, Gap, size)'
             /\ Near(HeldBut(child_processes, Gap, size))' /\ Spent(Gap)'
             /\ main = "load" /\ index >= size' - 1 => state'[child_processes'[index + 1]] = "reaped"
             /\ main = "store" /\ index < size' - 1 => pid = child_processes'[index + 1]
             /\ main = "store" /\ index >= size' - 1 => state'[pid] = "reaped"
  <2>1. index < size - 1 => k > index
    <3>1. index < size - 1 => ~ (k < index) /\ k # index
      BY <1>1, <1>3, <1>5, <1>9 DEF Disturbs, Before, Closing
    <3> QED
      BY <1>3, <3>1
  <2>2. h = IF index < size - 1 THEN index ELSE size - 2
    BY <1>3, <1>5, <1>9, <2>1
  <2>3. Gap' = h
    BY <1>1, <1>3, <1>9, <2>2 DEF Gap
  <2>4. size' > 0 /\ RisingBut(child_processes, Gap, size)' /\ Spent(Gap)'
    BY <1>3, <1>9, <2>3 DEF Spent
  <2>5. Near(HeldBut(child_processes, Gap, size))'
    BY <1>7, <1>9, <2>3 DEF Near
  <2>6. \A i \in 0 .. capacity - 1 :
          child_processes'[i] = IF k <= i /\ i < size - 1 THEN child_processes[i + 1]
                                                          ELSE child_processes[i]
    BY <1>1, <1>3, <1>9 DEF ClosedUp, Typed
  <2>7. ASSUME main = "load", index >= size - 2
        PROVE  state'[child_processes'[index + 1]] = "reaped"
    <3>1. child_processes'[index + 1] = child_processes[index + 1]
      BY <1>3, <2>6, <2>7
    <3>2. CASE index >= size - 1
      BY <1>1, <1>2, <1>6, <2>7, <3>1, <3>2
    <3>3. CASE index = size - 2
      <4>1. k = index + 1
        BY <1>3, <2>1, <3>3
      <4> QED
        BY <1>1, <1>9, <3>1, <4>1
    <3> QED
      BY <1>3, <2>7, <3>2, <3>3
  <2>8. ASSUME main = "store", index < size - 2
        PROVE  pid = child_processes'[index + 1]
    <3>1. pid = child_processes[index + 1] /\ c # pid
      BY <1>1, <1>2, <1>3, <2>8 DEF Disturbs
    <3>2. k > index + 1
      <4>1. k # index + 1 /\ k > index
        BY <1>3, <1>9, <2>1, <2>8, <3>1
      <4> QED
        BY <1>3, <4>1
    <3> QED
      BY <1>3, <2>6, <2>8, <3>1, <3>2
  <2>9. ASSUME main = "store", index >= size - 2
        PROVE  state'[pid] = "reaped"
    <3>1. CASE index >= size - 1
      BY <1>1, <1>2, <1>6, <2>9, <3>1
    <3>2. CASE index = size - 2
      <4>1. k = index + 1 /\ pid = child_processes[index + 1]
        BY <1>2, <1>3, <2>1, <2>9, <3>2
      <4> QED
        BY <1>1, <1>9, <4>1
    <3> QED
      BY <1>3, <2>9, <3>1, <3>2
  <2>10. size' - 1 = size - 2
    BY <1>3, <1>9
  <2> QED
    BY <2>4, <2>5, <2>7, <2>8, <2>9, <2>10
<1> QED
  <2>1. RisingBut(child_processes, g, size) /\ Spent(g)
    BY <1>2, <1>4
  <2>2. \/ /\ UNCHANGED <<child_processes, size>> /\ Spent(g)'
           /\ HeldBut(child_processes, g, size) = left
        \/ \E k \in 0 .. size - 1, h \in 0 .. size - 2 :
             /\ k # g /\ h = (IF k < g THEN g - 1 ELSE g)
             /\ child_processes[k] = c /\ Listed(c) /\ First(Entries(c)) = k
             /\ child_processes' = ClosedUp(k, size) /\ size' = size - 1
             /\ RisingBut(child_processes', h, size - 1)
             /\ HeldBut(child_processes', h, size - 1) = left
             /\ Spent(h)'
    BY <1>1, <2>1, GapStays
  <2> HIDE DEF left
  <2> QED
    BY <1>8, <1>9, <2>2

\* Before main lowers size, the last entry is not in use any more; and c is collected
\* before main reads size, or is not listed.
LEMMA HandlerLowering ==
  ASSUME Sound, Listing, NEW c \in Children, HandlerReaps(c), ~broken', ~raced', main \in Lowered
  PROVE  /\ size' > 0 /\ Rising(child_processes', size' - 1)
         /\ Near(Held(child_processes, size - 1))'
         /\ main = "unload" => Spent(size - 1)'
         /\ main = "unloaded" => loaded = size'
<1>1. /\ ~Disturbs(c) /\ Unlist(c) /\ Typed /\ state[c] = "zombie"
      /\ \A d \in Children : state'[d] = IF d = c THEN "reaped" ELSE state[d]
      /\ \A S : Near(S) => S \ {c} \subseteq Kept' /\ Kept' \ (S \ {c}) \subseteq Zombies'
  BY Collected
<1>2. /\ size > 0 /\ Rising(child_processes, size - 1) /\ Near(Held(child_processes, size - 1))
      /\ main = "unload" => Spent(size - 1)
      /\ main = "unloaded" => loaded = size
  BY DEF Listing, WhileReaping
<1>3. size \in Nat
  BY Numbers
<1> DEFINE left == Held(child_processes, size - 1) \ {c}
<1>4. left \subseteq Kept' /\ Kept' \ left \subseteq Zombies'
  BY <1>1, <1>2
<1>5. CASE main = "unloaded"
  <2>1. ~Listed(c)
    BY <1>1, <1>5 DEF Disturbs
  <2>2. /\ UNCHANGED <<child_processes, size>>
        /\ \A i \in 0 .. size - 1 : child_processes[i] # c
    BY <1>1, <2>1, NotListed
  <2>3. c \notin Held(child_processes, size - 1)
    <3>1. \A i \in 0 .. (size - 1) - 1 : i \in 0 .. size - 1
      BY <1>3
    <3> QED
      BY <2>2, <3>1 DEF Held
  <2>4. Held(child_processes, size - 1) = left
    BY <2>3
  <2> QED
    BY <1>2, <1>4, <1>5, <2>2, <2>4 DEF Near
<1>6. CASE main = "unload"
  <2>1. size - 1 \in 0 .. size - 1
    BY <1>2, <1>3
  <2>2. /\ RisingBut(child_processes, size - 1, size) /\ Spent(size - 1)
        /\ HeldBut(child_processes, size - 1, size) = Held(child_processes, size - 1)
    BY <1>2, <1>3, <1>6, LastGap
  <2>3. CASE UNCHANGED <<child_processes, size>> /\ Spent(size - 1)'
             /\ HeldBut(child_processes, size - 1, size) = HeldBut(child_processes, size - 1, size) \ {c}
    BY <1>2, <1>4, <1>6, <2>2, <2>3 DEF Near, Spent
  <2>4. ASSUME NEW k \in 0 .. size - 1, NEW h \in 0 .. size - 2,
               k # size - 1, h = (IF k < size - 1 THEN size - 2 ELSE size - 1),
               size' = size - 1,
               RisingBut(child_processes', h, size - 1),
               HeldBut(child_processes', h, size - 1) = HeldBut(child_processes, size - 1, size) \ {c},
               Spent(h)'
        PROVE  /\ size' > 0 /\ Rising(child_processes', size' - 1)
               /\ Near(Held(child_processes, size - 1))'
               /\ Spent(size - 1)'
    <3>1. h = (size - 1) - 1 /\ size - 1 \in Nat /\ size - 1 > 0
      BY <1>3, <2>4
    <3>2. /\ Rising(child_processes', (size - 1) - 1)
          /\ Held(child_processes', (size - 1) - 1) = left
      BY <2>2, <2>4, <3>1, LastGap
    <3>3. Near(Held(child_processes, size - 1))'
      BY <1>4, <2>4, <3>2 DEF Near
    <3>4. Spent(size - 1)'
      BY <2>4, <3>1 DEF Spent
    <3> QED
      BY <2>4, <3>1, <3>2, <3>3, <3>4
  <2>5. PICK g \in 0 .. size - 1 : g = size - 1
    BY <2>1
  <2>6. \/ /\ UNCHANGED <<child_processes, size>> /\ Spent(g)'
           /\ HeldBut(child_processes, g, size) = HeldBut(child_processes, g, size) \ {c}
        \/ \E k \in 0 .. size - 1, h \in 0 .. size - 2 :
             /\ k # g /\ h = (IF k < g THEN g - 1 ELSE g)
             /\ size' = size - 1
             /\ RisingBut(child_processes', h, size - 1)
             /\ HeldBut(child_processes', h, size - 1) = HeldBut(child_processes, g, size) \ {c}
             /\ Spent(h)'
    <3>1. RisingBut(child_processes, g, size) /\ Spent(g)
      BY <2>2, <2>5
    <3> QED
      BY <1>1, <3>1, GapStays
  <2>7. CASE UNCHANGED <<child_processes, size>> /\ Spent(g)'
             /\ HeldBut(child_processes, g, size) = HeldBut(child_processes, g, size) \ {c}
    <3>1. Spent(size - 1)'
      BY <2>5, <2>7 DEF Spent
    <3> QED
      BY <2>3, <2>5, <2>7, <3>1
  <2>8. ASSUME NEW k \in 0 .. size - 1, NEW h \in 0 .. size - 2,
               k # g, h = (IF k < g THEN g - 1 ELSE g), size' = size - 1,
               RisingBut(child_processes', h, size - 1),
               HeldBut(child_processes', h, size - 1) = HeldBut(child_processes, g, size) \ {c},
               Spent(h)'
        PROVE  /\ size' > 0 /\ Rising(child_processes', size' - 1)
               /\ Near(Held(child_processes, size - 1))'
               /\ Spent(size - 1)'
    <3>1. k # size - 1 /\ h = (IF k < size - 1 THEN size - 2 ELSE size - 1)
          /\ HeldBut(child_processes', h, size - 1) = HeldBut(child_processes, size - 1, size) \ {c}
      BY <1>3, <2>5, <2>8
    <3> QED
      BY <2>4, <2>8, <3>1
  <2> QED
    BY <1>6, <2>6, <2>7, <2>8
<1> QED
  BY <1>5, <1>6 DEF Lowered

\* Where the handler does no harm, the list stays what it should be.
LEMMA HandlerListing ==
  ASSUME Sound, Listing, NEW c \in Children, HandlerReaps(c), ~broken', ~raced'
  PROVE  Listing'
<1>1. UNCHANGED <<main, index, pid, loaded>>
  BY Collected
<1>2. WhileReaping'
  BY <1>1, HandlerSearching, HandlerClosing, HandlerLowering
  DEF WhileReaping, Searching, Closing, Lowered
<1> QED
  BY <1>2, HandlerInOrder, HandlerAdding, HandlerDeleting DEF Listing

\* As long as no child changes, neither does who should be kept.
LEMMA SameChildren ==
  ASSUME UNCHANGED childVars
  PROVE  Kept' = Kept /\ Zombies' = Zombies /\ \A S : Near(S) <=> S \subseteq Kept' /\ Kept' \ S \subseteq Zombies'
<1>1. Kept' = Kept /\ Zombies' = Zombies
  BY DEF childVars, Kept, Zombies
<1> QED
  BY <1>1 DEF Near

\* The steps of main again, for what the array lists.
LEMMA PressListing ==
  ASSUME Sound, Listing, PressPlus \/ PressMinus \/ PressDelete \/ PressList
  PROVE  Listing'
<1>1. /\ UNCHANGED <<child_processes, size, childVars>> /\ main = "prompt"
      /\ main' \in {"realloc", "fork", "reap", "delete", "leave"}
  BY DEF PressPlus, PressMinus, PressDelete, PressList, Goto, At, arrayVars
<1>2. Held(child_processes, size) = Kept /\ Rising(child_processes, size)
  BY <1>1 DEF Listing, InOrder
<1>3. Kept' = Kept
  BY <1>1, SameChildren
<1> QED
  BY <1>1, <1>2, <1>3 DEF Near, Listing, InOrder, WhileAdding, WhileDeleting, WhileReaping, Level, Raising, Raised,
          Removing, Searching, Closing, Lowered

\* Steps of main that move between places where the array is as it should be, but for
\* children that have ended.
LEMMA StaysLevel ==
  ASSUME Listing, main \in Level, main' \in {"realloc", "moved", "fork", "delete", "reap", "sent", "leave"},
         UNCHANGED <<child_processes, size, childVars>>
  PROVE  Listing'
<1>1. Near(Held(child_processes, size)) /\ Rising(child_processes, size)
  BY DEF Listing, InOrder
<1>2. Near(Held(child_processes, size))'
  BY <1>1, SameChildren DEF Near
<1> QED
  BY <1>1, <1>2 DEF Listing, InOrder, WhileAdding, WhileDeleting, WhileReaping, Level, Raising, Raised,
          Removing, Searching, Closing, Lowered

LEMMA PlusListing ==
  ASSUME Sound, Listing, Plus
  PROVE  Listing'
<1>1. ASSUME Realloc
      PROVE  Listing'
  BY <1>1, StaysLevel DEF Realloc, Goto, At, Level, arrayVars
<1>2. ASSUME TakeMoved
      PROVE  Listing'
  <2>1. /\ main = "moved" /\ main' = "fork" /\ child_processes' = Grown
        /\ UNCHANGED <<size, childVars>>
    BY <1>2 DEF TakeMoved, Goto, At
  <2>2. Near(Held(child_processes, size)) /\ Rising(child_processes, size)
    BY <2>1 DEF Listing, InOrder, WhileDeleting, Level
  <2>3. \A i \in 0 .. size - 1 : Grown[i] = child_processes[i]
    BY Numbers DEF Sound, Typed, Grown
  <2>4. Held(Grown, size) = Held(child_processes, size) /\ Rising(Grown, size)
    BY <2>2, <2>3 DEF Held, Rising
  <2>5. Near(Held(child_processes, size))'
    BY <2>1, <2>2, <2>4, SameChildren DEF Near
  <2> QED
    BY <2>1, <2>4, <2>5 DEF Listing, InOrder, WhileAdding, WhileDeleting, WhileReaping, Level, Raising, Raised,
          Removing, Searching, Closing, Lowered
<1>3. ASSUME Fork
      PROVE  Listing'
  <2>1. CASE Goto("fork", "init") /\ pid' = First(Unborn) /\ state' = [state EXCEPT ![First(Unborn)] = "running"]
    <3>1. /\ UNCHANGED <<child_processes, size, told>>
          /\ main = "fork" /\ main' = "init"
      BY <1>3, <2>1 DEF Fork, Goto, At, arrayVars
    <3>2. Unborn # {} /\ Unborn \subseteq Nat
      BY <3>1, Numbers DEF Sound, Room, Unborn
    <3>3. pid' \in Children /\ state[pid'] = "unborn"
      BY <2>1, <3>2, FirstIsLeast DEF Unborn
    <3>4. \A d \in Children : state'[d] = IF d = pid' THEN "running" ELSE state[d]
      BY <2>1, <3>3 DEF Sound, Typed
    <3>5. pid' \notin told
      BY <3>3 DEF Sound, Ages
    <3>6. Kept' = Kept \cup {pid'} /\ Zombies' = Zombies
      BY <3>1, <3>3, <3>4, <3>5 DEF Kept, Zombies
    <3>7. Near(Held(child_processes, size)) /\ Rising(child_processes, size)
      BY <3>1 DEF Listing, InOrder, WhileDeleting, Level
    <3>8. Near(Held(child_processes, size) \cup {pid})'
      BY <3>1, <3>6, <3>7 DEF Near
    <3>9. \A i \in 0 .. size - 1 : child_processes[i] < pid'
      BY <3>3, <3>7 DEF Near, Held, Kept, Sound, Ages
    <3> QED
      BY <3>1, <3>7, <3>8, <3>9 DEF Listing, InOrder, WhileAdding, WhileDeleting, WhileReaping, Level, Raising, Raised,
          Removing, Searching, Closing, Lowered
  <2>2. CASE Goto("fork", "reap") /\ UNCHANGED <<pid, state>>
    BY <1>3, <2>2, StaysLevel DEF Fork, Goto, At, Level, arrayVars, childVars
  <2> QED
    BY <1>3, <2>1, <2>2 DEF Fork
<1>4. ASSUME ReadIndex
      PROVE  Listing'
  <2>1. /\ UNCHANGED <<child_processes, size, pid, childVars>>
        /\ main = "init" /\ main' = "write" /\ index' = size
    BY <1>4 DEF ReadIndex, Goto, At, arrayVars
  <2>2. /\ Near(Held(child_processes, size) \cup {pid}) /\ Rising(child_processes, size)
        /\ \A i \in 0 .. size - 1 : child_processes[i] < pid
    BY <2>1 DEF Listing, InOrder, WhileAdding, Raising
  <2>3. Near(Held(child_processes, size) \cup {pid})'
    BY <2>1, <2>2, SameChildren DEF Near
  <2> QED
    BY <2>1, <2>2, <2>3 DEF Listing, InOrder, WhileAdding, WhileDeleting, WhileReaping, Level, Raising, Raised,
          Removing, Searching, Closing, Lowered
<1>5. ASSUME init_child_process
      PROVE  Listing'
  <2> DEFINE new == [child_processes EXCEPT ![index] = pid]
  <2>1. /\ UNCHANGED <<size, pid, childVars>> /\ child_processes' = new
        /\ main = "write" /\ main' = "grow"
    BY <1>5 DEF init_child_process, Goto, At, localVars
  <2>2. /\ Near(Held(child_processes, size) \cup {pid}) /\ Rising(child_processes, size)
        /\ \A i \in 0 .. size - 1 : child_processes[i] < pid
        /\ index = size
    BY <2>1 DEF Listing, InOrder, WhileAdding, Raising
  <2>a. /\ capacity \in Nat /\ size \in 0 .. capacity - 1
        /\ child_processes \in [0 .. capacity - 1 -> Children \cup {0}]
    BY <2>1, <2>2 DEF Sound, Typed
  <2>3. size \in Nat /\ new[size] = pid /\ \A i \in 0 .. size - 1 : new[i] = child_processes[i]
    BY <2>a, <2>2
  <2> HIDE DEF new
  <2>4. Held(new, size + 1) = Held(child_processes, size) \cup {pid}
    BY <2>3 DEF Held
  <2>5. Rising(new, size + 1)
    <3>1. ASSUME NEW i \in 0 .. size, NEW j \in 0 .. size, i < j
          PROVE  new[i] < new[j]
      <4>1. CASE j = size
        BY <2>2, <2>3, <3>1, <4>1
      <4>2. CASE j # size
        BY <2>2, <2>3, <3>1, <4>2 DEF Rising
      <4> QED
        BY <4>1, <4>2
    <3> QED
      BY <2>3, <3>1 DEF Rising
  <2>6. Near(Held(child_processes, size + 1))'
    BY <2>1, <2>2, <2>4, SameChildren DEF Near
  <2> QED
    BY <2>1, <2>3, <2>5, <2>6 DEF Listing, InOrder, WhileAdding, WhileDeleting, WhileReaping, Level, Raising, Raised,
          Removing, Searching, Closing, Lowered
<1>6. ASSUME LoadSize("grow", "grown")
      PROVE  Listing'
  <2>1. /\ UNCHANGED <<child_processes, size, pid, childVars>>
        /\ main = "grow" /\ main' = "grown" /\ loaded' = size
    BY <1>6 DEF LoadSize, Goto, At, arrayVars
  <2>2. /\ Near(Held(child_processes, size + 1)) /\ Rising(child_processes, size + 1)
        /\ child_processes[size] = pid
    BY <2>1 DEF Listing, WhileAdding, Raised
  <2>3. Near(Held(child_processes, size + 1))'
    BY <2>1, <2>2, SameChildren DEF Near
  <2> QED
    BY <2>1, <2>2, <2>3 DEF Listing, InOrder, WhileAdding, WhileDeleting, WhileReaping, Level, Raising, Raised,
          Removing, Searching, Closing, Lowered
<1>7. ASSUME StoreSize("grown", "reap", loaded + 1)
      PROVE  Listing'
  <2>1. /\ UNCHANGED <<child_processes, childVars>>
        /\ main = "grown" /\ main' = "reap" /\ size' = loaded + 1
    BY <1>7 DEF StoreSize, Goto, At
  <2>2. Near(Held(child_processes, size + 1)) /\ Rising(child_processes, size + 1) /\ loaded = size
    BY <2>1 DEF Listing, WhileAdding, Raised
  <2>3. Near(Held(child_processes, size))'
    BY <2>1, <2>2, SameChildren DEF Near
  <2> QED
    BY <2>1, <2>2, <2>3 DEF Listing, InOrder, WhileAdding, WhileDeleting, WhileReaping, Level, Raising, Raised,
          Removing, Searching, Closing, Lowered
<1> QED
  BY <1>1, <1>2, <1>3, <1>4, <1>5, <1>6, <1>7 DEF Plus

LEMMA DeleteListing ==
  ASSUME Sound, Listing, Delete, ~broken'
  PROVE  Listing'
<1>1. ASSUME DeleteLast
      PROVE  Listing'
  <2>1. /\ UNCHANGED <<child_processes, size, childVars>>
        /\ main = "delete" /\ main' = "check" /\ index' = size - 1
    BY <1>1 DEF DeleteLast, Goto, At, arrayVars
  <2>2. Near(Held(child_processes, size)) /\ Rising(child_processes, size)
    BY <2>1 DEF Listing, InOrder, WhileDeleting, Level
  <2>3. Near(Held(child_processes, size))'
    BY <2>1, <2>2, SameChildren DEF Near
  <2>4. index' >= size' - 1
    BY <2>1, Numbers
  <2> QED
    BY <2>1, <2>2, <2>3, <2>4 DEF Listing, InOrder, WhileAdding, WhileDeleting, WhileReaping, Level, Raising, Raised,
          Removing, Searching, Closing, Lowered
<1>2. ASSUME NoneLeft
      PROVE  Listing'
  BY <1>2, StaysLevel DEF NoneLeft, Goto, At, Level, arrayVars
<1>3. ASSUME CheckIndex
      PROVE  Listing'
  <2>1. CASE index >= size /\ Goto("check", AfterDelete) /\ Return
    BY <1>3, <2>1, StaysLevel DEF CheckIndex, Goto, At, AfterDelete, Level, arrayVars
  <2>2. CASE index < size /\ Goto("check", "pick") /\ UNCHANGED localVars
    <3>1. /\ UNCHANGED <<child_processes, size, index, childVars>>
          /\ main = "check" /\ main' = "pick"
      BY <1>3, <2>2 DEF CheckIndex, Goto, At, arrayVars, localVars
    <3>2. Near(Held(child_processes, size)) /\ Rising(child_processes, size) /\ index >= size - 1
      BY <3>1 DEF Listing, InOrder, WhileDeleting, Level
    <3>3. Near(Held(child_processes, size))'
      BY <3>1, <3>2, SameChildren DEF Near
    <3>4. size > 0 /\ index = size - 1
      BY <2>2, <3>2, Numbers
    <3> QED
      BY <3>1, <3>2, <3>3, <3>4 DEF Listing, InOrder, WhileAdding, WhileDeleting, WhileReaping, Level, Raising, Raised,
          Removing, Searching, Closing, Lowered
  <2> QED
    BY <1>3, <2>1, <2>2 DEF CheckIndex
<1>4. ASSUME PickPid
      PROVE  Listing'
  <2>1. /\ UNCHANGED <<child_processes, size, childVars>>
        /\ main = "pick" /\ main' = "kill" /\ pid' = child_processes[index]
    BY <1>4 DEF PickPid, Goto, At, arrayVars
  <2>2. /\ Near(Held(child_processes, size)) /\ Rising(child_processes, size)
        /\ size > 0 /\ child_processes[index] = child_processes[size - 1]
    BY <2>1 DEF Listing, InOrder, WhileDeleting, Level
  <2>3. Near(Held(child_processes, size))'
    BY <2>1, <2>2, SameChildren DEF Near
  <2> QED
    BY <2>1, <2>2, <2>3 DEF Listing, InOrder, WhileAdding, WhileDeleting, WhileReaping, Level, Raising, Raised,
          Removing, Searching, Closing, Lowered
<1>5. ASSUME Kill
      PROVE  Listing'
  <2>1. /\ UNCHANGED <<child_processes, size, pid, state>>
        /\ main = "kill" /\ main' = "shift" /\ told' = IF Alive(pid) THEN told \cup {pid} ELSE told
    BY <1>5 DEF Kill, Goto, At, arrayVars, localVars
  <2>2. /\ Near(Held(child_processes, size)) /\ Rising(child_processes, size)
        /\ size > 0 /\ child_processes[size - 1] = pid
    BY <2>1 DEF Listing, InOrder, WhileDeleting, Level
  <2>3. pid \in Held(child_processes, size)
    BY <2>2, Numbers DEF Held
  <2>4. pid \in Children /\ state[pid] \in {"unborn", "running", "zombie", "reaped"}
    BY <2>1 DEF Sound, Typed
  <2>5. Zombies' = Zombies /\ Kept' = IF Alive(pid) THEN Kept \ {pid} ELSE Kept
    BY <2>1, <2>4 DEF Zombies, Kept
  <2>6. ~Alive(pid) => pid \in Zombies
    BY <2>2, <2>3, <2>4 DEF Near, Kept, Zombies, Alive
  <2>7. Near(Held(child_processes, size) \ {pid})'
    BY <2>1, <2>2, <2>5, <2>6 DEF Near
  <2> QED
    BY <2>1, <2>2, <2>7 DEF Listing, InOrder, WhileAdding, WhileDeleting, WhileReaping, Level, Raising, Raised,
          Removing, Searching, Closing, Lowered
<1>6. ASSUME Shift
      PROVE  Listing'
  <2>1. /\ UNCHANGED <<child_processes, size, pid, childVars>> /\ main = "shift" /\ main' = "drop"
    BY <1>6 DEF Shift, Goto, At, arrayVars, localVars
  <2>2. /\ Near(Held(child_processes, size) \ {pid}) /\ Rising(child_processes, size)
        /\ size > 0 /\ child_processes[size - 1] = pid
    BY <2>1 DEF Listing, InOrder, WhileDeleting, Removing
  <2>3. Near(Held(child_processes, size) \ {pid})'
    BY <2>1, <2>2, SameChildren DEF Near
  <2> QED
    BY <2>1, <2>2, <2>3 DEF Listing, InOrder, WhileAdding, WhileDeleting, WhileReaping, Level, Raising, Raised,
          Removing, Searching, Closing, Lowered
<1>7. ASSUME LoadSize("drop", "dropped")
      PROVE  Listing'
  <2>1. /\ UNCHANGED <<child_processes, size, pid, childVars>>
        /\ main = "drop" /\ main' = "dropped" /\ loaded' = size
    BY <1>7 DEF LoadSize, Goto, At, arrayVars
  <2>2. /\ Near(Held(child_processes, size) \ {pid}) /\ Rising(child_processes, size)
        /\ size > 0 /\ child_processes[size - 1] = pid
    BY <2>1 DEF Listing, InOrder, WhileDeleting, Removing
  <2>3. Held(child_processes, size - 1) = Held(child_processes, size) \ {pid}
    <3>1. \A i \in 0 .. size - 2 : child_processes[i] # pid
      <4>1. TAKE i \in 0 .. size - 2
      <4>2. i \in 0 .. size - 1 /\ size - 1 \in 0 .. size - 1 /\ i < size - 1
        BY <2>2, <4>1, Numbers
      <4>3. child_processes[i] < pid /\ child_processes[i] \in Nat
        BY <2>2, <4>2, Numbers DEF Rising, Sound, Typed
      <4> QED
        BY <4>3
    <3>2. \A i \in 0 .. size - 1 : i \in 0 .. (size - 1) - 1 \/ i = size - 1
      BY Numbers
    <3>3. \A i \in 0 .. (size - 1) - 1 : i \in 0 .. size - 1 /\ i \in 0 .. size - 2
      BY Numbers
    <3> QED
      BY <2>2, <3>1, <3>2, <3>3 DEF Held
  <2>4. Rising(child_processes, size - 1)
    BY <2>2, Numbers DEF Rising
  <2>5. Near(Held(child_processes, loaded - 1))'
    BY <2>1, <2>2, <2>3, SameChildren DEF Near
  <2>6. pid' \notin Held(child_processes', loaded' - 1)
    BY <2>1, <2>3
  <2> QED
    BY <2>1, <2>2, <2>4, <2>5, <2>6 DEF Listing, InOrder, WhileAdding, WhileDeleting, WhileReaping, Level, Raising, Raised,
          Removing, Searching, Closing, Lowered
<1>8. ASSUME Wraps("dropped")
      PROVE  Listing'
  BY <1>8 DEF Wraps
<1>9. ASSUME StoreSize("dropped", AfterDelete, loaded - 1)
      PROVE  Listing'
  <2>1. /\ UNCHANGED <<child_processes, childVars>>
        /\ main = "dropped" /\ main' \in {"reap", "delete"} /\ size' = loaded - 1
    BY <1>9 DEF StoreSize, Goto, At, AfterDelete
  <2>2. Near(Held(child_processes, loaded - 1)) /\ Rising(child_processes, loaded - 1)
    BY <2>1 DEF Listing, WhileDeleting
  <2>3. Near(Held(child_processes, size))'
    BY <2>1, <2>2, SameChildren DEF Near
  <2> QED
    BY <2>1, <2>2, <2>3 DEF Listing, InOrder, WhileAdding, WhileDeleting, WhileReaping, Level, Raising, Raised,
          Removing, Searching, Closing, Lowered
<1> QED
  BY <1>1, <1>2, <1>3, <1>4, <1>5, <1>6, <1>7, <1>8, <1>9 DEF Delete

LEMMA ReapListing ==
  ASSUME Sound, Listing, Reap, ~broken'
  PROVE  Listing'
<1>1. ASSUME MainReaps
      PROVE  Listing'
  <2>0. /\ UNCHANGED <<child_processes, size, told>> /\ main = "reap"
    BY <1>1 DEF MainReaps, Goto, At, arrayVars
  <2>1. Near(Held(child_processes, size)) /\ Rising(child_processes, size)
    BY <2>0 DEF Listing, InOrder, WhileDeleting, Level
  <2>2. ASSUME NEW c \in Zombies, Goto("reap", "find"), Become(c, "zombie", "reaped"), pid' = c, index' = 0
        PROVE  Listing'
    <3>1. c \in Children /\ state[c] = "zombie" /\ main' = "find" /\ pid' = c
      BY <2>2 DEF Zombies, Goto
    <3>2. \A d \in Children : state'[d] = IF d = c THEN "reaped" ELSE state[d]
      BY <2>2, <3>1 DEF Become, Sound, Typed
    <3>3. Kept' = Kept \ {c} /\ Zombies' = Zombies \ {c}
      BY <2>0, <3>2 DEF Kept, Zombies
    <3>4. Near(Held(child_processes, size) \ {pid})'
      BY <2>0, <2>1, <3>1, <3>3 DEF Near
    <3>5. state'[pid'] = "reaped" /\ pid' \in Children
      BY <3>1, <3>2
    <3>6. \A i \in 0 .. size' - 1 : ~ (i < index')
      BY <2>0, <2>2, Numbers
    <3> QED
      BY <2>0, <2>1, <3>1, <3>4, <3>5, <3>6 DEF Listing, InOrder, WhileAdding, WhileDeleting, WhileReaping, Level, Raising, Raised,
          Removing, Searching, Closing, Lowered
  <2>3. CASE Zombies = {} /\ Goto("reap", "prompt") /\ UNCHANGED state
    <3>1. Kept' = Kept
      BY <2>0, <2>3, SameChildren DEF childVars
    <3>2. Held(child_processes, size) = Kept
      BY <2>1, <2>3 DEF Near
    <3> QED
      BY <2>0, <2>1, <2>3, <3>1, <3>2 DEF Goto, Listing, InOrder, WhileAdding, WhileDeleting, WhileReaping, Level, Raising,
          Raised, Removing, Searching, Closing, Lowered
  <2> QED
    BY <1>1, <2>2, <2>3 DEF MainReaps
<1>2. ASSUME Find
      PROVE  Listing'
  <2>0. /\ UNCHANGED <<child_processes, size, childVars>> /\ main = "find"
    BY <1>2 DEF Find, Goto, At, arrayVars
  <2>1. /\ Near(Held(child_processes, size) \ {pid}) /\ Rising(child_processes, size)
        /\ pid \in Children /\ state[pid] = "reaped"
        /\ \A i \in 0 .. size - 1 : i < index => child_processes[i] # pid
    BY <2>0 DEF Listing, InOrder, WhileReaping, Searching
  <2>2. CASE index < size /\ Goto("find", "compare") /\ UNCHANGED localVars
    <3>1. main' = "compare" /\ UNCHANGED <<index, pid, state>>
      BY <2>0, <2>2 DEF Goto, localVars, childVars
    <3>2. Near(Held(child_processes, size) \ {pid})'
      BY <2>0, <2>1, <3>1, SameChildren DEF Near
    <3>3. ~ (index' >= size')
      BY <2>0, <2>2, <3>1, Numbers
    <3> QED
      BY <2>0, <2>1, <3>1, <3>2, <3>3 DEF Listing, InOrder, WhileAdding, WhileDeleting, WhileReaping, Level, Raising, Raised,
          Removing, Searching, Closing, Lowered
  <2>3. CASE index >= size /\ Goto("find", "reap")
    <3>1. \A i \in 0 .. size - 1 : child_processes[i] # pid
      BY <2>1, <2>3, Numbers
    <3>2. Held(child_processes, size) \ {pid} = Held(child_processes, size)
      BY <3>1 DEF Held
    <3>3. Near(Held(child_processes, size))'
      BY <2>0, <2>1, <3>2, SameChildren DEF Near
    <3> QED
      BY <2>0, <2>1, <2>3, <3>3 DEF Goto, Listing, InOrder, WhileAdding, WhileDeleting, WhileReaping, Level, Raising,
          Raised, Removing, Searching, Closing, Lowered
  <2> QED
    BY <1>2, <2>2, <2>3 DEF Find
<1>3. ASSUME Compare
      PROVE  Listing'
  <2>0. /\ UNCHANGED <<child_processes, size, pid, childVars>> /\ main = "compare"
    BY <1>3 DEF Compare, Goto, At, arrayVars
  <2>1. /\ Near(Held(child_processes, size) \ {pid}) /\ Rising(child_processes, size)
        /\ pid \in Children /\ state[pid] = "reaped"
        /\ \A i \in 0 .. size - 1 : i < index => child_processes[i] # pid
        /\ index >= size => child_processes[index] # pid
    BY <2>0 DEF Listing, InOrder, WhileReaping, Searching
  <2>2. CASE Goto("compare", "unlist") /\ child_processes[index] = pid /\ UNCHANGED index
    <3>1. index \in 0 .. size - 1 /\ size > 0 /\ size \in Nat
      BY <2>1, <2>2, Numbers
    <3>2. Gap = index /\ Gap' = index
      BY <2>0, <2>2, <3>1 DEF Gap
    <3>3. RisingBut(child_processes, index, size)
      BY <2>1 DEF Rising, RisingBut
    <3>4. HeldBut(child_processes, index, size) = Held(child_processes, size) \ {pid}
      <4>1. \A i \in 0 .. size - 1 : i # index => child_processes[i] # pid
        <5>1. TAKE i \in 0 .. size - 1
        <5>2. CASE i > index
          BY <2>1, <2>2, <3>1, <5>2, Numbers DEF Rising, Sound, Typed
        <5>3. CASE i < index
          BY <2>1, <5>3
        <5> QED
          BY <3>1, <5>2, <5>3
      <4> QED
        BY <2>2, <4>1 DEF HeldBut, Held
    <3>5. Near(HeldBut(child_processes, Gap, size))'
      BY <2>0, <2>1, <3>2, <3>4, SameChildren DEF Near
    <3>6. RisingBut(child_processes, Gap, size)' /\ size' > 0
      BY <2>0, <3>1, <3>2, <3>3
    <3>7. Spent(Gap)'
      BY <2>0, <2>1, <2>2, <3>2 DEF Spent, childVars
    <3> QED
      BY <2>2, <3>5, <3>6, <3>7 DEF Goto, Listing, InOrder, WhileAdding, WhileDeleting, WhileReaping, Level, Raising,
          Raised, Removing, Searching, Closing, Lowered
  <2>3. CASE Goto("compare", "find") /\ child_processes[index] # pid /\ index' = index + 1
    <3>1. Near(Held(child_processes, size) \ {pid})'
      BY <2>0, <2>1, SameChildren DEF Near
    <3>2. \A i \in 0 .. size' - 1 : i < index' => child_processes'[i] # pid
      <4>1. \A i \in 0 .. size - 1 : i < index + 1 => i < index \/ i = index
        BY Numbers
      <4> QED
        BY <2>0, <2>1, <2>3, <4>1
    <3> QED
      BY <2>0, <2>1, <2>3, <3>1, <3>2 DEF Goto, childVars, Listing, InOrder, WhileAdding, WhileDeleting, WhileReaping, Level, Raising, Raised,
          Removing, Searching, Closing, Lowered
  <2> QED
    BY <1>3, <2>2, <2>3 DEF Compare
<1>7. ASSUME CloseUp
      PROVE  Listing'
  <2>0. /\ UNCHANGED <<child_processes, size, index, pid, childVars>> /\ main = "unlist"
    BY <1>7 DEF CloseUp, Goto, At, arrayVars, localVars
  <2>1. /\ size > 0 /\ RisingBut(child_processes, Gap, size)
        /\ Near(HeldBut(child_processes, Gap, size)) /\ Spent(Gap)
    BY <2>0 DEF Listing, WhileReaping, Closing
  <2>2. index \in Nat /\ size \in Nat
    BY Numbers
  <2>3. CASE index < size - 1 /\ Goto("unlist", "load")
    <3>1. Gap' = Gap
      BY <2>0 DEF Gap
    <3>2. Near(HeldBut(child_processes, Gap, size))'
      BY <2>0, <2>1, <3>1, SameChildren DEF Near
    <3>3. RisingBut(child_processes, Gap, size)' /\ size' > 0 /\ Spent(Gap)'
      BY <2>0, <2>1, <3>1 DEF Spent, childVars
    <3>4. ~ (index' >= size' - 1)
      BY <2>0, <2>2, <2>3
    <3> QED
      BY <2>3, <3>2, <3>3, <3>4 DEF Goto, Listing, InOrder, WhileAdding, WhileDeleting, WhileReaping, Level, Raising,
          Raised, Removing, Searching, Closing, Lowered
  <2>4. CASE index >= size - 1 /\ Goto("unlist", "unload")
    <3>1. Gap = size - 1
      BY <2>2, <2>4 DEF Gap
    <3>2. Rising(child_processes, size - 1) /\ Near(Held(child_processes, size - 1)) /\ Spent(size - 1)
      BY <2>1, <2>2, <3>1, LastGap
    <3>3. Near(Held(child_processes, size - 1))'
      BY <2>0, <3>2, SameChildren DEF Near
    <3>4. Rising(child_processes, size - 1)' /\ size' > 0 /\ Spent(size - 1)'
      BY <2>0, <2>1, <3>2 DEF Spent, childVars
    <3> QED
      BY <2>4, <3>3, <3>4 DEF Goto, Listing, InOrder, WhileAdding, WhileDeleting, WhileReaping, Level, Raising,
          Raised, Removing, Searching, Closing, Lowered
  <2>5. CASE size = 0
    BY <2>1, <2>5
  <2> QED
    BY <1>7, <2>3, <2>4, <2>5 DEF CloseUp
<1>8. ASSUME CopyLoad
      PROVE  Listing'
  <2>0. /\ UNCHANGED <<child_processes, size, index, childVars>> /\ main = "load"
        /\ main' = "store" /\ pid' = child_processes[index + 1]
    BY <1>8 DEF CopyLoad, Goto, At, arrayVars
  <2>1. /\ size > 0 /\ RisingBut(child_processes, Gap, size)
        /\ Near(HeldBut(child_processes, Gap, size)) /\ Spent(Gap)
        /\ index >= size - 1 => state[child_processes[index + 1]] = "reaped"
    BY <2>0 DEF Listing, WhileReaping, Closing
  <2>2. Gap' = Gap
    BY <2>0 DEF Gap
  <2>3. Near(HeldBut(child_processes, Gap, size))'
    BY <2>0, <2>1, <2>2, SameChildren DEF Near
  <2>4. RisingBut(child_processes, Gap, size)' /\ size' > 0 /\ Spent(Gap)'
    BY <2>0, <2>1, <2>2 DEF Spent, childVars
  <2>5. index' >= size' - 1 => state'[pid'] = "reaped"
    BY <2>0, <2>1 DEF childVars
  <2>6. pid' = child_processes'[index' + 1]
    BY <2>0
  <2> QED
    BY <2>0, <2>3, <2>4, <2>5, <2>6 DEF Listing, InOrder, WhileAdding, WhileDeleting, WhileReaping, Level, Raising, Raised,
          Removing, Searching, Closing, Lowered
<1>9. ASSUME CopyStore
      PROVE  Listing'
  <2> DEFINE new == [child_processes EXCEPT ![index] = pid]
  <2>0. /\ UNCHANGED <<size, pid, childVars>> /\ main = "store" /\ main' = "unlist"
        /\ index' = index + 1 /\ child_processes' = new
    BY <1>9 DEF CopyStore, Goto, At
  <2>1. /\ size > 0 /\ RisingBut(child_processes, Gap, size)
        /\ Near(HeldBut(child_processes, Gap, size)) /\ Spent(Gap)
        /\ index < size - 1 => pid = child_processes[index + 1]
        /\ index >= size - 1 => state[pid] = "reaped"
    BY <2>0 DEF Listing, WhileReaping, Closing
  <2>2. /\ capacity \in Nat /\ size \in 0 .. capacity /\ index \in 0 .. capacity - 1
        /\ DOMAIN child_processes = 0 .. capacity - 1
    BY <2>0 DEF Sound, Typed
  <2>3. \A i \in 0 .. capacity - 1 : new[i] = IF i = index THEN pid ELSE child_processes[i]
    BY <2>2
  <2> HIDE DEF new
  <2>4. PICK h \in 0 .. size - 1 :
          /\ h = IF index + 1 < size THEN index + 1 ELSE size - 1
          /\ RisingBut(new, h, size) /\ Spent(h)'
          /\ HeldBut(new, h, size) = HeldBut(child_processes, Gap, size)
    <3>1. CASE index < size - 1
      <4>1. Gap = index /\ index + 1 \in 0 .. size - 1
        BY <2>2, <3>1 DEF Gap
      <4>2. \A i \in (0 .. size - 1) \ {index + 1} :
              new[i] = child_processes[IF i = index THEN index + 1 ELSE i]
        BY <2>1, <2>2, <2>3, <3>1
      <4>3. RisingBut(new, index + 1, size)
        <5>1. ASSUME NEW i \in (0 .. size - 1) \ {index + 1}, NEW j \in (0 .. size - 1) \ {index + 1}, i < j
              PROVE  new[i] < new[j]
          <6>1. CASE i = index
            BY <2>1, <2>2, <4>1, <4>2, <5>1, <6>1 DEF RisingBut
          <6>2. CASE j = index
            BY <2>1, <2>2, <4>1, <4>2, <5>1, <6>2 DEF RisingBut
          <6>3. CASE i # index /\ j # index
            BY <2>1, <2>2, <4>1, <4>2, <5>1, <6>3 DEF RisingBut
          <6> QED
            BY <6>1, <6>2, <6>3
        <5> QED
          BY <5>1 DEF RisingBut
      <4>4. HeldBut(new, index + 1, size) = HeldBut(child_processes, index, size)
        <5>1. \A i \in (0 .. size - 1) \ {index + 1} :
                (IF i = index THEN index + 1 ELSE i) \in (0 .. size - 1) \ {index}
          BY <4>1
        <5>2. \A i \in (0 .. size - 1) \ {index} :
                \E j \in (0 .. size - 1) \ {index + 1} :
                  i = IF j = index THEN index + 1 ELSE j
          <6>1. TAKE i \in (0 .. size - 1) \ {index}
          <6>2. CASE i = index + 1
            <7>1. index \in (0 .. size - 1) \ {index + 1}
              BY <2>2, <3>1
            <7> QED
              BY <6>2, <7>1
          <6>3. CASE i # index + 1
            BY <6>3
          <6> QED
            BY <6>2, <6>3
        <5> QED
          BY <4>2, <5>1, <5>2 DEF HeldBut
      <4>5. PICK h \in 0 .. size - 1 : h = index + 1
        BY <4>1
      <4>6. Spent(h)'
        <5>1. child_processes'[index] = child_processes'[h] /\ index \in 0 .. h - 1
          BY <2>0, <2>1, <2>2, <2>3, <3>1, <4>5
        <5> QED
          BY <5>1 DEF Spent
      <4> QED
        BY <2>2, <3>1, <4>1, <4>3, <4>4, <4>5, <4>6
    <3>2. CASE index >= size - 1
      <4>1. Gap = size - 1 /\ size - 1 \in 0 .. size - 1 /\ ~ (index + 1 < size)
        BY <2>1, <2>2, <3>2 DEF Gap
      <4>2. \A i \in (0 .. size - 1) \ {size - 1} : new[i] = child_processes[i]
        BY <2>2, <2>3, <3>2
      <4>3. RisingBut(new, size - 1, size)
        BY <2>1, <4>1, <4>2 DEF RisingBut
      <4>4. HeldBut(new, size - 1, size) = HeldBut(child_processes, size - 1, size)
        BY <4>2 DEF HeldBut
      <4>5. PICK h \in 0 .. size - 1 : h = size - 1
        BY <4>1
      <4>6. Spent(h)'
        <5>1. CASE index = size - 1
          BY <2>0, <2>1, <2>2, <2>3, <3>2, <4>5, <5>1 DEF Spent, childVars
        <5>2. CASE index # size - 1
          <6>1. \A i \in 0 .. size - 1 : child_processes'[i] = child_processes[i]
            BY <2>0, <2>2, <2>3, <3>2, <5>2
          <6>2. \A i \in 0 .. h - 1 : i \in 0 .. size - 1
            BY <2>2, <4>5
          <6> QED
            BY <2>0, <2>1, <4>1, <4>5, <6>1, <6>2 DEF Spent, childVars
        <5> QED
          BY <5>1, <5>2
      <4> QED
        BY <4>1, <4>3, <4>4, <4>5, <4>6
    <3> QED
      BY <2>2, <3>1, <3>2
  <2>5. Gap' = h
    BY <2>0, <2>4 DEF Gap
  <2>6. Near(HeldBut(child_processes, Gap, size))'
    BY <2>0, <2>1, <2>4, <2>5, SameChildren DEF Near
  <2>7. RisingBut(child_processes, Gap, size)' /\ size' > 0 /\ Spent(Gap)'
    BY <2>0, <2>1, <2>4, <2>5 DEF Spent
  <2> QED
    BY <2>0, <2>6, <2>7 DEF Listing, InOrder, WhileAdding, WhileDeleting, WhileReaping, Level, Raising, Raised,
          Removing, Searching, Closing, Lowered
<1>4. ASSUME LoadSize("unload", "unloaded")
      PROVE  Listing'
  <2>1. /\ UNCHANGED <<child_processes, size, childVars>>
        /\ main = "unload" /\ main' = "unloaded" /\ loaded' = size
    BY <1>4 DEF LoadSize, Goto, At, arrayVars
  <2>2. size > 0 /\ Near(Held(child_processes, size - 1)) /\ Rising(child_processes, size - 1)
    BY <2>1 DEF Listing, WhileReaping, Lowered
  <2>3. Near(Held(child_processes, size - 1))'
    BY <2>1, <2>2, SameChildren DEF Near
  <2> QED
    BY <2>1, <2>2, <2>3 DEF Listing, InOrder, WhileAdding, WhileDeleting, WhileReaping, Level, Raising, Raised,
          Removing, Searching, Closing, Lowered
<1>5. ASSUME Wraps("unloaded")
      PROVE  Listing'
  BY <1>5 DEF Wraps
<1>6. ASSUME StoreSize("unloaded", "reap", loaded - 1)
      PROVE  Listing'
  <2>1. /\ UNCHANGED <<child_processes, childVars>>
        /\ main = "unloaded" /\ main' = "reap" /\ size' = loaded - 1
    BY <1>6 DEF StoreSize, Goto, At
  <2>2. /\ Near(Held(child_processes, size - 1)) /\ Rising(child_processes, size - 1)
        /\ loaded = size
    BY <2>1 DEF Listing, WhileReaping, Lowered
  <2>3. Near(Held(child_processes, size))'
    BY <2>1, <2>2, SameChildren DEF Near
  <2> QED
    BY <2>1, <2>2, <2>3 DEF Listing, InOrder, WhileAdding, WhileDeleting, WhileReaping, Level, Raising, Raised,
          Removing, Searching, Closing, Lowered
<1> QED
  BY <1>1, <1>2, <1>3, <1>4, <1>5, <1>6, <1>7, <1>8, <1>9 DEF Reap

LEMMA EndListing ==
  ASSUME Sound, Listing, AllSent \/ Leave
  PROVE  Listing'
<1>1. CASE AllSent
  BY <1>1, StaysLevel DEF AllSent, Goto, At, Level, arrayVars
<1>2. CASE Leave
  <2>1. main' \in {"leave", "exited"}
    BY <1>2 DEF Leave, Goto, At
  <2> QED
    BY <2>1 DEF Listing, InOrder, WhileAdding, WhileDeleting, WhileReaping, Level, Raising, Raised,
          Removing, Searching, Closing, Lowered
<1> QED
  BY <1>1, <1>2

-----------------------------------------------------------------------------
(* The theorems.                                                           *)

\* Every step that is no disturbance keeps the list what it should be.
LEMMA ListingStep ==
  ASSUME Sound, Listing, Next, ~broken', ~raced'
  PROVE  Listing'
<1>1. ASSUME signal_handler_usr \/ signal_handler_chld \/ HandlerReturns
      PROVE  Listing'
  <2>1. UNCHANGED <<arrayVars, mainVars, childVars>>
    BY <1>1 DEF signal_handler_usr, signal_handler_chld, HandlerReturns
  <2>2. Kept' = Kept /\ Zombies' = Zombies /\ state' = state
    BY <2>1, SameChildren DEF childVars
  <2> QED
    BY <2>1, <2>2, ListingKept
<1> QED
  BY <1>1, ChildListing, HandlerListing, PressListing, PlusListing, DeleteListing, ReapListing, EndListing
  DEF Next, Main, Command, Collect

LEMMA InitListing == Init => Listing
BY DEF Init, Held, Rising, Kept, Listing, InOrder, WhileAdding, WhileDeleting, WhileReaping, Level,
       Raising, Raised, Removing, Searching, Closing, Lowered

\* Nothing undoes the history; and without a disturbance main does not leave the array,
\* nor does size wrap.
LEMMA HistoryStep ==
  ASSUME Sound, Next, ~raced => Listing
  PROVE  /\ ~raced' => ~raced
         /\ broken' => raced' \/ Dangling'
<1>1. ~broken
  BY DEF Next
<1>2. ASSUME Main
      PROVE  raced' = raced /\ (broken' => raced')
  <2>1. raced' = raced
    BY <1>2 DEF Main, PressPlus, PressMinus, PressDelete, PressList, Command, AllSent, Leave,
                Plus, Realloc, TakeMoved, Fork, ReadIndex, init_child_process, LoadSize, StoreSize,
                Delete, DeleteLast, NoneLeft, CheckIndex, PickPid, Kill, Shift, Wraps,
                Reap, MainReaps, Find, Compare, CloseUp, CopyLoad, CopyStore
  <2>2. ASSUME broken'
        PROVE  \/ main = "shift" /\ size = 0
               \/ main \in {"dropped", "unloaded"} /\ loaded = 0
               \/ main = "unlist" /\ size = 0
    BY <1>1, <1>2, <2>2
    DEF Main, PressPlus, PressMinus, PressDelete, PressList, Command, AllSent, Leave,
        Plus, Realloc, TakeMoved, Fork, ReadIndex, init_child_process, LoadSize, StoreSize,
        Delete, DeleteLast, NoneLeft, CheckIndex, PickPid, Kill, Shift, Wraps,
        Reap, MainReaps, Find, Compare, CloseUp, CopyLoad, CopyStore, Goto, At
  <2>3. Listing => /\ main \in {"shift", "unlist"} => size > 0
                   /\ main \in {"dropped", "unloaded"} => loaded > 0
    BY DEF Listing, WhileDeleting, WhileReaping, Removing, Closing, Lowered
  <2>4. broken' => ~Listing
    BY <2>2, <2>3, Numbers
  <2> QED
    BY <2>1, <2>4
<1>3. ASSUME signal_handler_usr \/ signal_handler_chld \/ HandlerReturns
      PROVE  raced' = raced /\ (broken' => Dangling')
  <2>1. raced' = raced /\ main' = main /\ (broken' = broken \/ broken' = (Dangling /\ size > 0))
    BY <1>3 DEF signal_handler_usr, signal_handler_chld, HandlerReturns, mainVars
  <2>2. Dangling' <=> Dangling
    BY <2>1 DEF Dangling
  <2>3. broken' => Dangling'
    BY <1>1, <2>1, <2>2, Zenon
  <2> QED
    BY <2>1, <2>3
<1>4. ASSUME NEW c \in Children, HandlerReaps(c)
      PROVE  (~raced' => ~raced) /\ (broken' => Dangling')
  <2>1. main' = main /\ (broken' = broken \/ Dangling)
    BY <1>4 DEF HandlerReaps, mainVars
  <2>2. Dangling' <=> Dangling
    BY <2>1 DEF Dangling
  <2>3. raced' = (raced \/ Disturbs(c))
    BY <1>4 DEF HandlerReaps
  <2>4. ~raced' => ~raced
    BY <2>3, Zenon
  <2> QED
    BY <1>1, <2>1, <2>2, <2>4
<1>5. ASSUME NEW c \in Children, Child(c)
      PROVE  raced' = raced /\ broken' = broken
  BY <1>5 DEF Child, Report, Ends
<1> QED
  BY <1>1, <1>2, <1>3, <1>4, <1>5 DEF Next, Collect

LEMMA IInvStep ==
  ASSUME IInv, [Next]_vars
  PROVE  IInv'
<1>1. Sound'
  BY SoundStep DEF IInv
<1>2. CASE Next
  BY <1>1, <1>2, HistoryStep, ListingStep DEF IInv, Next
<1>3. CASE UNCHANGED vars
  <2>1. UNCHANGED <<arrayVars, mainVars, childVars, broken, raced, main, state>>
    BY <1>3 DEF vars, mainVars, childVars
  <2>2. Kept' = Kept /\ Zombies' = Zombies /\ state' = state
    BY <2>1, SameChildren
  <2>3. Listing => Listing'
    BY <2>1, <2>2, ListingKept DEF IInv
  <2>4. Dangling' <=> Dangling
    BY <2>1 DEF Dangling
  <2>5. broken' = broken /\ raced' = raced
    BY <2>1
  <2>6. /\ broken => raced \/ Dangling
        /\ ~broken /\ ~raced => Listing
    BY DEF IInv
  <2> QED
    BY <1>1, <2>3, <2>4, <2>5, <2>6, Zenon DEF IInv
<1> QED
  BY <1>2, <1>3

\* The inductive invariant holds for any number of children, whatever keys are pressed
\* and wherever the handler comes in.
THEOREM Invariant == Spec => []IInv
<1>1. Init => IInv
  BY InitSound, InitListing DEF IInv, Init
<1>2. IInv /\ [Next]_vars => IInv'
  BY IInvStep
<1> QED
  BY <1>1, <1>2, PTL DEF Spec

\* The entries in use are children, so that no signal goes to pid 0, wherever the handler
\* takes entries out under the hands of main; and main and the handler stay inside the
\* array, and size does not wrap, unless the handler collected a child at one of the
\* places Disturbs names, or came before the result of realloc was assigned.
THEOREM TypeCorrect == Spec => []TypeOK
<1>1. IInv => TypeOK
  BY DEF IInv, Sound, TypeOK
<1> QED
  BY <1>1, Invariant, PTL

\* At the prompt the array lists exactly the children that should live, in the order
\* they were made, unless the handler collected one at a place Disturbs names.
THEOREM ArrayListsChildren == Spec => []ListExact
<1>1. IInv => ListExact
  <2> SUFFICES ASSUME IInv, main = "prompt", ~raced
               PROVE  /\ {child_processes[i] : i \in 0 .. size - 1} = Kept
                      /\ \A i, j \in 0 .. size - 1 : i < j => child_processes[i] < child_processes[j]
    BY DEF ListExact
  <2>1. ~broken
    BY DEF IInv, Dangling
  <2> QED
    BY <2>1 DEF IInv, Listing, InOrder, Held, Rising
<1> QED
  BY <1>1, Invariant, PTL
=============================================================================
