---------------------------- MODULE ProcManager -----------------------------
(***************************************************************************)
(* The process manager (lab 3): a parent that forks children on '+', ends  *)
(* them on '-', 'k' and 'q', and keeps them in an array.  A child that     *)
(* ends raises SIGCHLD, and the handler removes it from the same array,    *)
(* between any two steps of the main loop; no signal is ever blocked       *)
(* outside the handlers.                                                   *)
(*                                                                         *)
(* The program is built without optimisation: a signal may come between    *)
(* the load and the store of size++ and size--, and between the test, the  *)
(* load and the store of a loop over the array.  Only the handler, which   *)
(* nothing interrupts, searches and closes up the array in one step.  An   *)
(* access outside the array, or to memory given back, ends the behaviour:  *)
(* what follows is undefined.                                              *)
(***************************************************************************)
EXTENDS Integers, FiniteSets

CONSTANTS
  MaxChildren,     \* bound: children ever forked, numbered by their pids
  InitialCapacity, \* CAPACITY
  Keys,            \* the keys the user presses: subset of + - l k q
  Faults           \* subset of {"fork", "realloc", "die"}: calls that may
                   \* fail, and children that may end by themselves

ASSUME ConstantsAssumption ==
  /\ MaxChildren \in Nat
  /\ InitialCapacity \in Nat \ {0}

VARIABLES
  child_processes, size, capacity, \* the array
  main, key,                       \* position of main, the key it works on
  index, pid, loaded,              \* its locals: entry, child, and size as it was read
  pending, handling,               \* signals to be delivered; inside the SIGCHLD handler
  state, told,                     \* what each child is doing; SIGTERM sent
  broken,                          \* memory outside the array was used
  raced                            \* history: the handler disturbed main, see Disturbs

arrayVars == <<child_processes, size, capacity>>
localVars == <<index, pid, loaded>>
mainVars  == <<main, key, localVars>>
sigVars   == <<pending, handling>>
childVars == <<state, told>>
vars == <<arrayVars, mainVars, sigVars, childVars, broken, raced>>

Children == 1 .. MaxChildren

\* The entry of a child in the array; 0 is the pid of an entry never used.
Entries(c) == {i \in 0 .. size - 1 : child_processes[i] = c}
First(S) == CHOOSE i \in S : \A j \in S : i <= j

\* The array after the entry at i was closed up, when n entries were in use.
ClosedUp(i, n) ==
  [j \in DOMAIN child_processes |->
     IF i <= j /\ j < n - 1 THEN child_processes[j + 1] ELSE child_processes[j]]

Init ==
  /\ child_processes = [i \in 0 .. InitialCapacity - 1 |-> 0]
  /\ size = 0 /\ capacity = InitialCapacity
  /\ main = "prompt" /\ key = "none"
  /\ index = 0 /\ pid = 0 /\ loaded = 0
  /\ pending = {} /\ handling = FALSE
  /\ state = [c \in Children |-> "unborn"] /\ told = {}
  /\ broken = FALSE /\ raced = FALSE

-----------------------------------------------------------------------------
(* The children.                                                           *)

Alive(c) == state[c] = "running"

Become(c, from, to) == state[c] = from /\ state' = [state EXCEPT ![c] = to]

\* A signal that is pending already is not queued again, whoever sent it.
Send(sig) == pending' = IF main = "exited" THEN pending ELSE pending \cup {sig}

\* After every 101 samples, SIGUSR1 before the statistics are printed and SIGUSR2
\* after; the parent does the same for both.
Report(c) ==
  /\ Alive(c) /\ Send("SIGUSR")
  /\ UNCHANGED <<arrayVars, mainVars, handling, childVars, broken, raced>>

\* By SIGTERM; or because execl failed, by an error later, or from outside.
Ends(c) ==
  /\ c \in told \/ "die" \in Faults
  /\ Become(c, "running", "zombie")
  /\ Send("SIGCHLD")
  /\ UNCHANGED <<arrayVars, mainVars, handling, told, broken, raced>>

Child(c) == Report(c) \/ Ends(c)

-----------------------------------------------------------------------------
(* The signal handlers of the parent.                                      *)

Zombies == {c \in Children : state[c] = "zombie"}

\* child_processes still points to the memory that realloc gave back.
Dangling == main = "moved"

Deliver(sig) ==
  /\ sig \in pending /\ ~handling /\ main # "exited"
  /\ pending' = pending \ {sig}

\* Who reports is looked up in the array.
signal_handler_usr ==
  /\ Deliver("SIGUSR")
  /\ broken' = (Dangling /\ size > 0)
  /\ UNCHANGED <<arrayVars, mainVars, handling, childVars, raced>>

signal_handler_chld ==
  /\ Deliver("SIGCHLD")
  /\ handling' = TRUE
  /\ UNCHANGED <<arrayVars, mainVars, childVars, broken, raced>>

Listed(c) == Entries(c) # {}

\* Removing c moves the entry of main's loop to the left.
Before(c) == Listed(c) /\ First(Entries(c)) < index

\* Collecting c here makes main lose count: c was forked and is not in the array
\* yet; or c is the one main is about to remove; or size was read for a change that
\* is still to come; or the entry main's search has come to, or the gap it is
\* closing, moves back where main does not look again; or main holds a copy of c.
Disturbs(c) ==
  \/ main \in {"init", "write", "grow", "grown", "kill", "shift", "drop"} /\ c = pid
  \/ main = "pick" /\ c = child_processes[index]
  \/ main \in {"write", "grow", "grown", "unloaded"} /\ Listed(c)
  \/ main = "dropped" /\ Listed(c) /\ c # pid
  \/ main \in {"find", "compare"} /\ index < size /\ child_processes[index] = pid /\ Before(c)
  \/ main \in {"unlist", "load", "store"} /\ index < size - 1 /\ Before(c)
  \/ main = "store" /\ index < size - 2 /\ c = pid

\* Mutation: the handler closes the gap one entry too far left.
Mut_Unlist(c) ==
  IF Entries(c) = {} THEN UNCHANGED arrayVars
  ELSE /\ child_processes' = ClosedUp(First(Entries(c)) + 1, size)
       /\ size' = size - 1
       /\ UNCHANGED capacity

\* The first entry of c goes, if there is one.
Unlist(c) ==
  IF Entries(c) = {} THEN UNCHANGED arrayVars
  ELSE /\ child_processes' = ClosedUp(First(Entries(c)), size)
       /\ size' = size - 1
       /\ UNCHANGED capacity

\* One round of the waitpid loop of the handler.
HandlerReaps(c) ==
  /\ handling
  /\ Become(c, "zombie", "reaped")
  /\ \/ Dangling /\ size > 0 /\ broken' = TRUE /\ UNCHANGED arrayVars
     \/ ~(Dangling /\ size > 0) /\ Unlist(c) /\ UNCHANGED broken
  /\ raced' = (raced \/ Disturbs(c))
  /\ UNCHANGED <<mainVars, sigVars, told>>

\* Mutation: one child per signal.
Mut_HandlerDone == TRUE

HandlerDone == Zombies = {}

HandlerReturns ==
  /\ handling /\ HandlerDone
  /\ handling' = FALSE
  /\ UNCHANGED <<arrayVars, mainVars, pending, childVars, broken, raced>>

Collect ==
  \/ signal_handler_chld
  \/ \E c \in Children : HandlerReaps(c)
  \/ HandlerReturns

-----------------------------------------------------------------------------
(* The main loop.                                                          *)

At(from) == main = from /\ ~handling
Goto(from, to) == At(from) /\ main' = to

Press(k) == k \in Keys /\ key' = k

Unborn == {c \in Children : state[c] = "unborn"}

\* case_plus
PressPlus ==
  /\ Press("+") /\ Unborn # {}
  /\ \/ size >= capacity /\ Goto("prompt", "realloc")
     \/ size < capacity /\ Goto("prompt", "fork")
  /\ UNCHANGED <<arrayVars, localVars, sigVars, childVars, broken, raced>>

\* case_minus
PressMinus ==
  /\ Press("-")
  /\ \/ size = 0 /\ Goto("prompt", "reap")
     \/ size > 0 /\ Goto("prompt", "delete")
  /\ UNCHANGED <<arrayVars, localVars, sigVars, childVars, broken, raced>>

\* delete_all_children, by itself or in complete_the_program
PressDelete ==
  /\ \E k \in {"k", "q"} :
       /\ Press(k)
       /\ \/ size = 0 /\ Goto("prompt", IF k = "q" THEN "leave" ELSE "reap")
          \/ size > 0 /\ Goto("prompt", "delete")
  /\ UNCHANGED <<arrayVars, localVars, sigVars, childVars, broken, raced>>

\* case_l, and any other command that changes nothing
PressList ==
  /\ Press("l") /\ Goto("prompt", "reap")
  /\ UNCHANGED <<arrayVars, localVars, sigVars, childVars, broken, raced>>

-----------------------------------------------------------------------------
(* case_plus                                                               *)

Realloc ==
  /\ \/ Goto("realloc", "moved")
     \/ "realloc" \in Faults /\ Goto("realloc", "reap")
  /\ UNCHANGED <<arrayVars, key, localVars, sigVars, childVars, broken, raced>>

\* Mutation: the new array starts empty.
Mut_Grown == [i \in 0 .. 2 * capacity - 1 |-> 0]

\* The array realloc returns: the old entries, and others.
Grown == [i \in 0 .. 2 * capacity - 1 |-> IF i < capacity THEN child_processes[i] ELSE 0]

TakeMoved ==
  /\ Goto("moved", "fork")
  /\ child_processes' = Grown
  /\ capacity' = 2 * capacity
  /\ UNCHANGED <<size, key, localVars, sigVars, childVars, broken, raced>>

\* The pids go up.
Fork ==
  /\ \/ /\ Goto("fork", "init")
        /\ pid' = First(Unborn)
        /\ state' = [state EXCEPT ![First(Unborn)] = "running"]
     \/ /\ "fork" \in Faults /\ Goto("fork", "reap")
        /\ UNCHANGED <<pid, state>>
  /\ UNCHANGED <<arrayVars, key, index, loaded, sigVars, told, broken, raced>>

\* init_child_process gets the index by value ...
ReadIndex ==
  /\ Goto("init", "write")
  /\ index' = size
  /\ UNCHANGED <<arrayVars, key, pid, loaded, sigVars, childVars, broken, raced>>

\* ... and fills the entry.
init_child_process ==
  /\ Goto("write", "grow")
  /\ child_processes' = [child_processes EXCEPT ![index] = pid]
  /\ UNCHANGED <<size, capacity, key, localVars, sigVars, childVars, broken, raced>>

\* The locals of a call are gone with it.
Return == index' = 0 /\ pid' = 0 /\ loaded' = 0

LoadSize(from, to) ==
  /\ Goto(from, to)
  /\ loaded' = size
  /\ UNCHANGED <<arrayVars, key, index, pid, sigVars, childVars, broken, raced>>

StoreSize(from, to, n) ==
  /\ Goto(from, to)
  /\ size' = n
  /\ Return
  /\ UNCHANGED <<child_processes, capacity, key, sigVars, childVars, broken, raced>>

Plus ==
  \/ Realloc \/ TakeMoved \/ Fork \/ ReadIndex \/ init_child_process
  \/ LoadSize("grow", "grown") \/ StoreSize("grown", "reap", loaded + 1)

-----------------------------------------------------------------------------
(* delete_child_process_by_index, called for the last entry.               *)

AfterDelete == IF key = "-" THEN "reap" ELSE "delete"

\* size == 0 is tested and size - 1 is passed.
DeleteLast ==
  /\ size > 0
  /\ Goto("delete", "check")
  /\ index' = size - 1
  /\ UNCHANGED <<arrayVars, key, pid, loaded, sigVars, childVars, broken, raced>>

NoneLeft ==
  /\ size = 0
  /\ Goto("delete", IF key = "-" THEN "reap" ELSE "sent")
  /\ UNCHANGED <<arrayVars, key, localVars, sigVars, childVars, broken, raced>>

CheckIndex ==
  /\ \/ index >= size /\ Goto("check", AfterDelete) /\ Return
     \/ index < size /\ Goto("check", "pick") /\ UNCHANGED localVars
  /\ UNCHANGED <<arrayVars, key, sigVars, childVars, broken, raced>>

PickPid ==
  /\ Goto("pick", "kill")
  /\ pid' = child_processes[index]
  /\ UNCHANGED <<arrayVars, key, index, loaded, sigVars, childVars, broken, raced>>

\* A child that ended gets nothing: ESRCH, or a zombie.
Kill ==
  /\ Goto("kill", "shift")
  /\ told' = IF Alive(pid) THEN told \cup {pid} ELSE told
  /\ UNCHANGED <<arrayVars, key, localVars, sigVars, state, broken, raced>>

\* i = size - 1 or more, so there is nothing to copy; but size - 1 is unsigned.
Shift ==
  /\ Goto("shift", "drop")
  /\ broken' = (size = 0)
  /\ UNCHANGED <<arrayVars, key, localVars, sigVars, childVars, raced>>

\* size-- wraps.
Wraps(from) ==
  /\ At(from) /\ loaded = 0
  /\ broken' = TRUE
  /\ UNCHANGED <<arrayVars, mainVars, sigVars, childVars, raced>>

Delete ==
  \/ DeleteLast \/ NoneLeft \/ CheckIndex \/ PickPid \/ Kill \/ Shift
  \/ LoadSize("drop", "dropped")
  \/ Wraps("dropped") \/ (loaded > 0 /\ StoreSize("dropped", AfterDelete, loaded - 1))

-----------------------------------------------------------------------------
(* The waitpid loop at the end of the main loop.                           *)

MainReaps ==
  /\ \/ /\ Goto("reap", "find")
        /\ \E c \in Zombies : Become(c, "zombie", "reaped") /\ pid' = c
        /\ index' = 0
        /\ UNCHANGED key
     \/ /\ Zombies = {} /\ Goto("reap", "prompt")
        /\ key' = "none"
        /\ UNCHANGED <<index, pid, state>>
  /\ UNCHANGED <<arrayVars, loaded, sigVars, told, broken, raced>>

\* The search for pid: i < size ...
Find ==
  /\ \/ index < size /\ Goto("find", "compare") /\ UNCHANGED localVars
     \/ index >= size /\ Goto("find", "reap") /\ Return
  /\ UNCHANGED <<arrayVars, key, sigVars, childVars, broken, raced>>

\* ... and the entry at i, whatever is there by now.
Compare ==
  /\ \/ Goto("compare", "unlist") /\ child_processes[index] = pid /\ UNCHANGED index
     \/ Goto("compare", "find") /\ child_processes[index] # pid /\ index' = index + 1
  /\ UNCHANGED <<arrayVars, key, pid, loaded, sigVars, childVars, broken, raced>>

\* The loop that closes the gap: j < size - 1, which is unsigned ...
CloseUp ==
  /\ \/ size = 0 /\ At("unlist") /\ broken' = TRUE /\ UNCHANGED main
     \/ index < size - 1 /\ Goto("unlist", "load") /\ UNCHANGED broken
     \/ size > 0 /\ index >= size - 1 /\ Goto("unlist", "unload") /\ UNCHANGED broken
  /\ UNCHANGED <<arrayVars, key, localVars, sigVars, childVars, raced>>

\* ... and a copy, which is loaded (in pid: nobody asks again who was collected) ...
CopyLoad ==
  /\ Goto("load", "store")
  /\ pid' = child_processes[index + 1]
  /\ UNCHANGED <<arrayVars, key, index, loaded, sigVars, childVars, broken, raced>>

\* ... and stored.
CopyStore ==
  /\ Goto("store", "unlist")
  /\ child_processes' = [child_processes EXCEPT ![index] = pid]
  /\ index' = index + 1
  /\ UNCHANGED <<size, capacity, key, pid, loaded, sigVars, childVars, broken, raced>>

Reap ==
  \/ MainReaps \/ Find \/ Compare \/ CloseUp \/ CopyLoad \/ CopyStore
  \/ LoadSize("unload", "unloaded")
  \/ Wraps("unloaded") \/ (loaded > 0 /\ StoreSize("unloaded", "reap", loaded - 1))

-----------------------------------------------------------------------------
(* "Sent termination signals to all children", and the way out.            *)

AllSent ==
  /\ Goto("sent", IF key = "q" THEN "leave" ELSE "reap")
  /\ UNCHANGED <<arrayVars, key, localVars, sigVars, childVars, broken, raced>>

\* Mutation: main waits for every child it knows of.
Mut_Leave ==
  /\ Zombies = {} /\ \A c \in Children : ~Alive(c)
  /\ Goto("leave", "exited")
  /\ UNCHANGED <<arrayVars, key, localVars, sigVars, childVars, broken, raced>>

\* The array is empty when the program gets here, so that the loop that sends
\* SIGKILL finds nobody.  What has ended is collected, the rest is left behind.
Leave ==
  /\ \/ /\ At("leave") /\ UNCHANGED main
        /\ \E c \in Zombies : Become(c, "zombie", "reaped")
     \/ Zombies = {} /\ Goto("leave", "exited") /\ UNCHANGED state
  /\ UNCHANGED <<arrayVars, key, localVars, sigVars, told, broken, raced>>

Command == Plus \/ Delete \/ Reap \/ AllSent \/ Leave

Main == PressPlus \/ PressMinus \/ PressDelete \/ PressList \/ Command

Next ==
  /\ ~broken
  /\ Main \/ signal_handler_usr \/ Collect \/ \E c \in Children : Child(c)

Spec == Init /\ [][Next]_vars

\* Main goes on with a command it was given; SIGCHLD is delivered and handled, as
\* reports, seconds apart, do not keep it away for ever; and a child that was told
\* to end does.  Keys, reports and errors come as they like.
FairSpec ==
  /\ Spec
  /\ WF_vars(~broken /\ Command)
  /\ WF_vars(~broken /\ Collect)
  /\ \A c \in Children : WF_vars(~broken /\ c \in told /\ Ends(c))

-----------------------------------------------------------------------------
Places ==
  {"prompt", "realloc", "moved", "fork", "init", "write", "grow", "grown",
   "delete", "check", "pick", "kill", "shift", "drop", "dropped",
   "reap", "find", "compare", "unlist", "load", "store", "unload", "unloaded",
   "sent", "leave", "exited"}

Typed ==
  /\ capacity \in Nat /\ size \in 0 .. capacity
  /\ child_processes \in [0 .. capacity - 1 -> Children \cup {0}]
  /\ \A i \in 0 .. size - 1 : child_processes[i] \in Children
  /\ main \in Places /\ key \in {"none", "+", "-", "l", "k", "q"}
  /\ index \in 0 .. capacity /\ (main # "find" => index < capacity)
  /\ pid \in Children \cup {0} /\ loaded \in 0 .. capacity
  /\ main = "kill" => pid \in Children
  /\ pending \subseteq {"SIGUSR", "SIGCHLD"} /\ handling \in BOOLEAN
  /\ state \in [Children -> {"unborn", "running", "zombie", "reaped"}]
  /\ told \subseteq Children
  /\ broken \in BOOLEAN /\ raced \in BOOLEAN

\* The entries in use are children: pid 0, which stands for the whole process group,
\* is never among them, and never gets a signal.  Main and the handler stay inside
\* the array, and size does not wrap, unless a child was collected at one of the
\* places Disturbs names, or while the memory of the array is given back.
TypeOK ==
  /\ Typed
  /\ broken => raced \/ Dangling

\* What the array should hold: the children made, not told to end, not collected.
Kept == {c \in Children : state[c] \notin {"unborn", "reaped"} /\ c \notin told}

\* At the prompt the array lists, in the order they were made, the children
\* that were not told to end; unless a child was collected at one of the
\* places Disturbs names, which nothing keeps the handler from.
ListExact ==
  main = "prompt" /\ ~raced =>
    /\ {child_processes[i] : i \in 0 .. size - 1} = Kept
    /\ \A i, j \in 0 .. size - 1 : i < j => child_processes[i] < child_processes[j]

\* However many children end at a time, and wherever main is: each of them is
\* collected while the parent runs.
ZombiesCollected ==
  \A c \in Children : state[c] = "zombie" ~> state[c] = "reaped" \/ main = "exited" \/ broken

\* 'q' ends the program whatever the children do.
QuitEnds == key = "q" ~> main = "exited" \/ broken
=============================================================================
