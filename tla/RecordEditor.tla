---------------------------- MODULE RecordEditor ----------------------------
(***************************************************************************)
(* The concurrent record editor (lab 7): several editor processes work on  *)
(* one file of fixed-size records.  'g' reads a record without a lock and  *)
(* lets the user edit a copy; 'p' locks the record, reads it again, and    *)
(* writes the copy only if nobody changed the record since; otherwise it   *)
(* reports a conflict and tries again with the record as it is now.        *)
(*                                                                         *)
(* A record has parts: a record that crosses a page boundary is copied     *)
(* page by page, so an unlocked read can meet a write half way, and a      *)
(* write can end half way.  The lock belongs to the open file and goes     *)
(* with its process.  'l', which changes nothing, and F_GETLK, whose       *)
(* answer is only printed, are left out.                                   *)
(***************************************************************************)
EXTENDS Integers

CONSTANTS
  Editors,     \* the editor processes
  NoEditor,    \* holder of a free lock
  Records,     \* record numbers
  Value, Zero, \* what one part of a record may hold; what zeroed memory holds
  MaxEdits,    \* bound: edits users make, altogether
  Faults       \* subset of {"read", "write", "lock", "kill"}: what may fail

ASSUME ConstantsAssumption ==
  /\ NoEditor \notin Editors
  /\ Records \subseteq Nat
  /\ Zero \in Value
  /\ MaxEdits \in Nat

VARIABLES
  file,          \* the records
  lock,          \* lock[r]: the editor whose open file holds it
  pc,
  orig_rec, work_rec, last_rec_no, has_work,
  fetching,      \* the record number an unlocked read is for
  typed,         \* the copy as its user left it
  edits

store_vars == <<file, lock>>
rec_vars == <<orig_rec, work_rec, last_rec_no, has_work>>
user_vars == <<fetching, typed, edits>>
vars == <<store_vars, pc, rec_vars, user_vars>>

Parts == {1, 2}
Record == [Parts -> Value]

Init ==
  /\ file \in [Records -> Record]
  /\ lock = [r \in Records |-> NoEditor]
  /\ pc = [e \in Editors |-> "menu"]
  /\ orig_rec = [e \in Editors |-> [p \in Parts |-> Zero]]
  /\ work_rec = orig_rec /\ typed = orig_rec
  /\ last_rec_no = [e \in Editors |-> -1]
  /\ has_work = [e \in Editors |-> FALSE]
  /\ fetching = [e \in Editors |-> -1]
  /\ edits = 0

Goto(e, from, to) == pc[e] = from /\ pc' = [pc EXCEPT ![e] = to]

\* The record editor e works on.
Mine(e) == last_rec_no[e]

-----------------------------------------------------------------------------
(* do_get                                                                  *)

\* The read goes straight into orig_rec, first part first.
GetFirst(e, r) ==
  /\ Goto(e, "menu", "get")
  /\ fetching' = [fetching EXCEPT ![e] = r]
  /\ orig_rec' = [orig_rec EXCEPT ![e][1] = file[r][1]]
  /\ UNCHANGED <<store_vars, work_rec, last_rec_no, has_work, typed, edits>>

Mut_GetRest(e) ==
  /\ Goto(e, "get", "edit")
  /\ orig_rec' = [orig_rec EXCEPT ![e][2] = file[fetching[e]][2]]
  /\ work_rec' = [work_rec EXCEPT ![e] = orig_rec'[e]]
  /\ typed' = [typed EXCEPT ![e] = orig_rec'[e]]
  /\ last_rec_no' = [last_rec_no EXCEPT ![e] = fetching[e] + 1]
  /\ has_work' = [has_work EXCEPT ![e] = TRUE]
  /\ UNCHANGED <<store_vars, fetching, edits>>

GetRest(e) ==
  /\ Goto(e, "get", "edit")
  /\ orig_rec' = [orig_rec EXCEPT ![e][2] = file[fetching[e]][2]]
  /\ work_rec' = [work_rec EXCEPT ![e] = orig_rec'[e]]
  /\ typed' = [typed EXCEPT ![e] = orig_rec'[e]]
  /\ last_rec_no' = [last_rec_no EXCEPT ![e] = fetching[e]]
  /\ has_work' = [has_work EXCEPT ![e] = TRUE]
  /\ UNCHANGED <<store_vars, fetching, edits>>

\* A short read: orig_rec has a new part, the rest is as it was.
GetFails(e) ==
  /\ "read" \in Faults
  /\ Goto(e, "get", "menu")
  /\ UNCHANGED <<store_vars, rec_vars, user_vars>>

\* The user enters new fields, or keeps them.
Edit(e) ==
  /\ Goto(e, "edit", "menu")
  /\ \E new \in Record :
       /\ new # work_rec[e] => edits < MaxEdits
       /\ edits' = IF new = work_rec[e] THEN edits ELSE edits + 1
       /\ work_rec' = [work_rec EXCEPT ![e] = new]
       /\ typed' = [typed EXCEPT ![e] = new]
  /\ UNCHANGED <<store_vars, orig_rec, last_rec_no, has_work, fetching>>

-----------------------------------------------------------------------------
(* do_put                                                                  *)

NothingToPut(e) ==
  /\ Goto(e, "menu", "menu")
  /\ has_work[e] /\ orig_rec[e] = work_rec[e]
  /\ has_work' = [has_work EXCEPT ![e] = FALSE]
  /\ UNCHANGED <<store_vars, orig_rec, work_rec, last_rec_no, user_vars>>

Put(e) ==
  /\ Goto(e, "menu", "lock")
  /\ has_work[e] /\ orig_rec[e] # work_rec[e]
  /\ UNCHANGED <<store_vars, rec_vars, user_vars>>

Mut_lock_rec(e) ==
  /\ Goto(e, "lock", "reread")
  /\ lock' = [lock EXCEPT ![Mine(e)] = e]
  /\ UNCHANGED <<file, rec_vars, user_vars>>

\* F_OFD_SETLKW, or EDEADLK, ENOLCK, EINTR.
lock_rec(e) ==
  /\ Goto(e, "lock", "reread")
  /\ lock[Mine(e)] = NoEditor
  /\ lock' = [lock EXCEPT ![Mine(e)] = e]
  /\ UNCHANGED <<file, rec_vars, user_vars>>

LockFails(e) ==
  /\ "lock" \in Faults
  /\ Goto(e, "lock", "menu")
  /\ UNCHANGED <<store_vars, rec_vars, user_vars>>

Mut_Unchanged(e) ==
  /\ Goto(e, "reread", "write")
  /\ UNCHANGED <<store_vars, rec_vars, user_vars>>

Unchanged(e) ==
  /\ Goto(e, "reread", "write")
  /\ file[Mine(e)] = orig_rec[e]
  /\ UNCHANGED <<store_vars, rec_vars, user_vars>>

Mut_Conflict(e) ==
  /\ Goto(e, "reread", "conflict")
  /\ file[Mine(e)] # orig_rec[e]
  /\ work_rec' = [work_rec EXCEPT ![e] = file[Mine(e)]]
  /\ UNCHANGED <<store_vars, orig_rec, last_rec_no, has_work, user_vars>>

Conflict(e) ==
  /\ Goto(e, "reread", "conflict")
  /\ file[Mine(e)] # orig_rec[e]
  /\ orig_rec' = [orig_rec EXCEPT ![e] = file[Mine(e)]]
  /\ work_rec' = [work_rec EXCEPT ![e] = file[Mine(e)]]
  /\ UNCHANGED <<store_vars, last_rec_no, has_work, user_vars>>

Mut_RereadFails(e) ==
  /\ "read" \in Faults
  /\ Goto(e, "reread", "menu")
  /\ UNCHANGED <<store_vars, rec_vars, user_vars>>

RereadFails(e) ==
  /\ "read" \in Faults
  /\ Goto(e, "reread", "failed")
  /\ UNCHANGED <<store_vars, rec_vars, user_vars>>

WriteFirst(e) ==
  /\ Goto(e, "write", "write rest")
  /\ file' = [file EXCEPT ![Mine(e)][1] = work_rec[e][1]]
  /\ UNCHANGED <<lock, rec_vars, user_vars>>

WriteRest(e) ==
  /\ Goto(e, "write rest", "updated")
  /\ file' = [file EXCEPT ![Mine(e)][2] = work_rec[e][2]]
  /\ UNCHANGED <<lock, rec_vars, user_vars>>

\* Nothing, or only the first part, was written.
WriteFails(e) ==
  /\ "write" \in Faults
  /\ Goto(e, "write", "failed") \/ Goto(e, "write rest", "failed")
  /\ UNCHANGED <<store_vars, rec_vars, user_vars>>

\* After five seconds.
unlock_rec(e) == lock' = [lock EXCEPT ![Mine(e)] = NoEditor]

Done(e) ==
  /\ Goto(e, "updated", "menu")
  /\ unlock_rec(e)
  /\ has_work' = [has_work EXCEPT ![e] = FALSE]
  /\ UNCHANGED <<file, orig_rec, work_rec, last_rec_no, user_vars>>

Retry(e) ==
  /\ Goto(e, "conflict", "lock")
  /\ unlock_rec(e)
  /\ UNCHANGED <<file, rec_vars, user_vars>>

GiveUp(e) ==
  /\ Goto(e, "failed", "menu")
  /\ unlock_rec(e)
  /\ UNCHANGED <<file, rec_vars, user_vars>>

-----------------------------------------------------------------------------
\* 'q', or killed anywhere: closing the file releases its locks.
Exit(e) ==
  /\ \/ pc[e] = "menu"
     \/ "kill" \in Faults /\ pc[e] # "exited"
  /\ pc' = [pc EXCEPT ![e] = "exited"]
  /\ lock' = [r \in Records |-> IF lock[r] = e THEN NoEditor ELSE lock[r]]
  /\ UNCHANGED <<file, rec_vars, user_vars>>

do_get(e) == (\E r \in Records : GetFirst(e, r)) \/ GetRest(e) \/ GetFails(e) \/ Edit(e)

do_put(e) ==
  \/ NothingToPut(e) \/ Put(e) \/ lock_rec(e) \/ LockFails(e)
  \/ Unchanged(e) \/ Conflict(e) \/ RereadFails(e)
  \/ WriteFirst(e) \/ WriteRest(e) \/ WriteFails(e)
  \/ Done(e) \/ Retry(e) \/ GiveUp(e)

Next == \E e \in Editors : do_get(e) \/ do_put(e) \/ Exit(e)

Spec == Init /\ [][Next]_vars

\* A put that was begun is carried on; the kernel grants a lock that stays free.
FairSpec == Spec /\ \A e \in Editors : WF_vars(pc[e] # "menu" /\ do_put(e))

-----------------------------------------------------------------------------
TypeOK ==
  /\ file \in [Records -> Record]
  /\ lock \in [Records -> Editors \cup {NoEditor}]
  /\ pc \in [Editors -> {"menu", "get", "edit", "lock", "reread", "write", "write rest",
                         "updated", "conflict", "failed", "exited"}]
  /\ orig_rec \in [Editors -> Record] /\ work_rec \in [Editors -> Record]
  /\ typed \in [Editors -> Record]
  /\ last_rec_no \in [Editors -> Records \cup {-1}]
  /\ fetching \in [Editors -> Records \cup {-1}]
  /\ has_work \in [Editors -> BOOLEAN]
  /\ edits \in 0 .. MaxEdits

Locked == {"reread", "write", "write rest", "updated", "conflict", "failed"}

\* A record is locked exactly while an editor is between lock_rec and unlock_rec
\* on it: no path of do_put returns with the lock, whatever fails in between,
\* and none works on another record than the one it locked.
LockDiscipline ==
  \A r \in Records, e \in Editors :
    lock[r] = e <=> last_rec_no[e] = r /\ pc[e] \in Locked

\* No update is lost: an editor starts to overwrite a record only when the
\* record is what the editor last saw of it, however old its unlocked read is,
\* whatever mixture of two versions that read returned, and however many
\* editors compete for the lock.
NoLostUpdate ==
  [][\A e \in Editors : WriteFirst(e) => file[last_rec_no[e]] = orig_rec[e]]_vars

\* The record as the others will come to see it: a write that is under way has
\* not happened yet.
Settled ==
  [r \in Records |->
     IF lock[r] # NoEditor /\ pc[lock[r]] = "write rest" THEN orig_rec[lock[r]] ELSE file[r]]

Store == INSTANCE RecordStore WITH
  store <- Settled, base <- orig_rec, edit <- work_rec, target <- last_rec_no

\* Every change of the file is a compare-and-set.
ImplementsStore == Store!Spec

\* A put returns to the menu, through any number of conflicts, once the users
\* of the other editors stop making edits.
PutReturns == \A e \in Editors : pc[e] = "lock" ~> pc[e] \in {"menu", "exited"}

\* "Record %d updated successfully.": what is in the file is what the user typed.
UpdatedAsTyped == \A e \in Editors : pc[e] = "updated" => work_rec[e] = typed[e]
=============================================================================
