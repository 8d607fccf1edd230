---------------------------- MODULE RecordStore -----------------------------
(***************************************************************************)
(* What the record editor promises about the shared file: a record only    *)
(* ever changes by a compare-and-set of one editor, from what that editor  *)
(* last saw of it to what the editor made of it.  An update that is cut    *)
(* short may leave some parts old and some new, but it too starts from     *)
(* what its editor last saw.  What an editor sees is not promised: a fetch *)
(* takes no lock.                                                          *)
(***************************************************************************)
EXTENDS Integers

CONSTANTS Editors, Records, Parts, Value

VARIABLES
  store,   \* the records
  base,    \* base[e]: what editor e last saw of the record it works on
  edit,    \* edit[e]: what it would have the record be
  target   \* target[e]: the record it works on

vars == <<store, base, edit, target>>

Record == [Parts -> Value]

Init ==
  /\ store \in [Records -> Record]
  /\ base \in [Editors -> Record] /\ edit \in [Editors -> Record]
  /\ target \in [Editors -> Records \cup {-1}]

\* An editor fetches a record or edits its copy.
Local ==
  /\ base' \in [Editors -> Record] /\ edit' \in [Editors -> Record]
  /\ target' \in [Editors -> Records \cup {-1}]
  /\ UNCHANGED store

Update(e, new) ==
  /\ target[e] \in Records
  /\ store[target[e]] = base[e]
  /\ store' = [store EXCEPT ![target[e]] = new]
  /\ UNCHANGED <<base, edit, target>>

Commit(e) == Update(e, edit[e])

Tear(e) ==
  \E new \in Record :
    /\ \A p \in Parts : new[p] \in {base[e][p], edit[e][p]}
    /\ Update(e, new)

Next == Local \/ \E e \in Editors : Commit(e) \/ Tear(e)

Spec == Init /\ [][Next]_vars
=============================================================================
