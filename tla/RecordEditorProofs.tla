------------------------- MODULE RecordEditorProofs -------------------------
(***************************************************************************)
(* Proofs about RecordEditor, for any set of editors, any records and any  *)
(* values: types, the discipline of the record locks, that no update is    *)
(* lost, and that the file implements RecordStore.                         *)
(***************************************************************************)
EXTENDS RecordEditor, TLAPS

-----------------------------------------------------------------------------
(* Types, and which record an editor is about.                             *)

\* An editor that has something to put, or is putting it, knows its record, and
\* so does one that is reading.
Targets ==
  \A e \in Editors :
    /\ has_work[e] \/ pc[e] \in Locked \cup {"lock"} => last_rec_no[e] \in Records
    /\ pc[e] = "get" => fetching[e] \in Records

Typed == TypeOK /\ Targets

\* Overwriting one part of one record leaves an array of records.
LEMMA PartStored ==
  ASSUME NEW S, NEW f \in [S -> Record], NEW k, NEW p, NEW v \in Value
  PROVE  [f EXCEPT ![k][p] = v] \in [S -> Record]
<1>1. [f[k] EXCEPT ![p] = v] \in Record \/ k \notin S
  BY DEF Record
<1> QED
  BY <1>1

\* A part of a record is a value.
LEMMA PartRead ==
  ASSUME NEW S, NEW f \in [S -> Record], NEW k \in S, NEW p \in Parts
  PROVE  f[k][p] \in Value
BY DEF Record

\* The bound on the edits users make is kept.
LEMMA EditsBounded ==
  ASSUME NEW e \in Editors, edits \in 0 .. MaxEdits, Edit(e)
  PROVE  edits' \in 0 .. MaxEdits
<1>1. MaxEdits \in Nat
  BY ConstantsAssumption
<1>2. PICK new \in Record :
        /\ new # work_rec[e] => edits < MaxEdits
        /\ edits' = IF new = work_rec[e] THEN edits ELSE edits + 1
  BY DEF Edit
<1>3. CASE new = work_rec[e]
  BY <1>2, <1>3
<1>4. CASE new # work_rec[e]
  <2>1. edits < MaxEdits /\ edits' = edits + 1
    BY <1>2, <1>4
  <2> QED
    BY <1>1, <2>1
<1> QED
  BY <1>3, <1>4

\* Initially every variable has its type.
LEMMA TypeInit == Init => Typed
BY ConstantsAssumption DEF Init, Typed, TypeOK, Targets, Locked, Record, Parts

\* No step takes a variable out of its type: one step per action.
LEMMA TypeNext == Typed /\ [Next]_vars => Typed'
<1> SUFFICES ASSUME Typed, [Next]_vars PROVE Typed'
  OBVIOUS
<1> USE ConstantsAssumption DEF Typed, TypeOK, Targets, Locked, Goto, Mine, store_vars, rec_vars, user_vars, unlock_rec
<1>1. CASE UNCHANGED vars
  BY <1>1 DEF vars
<1>2. ASSUME NEW e \in Editors, NEW r \in Records, GetFirst(e, r) PROVE Typed'
  <2>1. file[r][1] \in Value
    BY PartRead DEF Parts
  <2>2. orig_rec' \in [Editors -> Record]
    BY <1>2, <2>1, PartStored DEF GetFirst
  <2> QED
    BY <1>2, <2>2 DEF GetFirst
<1>3. ASSUME NEW e \in Editors, GetRest(e) PROVE Typed'
  <2>1. fetching[e] \in Records
    BY <1>3 DEF GetRest
  <2>2. file[fetching[e]][2] \in Value
    BY <2>1, PartRead DEF Parts
  <2>3. orig_rec' \in [Editors -> Record]
    BY <1>3, <2>2, PartStored DEF GetRest
  <2>4. work_rec' \in [Editors -> Record] /\ typed' \in [Editors -> Record]
    BY <1>3, <2>3 DEF GetRest
  <2>5. TypeOK'
    BY <1>3, <2>1, <2>3, <2>4 DEF GetRest
  <2>6. Targets'
    BY <1>3, <2>1 DEF GetRest
  <2> QED
    BY <2>5, <2>6
<1>4. ASSUME NEW e \in Editors, GetFails(e) PROVE Typed'
  BY <1>4 DEF GetFails
<1>5. ASSUME NEW e \in Editors, Edit(e) PROVE Typed'
  <2>1. PICK new \in Record :
          /\ new # work_rec[e] => edits < MaxEdits
          /\ edits' = IF new = work_rec[e] THEN edits ELSE edits + 1
          /\ work_rec' = [work_rec EXCEPT ![e] = new]
          /\ typed' = [typed EXCEPT ![e] = new]
    BY <1>5 DEF Edit
  <2>2. edits' \in 0 .. MaxEdits
    BY <1>5, EditsBounded
  <2>3. /\ Goto(e, "edit", "menu")
        /\ UNCHANGED <<store_vars, orig_rec, last_rec_no, has_work, fetching>>
    BY <1>5 DEF Edit
  <2> HIDE <1>5
  <2>4. /\ work_rec' \in [Editors -> Record] /\ typed' \in [Editors -> Record]
        /\ pc' \in [Editors -> {"menu", "get", "edit", "lock", "reread", "write", "write rest",
                               "updated", "conflict", "failed", "exited"}]
    BY <2>1, <2>3
  <2>5. TypeOK'
    BY <2>2, <2>3, <2>4
  <2>6. Targets'
    BY <2>3
  <2> QED
    BY <2>5, <2>6
<1>6. ASSUME NEW e \in Editors, NothingToPut(e) PROVE Typed'
  BY <1>6 DEF NothingToPut
<1>7. ASSUME NEW e \in Editors, Put(e) PROVE Typed'
  BY <1>7 DEF Put
<1>8. ASSUME NEW e \in Editors, lock_rec(e) PROVE Typed'
  BY <1>8 DEF lock_rec
<1>9. ASSUME NEW e \in Editors, LockFails(e) PROVE Typed'
  BY <1>9 DEF LockFails
<1>10. ASSUME NEW e \in Editors, Unchanged(e) PROVE Typed'
  BY <1>10 DEF Unchanged
<1>11. ASSUME NEW e \in Editors, Conflict(e) PROVE Typed'
  BY <1>11 DEF Conflict
<1>12. ASSUME NEW e \in Editors, RereadFails(e) PROVE Typed'
  BY <1>12 DEF RereadFails
<1>13. ASSUME NEW e \in Editors, WriteFirst(e) PROVE Typed'
  <2>1. work_rec[e][1] \in Value
    BY PartRead DEF Parts
  <2>2. file' \in [Records -> Record]
    BY <1>13, <2>1, PartStored DEF WriteFirst
  <2> QED
    BY <1>13, <2>2 DEF WriteFirst
<1>14. ASSUME NEW e \in Editors, WriteRest(e) PROVE Typed'
  <2>1. work_rec[e][2] \in Value
    BY PartRead DEF Parts
  <2>2. file' \in [Records -> Record]
    BY <1>14, <2>1, PartStored DEF WriteRest
  <2> QED
    BY <1>14, <2>2 DEF WriteRest
<1>15. ASSUME NEW e \in Editors, WriteFails(e) PROVE Typed'
  BY <1>15 DEF WriteFails
<1>16. ASSUME NEW e \in Editors, Done(e) PROVE Typed'
  BY <1>16 DEF Done
<1>17. ASSUME NEW e \in Editors, Retry(e) PROVE Typed'
  BY <1>17 DEF Retry
<1>18. ASSUME NEW e \in Editors, GiveUp(e) PROVE Typed'
  BY <1>18 DEF GiveUp
<1>19. ASSUME NEW e \in Editors, Exit(e) PROVE Typed'
  BY <1>19 DEF Exit
<1> QED
  BY <1>1, <1>2, <1>3, <1>4, <1>5, <1>6, <1>7, <1>8, <1>9, <1>10, <1>11, <1>12,
     <1>13, <1>14, <1>15, <1>16, <1>17, <1>18, <1>19 DEF Next, do_get, do_put

\* Every variable of the editors and of the file keeps its type, whatever fails.
THEOREM TypeCorrect == Spec => []TypeOK
<1>1. Init => Typed
  BY TypeInit
<1>2. Typed /\ [Next]_vars => Typed'
  BY TypeNext
<1>3. Typed => TypeOK
  BY DEF Typed
<1> QED
  BY <1>1, <1>2, <1>3, PTL DEF Spec

-----------------------------------------------------------------------------
(* The record locks.                                                       *)

\* Initially nobody holds a lock.
LEMMA LockInit == Init => LockDiscipline
BY ConstantsAssumption DEF Init, LockDiscipline, Locked

\* A step of one editor that stays inside or outside of do_put's locked part, and
\* changes its record outside only, leaves the locks in order.
LEMMA LockKept ==
  ASSUME LockDiscipline, NEW e \in Editors, lock' = lock,
         \A d \in Editors : d # e => pc'[d] = pc[d] /\ last_rec_no'[d] = last_rec_no[d],
         \/ pc[e] \notin Locked /\ pc'[e] \notin Locked
         \/ pc[e] \in Locked /\ pc'[e] \in Locked /\ last_rec_no'[e] = last_rec_no[e]
  PROVE  LockDiscipline'
<1> SUFFICES ASSUME NEW q \in Records, NEW d \in Editors
             PROVE  lock[q] = d <=> last_rec_no'[d] = q /\ pc'[d] \in Locked
  BY DEF LockDiscipline
<1>1. lock[q] = d <=> last_rec_no[d] = q /\ pc[d] \in Locked
  BY DEF LockDiscipline
<1>2. CASE d = e
  BY <1>1, <1>2
<1>3. CASE d # e
  BY <1>1, <1>3
<1> QED
  BY <1>2, <1>3

\* A step that gives the lock back leaves the locks in order.
LEMMA LockGivenBack ==
  ASSUME Typed, LockDiscipline, NEW e \in Editors, unlock_rec(e), last_rec_no' = last_rec_no,
         \A d \in Editors : d # e => pc'[d] = pc[d],
         pc[e] \in Locked, pc'[e] \notin Locked
  PROVE  LockDiscipline'
<1> SUFFICES ASSUME NEW q \in Records, NEW d \in Editors
             PROVE  lock'[q] = d <=> last_rec_no[d] = q /\ pc'[d] \in Locked
  BY DEF LockDiscipline
<1>1. \A c \in Editors : lock[q] = c <=> last_rec_no[c] = q /\ pc[c] \in Locked
  BY DEF LockDiscipline
<1>2. lock'[q] = IF q = last_rec_no[e] THEN NoEditor ELSE lock[q]
  BY DEF unlock_rec, Mine, Typed, TypeOK
<1> QED
  BY <1>1, <1>2, ConstantsAssumption

\* A lock is taken and given back with the position in do_put: one step per action.
LEMMA LockNext == Typed /\ LockDiscipline /\ [Next]_vars => LockDiscipline'
<1> SUFFICES ASSUME Typed, LockDiscipline, [Next]_vars PROVE LockDiscipline'
  OBVIOUS
<1>a. pc \in [Editors -> {"menu", "get", "edit", "lock", "reread", "write", "write rest",
                          "updated", "conflict", "failed", "exited"}]
  BY DEF Typed, TypeOK
<1>b. last_rec_no \in [Editors -> Records \cup {-1}] /\ lock \in [Records -> Editors \cup {NoEditor}]
  BY DEF Typed, TypeOK
<1> USE <1>a, <1>b DEF Goto, store_vars, rec_vars, user_vars
<1>1. CASE UNCHANGED vars
  BY <1>1 DEF vars, LockDiscipline
<1>2. ASSUME NEW e \in Editors, NEW r \in Records, GetFirst(e, r) PROVE LockDiscipline'
  BY <1>2, LockKept DEF GetFirst, Locked
<1>3. ASSUME NEW e \in Editors, GetRest(e) PROVE LockDiscipline'
  BY <1>3, LockKept DEF GetRest, Locked
<1>4. ASSUME NEW e \in Editors, GetFails(e) PROVE LockDiscipline'
  BY <1>4, LockKept DEF GetFails, Locked
<1>5. ASSUME NEW e \in Editors, Edit(e) PROVE LockDiscipline'
  BY <1>5, LockKept DEF Edit, Locked
<1>6. ASSUME NEW e \in Editors, NothingToPut(e) PROVE LockDiscipline'
  BY <1>6, LockKept DEF NothingToPut, Locked
<1>7. ASSUME NEW e \in Editors, Put(e) PROVE LockDiscipline'
  BY <1>7, LockKept DEF Put, Locked
<1>8. ASSUME NEW e \in Editors, lock_rec(e) PROVE LockDiscipline'
  <2> SUFFICES ASSUME NEW q \in Records, NEW d \in Editors
               PROVE  lock'[q] = d <=> last_rec_no'[d] = q /\ pc'[d] \in Locked
    BY DEF LockDiscipline
  <2>1. \A c \in Editors : lock[q] = c <=> last_rec_no[c] = q /\ pc[c] \in Locked
    BY DEF LockDiscipline
  <2>2. last_rec_no' = last_rec_no /\ last_rec_no[e] \in Records /\ lock[last_rec_no[e]] = NoEditor
    BY <1>8 DEF lock_rec, Typed, Targets, Mine
  <2>3. lock'[q] = IF q = last_rec_no[e] THEN e ELSE lock[q]
    BY <1>8, <2>2 DEF lock_rec, Mine
  <2>4. pc[e] \notin Locked /\ pc'[e] \in Locked /\ (d # e => pc'[d] = pc[d])
    BY <1>8 DEF lock_rec, Locked
  <2> QED
    BY <2>1, <2>2, <2>3, <2>4, ConstantsAssumption
<1>9. ASSUME NEW e \in Editors, LockFails(e) PROVE LockDiscipline'
  BY <1>9, LockKept DEF LockFails, Locked
<1>10. ASSUME NEW e \in Editors, Unchanged(e) PROVE LockDiscipline'
  BY <1>10, LockKept DEF Unchanged, Locked
<1>11. ASSUME NEW e \in Editors, Conflict(e) PROVE LockDiscipline'
  BY <1>11, LockKept DEF Conflict, Locked
<1>12. ASSUME NEW e \in Editors, RereadFails(e) PROVE LockDiscipline'
  BY <1>12, LockKept DEF RereadFails, Locked
<1>13. ASSUME NEW e \in Editors, WriteFirst(e) PROVE LockDiscipline'
  BY <1>13, LockKept DEF WriteFirst, Locked
<1>14. ASSUME NEW e \in Editors, WriteRest(e) PROVE LockDiscipline'
  BY <1>14, LockKept DEF WriteRest, Locked
<1>15. ASSUME NEW e \in Editors, WriteFails(e) PROVE LockDiscipline'
  BY <1>15, LockKept DEF WriteFails, Locked
<1>16. ASSUME NEW e \in Editors, Done(e) PROVE LockDiscipline'
  BY <1>16, LockGivenBack DEF Done, Locked
<1>17. ASSUME NEW e \in Editors, Retry(e) PROVE LockDiscipline'
  BY <1>17, LockGivenBack DEF Retry, Locked
<1>18. ASSUME NEW e \in Editors, GiveUp(e) PROVE LockDiscipline'
  BY <1>18, LockGivenBack DEF GiveUp, Locked
<1>19. ASSUME NEW e \in Editors, Exit(e) PROVE LockDiscipline'
  <2> SUFFICES ASSUME NEW q \in Records, NEW d \in Editors
               PROVE  lock'[q] = d <=> last_rec_no'[d] = q /\ pc'[d] \in Locked
    BY DEF LockDiscipline
  <2>1. lock[q] = d <=> last_rec_no[d] = q /\ pc[d] \in Locked
    BY DEF LockDiscipline
  <2>2. last_rec_no' = last_rec_no /\ lock'[q] = IF lock[q] = e THEN NoEditor ELSE lock[q]
    BY <1>19 DEF Exit
  <2>3. pc'[e] \notin Locked /\ (d # e => pc'[d] = pc[d])
    BY <1>19 DEF Exit, Locked
  <2> QED
    BY <2>1, <2>2, <2>3, ConstantsAssumption
<1> QED
  BY <1>1, <1>2, <1>3, <1>4, <1>5, <1>6, <1>7, <1>8, <1>9, <1>10, <1>11,
     <1>12, <1>13, <1>14, <1>15, <1>16, <1>17, <1>18, <1>19
     DEF Next, do_get, do_put

\* No two editors are between lock_rec and unlock_rec on the same record.
LEMMA OneHolder ==
  ASSUME Typed, LockDiscipline, NEW d \in Editors, NEW e \in Editors,
         pc[d] \in Locked, pc[e] \in Locked, last_rec_no[d] = last_rec_no[e]
  PROVE  d = e
BY DEF Typed, Targets, LockDiscipline

\* A record is locked exactly while an editor is between lock_rec and unlock_rec on it.
THEOREM LocksMatch == Spec => []LockDiscipline
<1>1. Init => Typed /\ LockDiscipline
  BY TypeInit, LockInit
<1>2. Typed /\ LockDiscipline /\ [Next]_vars => (Typed /\ LockDiscipline)'
  BY TypeNext, LockNext
<1> QED
  BY <1>1, <1>2, PTL DEF Spec

-----------------------------------------------------------------------------
(* The write.                                                              *)

\* Until it writes, a locked record is as the editor saw it last; half way
\* through, its first part is the editor's and its second is as it was.
WriteClaims ==
  \A e \in Editors :
    /\ pc[e] = "write" => file[last_rec_no[e]] = orig_rec[e]
    /\ pc[e] = "write rest" =>
         /\ file[last_rec_no[e]][1] = work_rec[e][1]
         /\ file[last_rec_no[e]][2] = orig_rec[e][2]

IInv == Typed /\ LockDiscipline /\ WriteClaims

\* Initially nobody writes.
LEMMA ClaimsInit == Init => WriteClaims
BY DEF Init, WriteClaims

\* A step of one editor that does not touch the file, and does not lead it into
\* the write, leaves the claims of all editors in order.
LEMMA ClaimsKept ==
  ASSUME WriteClaims, NEW e \in Editors, file' = file, pc'[e] \notin {"write", "write rest"},
         \A d \in Editors : d # e =>
           /\ pc'[d] = pc[d] /\ last_rec_no'[d] = last_rec_no[d]
           /\ orig_rec'[d] = orig_rec[d] /\ work_rec'[d] = work_rec[d]
  PROVE  WriteClaims'
<1> SUFFICES ASSUME NEW d \in Editors
    PROVE  /\ pc'[d] = "write" => file[last_rec_no'[d]] = orig_rec'[d]
           /\ pc'[d] = "write rest" =>
                /\ file[last_rec_no'[d]][1] = work_rec'[d][1]
                /\ file[last_rec_no'[d]][2] = orig_rec'[d][2]
  BY DEF WriteClaims
<1>1. CASE d = e
  BY <1>1
<1>2. CASE d # e
  <2>1. /\ pc'[d] = pc[d] /\ last_rec_no'[d] = last_rec_no[d]
        /\ orig_rec'[d] = orig_rec[d] /\ work_rec'[d] = work_rec[d]
    BY <1>2
  <2>2. /\ pc[d] = "write" => file[last_rec_no[d]] = orig_rec[d]
        /\ pc[d] = "write rest" =>
             /\ file[last_rec_no[d]][1] = work_rec[d][1]
             /\ file[last_rec_no[d]][2] = orig_rec[d][2]
    BY DEF WriteClaims
  <2> QED
    BY <2>1, <2>2
<1> QED
  BY <1>1, <1>2

\* A step of one editor that writes to the record it has locked does not concern
\* the claims of the others.
LEMMA ClaimsOfOthers ==
  ASSUME IInv, NEW e \in Editors, pc[e] \in Locked,
         \A q \in Records : q # last_rec_no[e] => file'[q] = file[q],
         UNCHANGED rec_vars,
         NEW d \in Editors, d # e, pc'[d] = pc[d]
  PROVE  /\ pc'[d] = "write" => file'[last_rec_no'[d]] = orig_rec'[d]
         /\ pc'[d] = "write rest" =>
              /\ file'[last_rec_no'[d]][1] = work_rec'[d][1]
              /\ file'[last_rec_no'[d]][2] = orig_rec'[d][2]
<1>1. CASE pc[d] \in {"write", "write rest"}
  <2>1. last_rec_no[d] # last_rec_no[e] /\ last_rec_no[d] \in Records
    BY <1>1, OneHolder DEF IInv, Typed, Targets, Locked
  <2>2. file'[last_rec_no[d]] = file[last_rec_no[d]]
    BY <2>1
  <2> QED
    BY <2>2 DEF IInv, WriteClaims, rec_vars
<1>2. CASE pc[d] \notin {"write", "write rest"}
  BY <1>2
<1> QED
  BY <1>1, <1>2

\* Every step keeps the claims: one step per action.
LEMMA ClaimsNext == IInv /\ [Next]_vars => WriteClaims'
<1> SUFFICES ASSUME IInv, [Next]_vars PROVE WriteClaims'
  OBVIOUS
<1>a. /\ pc \in [Editors -> {"menu", "get", "edit", "lock", "reread", "write", "write rest",
                             "updated", "conflict", "failed", "exited"}]
      /\ orig_rec \in [Editors -> Record] /\ work_rec \in [Editors -> Record]
  BY DEF IInv, Typed, TypeOK
<1>b. last_rec_no \in [Editors -> Records \cup {-1}] /\ file \in [Records -> Record]
  BY DEF IInv, Typed, TypeOK
<1>c. WriteClaims
  BY DEF IInv
<1> USE <1>a, <1>b, <1>c DEF Goto, store_vars, rec_vars, user_vars
<1>1. CASE UNCHANGED vars
  BY <1>1 DEF vars, WriteClaims
<1>2. ASSUME NEW e \in Editors, NEW r \in Records, GetFirst(e, r) PROVE WriteClaims'
  BY <1>2, ClaimsKept DEF GetFirst
<1>3. ASSUME NEW e \in Editors, GetRest(e) PROVE WriteClaims'
  BY <1>3, ClaimsKept DEF GetRest
<1>4. ASSUME NEW e \in Editors, GetFails(e) PROVE WriteClaims'
  BY <1>4, ClaimsKept DEF GetFails
<1>5. ASSUME NEW e \in Editors, Edit(e) PROVE WriteClaims'
  BY <1>5, ClaimsKept DEF Edit
<1>6. ASSUME NEW e \in Editors, NothingToPut(e) PROVE WriteClaims'
  BY <1>6, ClaimsKept DEF NothingToPut
<1>7. ASSUME NEW e \in Editors, Put(e) PROVE WriteClaims'
  BY <1>7, ClaimsKept DEF Put
<1>8. ASSUME NEW e \in Editors, lock_rec(e) PROVE WriteClaims'
  BY <1>8, ClaimsKept DEF lock_rec
<1>9. ASSUME NEW e \in Editors, LockFails(e) PROVE WriteClaims'
  BY <1>9, ClaimsKept DEF LockFails
<1>10. ASSUME NEW e \in Editors, Unchanged(e) PROVE WriteClaims'
  BY <1>10 DEF Unchanged, WriteClaims, Mine
<1>11. ASSUME NEW e \in Editors, Conflict(e) PROVE WriteClaims'
  BY <1>11, ClaimsKept DEF Conflict
<1>12. ASSUME NEW e \in Editors, RereadFails(e) PROVE WriteClaims'
  BY <1>12, ClaimsKept DEF RereadFails
<1>13. ASSUME NEW e \in Editors, WriteFirst(e) PROVE WriteClaims'
  <2>1. last_rec_no[e] \in Records
    BY <1>13 DEF WriteFirst, IInv, Typed, Targets, Locked
  <2>2. file'[last_rec_no[e]] = [file[last_rec_no[e]] EXCEPT ![1] = work_rec[e][1]]
    BY <1>13, <2>1 DEF WriteFirst, Mine
  <2>3. \A q \in Records : q # last_rec_no[e] => file'[q] = file[q]
    BY <1>13 DEF WriteFirst, Mine
  <2>4. \A d \in Editors : d # e => pc'[d] = pc[d]
    BY <1>13 DEF WriteFirst
  <2>5. pc[e] \in Locked /\ UNCHANGED rec_vars
    BY <1>13 DEF WriteFirst, Locked
  <2>6. file[last_rec_no[e]] \in Record /\ file[last_rec_no[e]] = orig_rec[e]
    <3>1. pc[e] = "write"
      BY <1>13 DEF WriteFirst
    <3> QED
      BY <2>1, <3>1 DEF WriteClaims
  <2>7. /\ pc'[e] = "write rest"
        /\ file'[last_rec_no[e]][1] = work_rec[e][1]
        /\ file'[last_rec_no[e]][2] = orig_rec[e][2]
    <3>1. pc'[e] = "write rest"
      BY <1>13 DEF WriteFirst
    <3>2. DOMAIN file[last_rec_no[e]] = {1, 2}
      BY <2>6 DEF Record, Parts
    <3> HIDE <1>a, <1>b, <1>c
    <3>3. file'[last_rec_no[e]][1] = work_rec[e][1]
      BY <2>2, <3>2
    <3>4. file'[last_rec_no[e]][2] = file[last_rec_no[e]][2]
      BY <2>2, <3>2
    <3> QED
      BY <2>6, <3>1, <3>3, <3>4
  <2> QED
    BY <2>3, <2>4, <2>5, <2>7, ClaimsOfOthers DEF WriteClaims
<1>14. ASSUME NEW e \in Editors, WriteRest(e) PROVE WriteClaims'
  <2>1. last_rec_no[e] \in Records
    BY <1>14 DEF WriteRest, IInv, Typed, Targets, Locked
  <2>2. file'[last_rec_no[e]] = [file[last_rec_no[e]] EXCEPT ![2] = work_rec[e][2]]
    BY <1>14, <2>1 DEF WriteRest, Mine
  <2>3. \A q \in Records : q # last_rec_no[e] => file'[q] = file[q]
    BY <1>14 DEF WriteRest, Mine
  <2>4. \A d \in Editors : d # e => pc'[d] = pc[d]
    BY <1>14 DEF WriteRest
  <2>5. pc[e] \in Locked /\ UNCHANGED rec_vars
    BY <1>14 DEF WriteRest, Locked
  <2>6. pc'[e] = "updated"
    BY <1>14 DEF WriteRest
  <2> QED
    BY <2>3, <2>4, <2>5, <2>6, ClaimsOfOthers DEF WriteClaims
<1>15. ASSUME NEW e \in Editors, WriteFails(e) PROVE WriteClaims'
  BY <1>15, ClaimsKept DEF WriteFails
<1>16. ASSUME NEW e \in Editors, Done(e) PROVE WriteClaims'
  BY <1>16, ClaimsKept DEF Done
<1>17. ASSUME NEW e \in Editors, Retry(e) PROVE WriteClaims'
  BY <1>17, ClaimsKept DEF Retry
<1>18. ASSUME NEW e \in Editors, GiveUp(e) PROVE WriteClaims'
  BY <1>18, ClaimsKept DEF GiveUp
<1>19. ASSUME NEW e \in Editors, Exit(e) PROVE WriteClaims'
  BY <1>19, ClaimsKept DEF Exit
<1> QED
  BY <1>1, <1>2, <1>3, <1>4, <1>5, <1>6, <1>7, <1>8, <1>9, <1>10, <1>11,
     <1>12, <1>13, <1>14, <1>15, <1>16, <1>17, <1>18, <1>19
     DEF IInv, Next, do_get, do_put

\* The inductive invariant of the editors.
THEOREM Invariance == Spec => []IInv
<1>1. Init => IInv
  BY TypeInit, LockInit, ClaimsInit DEF IInv
<1>2. IInv /\ [Next]_vars => IInv'
  BY TypeNext, LockNext, ClaimsNext DEF IInv
<1> QED
  BY <1>1, <1>2, PTL DEF Spec

\* No update is lost: an editor starts to overwrite a record only when the
\* record is what the editor last saw of it.
THEOREM NoUpdateIsLost == Spec => NoLostUpdate
<1>1. IInv => \A e \in Editors : WriteFirst(e) => file[last_rec_no[e]] = orig_rec[e]
  BY DEF IInv, WriteClaims, WriteFirst, Goto
<1>2. IInv /\ [Next]_vars =>
        [\A e \in Editors : WriteFirst(e) => file[last_rec_no[e]] = orig_rec[e]]_vars
  BY <1>1
<1> QED
  BY <1>2, Invariance, PTL DEF Spec, NoLostUpdate

-----------------------------------------------------------------------------
(* The file implements RecordStore.                                        *)

\* A settled record, before and after a step.
LEMMA SettledAt ==
  ASSUME NEW r \in Records
  PROVE  /\ Settled[r] = IF lock[r] # NoEditor /\ pc[lock[r]] = "write rest"
                         THEN orig_rec[lock[r]] ELSE file[r]
         /\ Settled'[r] = IF lock'[r] # NoEditor /\ pc'[lock'[r]] = "write rest"
                          THEN orig_rec'[lock'[r]] ELSE file'[r]
BY DEF Settled

\* The settled records are determined one by one.
LEMMA SettledSame ==
  ASSUME \A r \in Records : Settled'[r] = Settled[r]
  PROVE  Settled' = Settled
<1>1. Settled = [r \in Records |-> Settled[r]] /\ Settled' = [r \in Records |-> Settled'[r]]
  BY DEF Settled
<1> QED
  BY <1>1

\* A step of one editor that neither writes nor is half way through a write
\* leaves the settled records alone, also if it takes or gives back a lock.
LEMMA SettledKept ==
  ASSUME Typed, NEW e \in Editors, file' = file,
         \A d \in Editors : d # e => pc'[d] = pc[d] /\ orig_rec'[d] = orig_rec[d],
         pc[e] # "write rest", pc'[e] # "write rest",
         \A r \in Records :
           \/ lock'[r] = lock[r]
           \/ lock[r] \in {e, NoEditor} /\ lock'[r] \in {e, NoEditor}
  PROVE  Settled' = Settled
<1> SUFFICES ASSUME NEW r \in Records PROVE Settled'[r] = Settled[r]
  BY SettledSame
<1>1. lock[r] \in Editors \cup {NoEditor}
  BY DEF Typed, TypeOK
<1>2. CASE lock[r] \in {e, NoEditor}
  <2>1. lock'[r] \in {e, NoEditor}
    BY <1>2
  <2> QED
    BY <1>2, <2>1, SettledAt
<1>3. CASE lock[r] \in Editors /\ lock[r] # e
  <2>1. lock'[r] = lock[r] \/ lock[r] = NoEditor
    BY <1>3
  <2>2. lock'[r] = lock[r]
    BY <1>3, <2>1, ConstantsAssumption
  <2>3. pc'[lock[r]] = pc[lock[r]] /\ orig_rec'[lock[r]] = orig_rec[lock[r]]
    BY <1>3
  <2> QED
    BY <2>2, <2>3, SettledAt
<1> QED
  BY <1>1, <1>2, <1>3

\* A well-typed step that leaves the settled records alone is a step of the store.
LEMMA LocalStep ==
  ASSUME Typed', Settled' = Settled
  PROVE  Store!Next
BY DEF Typed, TypeOK, Store!Next, Store!Local, Store!Record, Record

\* While one editor is in do_put's locked part, the settled records other than
\* its own depend on the other editors only.
LEMMA SettledElsewhere ==
  ASSUME IInv, NEW e \in Editors, pc[e] \in Locked,
         \A d \in Editors : d # e => pc'[d] = pc[d], orig_rec' = orig_rec,
         NEW r \in Records, r # last_rec_no[e], file'[r] = file[r], lock'[r] = lock[r]
  PROVE  Settled'[r] = Settled[r]
<1>1. lock[r] # e /\ lock[r] \in Editors \cup {NoEditor}
  BY DEF IInv, LockDiscipline, Typed, TypeOK
<1> QED
  BY <1>1, SettledAt, ConstantsAssumption

\* What is known of the record of an editor that is about to write, or half way
\* through.
LEMMA WriterFacts ==
  ASSUME IInv, NEW e \in Editors, pc[e] \in {"write", "write rest"}
  PROVE  /\ last_rec_no[e] \in Records /\ lock[last_rec_no[e]] = e /\ e # NoEditor
         /\ pc[e] \in Locked
         /\ file[last_rec_no[e]] \in Record
         /\ orig_rec[e] \in Record /\ work_rec[e] \in Record
         /\ Settled[last_rec_no[e]] = orig_rec[e]
<1>1. pc[e] \in Locked
  BY DEF Locked
<1>2. last_rec_no[e] \in Records
  BY <1>1 DEF IInv, Typed, Targets
<1>3. lock[last_rec_no[e]] = e
  BY <1>1, <1>2 DEF IInv, LockDiscipline
<1>4. e # NoEditor
  BY ConstantsAssumption
<1>5. file[last_rec_no[e]] \in Record /\ orig_rec[e] \in Record /\ work_rec[e] \in Record
  BY <1>2 DEF IInv, Typed, TypeOK
<1>6. pc[e] = "write" => file[last_rec_no[e]] = orig_rec[e]
  BY DEF IInv, WriteClaims
<1>7. Settled[last_rec_no[e]] = orig_rec[e]
  BY <1>2, <1>3, <1>4, <1>6, SettledAt
<1> QED
  BY <1>1, <1>2, <1>3, <1>4, <1>5, <1>7

\* Records with the same parts are the same.
LEMMA SameParts ==
  ASSUME NEW f \in Record, NEW g \in Record, f[1] = g[1], f[2] = g[2]
  PROVE  f = g
<1>1. f = [p \in Parts |-> f[p]] /\ g = [p \in Parts |-> g[p]]
  BY DEF Record
<1>2. \A p \in Parts : f[p] = g[p]
  BY DEF Parts
<1> QED
  BY <1>1, <1>2

\* A step that settles the record of the editor is an update of the store.
LEMMA UpdateStep ==
  ASSUME IInv, NEW e \in Editors, pc[e] = "write rest",
         UNCHANGED rec_vars,
         NEW new \in Record, Settled'[last_rec_no[e]] = new,
         \A r \in Records : r # last_rec_no[e] => Settled'[r] = Settled[r]
  PROVE  Store!Update(e, new)
<1>1. last_rec_no[e] \in Records /\ Settled[last_rec_no[e]] = orig_rec[e]
  BY WriterFacts
<1>2. Settled = [r \in Records |-> Settled[r]] /\ Settled' = [r \in Records |-> Settled'[r]]
  BY DEF Settled
<1>3. Settled' = [Settled EXCEPT ![last_rec_no[e]] = new]
  BY <1>1, <1>2
<1> QED
  BY <1>1, <1>3 DEF Store!Update, rec_vars

\* The first half of a write is not seen in the store.
LEMMA FirstHalf ==
  ASSUME IInv, NEW e \in Editors, WriteFirst(e)
  PROVE  Settled' = Settled
<1> SUFFICES ASSUME NEW r \in Records PROVE Settled'[r] = Settled[r]
  BY SettledSame
<1>1. pc[e] = "write" /\ lock' = lock /\ orig_rec' = orig_rec
  BY DEF WriteFirst, Goto, rec_vars
<1>2. pc \in [Editors -> {"menu", "get", "edit", "lock", "reread", "write", "write rest",
                          "updated", "conflict", "failed", "exited"}]
  BY DEF IInv, Typed, TypeOK
<1>3. pc'[e] = "write rest" /\ \A d \in Editors : d # e => pc'[d] = pc[d]
  BY <1>2 DEF WriteFirst, Goto
<1>4. CASE r = last_rec_no[e]
  <2>1. lock[r] = e /\ e # NoEditor /\ Settled[r] = orig_rec[e]
    BY <1>1, <1>4, WriterFacts
  <2>2. Settled'[r] = orig_rec[e]
    BY <1>1, <1>3, <2>1, SettledAt
  <2> QED
    BY <2>1, <2>2
<1>5. CASE r # last_rec_no[e]
  <2>1. file'[r] = file[r]
    BY <1>5 DEF WriteFirst, Mine, IInv, Typed, TypeOK
  <2> QED
    BY <1>1, <1>3, <1>5, <2>1, WriterFacts, SettledElsewhere
<1> QED
  BY <1>4, <1>5

\* The second half commits the whole edit.
LEMMA SecondHalf ==
  ASSUME IInv, NEW e \in Editors, WriteRest(e)
  PROVE  Store!Commit(e)
<1>1. pc[e] = "write rest" /\ lock' = lock /\ UNCHANGED rec_vars /\ orig_rec' = orig_rec
  BY DEF WriteRest, Goto, rec_vars
<1>2. /\ last_rec_no[e] \in Records /\ lock[last_rec_no[e]] = e
      /\ file[last_rec_no[e]] \in Record /\ work_rec[e] \in Record /\ pc[e] \in Locked
  BY <1>1, WriterFacts
<1>3. pc'[e] = "updated" /\ \A d \in Editors : d # e => pc'[d] = pc[d]
  BY DEF WriteRest, Goto, IInv, Typed, TypeOK
<1>4. /\ file'[last_rec_no[e]] = [file[last_rec_no[e]] EXCEPT ![2] = work_rec[e][2]]
      /\ \A r \in Records : r # last_rec_no[e] => file'[r] = file[r]
  BY <1>2 DEF WriteRest, Mine, IInv, Typed, TypeOK
<1>5. file'[last_rec_no[e]] = work_rec[e]
  <2>1. file[last_rec_no[e]][1] = work_rec[e][1]
    BY <1>1 DEF IInv, WriteClaims
  <2>2. DOMAIN file[last_rec_no[e]] = {1, 2} /\ work_rec[e][2] \in Value
    BY <1>2 DEF Record, Parts
  <2>3. file'[last_rec_no[e]] \in Record
    BY <1>2, <1>4, <2>2 DEF Record
  <2>4. file'[last_rec_no[e]][1] = work_rec[e][1] /\ file'[last_rec_no[e]][2] = work_rec[e][2]
    BY <1>4, <2>1, <2>2
  <2> QED
    BY <1>2, <2>3, <2>4, SameParts
<1>6. Settled'[last_rec_no[e]] = work_rec[e]
  BY <1>1, <1>2, <1>3, <1>5, SettledAt
<1>7. \A r \in Records : r # last_rec_no[e] => Settled'[r] = Settled[r]
  BY <1>1, <1>2, <1>3, <1>4, SettledElsewhere
<1> QED
  BY <1>1, <1>2, <1>6, <1>7, UpdateStep DEF Store!Commit

\* An editor that stops half way leaves a torn record.
LEMMA TornStep ==
  ASSUME IInv, NEW e \in Editors, pc[e] = "write rest", pc'[e] # "write rest",
         UNCHANGED <<file, rec_vars>>,
         \A d \in Editors : d # e => pc'[d] = pc[d],
         \A r \in Records : IF r = last_rec_no[e] THEN lock'[r] \in {e, NoEditor}
                                                  ELSE lock'[r] = lock[r]
  PROVE  Store!Tear(e)
<1>1. /\ last_rec_no[e] \in Records /\ file[last_rec_no[e]] \in Record
      /\ pc[e] \in Locked /\ orig_rec' = orig_rec
  BY WriterFacts DEF rec_vars
<1>2. Settled'[last_rec_no[e]] = file[last_rec_no[e]]
  BY <1>1, SettledAt
<1>3. \A r \in Records : r # last_rec_no[e] => Settled'[r] = Settled[r]
  BY <1>1, SettledElsewhere
<1>4. Store!Update(e, file[last_rec_no[e]])
  BY <1>1, <1>2, <1>3, UpdateStep
<1>5. \A p \in Parts : file[last_rec_no[e]][p] \in {orig_rec[e][p], work_rec[e][p]}
  BY DEF IInv, WriteClaims, Parts
<1> QED
  BY <1>1, <1>4, <1>5 DEF Store!Tear, Store!Record, Record

\* One lock changes hands.
LEMMA LockChange ==
  ASSUME NEW k, NEW v, Typed, lock' = [lock EXCEPT ![k] = v]
  PROVE  \A r \in Records : lock'[r] = IF r = k THEN v ELSE lock[r]
BY DEF Typed, TypeOK

\* Every step of the editors is a step of the store: one step per action.
LEMMA StoreNext == IInv /\ IInv' /\ [Next]_vars => [Store!Next]_(Store!vars)
<1> SUFFICES ASSUME IInv, IInv', [Next]_vars PROVE [Store!Next]_(Store!vars)
  OBVIOUS
<1>a. /\ pc \in [Editors -> {"menu", "get", "edit", "lock", "reread", "write", "write rest",
                             "updated", "conflict", "failed", "exited"}]
      /\ orig_rec \in [Editors -> Record]
      /\ lock \in [Records -> Editors \cup {NoEditor}]
  BY DEF IInv, Typed, TypeOK
<1>b. Typed /\ Typed'
  BY DEF IInv
<1> USE <1>a, <1>b DEF Goto, store_vars, rec_vars, user_vars
<1>1. CASE UNCHANGED vars
  BY <1>1 DEF vars, Store!vars, Settled
<1>2. ASSUME NEW e \in Editors, NEW r \in Records, GetFirst(e, r) PROVE Store!Next
  BY <1>2, SettledKept, LocalStep DEF GetFirst
<1>3. ASSUME NEW e \in Editors, GetRest(e) PROVE Store!Next
  BY <1>3, SettledKept, LocalStep DEF GetRest
<1>4. ASSUME NEW e \in Editors, GetFails(e) PROVE Store!Next
  BY <1>4, SettledKept, LocalStep DEF GetFails
<1>5. ASSUME NEW e \in Editors, Edit(e) PROVE Store!Next
  BY <1>5, SettledKept, LocalStep DEF Edit
<1>6. ASSUME NEW e \in Editors, NothingToPut(e) PROVE Store!Next
  BY <1>6, SettledKept, LocalStep DEF NothingToPut
<1>7. ASSUME NEW e \in Editors, Put(e) PROVE Store!Next
  BY <1>7, SettledKept, LocalStep DEF Put
<1>8. ASSUME NEW e \in Editors, lock_rec(e) PROVE Store!Next
  <2>1. \A r \in Records : lock'[r] = lock[r] \/ (lock[r] = NoEditor /\ lock'[r] = e)
    <3>1. /\ lock' = [lock EXCEPT ![last_rec_no[e]] = e]
          /\ lock[last_rec_no[e]] = NoEditor
      BY <1>8 DEF lock_rec, Mine
    <3>2. \A r \in Records : lock'[r] = IF r = last_rec_no[e] THEN e ELSE lock[r]
      BY <3>1, LockChange
    <3> QED
      BY <3>1, <3>2
  <2>2. Settled' = Settled
    BY <1>8, <2>1, SettledKept DEF lock_rec
  <2> QED
    BY <2>2, LocalStep
<1>9. ASSUME NEW e \in Editors, LockFails(e) PROVE Store!Next
  BY <1>9, SettledKept, LocalStep DEF LockFails
<1>10. ASSUME NEW e \in Editors, Unchanged(e) PROVE Store!Next
  BY <1>10, SettledKept, LocalStep DEF Unchanged
<1>11. ASSUME NEW e \in Editors, Conflict(e) PROVE Store!Next
  BY <1>11, SettledKept, LocalStep DEF Conflict
<1>12. ASSUME NEW e \in Editors, RereadFails(e) PROVE Store!Next
  BY <1>12, SettledKept, LocalStep DEF RereadFails
<1>13. ASSUME NEW e \in Editors, WriteFirst(e) PROVE Store!Next
  BY <1>13, FirstHalf, LocalStep
<1>14. ASSUME NEW e \in Editors, WriteRest(e) PROVE Store!Next
  BY <1>14, SecondHalf DEF Store!Next
<1>15. ASSUME NEW e \in Editors, WriteFails(e) PROVE Store!Next
  <2>1. CASE pc[e] = "write rest"
    <3>1. Store!Tear(e)
      BY <1>15, <2>1, WriterFacts, TornStep DEF WriteFails
    <3> QED
      BY <3>1 DEF Store!Next
  <2>2. CASE pc[e] = "write"
    BY <1>15, <2>2, SettledKept, LocalStep DEF WriteFails
  <2> QED
    BY <1>15, <2>1, <2>2 DEF WriteFails
<1>16. ASSUME NEW e \in Editors, Done(e) PROVE Store!Next
  <2>1. \A r \in Records : lock'[r] = lock[r] \/ (lock[r] = e /\ lock'[r] = NoEditor)
    <3>1. pc[e] \in Locked
      BY <1>16 DEF Done, Locked
    <3>2. \A r \in Records : r = last_rec_no[e] => lock[r] = e
      BY <3>1 DEF IInv, LockDiscipline
    <3>3. lock' = [lock EXCEPT ![last_rec_no[e]] = NoEditor]
      BY <1>16 DEF Done, unlock_rec, Mine
    <3>4. \A r \in Records : lock'[r] = IF r = last_rec_no[e] THEN NoEditor ELSE lock[r]
      BY <3>3, LockChange
    <3> QED
      BY <3>2, <3>4
  <2>2. Settled' = Settled
    BY <1>16, <2>1, SettledKept DEF Done
  <2> QED
    BY <2>2, LocalStep
<1>17. ASSUME NEW e \in Editors, Retry(e) PROVE Store!Next
  <2>1. \A r \in Records : lock'[r] = lock[r] \/ (lock[r] = e /\ lock'[r] = NoEditor)
    <3>1. pc[e] \in Locked
      BY <1>17 DEF Retry, Locked
    <3>2. \A r \in Records : r = last_rec_no[e] => lock[r] = e
      BY <3>1 DEF IInv, LockDiscipline
    <3>3. lock' = [lock EXCEPT ![last_rec_no[e]] = NoEditor]
      BY <1>17 DEF Retry, unlock_rec, Mine
    <3>4. \A r \in Records : lock'[r] = IF r = last_rec_no[e] THEN NoEditor ELSE lock[r]
      BY <3>3, LockChange
    <3> QED
      BY <3>2, <3>4
  <2>2. Settled' = Settled
    BY <1>17, <2>1, SettledKept DEF Retry
  <2> QED
    BY <2>2, LocalStep
<1>18. ASSUME NEW e \in Editors, GiveUp(e) PROVE Store!Next
  <2>1. \A r \in Records : lock'[r] = lock[r] \/ (lock[r] = e /\ lock'[r] = NoEditor)
    <3>1. pc[e] \in Locked
      BY <1>18 DEF GiveUp, Locked
    <3>2. \A r \in Records : r = last_rec_no[e] => lock[r] = e
      BY <3>1 DEF IInv, LockDiscipline
    <3>3. lock' = [lock EXCEPT ![last_rec_no[e]] = NoEditor]
      BY <1>18 DEF GiveUp, unlock_rec, Mine
    <3>4. \A r \in Records : lock'[r] = IF r = last_rec_no[e] THEN NoEditor ELSE lock[r]
      BY <3>3, LockChange
    <3> QED
      BY <3>2, <3>4
  <2>2. Settled' = Settled
    BY <1>18, <2>1, SettledKept DEF GiveUp
  <2> QED
    BY <2>2, LocalStep
<1>19. ASSUME NEW e \in Editors, Exit(e) PROVE Store!Next
  <2>1. /\ pc'[e] = "exited" /\ \A d \in Editors : d # e => pc'[d] = pc[d]
        /\ UNCHANGED <<file, rec_vars>>
        /\ \A r \in Records : lock'[r] = IF lock[r] = e THEN NoEditor ELSE lock[r]
    BY <1>19 DEF Exit
  <2>2. CASE pc[e] = "write rest"
    <3>1. \A r \in Records : r # last_rec_no[e] => lock[r] # e
      BY DEF IInv, LockDiscipline
    <3>2. lock[last_rec_no[e]] = e /\ last_rec_no[e] \in Records
      BY <2>2, WriterFacts
    <3>3. Store!Tear(e)
      BY <2>1, <2>2, <3>1, <3>2, TornStep
    <3> QED
      BY <3>3 DEF Store!Next
  <2>3. CASE pc[e] # "write rest"
    <3>1. Settled' = Settled
      BY <2>1, <2>3, SettledKept
    <3> QED
      BY <3>1, LocalStep
  <2> QED
    BY <2>2, <2>3
<1> QED
  BY <1>1, <1>2, <1>3, <1>4, <1>5, <1>6, <1>7, <1>8, <1>9, <1>10, <1>11,
     <1>12, <1>13, <1>14, <1>15, <1>16, <1>17, <1>18, <1>19
     DEF Next, do_get, do_put

\* The file of records implements the compare-and-set store: whatever its
\* editors do and whatever fails, a record only changes from what an editor last
\* saw of it to that editor's version, in whole or in part.
THEOREM StoreImplemented == Spec => ImplementsStore
<1>1. Init => Store!Init
  <2> SUFFICES ASSUME Init PROVE Store!Init
    OBVIOUS
  <2>1. Typed
    BY TypeInit
  <2>2. Settled = [r \in Records |-> file[r]]
    BY DEF Init, Settled
  <2> QED
    BY <2>1, <2>2 DEF Typed, TypeOK, Store!Init, Store!Record, Record
<1>2. IInv /\ IInv' /\ [Next]_vars => [Store!Next]_(Store!vars)
  BY StoreNext
<1> QED
  BY <1>1, <1>2, Invariance, PTL DEF Spec, ImplementsStore, Store!Spec
=============================================================================
