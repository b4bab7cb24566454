------------------------ MODULE ArchivePromiseProofs ------------------------
(* That AccountArchive keeps the promise of ArchivePromise, for any number of *)
(* snapshots and runs, as long as one thread at a time changes versions and  *)
(* none of them is hit by a late error: what the "terms" and the "database"  *)
(* windows add may happen.                                                   *)
EXTENDS AccountArchiveProofs, FiniteSetTheorems

Gentle == Windows \subseteq {"terms", "database"}

\* One thread at a time: a run or the owner's rotation.
OneThread ==
  /\ \A r, q \in Runs : pc[r] # "idle" /\ pc[q] # "idle" => r = q
  /\ rot.pc # "idle" => NoRun
  /\ \A r \in Runs : pc[r] # "idle" => keep[r] = retention
  /\ rot.pc # "idle" => rot.keep = retention

\* Who rotates believes the right version active, if there is one still, and has
\* chosen neither it nor a protected one.
Rotators ==
  /\ \A r \in Runs : pc[r] \in {"rotating", "selected"} =>
       /\ base[r] = snap[r] /\ active \in {snap[r], None} /\ expires[snap[r]] # "due"
       /\ pc[r] = "selected" => snap[r] \notin gone[r] /\ gone[r] \cap protected = {}
  /\ rot.pc \in {"loaded", "selected"} => active \in {rot.base, None}
  /\ rot.pc = "selected" => rot.base \notin rot.gone /\ rot.gone \cap protected = {}

\* Versions are dated in the order in which they were completed.
Dated ==
  /\ \A s \in Completed : doneAt[s] <= clock
  /\ \A s, t \in Completed : doneAt[s] = doneAt[t] => s = t
  /\ protected \subseteq Completed

ThreadInv == FileInv /\ RowsUsed /\ ActiveIsCompleted /\ OneThread /\ Rotators
OrderInv  == ThreadInv /\ Dated /\ ActiveIsNewest

LEMMA InitThread == Init => ThreadInv /\ Dated /\ ActiveIsNewest
<1> SUFFICES ASSUME Init PROVE ThreadInv /\ Dated /\ ActiveIsNewest
  OBVIOUS
<1>1. FileInv
  BY InitType DEF Init, Each, IdleRot, FileInv, RunInv, HasSnapshot, RunsApart, UsedCovers,
     FilesOfRun, ListsSpareRuns, RowsGoFirst, ClearAlone, CompletedHasFiles, Completed,
     Unpromoted, NoRun, NoJob
<1>2. Completed = {}
  BY DEF Init, Completed
<1>3. \A r \in Runs : pc[r] = "idle"
  BY DEF Init, Each
<1> QED
  BY <1>1, <1>2, <1>3 DEF Init, ThreadInv, RowsUsed, ActiveIsCompleted, OneThread,
     Rotators, IdleRot, Dated, ActiveIsNewest

LEMMA OneThreadStep ==
  ASSUME Gentle, RunInv, OneThread, [Next]_vars
  PROVE  OneThread'
<1> USE DEF Gentle, RunInv, TypeOK, OneThread, NoRun, rows, terms, disk, run, seen
<1>1. ASSUME NEW r \in Runs, Begin(r) PROVE OneThread'
  BY <1>1 DEF Begin, Goto, Alone
<1>2. ASSUME NEW r \in Runs,
             \/ InsertStaging(r) \/ MakeStage(r) \/ Fail(r) \/ FailCommit(r)
             \/ RunSelect(r) \/ RunDelete(r) \/ RunRotationFails(r) \/ RunUnlink(r)
      PROVE OneThread'
  BY <1>2 DEF InsertStaging, MakeStage, Fail, FailCommit, RunSelect, RunDelete,
     RunRotationFails, RunUnlink, Goto
<1>3. ASSUME NEW r \in Runs, Finish(r) \/ Switch(r) PROVE OneThread'
  BY <1>3 DEF Finish, Switch, Goto
<1>4. ASSUME NEW r \in Runs, FailUnlink(r) \/ Notify(r) \/ NotifyFails(r) PROVE OneThread'
  BY <1>4 DEF FailUnlink, Notify, NotifyFails, EndRun, Goto
<1>5. ASSUME NEW n \in 1..MaxRetention, ChangeRetention(n) PROVE OneThread'
  BY <1>5 DEF ChangeRetention, RotationMayStart, LoadRot
<1>6. ASSUME NEW s \in Snaps, ReplaceProtected(s) PROVE OneThread'
  BY <1>6 DEF ReplaceProtected, RotationMayStart, LoadRot
<1>7. CASE RotSelect
  <2>1. rot'.keep = rot.keep /\ rot.pc # "idle"
    BY <1>7 DEF RotSelect
  <2> QED BY <1>7, <2>1 DEF RotSelect
<1>8. CASE RotDelete
  <2>1. rot'.keep = rot.keep /\ rot.pc # "idle"
    BY <1>8 DEF RotDelete
  <2> QED BY <1>8, <2>1 DEF RotDelete
<1>9. CASE RotUnlink
  BY <1>9 DEF RotUnlink, IdleRot
<1>10. CASE Crash
  BY <1>10 DEF Crash, Each, IdleRot
<1>11. CASE UNCHANGED <<pc, keep, retention, rot>>
  BY <1>11
<1> QED BY <1>1, <1>2, <1>3, <1>4, <1>5, <1>6, <1>7, <1>8, <1>9, <1>10, <1>11
        DEF Next, RunStep, RotStep, WipeStep, vars, TimePasses, ClearStart, ClearDrop,
            ClearFiles, Expire, ExpireUnlink, ExpireStops, MakePermanent, LosePermanence, Downgrade,
            Upgrade, Recover

LEMMA RotatorsStep ==
  ASSUME Gentle, ThreadInv, [Next]_vars
  PROVE  Rotators'
<1> USE DEF Gentle, ThreadInv, FileInv, RunInv, HasSnapshot, TypeOK, OneThread, NoRun, Rotators,
            rows, terms, disk, run, seen
<1>1. ASSUME NEW r \in Runs,
             \/ Begin(r) \/ InsertStaging(r) \/ MakeStage(r) \/ Fail(r)
             \/ RunRotationFails(r) \/ RunUnlink(r)
      PROVE Rotators'
  BY <1>1 DEF Begin, InsertStaging, MakeStage, Fail, RunRotationFails, RunUnlink, Goto
<1>2. ASSUME NEW r \in Runs, Finish(r) PROVE Rotators'
  BY <1>2 DEF Finish, Goto
<1>3. ASSUME NEW r \in Runs, Switch(r) PROVE Rotators'
  <2>1. /\ pc' = [pc EXCEPT ![r] = "rotating"] /\ base' = [base EXCEPT ![r] = snap[r]]
        /\ snap[r] \in Snaps /\ active' = snap[r] /\ snap' = snap /\ rot' = rot
        /\ expires' = [expires EXCEPT ![snap[r]] = IF expiring[r] THEN "later" ELSE "never"]
    BY <1>3 DEF Switch, Goto
  <2>2. \A q \in Runs : q # r => pc'[q] = "idle"
    BY <1>3, <2>1 DEF Switch
  <2>3. rot.pc = "idle" /\ pc[r] # "idle"
    BY <1>3 DEF Switch
  <2> QED BY <2>1, <2>2, <2>3
<1>4. ASSUME NEW r \in Runs, FailCommit(r) PROVE Rotators'
  <2>1. \A q \in Runs : pc'[q] \notin {"rotating", "selected"}
    BY <1>4 DEF FailCommit, Goto
  <2>2. rot'.pc = "idle"
    BY <1>4 DEF FailCommit
  <2> QED BY <2>1, <2>2
<1>5. ASSUME NEW r \in Runs, FailUnlink(r) \/ Notify(r) \/ NotifyFails(r) PROVE Rotators'
  <2>1. (\A q \in Runs : pc'[q] = "idle") /\ rot'.pc = "idle"
    BY <1>5 DEF FailUnlink, Notify, NotifyFails, EndRun, Goto
  <2> QED BY <2>1
<1>6. ASSUME NEW r \in Runs, RunSelect(r) PROVE Rotators'
  <2>1. base[r] \notin Removable(base[r], keep[r]) /\ Removable(base[r], keep[r]) \cap protected = {}
    BY DEF Removable
  <2> QED BY <1>6, <2>1, RemovableCompleted DEF RunSelect, Goto
<1>7. ASSUME NEW r \in Runs, RunDelete(r) PROVE Rotators'
  <2>1. (\A q \in Runs : pc'[q] \notin {"rotating", "selected"}) /\ rot'.pc = "idle"
    BY <1>7 DEF RunDelete, Goto
  <2> QED BY <2>1
<1>8. ASSUME NEW n \in 1..MaxRetention, ChangeRetention(n) PROVE Rotators'
  BY <1>8 DEF ChangeRetention, RotationMayStart, LoadRot
<1>9. ASSUME NEW s \in Snaps, ReplaceProtected(s) PROVE Rotators'
  BY <1>9 DEF ReplaceProtected, RotationMayStart, LoadRot
<1>10. CASE RotSelect
  <2>1. /\ rot.base \notin Removable(rot.base, rot.keep)
        /\ Removable(rot.base, rot.keep) \cap protected = {}
    BY DEF Removable
  <2> QED BY <1>10, <2>1 DEF RotSelect
<1>11. CASE RotDelete
  BY <1>11 DEF RotDelete, DeleteRows, NullIfGone
<1>12. CASE RotUnlink
  BY <1>12 DEF RotUnlink, IdleRot
<1>13. ASSUME NEW s \in Snaps, TimePasses(s) PROVE Rotators'
  BY <1>13 DEF TimePasses
<1>14. CASE ClearDrop
  BY <1>14 DEF ClearDrop, DeleteRows
<1>15. CASE Expire
  <2>1. \A r \in Runs : pc[r] \in {"rotating", "selected"} => active' = active
    BY <1>15, NoneIsNoSnap DEF Expire, Completed
  <2> QED BY <1>15, <2>1 DEF Expire, DeleteRows
<1>16. CASE MakePermanent \/ LosePermanence \/ Downgrade \/ Upgrade
  BY <1>16 DEF MakePermanent, LosePermanence, Downgrade, Upgrade, DateCompleted
<1>17. CASE Crash
  BY <1>17 DEF Crash, Each, IdleRot
<1>18. CASE Recover
  <2>1. NoRun /\ rot' = rot /\ pc' = pc /\ active' = active
    BY <1>18 DEF Recover, ClearAlone
  <2> QED BY <1>18, <2>1 DEF Recover, DeleteRows
<1>19. CASE ClearStart \/ ClearFiles \/ ExpireUnlink \/ ExpireStops \/ UNCHANGED vars
  BY <1>19 DEF ClearStart, ClearFiles, ExpireUnlink, ExpireStops, vars
<1> QED BY <1>1, <1>2, <1>3, <1>4, <1>5, <1>6, <1>7, <1>8, <1>9, <1>10, <1>11, <1>12, <1>13,
           <1>14, <1>15, <1>16, <1>17, <1>18, <1>19
        DEF Next, RunStep, RotStep, WipeStep

LEMMA ThreadStep ==
  ASSUME Gentle, ThreadInv, [Next]_vars
  PROVE  ThreadInv'
<1>1. FileInv'
  BY NextFiles DEF Gentle, ThreadInv
<1>2. (RowsUsed /\ ActiveIsCompleted)'
  BY NextPointer DEF ThreadInv, PointerInv, FileInv
<1>3. OneThread'
  BY OneThreadStep DEF ThreadInv, FileInv
<1> QED BY <1>1, <1>2, <1>3, RotatorsStep DEF ThreadInv

-----------------------------------------------------------------------------
(* What steps do to the versions *)

\* Rows that go are those of a rotation, an expiry, a clear, or of no version.
LEMMA VersionsStep ==
  ASSUME Gentle, ThreadInv, [Next]_vars
  PROVE  \/ UNCHANGED <<active, Completed>>
         \/ \E r \in Runs : /\ Switch(r) /\ snap[r] \in Snaps \ Completed
                            /\ active' = snap[r] /\ Completed' = Completed \cup {snap[r]}
         \/ \E old \in SUBSET Snaps :
              /\ active \notin old /\ old \cap protected = {} /\ active' = active
              /\ Completed' = Completed \ old
         \/ Expire
         \/ ClearDrop
<1> USE DEF Gentle, ThreadInv, FileInv, RunInv, HasSnapshot, TypeOK, rows, terms, disk, run, seen
<1>1. ASSUME NEW r \in Runs, InsertStaging(r) PROVE UNCHANGED <<active, Completed>>
  BY <1>1 DEF InsertStaging, RowsUsed, Completed
<1>2. ASSUME NEW r \in Runs, Switch(r)
      PROVE  /\ snap[r] \in Snaps \ Completed /\ active' = snap[r]
             /\ Completed' = Completed \cup {snap[r]}
  BY <1>2 DEF Switch, Completed
<1>3. ASSUME NEW r \in Runs, FailCommit(r) PROVE UNCHANGED <<active, Completed>>
  <2>1. snap[r] \notin Completed
    BY <1>3, NoneIsNoSnap DEF FailCommit, FilesOfRun, Unpromoted, Completed
  <2>2. active # snap[r] \/ active = None
    BY <2>1 DEF ActiveIsCompleted
  <2> QED BY <1>3, <2>1, <2>2 DEF FailCommit, DeleteRows, NullIfGone, Completed
<1>4. ASSUME NEW r \in Runs, RunDelete(r)
      PROVE  /\ gone[r] \in SUBSET Snaps /\ active \notin gone[r] /\ gone[r] \cap protected = {}
             /\ active' = active /\ Completed' = Completed \ gone[r]
  <2>1. /\ gone[r] \in SUBSET Snaps /\ active \notin gone[r] /\ gone[r] \cap protected = {}
    BY <1>4, NoneIsNoSnap DEF RunDelete, Rotators
  <2> QED BY <1>4, <2>1 DEF RunDelete, DeleteRows, NullIfGone, Completed
<1>5. ASSUME RotDelete
      PROVE  /\ rot.gone \in SUBSET Snaps /\ active \notin rot.gone /\ rot.gone \cap protected = {}
             /\ active' = active /\ Completed' = Completed \ rot.gone
  <2>1. /\ rot.gone \in SUBSET Snaps /\ active \notin rot.gone /\ rot.gone \cap protected = {}
    BY <1>5, NoneIsNoSnap DEF RotDelete, Rotators
  <2> QED BY <1>5, <2>1 DEF RotDelete, DeleteRows, NullIfGone, Completed
<1>6. ASSUME Recover PROVE UNCHANGED <<active, Completed>>
  BY <1>6 DEF Recover, DeleteRows, Interrupted, Completed
<1>7. CASE UNCHANGED <<active, row>>
  BY <1>7 DEF Completed
<1>8. \A r \in Runs : ~ NotifyFails(r)
  BY DEF NotifyFails
<1> QED
  BY <1>1, <1>2, <1>3, <1>4, <1>5, <1>6, <1>7, <1>8
     DEF Next, RunStep, RotStep, WipeStep, vars, Begin, MakeStage, Finish, Fail,
         FailUnlink, RunSelect, RunRotationFails, RunUnlink, Notify,
         ChangeRetention, ReplaceProtected, TimePasses, RotSelect, RotUnlink,
         ClearStart, ClearFiles, ExpireUnlink, ExpireStops, MakePermanent, LosePermanence,
         Downgrade, Upgrade, Crash, Goto

\* Expiry replaces a current version it takes by the newest of those that are left.
LEMMA ExpireFacts ==
  ASSUME TypeOK, Expire
  PROVE  \E old \in SUBSET Completed :
           /\ Completed' = Completed \ old
           /\ active \notin old => active' = active
           /\ active \in old => IF Completed \ old = {} THEN active' = None
                ELSE active' \in Completed \ old /\ \A t \in Completed \ old : doneAt[t] <= doneAt[active']
           /\ \A s \in Completed \ old : doneAt'[s] = doneAt[s] /\ (s \in protected' <=> s \in protected)
           /\ protected' \subseteq protected \ old
           /\ clock' = clock
<1> DEFINE due == {s \in Completed : expires[s] = "due"}
<1>1. Completed' = Completed \ due
  BY DEF Expire, DeleteRows, Completed, TypeOK
<1> QED BY <1>1 DEF Expire, DeleteRows, Completed, TypeOK

\* The versions behave as their owner is promised.
THEOREM PromiseIsKept ==
  ASSUME Gentle
  PROVE  Spec => ImplementsPromise
<1>1. Init => ThreadInv
  BY InitThread
<1>2. ThreadInv /\ [Next]_vars => ThreadInv'
  BY ThreadStep
<1>3. Init => Promise!Init
  BY DEF Init, Promise!Init, Completed
<1>4. ThreadInv /\ [Next]_vars => [Promise!Next]_(Promise!promise)
  <2> SUFFICES ASSUME ThreadInv, [Next]_vars
               PROVE  Promise!Next \/ UNCHANGED <<active, Completed>>
    BY DEF Promise!promise
  <2>1. ASSUME NEW r \in Runs, snap[r] \in Snaps \ Completed, active' = snap[r],
               Completed' = Completed \cup {snap[r]}
        PROVE  Promise!Promote
    BY <2>1 DEF Promise!Promote
  <2>2. ASSUME NEW old \in SUBSET Snaps, active \notin old, active' = active,
               Completed' = Completed \ old
        PROVE  Promise!Retire
    <3>1. (old \cap Completed) \in SUBSET (Completed \ {active})
      BY <2>2
    <3>2. Completed' = Completed \ (old \cap Completed)
      BY <2>2
    <3> QED BY <2>2, <3>1, <3>2 DEF Promise!Retire
  <2>3. ASSUME Expire PROVE Promise!Expire
    <3>1. TypeOK
      BY DEF ThreadInv, FileInv, RunInv
    <3>2. PICK old \in SUBSET Completed :
            /\ Completed' = Completed \ old
            /\ active \notin old => active' = active
            /\ active \in old => IF Completed \ old = {} THEN active' = None
                                 ELSE active' \in Completed \ old
      BY <2>3, <3>1, ExpireFacts
    <3> QED BY <3>2 DEF Promise!Expire
  <2>4. ASSUME ClearDrop PROVE Promise!Clear
    BY <2>4 DEF ClearDrop, DeleteRows, Completed, Promise!Clear
  <2> QED BY <2>1, <2>2, <2>3, <2>4, VersionsStep DEF Promise!Next
<1> QED BY <1>1, <1>2, <1>3, <1>4, PTL DEF Spec, ImplementsPromise, Promise!Spec
-----------------------------------------------------------------------------
(* The current version is the newest, and rotation counts with it *)

\* A version gets its date when it is completed and keeps it; a row that loses
\* its version loses its protection with it.
LEMMA DatesStep ==
  ASSUME Gentle, OrderInv, [Next]_vars, \A r \in Runs : ~ Switch(r)
  PROVE  /\ clock' = clock
         /\ \A s \in Completed' : s \in Completed /\ doneAt'[s] = doneAt[s]
         /\ protected' \subseteq Completed'
<1> USE DEF Gentle, OrderInv, Dated, ThreadInv, FileInv, RunInv, TypeOK, rows, terms, disk, run, seen
<1> DEFINE Kept == /\ clock' = clock
                   /\ \A s \in Completed' : s \in Completed /\ doneAt'[s] = doneAt[s]
                   /\ protected' \subseteq Completed'
<1>1. CASE UNCHANGED <<row, doneAt, clock>> /\ protected' \subseteq protected
  BY <1>1 DEF Completed
<1>2. ASSUME NEW out \in SUBSET Snaps, DeleteRows(out), clock' = clock PROVE Kept
  BY <1>2 DEF DeleteRows, Completed
<1>3. ASSUME NEW r \in Runs, InsertStaging(r) PROVE Kept
  BY <1>3 DEF InsertStaging, RowsUsed, Completed
<1>4. ASSUME NEW r \in Runs, FailCommit(r) PROVE Kept
  <2>1. {snap[r]} \ {None} \in SUBSET Snaps
    OBVIOUS
  <2>2. CASE UNCHANGED <<rows, active>>
    BY <1>1, <1>4, <2>2 DEF FailCommit
  <2> QED BY <1>2, <1>4, <2>1, <2>2 DEF FailCommit
<1>5. ASSUME NEW r \in Runs, RunDelete(r) PROVE Kept
  BY <1>2, <1>5 DEF RunDelete
<1>6. CASE RotDelete
  BY <1>2, <1>6 DEF RotDelete
<1>7. CASE ClearDrop
  BY <1>2, <1>7 DEF ClearDrop
<1>8. CASE Expire
  <2>1. {s \in Completed : expires[s] = "due"} \in SUBSET Snaps
    BY DEF Completed
  <2> QED BY <1>2, <1>8, <2>1 DEF Expire
<1>9. CASE Recover
  BY <1>2, <1>9 DEF Recover, Interrupted
<1>10. \A r \in Runs : ~ NotifyFails(r)
  BY DEF NotifyFails
<1> HIDE DEF Kept
<1> QED
  BY <1>1, <1>3, <1>4, <1>5, <1>6, <1>7, <1>8, <1>9, <1>10
     DEF Kept, Next, RunStep, RotStep, WipeStep, vars, Begin, MakeStage, Finish, Fail,
         FailUnlink, RunSelect, RunRotationFails, RunUnlink, Notify,
         ChangeRetention, ReplaceProtected, TimePasses, RotSelect, RotUnlink,
         ClearStart, ClearFiles, ExpireUnlink, ExpireStops, MakePermanent, LosePermanence,
         Downgrade, Upgrade, Crash, DateCompleted

LEMMA OrderStep ==
  ASSUME Gentle, OrderInv, [Next]_vars
  PROVE  OrderInv'
<1> USE DEF OrderInv
<1>1. ThreadInv'
  BY ThreadStep
<1>2. TypeOK
  BY DEF ThreadInv, FileInv, RunInv
<1>3. ASSUME NEW r \in Runs, Switch(r) PROVE Dated' /\ ActiveIsNewest'
  <2>1. snap[r] \in Snaps \ Completed
    BY <1>3 DEF Switch, Completed, ThreadInv, FileInv, RunInv, HasSnapshot
  <2>2. /\ clock' = clock + 1 /\ clock \in Nat
        /\ Completed' = Completed \cup {snap[r]} /\ active' = snap[r]
        /\ doneAt'[snap[r]] = clock + 1
        /\ \A s \in Completed : doneAt'[s] = doneAt[s] /\ doneAt[s] \in Nat
        /\ protected' \subseteq protected \cup Completed
    BY <1>2, <1>3, <2>1 DEF Switch, Completed, TypeOK
  <2>3. Dated'
    BY <2>1, <2>2 DEF Dated
  <2>4. ActiveIsNewest'
    BY <2>1, <2>2, NoneIsNoSnap DEF ActiveIsNewest, Dated
  <2> QED BY <2>3, <2>4
<1>4. ASSUME \A r \in Runs : ~ Switch(r) PROVE Dated' /\ ActiveIsNewest'
  <2>1. /\ clock' = clock
        /\ \A s \in Completed' : s \in Completed /\ doneAt'[s] = doneAt[s]
        /\ protected' \subseteq Completed'
    BY <1>4, DatesStep
  <2>2. Dated'
    BY <2>1 DEF Dated
  <2>3. CASE active' = active
    <3>1. active # None => doneAt'[active] = doneAt[active] \/ active \notin Completed'
      BY <2>1
    <3>2. active' \in Completed' \/ active' = None
      BY <1>1 DEF ThreadInv, ActiveIsCompleted
    <3> QED BY <2>1, <2>2, <2>3, <3>1, <3>2 DEF ActiveIsNewest
  <2>4. CASE Expire
    <3>1. PICK old \in SUBSET Completed :
           /\ Completed' = Completed \ old
           /\ active \notin old => active' = active
           /\ active \in old => IF Completed \ old = {} THEN active' = None
                ELSE active' \in Completed \ old /\ \A t \in Completed \ old : doneAt[t] <= doneAt[active']
      BY <1>2, <2>4, ExpireFacts
    <3>2. CASE active \in old
      <4>1. ActiveIsNewest'
        BY <2>1, <3>1, <3>2, NoneIsNoSnap DEF ActiveIsNewest, Completed
      <4> QED BY <2>2, <4>1
    <3> QED BY <2>3, <3>1, <3>2
  <2>5. CASE ClearDrop
    <3>1. ActiveIsNewest'
      BY <2>5 DEF ClearDrop, DeleteRows, Completed, ActiveIsNewest
    <3> QED BY <2>2, <3>1
  <2> QED BY <1>4, <2>2, <2>3, <2>4, <2>5, VersionsStep
<1> QED BY <1>1, <1>3, <1>4

\* Rotation and expiry never leave the account on an older version than it has,
\* nor on none while it has one.
THEOREM CurrentIsNewest ==
  ASSUME Gentle
  PROVE  Spec => []ActiveIsNewest
<1>1. Init => OrderInv
  BY InitThread DEF OrderInv
<1>2. OrderInv /\ [Next]_vars => OrderInv'
  BY OrderStep
<1> QED BY <1>1, <1>2, PTL DEF Spec, OrderInv

\* The version rotation believes active is newer than any it removes, so that the
\* account keeps its number of versions besides the one removed.
LEMMA EnoughAreNewer ==
  ASSUME TypeOK, Dated, ActiveIsNewest, ActiveIsCompleted, NEW mine \in Snaps \cup {None},
         active \in {mine, None}, NEW n \in Nat, NEW s \in Removable(mine, n)
  PROVE  Cardinality({t \in Completed : doneAt[t] > doneAt[s]}) >= n
<1> DEFINE ordinary == {t \in Completed : t # mine /\ t \notin protected}
           fewer    == {t \in ordinary : doneAt[t] > doneAt[s]}
           newer    == {t \in Completed : doneAt[t] > doneAt[s]}
<1>1. s \in ordinary /\ Cardinality(fewer) + 1 >= n
  BY DEF Removable
<1>2. mine \in newer /\ mine \notin fewer
  <2>1. active = mine /\ mine \in Completed
    BY <1>1 DEF ActiveIsNewest, ActiveIsCompleted
  <2>2. doneAt[s] <= doneAt[mine] /\ doneAt[s] # doneAt[mine]
    BY <1>1, <2>1, NoneIsNoSnap DEF ActiveIsNewest, Dated, Completed
  <2> QED BY <1>1, <2>1, <2>2 DEF TypeOK, Completed
<1>3. fewer \cup {mine} \subseteq newer
  BY <1>2
<1>4. IsFiniteSet(newer) /\ IsFiniteSet(fewer)
  <2>1. newer \subseteq Snaps /\ fewer \subseteq Snaps
    BY DEF Completed
  <2> QED BY <2>1, SnapsFinite, FS_Subset
<1>5. Cardinality(fewer \cup {mine}) = Cardinality(fewer) + 1
  BY <1>2, <1>4, FS_AddElement
<1>6. Cardinality(fewer \cup {mine}) <= Cardinality(newer)
  BY <1>3, <1>4, FS_Subset
<1>7. Cardinality(fewer) \in Nat /\ Cardinality(newer) \in Nat
  BY <1>4, FS_CardinalityType
<1> HIDE DEF fewer
<1> QED BY <1>1, <1>5, <1>6, <1>7

\* A protected version is spared, and so are the newest ones, as many as the
\* account's setting says at that moment.
THEOREM RotationIsSparing ==
  ASSUME Gentle
  PROVE  Spec => RotationSpares
<1>1. Init => OrderInv
  BY InitThread DEF OrderInv
<1>2. OrderInv /\ [Next]_vars => OrderInv'
  BY OrderStep
<1> DEFINE Chosen == (UNION {gone'[r] : r \in {q \in Runs : RunSelect(q)}})
                       \cup (IF RotSelect THEN rot'.gone ELSE {})
           Spared == /\ \A s \in protected : row'[s] = "absent" => Expire \/ ClearDrop
                     /\ \A s \in Chosen :
                          Cardinality({t \in Completed : doneAt[t] > doneAt[s]}) >= retention
<1>3. OrderInv /\ [Next]_vars => [Spared]_vars
  <2> SUFFICES ASSUME OrderInv, [Next]_vars PROVE Spared
    OBVIOUS
  <2>0. TypeOK /\ ThreadInv /\ Dated /\ ActiveIsNewest /\ ActiveIsCompleted /\ OneThread /\ Rotators
    BY DEF OrderInv, ThreadInv, FileInv, RunInv
  <2>1. ASSUME NEW s \in protected, row'[s] = "absent" PROVE Expire \/ ClearDrop
    <3>1. s \in Completed /\ s \notin Completed'
      BY <2>0, <2>1 DEF Dated, Completed
    <3> QED BY <2>0, <3>1, VersionsStep
  <2>2. ASSUME NEW r \in Runs, RunSelect(r), NEW s \in gone'[r]
        PROVE  Cardinality({t \in Completed : doneAt[t] > doneAt[s]}) >= retention
    <3>1. /\ base[r] \in Snaps \cup {None} /\ active \in {base[r], None}
          /\ keep[r] = retention /\ retention \in Nat
      BY <2>0, <2>2, RetentionPositive DEF RunSelect, Rotators, OneThread, TypeOK
    <3>2. s \in Removable(base[r], keep[r])
      BY <2>0, <2>2 DEF RunSelect, TypeOK
    <3> QED BY <2>0, <3>1, <3>2, EnoughAreNewer
  <2>3. ASSUME RotSelect, NEW s \in rot'.gone
        PROVE  Cardinality({t \in Completed : doneAt[t] > doneAt[s]}) >= retention
    <3>1. /\ rot.base \in Snaps \cup {None} /\ active \in {rot.base, None}
          /\ rot.keep = retention /\ retention \in Nat
      BY <2>0, <2>3, RetentionPositive DEF RotSelect, Rotators, OneThread, TypeOK
    <3>2. s \in Removable(rot.base, rot.keep)
      BY <2>0, <2>3 DEF RotSelect, TypeOK
    <3> QED BY <2>0, <3>1, <3>2, EnoughAreNewer
  <2>4. ASSUME NEW s \in Chosen
        PROVE  Cardinality({t \in Completed : doneAt[t] > doneAt[s]}) >= retention
    <3>1. CASE \E r \in Runs : RunSelect(r) /\ s \in gone'[r]
      BY <2>2, <3>1
    <3>2. CASE RotSelect /\ s \in rot'.gone
      BY <2>3, <3>2
    <3>3. (\E r \in Runs : RunSelect(r) /\ s \in gone'[r]) \/ (RotSelect /\ s \in rot'.gone)
      <4>1. CASE s \in UNION {gone'[r] : r \in {q \in Runs : RunSelect(q)}}
        BY <4>1
      <4>2. CASE s \in (IF RotSelect THEN rot'.gone ELSE {})
        BY <4>2
      <4> QED BY <2>4, <4>1, <4>2
    <3> QED BY <3>1, <3>2, <3>3
  <2> QED BY <2>1, <2>4
<1> QED BY <1>1, <1>2, <1>3, PTL DEF Spec, RotationSpares
=============================================================================
