------------------------ MODULE AccountArchiveProofs ------------------------
(* What holds of AccountArchive for any number of snapshots and runs: types, *)
(* the pointer to the current version, the files of versions; and what it     *)
(* keeps in order: the dates the owner's plan demands, the archive that an    *)
(* interrupted run leaves behind, and the disk.                               *)
EXTENDS AccountArchive, TLAPS

\* Rotation removes completed versions only.
LEMMA RemovableCompleted ==
  \A mine, n : Removable(mine, n) \subseteq Completed /\ Completed \subseteq Snaps
BY DEF Removable, Completed

-----------------------------------------------------------------------------
(* The inductive invariant *)

\* A run has a snapshot from its second commit on, and none before it.
HasSnapshot ==
  \A r \in Runs :
    /\ pc[r] \in {"idle", "begun"} => snap[r] = None
    /\ pc[r] \notin {"idle", "begun", "failing", "cleaning"} => snap[r] \in Snaps

\* No two runs write the same snapshot.
RunsApart == \A r, q \in Runs : r # q /\ snap[r] = snap[q] => snap[r] = None

\* Whatever has a row, a writer or a place on a removal list was drawn before.
UsedCovers ==
  /\ \A s \in Snaps : row[s] # "absent" => s \in used
  /\ \A r \in Runs : snap[r] \in used \cup {None} /\ gone[r] \subseteq used
  /\ rot.gone \subseteq used /\ doomed \subseteq used

\* The snapshot of a run that has not been promoted is not completed, and its files
\* are where the run left them.
Unpromoted == {"inserted", "fetching", "switching", "failing", "cleaning"}
FilesOfRun ==
  \A r \in Runs :
    /\ pc[r] \in Unpromoted /\ snap[r] \in Snaps => row[snap[r]] # "completed"
    /\ pc[r] = "fetching" => snap[r] \in staged
    /\ pc[r] = "switching" => snap[r] \in stored

\* No removal list names the snapshot of a run that has not been promoted.
ListsSpareRuns ==
  \A q \in Runs : pc[q] \in Unpromoted /\ snap[q] \in Snaps =>
    /\ \A r \in Runs : snap[q] \notin gone[r]
    /\ snap[q] \notin rot.gone /\ snap[q] \notin doomed

\* Rows go before files.
RowsGoFirst ==
  /\ \A r \in Runs : pc[r] = "deleted" => \A s \in gone[r] : row[s] = "absent"
  /\ rot.pc = "deleted" => \A s \in rot.gone : row[s] = "absent"
  /\ \A s \in doomed : row[s] = "absent"

\* Clearing has the archive to itself when no backup starts during it.
ClearAlone ==
  /\ ~up => NoRun /\ wipe = "idle"
  /\ wipe # "idle" => NoJob
  /\ wipe = "dropped" => \A s \in Snaps : row[s] # "completed"

RunInv == TypeOK /\ HasSnapshot
FileInv == RunInv /\ RunsApart /\ UsedCovers /\ FilesOfRun /\ ListsSpareRuns
                  /\ RowsGoFirst /\ ClearAlone /\ CompletedHasFiles

LEMMA InitType == Init => TypeOK
<1> SUFFICES ASSUME Init PROVE TypeOK
  OBVIOUS
<1>1. 1 \in 1..MaxRetention /\ 0 \in Nat
  BY RetentionPositive
<1>2. /\ pc \in [Runs -> RunPc]
      /\ snap \in [Runs -> Snaps \cup {None}] /\ base \in [Runs -> Snaps \cup {None}]
      /\ keep \in [Runs -> 1..MaxRetention] /\ expiring \in [Runs -> BOOLEAN]
      /\ protect \in [Runs -> Snaps \cup {None}] /\ gone \in [Runs -> SUBSET Snaps]
  BY <1>1 DEF Init, Each, RunPc
<1>3. rot \in [pc : {"idle", "loaded", "selected", "deleted"},
              base : Snaps \cup {None}, keep : 1..MaxRetention, gone : SUBSET Snaps]
  BY <1>1 DEF Init, IdleRot
<1> QED
  BY <1>1, <1>2, <1>3 DEF Init, TypeOK

LEMMA NextType == RunInv /\ [Next]_vars => TypeOK'
<1> SUFFICES ASSUME RunInv, [Next]_vars PROVE TypeOK'
  OBVIOUS
<1> USE DEF RunInv, HasSnapshot, TypeOK, RunPc, rows, terms, disk, run, seen
<1>1. ASSUME NEW r \in Runs, Begin(r) PROVE TypeOK'
  BY <1>1 DEF Begin, Goto
<1>2. ASSUME NEW r \in Runs, InsertStaging(r) PROVE TypeOK'
  BY <1>2 DEF InsertStaging, Goto
<1>3. ASSUME NEW r \in Runs, MakeStage(r) PROVE TypeOK'
  BY <1>3 DEF MakeStage, Goto
<1>4. ASSUME NEW r \in Runs, Finish(r) PROVE TypeOK'
  <2>1. protect' \in [Runs -> Snaps \cup {None}]
    BY <1>4 DEF Finish, Completed
  <2>2. expiring' \in [Runs -> BOOLEAN]
    <3>1. (expiring[r] /\ standard) \in BOOLEAN
      OBVIOUS
    <3> QED BY <1>4, <3>1, Zenon DEF Finish
  <2>3. stored' \subseteq Snaps
    BY <1>4 DEF Finish
  <2> QED BY <1>4, <2>1, <2>2, <2>3 DEF Finish, Goto
<1>5. ASSUME NEW r \in Runs, Switch(r) PROVE TypeOK'
  <2>1. snap[r] \in Snaps
    BY <1>5 DEF Switch
  <2> QED BY <1>5, <2>1 DEF Switch, Goto, Completed
<1>6. ASSUME NEW r \in Runs, Fail(r) PROVE TypeOK'
  BY <1>6 DEF Fail, Goto
<1>7. ASSUME NEW r \in Runs, FailCommit(r) PROVE TypeOK'
  BY <1>7 DEF FailCommit, Goto, DeleteRows, NullIfGone
<1>8. ASSUME NEW r \in Runs, FailUnlink(r) PROVE TypeOK'
  BY <1>8, RetentionPositive DEF FailUnlink, EndRun, Goto
<1>9. ASSUME NEW r \in Runs, RunSelect(r) PROVE TypeOK'
  BY <1>9, RemovableCompleted DEF RunSelect, Goto
<1>10. ASSUME NEW r \in Runs, RunDelete(r) PROVE TypeOK'
  BY <1>10 DEF RunDelete, Goto, DeleteRows, NullIfGone
<1>11. ASSUME NEW r \in Runs, RunRotationFails(r) PROVE TypeOK'
  BY <1>11 DEF RunRotationFails, Goto
<1>12. ASSUME NEW r \in Runs, RunUnlink(r) PROVE TypeOK'
  BY <1>12 DEF RunUnlink, Goto
<1>13. ASSUME NEW r \in Runs, Notify(r) PROVE TypeOK'
  BY <1>13, RetentionPositive DEF Notify, EndRun, Goto
<1>14. ASSUME NEW r \in Runs, NotifyFails(r) PROVE TypeOK'
  BY <1>14, RetentionPositive DEF NotifyFails, EndRun, Goto, DeleteRows, NullIfGone
<1>15. ASSUME NEW n \in 1..MaxRetention, ChangeRetention(n) PROVE TypeOK'
  BY <1>15 DEF ChangeRetention, LoadRot
<1>16. ASSUME NEW s \in Snaps, ReplaceProtected(s) PROVE TypeOK'
  BY <1>16 DEF ReplaceProtected, LoadRot, Completed
<1>17. ASSUME NEW s \in Snaps, TimePasses(s) PROVE TypeOK'
  BY <1>17 DEF TimePasses
<1>18. ASSUME RotSelect PROVE TypeOK'
  BY <1>18, RemovableCompleted DEF RotSelect
<1>19. ASSUME RotDelete PROVE TypeOK'
  BY <1>19 DEF RotDelete, DeleteRows, NullIfGone
<1>20. ASSUME RotUnlink PROVE TypeOK'
  BY <1>20, RetentionPositive DEF RotUnlink, IdleRot
<1>21. ASSUME ClearStart PROVE TypeOK'
  BY <1>21 DEF ClearStart
<1>22. ASSUME ClearDrop PROVE TypeOK'
  BY <1>22 DEF ClearDrop, DeleteRows
<1>23. ASSUME ClearFiles PROVE TypeOK'
  BY <1>23 DEF ClearFiles
<1>24. ASSUME Expire PROVE TypeOK'
  BY <1>24 DEF Expire, DeleteRows, Completed
<1>25. ASSUME ExpireUnlink PROVE TypeOK'
  BY <1>25 DEF ExpireUnlink
<1>26. ASSUME MakePermanent PROVE TypeOK'
  BY <1>26 DEF MakePermanent
<1>27. ASSUME LosePermanence PROVE TypeOK'
  BY <1>27 DEF LosePermanence, DateCompleted
<1>28. ASSUME Downgrade PROVE TypeOK'
  BY <1>28 DEF Downgrade, DateCompleted
<1>29. ASSUME Upgrade PROVE TypeOK'
  BY <1>29 DEF Upgrade
<1>30. ASSUME Crash PROVE TypeOK'
  <2>1. 1 \in 1..MaxRetention
    BY RetentionPositive
  <2>2. rot' \in [pc : {"idle", "loaded", "selected", "deleted"},
                 base : Snaps \cup {None}, keep : 1..MaxRetention, gone : SUBSET Snaps]
    BY <1>30, <2>1 DEF Crash, IdleRot
  <2>3. abandoned' \subseteq Snaps
    BY <1>30 DEF Crash
  <2> QED BY <1>30, <2>1, <2>2, <2>3 DEF Crash, Each
<1>31. ASSUME Recover PROVE TypeOK'
  BY <1>31 DEF Recover, DeleteRows, Interrupted
<1>32. ASSUME UNCHANGED vars PROVE TypeOK'
  BY <1>32 DEF vars, run, seen
<1>33. ASSUME ExpireStops PROVE TypeOK'
  BY <1>33 DEF ExpireStops
<1> QED
  BY <1>1, <1>2, <1>3, <1>4, <1>5, <1>6, <1>7, <1>8, <1>9, <1>10, <1>11, <1>12, <1>13, <1>14, <1>15, <1>16, <1>17, <1>18, <1>19, <1>20, <1>21, <1>22, <1>23, <1>24, <1>25, <1>26, <1>27, <1>28, <1>29, <1>30, <1>31, <1>32, <1>33
     DEF Next, RunStep, RotStep, WipeStep

\* A run holds a snapshot exactly when the code has one.
LEMMA NextSnapshot == RunInv /\ [Next]_vars => HasSnapshot'
<1> SUFFICES ASSUME RunInv, [Next]_vars PROVE HasSnapshot'
  OBVIOUS
<1> USE DEF RunInv, TypeOK, HasSnapshot, RunPc, rows, terms, disk, run, seen
<1>1. ASSUME NEW r \in Runs, Begin(r) PROVE HasSnapshot'
  BY <1>1 DEF Begin, Goto
<1>2. ASSUME NEW r \in Runs, InsertStaging(r) PROVE HasSnapshot'
  BY <1>2 DEF InsertStaging, Goto
<1>3. ASSUME NEW r \in Runs, MakeStage(r) PROVE HasSnapshot'
  BY <1>3 DEF MakeStage, Goto
<1>4. ASSUME NEW r \in Runs, Finish(r) PROVE HasSnapshot'
  BY <1>4 DEF Finish, Goto
<1>5. ASSUME NEW r \in Runs, Switch(r) PROVE HasSnapshot'
  BY <1>5 DEF Switch, Goto
<1>6. ASSUME NEW r \in Runs, Fail(r) PROVE HasSnapshot'
  BY <1>6 DEF Fail, Goto
<1>7. ASSUME NEW r \in Runs, FailCommit(r) PROVE HasSnapshot'
  BY <1>7 DEF FailCommit, Goto
<1>8. ASSUME NEW r \in Runs, FailUnlink(r) PROVE HasSnapshot'
  BY <1>8 DEF FailUnlink, EndRun, Goto
<1>9. ASSUME NEW r \in Runs, RunSelect(r) PROVE HasSnapshot'
  BY <1>9 DEF RunSelect, Goto
<1>10. ASSUME NEW r \in Runs, RunDelete(r) PROVE HasSnapshot'
  BY <1>10 DEF RunDelete, Goto
<1>11. ASSUME NEW r \in Runs, RunRotationFails(r) PROVE HasSnapshot'
  BY <1>11 DEF RunRotationFails, Goto
<1>12. ASSUME NEW r \in Runs, RunUnlink(r) PROVE HasSnapshot'
  BY <1>12 DEF RunUnlink, Goto
<1>13. ASSUME NEW r \in Runs, Notify(r) PROVE HasSnapshot'
  BY <1>13 DEF Notify, EndRun, Goto
<1>14. ASSUME NEW r \in Runs, NotifyFails(r) PROVE HasSnapshot'
  BY <1>14 DEF NotifyFails, EndRun, Goto
<1>15. ASSUME Crash PROVE HasSnapshot'
  BY <1>15 DEF Crash, Each
<1>16. CASE UNCHANGED <<pc, snap>>
  BY <1>16
<1> QED
  BY <1>1, <1>2, <1>3, <1>4, <1>5, <1>6, <1>7, <1>8, <1>9, <1>10, <1>11, <1>12,
     <1>13, <1>14, <1>15, <1>16
     DEF Next, RunStep, RotStep, WipeStep, vars, ChangeRetention,
         ReplaceProtected, TimePasses, RotSelect, RotDelete, RotUnlink,
         ClearStart, ClearDrop, ClearFiles, Expire, ExpireUnlink, ExpireStops, MakePermanent,
         LosePermanence, Downgrade, Upgrade, Recover

\* Every variable keeps its type.
THEOREM TypeCorrect == Spec => []TypeOK
<1>1. Init => RunInv
  BY InitType DEF Init, Each, RunInv, HasSnapshot
<1>2. RunInv /\ [Next]_vars => RunInv'
  BY NextType, NextSnapshot DEF RunInv
<1>3. RunInv => TypeOK
  BY DEF RunInv
<1> QED
  BY <1>1, <1>2, <1>3, PTL DEF Spec

-----------------------------------------------------------------------------
(* The pointer of the account *)

\* Rows belong to identities that were drawn: a fresh uuid names no row.
RowsUsed == \A s \in Snaps : row[s] # "absent" => s \in used

PointerInv == RunInv /\ RowsUsed /\ ActiveIsCompleted

\* Each step keeps the pointer on a completed version, in any overlap.
LEMMA NextPointer == PointerInv /\ [Next]_vars => (RowsUsed /\ ActiveIsCompleted)'
<1> SUFFICES ASSUME PointerInv, [Next]_vars PROVE (RowsUsed /\ ActiveIsCompleted)'
  OBVIOUS
<1> USE DEF PointerInv, RunInv, TypeOK, HasSnapshot, RowsUsed, ActiveIsCompleted,
        Completed, rows, terms, disk, run, seen
<1>1. ASSUME NEW r \in Runs, InsertStaging(r) PROVE (RowsUsed /\ ActiveIsCompleted)'
  BY <1>1 DEF InsertStaging
<1>2. ASSUME NEW r \in Runs, Switch(r) PROVE (RowsUsed /\ ActiveIsCompleted)'
  BY <1>2 DEF Switch
<1>3. ASSUME NEW r \in Runs, FailCommit(r) PROVE (RowsUsed /\ ActiveIsCompleted)'
  BY <1>3 DEF FailCommit, DeleteRows, NullIfGone
<1>4. ASSUME NEW r \in Runs, RunDelete(r) PROVE (RowsUsed /\ ActiveIsCompleted)'
  BY <1>4 DEF RunDelete, DeleteRows, NullIfGone
<1>5. ASSUME NEW r \in Runs, NotifyFails(r) PROVE (RowsUsed /\ ActiveIsCompleted)'
  BY <1>5 DEF NotifyFails, DeleteRows, NullIfGone
<1>6. ASSUME RotDelete PROVE (RowsUsed /\ ActiveIsCompleted)'
  BY <1>6 DEF RotDelete, DeleteRows, NullIfGone
<1>7. ASSUME ClearDrop PROVE (RowsUsed /\ ActiveIsCompleted)'
  BY <1>7 DEF ClearDrop, DeleteRows
<1>8. ASSUME Expire PROVE (RowsUsed /\ ActiveIsCompleted)'
  BY <1>8 DEF Expire, DeleteRows
<1>9. ASSUME Recover PROVE (RowsUsed /\ ActiveIsCompleted)'
  BY <1>9 DEF Recover, DeleteRows, Interrupted
<1>10. CASE UNCHANGED <<row, active, used>>
  BY <1>10
<1> QED
  BY <1>1, <1>2, <1>3, <1>4, <1>5, <1>6, <1>7, <1>8, <1>9, <1>10
     DEF Next, RunStep, RotStep, WipeStep, vars, Begin, MakeStage, Finish, Fail,
         FailUnlink, RunSelect, RunRotationFails, RunUnlink, Notify,
         ChangeRetention, ReplaceProtected, TimePasses, RotSelect, RotUnlink,
         ClearStart, ClearFiles, ExpireUnlink, ExpireStops, MakePermanent, LosePermanence,
         Downgrade, Upgrade, Crash, Goto

\* The account never points to a version that does not exist or is not completed,
\* whatever overlaps and however many versions and runs there are.
THEOREM PointerIsSound == Spec => []ActiveIsCompleted
<1>1. Init => PointerInv
  BY InitType, NoneIsNoSnap
     DEF Init, Each, PointerInv, RunInv, HasSnapshot, RowsUsed, ActiveIsCompleted, Completed
<1>2. PointerInv /\ [Next]_vars => PointerInv'
  BY NextType, NextSnapshot, NextPointer DEF PointerInv, RunInv
<1>3. PointerInv => ActiveIsCompleted
  BY DEF PointerInv
<1> QED
  BY <1>1, <1>2, <1>3, PTL DEF Spec

-----------------------------------------------------------------------------
(* The files of the completed versions *)

\* Each step keeps what the files depend on, when no backup starts while the archive
\* is being cleared.
LEMMA NextFiles == FileInv /\ "clear" \notin Windows /\ [Next]_vars => FileInv'
<1> SUFFICES ASSUME FileInv /\ "clear" \notin Windows, [Next]_vars PROVE FileInv'
  OBVIOUS
<1> USE DEF FileInv, RunInv, HasSnapshot, RunsApart, UsedCovers, FilesOfRun, ListsSpareRuns, RowsGoFirst, ClearAlone, CompletedHasFiles,
        TypeOK, RunPc, Unpromoted, NoRun, NoJob, Completed, rows, terms, disk, run, seen
<1>0. TypeOK'
  BY NextType
<1>1. ASSUME NEW r \in Runs, Begin(r) PROVE FileInv'
  BY <1>0, <1>1 DEF Begin, Goto, Alone
<1>2. ASSUME NEW r \in Runs, InsertStaging(r) PROVE FileInv'
  BY <1>0, <1>2 DEF InsertStaging, Goto
<1>3. ASSUME NEW r \in Runs, MakeStage(r) PROVE FileInv'
  BY <1>0, <1>3 DEF MakeStage, Goto
<1>4. ASSUME NEW r \in Runs, Finish(r) PROVE FileInv'
  <2>1. TypeOK'
    BY <1>0
  <2>2. HasSnapshot'
    BY <1>0, <1>4 DEF Finish, Goto
  <2>3. RunsApart'
    BY <1>0, <1>4 DEF Finish, Goto
  <2>4. UsedCovers'
    BY <1>0, <1>4 DEF Finish, Goto
  <2>5. FilesOfRun'
    <3> SUFFICES ASSUME NEW q \in Runs
                 PROVE  /\ pc'[q] \in Unpromoted /\ snap'[q] \in Snaps => row'[snap'[q]] # "completed"
                        /\ pc'[q] = "fetching" => snap'[q] \in staged'
                        /\ pc'[q] = "switching" => snap'[q] \in stored'
      OBVIOUS
    <3>1. CASE q = r
      BY <1>4, <3>1 DEF Finish, Goto
    <3>2. CASE q # r
      <4>1. pc'[q] = pc[q] /\ snap'[q] = snap[q]
        BY <1>4, <3>2 DEF Finish, Goto
      <4>2. snap[q] \in Snaps => snap[q] # snap[r]
        BY <3>2, NoneIsNoSnap
      <4> QED BY <1>4, <3>2, <4>1, <4>2 DEF Finish, Goto
    <3> QED BY <3>1, <3>2
  <2>6. ListsSpareRuns'
    BY <1>0, <1>4 DEF Finish, Goto
  <2>7. RowsGoFirst'
    BY <1>0, <1>4 DEF Finish, Goto
  <2>8. ClearAlone'
    BY <1>0, <1>4 DEF Finish, Goto
  <2>9. CompletedHasFiles'
    BY <1>0, <1>4 DEF Finish, Goto
  <2> QED
    BY <2>1, <2>2, <2>3, <2>4, <2>5, <2>6, <2>7, <2>8, <2>9
<1>5. ASSUME NEW r \in Runs, Switch(r) PROVE FileInv'
  <2>1. TypeOK'
    BY <1>0
  <2>2. HasSnapshot'
    BY <1>0, <1>5 DEF Switch, Goto
  <2>3. RunsApart'
    BY <1>0, <1>5 DEF Switch, Goto
  <2>4. UsedCovers'
    BY <1>0, <1>5 DEF Switch, Goto
  <2>5. FilesOfRun'
    <3> SUFFICES ASSUME NEW q \in Runs
                 PROVE  /\ pc'[q] \in Unpromoted /\ snap'[q] \in Snaps => row'[snap'[q]] # "completed"
                        /\ pc'[q] = "fetching" => snap'[q] \in staged'
                        /\ pc'[q] = "switching" => snap'[q] \in stored'
      OBVIOUS
    <3>1. CASE q = r
      BY <1>5, <3>1 DEF Switch, Goto
    <3>2. CASE q # r
      <4>1. pc'[q] = pc[q] /\ snap'[q] = snap[q]
        BY <1>5, <3>2 DEF Switch, Goto
      <4>2. snap[q] \in Snaps => snap[q] # snap[r]
        BY <3>2, NoneIsNoSnap
      <4> QED BY <1>5, <3>2, <4>1, <4>2 DEF Switch, Goto
    <3> QED BY <3>1, <3>2
  <2>6. ListsSpareRuns'
    BY <1>0, <1>5 DEF Switch, Goto
  <2>7. RowsGoFirst'
    BY <1>0, <1>5 DEF Switch, Goto
  <2>8. ClearAlone'
    BY <1>0, <1>5 DEF Switch, Goto
  <2>9. CompletedHasFiles'
    BY <1>0, <1>5 DEF Switch, Goto
  <2> QED
    BY <2>1, <2>2, <2>3, <2>4, <2>5, <2>6, <2>7, <2>8, <2>9
<1>6. ASSUME NEW r \in Runs, Fail(r) PROVE FileInv'
  <2>1. TypeOK'
    BY <1>0
  <2>2. HasSnapshot'
    BY <1>0, <1>6 DEF Fail, Goto
  <2>3. RunsApart'
    BY <1>0, <1>6 DEF Fail, Goto
  <2>4. UsedCovers'
    BY <1>0, <1>6 DEF Fail, Goto
  <2>5. FilesOfRun'
    <3> SUFFICES ASSUME NEW q \in Runs
                 PROVE  /\ pc'[q] \in Unpromoted /\ snap'[q] \in Snaps => row'[snap'[q]] # "completed"
                        /\ pc'[q] = "fetching" => snap'[q] \in staged'
                        /\ pc'[q] = "switching" => snap'[q] \in stored'
      OBVIOUS
    <3>1. CASE q = r
      <4>1. pc[r] = "begun" => snap[r] \notin Snaps
        BY NoneIsNoSnap
      <4>2. pc[r] = "begun" \/ pc[r] \in Unpromoted
        BY <1>6 DEF Fail
      <4> QED BY <1>6, <3>1, <4>1, <4>2 DEF Fail, Goto
    <3>2. CASE q # r
      <4>1. pc'[q] = pc[q] /\ snap'[q] = snap[q]
        BY <1>6, <3>2 DEF Fail, Goto
      <4>2. snap[q] \in Snaps => snap[q] # snap[r]
        BY <3>2, NoneIsNoSnap
      <4> QED BY <1>6, <3>2, <4>1, <4>2 DEF Fail, Goto
    <3> QED BY <3>1, <3>2
  <2>6. ListsSpareRuns'
    <3>1. \A q \in Runs : pc'[q] \in Unpromoted /\ snap[q] \in Snaps => pc[q] \in Unpromoted
      BY <1>6, NoneIsNoSnap DEF Fail, Goto
    <3> QED BY <1>6, <3>1 DEF Fail
  <2>7. RowsGoFirst'
    BY <1>0, <1>6 DEF Fail, Goto
  <2>8. ClearAlone'
    BY <1>0, <1>6 DEF Fail, Goto
  <2>9. CompletedHasFiles'
    BY <1>0, <1>6 DEF Fail, Goto
  <2> QED
    BY <2>1, <2>2, <2>3, <2>4, <2>5, <2>6, <2>7, <2>8, <2>9
<1>7. ASSUME NEW r \in Runs, FailCommit(r) PROVE FileInv'
  BY <1>0, <1>7 DEF FailCommit, Goto, DeleteRows
<1>8. ASSUME NEW r \in Runs, FailUnlink(r) PROVE FileInv'
  <2>1. TypeOK'
    BY <1>0
  <2>2. HasSnapshot'
    BY <1>0, <1>8 DEF FailUnlink, EndRun, Goto
  <2>3. RunsApart'
    BY <1>0, <1>8 DEF FailUnlink, EndRun, Goto
  <2>4. UsedCovers'
    BY <1>0, <1>8 DEF FailUnlink, EndRun, Goto
  <2>5. FilesOfRun'
    <3> SUFFICES ASSUME NEW q \in Runs
                 PROVE  /\ pc'[q] \in Unpromoted /\ snap'[q] \in Snaps => row'[snap'[q]] # "completed"
                        /\ pc'[q] = "fetching" => snap'[q] \in staged'
                        /\ pc'[q] = "switching" => snap'[q] \in stored'
      OBVIOUS
    <3>1. CASE q = r
      BY <1>8, <3>1 DEF FailUnlink, EndRun, Goto
    <3>2. CASE q # r
      <4>1. pc'[q] = pc[q] /\ snap'[q] = snap[q]
        BY <1>8, <3>2 DEF FailUnlink, EndRun, Goto
      <4>2. snap[q] \in Snaps => snap[q] # snap[r]
        BY <3>2, NoneIsNoSnap
      <4> QED BY <1>8, <3>2, <4>1, <4>2 DEF FailUnlink, EndRun, Goto
    <3> QED BY <3>1, <3>2
  <2>6. ListsSpareRuns'
    BY <1>0, <1>8 DEF FailUnlink, EndRun, Goto
  <2>7. RowsGoFirst'
    BY <1>0, <1>8 DEF FailUnlink, EndRun, Goto
  <2>8. ClearAlone'
    BY <1>0, <1>8 DEF FailUnlink, EndRun, Goto
  <2>9. CompletedHasFiles'
    BY <1>0, <1>8 DEF FailUnlink, EndRun, Goto
  <2> QED
    BY <2>1, <2>2, <2>3, <2>4, <2>5, <2>6, <2>7, <2>8, <2>9
<1>9. ASSUME NEW r \in Runs, RunSelect(r) PROVE FileInv'
  BY <1>0, <1>9, RemovableCompleted DEF RunSelect, Goto
<1>10. ASSUME NEW r \in Runs, RunDelete(r) PROVE FileInv'
  BY <1>0, <1>10 DEF RunDelete, Goto, DeleteRows
<1>11. ASSUME NEW r \in Runs, RunRotationFails(r) PROVE FileInv'
  BY <1>0, <1>11 DEF RunRotationFails, Goto
<1>12. ASSUME NEW r \in Runs, RunUnlink(r) PROVE FileInv'
  BY <1>0, <1>12 DEF RunUnlink, Goto
<1>13. ASSUME NEW r \in Runs, Notify(r) PROVE FileInv'
  BY <1>0, <1>13 DEF Notify, EndRun, Goto
<1>14. ASSUME NEW r \in Runs, NotifyFails(r) PROVE FileInv'
  BY <1>0, <1>14 DEF NotifyFails, EndRun, Goto, DeleteRows
<1>15. ASSUME NEW n \in 1..MaxRetention, ChangeRetention(n) PROVE FileInv'
  BY <1>0, <1>15 DEF ChangeRetention, LoadRot
<1>16. ASSUME NEW s \in Snaps, ReplaceProtected(s) PROVE FileInv'
  BY <1>0, <1>16 DEF ReplaceProtected, LoadRot
<1>17. ASSUME NEW s \in Snaps, TimePasses(s) PROVE FileInv'
  BY <1>0, <1>17 DEF TimePasses
<1>18. ASSUME RotSelect PROVE FileInv'
  BY <1>0, <1>18, RemovableCompleted DEF RotSelect
<1>19. ASSUME RotDelete PROVE FileInv'
  BY <1>0, <1>19 DEF RotDelete, DeleteRows
<1>20. ASSUME RotUnlink PROVE FileInv'
  BY <1>0, <1>20 DEF RotUnlink, IdleRot
<1>21. ASSUME ClearStart PROVE FileInv'
  BY <1>0, <1>21 DEF ClearStart
<1>22. ASSUME ClearDrop PROVE FileInv'
  BY <1>0, <1>22 DEF ClearDrop, DeleteRows
<1>23. ASSUME ClearFiles PROVE FileInv'
  BY <1>0, <1>23 DEF ClearFiles
<1>24. ASSUME Expire PROVE FileInv'
  BY <1>0, <1>24 DEF Expire, DeleteRows
<1>25. ASSUME ExpireUnlink PROVE FileInv'
  BY <1>0, <1>25 DEF ExpireUnlink
<1>26. ASSUME MakePermanent PROVE FileInv'
  BY <1>0, <1>26 DEF MakePermanent
<1>27. ASSUME LosePermanence PROVE FileInv'
  BY <1>0, <1>27 DEF LosePermanence, DateCompleted
<1>28. ASSUME Downgrade PROVE FileInv'
  BY <1>0, <1>28 DEF Downgrade, DateCompleted
<1>29. ASSUME Upgrade PROVE FileInv'
  BY <1>0, <1>29 DEF Upgrade
<1>30. ASSUME Crash PROVE FileInv'
  BY <1>0, <1>30 DEF Crash, Each, IdleRot
<1>31. ASSUME Recover PROVE FileInv'
  BY <1>0, <1>31 DEF Recover, DeleteRows, Interrupted
<1>32. ASSUME UNCHANGED vars PROVE FileInv'
  BY <1>0, <1>32 DEF vars
<1>33. ASSUME ExpireStops PROVE FileInv'
  BY <1>0, <1>33 DEF ExpireStops
<1> QED
  BY <1>1, <1>2, <1>3, <1>4, <1>5, <1>6, <1>7, <1>8, <1>9, <1>10, <1>11, <1>12, <1>13, <1>14, <1>15, <1>16, <1>17, <1>18, <1>19, <1>20, <1>21, <1>22, <1>23, <1>24, <1>25, <1>26, <1>27, <1>28, <1>29, <1>30, <1>31, <1>32, <1>33
     DEF Next, RunStep, RotStep, WipeStep

\* Every completed version has its files, for any number of versions and of runs that
\* overlap with each other, with rotations, expiry, changed terms, late errors and
\* crashes, as long as no backup starts while the archive is being cleared.
THEOREM FilesArePresent ==
  ASSUME "clear" \notin Windows
  PROVE  Spec => []CompletedHasFiles
<1>1. Init => FileInv
  BY InitType DEF Init, Each, IdleRot, FileInv, RunInv, HasSnapshot, RunsApart, UsedCovers,
     FilesOfRun, ListsSpareRuns, RowsGoFirst, ClearAlone, CompletedHasFiles, Completed,
     Unpromoted, NoRun, NoJob
<1>2. FileInv /\ [Next]_vars => FileInv'
  BY NextFiles
<1>3. FileInv => CompletedHasFiles
  BY DEF FileInv
<1> QED
  BY <1>1, <1>2, <1>3, PTL DEF Spec

-----------------------------------------------------------------------------
(* The dates *)

\* What a run believes of the owner's terms still holds.
Believed ==
  \A r \in Runs :
    /\ pc[r] \in {"begun", "inserted", "fetching"} => (expiring[r] <=> ~permanent)
    /\ pc[r] = "switching" => (expiring[r] <=> Expiring)

TermsInv == RunInv /\ Believed /\ ExpiryFollowsTerms

LEMMA BelievedStep ==
  ASSUME RunInv, Believed, "terms" \notin Windows, [Next]_vars
  PROVE  Believed'
<1> USE DEF RunInv, TypeOK, Believed, Expiring, rows, terms, disk, run, seen
<1>1. ASSUME NEW r \in Runs, Begin(r) PROVE Believed'
  BY <1>1 DEF Begin, Goto
<1>2. ASSUME NEW r \in Runs, Finish(r) PROVE Believed'
  BY <1>2 DEF Finish, Goto
<1>3. ASSUME NEW r \in Runs,
             \/ InsertStaging(r) \/ MakeStage(r) \/ Fail(r) \/ FailCommit(r)
             \/ RunSelect(r) \/ RunDelete(r) \/ RunRotationFails(r) \/ RunUnlink(r)
      PROVE Believed'
  BY <1>3 DEF InsertStaging, MakeStage, Fail, FailCommit, RunSelect, RunDelete,
     RunRotationFails, RunUnlink, Goto
<1>4. ASSUME NEW r \in Runs, Switch(r) PROVE Believed'
  BY <1>4 DEF Switch, Goto
<1>5. ASSUME NEW r \in Runs, FailUnlink(r) \/ Notify(r) \/ NotifyFails(r) PROVE Believed'
  <2>1. /\ \A q \in Runs : q # r => pc'[q] = pc[q] /\ expiring'[q] = expiring[q]
        /\ pc'[r] = "idle" /\ permanent' = permanent /\ standard' = standard
    BY <1>5 DEF FailUnlink, Notify, NotifyFails, EndRun, Goto
  <2> QED BY <2>1
<1>6. CASE MakePermanent \/ LosePermanence \/ Downgrade \/ Upgrade
  <2>1. pc' = pc /\ NoRun
    BY <1>6 DEF MakePermanent, LosePermanence, Downgrade, Upgrade, TermsMayChange
  <2> QED BY <2>1 DEF NoRun
<1>7. CASE Crash
  BY <1>7 DEF Crash, Each
<1>8. CASE UNCHANGED <<pc, expiring, permanent, standard>>
  BY <1>8
<1> QED BY <1>1, <1>2, <1>3, <1>4, <1>5, <1>6, <1>7, <1>8
        DEF Next, RunStep, RotStep, WipeStep, vars, ChangeRetention, ReplaceProtected,
            TimePasses, RotSelect, RotDelete, RotUnlink, ClearStart, ClearDrop, ClearFiles,
            Expire, ExpireUnlink, ExpireStops, Recover

LEMMA DatesFollow ==
  ASSUME TermsInv, "terms" \notin Windows, [Next]_vars
  PROVE  ExpiryFollowsTerms'
<1> USE DEF TermsInv, RunInv, TypeOK, ExpiryFollowsTerms, Expiring, rows, terms, disk, run, seen
<1>1. ASSUME NEW r \in Runs, InsertStaging(r) PROVE ExpiryFollowsTerms'
  BY <1>1 DEF InsertStaging, Completed
<1>2. ASSUME NEW r \in Runs, Switch(r) PROVE ExpiryFollowsTerms'
  BY <1>2 DEF Switch, Believed, HasSnapshot, Completed
<1>3. ASSUME NEW out \in SUBSET Snaps, DeleteRows(out), UNCHANGED terms
      PROVE  ExpiryFollowsTerms'
  BY <1>3 DEF DeleteRows, Completed
<1>4. ASSUME NEW r \in Runs, FailCommit(r) PROVE ExpiryFollowsTerms'
  <2>1. {snap[r]} \ {None} \in SUBSET Snaps
    OBVIOUS
  <2>2. CASE UNCHANGED <<rows, active>>
    BY <1>4, <2>2 DEF FailCommit, Completed
  <2> QED BY <1>3, <1>4, <2>1, <2>2 DEF FailCommit
<1>5. ASSUME NEW r \in Runs, RunDelete(r) PROVE ExpiryFollowsTerms'
  BY <1>3, <1>5 DEF RunDelete
<1>6. ASSUME NEW r \in Runs, NotifyFails(r) PROVE ExpiryFollowsTerms'
  BY <1>3, <1>6 DEF NotifyFails, HasSnapshot
<1>7. CASE RotDelete \/ ClearDrop
  BY <1>3, <1>7 DEF RotDelete, ClearDrop
<1>8. CASE Expire
  <2>1. {s \in Completed : expires[s] = "due"} \in SUBSET Snaps
    BY DEF Completed
  <2> QED BY <1>3, <1>8, <2>1 DEF Expire
<1>9. CASE Recover
  BY <1>3, <1>9 DEF Recover, Interrupted
<1>10. ASSUME NEW s \in Snaps, TimePasses(s) PROVE ExpiryFollowsTerms'
  BY <1>10 DEF TimePasses, Completed
<1>11. CASE MakePermanent \/ LosePermanence \/ Downgrade \/ Upgrade
  BY <1>11 DEF MakePermanent, LosePermanence, Downgrade, Upgrade, DateCompleted, Completed
<1>12. CASE UNCHANGED <<row, expires, permanent, standard>>
  BY <1>12 DEF Completed
<1> QED BY <1>1, <1>2, <1>4, <1>5, <1>6, <1>7, <1>8, <1>9, <1>10, <1>11, <1>12
        DEF Next, RunStep, RotStep, WipeStep, vars, Begin, MakeStage, Finish, Fail, FailUnlink,
            RunSelect, RunRotationFails, RunUnlink, Notify, ChangeRetention,
            ReplaceProtected, RotSelect, RotUnlink, ClearStart, ClearFiles, ExpireUnlink, ExpireStops, Crash

\* A Standard account's versions have a date and a permanent account's have none, as
\* long as plan and permanence do not change under a run.
THEOREM DatesFollowTerms ==
  ASSUME "terms" \notin Windows
  PROVE  Spec => []ExpiryFollowsTerms
<1>1. Init => TermsInv
  BY InitType DEF Init, Each, TermsInv, RunInv, HasSnapshot, Believed, ExpiryFollowsTerms, Completed
<1>2. TermsInv /\ [Next]_vars => TermsInv'
  BY NextType, NextSnapshot, BelievedStep, DatesFollow DEF TermsInv, RunInv
<1>3. TermsInv => ExpiryFollowsTerms
  BY DEF TermsInv
<1> QED BY <1>1, <1>2, <1>3, PTL DEF Spec

-----------------------------------------------------------------------------
(* Interruptions *)

LEMMA FailCommitSpares ==
  ASSUME FileInv, ActiveIsCompleted, NEW r \in Runs, FailCommit(r)
  PROVE  active' = active /\ Completed' = Completed /\ stored' = stored
<1> USE DEF FileInv, RunInv, TypeOK, rows, terms, disk, run, seen
<1>1. snap[r] \notin Completed
  BY NoneIsNoSnap DEF FailCommit, FilesOfRun, Unpromoted, Completed
<1>2. active # snap[r] \/ active = None
  BY <1>1 DEF ActiveIsCompleted
<1> QED BY <1>1, <1>2 DEF FailCommit, DeleteRows, NullIfGone, Completed

\* A run that fails, is cancelled or dies takes neither a version nor a file of one
\* with it, nor does the recovery after it, whatever else is under way, if no backup
\* starts while the archive is being cleared.
THEOREM InterruptedRunsSpare ==
  ASSUME "clear" \notin Windows
  PROVE  Spec => InterruptionSparesArchive
<1> DEFINE Inv == FileInv /\ RowsUsed /\ ActiveIsCompleted
           Spares == (\E r \in Runs : FailCommit(r) \/ FailUnlink(r)) \/ Crash \/ Recover =>
                       /\ active' = active
                       /\ Completed' = Completed
                       /\ Completed \cap stored \subseteq stored'
<1>1. Init => Inv
  BY InitType, NoneIsNoSnap DEF Init, Each, IdleRot, FileInv, RunInv, HasSnapshot, RunsApart,
     UsedCovers, FilesOfRun, ListsSpareRuns, RowsGoFirst, ClearAlone, CompletedHasFiles,
     Completed, Unpromoted, NoRun, NoJob, RowsUsed, ActiveIsCompleted
<1>2. Inv /\ [Next]_vars => Inv'
  BY NextFiles, NextPointer DEF PointerInv, FileInv
<1>3. Inv => [Spares]_vars
  <2> SUFFICES ASSUME Inv PROVE Spares
    OBVIOUS
  <2>1. ASSUME NEW r \in Runs, FailUnlink(r)
        PROVE  active' = active /\ Completed' = Completed /\ Completed \cap stored \subseteq stored'
    <3>1. snap[r] \notin Completed
      BY <2>1, NoneIsNoSnap DEF FailUnlink, FileInv, FilesOfRun, Unpromoted, Completed
    <3> QED BY <2>1, <3>1 DEF FailUnlink, Completed, rows
  <2>2. ASSUME Crash PROVE active' = active /\ Completed' = Completed /\ stored' = stored
    BY <2>2 DEF Crash, Completed, rows, disk
  <2>3. ASSUME Recover PROVE active' = active /\ Completed' = Completed /\ stored' = stored
    BY <2>3 DEF Recover, DeleteRows, Interrupted, Completed
  <2> QED BY <2>1, <2>2, <2>3, FailCommitSpares
<1> QED BY <1>1, <1>2, <1>3, PTL DEF Spec, InterruptionSparesArchive

-----------------------------------------------------------------------------
(* The disk *)

\* A staging directory is that of no version and on no list of removals, and the
\* run that renamed it has none.
StagedApart ==
  /\ \A s \in staged :
       /\ row[s] # "completed"
       /\ s \notin rot.gone /\ s \notin doomed /\ \A r \in Runs : s \notin gone[r]
  /\ \A r \in Runs : pc[r] = "switching" => snap[r] \notin staged

\* Somebody is about to remove the directory of s.
Removing(s) ==
  \/ s \in doomed
  \/ rot.pc = "deleted" /\ s \in rot.gone
  \/ \E r \in Runs : pc[r] = "deleted" /\ s \in gone[r]
  \/ wipe = "dropped"

\* The run that writes a snapshot answers for its directory until it has promoted it.
Accounted ==
  \A s \in staged \cup stored :
    \/ row[s] = "completed"
    \/ \E r \in Runs : snap[r] = s /\ pc[r] \in Unpromoted
    \/ Removing(s) \/ s \in abandoned
    \/ ~up /\ row[s] = "staging" /\ s \notin stored

DiskInv == FileInv /\ StagedApart /\ Accounted

LEMMA StagedStep ==
  ASSUME FileInv, StagedApart, "notify" \notin Windows, [Next]_vars
  PROVE  StagedApart'
<1> USE DEF FileInv, RunInv, TypeOK, HasSnapshot, StagedApart, rows, terms, disk, run, seen
<1>1. ASSUME NEW r \in Runs, Begin(r) PROVE StagedApart'
  BY <1>1 DEF Begin, Goto
<1>2. ASSUME NEW r \in Runs, InsertStaging(r) PROVE StagedApart'
  BY <1>2 DEF InsertStaging, Goto
<1>3. ASSUME NEW r \in Runs, MakeStage(r) PROVE StagedApart'
  <2>1. /\ snap[r] \in Snaps /\ row[snap[r]] # "completed"
        /\ snap[r] \notin rot.gone /\ snap[r] \notin doomed /\ \A q \in Runs : snap[r] \notin gone[q]
    BY <1>3 DEF MakeStage, FilesOfRun, ListsSpareRuns, Unpromoted
  <2>2. \A q \in Runs : pc'[q] = "switching" => pc[q] = "switching" /\ snap[q] # snap[r]
    BY <1>3, NoneIsNoSnap DEF MakeStage, Goto, RunsApart
  <2> QED BY <1>3, <2>1, <2>2 DEF MakeStage
<1>4. ASSUME NEW r \in Runs, Finish(r) PROVE StagedApart'
  BY <1>4 DEF Finish, Goto
<1>5. ASSUME NEW r \in Runs, Switch(r) PROVE StagedApart'
  BY <1>5 DEF Switch, Goto
<1>6. ASSUME NEW r \in Runs, Fail(r) \/ RunRotationFails(r) PROVE StagedApart'
  BY <1>6 DEF Fail, RunRotationFails, Goto
<1>7. ASSUME NEW r \in Runs, FailCommit(r) \/ RunDelete(r) PROVE StagedApart'
  BY <1>7 DEF FailCommit, RunDelete, Goto, DeleteRows
<1>8. ASSUME NEW r \in Runs, FailUnlink(r) \/ Notify(r) PROVE StagedApart'
  BY <1>8 DEF FailUnlink, Notify, EndRun, Goto
<1>9. ASSUME NEW r \in Runs, RunSelect(r) PROVE StagedApart'
  BY <1>9, RemovableCompleted DEF RunSelect, Goto, Completed
<1>10. ASSUME NEW r \in Runs, RunUnlink(r) PROVE StagedApart'
  BY <1>10 DEF RunUnlink, Goto
<1>11. CASE RotSelect
  BY <1>11, RemovableCompleted DEF RotSelect, Completed
<1>12. CASE RotDelete \/ ClearDrop
  BY <1>12 DEF RotDelete, ClearDrop, DeleteRows
<1>13. CASE RotUnlink
  BY <1>13 DEF RotUnlink, IdleRot
<1>14. CASE ClearFiles
  BY <1>14 DEF ClearFiles
<1>15. CASE Expire
  BY <1>15 DEF Expire, DeleteRows, Completed
<1>16. CASE ExpireUnlink
  BY <1>16 DEF ExpireUnlink
<1>17. CASE Crash
  BY <1>17 DEF Crash, Each, IdleRot
<1>18. CASE Recover
  BY <1>18 DEF Recover, DeleteRows
<1>19. ASSUME NEW n \in 1..MaxRetention, ChangeRetention(n) PROVE StagedApart'
  BY <1>19 DEF ChangeRetention, LoadRot
<1>20. ASSUME NEW s \in Snaps, ReplaceProtected(s) PROVE StagedApart'
  BY <1>20 DEF ReplaceProtected, LoadRot
<1>21. CASE UNCHANGED <<row, staged, rot, doomed, gone, pc, snap>>
  BY <1>21
<1>22. \A r \in Runs : ~ NotifyFails(r)
  BY DEF NotifyFails
<1>23. CASE ExpireStops
  BY <1>23 DEF ExpireStops
<1> QED BY <1>1, <1>2, <1>3, <1>4, <1>5, <1>6, <1>7, <1>8, <1>9, <1>10, <1>11, <1>12, <1>13,
           <1>14, <1>15, <1>16, <1>17, <1>18, <1>19, <1>20, <1>21, <1>22, <1>23
        DEF Next, RunStep, RotStep, WipeStep, vars, TimePasses, ClearStart, MakePermanent,
            LosePermanence, Downgrade, Upgrade

LEMMA RemovingIs == \A s \in Snaps : Removing(s) <=> s \in BeingRemoved
<1> TAKE s \in Snaps
<1>1. s \in (UNION {gone[r] : r \in {q \in Runs : pc[q] = "deleted"}})
      <=> \E r \in Runs : pc[r] = "deleted" /\ s \in gone[r]
  OBVIOUS
<1> QED BY <1>1 DEF Removing, BeingRemoved

\* A directory without a version keeps its claim while no action touches what it
\* rests on.
LEMMA AccountedStep ==
  ASSUME DiskInv, "notify" \notin Windows, "clear" \notin Windows, [Next]_vars
  PROVE  Accounted'
<1> USE DEF DiskInv, FileInv, RunInv, TypeOK, HasSnapshot, Accounted, Removing, rows, terms, disk, run, seen
<1>1. ASSUME NEW r \in Runs, Begin(r) PROVE Accounted'
  BY <1>1 DEF Begin, Goto, Unpromoted
<1>2. ASSUME NEW r \in Runs, InsertStaging(r) PROVE Accounted'
  BY <1>2, NoneIsNoSnap DEF InsertStaging, Goto, Unpromoted, UsedCovers, ClearAlone, NoRun, NoJob
<1>3. ASSUME NEW r \in Runs, MakeStage(r) PROVE Accounted'
  BY <1>3 DEF MakeStage, Goto, Unpromoted, ClearAlone, NoRun, NoJob
<1>4. ASSUME NEW r \in Runs, Finish(r) PROVE Accounted'
  BY <1>4 DEF Finish, Goto, Unpromoted, ClearAlone, NoRun, NoJob
<1>5. ASSUME NEW r \in Runs, Switch(r) PROVE Accounted'
  BY <1>5 DEF Switch, Goto, Unpromoted
<1>6. ASSUME NEW r \in Runs, Fail(r) PROVE Accounted'
  BY <1>6 DEF Fail, Goto, Unpromoted
<1>7. ASSUME NEW r \in Runs, FailCommit(r) PROVE Accounted'
  BY <1>7 DEF FailCommit, Goto, Unpromoted, DeleteRows, FilesOfRun, ClearAlone, NoRun, NoJob
<1>8. ASSUME NEW r \in Runs, FailUnlink(r) PROVE Accounted'
  BY <1>8 DEF FailUnlink, EndRun, Goto, Unpromoted
<1>9. ASSUME NEW r \in Runs, RunSelect(r) \/ RunRotationFails(r) \/ Notify(r) PROVE Accounted'
  BY <1>9 DEF RunSelect, RunRotationFails, Notify, EndRun, Goto, Unpromoted
<1>10. ASSUME NEW r \in Runs, RunDelete(r) PROVE Accounted'
  BY <1>10 DEF RunDelete, Goto, Unpromoted, DeleteRows, ClearAlone, NoRun, NoJob
<1>11. ASSUME NEW r \in Runs, RunUnlink(r) PROVE Accounted'
  BY <1>11 DEF RunUnlink, Goto, Unpromoted, StagedApart
<1>12. CASE RotSelect
  BY <1>12 DEF RotSelect
<1>13. CASE RotDelete
  BY <1>13 DEF RotDelete, DeleteRows, StagedApart
<1>14. CASE RotUnlink
  BY <1>14 DEF RotUnlink, IdleRot, StagedApart
<1>15. CASE ClearDrop
  BY <1>15 DEF ClearDrop
<1>16. CASE ClearFiles
  BY <1>16 DEF ClearFiles
<1>17. CASE Expire
  BY <1>17 DEF Expire, DeleteRows, Completed
<1>18. CASE ExpireUnlink
  BY <1>18 DEF ExpireUnlink, StagedApart
<1>19. CASE Crash
  BY <1>19 DEF Crash, Each, IdleRot
<1>20. CASE Recover
  BY <1>20 DEF Recover, DeleteRows, Interrupted, ClearAlone, NoRun, NoJob
<1>21. ASSUME NEW n \in 1..MaxRetention, ChangeRetention(n) PROVE Accounted'
  BY <1>21 DEF ChangeRetention, RotationMayStart, LoadRot
<1>22. ASSUME NEW s \in Snaps, ReplaceProtected(s) PROVE Accounted'
  BY <1>22 DEF ReplaceProtected, RotationMayStart, LoadRot
<1>23. CASE ClearStart
  BY <1>23 DEF ClearStart
<1>24. CASE UNCHANGED <<row, staged, stored, rot, doomed, gone, pc, snap, wipe, up, abandoned>>
  BY <1>24
<1>25. \A r \in Runs : ~ NotifyFails(r)
  BY DEF NotifyFails
<1>26. CASE ExpireStops
  BY <1>26 DEF ExpireStops
<1> QED BY <1>1, <1>2, <1>3, <1>4, <1>5, <1>6, <1>7, <1>8, <1>9, <1>10, <1>11, <1>12, <1>13,
           <1>14, <1>15, <1>16, <1>17, <1>18, <1>19, <1>20, <1>21, <1>22, <1>23, <1>24, <1>25, <1>26
        DEF Next, RunStep, RotStep, WipeStep, vars, TimePasses, MakePermanent,
            LosePermanence, Downgrade, Upgrade

\* Each directory belongs to a version or a run, or is about to be removed, or a crash
\* or the scheduler's refused second commit left it behind: as long as no late error takes the rows of a version alone, and no
\* backup starts while the archive is being cleared.
THEOREM DiskIsAccounted ==
  ASSUME "notify" \notin Windows, "clear" \notin Windows
  PROVE  Spec => []NothingLeaks
<1>1. Init => DiskInv
  BY InitType DEF Init, Each, IdleRot, DiskInv, FileInv, RunInv, HasSnapshot, RunsApart, UsedCovers,
     FilesOfRun, ListsSpareRuns, RowsGoFirst, ClearAlone, CompletedHasFiles, Completed,
     Unpromoted, NoRun, NoJob, StagedApart, Accounted
<1>2. DiskInv /\ [Next]_vars => DiskInv'
  BY NextFiles, StagedStep, AccountedStep DEF DiskInv
<1>3. DiskInv => NothingLeaks
  BY RemovingIs DEF DiskInv, FileInv, RunInv, TypeOK, Accounted, NothingLeaks
<1> QED BY <1>1, <1>2, <1>3, PTL DEF Spec
=============================================================================
