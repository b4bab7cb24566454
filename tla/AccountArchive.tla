--------------------------- MODULE AccountArchive ---------------------------
(***************************************************************************)
(* The versions of one account: the rows of the `snapshots` table, the     *)
(* directories under archives/<account>/snapshots, and everything that     *)
(* writes them at the same time: backup runs (run_backup), version         *)
(* rotation by the owner's requests, clearing the archive, the scheduler's *)
(* expiry, a change of plan or permanence, a crash and the recovery at     *)
(* the next start.                                                         *)
(*                                                                         *)
(* A step is what lies between two points where another thread can act: a  *)
(* database commit, or a change of the disk.  Sessions are created with    *)
(* expire_on_commit=False, so what a run read of its Account row at the    *)
(* start it still holds at the end: base, keep and expiring are its copies. *)
(*                                                                         *)
(* `Windows` names the overlaps the environment is allowed to produce, so  *)
(* that each one can be studied alone:                                     *)
(*   "runs"      two runs of the account at once                           *)
(*   "rotation"  an owner's rotation request while a run, or the scheduler's *)
(*               cleanup, is in flight                                     *)
(*   "clear"     a backup started while the archive is being cleared       *)
(*   "terms"     plan or permanence changed while a run is in flight       *)
(*   "notify"    an error after the promotion has been committed           *)
(*   "database"  the scheduler cannot store the date of its clean-up       *)
(***************************************************************************)
EXTENDS Integers, FiniteSets

CONSTANTS Snaps,         \* snapshot identities (snapshot_uuid), used once each
          Runs,          \* backup worker threads that may serve this account
          MaxRetention,  \* largest retention_versions considered
          Windows,       \* the overlaps explored, see above
          None           \* SQL NULL, or "no snapshot"

ASSUME NoneIsNoSnap == None \notin Snaps
ASSUME SnapsFinite == IsFiniteSet(Snaps)
ASSUME RetentionPositive == MaxRetention \in Nat \ {0}
ASSUME WindowsKnown ==
  Windows \subseteq {"runs", "rotation", "clear", "terms", "notify", "database"}

VARIABLES
  row,        \* status of the snapshots row: "absent", "staging", "completed"
  doneAt,     \* completed_at, as the position in the order of completions
  protected,  \* snapshots whose row has protected = TRUE
  expires,    \* expires_at: "never" (NULL), "later", "due" (in the past)
  active,     \* accounts.active_snapshot_id
  retention,  \* accounts.retention_versions
  permanent,  \* accounts.is_permanent
  standard,   \* users.plan # "PLUS"
  staged,     \* directories named .staging-<uuid>
  stored,     \* directories named <uuid>, with everything that was written
  used,       \* identities already drawn by uuid4
  clock,      \* number of completions so far
  pc,         \* where each run is
  snap,       \* the snapshot it writes, or None
  base,       \* its copy of accounts.active_snapshot_id
  keep,       \* its copy of accounts.retention_versions
  expiring,   \* its snapshot will get an expiry date
  protect,    \* the version it will mark as protected, or None
  gone,       \* the versions its rotation removes
  rot,        \* the rotation requested by the owner
  wipe,       \* the clear-archive job: "idle", "started", "dropped"
  doomed,     \* directories the scheduler's cleanup still has to remove
  up,         \* the server process runs
  abandoned   \* history: directories nobody was left to remove, after a crash or
              \* after the scheduler's second commit was refused

rows  == <<row, doneAt, protected, expires>>
terms == <<permanent, standard>>
disk  == <<staged, stored>>
seen  == <<base, keep, expiring, protect>>
run   == <<pc, snap, seen, gone>>
vars  == <<rows, active, retention, terms, disk, used, clock, run, rot, wipe,
           doomed, up, abandoned>>

Completed == {s \in Snaps : row[s] = "completed"}

-----------------------------------------------------------------------------
\* The owner's rotation: where it is, its copy of the account, what it removes.
IdleRot == [pc |-> "idle", base |-> None, keep |-> 1, gone |-> {}]
LoadRot(n) == rot' = [pc |-> "loaded", base |-> active, keep |-> n, gone |-> {}]

Goto(r, place) == pc' = [pc EXCEPT ![r] = place]

\* The thread of the run is done and forgets what it held.
EndRun(r) ==
  /\ Goto(r, "idle")
  /\ snap' = [snap EXCEPT ![r] = None] /\ base' = [base EXCEPT ![r] = None]
  /\ keep' = [keep EXCEPT ![r] = 1] /\ expiring' = [expiring EXCEPT ![r] = FALSE]
  /\ protect' = [protect EXCEPT ![r] = None] /\ gone' = [gone EXCEPT ![r] = {}]

\* The same value for every run.
Each(v) == [r \in Runs |-> v]

NoRun == \A r \in Runs : pc[r] = "idle"
\* No job row of the account is queued, running or cancelling: a run has ended its
\* own when it rotates and reports, or removes what it leaves.
NoJob == \A r \in Runs : pc[r] \in {"idle", "cleaning", "rotating", "selected",
                                   "deleted", "notifying"}
Alone(r) == \A q \in Runs \ {r} : pc[q] = "idle"

\* A newly completed snapshot gets an expiry date from these terms.
Expiring == standard /\ ~permanent

\* Mutation: protected rows are skipped here, while their files go.
DeleteRowsUnprotected(out) ==
  LET dropped == out \ protected IN
  /\ row' = [s \in Snaps |-> IF s \in dropped THEN "absent" ELSE row[s]]
  /\ doneAt' = [s \in Snaps |-> IF s \in dropped THEN 0 ELSE doneAt[s]]
  /\ protected' = protected
  /\ expires' = [s \in Snaps |-> IF s \in dropped THEN "never" ELSE expires[s]]

\* Rows of `out` disappear; the foreign key sets active_snapshot_id to NULL.
DeleteRows(out) ==
  /\ row' = [s \in Snaps |-> IF s \in out THEN "absent" ELSE row[s]]
  /\ doneAt' = [s \in Snaps |-> IF s \in out THEN 0 ELSE doneAt[s]]
  /\ protected' = protected \ out
  /\ expires' = [s \in Snaps |-> IF s \in out THEN "never" ELSE expires[s]]

\* Mutations: foreign keys are not enforced; any removal resets the pointer.
NeverNull(out) == active
AlwaysNull(out) == None

NullIfGone(out) == IF active \in out THEN None ELSE active

\* Mutations of the choice below: the active version, or the protected ones, are
\* not exempt.
RemovableWithActive(mine, n) ==
  LET ordinary == Completed \ protected
      newer(s) == {t \in ordinary : doneAt[t] > doneAt[s]}
  IN {s \in ordinary : Cardinality(newer(s)) + 1 >= n}

RemovableWithProtected(mine, n) ==
  LET ordinary == Completed \ {mine}
      newer(s) == {t \in ordinary : doneAt[t] > doneAt[s]}
  IN {s \in ordinary : Cardinality(newer(s)) + 1 >= n}

\* rotate_versions keeps the snapshot it believes active, every protected one
\* and the newest n - 1 of the others.
Removable(mine, n) ==
  LET ordinary == {s \in Completed : s # mine /\ s \notin protected}
      newer(s) == {t \in ordinary : doneAt[t] > doneAt[s]}
  IN {s \in ordinary : Cardinality(newer(s)) + 1 >= n}

-----------------------------------------------------------------------------
(* A backup run *)

\* The worker loads the account and commits that the job is running.
Begin(r) ==
  /\ up /\ pc[r] = "idle"
  /\ "runs" \in Windows \/ Alone(r)
  /\ "rotation" \in Windows \/ rot.pc = "idle"
  /\ "clear" \in Windows \/ wipe = "idle"
  /\ used # Snaps
  /\ Goto(r, "begun")
  /\ base' = [base EXCEPT ![r] = active]
  /\ keep' = [keep EXCEPT ![r] = retention]
  /\ expiring' = [expiring EXCEPT ![r] = ~permanent]
  /\ UNCHANGED <<snap, protect, gone, rows, active, retention, terms, disk, used,
                 clock, rot, wipe, doomed, up, abandoned>>

\* A row with status staging is committed under a fresh uuid.
InsertStaging(r) ==
  /\ pc[r] = "begun"
  /\ \E s \in Snaps \ used :
       /\ used' = used \cup {s}
       /\ row' = [row EXCEPT ![s] = "staging"]
       /\ snap' = [snap EXCEPT ![r] = s]
  /\ Goto(r, "inserted")
  /\ UNCHANGED <<seen, gone, doneAt, protected, expires, active, retention,
                 terms, disk, clock, rot, wipe, doomed, up, abandoned>>

MakeStage(r) ==
  /\ pc[r] = "inserted"
  /\ staged' = staged \cup {snap[r]}
  /\ Goto(r, "fetching")
  /\ UNCHANGED <<snap, seen, gone, rows, active, retention, terms, stored, used,
                 clock, rot, wipe, doomed, up, abandoned>>

\* Every folder is fetched and no cancellation was seen: the staging directory
\* takes its final name; the previous version is read for the comparison, whose
\* verdict the model leaves open, and the owner for the plan.  If the staging
\* directory was removed under the run, later messages have recreated it and what
\* is renamed is partial.
Finish(r) ==
  LET s == snap[r]
      old == base[r]
  IN
  /\ pc[r] = "fetching"
  /\ staged' = staged \ {s}
  /\ stored' = IF s \in staged THEN stored \cup {s} ELSE stored
  /\ \E suspicious \in BOOLEAN :
       /\ suspicious => old \in Completed
       /\ protect' = [protect EXCEPT ![r] = IF suspicious THEN old ELSE None]
  /\ expiring' = [expiring EXCEPT ![r] = @ /\ standard]
  /\ Goto(r, "switching")
  /\ UNCHANGED <<snap, base, keep, gone, rows, active, retention, terms, used,
                 clock, rot, wipe, doomed, up, abandoned>>

\* One commit: the snapshot is completed and dated, the account points to it,
\* and a suspicious predecessor is protected.  An UPDATE of a row that is no
\* longer there makes the commit fail (see Fail).
Switch(r) ==
  LET s == snap[r]
      p == protect[r]
  IN
  /\ pc[r] = "switching"
  /\ row[s] = "staging"
  /\ p # None => p \in Completed
  /\ row' = [row EXCEPT ![s] = "completed"]
  /\ doneAt' = [doneAt EXCEPT ![s] = clock + 1]
  /\ clock' = clock + 1
  /\ protected' = IF p = None THEN protected ELSE protected \cup {p}
  /\ expires' = [expires EXCEPT ![s] = IF expiring[r] THEN "later" ELSE "never"]
  /\ active' = s
  /\ base' = [base EXCEPT ![r] = s]
  /\ Goto(r, "rotating")
  /\ UNCHANGED <<snap, keep, expiring, protect, gone, retention, terms, disk,
                 used, rot, wipe, doomed, up, abandoned>>

\* A cancellation seen by _check_cancel, or any error before the promotion is
\* committed: the provider, the storage limit, a row or a directory that vanished.
Fail(r) ==
  /\ pc[r] \in {"begun", "inserted", "fetching", "switching"}
  /\ Goto(r, "failing")
  /\ UNCHANGED <<snap, seen, gone, rows, active, retention, terms, disk, used,
                 clock, rot, wipe, doomed, up, abandoned>>

\* _fail_or_cancel removes the row of the run's snapshot in one commit, which
\* the database may refuse; the directory is removed next in either case.
FailCommit(r) ==
  LET out == {snap[r]} \ {None}
  IN
  /\ pc[r] = "failing"
  /\ \/ DeleteRows(out) /\ active' = NullIfGone(out)
     \/ UNCHANGED <<rows, active>>
  /\ Goto(r, "cleaning")
  /\ UNCHANGED <<snap, seen, gone, retention, terms, disk, used, clock, rot,
                 wipe, doomed, up, abandoned>>

\* Mutation: the path of the renamed directory was not kept for the handler.
FailUnlinkStaging(r) ==
  /\ pc[r] = "cleaning"
  /\ staged' = staged \ {snap[r]}
  /\ EndRun(r)
  /\ UNCHANGED <<rows, active, retention, terms, stored, used, clock, rot, wipe,
                 doomed, up, abandoned>>

FailUnlink(r) ==
  /\ pc[r] = "cleaning"
  /\ staged' = staged \ {snap[r]}
  /\ stored' = stored \ {snap[r]}
  /\ EndRun(r)
  /\ UNCHANGED <<rows, active, retention, terms, used, clock, rot, wipe, doomed,
                 up, abandoned>>

\* The run rotates with the account object it holds: its own snapshot is the
\* active one, retention_versions is what it was when the run began.
RunSelect(r) ==
  /\ pc[r] = "rotating"
  /\ gone' = [gone EXCEPT ![r] = Removable(base[r], keep[r])]
  /\ Goto(r, "selected")
  /\ UNCHANGED <<snap, seen, rows, active, retention, terms, disk, used, clock,
                 rot, wipe, doomed, up, abandoned>>

RunDelete(r) ==
  /\ pc[r] = "selected"
  /\ DeleteRows(gone[r])
  /\ active' = NullIfGone(gone[r])
  /\ Goto(r, "deleted")
  /\ UNCHANGED <<snap, seen, gone, retention, terms, disk, used, clock, rot,
                 wipe, doomed, up, abandoned>>

\* A rotation that raises is logged and dropped; the run goes on.
RunRotationFails(r) ==
  /\ pc[r] \in {"rotating", "selected"}
  /\ Goto(r, "notifying")
  /\ gone' = [gone EXCEPT ![r] = {}]
  /\ UNCHANGED <<snap, seen, rows, active, retention, terms, disk, used, clock,
                 rot, wipe, doomed, up, abandoned>>

RunUnlink(r) ==
  /\ pc[r] = "deleted"
  /\ stored' = stored \ gone[r]
  /\ Goto(r, "notifying")
  /\ gone' = [gone EXCEPT ![r] = {}]
  /\ UNCHANGED <<snap, seen, rows, active, retention, terms, staged, used, clock,
                 rot, wipe, doomed, up, abandoned>>

\* notify_backup reports the end of the run.
Notify(r) ==
  /\ pc[r] = "notifying"
  /\ EndRun(r)
  /\ UNCHANGED <<rows, active, retention, terms, disk, used, clock, rot, wipe,
                 doomed, up, abandoned>>

\* notify_backup reads the database outside its own try: an error there reaches
\* run_backup's handler, which treats the run as failed and deletes the row of
\* its snapshot, by now the active one.  stage_path is None: the files stay.
NotifyFails(r) ==
  /\ "notify" \in Windows
  /\ pc[r] = "notifying"
  /\ DeleteRows({snap[r]})
  /\ active' = NullIfGone({snap[r]})
  /\ EndRun(r)
  /\ UNCHANGED <<retention, terms, disk, used, clock, rot, wipe, doomed, up,
                 abandoned>>

-----------------------------------------------------------------------------
(* Rotation on request: a new retention, or a protected version given up *)

RotationMayStart == up /\ rot.pc = "idle" /\ ("rotation" \in Windows \/ NoRun)

\* Mutation: the number is taken for the versions beside the active one.
ChangeRetentionBeside(n) ==
  /\ RotationMayStart
  /\ n # retention
  /\ retention' = n - 1
  /\ LoadRot(n)
  /\ UNCHANGED <<rows, active, terms, disk, used, clock, run, wipe, doomed, up,
                 abandoned>>

\* PATCH settings: the account is loaded, its new retention committed.
ChangeRetention(n) ==
  /\ RotationMayStart
  /\ n # retention
  /\ retention' = n
  /\ LoadRot(n)
  /\ UNCHANGED <<rows, active, terms, disk, used, clock, run, wipe, doomed, up,
                 abandoned>>

\* POST protection with action "replace": the version is protected no more,
\* and its account is loaded for the rotation.
ReplaceProtected(s) ==
  /\ RotationMayStart
  /\ s \in Completed \cap protected
  /\ protected' = protected \ {s}
  /\ LoadRot(retention)
  /\ UNCHANGED <<row, doneAt, expires, active, retention, terms, disk, used,
                 clock, run, wipe, doomed, up, abandoned>>

RotSelect ==
  /\ rot.pc = "loaded"
  /\ rot' = [rot EXCEPT !.pc = "selected", !.gone = Removable(rot.base, rot.keep)]
  /\ UNCHANGED <<rows, active, retention, terms, disk, used, clock, run, wipe,
                 doomed, up, abandoned>>

RotDelete ==
  /\ rot.pc = "selected"
  /\ DeleteRows(rot.gone)
  /\ active' = NullIfGone(rot.gone)
  /\ rot' = [rot EXCEPT !.pc = "deleted"]
  /\ UNCHANGED <<retention, terms, disk, used, clock, run, wipe, doomed, up,
                 abandoned>>

RotUnlink ==
  /\ rot.pc = "deleted"
  /\ stored' = stored \ rot.gone
  /\ rot' = IdleRot
  /\ UNCHANGED <<rows, active, retention, terms, staged, used, clock, run, wipe,
                 doomed, up, abandoned>>

-----------------------------------------------------------------------------
(* Clearing the archive *)

\* The job is refused while a backup job of the account is active.
ClearStart ==
  /\ up /\ wipe = "idle"
  /\ NoJob
  /\ wipe' = "started"
  /\ UNCHANGED <<rows, active, retention, terms, disk, used, clock, run, rot,
                 doomed, up, abandoned>>

ClearDrop ==
  /\ wipe = "started"
  /\ DeleteRows(Snaps)
  /\ active' = None
  /\ wipe' = "dropped"
  /\ UNCHANGED <<retention, terms, disk, used, clock, run, rot, doomed, up,
                 abandoned>>

\* Each listed directory is removed, then the whole snapshots directory.
ClearFiles ==
  /\ wipe = "dropped"
  /\ staged' = {} /\ stored' = {}
  /\ wipe' = "idle"
  /\ UNCHANGED <<rows, active, retention, terms, used, clock, run, rot, doomed,
                 up, abandoned>>

-----------------------------------------------------------------------------
(* Expiry by the scheduler, and the terms it follows *)

\* A date is days away from the run that set it.
TimePasses(s) ==
  /\ expires[s] = "later"
  /\ \A r \in Runs : snap[r] # s
  /\ expires' = [expires EXCEPT ![s] = "due"]
  /\ UNCHANGED <<row, doneAt, protected, active, retention, terms, disk, used,
                 clock, run, rot, wipe, doomed, up, abandoned>>

\* Every version past its date goes, protected or not; an active one is replaced
\* by the newest version that is not past its date.
Expire ==
  LET due  == {s \in Completed : expires[s] = "due"}
      left == Completed \ due
  IN
  /\ up /\ doomed = {} /\ due # {}
  /\ "rotation" \in Windows \/ rot.pc = "idle"
  /\ DeleteRows(due)
  /\ IF active \notin due THEN UNCHANGED active
     ELSE IF left = {} THEN active' = None
     ELSE \E s \in left : /\ \A t \in left : doneAt[t] <= doneAt[s]
                          /\ active' = s
  /\ doomed' = due
  /\ UNCHANGED <<retention, terms, disk, used, clock, run, rot, wipe, up,
                 abandoned>>

\* Mutation: only plain files are unlinked.
ExpireUnlinkFiles ==
  /\ doomed # {}
  /\ doomed' = {}
  /\ UNCHANGED <<rows, active, retention, terms, disk, used, clock, run, rot,
                 wipe, up, abandoned>>

ExpireUnlink ==
  /\ doomed # {}
  /\ stored' = stored \ doomed
  /\ doomed' = {}
  /\ UNCHANGED <<rows, active, retention, terms, staged, used, clock, run, rot,
                 wipe, up, abandoned>>

\* The date of the clean-up cannot be stored: the list of directories is lost.
ExpireStops ==
  /\ "database" \in Windows
  /\ doomed # {}
  /\ abandoned' = abandoned \cup doomed
  /\ doomed' = {}
  /\ UNCHANGED <<rows, active, retention, terms, disk, used, clock, run, rot,
                 wipe, up>>

TermsMayChange == up /\ ("terms" \in Windows \/ NoRun)

MakePermanent ==
  /\ TermsMayChange
  /\ ~permanent
  /\ permanent' = TRUE
  /\ expires' = [s \in Snaps |-> "never"]
  /\ UNCHANGED <<row, doneAt, protected, active, retention, standard, disk, used,
                 clock, run, rot, wipe, doomed, up, abandoned>>

\* Mutation: the active version is left without a date.
DateSuperseded ==
  expires' = [s \in Snaps |->
                IF s \in Completed \ {active} THEN "later" ELSE expires[s]]

\* Completed versions get a date counted from their creation.
DateCompleted ==
  expires' = [s \in Snaps |-> IF s \in Completed THEN "later" ELSE expires[s]]

\* A Standard owner makes another mailbox the permanent one.
LosePermanence ==
  /\ TermsMayChange
  /\ permanent /\ standard
  /\ permanent' = FALSE
  /\ DateCompleted
  /\ UNCHANGED <<row, doneAt, protected, active, retention, standard, disk, used,
                 clock, run, rot, wipe, doomed, up, abandoned>>

\* An administrator changes the owner's plan.
Downgrade ==
  /\ TermsMayChange
  /\ ~standard
  /\ standard' = TRUE
  /\ IF permanent THEN UNCHANGED expires ELSE DateCompleted
  /\ UNCHANGED <<row, doneAt, protected, active, retention, permanent, disk,
                 used, clock, run, rot, wipe, doomed, up, abandoned>>

Upgrade ==
  /\ TermsMayChange
  /\ standard
  /\ standard' = FALSE
  /\ UNCHANGED <<rows, active, retention, permanent, disk, used, clock, run, rot,
                 wipe, doomed, up, abandoned>>

-----------------------------------------------------------------------------
(* Crash and restart *)

\* Every thread is gone.  A directory without a row is never looked at again, and
\* neither is a final directory whose row is still staging.
Crash ==
  /\ up
  /\ up' = FALSE
  /\ pc' = Each("idle") /\ snap' = Each(None) /\ base' = Each(None)
  /\ keep' = Each(1) /\ expiring' = Each(FALSE) /\ protect' = Each(None)
  /\ gone' = Each({})
  /\ rot' = IdleRot /\ wipe' = "idle" /\ doomed' = {}
  /\ abandoned' = abandoned \cup {s \in staged \cup stored : row[s] = "absent"}
                            \cup {s \in stored : row[s] = "staging"}
  /\ UNCHANGED <<rows, active, retention, terms, disk, used, clock>>

\* Mutation: whatever is not the active version counts as interrupted.
InterruptedOrOld == {s \in Snaps : row[s] # "absent" /\ s # active}

Interrupted == {s \in Snaps : row[s] = "staging"}

\* recover_interrupted_jobs: staging rows and their staging directories go.
Recover ==
  /\ ~up
  /\ up' = TRUE
  /\ DeleteRows(Interrupted)
  /\ staged' = staged \ Interrupted
  /\ UNCHANGED <<active, retention, terms, stored, used, clock, run, rot, wipe,
                 doomed, abandoned>>

-----------------------------------------------------------------------------
\* A new account: nothing archived, any retention, any terms.
Init ==
  /\ row = [s \in Snaps |-> "absent"]
  /\ doneAt = [s \in Snaps |-> 0]
  /\ protected = {}
  /\ expires = [s \in Snaps |-> "never"]
  /\ active = None
  /\ retention \in 1..MaxRetention
  /\ permanent = FALSE
  /\ standard \in BOOLEAN
  /\ staged = {} /\ stored = {} /\ used = {} /\ clock = 0
  /\ pc = Each("idle") /\ snap = Each(None) /\ base = Each(None)
  /\ keep = Each(1) /\ expiring = Each(FALSE) /\ protect = Each(None)
  /\ gone = Each({})
  /\ rot = IdleRot /\ wipe = "idle" /\ doomed = {}
  /\ up = TRUE /\ abandoned = {}

RunStep(r) ==
  \/ InsertStaging(r) \/ MakeStage(r) \/ Finish(r) \/ Switch(r)
  \/ Fail(r) \/ FailCommit(r) \/ FailUnlink(r)
  \/ RunSelect(r) \/ RunDelete(r) \/ RunRotationFails(r) \/ RunUnlink(r)
  \/ Notify(r) \/ NotifyFails(r)

RotStep == RotSelect \/ RotDelete \/ RotUnlink
WipeStep == ClearDrop \/ ClearFiles

Next ==
  \/ \E r \in Runs : Begin(r) \/ RunStep(r)
  \/ \E n \in 1..MaxRetention : ChangeRetention(n)
  \/ \E s \in Snaps : ReplaceProtected(s) \/ TimePasses(s)
  \/ RotStep \/ ClearStart \/ WipeStep \/ Expire \/ ExpireUnlink \/ ExpireStops
  \/ MakePermanent \/ LosePermanence \/ Downgrade \/ Upgrade
  \/ Crash \/ Recover

Spec == Init /\ [][Next]_vars

\* A thread that has something to do goes on: folders are finite, every wait on
\* the network is bounded by the retries, and nothing here waits for another.
Fairness ==
  /\ \A r \in Runs : WF_vars(RunStep(r))
  /\ WF_vars(RotStep) /\ WF_vars(WipeStep) /\ WF_vars(ExpireUnlink)
  /\ WF_vars(Recover)

FairSpec == Spec /\ Fairness

-----------------------------------------------------------------------------
(* Properties *)

RunPc == {"idle", "begun", "inserted", "fetching", "switching", "failing",
          "cleaning", "rotating", "selected", "deleted", "notifying"}

\* The type of every variable: what the tables, the disk and the threads hold.
TypeOK ==
  /\ row \in [Snaps -> {"absent", "staging", "completed"}]
  /\ doneAt \in [Snaps -> Nat]
  /\ protected \subseteq Snaps
  /\ expires \in [Snaps -> {"never", "later", "due"}]
  /\ active \in Snaps \cup {None}
  /\ retention \in 1..MaxRetention
  /\ permanent \in BOOLEAN /\ standard \in BOOLEAN
  /\ staged \subseteq Snaps /\ stored \subseteq Snaps /\ used \subseteq Snaps
  /\ clock \in Nat
  /\ pc \in [Runs -> RunPc]
  /\ snap \in [Runs -> Snaps \cup {None}] /\ base \in [Runs -> Snaps \cup {None}]
  /\ keep \in [Runs -> 1..MaxRetention] /\ expiring \in [Runs -> BOOLEAN]
  /\ protect \in [Runs -> Snaps \cup {None}] /\ gone \in [Runs -> SUBSET Snaps]
  /\ rot \in [pc : {"idle", "loaded", "selected", "deleted"},
              base : Snaps \cup {None}, keep : 1..MaxRetention,
              gone : SUBSET Snaps]
  /\ wipe \in {"idle", "started", "dropped"}
  /\ doomed \subseteq Snaps
  /\ up \in BOOLEAN
  /\ abandoned \subseteq Snaps

\* The account never points to a version that is still being staged or that no
\* longer exists, whatever overlaps: promotion, expiry, rotation and clearing
\* each move the pointer in the commit that changes the rows.
ActiveIsCompleted == active # None => active \in Completed

\* Every completed version has all its files: rows are completed after the
\* rename and deleted before the directory is removed.
CompletedHasFiles == Completed \subseteq stored

\* The account points to its newest completed version, and to none only if it
\* has none: rotation and expiry never take the current archive from an account
\* that still has another version, nor leave it on an older one.
ActiveIsNewest ==
  /\ active = None => Completed = {}
  /\ active # None => \A s \in Completed : doneAt[s] <= doneAt[active]

\* The directories some thread is about to remove.
BeingRemoved ==
  doomed \cup (IF rot.pc = "deleted" THEN rot.gone ELSE {})
         \cup (UNION {gone[r] : r \in {q \in Runs : pc[q] = "deleted"}})
         \cup (IF wipe = "dropped" THEN Snaps ELSE {})

\* No disk space is lost while the process lives: each directory belongs to a
\* completed version or to a run in flight, is about to be removed, or is one
\* a crash, or the scheduler's lost list, left behind (a staging directory waits for
\* the recovery instead).
NothingLeaks ==
  \A s \in staged \cup stored :
    \/ row[s] = "completed"
    \/ \E r \in Runs : snap[r] = s
    \/ s \in BeingRemoved \cup abandoned
    \/ ~up /\ row[s] = "staging" /\ s \notin stored

\* Terms of service: a Standard account's versions have an expiry date and a
\* permanent account's versions have none, as long as plan and permanence are
\* not changed under a run.
ExpiryFollowsTerms ==
  \A s \in Completed :
    /\ permanent => expires[s] = "never"
    /\ Expiring => expires[s] # "never"

\* What rotation spares, whoever rotates by whatever copy: a protected version
\* leaves only by expiry or by clearing the archive, and one is chosen for removal
\* only when the account keeps, by its retention_versions of this moment, enough
\* newer ones.
RotationSpares ==
  [][/\ \A s \in protected : row'[s] = "absent" => Expire \/ ClearDrop
     /\ \A s \in (UNION {gone'[r] : r \in {q \in Runs : RunSelect(q)}})
               \cup (IF RotSelect THEN rot'.gone ELSE {}) :
          Cardinality({t \in Completed : doneAt[t] > doneAt[s]}) >= retention]_vars

\* "An interrupted run does not replace the previous usable archive": a run that
\* fails, is cancelled or dies, and the recovery after it, leave the pointer and
\* every completed version with its files as they were.
InterruptionSparesArchive ==
  [][(\E r \in Runs : FailCommit(r) \/ FailUnlink(r)) \/ Crash \/ Recover =>
       /\ active' = active
       /\ Completed' = Completed
       /\ Completed \cap stored \subseteq stored']_vars

\* The versions of the account behave as its owner is promised.
Promise == INSTANCE ArchivePromise
             WITH Versions <- Snaps, current <- active, versions <- Completed
ImplementsPromise == Promise!Spec

\* The files of a version that was rotated out, expired or cleared are removed
\* in the end, unless a crash or the loss of the scheduler's list came in between.
Reclaimed(s) == (s \in stored /\ row[s] = "absent") ~> (s \notin stored \/ s \in abandoned)
FilesReclaimed == \A s \in Snaps : Reclaimed(s)
=============================================================================
