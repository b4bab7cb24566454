----------------------------- MODULE ExportCache -----------------------------
(***************************************************************************)
(* Exports of an account's archive as .mailvault packages (app/main.py,    *)
(* app/archive.py build_export) and the packages kept for download, beside *)
(* what changes the archive meanwhile: requests for single messages and a  *)
(* PEC refresh (MessageTrash), backups that complete, rotation, the        *)
(* owner's clearing of the archive, and the scheduler's clean-up of        *)
(* expired packages and versions (app/scheduler.py).                       *)
(*                                                                         *)
(* A job is a thread; the registry of jobs is in memory.  The package it   *)
(* builds, if it builds one, is named by the job.  SELECTs see the         *)
(* database each at its own moment.  The user is PLUS, or an administrator *)
(* on the STANDARD plan, who may have packages written to the NAS folder   *)
(* too; each package counts as 1 in the storage limit.                     *)
(*                                                                         *)
(* `Windows`, beside those of MessageTrash:                                *)
(*   "edits"     messages change while an export job goes on               *)
(*   "promotion" a backup completes, or a version goes, while one is built *)
(*   "clock"     local time is ahead of UTC (docker-compose.yml:20)        *)
(*   "quota"     jobs of a STANDARD user run beside each other             *)
(*   "faults"    a commit is refused, a file cannot be moved or unlinked   *)
(*   "reset"     versions expire, and the owner clears the archive         *)
(***************************************************************************)
EXTENDS MessageTrash

CONSTANTS Jobs,        \* export jobs, by their id
          Room,        \* packages that fit in the storage limit
          MaxCrashes   \* bound: crashes

ASSUME ExportBounds == Room \in Nat /\ MaxCrashes \in Nat
ASSUME KnownWindows ==
  Windows \subseteq {"requests", "refresh", "edits", "promotion", "clock", "quota",
                     "faults", "reset"}

VARIABLES
  kind,       \* EXPORT_JOBS: a download or a copy on the NAS, by job
  status,     \* its status; "none" before, "lost" after a crash
  pc,         \* where its thread is
  result,     \* the package it offers
  from,       \* the version each package is built from
  listed,     \* messages in each package's messages.jsonl
  attached,   \* messages in its attachments.jsonl
  packed,     \* files to be packed, then files in the package
  temp,       \* temporary directories, by job
  packages,   \* packages in EXPORTS_DIR/user-<id>
  shelf,      \* web_exports.id of the row of each package, 0 without one
  due,        \* rows whose expires_at has passed
  doomed,     \* packages the clean-up has still to unlink
  young,      \* packages whose time stamp passes for that of the last backup
  active,     \* accounts.active_snapshot_id, 0 for NULL
  newest,     \* the newest version there has been
  plus,       \* users.plan = "PLUS"
  crashes,    \* number of crashes
  abandoned   \* history: what a crash or one of the faults has left to nobody

job   == <<kind, status, pc, result>>
build == <<from, listed, attached, packed>>
store == <<temp, packages, shelf, due, doomed, young>>
world == <<active, newest, plus, crashes, abandoned>>
vars  == <<trash, job, build, store, world>>

Making      == {"open", "list", "attach", "choose", "pack"}
Building(j) == pc[j] \in Making
Ongoing(j)  == status[j] \in {"queued", "running"}

\* Packages that have a row, and those that can be had by it.
Registered == {r \in Jobs : shelf[r] # 0}
Offered    == Registered \ due

ExportInit ==
  /\ kind = [j \in Jobs |-> "plain"] /\ status = [j \in Jobs |-> "none"]
  /\ pc = [j \in Jobs |-> "idle"] /\ result = [j \in Jobs |-> {}]
  /\ from = [j \in Jobs |-> 0] /\ listed = [j \in Jobs |-> {}]
  /\ attached = [j \in Jobs |-> {}] /\ packed = [j \in Jobs |-> {}]
  /\ temp = {} /\ packages = {} /\ shelf = [j \in Jobs |-> 0]
  /\ due = {} /\ doomed = {} /\ young = {}
  /\ active = 1 /\ newest = 1 /\ plus \in BOOLEAN /\ crashes = 0 /\ abandoned = {}

Init == TrashInit /\ ExportInit

\* What was collected for a package goes with its temporary directory or its row.
Discard(js) ==
  /\ from' = [j \in Jobs |-> IF j \in js THEN 0 ELSE from[j]]
  /\ listed' = [j \in Jobs |-> IF j \in js THEN {} ELSE listed[j]]
  /\ attached' = [j \in Jobs |-> IF j \in js THEN {} ELSE attached[j]]
  /\ packed' = [j \in Jobs |-> IF j \in js THEN {} ELSE packed[j]]

Goto(j, place) == pc' = [pc EXCEPT ![j] = place] /\ UNCHANGED <<kind, status, result>>
Over(j, outcome) ==
  /\ status' = [status EXCEPT ![j] = outcome] /\ pc' = [pc EXCEPT ![j] = "idle"]
  /\ kind' = [kind EXCEPT ![j] = "plain"] /\ result' = [result EXCEPT ![j] = {}]

-----------------------------------------------------------------------------
(* Requests, and the thread of a job *)

\* Mutation: what is there is compared with the limit, not what there will be.
RoomForOneMore == plus \/ Cardinality(Offered) <= Room

\* There is room for one package more, as far as rows tell.
HasRoom == plus \/ Cardinality(Offered) < Room

\* A download is asked for: a job of the account that is going on, of whatever
\* kind, is returned instead of a new one.  A copy on the NAS always gets its own.
Start(j, k) ==
  /\ status[j] = "none"
  /\ Busy => "edits" \in Windows
  /\ k = "plain" => HasRoom /\ ~ \E i \in Jobs : Ongoing(i)
  /\ plus \/ "quota" \in Windows \/ ~ \E i \in Jobs : Ongoing(i)
  /\ kind' = [kind EXCEPT ![j] = k] /\ status' = [status EXCEPT ![j] = "queued"]
  /\ pc' = [pc EXCEPT ![j] = "queued"]
  /\ UNCHANGED <<result, trash, build, store, world>>

\* Mutation: a package will do whenever it was made.
UsableOfAnyTime == {r \in Offered : r \in packages}

\* Packages that may be used again: not expired, there, and stamped after the last
\* backup; the stamp is read in local time, the backup's is UTC.
Usable == {r \in Offered : r \in packages /\ (r \in young \/ "clock" \in Windows)}

\* The thread takes the newest of them; else it builds one, if there is room.
Create(j) ==
  /\ pc[j] = "queued"
  /\ IF Usable # {} THEN
       /\ status' = [status EXCEPT ![j] = "running"] /\ pc' = [pc EXCEPT ![j] = "ready"]
       /\ result' = [result EXCEPT ![j] =
                        {r \in Usable : \A s \in Usable : shelf[s] =< shelf[r]}]
       /\ kind' = kind
     ELSE IF HasRoom THEN
       /\ status' = [status EXCEPT ![j] = "running"] /\ pc' = [pc EXCEPT ![j] = "open"]
       /\ UNCHANGED <<kind, result>>
     ELSE Over(j, "failed")
  /\ UNCHANGED <<trash, build, store, world>>

\* The temporary directory is made; of the archive, the current version is taken.
Open(j) ==
  /\ pc[j] = "open" /\ active # 0 /\ Goto(j, "list")
  /\ temp' = temp \cup {j} /\ from' = [from EXCEPT ![j] = active]
  /\ UNCHANGED <<trash, listed, attached, packed, packages, shelf, due, doomed,
                 young, world>>

\* Messages that are not in the trash, then their attachments, then the names of
\* the files of both.
List(j) ==
  /\ pc[j] = "list" /\ Goto(j, "attach")
  /\ listed' = [listed EXCEPT ![j] = Shown(from[j])]
  /\ UNCHANGED <<trash, from, attached, packed, store, world>>

Attach(j) ==
  /\ pc[j] = "attach" /\ Goto(j, "choose")
  /\ attached' = [attached EXCEPT ![j] = {m \in Shown(from[j]) : PartsOf[m] # {}}]
  /\ UNCHANGED <<trash, from, listed, packed, store, world>>

\* Mutation: only the messages themselves are packed.
ChooseRaw(j) ==
  /\ pc[j] = "choose" /\ Goto(j, "pack")
  /\ packed' = [packed EXCEPT ![j] = {RawOf[m] : m \in Shown(from[j])}]
  /\ UNCHANGED <<trash, from, listed, attached, store, world>>

Choose(j) ==
  /\ pc[j] = "choose" /\ Goto(j, "pack")
  /\ packed' = [packed EXCEPT ![j] = UNION {FilesOf(m) : m \in Shown(from[j])}]
  /\ UNCHANGED <<trash, from, listed, attached, store, world>>

\* The files are copied into the package, which is stamped when it is closed.
Pack(j) ==
  /\ pc[j] = "pack" /\ packed[j] \subseteq files /\ Goto(j, "built")
  /\ young' = young \cup {j}
  /\ UNCHANGED <<trash, build, temp, packages, shelf, due, doomed, world>>

\* The package is moved to its place.
Publish(j) ==
  /\ pc[j] = "built" /\ Goto(j, "moved")
  /\ packages' = packages \cup {j} /\ temp' = temp \ {j}
  /\ UNCHANGED <<trash, build, shelf, due, doomed, young, world>>

\* Its row is stored; if that is refused, the package stays where it is.
Register(j) ==
  /\ pc[j] = "moved"
  /\ \/ /\ \E n \in 1..Cardinality(Jobs) :
              /\ \A r \in Jobs : shelf[r] < n
              /\ n = 1 \/ \E r \in Jobs : shelf[r] = n - 1
              /\ shelf' = [shelf EXCEPT ![j] = n]
        /\ pc' = [pc EXCEPT ![j] = "ready"] /\ result' = [result EXCEPT ![j] = {j}]
        /\ UNCHANGED <<kind, status, abandoned>>
     \/ /\ "faults" \in Windows /\ shelf' = shelf
        /\ abandoned' = abandoned \cup {j} /\ Over(j, "failed")
  /\ UNCHANGED <<trash, build, temp, packages, due, doomed, young, active, newest,
                 plus, crashes>>

\* A download is offered, or the package copied to the NAS folder, if it is there.
Finish(j) ==
  /\ pc[j] = "ready"
  /\ Over(j, IF kind[j] = "plain" \/ result[j] \subseteq packages
             THEN "completed" ELSE "failed")
  /\ UNCHANGED <<trash, build, store, world>>

\* Mutation: a build that fails leaves its directory.
FailAndLeave(j) ==
  /\ Building(j) \/ pc[j] = "queued" \/ (pc[j] = "built" /\ ~plus)
  /\ Over(j, "failed")
  /\ UNCHANGED <<trash, build, store, world>>

\* A file or the version is missing, the disk is full, the user no longer active; or
\* the package is larger than those of his plan may be.  The directory is removed.
Fail(j) ==
  /\ Building(j) \/ pc[j] = "queued" \/ (pc[j] = "built" /\ ~plus)
  /\ Over(j, "failed") /\ temp' = temp \ {j} /\ Discard({j})
  /\ UNCHANGED <<trash, packages, shelf, due, doomed, young, world>>

\* Any other error between the end of the build and the row: nobody removes the
\* directory, nor what has been copied of the package.
FailAfterBuild(j) ==
  /\ "faults" \in Windows /\ pc[j] = "built"
  /\ Over(j, "failed") /\ Discard({j}) /\ abandoned' = abandoned \cup {j}
  /\ packages' = packages \/ packages' = packages \cup {j}
  /\ UNCHANGED <<trash, temp, shelf, due, doomed, young, active, newest, plus, crashes>>

-----------------------------------------------------------------------------
(* The scheduler, backups, crashes *)

\* Time passes: the packages of a PLUS user do not expire.
Expire(r) ==
  /\ r \in Offered /\ ~plus /\ due' = due \cup {r}
  /\ UNCHANGED <<trash, job, build, temp, packages, shelf, doomed, young, world>>

Undisturbed == "promotion" \in Windows \/ ~ \E j \in Jobs : Building(j) \/ pc[j] = "built"

\* Mutation: the messages of a version are left to a cascade that is not enforced.
DropOnly(S) == gone' = gone \cup S /\ UNCHANGED <<rows, binned, indexed, files, count,
                                                  size, req, refresh, disturbed>>

\* Versions go with the rows of their messages, and the entries for the search.
DropVersions(S) ==
  /\ gone' = gone \cup S
  /\ rows' = {m \in rows : VersionOf[m] \notin S} /\ binned' = binned \cap rows'
  /\ indexed' = {m \in indexed : VersionOf[m] \notin S}
  /\ UNCHANGED <<files, count, size, req, refresh, disturbed>>

\* The newest of the versions that stay, if any does.
Replaces(a, S) ==
  LET left == (1..newest) \ (gone \cup S) IN
  IF left = {} THEN a = 0 ELSE a \in left /\ \A v \in left : v =< a

\* The scheduler's one thread deletes the rows of packages and of versions that have
\* expired, in one transaction; then it sets about their files.
Cleanup ==
  /\ doomed = {}
  /\ \E S \in SUBSET ((1..newest) \ gone) :
       /\ S # {} \/ due \cap Registered # {}
       /\ S = {} \/ ("reset" \in Windows /\ ~plus /\ Undisturbed)
       /\ DropVersions(S)
       /\ IF active \in S THEN \E a \in 0..newest : Replaces(a, S) /\ active' = a
                         ELSE active' = active
  /\ doomed' = due \cap Registered
  /\ shelf' = [r \in Jobs |-> IF r \in due THEN 0 ELSE shelf[r]]
  /\ Discard(due \cap Registered)
  /\ UNCHANGED <<job, temp, packages, due, young, newest, plus, crashes, abandoned>>

UnlinkPackage(r) ==
  /\ r \in doomed /\ doomed' = doomed \ {r} /\ packages' = packages \ {r}
  /\ UNCHANGED <<trash, job, build, temp, shelf, due, young, world>>

\* The date of the clean-up cannot be stored, or a file not unlinked: the list of
\* what was still to be removed is lost.
CleanupStops ==
  /\ "faults" \in Windows /\ doomed # {}
  /\ doomed' = {} /\ abandoned' = abandoned \cup doomed
  /\ UNCHANGED <<trash, job, build, temp, packages, shelf, due, young, active, newest,
                 plus, crashes>>

\* A backup completes: its version is the current one, and last_backup_at is now.
Promote ==
  /\ newest < MaxVersions /\ Undisturbed /\ young' = {}
  /\ newest' = newest + 1 /\ active' = newest + 1
  /\ UNCHANGED <<trash, job, build, temp, packages, shelf, due, doomed, plus,
                 crashes, abandoned>>

\* The owner clears the archive: no version is current, but last_backup_at stays.
Clear ==
  /\ "reset" \in Windows /\ active # 0 /\ Undisturbed
  /\ active' = 0 /\ DropVersions(1..newest)
  /\ UNCHANGED <<job, build, store, newest, plus, crashes, abandoned>>

\* The rows of an older version are deleted, then its files.
Rotate(v) ==
  /\ v < active /\ v \notin gone /\ Undisturbed
  /\ DropVersions({v})
  /\ UNCHANGED <<job, build, store, world>>

RemoveFiles(v) ==
  /\ v \in gone /\ files \cap VersionFiles(v) # {}
  /\ files' = files \ VersionFiles(v)
  /\ UNCHANGED <<rows, binned, indexed, count, size, gone, req, refresh, disturbed,
                 job, build, store, world>>

\* Threads and the registry are gone; nobody knows their files any more.  (A crash
\* while nothing goes on changes nothing.)
Crash ==
  /\ crashes < MaxCrashes /\ crashes' = crashes + 1
  /\ Busy \/ doomed # {} \/ \E j \in Jobs : Ongoing(j)
  /\ status' = [j \in Jobs |-> IF Ongoing(j) THEN "lost" ELSE status[j]]
  /\ kind' = [j \in Jobs |-> "plain"]
  /\ pc' = [j \in Jobs |-> "idle"] /\ result' = [j \in Jobs |-> {}]
  /\ Discard(temp)
  /\ req' = [q \in Requests |-> IF AtWork(q) THEN [Idle EXCEPT !.at = "ended"] ELSE req[q]]
  /\ refresh' = IF Refreshing THEN [Still EXCEPT !.at = "ended"] ELSE refresh
  /\ disturbed' = (disturbed \/ Busy)
  /\ abandoned' = abandoned \cup temp \cup doomed \cup (packages \ Registered)
  /\ doomed' = {}
  /\ UNCHANGED <<rows, binned, indexed, files, count, size, gone, temp,
                 packages, shelf, due, young, active, newest, plus>>

-----------------------------------------------------------------------------
\* Messages change while no job goes on, unless "edits" is explored.
Edits ==
  /\ \/ /\ "edits" \in Windows \/ ~ \E j \in Jobs : Ongoing(j)
        /\ \/ \E q \in Requests, o \in Ops, m \in Messages : Begin(q, o, m)
           \/ \E m \in Messages : RefreshBegin(active, m)
     \/ TrashGoesOn
  /\ UNCHANGED <<job, build, store, world>>

JobStep(j) ==
  \/ \E k \in {"plain", "local"} : Start(j, k)
  \/ Create(j) \/ Open(j) \/ List(j) \/ Attach(j) \/ Choose(j) \/ Pack(j)
  \/ Publish(j) \/ Register(j) \/ Finish(j) \/ Fail(j) \/ FailAfterBuild(j)

Next ==
  \/ Edits \/ \E j \in Jobs : JobStep(j) \/ Expire(j) \/ UnlinkPackage(j)
  \/ Cleanup \/ CleanupStops \/ Promote \/ Clear \/ Crash
  \/ \E v \in Versions : Rotate(v) \/ RemoveFiles(v)

Spec == Init /\ [][Next]_vars

-----------------------------------------------------------------------------
(* Properties *)

\* Types of the variables; a package is built by the job it is named by.
TypeOK ==
  /\ TrashTypeOK
  /\ kind \in [Jobs -> {"plain", "local"}] /\ result \in [Jobs -> SUBSET Jobs]
  /\ status \in [Jobs -> {"none", "queued", "running", "completed", "failed", "lost"}]
  /\ pc \in [Jobs -> Making \cup {"idle", "queued", "built", "moved", "ready"}]
  /\ from \in [Jobs -> {0} \cup Versions] /\ packed \in [Jobs -> SUBSET Files]
  /\ listed \in [Jobs -> SUBSET Messages] /\ attached \in [Jobs -> SUBSET Messages]
  /\ temp \in SUBSET Jobs /\ packages \in SUBSET Jobs /\ young \in SUBSET Jobs
  /\ due \in SUBSET Jobs /\ doomed \in SUBSET Jobs /\ abandoned \in SUBSET Jobs
  /\ shelf \in [Jobs -> 0..Cardinality(Jobs)]
  /\ active \in {0} \cup Versions /\ newest \in Versions /\ plus \in BOOLEAN /\ crashes \in 0..MaxCrashes

\* What import_archive asks of the references in a package: every message has its
\* file in it, every attachment its message and its file.
Importable(j) ==
  /\ \A m \in listed[j] : RawOf[m] \in packed[j]
  /\ \A m \in attached[j] : m \in listed[j] /\ PartsOf[m] \subseteq packed[j]

\* A package that is offered is whole: the import of this same application takes
\* it, and no message has lost its attachments in it.
PackageIsWhole ==
  \A j \in Registered :
    Importable(j) /\ \A m \in listed[j] : PartsOf[m] # {} => m \in attached[j]

\* A row that has not expired has its package; a package or a temporary directory
\* has a row, a job or the clean-up that knows it.  Only a crash and the faults named
\* above, each at its own step, leave anything to nobody.
PackagesAreOwned ==
  /\ Offered \subseteq packages
  /\ \A j \in packages \ abandoned :
       j \in Registered \cup doomed \/ pc[j] = "moved"
  /\ \A j \in temp \ abandoned : Building(j) \/ pc[j] = "built"
  /\ abandoned = {} \/ crashes > 0 \/ "faults" \in Windows

\* A package that is used again shows the current version of the archive, not one
\* from before the last backup; unless the version of the last backup has been
\* cleared or has expired, which a package does not show by its date.
ReuseIsCurrent ==
  [][\A j \in Jobs : result[j] = {} /\ active = newest =>
       \A r \in result'[j] \ {j} : from[r] = active]_vars

\* A STANDARD user keeps no more packages than the storage limit admits.
RoomIsKept == plus \/ Cardinality(Offered) <= Room
=============================================================================
