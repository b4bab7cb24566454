--------------------------- MODULE ArchiveImport ---------------------------
(***************************************************************************)
(* Imports of .mailvault packages and MBOX files: the requests that accept *)
(* them, the registries of jobs in memory, the threads that unpack a file  *)
(* into a staging directory, insert an account with its first version,     *)
(* rename the directory and promote the version, and what is done when any *)
(* of this fails.  Beside them run the owner, who may remove or clear an   *)
(* account as soon as it is visible, a crash, and the next start.          *)
(*                                                                         *)
(* A part is one account to be created, and names its archive_uuid and its *)
(* snapshot_uuid: an upload or a link has one, the import of the NAS folder *)
(* one for its packages and one for its MBOX files.  Row ids are numbers   *)
(* that SQLite gives out: one more than the largest in the table, so that  *)
(* the id of a row that was rolled back or deleted is given again.  One    *)
(* connection writes at a time (WAL): a flush takes the write lock, commit *)
(* and rollback give it back.                                              *)
(*                                                                         *)
(* `Windows` are the overlaps explored:                                    *)
(*   "owner"   an account is removed or cleared while it is being imported *)
(*   "reuse"   another import inserts between a rollback and its clean-up  *)
(*   "barred"  the clean-up waits for the write lock until it times out    *)
(*   "requests" a STANDARD user asks for an import while another one runs  *)
(***************************************************************************)
EXTENDS Integers, FiniteSets, FiniteSetsExt

CONSTANTS Imports,       \* import jobs, by their job_id
          MaxId,         \* bound: row ids considered
          Limit,         \* standard_mailbox_limit
          MaxCrashes,    \* bound: crashes
          Windows,       \* the overlaps explored, see above
          None           \* no row, no job

ASSUME NoneIsNoImport == None \notin Imports \cup (Imports \X {1, 2})
ASSUME ImportBounds == MaxId \in Nat \ {0} /\ Limit \in Nat /\ MaxCrashes \in Nat
ASSUME ImportWindows == Windows \subseteq {"owner", "reuse", "barred", "requests"}

VARIABLES
  status,     \* registry: status of each job; "none" before, "lost" after a crash
  kind,       \* what the job imports
  temp,       \* the uploaded or downloaded file (or directory) is in IMPORTS_DIR
  pc,         \* where the request or the thread is
  part,       \* which of its parts the job is at
  aid, sid,   \* ids its Account and Snapshot objects hold, 0 before the flush
  landed,     \* its first commit has been done
  account,    \* accounts: the part each row was inserted for
  active,     \* accounts.active_snapshot_id
  version,    \* snapshots: the part each row was inserted for
  under,      \* snapshots.account_id
  completed,  \* ids of versions whose status is "completed" (else "staging")
  content,    \* the parts whose messages hang off each version
  staged,     \* directories .staging-<uuid>, by part
  stored,     \* directories <uuid>
  writer,     \* the import that holds SQLite's write lock
  doomed,     \* parts whose directories a maintenance job has still to remove
  plus,       \* users.plan = "PLUS"
  up,         \* the server process runs
  crashes,    \* number of crashes
  abandoned   \* history: directories nobody was left to remove after a crash

jobs   == <<status, kind, temp>>
thread == <<pc, part, aid, sid, landed>>
tables == <<account, active, version, under, completed, content>>
disk   == <<staged, stored>>
world  == <<plus, up, crashes, abandoned>>
vars   == <<jobs, thread, tables, disk, writer, doomed, world>>

Ids   == 1..MaxId
Parts == (Imports \X {1, 2}) \cup {None}
Kinds == {"upload", "link", "mbox", "mboxlink", "local"}

\* The account a job is creating.
Unit(i) == <<i, part[i]>>

IsMbox(i) == kind[i] \in {"mbox", "mboxlink"} \/ part[i] = 2

\* What is left to the job to fetch: the request makes only the place for it.
Fetched == {"link", "mboxlink"}

Over      == {"none", "completed", "failed", "lost"}
Working   == {"unpack", "inserted", "stored", "filled", "renamed"}
InHand(u) == \E i \in Imports : u = Unit(i) /\ pc[i] \in Working \cup {"undo", "sweep"}

\* The rows a table holds, and the id SQLite gives to the next one.
RowsOf(table) == {n \in Ids : table[n] # None}
NextId(table) == 1 + Max(RowsOf(table) \cup {0})

\* The accounts other connections see: the writer's is not committed yet.
Visible == {n \in RowsOf(account) : writer # None => n # aid[writer]}

-----------------------------------------------------------------------------
Init ==
  /\ status = [i \in Imports |-> "none"] /\ kind = [i \in Imports |-> "upload"]
  /\ temp = [i \in Imports |-> FALSE] /\ pc = [i \in Imports |-> "idle"]
  /\ part = [i \in Imports |-> 1] /\ landed = [i \in Imports |-> FALSE]
  /\ aid = [i \in Imports |-> 0] /\ sid = [i \in Imports |-> 0]
  /\ account = [n \in Ids |-> None] /\ active = [n \in Ids |-> 0]
  /\ version = [n \in Ids |-> None] /\ under = [n \in Ids |-> 0]
  /\ completed = {} /\ content = [n \in Ids |-> {}]
  /\ staged = {} /\ stored = {} /\ writer = None /\ doomed = {}
  /\ plus \in BOOLEAN /\ up = TRUE /\ crashes = 0 /\ abandoned = {}

Goto(i, place) == pc' = [pc EXCEPT ![i] = place]

\* The thread is over: the job's outcome, and the `finally` that removes what
\* was uploaded (the NAS folder is left as it is).
EndJob(i, outcome) ==
  /\ status' = [status EXCEPT ![i] = outcome] /\ temp' = [temp EXCEPT ![i] = FALSE]
  /\ Goto(i, "idle") /\ landed' = [landed EXCEPT ![i] = FALSE]
  /\ aid' = [aid EXCEPT ![i] = 0] /\ sid' = [sid EXCEPT ![i] = 0]
  /\ UNCHANGED <<kind, part>>

\* Versions `out` are deleted, with their messages; pointers to them become NULL,
\* and so does that of account `a`.
DropVersions(a, out) ==
  /\ version' = [n \in Ids |-> IF n \in out THEN None ELSE version[n]]
  /\ under' = [n \in Ids |-> IF n \in out THEN 0 ELSE under[n]]
  /\ content' = [n \in Ids |-> IF n \in out THEN {} ELSE content[n]]
  /\ completed' = completed \ out
  /\ active' = [n \in Ids |-> IF n = a \/ active[n] \in out THEN 0 ELSE active[n]]

\* Account `a` is deleted, and its versions by the foreign key.
DropAccountRow(a) ==
  /\ account' = [account EXCEPT ![a] = None]
  /\ DropVersions(a, {n \in Ids : under[n] = a})

-----------------------------------------------------------------------------
(* Requests *)

\* What the plan admits: MBOX files are for PLUS users; on the STANDARD plan a user
\* may have `Limit` accounts.  (The NAS folder is for administrators too, and the
\* user is one.)
Admitted(k) ==
  \/ plus
  \/ k \in {"upload", "link", "local"} /\ Cardinality(Visible) < Limit

\* A request has passed the checks.  An upload is written to a temporary file
\* by the request, a link and the NAS folder are left to the job.
Request(i, k) ==
  /\ up /\ status[i] = "none" /\ pc[i] = "idle"
  /\ Admitted(k)
  /\ plus \/ "requests" \in Windows
          \/ \A j \in Imports : status[j] \in Over /\ pc[j] = "idle"
  /\ kind' = [kind EXCEPT ![i] = k]
  /\ temp' = [temp EXCEPT ![i] = k # "local"]
  /\ IF k \in Fetched \cup {"local"}
     THEN status' = [status EXCEPT ![i] = "queued"] /\ Goto(i, "queued")
     ELSE status' = status /\ Goto(i, "receive")
  /\ UNCHANGED <<part, aid, sid, landed, tables, disk, writer, doomed, world>>

\* The upload is complete: the job is registered and its thread started.
Accept(i) ==
  /\ pc[i] = "receive" /\ Goto(i, "queued")
  /\ status' = [status EXCEPT ![i] = "queued"]
  /\ UNCHANGED <<kind, temp, part, aid, sid, landed, tables, disk, writer,
                 doomed, world>>

\* Too large, no usable file, or the connection broke: nothing is registered.
RefuseUpload(i) ==
  /\ pc[i] = "receive" /\ Goto(i, "idle")
  /\ temp' = [temp EXCEPT ![i] = FALSE]
  /\ UNCHANGED <<status, kind, part, aid, sid, landed, tables, disk, writer,
                 doomed, world>>

-----------------------------------------------------------------------------
(* The thread of a job *)

\* It begins: a link is downloaded; of the NAS folder packages come first, and
\* there may be MBOX files only.
Run(i) ==
  /\ pc[i] = "queued" /\ Goto(i, "check")
  /\ status' = [status EXCEPT ![i] = "running"]
  /\ \E p \in IF kind[i] = "local" THEN {1, 2} ELSE {1} : part' = [part EXCEPT ![i] = p]
  /\ UNCHANGED <<kind, temp, aid, sid, landed, tables, disk, writer, doomed, world>>

\* Nothing to download or to find, or a package that does not pass validation.
Invalid(i) ==
  /\ pc[i] = "check" /\ EndJob(i, "failed")
  /\ UNCHANGED <<tables, disk, writer, doomed, world>>

\* The package is valid, or there are MBOX files: the staging directory is made.
Stage(i) ==
  /\ pc[i] = "check" /\ Goto(i, "unpack")
  /\ staged' = staged \cup {Unit(i)}
  /\ UNCHANGED <<jobs, part, aid, sid, landed, tables, stored, writer, doomed, world>>

\* The rows of the account and of its version, which is in staging.
NewRows(i, a, s) ==
  /\ aid' = [aid EXCEPT ![i] = a] /\ sid' = [sid EXCEPT ![i] = s]
  /\ account' = [account EXCEPT ![a] = Unit(i)] /\ active' = active
  /\ version' = [version EXCEPT ![s] = Unit(i)] /\ under' = [under EXCEPT ![s] = a]
  /\ completed' = completed

\* Flush of the account and of its version; what follows of a package, or of the
\* first messages of an MBOX file, is in the same transaction.
Insert(i) ==
  /\ pc[i] = "unpack" /\ writer = None /\ NextId(account) \in Ids /\ NextId(version) \in Ids
  /\ "reuse" \in Windows \/ \A j \in Imports : pc[j] = "undo" => landed[j] \/ aid[j] = 0
  /\ writer' = i /\ Goto(i, "inserted")
  /\ NewRows(i, NextId(account), NextId(version))
  /\ content' = [content EXCEPT ![NextId(version)] = {Unit(i)}]
  /\ UNCHANGED <<jobs, part, landed, disk, doomed, world>>

\* Mutation: the first commit makes the version the account's current one already.
LandPromoted(i) ==
  /\ pc[i] = "inserted" /\ writer' = None
  /\ landed' = [landed EXCEPT ![i] = TRUE]
  /\ Goto(i, IF IsMbox(i) THEN "stored" ELSE "filled")
  /\ completed' = completed \cup {sid[i]}
  /\ active' = [active EXCEPT ![aid[i]] = sid[i]]
  /\ UNCHANGED <<jobs, part, aid, sid, account, version, under, content, disk, doomed,
                 world>>

\* The first commit: the account is visible, its version is staging.
Land(i) ==
  /\ pc[i] = "inserted" /\ writer' = None
  /\ landed' = [landed EXCEPT ![i] = TRUE]
  /\ Goto(i, IF IsMbox(i) THEN "stored" ELSE "filled")
  /\ UNCHANGED <<jobs, part, aid, sid, tables, disk, doomed, world>>

\* Further messages of an MBOX file: files first, then rows that refer to the
\* version by its id.  If it is gone, the foreign key refuses them.
Batch(i) ==
  /\ pc[i] = "stored"
  /\ staged' = staged \cup {Unit(i)}
  /\ \/ /\ writer = None /\ version[sid[i]] # None
        /\ content' = [content EXCEPT ![sid[i]] = @ \cup {Unit(i)}]
        /\ Goto(i, "filled")
     \/ /\ version[sid[i]] = None
        /\ content' = content /\ Goto(i, "undo")
  /\ UNCHANGED <<jobs, part, aid, sid, landed, account, active, version, under,
                 completed, stored, writer, doomed, world>>

\* The directory gets its final name, if it is still there.
Rename(i) ==
  /\ pc[i] = "filled"
  /\ IF Unit(i) \in staged
     THEN staged' = staged \ {Unit(i)} /\ stored' = stored \cup {Unit(i)} /\ Goto(i, "renamed")
     ELSE UNCHANGED disk /\ Goto(i, "undo")
  /\ UNCHANGED <<jobs, part, aid, sid, landed, tables, writer, doomed, world>>

\* Version and account are updated by their ids.  An update that meets no row
\* is an error (StaleDataError).
Promote(i) ==
  /\ pc[i] = "renamed" /\ writer = None
  /\ IF version[sid[i]] # None /\ account[aid[i]] # None
     THEN /\ completed' = completed \cup {sid[i]}
          /\ active' = [active EXCEPT ![aid[i]] = sid[i]] /\ Goto(i, "done")
     ELSE UNCHANGED <<completed, active>> /\ Goto(i, "undo")
  /\ UNCHANGED <<jobs, part, aid, sid, landed, account, version, under, content,
                 disk, writer, doomed, world>>

\* Mutation: the MBOX files of the NAS folder are followed by more of it.
NextPartAgain(i) ==
  /\ pc[i] = "done" /\ kind[i] = "local"
  /\ part' = [part EXCEPT ![i] = @ + 1] /\ Goto(i, "check")
  /\ aid' = [aid EXCEPT ![i] = 0] /\ sid' = [sid EXCEPT ![i] = 0]
  /\ landed' = [landed EXCEPT ![i] = FALSE]
  /\ UNCHANGED <<jobs, tables, disk, writer, doomed, world>>

\* The account is there.  The NAS folder may hold MBOX files as well; otherwise
\* the job has ended well.
NextPart(i) ==
  /\ pc[i] = "done" /\ kind[i] = "local" /\ part[i] = 1
  /\ part' = [part EXCEPT ![i] = 2] /\ Goto(i, "check")
  /\ aid' = [aid EXCEPT ![i] = 0] /\ sid' = [sid EXCEPT ![i] = 0]
  /\ landed' = [landed EXCEPT ![i] = FALSE]
  /\ UNCHANGED <<jobs, tables, disk, writer, doomed, world>>

\* A job for MBOX files looks the new account up, which may have been removed.
Outcome(i) ==
  IF kind[i] \in {"mbox", "mboxlink"} /\ account[aid[i]] = None THEN "failed" ELSE "completed"

Finish(i) ==
  /\ pc[i] = "done" /\ EndJob(i, Outcome(i))
  /\ UNCHANGED <<tables, disk, writer, doomed, world>>

\* An error: bad metadata, a missing file, the disk, or the write lock awaited for
\* longer than busy_timeout.  The transaction, if there is one, is undone.
Rollback(i) ==
  /\ pc[i] \in Working /\ Goto(i, "undo")
  /\ IF writer = i
     THEN DropAccountRow(aid[i]) /\ writer' = None
     ELSE UNCHANGED <<tables, writer>>
  /\ UNCHANGED <<jobs, part, aid, sid, landed, disk, doomed, world>>

\* Mutation: the rollback is all that undoes the rows.
ForgetNothing(i) ==
  /\ pc[i] = "undo" /\ Goto(i, "sweep")
  /\ UNCHANGED <<jobs, part, aid, sid, landed, tables, disk, writer, doomed, world>>

\* The account is deleted by the id the rolled-back object still holds.  If its
\* row was committed and is gone, reading that id raises, and the handler ends
\* there; if the write lock cannot be had, the rows stay.
Forget(i) ==
  /\ pc[i] = "undo"
  /\ \/ /\ aid[i] = 0
        /\ Goto(i, "sweep") /\ UNCHANGED <<jobs, part, aid, sid, landed, tables>>
     \/ /\ aid[i] # 0 /\ landed[i] /\ account[aid[i]] = None
        /\ EndJob(i, "failed") /\ UNCHANGED tables
     \/ /\ aid[i] # 0 /\ writer = None
        /\ landed[i] => account[aid[i]] # None
        /\ DropAccountRow(aid[i])
        /\ Goto(i, "sweep") /\ UNCHANGED <<jobs, part, aid, sid, landed>>
     \/ /\ aid[i] # 0 /\ writer # None /\ "barred" \in Windows
        /\ Goto(i, "sweep") /\ UNCHANGED <<jobs, part, aid, sid, landed, tables>>
  /\ UNCHANGED <<disk, writer, doomed, world>>

\* Both directories are removed, and the job fails.
Sweep(i) ==
  /\ pc[i] = "sweep"
  /\ staged' = staged \ {Unit(i)} /\ stored' = stored \ {Unit(i)}
  /\ EndJob(i, "failed")
  /\ UNCHANGED <<tables, writer, doomed, world>>

-----------------------------------------------------------------------------
(* The owner, crashes, the next start *)

\* The owner sees the account as soon as its row is committed.
Removable(a) ==
  /\ up /\ writer = None /\ account[a] # None /\ account[a] \notin doomed
  /\ "owner" \in Windows \/ ~InHand(account[a])

\* The rows of an account go, in one commit; then its whole directory.
RemoveAccount(a) ==
  /\ Removable(a) /\ DropAccountRow(a)
  /\ doomed' = doomed \cup {account[a]}
  /\ UNCHANGED <<jobs, thread, disk, writer, world>>

\* The versions of an account go; then the directories of all of them.
ClearArchive(a) ==
  /\ Removable(a) /\ \E n \in Ids : under[n] = a
  /\ DropVersions(a, {n \in Ids : under[n] = a})
  /\ doomed' = doomed \cup {account[a]}
  /\ UNCHANGED <<account, jobs, thread, disk, writer, world>>

RemoveFiles(u) ==
  /\ u \in doomed /\ doomed' = doomed \ {u}
  /\ staged' = staged \ {u} /\ stored' = stored \ {u}
  /\ UNCHANGED <<jobs, thread, tables, writer, world>>

\* Threads and registries are gone, an open transaction is undone.  What has no
\* row any more, or only a staging one after its rename, nobody will remove.
Crash ==
  /\ up /\ crashes < MaxCrashes /\ up' = FALSE /\ crashes' = crashes + 1
  /\ status' = [i \in Imports |->
        IF pc[i] = "idle" THEN status[i] ELSE "lost"]
  /\ pc' = [i \in Imports |-> "idle"] /\ landed' = [i \in Imports |-> FALSE]
  /\ aid' = [i \in Imports |-> 0] /\ sid' = [i \in Imports |-> 0]
  /\ IF writer = None THEN UNCHANGED tables ELSE DropAccountRow(aid[writer])
  /\ writer' = None /\ doomed' = {}
  /\ abandoned' = abandoned \cup doomed
        \cup {u \in staged : ~ \E n \in Ids : version'[n] = u}
        \cup {u \in stored : ~ \E n \in completed : version[n] = u}
  /\ UNCHANGED <<kind, temp, part, disk, plus>>

\* Mutation: versions of accounts that are not synchronised are left alone.
RecoverBackups ==
  /\ ~up /\ up' = TRUE
  /\ UNCHANGED <<jobs, thread, tables, disk, writer, doomed, plus, crashes, abandoned>>

\* At the next start every version still in staging is deleted, with its directory.
Recover ==
  /\ ~up /\ up' = TRUE
  /\ LET out == RowsOf(version) \ completed IN
     DropVersions(0, out) /\ staged' = staged \ {version[n] : n \in out}
  /\ UNCHANGED <<account, stored, jobs, thread, writer, doomed, plus,
                 crashes, abandoned>>

-----------------------------------------------------------------------------
Step(i) ==
  \/ Accept(i) \/ Run(i) \/ Stage(i) \/ Insert(i) \/ Land(i) \/ Batch(i)
  \/ Rename(i) \/ Promote(i) \/ NextPart(i) \/ Finish(i) \/ Forget(i) \/ Sweep(i)

\* Every job has been used up.
Rest == up /\ (\A i \in Imports : status[i] \notin {"none", "queued", "running"})
           /\ UNCHANGED vars

Next ==
  \/ \E i \in Imports, k \in Kinds : Request(i, k)
  \/ \E i \in Imports : Step(i) \/ RefuseUpload(i) \/ Invalid(i) \/ Rollback(i)
  \/ \E a \in Ids : RemoveAccount(a) \/ ClearArchive(a)
  \/ \E u \in Parts \ {None} : RemoveFiles(u)
  \/ Crash \/ Recover \/ Rest

Spec == Init /\ [][Next]_vars

-----------------------------------------------------------------------------
(* Properties *)

\* Types of the variables: ids within their tables, parts as rows.
TypeOK ==
  /\ status \in [Imports -> Over \cup {"queued", "running"}]
  /\ kind \in [Imports -> Kinds] /\ temp \in [Imports -> BOOLEAN]
  /\ pc \in [Imports -> Working \cup {"idle", "receive", "queued", "check", "done",
                                     "undo", "sweep"}]
  /\ part \in [Imports -> {1, 2}] /\ landed \in [Imports -> BOOLEAN]
  /\ aid \in [Imports -> 0..MaxId] /\ sid \in [Imports -> 0..MaxId]
  /\ account \in [Ids -> Parts] /\ version \in [Ids -> Parts]
  /\ active \in [Ids -> 0..MaxId] /\ under \in [Ids -> 0..MaxId]
  /\ completed \in SUBSET Ids /\ content \in [Ids -> SUBSET (Parts \ {None})]
  /\ staged \in SUBSET (Parts \ {None}) /\ stored \in SUBSET (Parts \ {None})
  /\ doomed \in SUBSET (Parts \ {None}) /\ abandoned \in SUBSET (Parts \ {None})
  /\ writer \in Imports \cup {None} /\ plus \in BOOLEAN /\ up \in BOOLEAN
  /\ crashes \in 0..MaxCrashes

\* What an owner can open is one import, whole: the current version of an account
\* is completed, was inserted for that account, holds that import's messages and
\* no other's, and its directory is there.
ArchivesAreWhole ==
  \A a \in Ids : active[a] # 0 =>
    LET s == active[a] IN
    /\ s \in completed /\ under[s] = a /\ version[s] = account[a]
    /\ content[s] = {account[a]} /\ account[a] \in stored

\* An import that failed has left nothing: no account, no version, no directory but
\* what a maintenance job is removing (or was, at a crash), whatever it failed at.
FailureLeavesNothing ==
  \A i \in Imports : status[i] = "failed" =>
    /\ Unit(i) \notin (staged \cup stored) \ (doomed \cup abandoned)
    /\ \A n \in Ids : Unit(i) \notin {account[n], version[n]}

\* Nothing is kept that nobody will remove: a committed version in staging is one an
\* import is still writing, even after a crash; every directory belongs to a version,
\* an import or a maintenance job, and every temporary file to a job, unless a crash
\* took them away.
NothingLeaks ==
  /\ up => \A n \in RowsOf(version) \ completed : InHand(version[n])
  /\ \A u \in (staged \cup stored) \ abandoned :
       InHand(u) \/ u \in doomed \/ \E n \in Ids : version[n] = u
  /\ \A i \in Imports : temp[i] =>
       status[i] \in {"queued", "running", "lost"} \/ pc[i] = "receive"

\* A STANDARD user has no more accounts than the limit.  (Not so with "requests",
\* since the limit is checked by the request and the row inserted by the job.)
LimitIsKept == plus \/ Cardinality(RowsOf(account)) <= Limit
=============================================================================
