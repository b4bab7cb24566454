# Emboxa: a verification project

Emboxa is a self-hosted application that keeps backups of mailboxes. It is one
Python process (FastAPI, SQLAlchemy over SQLite in WAL mode, APScheduler and
thread pools) with a directory of archives beside its database. What can go
wrong in it is seldom in one function: it is in what two threads do to the same
row, in what a run still believes of an account it loaded hours ago, in a crash
between a commit and a rename, and in what a mail server answers. The modules
here model those parts; TLC checks them on small instances and TLAPS proves the
most important invariants for every value of the constants.

Paths below are relative to the repository root.

## 1. The system's parts

| part | state | operations | hard behaviour |
|---|---|---|---|
| **Versions of an archive** (`app/backup.py` run_backup, rotate_versions, _fail_or_cancel, recover_interrupted_jobs; `app/archive.py` clear_account_archive; `app/scheduler.py` cleanup; account routes of `app/main.py`) | rows of `snapshots`, `accounts.active_snapshot_id`, `retention_versions`, `is_permanent`, the plan, the directories `.staging-<uuid>` and `<uuid>` | stage, promote, rotate, expire, clear, protect, make permanent, change plan, fail, crash, recover | the database and the disk change one after the other; sessions keep what they loaded (`expire_on_commit=False`); rotation, expiry, clearing and failing runs each remove versions |
| **Queue of backup jobs** (`BackupManager`, its callers) | rows of `backup_jobs`, the table of futures, the manager's lock, the concurrency setting | start, drain, submit, done-callback, cancel, pick up, check for cancellation, finish, fail, stale cleanup, recover | rows are written without the lock; cancel and pick-up read and write apart; callbacks take the lock; wakeups |
| **Download of a mailbox** (the folder loop of run_backup, `_ConnectionPool`, `_Connection`, `_fetch_in_parallel`, `_fetch_batch`; `app/imap_adapter.py`) | pool of sessions, what each has selected, futures, refused UIDs, rows stored, notes | list, batch, fetch, split a refused batch, second pass, salvage headers, store | results in any order, sessions shared by threads, broken sessions, truncated SEARCH, refusals |
| **Restores** (`app/imap_transfer.py`, transfer routes of `app/main.py`, `app/restore_providers.py`) | rows of `imap_transfer_jobs`, submitted jobs, the destination mailbox, the monthly quota, temporary passwords | create, cancel, run, deliver, retry, recover | at-least-once delivery, a quota counted before the insert, passwords to be erased however a job ends |
| **Purge of a server's folder** (`app/mailbox_purge.py`) | UIDs of the active version, the server's folder | check coverage, delete in batches | deletes the original on the strength of the copy |
| **PEC mailboxes** (`app/pec.py`) | the active version's messages, per-folder UIDVALIDITY | incremental refresh, send | writes the active version while others replace it |
| **Maintenance jobs** (`app/main.py` 2236-2371) | in-memory registry | start, progress, cancel | exclusion against backups is checked once |
| **Import** (`app/archive.py` import_archive, delete_account; `app/mbox_import.py`; `app/main.py` 2885-3430) | an account and its first version in staging, the staging directory, the temporary file, the registry | accept, validate, unpack, insert, rename, promote, undo | rows, directories and the registry change one after the other; the handler cleans up by an id it remembers; the owner sees the account before it is whole |
| **Export** (`app/archive.py` build_export; `app/main.py` 2597-2845) | packages in `EXPORTS_DIR`, rows of `web_exports`, the registry | start, reuse, build, publish, register, expire, clean up | the archive is read by three queries and a copy, one after the other; staleness by file time; the limit counted before the build |
| **Trash** (`app/main.py` 3665-3745) | `is_deleted`, counters, search index, files shared by content | trash, restore, delete for good | totals written from copies; files of one message named by another |
| **Scheduler** (`app/scheduler.py`) | due times | due backups, cleanup, expiry | runs beside everything |
| Users, sessions, passkeys, settings, notifications, parsing, search, migrations, interface, packaging | | | see section 8 |

How they interact: requests and the scheduler call `BackupManager.start`, which
inserts a row and drains the queue under its lock; a pool thread executes
`run_backup`, which downloads into a staging directory, promotes it by a rename
and one commit, rotates old versions and notifies. Maintenance jobs, transfers,
purges and exports read or change the active version in threads of their own.
The only things they share are the database, the disk, two locks and the
registries in memory; nothing but status columns keeps them apart.

## 2. Modules

| module | models | extended or used by |
|---|---|---|
| `ArchivePromise` | what the owner of a mailbox is promised: a set of versions, one of them current | instantiated by `AccountArchive` |
| `AccountArchive` | the versions of one account and everything that writes them | `MCAccountArchive`, `AccountArchiveProofs`, `ArchivePromiseProofs` |
| `BackupQueue` | the persisted queue, the manager, its workers | `MCBackupQueue`, `BackupQueueProofs` |
| `FolderFetch` | the download of a mailbox by one run | `MCFolderFetch`, `FolderFetchProofs` |
| `TransferJobs` | restores: rows, manager, workers, quota, destination | `MCTransferJobs`, `TransferJobsProofs` |
| `MailboxJobs` | a mail server's folder, its archived versions, the maintenance jobs that purge and refresh them, the trash | `MCMailboxJobs`, `MailboxJobsProofs` |
| `ArchiveImport` | imports of packages and MBOX files, from the request to the promoted version or to what a failure leaves | `MCArchiveImport`, `ArchiveImportProofs` |
| `MessageTrash` | what an owner does to single messages, beside a refresh | `ExportCache` |
| `ExportCache` | export jobs and packages, composed with `MessageTrash` and with the versions they read | `MCExportCache`, `ExportCacheProofs` |

The `MC*` modules only give constants and symmetry to TLC. Each module has a
few definitions next to the ones they alter that say in their comment that they are
*mutations*: plausible bugs of the code. No specification uses them; PROJECT.json
names, for every property, the one that breaks it.

An action is what the code does between two points where another thread can
act: a database commit, a change of the disk, a call to a mail server, taking
or giving back a lock.

An UPDATE in the models writes the value the code computes. SQLAlchemy leaves a column out of it
whose new value equals the loaded one. The models do not have this. It matters only if another transaction has
changed the row since: a refresh may then leave a counter as a request beside it has written it, which is at most what the version
shows (`ClaimsAreHeld`) and counts as an overlap (`disturbed` in `TotalsAreTrue`).

**Windows.** Many hazards need an overlap that is rare and that the code does
not exclude. `CONSTANT Windows` (in `FolderFetch`, `Faults`) lists the overlaps
and faults the environment may produce; each module names them in its heading. A property is checked with every
window under which it holds, and the windows under which it does not are named in
section 6. So a passing run says what may overlap, not that nothing does.

### AccountArchive

| variable | in the code |
|---|---|
| `row`, `doneAt`, `protected`, `expires` | `snapshots.status`, order of `completed_at`, `protected`, `expires_at` against now |
| `active`, `retention`, `permanent`, `standard` | columns of `accounts`, `users.plan` |
| `staged`, `stored` | the directories `.staging-<uuid>` and `<uuid>`, complete |
| `pc`, `snap`, `gone` | where a run's thread is, its Snapshot, the list `removable` of its rotation |
| `base`, `keep`, `expiring`, `protect` | what its Account object said when it was loaded |
| `rot`, `wipe`, `doomed` | the rotation of a settings request, the clear job, the paths the scheduler has still to remove |

`Begin … Finish, Switch, RunSelect, RunDelete, RunUnlink, Notify` are the steps
of `run_backup` in order: `InsertStaging` is the commit of the staging row,
`Finish` the rename, `Switch` the commit that promotes. `Fail` may take any of
them before the promotion to `_fail_or_cancel` (`FailCommit`, then
`FailUnlink`). `DeleteRows` includes the foreign key's `ON DELETE SET NULL`.
Identities are uuids: never drawn twice (`used`). A directory that is only
partly removed by `rmtree` counts as not `stored`. A clear asks for job rows only (`NoJob`), so it may
begin while a run that has committed its end still rotates or reports. `ExpireStops` is the scheduler's
second commit, of its date, refused between the rows and the directories ("database" window): the list of paths is lost.

### BackupQueue

Row ids stand for the order by `created_at, id`. `mgr` is the critical section
that holds the lock: `Start` or `Complete` enter it, `Select` is the query of
`_drain_locked`, `Submit` and `AddCallback` the loop of `_submit_locked`; `mgr.pc =
"stuck"` is a callback that waits for the lock its own thread holds. `Cancel` is
`cancel()` as one step, `CancelRead`/`CancelCommit` the same with something in
between ("cancel" window); `Pick` and `PickRead`/`PickCommit` likewise.
`Reject` is the run that finds its account without IMAP. `Recover` is
`recover_interrupted_jobs` and `resume_pending`.

### FolderFetch

The thread of the run does `OpenFolder`, `ListFolder`, `Submit`, `Wake`,
`FirstPass`/`SecondPass`, `SecondChance`, `NextFolder`, `Complete`, and on any
error `Abort` and `Close`. A slot is a future with the thread that serves it:
`Acquire`, `Prepare` (select the folder unless the session remembers it),
`FetchGives`/`FetchRefused`/`FetchBreaks`, `Salvage`, and `End`, which gives the
session back. `recalled` is what the program believes a session has selected,
`selected` what it has. `temper` is how the server treats a message; "moody"
may give it, refuse it or give headers at each request, so for safety it
includes the other three. `BACKUP_BATCH_ATTEMPTS` and `BACKUP_MESSAGE_ATTEMPTS`
have their default 1. A second pass may hand over its messages in any order;
the model fixes one, since each is a batch of its own.

### TransferJobs

`CheckQuota`, `Refuse`, `Create` are `create_transfer` before, during and after
the test of the destination, which takes seconds. `Submit`/`Register`/`Done`
are the manager; `Begin … Finish, Report` the worker; `Search`, `Deliver`,
`DeliverFails`, `Reconnect` the attempts of `_deliver_one`. All jobs restore the same version into the same mailbox with
`skip_duplicates`, every message has a Message-ID, and one month passes for
nobody. `refresh()` of the pool and rotated OAuth tokens are left out.

### MailboxJobs

One folder. A message is a number in the order of arrival; `uid` gives the UID it has under
the present UIDVALIDITY (`epoch`), and `Renumber` changes both. `copy[v]` are the rows
of `messages` of version `v`, `binned[v]` those in the trash; `count`, `remote` and `validity`
are the columns of its `folders` row, `total` is `snapshots.message_count`.
`Start` is a route with its checks and `_start_maintenance_job`; `Run`, `End`,
`Fails` are `_run_maintenance_job`. `Cover`, `Open`, `Delete`/`StopDeleting` are `purge_folder`
(`purge_folder_direct` begins at `Open`), `Look`, `Select`, `Fetch`, `CountFolder`,
`WriteFolder`, `CountTotal`, `WriteTotal` are `sync_new_messages`: each count is one step and its commit another
(`seen` in between). A request of the owner for the trash is two steps as well: `ReadToTrash`/`ReadToRestore` loads the
message with the counters (`req`), `Trash`/`Restore` commits the numbers made of them. Outside the "requests" window
nothing that changes counters comes in between. A refresh may find the folder renumbered between
any two of its steps, and after it has opened a new session (`_fetch_batch`), where it goes on with the UIDs it had; a purge
keeps one session and fails with it (`Connected`). `Drop` is the commit of `clear_account_archive`.
A cutoff divides the messages by one date (`Old`): the archive's date and
the server's INTERNALDATE are taken to agree, and a message without a date is not in `Old`.
What `parse_and_store` makes of a message is a row and nothing else. Jobs persist nothing
of their own, so a crash is to the mailbox and the archive what `Fails` is.

### ArchiveImport

| variable | in the code |
|---|---|
| `status`, `kind` | the registry `MBOX_IMPORT_JOBS`, of all kinds of import |
| `temp` | the upload or download in `IMPORTS_DIR` |
| `pc`, `part`, `aid`, `sid`, `landed` | the thread: where it is, which of the NAS folder's two kinds it is at, the ids its `Account` and `Snapshot` hold, whether its first commit is done |
| `account`, `version`, `under`, `content`, `active`, `completed` | rows of `accounts` and `snapshots`, by id, and the messages that hang off a version |
| `staged`, `stored` | `.staging-<uuid>` and `<uuid>` |
| `writer` | the connection that has flushed and not committed: SQLite's one write lock |
| `doomed` | directories a removal or a clear has still to remove |

A package is unpacked (`Stage`), its rows flushed (`Insert`) and committed as
staging (`Land`), the directory renamed (`Rename`), the version promoted (`Promote`). An
MBOX file's messages are committed in batches of their own (`Batch`). An error
anywhere is `Rollback`, then `Forget` (the account deleted by the id the object
still holds), then `Sweep` (both directories). Ids are those SQLite gives:
one more than the largest in the table, so that the id of a row that was
rolled back is given again. This is what makes the deletion by a remembered id
delicate. Of the files in a NAS folder there is one package and one MBOX part;
more of them are the same steps again.

### MessageTrash and ExportCache

| variable | in the code |
|---|---|
| `rows`, `binned`, `indexed` | `messages`, `is_deleted`, entries of `message_fts` |
| `files` | files of messages and attachments, named by content, in the directories of versions |
| `count`, `size` | `snapshots.message_count`, `archive_size` |
| `gone` | versions whose rows have been deleted |
| `req`, `refresh` | what a request's or a refresh's thread has read |
| `kind`, `status`, `result` | `EXPORT_JOBS` |
| `pc`, `from`, `listed`, `attached`, `packed` | a job's thread, the version and the three lists it has collected |
| `temp`, `packages`, `shelf`, `due` | temporary directories, `EXPORTS_DIR/user-<id>`, `web_exports.id`, `expires_at` |
| `doomed` | packages the scheduler has selected and not yet removed |
| `active`, `newest` | `accounts.active_snapshot_id`, which a clear or an expiry sets back, and the newest version there has been |
| `young` | packages stamped after `accounts.last_backup_at` |
| `abandoned` | history: what a crash or one of the faults has left to nobody |

`Begin` is the read of a request and `Move` its transaction; a deletion
for good is `FindPaths`, `DeleteRow`, `Unlink`, `Measure`, `Record`.
`RefreshBegin … RefreshEnd` are one message of `sync_new_messages`, the only writer
that adds messages to a version in use. An export job is `Start`, `Create` (reuse, or
the check of the limit), `Open`, `List`, `Attach`, `Choose`, `Pack` (`build_export`'s queries and copy),
`Publish` (the move), `Register` (the row), `Finish`. `Cleanup` and `UnlinkPackage` are the
scheduler's: `Cleanup` is its first transaction, with the rows of packages and, in the "reset" window, of expired
versions and the choice of another current one (`Replaces`); `CleanupStops` is what loses the list of files:
a refused second commit, or an error at one of them. `Fail` is an error that ends in the removal of the temporary
directory, by `build_export` or by the check of the size; `FailAfterBuild` one between the build and the row, after which
nobody removes it. `Promote`, `Rotate` and `RemoveFiles` are what a backup does to all this, `Clear` what
the owner does: neither it nor `Cleanup` touches `last_backup_at`, hence `young`.
A file counts as 1 in sizes, a package as 1 in the limit: that the check counts with the archive's size and the
row keeps the package's (`app/main.py:2641`, `:2663`) is lost in this. `indexed` is a set, where overlapping
restores may give the search two entries of one message.

## 3. Runs

`archive_alone` (1 run thread, 3 versions, up to 2 kept, window database): the
current version is the newest completed one; rotation spares what it has to spare (`RotationSpares`),
expiry dates follow the terms, no directory is left without somebody who
removes it but by a crash or by the refused commit of the scheduler, and it is removed in the end (`OneReclaimed`: `FilesReclaimed` for one version, which stands for all
because no action prefers one uuid); the account's versions implement
`ArchivePromise` (`ImplementsPromise`: `current` is `active`, `versions` the
completed rows; staging, failing, crashing and recovering are stuttering
steps). Three versions are the least with which a rotation that keeps two
removes one; symmetry is not used, because the run checks liveness.

`archive_overlaps` (2 run threads, 2 versions, windows runs, rotation, terms,
notify): the pointer is sound, completed versions keep their files, and an
interrupted run harms none, while two runs, an owner's rotation, the scheduler
and late errors interleave.

`queue_quiet` (2 jobs, 2 accounts, 1 crash, no windows, fair): rows that say
running have a thread; queued jobs are taken up and cancellations end
(`JobsAreServed`). `queue_faults` (3 jobs, windows callback, database, notify,
1 crash): an account has one worker, and accepted cancellations are kept, even over a restart. `queue_races` (3
jobs, windows cancel, pick, suspended): no wakeup is lost (`WorkConserving`), and first come,
first served (`NoOvertaking`). Three jobs over two accounts are needed for one to wait behind
another of its own account's successors; two places let workers overlap.

`fetch_mailbox` (two folders with coinciding UIDs, three and one messages, batches of
two, two sessions, SEARCH cut at two, two broken sessions, one message that
vanishes, fair): the accounting of a download. A session serves one thread and fetches from the folder it has selected
(`SessionsAreExclusive`), a message is stored once and under its own folder
(`StoredOnce`), none that the server lists is missing without a note (`NothingForgotten`),
and the run ends (`RunEnds`). INBOX is larger than a batch and
than the SEARCH limit, so splitting, truncation and the second pass all happen
while two threads are busy; two breaks suffice to hit both passes of a message.

`transfer_ends` (2 jobs, 1 worker, 2 messages, 2 attempts, 1 crash, windows
connect, deliver, reconnect, archive, fair): transfers end and stay as they ended (`TransfersEnd`),
account for every message and deliver none twice (`DeliveredOnce`), although a restart runs a job again. `transfer_races` (2 jobs, 1
message, all windows but quota): passwords are erased, whatever races. One message is enough there since what is
at stake is the end of a job.

`mailbox_jobs` (2 jobs of any of four kinds, 2 messages of which the first version holds
one, 2 versions, 2 numberings, batches of one, one request at a time, windows backup, marks, refuse, fail, renumber):
what a purge removes an existing version holds in full, and no version claims
more than it shows, each message counted once (`ClaimsAreHeld`). Two jobs suffice for a refresh, a clear or a
direct purge before or beside a purge; with two messages one is archived at first and one is new,
and a purge after a refresh has two batches. The view leaves out what no guard and no property asks: how a job ended,
counts that have been written down, counters of versions that are gone. New numbers are never old ones in this run
("renumber"); what happens when they are ("reuse") is `purge_renumbered`.

`imports` (2 imports of any kind, 3 row ids, a limit of one mailbox, 1 crash, window requests): what an
owner can open is one import, whole (`ArchivesAreWhole`); an import that failed has left
nothing (`FailureLeavesNothing`); and what is on the disk or in staging has
somebody who removes it (`NothingLeaks`). Two imports suffice: what one's failure can do to
another takes one whose ids are given again to the other. Each local import has two parts, so up to four accounts
compete for three ids.

`exports` (2 export jobs, 2 requests, 2 messages that share an attachment, 2 versions, room for one
package, 1 crash, windows requests, faults and reset): every message can be opened and is found
(`MessagesAreReachable`); totals are true when all is quiet and nothing overlapped (`TotalsAreTrue`); an
offered package can be imported (`PackageIsWhole`); whatever lies in the directory of exports is
known to somebody (`PackagesAreOwned`); a package used again is current, as long as the version of the last
backup is (`ReuseIsCurrent`); the limit is
kept (`RoomIsKept`). A shared attachment is what deletion has to get right, and it takes two messages;
a second job is what reuse, expiry and the limit are about; a second version is what makes a package stale.
Versions expire, the current one among them, and the owner clears the archive, at any moment when no package is built. The view
of `MCExportCache` leaves out what no guard and no property asks: how a job ended, and dates of packages without a row.

`purge_renumbered` is expected to be violated; see section 6.

Deadlock is checked everywhere except in `mailbox_jobs` and `exports`, whose jobs, requests, versions and
messages may be used up, and in `transfer_races`, where an early callback
really locks the manager for good. `FolderFetch`, `TransferJobs` and `ArchiveImport` stutter explicitly when
they are over (`Over`, `Rest`), so that a deadlock means a stuck thread; in
`AccountArchive` and `BackupQueue` the owner, the administrator or the clock always have a step.

## 4. Bounds

`MaxJobs`, `MaxCrashes`, `MaxDrops`, `MaxVanish`, `MaxMessages`, `MaxVersions`, `MaxEpochs`, and the sets `Imports`,
`Requests`, `Jobs` bound what the environment does; `MaxId` the ids of rows (an insertion that would need
another does not happen); `Limit`, `Room` and `QuotaLimit` are settings of the application; `Snaps` bounds the versions ever created; `MaxRetention` and `MaxLimit`
the settings. `clock` in `AccountArchive` counts completions and is bounded by
`Snaps`. None of them appears in the code: everything the bounds exclude is a
longer history of the same steps. The invariants that are proved (section 7)
do not depend on them.

## 5. Fairness

* Threads that have a step go on (`WF` for each run, worker, fetch thread, callback, for
  rotation, clear, cleanup, recovery). The code has no wait that another of the
  modelled threads must end, except for the locks and the session pool, which are modelled.
  Waits on the network end: connections and reads have timeouts and every retry
  is counted.
* `SF` for `Complete` and `Refresh` in `BackupQueue`, which need the manager's
  lock: it is free between any two critical sections, none of its callers takes
  it in a loop, and a thread that waits for it obtains it.
* `Recover` is weakly fair: the container restarts the process (docker compose
  `restart: unless-stopped`).
* Nothing is assumed of owners, administrators, the network, other mail clients
  or time: no fairness for `Start`, `Cancel`, `SetLimit`, `Drop`, `Vanish`,
  `TimePasses`, `Expire`, `Create`.

## 6. Where the code and what it promises part

One run shows such a case (PROJECT.json, findings). TLC's trace of `purge_renumbered`: the
server rebuilds the folder and numbers it anew; a purge finds the archived UIDs
on the server, where they are those of messages that came after the backup, and
deletes them.

The same modules show others, which are not kept as runs. Each is found by TLC in
a few seconds with the constants given (other constants as in the runs above):

| module | constants | property | what happens |
|---|---|---|---|
| AccountArchive | `Windows = {"clear"}` | `CompletedHasFiles` | `_start_maintenance_job` sees no running backup; a backup starts, and completes before the final `rmtree` of the whole `snapshots` directory. `app/main.py:2339` tells the user to stop the backup before clearing the archive, and that is checked once |
| AccountArchive | `Windows = {"rotation"}` | `RotationSpares` | a run rotates by the `retention_versions` it loaded when it began, hours before; the owner has raised the number meanwhile |
| AccountArchive | `Windows = {"notify"}` | `ActiveIsNewest` | an error after the promotion (`notify_backup` queries outside its try) reaches the handler that deletes the promoted version |
| AccountArchive | `Windows = {"terms"}` | `ExpiryFollowsTerms` | permanence lost during a run: the new version never expires |
| BackupQueue | `Windows = {"pick"}` | `SingleWorker` | a job is cancelled between a worker's read and its commit of `running`; the account has no active row for a moment, and a second job of it starts |
| BackupQueue | `Windows = {"cancel"}` | `ActiveHasWorker` | `cancel()` rewrites a row that has ended since it read it; a `cancelling` row without a worker bars its account |
| BackupQueue | `Windows = {"callback"}`, FairSpec | `JobsAreServed` | a future that is done before `add_done_callback` calls `_complete` in the thread that holds the lock |
| TransferJobs | `Windows = {"cancel"}` | `TransfersEnd` | as for backups: a completed transfer comes back as `cancelling` |
| TransferJobs | `Windows = {"notify"}` | `TransfersEnd` | an error in the notification of a completed transfer makes it `failed` |
| TransferJobs | `Windows = {"callback", "connect"}`, FairSpec | `TransfersEnd` | the manager locked by an early callback |
| TransferJobs | `Windows = {"lost"}` | `DeliveredOnce` | the answer to an APPEND is lost; the retry does not search again |
| TransferJobs | `Workers = 2` | `DeliveredOnce` | two transfers into one mailbox search before either delivers |
| TransferJobs | `Windows = {"quota"}`, `QuotaLimit = 1` | `StartedWithinQuota` | two requests count the quota before either inserts a row |
| TransferJobs | `QuotaLimit = 1, MaxCrashes = 1` | `StartedWithinQuota` | a job that a restart has requeued is cancelled while queued and its quota refunded, though it has begun |
| MailboxJobs | `Windows = {"refuse"}` | `CompleteIsHeld` | the server refuses a message; the folder's counter is that of the listing, so the check that is to refuse a purge of a folder not archived in full (`app/mailbox_purge.py:174`) passes. The purge spares the message all the same, because it is not among the archived UIDs |
| MailboxJobs | `Windows = {"marks", "expunge"}` | `PurgedIsKept` | without UIDPLUS a purge expunges what another client has marked |
| MailboxJobs | `Windows = {"salvage"}` | `PurgedIsKept` | a message kept without its body counts as archived; the purge deletes the original |
| MailboxJobs | `Windows = {"backup", "rotation"}` | `PurgedIsKept` | the version a purge relies on is rotated away; the next one never had what was purged |
| MailboxJobs | `Windows = {"requests"}`, two requests | `ClaimsAreHeld` | two messages are put into the trash at once, each request writing what it made of the same reading of the counters (`app/main.py:3678`): one decrement is lost. So is a trash between a refresh's count and its commit (`app/pec.py:240`) |
| MailboxJobs | `Windows = {"marks", "refuse", "reuse"}` | `ClaimsAreHeld` | the folder is renumbered under a refresh and its old UIDs name other messages; one is stored a second time, under the UID that was asked for, and counted twice |
| ArchiveImport | `Windows = {"requests"}` | `LimitIsKept` | the limit of mailboxes (`README.md:40`, "up to 2 mailboxes per user") is checked by the request, and the row inserted by its job, after other requests have been admitted |
| ArchiveImport | `Windows = {"owner"}` | `ArchivesAreWhole`, `FailureLeavesNothing`, `NothingLeaks` | the owner removes or clears the account between the job's commits: the version is promoted without files or messages, or files stay without a version |
| ArchiveImport | `Windows = {"reuse"}` | `FailureLeavesNothing`, `NothingLeaks` | between a rollback and the deletion by the remembered id, another import is given that id, and its account is deleted |
| ArchiveImport | `Windows = {"reuse"}`, three imports, `MaxId = 2` | `ArchivesAreWhole` | as above, and a third import is given the ids once more: the second, whose account was deleted, promotes the third's version, whose directory still has its staging name |
| ArchiveImport | `Windows = {"barred"}` | `FailureLeavesNothing`, `NothingLeaks` | the deletion in the error handler waits for the write lock until it times out; account and staging version stay |
| ExportCache | `Windows = {"requests", "refresh"}` | `MessagesAreReachable` | a refresh stores a message whose file a deletion for good has just found to be nobody else's |
| ExportCache | `Windows = {"edits"}` | `PackageIsWhole` | a message goes to the trash between the query for messages and the one for attachments or files; the import refuses the package |
| ExportCache | `Windows = {"promotion"}` | `PackageIsWhole`, `ReuseIsCurrent` | a backup completes, or a version is rotated away, while a package is built; the package is stamped later than the backup and passes for current |
| ExportCache | `Windows = {"clock"}` | `ReuseIsCurrent` | the file's time is read as local time (`app/main.py:2626`), the backup's is UTC: with `TZ: Europe/Rome` (`docker-compose.yml:20`) an old package passes for current for one or two hours |
| ExportCache | `Windows = {"reset"}` | `ReuseIsCurrent` without `active = newest` | the owner clears the archive, or the current version expires; neither changes `last_backup_at`, all that `_existing_export` compares (`app/main.py:2612`), so a package of the version that is gone is handed out as the current one |
| ExportCache | `Windows = {"quota"}` | `RoomIsKept` | two jobs check the limit before either has a row |
| ExportCache | `Windows = {"requests"}` | `TotalsAreTrue` without `~disturbed` | two requests read one count and each writes its own |
| ExportCache | `Windows = {}` | `TotalsAreTrue` with `size[v] = DirectorySize(v)` | a refresh adds the size of a file that is there already, since attachments are shared by content; `app/storage.py:39` says "the recorded number is the truth" |

(The rows of `ArchiveImport` and `ExportCache` are with `MaxCrashes = 0`.)

More was met while reading and needs no state machine:

* The scheduler's expiry selects by date and status and takes protected versions too
  (`app/scheduler.py:65`; `RotationSpares` is about rotation alone for that reason).
* The folder loop calls `message_uids(expected=...)`, which `MicrosoftGraphAdapter`
  does not accept (`app/backup.py:488`), so a backup of a Microsoft mailbox fails at its first folder.
* A refused commit after the move of a package (`app/main.py:2665`) leaves a file without a row, which nothing
  removes; an error between the build and the move (`:2653-2661`) leaves the temporary directory, and perhaps part of the
  package; a refused second commit of the clean-up, or a file it cannot remove (`app/scheduler.py:83-88`), leaves the packages and
  versions whose rows it has just deleted. `PackagesAreOwned` and `NothingLeaks` except these, and no others, as `abandoned`. The
  deletion of an account leaves packages too: its `web_exports` rows go by cascade.
* A FETCH answer without a body for a message that exists is skipped without a word (`app/imap_adapter.py:277`);
  `FolderFetch` has it for messages that are gone.
* A crash between an import's rename and its last commit leaves the final directory: the next start
  removes `.staging-<uuid>` only. Temporary files in `IMPORTS_DIR` outlive a crash too.
* The scheduler's sweep for old staging directories looks for `*/.staging-*` under the archives (`app/scheduler.py:91`),
  and they lie one level deeper, in `<uuid>/snapshots/`.
* When the owner has removed an account under its import, reading `account.id` after the rollback
  raises, and the handler ends before the directories are removed (`Forget`, second disjunct).
* A package that is used again still holds a message put into the trash since.

## 7. Proofs

`AccountArchiveProofs`, for any sets of versions and runs, any retention and any windows:

* `TypeCorrect`: `Spec => []TypeOK`. `TypeOK` alone is not inductive: `Finish` and
  `Switch` write `row[snap[r]]`, and that `snap[r]` is a version at those
  places is `HasSnapshot`. The invariant is `RunInv == TypeOK /\ HasSnapshot`.
* `PointerIsSound`: `Spec => []ActiveIsCompleted`, in every window. The invariant
  `PointerInv` adds `RowsUsed` (whatever has a row was drawn before): a run
  that inserts its staging row cannot reuse the active version's identity.
* `FilesArePresent`: `Spec /\ "clear" \notin Windows => []CompletedHasFiles`. Files are removed by
  six kinds of steps, each from a list drawn up earlier; the invariant
  `FileInv` says why none of these lists can name a completed version when its
  turn comes: rows go before files (`RowsGoFirst`), a version on a list is never the one
  a run will still promote (`ListsSpareRuns`, `FilesOfRun`), no two runs share one (`RunsApart`,
  `UsedCovers`), and a clear that has dropped the rows is alone (`ClearAlone`). That last part
  is what the "clear" window takes away (section 6).

More of `AccountArchiveProofs`, each theorem with the windows it admits:

* `DatesFollowTerms`: `[]ExpiryFollowsTerms` without "terms", with the rest open. What a run believed of the
  plan when it started is what is still true when it writes the date (`Believed`).
* `InterruptedRunsSpare`: `InterruptionSparesArchive` without "clear": by `FileInv`, what a failed run or a
  recovery removes was never a completed version's.
* `DiskIsAccounted`: `[]NothingLeaks` without "notify" and "clear". `Accounted` follows every directory from the run
  that made it to the step that removes it; `StagedApart` keeps a run's staging directory out of the lists of others.

`ArchivePromiseProofs`, on top of it, with no windows but "terms" and "database" (`Gentle`):

* `PromiseIsKept`: `Spec => ImplementsPromise`, the refinement: every step of `AccountArchive` is one
  of `ArchivePromise` or a stutter. What it takes is that one thread at a time rotates or
  runs (`OneThread`), that whoever rotates has the account's present pointer (`Rotators`), and that
  what an expiry picks next is among what it leaves.
* `CurrentIsNewest`: `[]ActiveIsNewest`. `OrderInv` adds that completions are numbered
  in their order and below the counter (`Dated`).
* `RotationIsSparing`: `RotationSpares`, an action property: counting the newer versions of what is
  past the first `retention` gives at least `retention`.

`BackupQueueProofs`, for any number of jobs, accounts and places, and any windows:

* `TypeCorrect`: with `InHand`, that the job whose callback is registered has its future.
* `NoLostWakeup`: `[]WorkConserving` without the "database" window. Whenever the
  lock is free and no refresh is due, a waiting job means a full pool. The invariant `DrainSuffices` says what
  the loop has still to do suffices: while it submits, the jobs outside its list
  wait only if list and futures fill the places. With a refused query it fails, and the job waits for
  the next completion or settings change.
* `CancellationIsKept`: `CancelIsKept` without "pick", in every other window and across crashes: only a worker
  that has read its row before the cancellation overrules it.
* `OneWorkerPerAccount`: `[]SingleWorker` without "cancel", "pick" and "suspended", the windows in which
  a row is written by what was read of it before. A worker that copies has an active row (`CopyingIsActive`).
* `NoAccountIsBarred`: `[]ActiveHasWorker` without "cancel" and "database".
* `OldestFirst`: `NoOvertaking` without "database". `Ordered`: what the drain has in its list is older than
  all that waits outside.

`FolderFetchProofs`, for any mailbox and order of its folders, any number of sessions, any sizes of batches and of
SEARCH, any faults. One inductive invariant, `FetchInv`, carries all four theorems, because none of its parts
stands alone:

* `TypeCorrect`: `[]TypeOK`.
* `NoSessionIsShared`: `[]SessionsAreExclusive`. The pool has each session that no thread has, once (`PoolInv`), and what
  the program recalls as selected is selected (`RecallInv`), across the sessions that break and the folders that change.
* `EachMessageOnce`: `[]StoredOnce`. Batches, what each thread has of its own, what waits for the second pass and what
  is settled are disjoint (`ApartInv`, `BatchInv`), and nothing is in flight between two folders (`LoopInv`). That the
  batches cut from a listing are disjoint and have all of it is an argument about ranks, in place of one by induction.
* `SuccessIsComplete`: `[]NothingForgotten`. `CoverInv`: of a folder the run has left, each message that is still on the server
  is settled; of the present one it is settled or in a batch, a thread's hands or the second pass.

`TransferJobsProofs`, for any number of jobs, messages, attempts, workers and crashes:

* `TypeCorrect`, in every window. `TypeInv` adds `WorkerInv`: a worker at a message has it still to do, since
  the smallest of what is left to do is one of them (`MessageIsOneToDo`), and one that reconnects has an attempt left.
* `PasswordsAreErased`: `Spec => []SecretsErased`, in every window. Whatever writes a terminal
  status writes the erased password with it: the run's end, its failure, a
  cancellation, a restart.
* `NothingArrivesTwice`: `[]DeliveredOnce` with one worker and without the windows "lost" and "search". The
  invariant `DeliveryInv` says that one job is at work (`OneAtWork`), that what it is about to
  deliver is not in the mailbox (`NotYet`: it has searched, and nobody else delivers), and that what it has not to do any more
  is delivered or counted as failed (`Accounted`). A job that is run again after
  a crash searches again. The two windows and a second worker each break one half of this, and TLC finds it (section 6).

`ExportCacheProofs`, for any number of requests, messages, versions and export jobs, in the windows each theorem admits:

* `EveryMessageIsReachable`: `[]MessagesAreReachable` without "refresh", however many requests overlap. `TrashInv`
  says that the paths a request has found are named by no other row (`RequestInv`), which stays true because
  rows only go, until a refresh adds one; `Apart` is what the window takes away, and `RefreshInv` that
  a refresh's files are there before its row. `UnsharedFacts` is why the search for shared files, which looks for
  messages among messages and attachments among attachments, suffices: their names are apart (`NamesApart`).
* `NoPackageIsStray`: `[]PackagesAreOwned` in every window. `StoreInv`: a job whose package has, or had, a row
  has nothing more to store, so that no thread and no clean-up are at one package. What the theorem leaves to nobody it names: `abandoned`
  grows by what was in hand at a crash, at a refused row (`Register`), at an error after the build (`FailAfterBuild`) and
  at a clean-up cut short (`CleanupStops`), and by nothing else; without a crash and "faults" it is empty (`Blamed`).
* `ReusedPackagesAreCurrent`: `ReuseIsCurrent`, an action property, without "promotion" and "clock": `Current` relates the stamp
  of a package to the version it is of. Each of the two windows breaks it (section 6). It speaks of moments when the current version is that
  of the last backup: once that one has expired or been cleared, which leaves `last_backup_at` as it was, a package of it is handed out all the same,
  and the theorem promises nothing until the next backup.
* `OfferedPackagesAreWhole`: `[]PackageIsWhole` without "edits" and "promotion": what `List`, `Attach` and
  `Choose` have collected is what one query would have (`Collected`), since nothing changes meanwhile (`Quiet`).
* `StorageLimitIsKept`: `[]RoomIsKept` without "quota", for finitely many jobs: what has been checked still holds
  when the row is inserted, because one job goes on at a time (`Fits`).
* `TotalsHoldAtRest`: `[]TotalsAreTrue` in every window. The property speaks of moments of rest; `TotalsInv` says what holds
  between them, as long as nothing overlapped: one request or the refresh is at work (`Alone`), the count is right but
  between the two commits of a refresh, and what has been read to compute the next one is right too (`CountsHold`); the size
  covers the files but while those of a refresh are written, and what is to be stored covers them then (`SizesHold`:
  only an upper bound, since a refresh adds the size of a file that is there already, section 6).
* `TypeCorrect`: `[]TypeOK` in every window, for finitely many jobs. That a counter keeps its bound when requests
  overlap is not a matter of types: each request writes at most one more than it has read, once, so that a count never
  exceeds the messages by more than the requests that have ended (`CountBound`).

`MailboxJobsProofs`, for any number of messages, versions, jobs and renumberings, and any batch:

* `ClaimsStayHeld`: `[]ClaimsAreHeld` without "requests" and "reuse" (`Alone`). The counter and the rows move in different transactions; what keeps them
  in step is that a number read is still the number when what was made of it is written (`Readings`), that a version has a
  message once (`OneEach`), and that this survives a refresh because rows taken under the
  present UIDVALIDITY bear the present UIDs (`Numbered`), so that what the refresh finds missing is missing. Each of the two
  windows breaks it (section 6): the code does not keep requests apart.
* `PurgesAreCovered`: `[]PurgedIsKept` without "reuse", "expunge", "salvage" and "rotation" (`Safe`); `purge_renumbered` has a
  counterexample for the first, section 6 for the others. A purge reads the UIDs of the archive once and deletes much later, over a renumbering, backups and
  refreshes. `Covered` says that the archive still has rows of what it has left to delete (`RowsStay`: only a clear takes rows away, and
  one job is under way at a time), `RowsFaithful` that a row whose UID a message bears now is that message's
  (`StaysFaithful`: a renumbering gives out UIDs above all that rows have).
* `TypeCorrect`: `[]TypeOK` in every window. Whatever is lost between requests and refreshes, a counter is a number and never below
  zero (`Lower`; `CounterTypes`); that it is no greater than the messages is not claimed, since lost updates exceed it.
  `RequestShape`: a request holds a row of a version that was published. `UidRange`: a renumbering stays within the UIDs the bounds admit.

`ArchiveImportProofs`, for any number of imports, rows and crashes:

* `TypeCorrect`: `[]TypeOK` in every window; ids a thread uses are ids of the tables from its insertion on (`PlaceInv`).
* `AccountsAreWhole`: `[]ArchivesAreWhole` without "owner" and "reuse" (`Steady`): so also when the clean-up of a failed
  import is barred, and over crashes and restarts. `WholeInv` says that the rows of an import are of one account and one
  version (`TableInv`), that none of them, and no directory, is there before its import makes it (`FreshInv`), that a thread's
  rows stay its own while it works (`HeldInv`; `NextIdIsNew` is why an insertion takes nobody's), and that nothing
  is about to remove the directory of a completed version (`KeptInv`).
* `FailedImportsAreUndone` and `NothingIsLeaked`: `[]FailureLeavesNothing` and `[]NothingLeaks` without "owner", "reuse" and "barred"
  (`Calm`). `CleanInv` adds that the rows of a thread that gives up are gone before its directories (`UndoneInv`),
  and that what has its final name when the process is down belongs to a completed version or was given up at
  the crash (`StoppedInv`). The three need one another: a job that ends as failed with its work done (`Outcome`) has no directory because none leaks.
  Section 6 has what happens in each window left out.

The assumptions are those the modules declare (`NoneIsNoSnap`, `SnapsFinite`,
`RetentionPositive`, `FetchAssumption`, `NoneIsNoImport`, `ImportBounds`, `JobsPositive`, `LimitPositive`, `CrashesBounded`, `TransferAssumption`, `MessagesFit`, `FilesAreOfOneVersion`, `NamesApart`, `FinitelyMany`, `ExportBounds`, …); TLC
evaluates them in every run.

Every invariant and every action property of the passing runs is stated by a theorem. Only model-checked: the liveness
properties `FilesReclaimed` (`OneReclaimed`), `JobsAreServed`, `RunEnds` and `TransfersEnd` (fairness and ENABLED are beyond the
prover), and what happens in the windows the theorems leave out (section 6).

## 8. Not modelled

* Submission of PEC over SMTP: I/O that keeps no state here.
* Deletion of an account beside its backups, exports and transfers: `ArchiveImport` has it beside imports only; elsewhere
  one account is taken to stay.
* Users, sessions, passkeys, mail verification, settings pages, migrations: requests
  without concurrency of their own.
* Parsing of messages, search, the formats of packages and MBOX files, templates, the
  interface and the public site, containers: conversions and presentation.
* The Graph adapter: its backups do not get past the first folder.
* SQLite's own locking: a refused query or commit is the "database" window, in `ExportCache` "faults".

## 9. Plan

Done: `AccountArchive` with its promise, `BackupQueue`, `FolderFetch`,
`TransferJobs`, `MailboxJobs`, `ArchiveImport`, `MessageTrash` and `ExportCache`, and proofs about all of them. Worth doing next, in this order:

1. The promise "only what the archive holds is deleted" as an abstract specification that
   `MailboxJobs` implements, and the refinement proved.
2. Compositions: `MailboxJobs` with `BackupQueue`; `TransferJobs` with
   `AccountArchive` (a version removed under its reader); deletion of an account beside all of its jobs.
