----------------------------- MODULE MailboxJobs -----------------------------
(***************************************************************************)
(* One folder of a mailbox on its mail server, the archived versions of    *)
(* it, and the maintenance jobs of the account: emptying the folder on the *)
(* server of what the archive holds (app/mailbox_purge.py purge_folder) or *)
(* without looking (purge_folder_direct), bringing the active version up   *)
(* to date (app/pec.py sync_new_messages), clearing the archive; with      *)
(* their registry in app/main.py, the owner's trash, the backups, other    *)
(* mail clients and the server's own doings.                               *)
(*                                                                         *)
(* A backup is two steps here, its download and its publication: the steps *)
(* between are in FolderFetch and AccountArchive.                          *)
(*                                                                         *)
(* `Windows` names what the environment may do:                            *)
(*   "backup"    a backup starts while a maintenance job is under way      *)
(*   "marks"     another client marks messages \Deleted, and expunges them *)
(*   "refuse"    the server refuses to give out messages                   *)
(*   "fail"      a session breaks                                          *)
(*   "renumber"  the folder gets a new UIDVALIDITY and UIDs never used     *)
(* and what does the archive harm (README, section 6):                     *)
(*   "requests"  a counter is read by one of the owner's requests, or by a *)
(*               refresh, before another has committed the one it read     *)
(*   "reuse"     with the new UIDVALIDITY, UIDs begin again at 1           *)
(*   "expunge"   the server has no UIDPLUS                                 *)
(*   "salvage"   a backup keeps only the headers of a message              *)
(*   "rotation"  the account keeps one version                             *)
(***************************************************************************)
EXTENDS Integers, FiniteSets

CONSTANTS MaxMessages,  \* bound: messages ever in the folder
          First,        \* those that the first version holds
          Old,          \* messages dated before the cutoff a purge may be given
          MaxVersions,  \* bound: versions ever published
          MaxJobs,      \* bound: maintenance jobs ever started
          MaxEpochs,    \* bound: values of UIDVALIDITY
          Batch,        \* PURGE_BATCH and IMAP_FETCH_BATCH
          Requests,     \* the threads that serve the owner's requests
          Windows

Messages == 1..MaxMessages
Versions == 1..MaxVersions
Jobs     == 1..MaxJobs
Epochs   == 1..MaxEpochs
Uids     == 1..MaxMessages * MaxEpochs
AllWindows == {"backup", "marks", "refuse", "fail", "renumber", "requests", "reuse", "expunge",
               "salvage", "rotation"}

ASSUME MailboxAssumption ==
    /\ {MaxMessages, First, MaxVersions, MaxJobs, MaxEpochs, Batch} \subseteq Nat \ {0}
    /\ First <= MaxMessages
    /\ Old \subseteq Messages
    /\ Windows \subseteq AllWindows

VARIABLES
    arrived,    \* messages that have arrived so far, 1 to arrived
    box,        \* those on the server
    marked,     \* those of them with the flag \Deleted
    epoch,      \* UIDVALIDITY
    uid,        \* the UID a message has, or will have when it arrives
    published,  \* versions published so far, 1 to published
    kept,       \* those whose row exists
    active,     \* accounts.active_snapshot_id, or 0
    protected,  \* snapshots.protected
    copy,       \* rows of a version: [uid, msg, full]
    binned,     \* those with is_deleted
    validity,   \* folders.uidvalidity of a version
    remote,     \* folders.remote_count
    count,      \* folders.message_count
    total,      \* snapshots.message_count
    draft,      \* the version a running backup has downloaded
    req,        \* what a request of the owner's has read, or NoRequest
    kind,       \* of a maintenance job
    cutoff,     \* jobs that were given a date to keep from
    status,     \* of the job, or "none"
    cancelReq,  \* jobs with cancel_requested
    pc,         \* where its thread is
    ver,        \* the version it has looked up
    todo,       \* UIDs it will delete or fetch
    exists,     \* what the server said when it opened the folder
    seen,       \* the rows it has counted and not yet written down
    purged      \* history: messages that a purge relying on the archive has removed

server  == <<arrived, box, marked, epoch, uid>>
archive == <<published, kept, active, protected, copy, binned, validity, remote, count, total>>
work    == <<pc, ver, todo, exists, seen>>
job     == <<kind, cutoff, status, cancelReq, work>>
vars    == <<server, archive, draft, req, job, purged>>

Kinds    == {"purge", "purge-direct", "pec-sync", "clear"}
NoDraft  == [on |-> FALSE, rows |-> {}, epoch |-> 1, exists |-> 0, base |-> 0]
NoRequest == [op |-> "none"]
Ongoing  == {j \in Jobs : status[j] \in {"queued", "running"}}

Row(m, f) == [uid |-> uid[m], msg |-> m, full |-> f]
UidsOf(rows) == {r.uid : r \in rows}
Visible(v) == copy[v] \ binned[v]
\* The first Batch of a list of UIDs, which the server gives in ascending order.
NextBatch(uids) == {u \in uids : Cardinality({w \in uids : w < u}) < Batch}

Init ==
    /\ arrived = First /\ box = 1..First /\ marked = {}
    /\ epoch = 1 /\ uid = [m \in Messages |-> m]
    /\ published = 1 /\ kept = {1} /\ active = 1 /\ protected = {}
    /\ copy = [v \in Versions |-> IF v = 1 THEN {Row(m, TRUE) : m \in box} ELSE {}]
    /\ binned = [v \in Versions |-> {}]
    /\ validity = [v \in Versions |-> 1]
    /\ remote = [v \in Versions |-> IF v = 1 THEN First ELSE 0]
    /\ count = remote /\ total = remote
    /\ draft = NoDraft
    /\ req = [q \in Requests |-> NoRequest]
    /\ kind = [j \in Jobs |-> "clear"] /\ cutoff = {}
    /\ status = [j \in Jobs |-> "none"] /\ cancelReq = {}
    /\ pc = [j \in Jobs |-> "none"]
    /\ ver = [j \in Jobs |-> 0]
    /\ todo = [j \in Jobs |-> {}]
    /\ exists = [j \in Jobs |-> 0] /\ seen = [j \in Jobs |-> 0]
    /\ purged = {}

-----------------------------------------------------------------------------
(***************************************************************************)
(* The server, and other clients of the mailbox.                           *)
(***************************************************************************)
\* A purge keeps one session and fails with it.  A refresh that loses its session
\* opens another, selects the folder and asks for the UIDs it had (_fetch_batch).
Connected == {j \in Jobs : pc[j] = "delete"}

Arrive ==
    /\ arrived < MaxMessages
    /\ arrived' = arrived + 1
    /\ box' = box \cup {arrived + 1}
    /\ UNCHANGED <<marked, epoch, uid, archive, draft, req, job, purged>>

Mark(m) ==
    /\ "marks" \in Windows /\ m \in box \ marked
    /\ marked' = marked \cup {m}
    /\ UNCHANGED <<arrived, box, epoch, uid, archive, draft, req, job, purged>>

OtherExpunges ==
    /\ marked # {}
    /\ box' = box \ marked /\ marked' = {}
    /\ UNCHANGED <<arrived, epoch, uid, archive, draft, req, job, purged>>

\* The server builds its index anew.  The sessions that are open break.
Renumber ==
    /\ {"renumber", "reuse"} \cap Windows # {}
    /\ epoch < MaxEpochs /\ Connected = {}
    /\ epoch' = epoch + 1
    /\ LET present(m) == m \in box \/ m > arrived
           rank(m) == Cardinality({k \in 1..m : present(k)})
       IN uid' = [m \in Messages |-> IF "reuse" \in Windows /\ present(m)
                                     THEN rank(m) ELSE epoch * MaxMessages + m]
    /\ UNCHANGED <<arrived, box, marked, archive, draft, req, job, purged>>

(***************************************************************************)
(* Backups.                                                                *)
(***************************************************************************)
BackupDownload ==
    /\ ~draft.on /\ published < MaxVersions
    /\ Ongoing = {} \/ "backup" \in Windows
    /\ \E got \in IF "refuse" \in Windows THEN SUBSET box ELSE {box} :
       \E stubs \in IF "salvage" \in Windows THEN SUBSET got ELSE {{}} :
           draft' = [on |-> TRUE, rows |-> {Row(m, m \notin stubs) : m \in got}, epoch |-> epoch,
                     exists |-> Cardinality(box), base |-> active]
    /\ UNCHANGED <<server, archive, req, job, purged>>

\* _snapshot_comparison: the threshold is one message in five.
Suspicious(previous, now) == previous > now /\ 5 * (previous - now) > previous

\* rotate_versions, if the account keeps one version.
Rotated(v, safe, all) == IF "rotation" \in Windows THEN all \cap (safe \cup {v}) ELSE all

\* The folder's counter is the length of the listing, refused messages included.
BackupPublish ==
    /\ draft.on
    /\ LET v == published + 1
           n == Cardinality(draft.rows)
       IN /\ published' = v /\ active' = v
          /\ protected' = protected \cup {w \in kept : w = draft.base /\ Suspicious(total[w], n)}
          /\ kept' = Rotated(v, protected', kept \cup {v})
          /\ copy' = [copy EXCEPT ![v] = draft.rows]
          /\ validity' = [validity EXCEPT ![v] = draft.epoch]
          /\ remote' = [remote EXCEPT ![v] = draft.exists]
          /\ count' = [count EXCEPT ![v] = draft.exists]
          /\ total' = [total EXCEPT ![v] = n]
    /\ draft' = NoDraft
    /\ UNCHANGED <<binned, server, req, job, purged>>

(***************************************************************************)
(* The owner's trash, for the messages of the active version.  A request   *)
(* reads the message with the version's and the folder's counters, and     *)
(* commits later what it makes of them.                                    *)
(***************************************************************************)
\* A refresh that has counted rows and not yet committed the number.
Counting == {j \in Jobs : pc[j] \in {"counted", "totalled"}}

Read(q, o, r) ==
    /\ req[q] = NoRequest /\ active # 0
    /\ (Counting = {} /\ \A p \in Requests : req[p] = NoRequest) \/ "requests" \in Windows
    /\ req' = [req EXCEPT ![q] = [op |-> o, row |-> r, ver |-> active,
                                 count |-> count[active], total |-> total[active]]]
    /\ UNCHANGED <<server, archive, draft, job, purged>>

ReadToTrash(q, r)   == active # 0 /\ r \in Visible(active) /\ Read(q, "trash", r)
ReadToRestore(q, r) == active # 0 /\ r \in binned[active] /\ Read(q, "restore", r)

\* The request commits what it makes of what it has read, and is over.  If the
\* rows it has read are gone, it has failed.
Commit(q, rows, n, t) ==
    /\ req' = [req EXCEPT ![q] = NoRequest]
    /\ LET v == req[q].ver
       IN IF v \notin kept THEN UNCHANGED <<binned, count, total>>
          ELSE /\ binned' = [binned EXCEPT ![v] = rows]
               /\ count' = [count EXCEPT ![v] = n]
               /\ total' = [total EXCEPT ![v] = t]
    /\ UNCHANGED <<published, kept, active, protected, copy, validity, remote, server, draft, job,
                   purged>>

\* Mutation: the counter is not kept from going below zero.
LowerAlways(n) == n - 1

\* _adjust_archive_counts
Lower(n) == IF n > 0 THEN n - 1 ELSE 0

\* move_message_to_trash
Trash(q) ==
    /\ req[q].op = "trash"
    /\ Commit(q, binned[req[q].ver] \cup {req[q].row}, Lower(req[q].count), Lower(req[q].total))

\* restore_message
Restore(q) ==
    /\ req[q].op = "restore"
    /\ Commit(q, binned[req[q].ver] \ {req[q].row}, req[q].count + 1, req[q].total + 1)

(***************************************************************************)
(* The registry of maintenance jobs (app/main.py).                         *)
(***************************************************************************)
\* Only a folder archived in full may be emptied.
Complete(v) == count[v] >= remote[v]
Dated(rows, cut) == {r \in rows : cut => r.msg \in Old}

\* What the routes ask for before a job exists.
Admitted(k, cut) ==
    CASE k = "purge"    -> /\ active # 0 /\ Complete(active)
                           /\ cut => Dated(Visible(active), TRUE) # {}
      [] k = "pec-sync" -> active # 0
      [] OTHER          -> TRUE

FirstStep(k) == CASE k = "purge"        -> "cover"
                  [] k = "purge-direct" -> "open"
                  [] k = "pec-sync"     -> "look"
                  [] k = "clear"        -> "drop"

Enter(j, k, cut) ==
    /\ kind' = [kind EXCEPT ![j] = k]
    /\ cut => k \in {"purge", "purge-direct"}
    /\ cutoff' = IF cut THEN cutoff \cup {j} ELSE cutoff
    /\ status' = [status EXCEPT ![j] = "queued"]
    /\ UNCHANGED <<cancelReq, work, server, archive, draft, req, purged>>

\* Mutation: the registry is not asked for a job of the account.
StartRegardless(j, k, cut) ==
    /\ status[j] = "none" /\ \A i \in Jobs : i < j => status[i] # "none"
    /\ ~draft.on
    /\ Admitted(k, cut)
    /\ Enter(j, k, cut)

\* _start_maintenance_job.  A request that finds a job of the account, of
\* whatever kind, is answered with that job: no step.
Start(j, k, cut) ==
    /\ status[j] = "none" /\ \A i \in Jobs : i < j => status[i] # "none"
    /\ ~draft.on
    /\ Ongoing = {}
    /\ Admitted(k, cut)
    /\ Enter(j, k, cut)

\* The other kinds do not look at it.
Cancel(j) ==
    /\ j \in Ongoing /\ kind[j] \in {"purge", "purge-direct"}
    /\ cancelReq' = cancelReq \cup {j}
    /\ UNCHANGED <<kind, cutoff, status, work, server, archive, draft, req, purged>>

Run(j) ==
    /\ status[j] = "queued"
    /\ status' = [status EXCEPT ![j] = "running"]
    /\ pc' = [pc EXCEPT ![j] = FirstStep(kind[j])]
    /\ UNCHANGED <<kind, cutoff, cancelReq, ver, todo, exists, seen>>
    /\ UNCHANGED <<server, archive, draft, req, purged>>

\* The job ends; what it held and was asked is of no use afterwards.
End(j, s) ==
    /\ status' = [status EXCEPT ![j] = s]
    /\ kind' = [kind EXCEPT ![j] = "clear"]
    /\ cutoff' = cutoff \ {j} /\ cancelReq' = cancelReq \ {j}
    /\ pc' = [pc EXCEPT ![j] = "none"]
    /\ ver' = [ver EXCEPT ![j] = 0]
    /\ todo' = [todo EXCEPT ![j] = {}]
    /\ exists' = [exists EXCEPT ![j] = 0]
    /\ seen' = [seen EXCEPT ![j] = 0]

Goto(j, place) ==
    /\ pc' = [pc EXCEPT ![j] = place]
    /\ UNCHANGED <<kind, cutoff, status, cancelReq>>

\* An error anywhere in the thread: it is noted and the job has failed.
Fails(j) ==
    /\ "fail" \in Windows
    /\ pc[j] # "none"
    /\ End(j, "failed")
    /\ UNCHANGED <<server, archive, draft, req, purged>>

(***************************************************************************)
(* purge_folder and purge_folder_direct.                                   *)
(***************************************************************************)
\* The coverage is checked and the archived UIDs are read, once.
Cover(j) ==
    /\ pc[j] = "cover"
    /\ IF active = 0 \/ ~Complete(active) \/ Visible(active) = {}
       THEN End(j, "failed")
       ELSE /\ todo' = [todo EXCEPT ![j] = UidsOf(Dated(Visible(active), j \in cutoff))]
            /\ Goto(j, "open")
            /\ UNCHANGED <<ver, exists, seen>>
    /\ UNCHANGED <<server, archive, draft, req, purged>>

\* What is on the server and, for a purge that relies on the archive, in it.
Targets(j) ==
    LET there == {uid[m] : m \in box}
    IN IF kind[j] = "purge" THEN there \cap todo[j]
       ELSE IF j \in cutoff THEN {uid[m] : m \in box \cap Old}
       ELSE there

Open(j) ==
    /\ pc[j] = "open"
    /\ IF Targets(j) = {}
       THEN End(j, "completed")
       ELSE /\ todo' = [todo EXCEPT ![j] = Targets(j)]
            /\ Goto(j, "delete")
            /\ UNCHANGED <<ver, exists, seen>>
    /\ UNCHANGED <<server, archive, draft, req, purged>>

Named(uids) == {m \in box : uid[m] \in uids}

\* delete_uids: with UIDPLUS exactly these are expunged, else all marked ones.
Delete(j) ==
    /\ pc[j] = "delete" /\ j \notin cancelReq
    /\ LET batch == NextBatch(todo[j])
           out   == Named(batch) \cup (IF "expunge" \in Windows THEN marked ELSE {})
       IN /\ box' = box \ out /\ marked' = marked \ out
          /\ purged' = IF kind[j] = "purge" THEN purged \cup out ELSE purged
          /\ IF todo[j] = batch
             THEN End(j, "completed")
             ELSE /\ todo' = [todo EXCEPT ![j] = @ \ batch]
                  /\ UNCHANGED <<kind, cutoff, status, cancelReq, pc, ver, exists, seen>>
    /\ UNCHANGED <<arrived, epoch, uid, archive, draft, req>>

\* The session breaks when a batch has been marked and not yet expunged.
DeleteBreaks(j) ==
    /\ "fail" \in Windows
    /\ pc[j] = "delete" /\ j \notin cancelReq
    /\ marked' = marked \cup Named(NextBatch(todo[j]))
    /\ End(j, "failed")
    /\ UNCHANGED <<arrived, box, epoch, uid, archive, draft, req, purged>>

\* The question before each batch.
StopDeleting(j) ==
    /\ pc[j] = "delete" /\ j \in cancelReq
    /\ End(j, "completed")
    /\ UNCHANGED <<server, archive, draft, req, purged>>

(***************************************************************************)
(* sync_new_messages.                                                      *)
(***************************************************************************)
Look(j) ==
    /\ pc[j] = "look"
    /\ IF active = 0
       THEN End(j, "failed")
       ELSE /\ ver' = [ver EXCEPT ![j] = active]
            /\ Goto(j, "select")
            /\ UNCHANGED <<todo, exists, seen>>
    /\ UNCHANGED <<server, archive, draft, req, purged>>

Known(v) == UidsOf(copy[v])
SameNumbering(v) == validity[v] = epoch

\* A folder with another UIDVALIDITY is passed over: only the total is counted.
\* Rows cannot be added to a version that has been removed.
Select(j) ==
    /\ pc[j] = "select"
    /\ LET fresh == {uid[m] : m \in box} \ Known(ver[j])
       IN IF ver[j] \notin kept THEN End(j, "failed")
          ELSE IF ~SameNumbering(ver[j])
          THEN Goto(j, "total") /\ UNCHANGED <<ver, todo, exists, seen>>
          ELSE /\ todo' = [todo EXCEPT ![j] = fresh]
               /\ exists' = [exists EXCEPT ![j] = Cardinality(box)]
               /\ Goto(j, IF fresh = {} THEN "count" ELSE "fetch")
               /\ UNCHANGED <<ver, seen>>
    /\ UNCHANGED <<server, archive, draft, req, purged>>

\* A batch is fetched, stored and committed; what the server refuses, or no longer
\* has under its UID, is left out.
\* A folder has a UID once (uq_message_folder_uid).
Fetch(j) ==
    /\ pc[j] = "fetch"
    /\ LET batch == NextBatch(todo[j])
       IN \E got \in IF "refuse" \in Windows THEN SUBSET Named(batch) ELSE {Named(batch)} :
          IF ver[j] \notin kept \/ batch \cap Known(ver[j]) # {}
          THEN End(j, "failed") /\ UNCHANGED copy
          ELSE /\ copy' = [copy EXCEPT ![ver[j]] = @ \cup {Row(m, TRUE) : m \in got}]
               /\ todo' = [todo EXCEPT ![j] = @ \ batch]
               /\ Goto(j, IF todo[j] = batch THEN "count" ELSE "fetch")
               /\ UNCHANGED <<ver, exists, seen>>
    /\ UNCHANGED <<published, kept, active, protected, binned, validity, remote, count, total,
                   server, draft, req, purged>>

\* Mutation: trashed messages are counted.
CountedAll(v) == Cardinality(copy[v])

Counted(v) == Cardinality(Visible(v))

\* The rows are counted for the folder, then for the version; each count is
\* committed afterwards.
CountRows(j, place, next) ==
    /\ pc[j] = place
    /\ (\A q \in Requests : req[q] = NoRequest) \/ "requests" \in Windows
    /\ seen' = [seen EXCEPT ![j] = Counted(ver[j])]
    /\ Goto(j, next)
    /\ UNCHANGED <<ver, todo, exists, server, archive, draft, req, purged>>

CountFolder(j) == CountRows(j, "count", "counted")
CountTotal(j)  == CountRows(j, "total", "totalled")

WriteFolder(j) ==
    /\ pc[j] = "counted"
    /\ IF ver[j] \notin kept
       THEN End(j, "failed") /\ UNCHANGED <<count, remote>>
       ELSE /\ count' = [count EXCEPT ![ver[j]] = seen[j]]
            /\ remote' = [remote EXCEPT ![ver[j]] = exists[j]]
            /\ Goto(j, "total")
            /\ UNCHANGED <<ver, todo, exists, seen>>
    /\ UNCHANGED <<published, kept, active, protected, copy, binned, validity, total,
                   server, draft, req, purged>>

WriteTotal(j) ==
    /\ pc[j] = "totalled"
    /\ IF ver[j] \notin kept
       THEN End(j, "failed") /\ UNCHANGED total
       ELSE /\ total' = [total EXCEPT ![ver[j]] = seen[j]]
            /\ End(j, "completed")
    /\ UNCHANGED <<published, kept, active, protected, copy, binned, validity, remote, count,
                   server, draft, req, purged>>

(***************************************************************************)
(* clear_account_archive.  A running backup loses its row with the others. *)
(* The owner gives up the copies.                                          *)
(***************************************************************************)
Drop(j) ==
    /\ pc[j] = "drop"
    /\ kept' = {} /\ active' = 0 /\ protected' = {}
    /\ copy' = [v \in Versions |-> {}] /\ binned' = [v \in Versions |-> {}]
    /\ draft' = NoDraft
    /\ purged' = {}
    /\ End(j, "completed")
    /\ UNCHANGED <<published, validity, remote, count, total, req, server>>

Work(j) == \/ Run(j) \/ Cover(j) \/ Open(j) \/ Delete(j) \/ DeleteBreaks(j) \/ StopDeleting(j)
           \/ Look(j) \/ Select(j) \/ Fetch(j) \/ CountFolder(j) \/ WriteFolder(j)
           \/ CountTotal(j) \/ WriteTotal(j) \/ Drop(j)

Outside == \/ Arrive \/ OtherExpunges \/ Renumber
           \/ \E m \in Messages : Mark(m)
           \/ BackupDownload \/ BackupPublish
           \/ \E q \in Requests : \/ \E r \in UNION {copy[v] : v \in Versions} :
                                       ReadToTrash(q, r) \/ ReadToRestore(q, r)
                                 \/ Trash(q) \/ Restore(q)
           \/ \E j \in Jobs : Cancel(j) \/ Fails(j)
                            \/ \E k \in Kinds, cut \in BOOLEAN : Start(j, k, cut)

Next == Outside \/ \E j \in Jobs : Work(j)

Spec == Init /\ [][Next]_vars

(***************************************************************************)
(* Properties                                                              *)
(***************************************************************************)

\* Every variable keeps its type.
Rows == [uid : Uids, msg : Messages, full : BOOLEAN]
Places == {"none", "cover", "open", "delete", "look", "select", "fetch", "count", "counted",
           "total", "totalled", "drop"}
Requested == [op : {"trash", "restore"}, row : Rows, ver : Versions, count : Nat, total : Nat]
TypeOK ==
    /\ arrived \in First..MaxMessages /\ box \subseteq 1..arrived /\ marked \subseteq box
    /\ epoch \in Epochs /\ uid \in [Messages -> Uids]
    /\ published \in Versions /\ kept \subseteq 1..published /\ active \in kept \cup {0}
    /\ protected \subseteq Versions
    /\ copy \in [Versions -> SUBSET Rows] /\ \A v \in Versions : binned[v] \subseteq copy[v]
    /\ validity \in [Versions -> Epochs]
    /\ remote \in [Versions -> 0..MaxMessages] /\ {count, total} \subseteq [Versions -> Nat]
    /\ req \in [Requests -> {NoRequest} \cup Requested]
    /\ draft.rows \subseteq Rows /\ draft.base \in {0} \cup Versions
    /\ kind \in [Jobs -> Kinds] /\ cutoff \subseteq Jobs /\ cancelReq \subseteq Jobs
    /\ status \in [Jobs -> {"none", "queued", "running", "completed", "failed"}]
    /\ pc \in [Jobs -> Places]
    /\ ver \in [Jobs -> {0} \cup Versions]
    /\ todo \in [Jobs -> SUBSET Uids] /\ exists \in [Jobs -> 0..MaxMessages]
    /\ seen \in [Jobs -> Nat]
    /\ purged \subseteq Messages

\* What a purge removes from the server because the archive holds it, a version
\* that has not been removed holds in full: whatever arrives, is renumbered, is
\* trashed or backed up in the meantime (mailbox_purge.py:191).
PurgedIsKept ==
    \A m \in purged : \E v \in kept : \E r \in copy[v] : r.msg = m /\ r.full

\* A version never claims more messages than it shows, each counted once: refreshes
\* that fail or meet a new numbering, trash and refused messages all move rows and
\* counters (the number decides whether the version after it is suspicious).
ClaimsAreHeld == \A v \in kept : total[v] <= Cardinality({r.msg : r \in Visible(v)})

\* A folder that passes for archived in full holds as many messages as the
\* server declared (mailbox_purge.py:174).
CompleteIsHeld == \A v \in kept : Complete(v) => Cardinality(copy[v]) >= remote[v]

=============================================================================
