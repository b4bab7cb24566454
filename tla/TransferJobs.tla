---------------------------- MODULE TransferJobs ----------------------------
(***************************************************************************)
(* Restores of an archived version into a mailbox (app/imap_transfer.py    *)
(* and its routes in app/main.py): the persisted rows, the manager with    *)
(* its set of submitted jobs, the pool's workers, the requests that create *)
(* and cancel, the restart.  The jobs restore the same version into the    *)
(* same mailbox, with skip_duplicates, within one month, for a user with a *)
(* limit; all messages carry a Message-ID.                                 *)
(*                                                                         *)
(* `Windows` names the races and faults the environment may produce:       *)
(*   "quota"     two requests pass the quota check before either inserts   *)
(*   "cancel"    the row changes between cancel's read and its commit      *)
(*   "pick"      it is cancelled between a worker's read and its commit    *)
(*   "callback"  a worker ends before its done-callback is registered      *)
(*   "connect"   the destination or one of its folders cannot be opened    *)
(*   "deliver"   the destination refuses or times out before it stores     *)
(*   "lost"      it stores a message and the answer is lost                *)
(*   "reconnect" it cannot be reached again after a failed delivery        *)
(*   "search"    it does not answer the search for duplicates              *)
(*   "archive"   the file of a message is missing                          *)
(*   "database"  a commit of the worker is refused                         *)
(*   "notify"    an error after the end of the run has been committed      *)
(***************************************************************************)
EXTENDS Naturals, FiniteSets, Sequences, FiniteSetsExt

CONSTANTS MaxJobs,     \* bound: job rows ever created
          Messages,    \* the messages of the version, in the order of delivery
          Workers,     \* imap_transfer_concurrency
          Attempts,    \* DELIVER_ATTEMPTS (3 in the code)
          QuotaLimit,  \* standard_imap_transfer_limit
          MaxCrashes,  \* bound: crashes of the process
          Windows      \* the races and faults explored, see above

AllWindows == {"quota", "cancel", "pick", "callback", "connect", "deliver", "lost", "reconnect",
               "search", "archive", "database", "notify"}

ASSUME TransferAssumption ==
    /\ {MaxJobs, Workers, Attempts} \subseteq Nat \ {0}
    /\ {QuotaLimit, MaxCrashes} \subseteq Nat
    /\ Messages \subseteq Nat /\ Messages # {} /\ IsFiniteSet(Messages)
    /\ Windows \subseteq AllWindows

Jobs == 1..MaxJobs

VARIABLES
    status,      \* imap_transfer_jobs.status, or "none" before the row exists
    cancelReq,   \* rows with cancel_requested = TRUE
    started,     \* rows with started_at
    charged,     \* rows with the quota_period of this month
    secrets,     \* rows with encrypted_password
    pc,          \* where the thread that executes the job is
    todo,        \* the messages it has still to deliver, the current one included
    attempt,     \* of the current message
    failed,      \* the messages counted in failed_messages
    pool,        \* the executor's queue of jobs no thread has taken yet
    submitted,   \* IMAPTransferManager._submitted
    registered,  \* futures whose done-callback has been registered
    lock,        \* 0, or the job whose submit() holds the manager's lock
    dispatch,    \* submit() calls that have not got the lock yet
    passed,      \* requests between their quota check and their insert
    canceller,   \* a cancel request between its read and its commit: [job, seen]
    delivered,   \* messages in the destination mailbox
    duplicated,  \* those in it twice
    up,          \* the server process runs
    crashes      \* crashes so far

row     == <<status, cancelReq, started, charged, secrets>>
worker  == <<pc, todo, attempt, failed>>
manager == <<pool, submitted, registered, lock, dispatch>>
request == <<passed, canceller>>
mailbox == <<delivered, duplicated>>
process == <<up, crashes>>
vars == <<row, worker, manager, request, mailbox, process>>

Active   == {"queued", "running", "cancelling"}
Terminal == {"completed", "failed", "cancelled"}
NoCancel == [job |-> 0, seen |-> "none"]

Goto(j, l) == pc' = [pc EXCEPT ![j] = l]
SetStatus(j, s) == status' = [status EXCEPT ![j] = s]
Queued == {j \in Jobs : status[j] = "queued"}
\* Threads of the pool are taken from the first look at the row to the end of the callback.
Working == {j \in Jobs : pc[j] \notin {"none", "pooled"}}

Init ==
    /\ status = [j \in Jobs |-> "none"]
    /\ cancelReq = {} /\ started = {} /\ charged = {} /\ secrets = {}
    /\ pc = [j \in Jobs |-> "none"]
    /\ todo = [j \in Jobs |-> {}]
    /\ attempt = [j \in Jobs |-> 1]
    /\ failed = [j \in Jobs |-> {}]
    /\ pool = <<>> /\ submitted = {} /\ registered = {} /\ lock = 0 /\ dispatch = {}
    /\ passed = {} /\ canceller = NoCancel
    /\ delivered = {} /\ duplicated = {}
    /\ up = TRUE /\ crashes = 0

(***************************************************************************)
(* Requests.                                                               *)
(***************************************************************************)
\* create_transfer: the quota is counted, then the destination is tried out,
\* which takes seconds, and only then the row is inserted.
CheckQuota(j) ==
    /\ up /\ status[j] = "none" /\ j \notin passed
    /\ \A k \in Jobs : k < j => status[k] # "none" \/ k \in passed
    /\ passed = {} \/ "quota" \in Windows
    /\ Cardinality(charged) < QuotaLimit
    /\ passed' = passed \cup {j}
    /\ UNCHANGED <<row, worker, manager, canceller, mailbox, process>>

\* The test of the destination fails.
Refuse(j) ==
    /\ up /\ j \in passed /\ "connect" \in Windows
    /\ passed' = passed \ {j}
    /\ UNCHANGED <<row, worker, manager, canceller, mailbox, process>>

Create(j) ==
    /\ up /\ j \in passed
    /\ \A k \in Jobs : k < j => status[k] # "none"
    /\ passed' = passed \ {j}
    /\ SetStatus(j, "queued")
    /\ charged' = charged \cup {j}
    /\ secrets' = secrets \cup {j}
    /\ dispatch' = dispatch \cup {j}
    /\ UNCHANGED <<cancelReq, started, worker, pool, submitted, registered, lock, canceller,
                   mailbox, process>>

\* A row that is cancelling already is left as it is.  A job is queued until its
\* worker has reached the destination, which may take long.
CancelRead(j) ==
    /\ up /\ canceller = NoCancel
    /\ status[j] \in {"queued", "running"}
    /\ status[j] = "queued" => pc[j] \in {"none", "pooled"} \/ "pick" \in Windows
    /\ canceller' = [job |-> j, seen |-> status[j]]
    /\ UNCHANGED <<row, worker, manager, passed, mailbox, process>>

\* cancel_transfer writes by the status it has read.
WriteCancel(j, seen) ==
    /\ cancelReq' = cancelReq \cup {j}
    /\ IF seen = "queued"
       THEN /\ SetStatus(j, "cancelled")
            /\ secrets' = secrets \ {j}
            /\ charged' = charged \ {j}
       ELSE SetStatus(j, "cancelling") /\ UNCHANGED <<secrets, charged>>

CancelCommit(j) ==
    /\ up /\ canceller.job = j
    /\ WriteCancel(j, canceller.seen)
    /\ canceller' = NoCancel
    /\ UNCHANGED <<started, worker, manager, passed, mailbox, process>>

\* Outside the "cancel" window nothing happens between the two halves.
Quiet == canceller = NoCancel \/ "cancel" \in Windows

(***************************************************************************)
(* IMAPTransferManager.                                                    *)
(***************************************************************************)
\* submit(): the future exists before its callback is registered
Submit(j) ==
    /\ up /\ Quiet /\ lock = 0 /\ j \in dispatch
    /\ dispatch' = dispatch \ {j}
    /\ IF j \in submitted
       THEN UNCHANGED <<submitted, registered, pool, pc, lock>>
       ELSE /\ submitted' = submitted \cup {j}
            /\ pool' = Append(pool, j)
            /\ Goto(j, "pooled")
            /\ IF "callback" \in Windows
               THEN lock' = j /\ UNCHANGED registered
               ELSE registered' = registered \cup {j} /\ UNCHANGED lock
    /\ UNCHANGED <<row, todo, attempt, failed, request, mailbox, process>>

\* add_done_callback on a future that is not done.  On one that is, it calls
\* _done at once, which waits for the lock its own thread holds: no step.
Register(j) ==
    /\ up /\ Quiet /\ lock = j /\ pc[j] # "done"
    /\ registered' = registered \cup {j}
    /\ lock' = 0
    /\ UNCHANGED <<row, worker, pool, submitted, dispatch, request, mailbox, process>>

\* _done and dispatch_queued
Done(j) ==
    /\ up /\ Quiet /\ pc[j] = "done" /\ j \in registered /\ lock = 0
    /\ Goto(j, "none")
    /\ submitted' = submitted \ {j}
    /\ registered' = registered \ {j}
    /\ dispatch' = dispatch \cup Queued
    /\ UNCHANGED <<row, todo, attempt, failed, pool, lock, request, mailbox, process>>

(***************************************************************************)
(* run_transfer.                                                           *)
(***************************************************************************)
\* A thread of the pool takes the next job and looks at its row.
Begin(j) ==
    /\ up /\ Quiet /\ pool # <<>> /\ j = Head(pool)
    /\ Cardinality(Working) < Workers
    /\ pool' = Tail(pool)
    /\ Goto(j, IF status[j] # "queued" THEN "done"
               ELSE IF j \in cancelReq THEN "ending" ELSE "connect")
    /\ UNCHANGED <<row, todo, attempt, failed, submitted, registered, lock, dispatch, request,
                   mailbox, process>>

At(j, l) == up /\ Quiet /\ pc[j] = l

\* The counters start anew, also in a job that a restart has put back.
Connect(j) ==
    /\ At(j, "connect")
    /\ SetStatus(j, "running")
    /\ started' = started \cup {j}
    /\ todo' = [todo EXCEPT ![j] = Messages]
    /\ attempt' = [attempt EXCEPT ![j] = 1]
    /\ failed' = [failed EXCEPT ![j] = {}]
    /\ Goto(j, "check")
    /\ UNCHANGED <<cancelReq, charged, secrets, manager, request, mailbox, process>>

ConnectFails(j) ==
    /\ "connect" \in Windows
    /\ At(j, "connect") \/ At(j, "check")
    /\ Goto(j, "failing")
    /\ UNCHANGED <<row, todo, attempt, failed, manager, request, mailbox, process>>

\* _cancel_if_requested, before each message
Check(j) ==
    /\ At(j, "check")
    /\ IF j \in cancelReq
       THEN SetStatus(j, "cancelling") /\ Goto(j, "ending")
       ELSE Goto(j, "search") /\ UNCHANGED status
    /\ UNCHANGED <<cancelReq, started, charged, secrets, todo, attempt, failed, manager, request,
                   mailbox, process>>

Message(j) == Min(todo[j])

\* On to the next message; m is counted as failed or not.
Proceed(j, undelivered) ==
    /\ todo' = [todo EXCEPT ![j] = @ \ {Message(j)}]
    /\ attempt' = [attempt EXCEPT ![j] = 1]
    /\ failed' = [failed EXCEPT ![j] = @ \cup undelivered]
    /\ Goto(j, IF todo[j] = {Message(j)} THEN "finish" ELSE "check")

\* Mutation: duplicates are not looked for.
SearchNever(j) ==
    /\ At(j, "search")
    /\ \/ "archive" \in Windows /\ Proceed(j, {Message(j)})
       \/ Goto(j, "deliver") /\ UNCHANGED <<todo, attempt, failed>>
    /\ UNCHANGED <<row, manager, request, mailbox, process>>

\* _deliver_one: the file is missing, or the destination has the message
\* already, or it is delivered.  An unanswered question counts as no.
Search(j) ==
    /\ At(j, "search")
    /\ \/ "archive" \in Windows /\ Proceed(j, {Message(j)})
       \/ Message(j) \in delivered /\ Proceed(j, {})
       \/ /\ Message(j) \notin delivered \/ "search" \in Windows
          /\ Goto(j, "deliver")
          /\ UNCHANGED <<todo, attempt, failed>>
    /\ UNCHANGED <<row, manager, request, mailbox, process>>

Arrives(m) ==
    /\ delivered' = delivered \cup {m}
    /\ duplicated' = duplicated \cup ({m} \cap delivered)

Deliver(j) ==
    /\ At(j, "deliver")
    /\ Arrives(Message(j))
    /\ Proceed(j, {})
    /\ UNCHANGED <<row, manager, request, process>>

\* Mutation: one attempt too many.
DeliverFailsOnceMore(j) ==
    /\ At(j, "deliver")
    /\ \/ "deliver" \in Windows /\ UNCHANGED mailbox
       \/ "lost" \in Windows /\ Arrives(Message(j))
    /\ IF attempt[j] <= Attempts
       THEN Goto(j, "reconnect") /\ UNCHANGED <<todo, attempt, failed>>
       ELSE Proceed(j, {Message(j)})
    /\ UNCHANGED <<row, manager, request, process>>

\* An error of the destination, whether or not it has stored the message.
DeliverFails(j) ==
    /\ At(j, "deliver")
    /\ \/ "deliver" \in Windows /\ UNCHANGED mailbox
       \/ "lost" \in Windows /\ Arrives(Message(j))
    /\ IF attempt[j] < Attempts
       THEN Goto(j, "reconnect") /\ UNCHANGED <<todo, attempt, failed>>
       ELSE Proceed(j, {Message(j)})
    /\ UNCHANGED <<row, manager, request, process>>

Reconnect(j) ==
    /\ At(j, "reconnect")
    /\ \/ /\ attempt' = [attempt EXCEPT ![j] = @ + 1]
          /\ Goto(j, "deliver")
          /\ UNCHANGED <<todo, failed>>
       \/ "reconnect" \in Windows /\ Proceed(j, {Message(j)})
    /\ UNCHANGED <<row, manager, request, mailbox, process>>

\* The end in the row: status, and the temporary password erased.
End(j, s, l) ==
    /\ SetStatus(j, s)
    /\ secrets' = secrets \ {j}
    /\ Goto(j, l)

Finish(j) ==
    /\ At(j, "finish")
    /\ End(j, "completed", "report")
    /\ UNCHANGED <<cancelReq, started, charged, todo, attempt, failed, manager, request, mailbox,
                   process>>

\* notify_transfer; an error there is taken for one of the transfer.
Report(j) ==
    /\ At(j, "report")
    /\ \/ Goto(j, "done")
       \/ "notify" \in Windows /\ Goto(j, "failing")
    /\ UNCHANGED <<row, todo, attempt, failed, manager, request, mailbox, process>>

\* The handlers of TransferCancelled and of every other error.
Cancelled(j) ==
    /\ At(j, "ending")
    /\ End(j, "cancelled", "done")
    /\ charged' = IF j \in started THEN charged ELSE charged \ {j}
    /\ UNCHANGED <<cancelReq, started, todo, attempt, failed, manager, request, mailbox, process>>

Fail(j) ==
    /\ At(j, "failing")
    /\ End(j, "failed", "done")
    /\ UNCHANGED <<cancelReq, started, charged, todo, attempt, failed, manager, request, mailbox,
                   process>>

\* A commit is refused: of a status, of a folder's name or of the progress after ten
\* messages.  The handlers commit again on the same session, which needs a rollback
\* first, so that fails as well and the row stays as it is.
CommitRefused(j) ==
    /\ "database" \in Windows
    /\ \E l \in {"connect", "check", "finish", "ending", "failing"} : At(j, l)
    /\ Goto(j, "done")
    /\ UNCHANGED <<row, todo, attempt, failed, manager, request, mailbox, process>>

(***************************************************************************)
(* A crash, and the next start.                                            *)
(***************************************************************************)
Crash ==
    /\ up /\ crashes < MaxCrashes
    /\ up' = FALSE /\ crashes' = crashes + 1
    /\ pc' = [j \in Jobs |-> "none"]
    /\ todo' = [j \in Jobs |-> {}]
    /\ attempt' = [j \in Jobs |-> 1]
    /\ pool' = <<>> /\ submitted' = {} /\ registered' = {} /\ lock' = 0 /\ dispatch' = {}
    /\ passed' = {} /\ canceller' = NoCancel
    /\ UNCHANGED <<row, failed, mailbox>>

Interrupted == {j \in Jobs : status[j] \in {"running", "cancelling"}}
Recovered(j) ==
    IF status[j] = "cancelling" \/ j \in cancelReq THEN "cancelled" ELSE "queued"

\* Mutations: the password of an interrupted, cancelled job stays; the queue is
\* not taken up again.
RecoverKeepsSecrets ==
    /\ ~up /\ up' = TRUE
    /\ status' = [j \in Jobs |-> IF j \in Interrupted THEN Recovered(j) ELSE status[j]]
    /\ dispatch' = {j \in Jobs : status'[j] = "queued"}
    /\ UNCHANGED <<cancelReq, started, charged, secrets, worker, pool, submitted, registered,
                   lock, request, mailbox, crashes>>

RecoverOnly ==
    /\ ~up /\ up' = TRUE
    /\ status' = [j \in Jobs |-> IF j \in Interrupted THEN Recovered(j) ELSE status[j]]
    /\ secrets' = secrets \ {j \in Interrupted : Recovered(j) = "cancelled"}
    /\ UNCHANGED <<cancelReq, started, charged, worker, manager, request, mailbox, crashes>>

\* recover_interrupted_transfers
Recover ==
    /\ ~up /\ up' = TRUE
    /\ status' = [j \in Jobs |-> IF j \in Interrupted THEN Recovered(j) ELSE status[j]]
    /\ secrets' = secrets \ {j \in Interrupted : Recovered(j) = "cancelled"}
    /\ dispatch' = {j \in Jobs : status'[j] = "queued"}
    /\ UNCHANGED <<cancelReq, started, charged, worker, pool, submitted, registered, lock, request,
                   mailbox, crashes>>

Work(j) == \/ Begin(j) \/ Connect(j) \/ ConnectFails(j) \/ Check(j) \/ Search(j)
           \/ Deliver(j) \/ DeliverFails(j) \/ Reconnect(j)
           \/ Finish(j) \/ Report(j) \/ Cancelled(j) \/ Fail(j) \/ CommitRefused(j)
Manage(j) == Submit(j) \/ Register(j) \/ Done(j)
Ask(j) == CheckQuota(j) \/ Refuse(j) \/ Create(j) \/ CancelRead(j)

\* No thread has work and no request is open.
Rest ==
    /\ up /\ passed = {} /\ dispatch = {} /\ canceller = NoCancel
    /\ \A j \in Jobs : pc[j] = "none" /\ status[j] # "queued"
    /\ UNCHANGED vars

Next == \/ \E j \in Jobs : Ask(j) \/ CancelCommit(j) \/ Manage(j) \/ Work(j)
        \/ Crash \/ Recover \/ Rest

Spec == Init /\ [][Next]_vars

\* Threads run, requests that have begun go on, and the server is started again.
FairSpec ==
    /\ Spec
    /\ WF_vars(Recover)
    /\ \A j \in Jobs : /\ WF_vars(CancelCommit(j)) /\ WF_vars(Work(j))
                       /\ WF_vars(Submit(j)) /\ WF_vars(Register(j)) /\ WF_vars(Done(j))

(***************************************************************************)
(* Properties                                                              *)
(***************************************************************************)

Places == {"none", "pooled", "connect", "check", "search", "deliver", "reconnect", "finish",
           "report", "ending", "failing", "done"}
RowType ==
    /\ status \in [Jobs -> Active \cup Terminal \cup {"none"}]
    /\ cancelReq \subseteq Jobs /\ started \subseteq Jobs /\ charged \subseteq Jobs
    /\ secrets \subseteq Jobs
WorkerType ==
    /\ pc \in [Jobs -> Places]
    /\ todo \in [Jobs -> SUBSET Messages]
    /\ attempt \in [Jobs -> 1..Attempts]
    /\ failed \in [Jobs -> SUBSET Messages]
ManagerType ==
    /\ pool \in Seq(Jobs)
    /\ submitted \subseteq Jobs /\ registered \subseteq submitted /\ dispatch \subseteq Jobs
    /\ lock \in {0} \cup Jobs
OutsideType ==
    /\ passed \subseteq Jobs
    /\ canceller \in [job : {0} \cup Jobs, seen : Active \cup {"none"}]
    /\ delivered \subseteq Messages /\ duplicated \subseteq delivered
    /\ up \in BOOLEAN /\ crashes \in 0..MaxCrashes

\* Every variable keeps its type.
TypeOK == RowType /\ WorkerType /\ ManagerType /\ OutsideType

\* Temporary passwords are erased when a job ends, in whatever way and
\* whatever races with it (models.py:223).
SecretsErased == \A j \in Jobs : status[j] \in Terminal => j \notin secrets

\* A completed job has put every message in the mailbox or counts it as failed, and
\* with skip_duplicates no message arrives twice: not by a second job, not by a job
\* that is run again after a crash (README.md:195).
DeliveredOnce ==
    /\ duplicated = {}
    /\ \A j \in Jobs :
          status[j] = "completed" => Messages \subseteq delivered \cup failed[j]

\* The jobs that have begun are no more than the month's quota, refunds
\* included (README.md:144).
StartedWithinQuota == Cardinality(started) <= QuotaLimit

\* Every queued job ends, after a crash too, and stays as it ended.
TransfersEnd ==
    /\ \A j \in Jobs : status[j] = "queued" ~> status[j] \in Terminal
    /\ [][\A j \in Jobs : status[j] \in Terminal => status'[j] = status[j]]_vars

=============================================================================
