---------------------------- MODULE BackupQueue ----------------------------
(***************************************************************************)
(* BackupManager: the persisted queue of backup jobs (backup_jobs), the    *)
(* in-memory table of futures beside it, and the threads that change both: *)
(* requests and the scheduler that call start(), requests that cancel,     *)
(* workers that execute run_backup, the done-callbacks that refill the     *)
(* pool, the administrator who changes the concurrency, the scheduler's    *)
(* cleanup of stale jobs, a crash and the recovery at the next start.      *)
(*                                                                         *)
(* The manager's lock is not re-entrant; mgr is the critical section that  *)
(* holds it.  Status changes are single commits and do not take the lock.  *)
(* What a run does to the archive is AccountArchive's subject; here it is  *)
(* reduced to where it looks at its job row and where it writes it.        *)
(*                                                                         *)
(* `Windows` names the races and faults the environment may produce:       *)
(*   "callback"   a worker ends before its done-callback is registered     *)
(*   "cancel"     the row changes between cancel's read and its commit     *)
(*   "pick"       the row changes between a worker's read and its commit   *)
(*   "suspended"  the process stands still for the 12 hours after which    *)
(*                the scheduler takes a job for stale                      *)
(*   "database"   a query or commit is refused (disk full, lock timeout)   *)
(*   "notify"     an error after the end of the run has been committed     *)
(***************************************************************************)
EXTENDS Integers, FiniteSets

CONSTANTS Accounts,    \* mailboxes
          MaxJobs,     \* bound: job rows ever created
          MaxLimit,    \* largest backup_concurrency (16 in the code)
          MaxCrashes,  \* bound: crashes of the process
          Windows,     \* the races and faults explored, see above
          NoAccount    \* account of a row that does not exist yet

ASSUME JobsPositive == MaxJobs \in Nat \ {0}
ASSUME LimitPositive == MaxLimit \in Nat \ {0}
ASSUME CrashesBounded == MaxCrashes \in Nat
ASSUME NoAccountIsNone == NoAccount \notin Accounts
ASSUME WindowsKnown ==
  Windows \subseteq {"callback", "cancel", "pick", "suspended", "database", "notify"}

\* Row ids grow with created_at: their order is the queue's order.
Jobs == 1..MaxJobs

VARIABLES
  status,      \* backup_jobs.status, or "none" before the row exists
  account,     \* backup_jobs.account_id
  cancelReq,   \* rows with cancel_requested = TRUE
  work,        \* where the thread that executes the job is
  futures,     \* the keys of BackupManager._futures
  registered,  \* futures whose done-callback has been registered
  mgr,         \* the critical section: [pc, todo]
  canceller,   \* a cancel() between its read and its commit: [job, seen]
  limit,       \* the backup_concurrency setting, clamped
  refreshing,  \* the setting was committed and refresh() has yet to run
  up,          \* the server process runs
  crashes      \* crashes so far

rowVars == <<status, account, cancelReq>>
poolVars == <<work, futures, registered, mgr>>
vars == <<rowVars, poolVars, canceller, limit, refreshing, up, crashes>>

Active == {"queued", "running", "cancelling"}
Terminal == {"completed", "failed", "cancelled"}

FreeMgr == [pc |-> "free", todo |-> {}]
Drain == [pc |-> "draining", todo |-> {}]
NoCancel == [job |-> 0, seen |-> "none"]

\* What _drain_locked looks for.
Eligible(j) == status[j] = "queued" /\ j \notin cancelReq /\ j \notin futures
Waiting == {j \in Jobs : Eligible(j)}

Goto(j, pc) == work' = [work EXCEPT ![j] = pc]
SetStatus(j, s) == status' = [status EXCEPT ![j] = s]

\* Mutation: a job that is being cancelled does not count.
HasActiveNotCancelling(a) ==
  \E j \in Jobs : account[j] = a /\ status[j] \in {"queued", "running"}

HasActive(a) == \E j \in Jobs : account[j] = a /\ status[j] \in Active

\* Mutation: the newest job is taken first.
NewestFirst(j, k) == j > k

\* ORDER BY created_at, id.
Before(j, k) == j < k

-----------------------------------------------------------------------------
(* The critical sections of the manager *)

\* start(): a new row for an account without an active one, then a drain under
\* the same lock.  For an account with one it returns that one, drains nothing.
Start(a) ==
  /\ up /\ mgr.pc = "free"
  /\ ~HasActive(a)
  /\ \E j \in Jobs :
       /\ status[j] = "none"
       /\ \A k \in Jobs : k < j => status[k] # "none"
       /\ SetStatus(j, "queued")
       /\ account' = [account EXCEPT ![j] = a]
  /\ mgr' = Drain
  /\ UNCHANGED <<cancelReq, work, futures, registered, canceller, limit,
                 refreshing, up, crashes>>

\* _drain_locked: the oldest waiting rows, as many as there are free places.
Select ==
  LET available == IF limit > Cardinality(futures)
                   THEN limit - Cardinality(futures) ELSE 0
  IN
  /\ mgr.pc = "draining"
  /\ \E ids \in SUBSET Waiting :
       /\ Cardinality(ids) <= available
       /\ Cardinality(ids) < available => ids = Waiting
       /\ \A j \in ids, k \in Waiting \ ids : Before(j, k)
       /\ mgr' = [pc |-> IF ids = {} THEN "free" ELSE "submitting", todo |-> ids]
  /\ UNCHANGED <<rowVars, work, futures, registered, canceller, limit, refreshing,
                 up, crashes>>

\* The drain's query raises: the lock is released and nothing is submitted.
DrainFails ==
  /\ "database" \in Windows
  /\ mgr.pc = "draining"
  /\ mgr' = FreeMgr
  /\ UNCHANGED <<rowVars, work, futures, registered, canceller, limit, refreshing,
                 up, crashes>>

IsFirst(j) == j \in mgr.todo /\ \A k \in mgr.todo \ {j} : Before(j, k)

After(todo) == [pc |-> IF todo = {} THEN "free" ELSE "submitting", todo |-> todo]

\* _submit_locked: executor.submit, the future recorded; the callback comes next.
Submit(j) ==
  /\ mgr.pc = "submitting" /\ IsFirst(j)
  /\ futures' = futures \cup {j}
  /\ Goto(j, "submitted")
  /\ IF "callback" \in Windows
     THEN /\ mgr' = [pc |-> "registering", todo |-> mgr.todo]
          /\ UNCHANGED registered
     ELSE /\ mgr' = After(mgr.todo \ {j})
          /\ registered' = registered \cup {j}
  /\ UNCHANGED <<rowVars, canceller, limit, refreshing, up, crashes>>

\* add_done_callback on a future that is already done calls back at once, in this
\* thread, and _complete waits for the lock this thread holds.
AddCallback(j) ==
  /\ mgr.pc = "registering" /\ IsFirst(j)
  /\ IF work[j] = "ended"
     THEN mgr' = [pc |-> "stuck", todo |-> mgr.todo] /\ UNCHANGED registered
     ELSE mgr' = After(mgr.todo \ {j}) /\ registered' = registered \cup {j}
  /\ UNCHANGED <<rowVars, work, futures, canceller, limit, refreshing, up, crashes>>

\* Mutation: the callback gives the place back and leaves the pool as it is.
CompleteWithoutDrain(j) ==
  /\ work[j] = "ended" /\ j \in registered /\ mgr.pc = "free"
  /\ futures' = futures \ {j}
  /\ registered' = registered \ {j}
  /\ Goto(j, "none")
  /\ UNCHANGED <<rowVars, mgr, canceller, limit, refreshing, up, crashes>>

\* The done-callback: the place is given back and the pool refilled.
Complete(j) ==
  /\ work[j] = "ended" /\ j \in registered /\ mgr.pc = "free"
  /\ futures' = futures \ {j}
  /\ registered' = registered \ {j}
  /\ Goto(j, "none")
  /\ mgr' = Drain
  /\ UNCHANGED <<rowVars, canceller, limit, refreshing, up, crashes>>

\* Mutation: the lower clamp is missing.
SetLimitUnclamped(n) ==
  /\ up /\ n # limit
  /\ limit' = n - 1
  /\ refreshing' = TRUE
  /\ UNCHANGED <<rowVars, poolVars, canceller, up, crashes>>

\* The administrator saves the settings: a commit, then refresh().
SetLimit(n) ==
  /\ up /\ n # limit
  /\ limit' = n
  /\ refreshing' = TRUE
  /\ UNCHANGED <<rowVars, poolVars, canceller, up, crashes>>

Refresh ==
  /\ refreshing /\ mgr.pc = "free"
  /\ refreshing' = FALSE
  /\ mgr' = Drain
  /\ UNCHANGED <<rowVars, work, futures, registered, canceller, limit, up, crashes>>

-----------------------------------------------------------------------------
(* A worker: run_backup as its job row sees it *)

\* The row is read; unless it waits to be run there is nothing to do.
Skip(j) ==
  /\ work[j] = "submitted" /\ status[j] # "queued"
  /\ Goto(j, "ended")
  /\ UNCHANGED <<rowVars, futures, registered, mgr, canceller, limit, refreshing,
                 up, crashes>>

Pick(j) ==
  /\ work[j] = "submitted" /\ status[j] = "queued"
  /\ SetStatus(j, IF j \in cancelReq THEN "cancelled" ELSE "running")
  /\ Goto(j, IF j \in cancelReq THEN "ended" ELSE "working")
  /\ UNCHANGED <<account, cancelReq, futures, registered, mgr, canceller, limit,
                 refreshing, up, crashes>>

\* The same in two steps, with the account loaded in between.
PickRead(j) ==
  /\ "pick" \in Windows
  /\ work[j] = "submitted" /\ status[j] = "queued" /\ j \notin cancelReq
  /\ Goto(j, "picking")
  /\ UNCHANGED <<rowVars, futures, registered, mgr, canceller, limit, refreshing,
                 up, crashes>>

PickCommit(j) ==
  /\ work[j] = "picking"
  /\ SetStatus(j, "running")
  /\ Goto(j, "working")
  /\ UNCHANGED <<account, cancelReq, futures, registered, mgr, canceller, limit,
                 refreshing, up, crashes>>

\* _check_cancel, before every folder: cancel_requested is the only column read.
CheckCancel(j) ==
  /\ work[j] = "working" /\ j \in cancelReq
  /\ SetStatus(j, "cancelling")
  /\ Goto(j, "stopping")
  /\ UNCHANGED <<account, cancelReq, futures, registered, mgr, canceller, limit,
                 refreshing, up, crashes>>

\* The last _check_cancel, after the last folder.
LastCheck(j) ==
  /\ work[j] = "working" /\ j \notin cancelReq
  /\ Goto(j, "finishing")
  /\ UNCHANGED <<rowVars, futures, registered, mgr, canceller, limit, refreshing,
                 up, crashes>>

\* The commit that promotes the snapshot writes the job, whatever its row says.
Finish(j) ==
  /\ work[j] = "finishing"
  /\ SetStatus(j, "completed")
  /\ Goto(j, "reporting")
  /\ UNCHANGED <<account, cancelReq, futures, registered, mgr, canceller, limit,
                 refreshing, up, crashes>>

\* Rotation and notification.
Report(j) ==
  /\ work[j] = "reporting"
  /\ Goto(j, "ended")
  /\ UNCHANGED <<rowVars, futures, registered, mgr, canceller, limit, refreshing,
                 up, crashes>>

\* The account is gone or disconnected: the job fails before it starts to run.
Reject(j) ==
  /\ work[j] = "submitted" /\ status[j] = "queued" /\ j \notin cancelReq
  /\ SetStatus(j, "failed")
  /\ Goto(j, "ended")
  /\ UNCHANGED <<account, cancelReq, futures, registered, mgr, canceller, limit,
                 refreshing, up, crashes>>

\* An error goes to the handler: the provider, the storage limit, a failed
\* notification, or (seen in two steps) the account that is not available.
Fail(j) ==
  /\ \/ work[j] \in {"picking", "working", "finishing"}
     \/ "notify" \in Windows /\ work[j] = "reporting"
  /\ Goto(j, "failing")
  /\ UNCHANGED <<rowVars, futures, registered, mgr, canceller, limit, refreshing,
                 up, crashes>>

\* _fail_or_cancel writes how the run ended.
FailCommit(j) ==
  /\ work[j] \in {"failing", "stopping"}
  /\ SetStatus(j, IF work[j] = "stopping" THEN "cancelled" ELSE "failed")
  /\ Goto(j, "ended")
  /\ UNCHANGED <<account, cancelReq, futures, registered, mgr, canceller, limit,
                 refreshing, up, crashes>>

\* The commit is refused: the thread ends and the row keeps its status.
FailRefused(j) ==
  /\ "database" \in Windows
  /\ work[j] \in {"failing", "stopping"}
  /\ Goto(j, "ended")
  /\ UNCHANGED <<rowVars, futures, registered, mgr, canceller, limit, refreshing,
                 up, crashes>>

-----------------------------------------------------------------------------
(* cancel() and the scheduler's cleanup: neither takes the lock *)

\* Mutation: a queued job is marked like a running one.
WriteCancelling(j, seen) ==
  /\ status' = [status EXCEPT ![j] = "cancelling"]
  /\ cancelReq' = cancelReq \cup {j}

\* What cancel() writes follows from the status it read.
WriteCancel(j, seen) ==
  /\ status' = CASE seen = "queued"  -> [status EXCEPT ![j] = "cancelled"]
                 [] seen = "running" -> [status EXCEPT ![j] = "cancelling"]
                 [] OTHER            -> status
  /\ cancelReq' = cancelReq \cup {j}

Cancel(j) ==
  /\ up /\ status[j] \in Active
  /\ WriteCancel(j, status[j])
  /\ UNCHANGED <<account, poolVars, canceller, limit, refreshing, up, crashes>>

CancelRead(j) ==
  /\ "cancel" \in Windows
  /\ up /\ canceller = NoCancel
  /\ status[j] \in Active
  /\ canceller' = [job |-> j, seen |-> status[j]]
  /\ UNCHANGED <<rowVars, poolVars, limit, refreshing, up, crashes>>

CancelCommit ==
  /\ canceller # NoCancel
  /\ WriteCancel(canceller.job, canceller.seen)
  /\ canceller' = NoCancel
  /\ UNCHANGED <<account, poolVars, limit, refreshing, up, crashes>>

\* A job at work whose row has not changed for 12 hours is taken for dead.
StaleCleanup(j) ==
  /\ up /\ status[j] \in {"running", "cancelling"}
  /\ "suspended" \in Windows \/ work[j] \in {"none", "ended"}
  /\ SetStatus(j, "failed")
  /\ UNCHANGED <<account, cancelReq, poolVars, canceller, limit, refreshing, up,
                 crashes>>

-----------------------------------------------------------------------------
(* Crash and restart *)

Crash ==
  /\ up /\ crashes < MaxCrashes
  /\ up' = FALSE /\ crashes' = crashes + 1
  /\ work' = [j \in Jobs |-> "none"]
  /\ futures' = {} /\ registered' = {}
  /\ mgr' = FreeMgr /\ canceller' = NoCancel /\ refreshing' = FALSE
  /\ UNCHANGED <<rowVars, limit>>

\* Mutation: everything that was interrupted is queued again.
RequeuedAlways(j) == IF status[j] \in Active THEN "queued" ELSE status[j]

\* The status a restart gives a row: what was asked to stop is cancelled, what was
\* interrupted waits again.
Recovered(j) ==
  IF status[j] \notin Active THEN status[j]
  ELSE IF status[j] = "cancelling" \/ j \in cancelReq THEN "cancelled"
  ELSE "queued"

\* recover_interrupted_jobs, before the first request; then resume_pending() drains.
Recover ==
  /\ ~up
  /\ up' = TRUE
  /\ status' = [j \in Jobs |-> Recovered(j)]
  /\ mgr' = Drain
  /\ UNCHANGED <<account, cancelReq, work, futures, registered, canceller, limit,
                 refreshing, crashes>>

-----------------------------------------------------------------------------
Init ==
  /\ status = [j \in Jobs |-> "none"]
  /\ account = [j \in Jobs |-> NoAccount]
  /\ cancelReq = {}
  /\ work = [j \in Jobs |-> "none"]
  /\ futures = {} /\ registered = {}
  /\ mgr = FreeMgr /\ canceller = NoCancel
  /\ limit \in 1..MaxLimit
  /\ refreshing = FALSE /\ up = TRUE /\ crashes = 0

MgrStep == Select \/ DrainFails \/ \E j \in Jobs : Submit(j) \/ AddCallback(j)

WorkerStep(j) ==
  \/ Skip(j) \/ Pick(j) \/ Reject(j) \/ PickRead(j) \/ PickCommit(j)
  \/ CheckCancel(j) \/ LastCheck(j) \/ Finish(j) \/ Report(j)
  \/ FailCommit(j) \/ FailRefused(j)

Next ==
  \/ \E a \in Accounts : Start(a)
  \/ MgrStep
  \/ \E j \in Jobs : \/ Complete(j) \/ WorkerStep(j) \/ Fail(j)
                     \/ Cancel(j) \/ CancelRead(j) \/ StaleCleanup(j)
  \/ CancelCommit
  \/ \E n \in 1..MaxLimit : SetLimit(n)
  \/ Refresh \/ Crash \/ Recover

Spec == Init /\ [][Next]_vars

\* Threads go on: a run is finite, and whoever waits for the lock gets it when it
\* is free again and again (no caller takes it in a loop).
Fairness ==
  /\ WF_vars(MgrStep) /\ WF_vars(Recover) /\ SF_vars(Refresh)
  /\ \A j \in Jobs : WF_vars(WorkerStep(j)) /\ SF_vars(Complete(j))

FairSpec == Spec /\ Fairness

-----------------------------------------------------------------------------
(* Properties *)

WorkPc == {"none", "submitted", "picking", "working", "finishing", "reporting",
           "stopping", "failing", "ended"}

\* The type of every variable: the columns of backup_jobs and the manager's
\* attributes.
TypeOK ==
  /\ status \in [Jobs -> {"none"} \cup Active \cup Terminal]
  /\ account \in [Jobs -> Accounts \cup {NoAccount}]
  /\ cancelReq \subseteq Jobs
  /\ work \in [Jobs -> WorkPc]
  /\ futures \subseteq Jobs /\ registered \subseteq futures
  /\ mgr \in [pc : {"free", "draining", "submitting", "registering", "stuck"},
              todo : SUBSET Jobs]
  /\ canceller \in [job : Jobs, seen : Active] \cup {NoCancel}
  /\ limit \in 1..MaxLimit
  /\ refreshing \in BOOLEAN /\ up \in BOOLEAN
  /\ crashes \in 0..MaxCrashes

\* No wakeup is lost: while nobody holds the lock and no refresh is due, a job
\* waits only because as many futures as backup_concurrency allows are out.
\* Whatever a race does to the rows, the drain after it sees the result.
WorkConserving ==
  up /\ mgr.pc = "free" /\ ~refreshing =>
    Waiting = {} \/ Cardinality(futures) >= limit

\* First come, first served: a job starts to run only when no older job still
\* waits outside the pool.
NoOvertaking ==
  [][\A j \in Jobs : status[j] # "running" /\ work'[j] = "working" =>
       \A k \in Waiting : k > j]_vars

Copying == {"working", "finishing"}

\* The duplicate guard: an account has at most one active row, the one start()
\* returns, and two workers never copy the same mailbox at a time.
SingleWorker ==
  \A j, k \in Jobs : j # k /\ account[j] = account[k] =>
    /\ ~(work[j] \in Copying /\ work[k] \in Copying)
    /\ ~(status[j] \in Active /\ status[k] \in Active)

\* An accepted cancellation is kept, across a crash too: the job is not queued and
\* not run again.
CancelIsKept ==
  [][\A j \in cancelReq :
       status'[j] \in {"queued", "running"} => status'[j] = status[j]]_vars

\* A row that says running or cancelling has a thread behind it as long as the
\* process lives; without one it would bar its account from any new backup.
ActiveHasWorker ==
  up => \A j \in Jobs : status[j] \in {"running", "cancelling"} =>
          j \in futures /\ work[j] \in Copying \cup {"stopping", "failing"}

\* Every queued job is taken up, cancelled or failed in the end, and a run that was
\* asked to stop ends.
JobsAreServed ==
  \A j \in Jobs : /\ status[j] = "queued" ~> status[j] # "queued"
                  /\ status[j] = "cancelling" ~> status[j] \in Terminal
=============================================================================
