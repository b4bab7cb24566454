------------------------- MODULE BackupQueueProofs -------------------------
(* What holds of BackupQueue for any number of jobs, accounts and places. *)
EXTENDS BackupQueue, FiniteSetTheorems, TLAPS

\* The job whose callback is being registered has its future.
InHand == mgr.pc = "registering" => \A j \in Jobs : IsFirst(j) => j \in futures

TypeInv == TypeOK /\ InHand

\* Places and jobs can be counted.
LEMMA JobsFinite == IsFiniteSet(Jobs)
BY JobsPositive, FS_Interval DEF Jobs

LEMMA InitType == Init => TypeInv
<1> SUFFICES ASSUME Init PROVE TypeInv
  OBVIOUS
<1>1. mgr \in [pc : {"free", "draining", "submitting", "registering", "stuck"},
              todo : SUBSET Jobs]
  BY DEF Init, FreeMgr
<1>2. mgr.pc # "registering"
  BY DEF Init, FreeMgr
<1>3. crashes \in 0..MaxCrashes
  BY CrashesBounded DEF Init
<1>4. /\ status \in [Jobs -> {"none"} \cup Active \cup Terminal]
      /\ account \in [Jobs -> Accounts \cup {NoAccount}]
      /\ work \in [Jobs -> WorkPc]
  BY DEF Init, WorkPc
<1> QED
  BY <1>1, <1>2, <1>3, <1>4 DEF Init, TypeInv, TypeOK, InHand

\* Every step keeps the columns and the manager's attributes typed.
LEMMA NextType == TypeInv /\ [Next]_vars => TypeInv'
<1> SUFFICES ASSUME TypeInv, [Next]_vars PROVE TypeInv'
  OBVIOUS
<1> USE DEF TypeInv, TypeOK, InHand, WorkPc, Active, Terminal, FreeMgr, Drain,
        NoCancel, rowVars, poolVars, IsFirst, Before
<1>1. ASSUME NEW a \in Accounts, Start(a) PROVE TypeInv'
  BY <1>1 DEF Start, SetStatus
<1>2. ASSUME Select PROVE TypeInv'
  <2>1. PICK ids \in SUBSET Waiting :
          mgr' = [pc |-> IF ids = {} THEN "free" ELSE "submitting", todo |-> ids]
    BY <1>2 DEF Select
  <2>2. ids \subseteq Jobs
    BY DEF Waiting
  <2>3. mgr' \in [pc : {"free", "draining", "submitting", "registering", "stuck"},
                 todo : SUBSET Jobs]
    BY <2>1, <2>2
  <2>4. mgr'.pc # "registering"
    BY <2>1
  <2> QED BY <1>2, <2>3, <2>4 DEF Select
<1>3. ASSUME DrainFails PROVE TypeInv'
  BY <1>3 DEF DrainFails
<1>4. ASSUME NEW j \in Jobs, Submit(j) PROVE TypeInv'
  <2> DEFINE next == mgr.todo \ {j}
  <2>1. After(next) \in [pc : {"free", "draining", "submitting", "registering", "stuck"},
                        todo : SUBSET Jobs] /\ After(next).pc # "registering"
    BY DEF After
  <2>2. \A k \in Jobs : IsFirst(k)' /\ mgr'.todo = mgr.todo => k = j
    BY <1>4 DEF Submit, IsFirst, Jobs
  <2>3. /\ mgr' \in [pc : {"free", "draining", "submitting", "registering", "stuck"},
                    todo : SUBSET Jobs]
        /\ mgr'.pc = "registering" => mgr'.todo = mgr.todo
    <3>1. \/ mgr' = After(next)
          \/ mgr' = [pc |-> "registering", todo |-> mgr.todo]
      BY <1>4 DEF Submit
    <3> HIDE DEF next
    <3> QED BY <2>1, <3>1
  <2>4. futures' \subseteq Jobs /\ registered' \subseteq futures' /\ j \in futures'
    BY <1>4 DEF Submit
  <2>5. work' \in [Jobs -> WorkPc]
    BY <1>4 DEF Submit, Goto
  <2>6. InHand'
    BY <2>2, <2>3, <2>4
  <2> QED BY <1>4, <2>3, <2>4, <2>5, <2>6 DEF Submit
<1>5. ASSUME NEW j \in Jobs, AddCallback(j) PROVE TypeInv'
  BY <1>5 DEF AddCallback, IsFirst, After
<1>6. ASSUME NEW j \in Jobs, Complete(j) PROVE TypeInv'
  BY <1>6 DEF Complete, Goto
<1>7. ASSUME NEW n \in 1..MaxLimit, SetLimit(n) PROVE TypeInv'
  BY <1>7 DEF SetLimit
<1>8. ASSUME Refresh PROVE TypeInv'
  BY <1>8 DEF Refresh
<1>9. ASSUME NEW j \in Jobs, Skip(j) PROVE TypeInv'
  BY <1>9 DEF Skip, Goto
<1>10. ASSUME NEW j \in Jobs, Pick(j) PROVE TypeInv'
  BY <1>10 DEF Pick, Goto, SetStatus
<1>11. ASSUME NEW j \in Jobs, Reject(j) PROVE TypeInv'
  BY <1>11 DEF Reject, Goto, SetStatus
<1>12. ASSUME NEW j \in Jobs, PickRead(j) PROVE TypeInv'
  BY <1>12 DEF PickRead, Goto
<1>13. ASSUME NEW j \in Jobs, PickCommit(j) PROVE TypeInv'
  BY <1>13 DEF PickCommit, Goto, SetStatus
<1>14. ASSUME NEW j \in Jobs, CheckCancel(j) PROVE TypeInv'
  BY <1>14 DEF CheckCancel, Goto, SetStatus
<1>15. ASSUME NEW j \in Jobs, LastCheck(j) PROVE TypeInv'
  BY <1>15 DEF LastCheck, Goto
<1>16. ASSUME NEW j \in Jobs, Finish(j) PROVE TypeInv'
  BY <1>16 DEF Finish, Goto, SetStatus
<1>17. ASSUME NEW j \in Jobs, Report(j) PROVE TypeInv'
  BY <1>17 DEF Report, Goto
<1>18. ASSUME NEW j \in Jobs, Fail(j) PROVE TypeInv'
  BY <1>18 DEF Fail, Goto
<1>19. ASSUME NEW j \in Jobs, FailCommit(j) PROVE TypeInv'
  BY <1>19 DEF FailCommit, Goto, SetStatus
<1>20. ASSUME NEW j \in Jobs, FailRefused(j) PROVE TypeInv'
  BY <1>20 DEF FailRefused, Goto
<1>21. ASSUME NEW j \in Jobs, Cancel(j) PROVE TypeInv'
  BY <1>21 DEF Cancel, WriteCancel
<1>22. ASSUME NEW j \in Jobs, CancelRead(j) PROVE TypeInv'
  BY <1>22 DEF CancelRead
<1>23. ASSUME CancelCommit PROVE TypeInv'
  BY <1>23 DEF CancelCommit, WriteCancel
<1>24. ASSUME NEW j \in Jobs, StaleCleanup(j) PROVE TypeInv'
  BY <1>24 DEF StaleCleanup, SetStatus
<1>25. ASSUME Crash PROVE TypeInv'
  <2>1. FreeMgr \in [pc : {"free", "draining", "submitting", "registering", "stuck"},
                    todo : SUBSET Jobs] /\ FreeMgr.pc # "registering"
    OBVIOUS
  <2>2. crashes' \in 0..MaxCrashes
    BY <1>25, CrashesBounded DEF Crash
  <2>3. work' \in [Jobs -> WorkPc] /\ mgr' = FreeMgr
    BY <1>25 DEF Crash
  <2>4. InHand'
    BY <2>1, <2>3
  <2> QED BY <1>25, <2>1, <2>2, <2>3, <2>4 DEF Crash
<1>26. ASSUME Recover PROVE TypeInv'
  BY <1>26 DEF Recover, Recovered
<1>27. ASSUME UNCHANGED vars PROVE TypeInv'
  BY <1>27 DEF vars
<1> QED
  BY <1>1, <1>2, <1>3, <1>4, <1>5, <1>6, <1>7, <1>8, <1>9, <1>10, <1>11, <1>12,
     <1>13, <1>14, <1>15, <1>16, <1>17, <1>18, <1>19, <1>20, <1>21, <1>22, <1>23,
     <1>24, <1>25, <1>26, <1>27
     DEF Next, MgrStep, WorkerStep

\* Every variable keeps its type.
THEOREM TypeCorrect == Spec => []TypeOK
<1>1. TypeInv => TypeOK
  BY DEF TypeInv
<1> QED
  BY <1>1, InitType, NextType, PTL DEF Spec

-----------------------------------------------------------------------------
(* No wakeup is lost *)

\* While the drain submits, what it chose fills the pool or is all that waits.
DrainSuffices ==
  mgr.pc \in {"submitting", "registering"} /\ ~refreshing =>
    Waiting \subseteq mgr.todo \/ Cardinality(futures \cup mgr.todo) >= limit

QueueInv == TypeInv /\ DrainSuffices /\ WorkConserving

\* Every step keeps the drain sufficient: what it leaves out finds the pool full, and
\* a row becomes eligible only under a lock whose holder is about to drain.
LEMMA NextQueue == QueueInv /\ "database" \notin Windows /\ [Next]_vars => (DrainSuffices /\ WorkConserving)'
<1> SUFFICES ASSUME QueueInv /\ "database" \notin Windows, [Next]_vars PROVE (DrainSuffices /\ WorkConserving)'
  OBVIOUS
<1> USE DEF QueueInv, TypeInv, TypeOK, DrainSuffices, WorkConserving, Waiting,
        Eligible, FreeMgr, Drain, rowVars, poolVars
<1>1. ASSUME NEW a \in Accounts, Start(a) PROVE (DrainSuffices /\ WorkConserving)'
  BY <1>1 DEF Start, SetStatus
<1>2. ASSUME Select PROVE (DrainSuffices /\ WorkConserving)'
  <2>1. PICK ids \in SUBSET Waiting :
          LET available == IF limit > Cardinality(futures)
                           THEN limit - Cardinality(futures) ELSE 0
          IN /\ Cardinality(ids) <= available
             /\ Cardinality(ids) < available => ids = Waiting
             /\ mgr' = [pc |-> IF ids = {} THEN "free" ELSE "submitting", todo |-> ids]
    BY <1>2 DEF Select
  <2>2. /\ IsFiniteSet(futures) /\ IsFiniteSet(ids)
        /\ Cardinality(futures) \in Nat /\ Cardinality(ids) \in Nat
    BY JobsFinite, FS_Subset, FS_CardinalityType
  <2>3. Cardinality(futures \cup ids) = Cardinality(futures) + Cardinality(ids)
    <3>1. futures \cap ids = {}
      OBVIOUS
    <3>2. Cardinality(futures \cap ids) = 0
      BY <3>1, FS_EmptySet
    <3>3. Cardinality(futures \cup ids)
            = Cardinality(futures) + Cardinality(ids) - Cardinality(futures \cap ids)
      BY <2>2, FS_Union
    <3> QED BY <2>2, <3>2, <3>3
  <2>4. limit \in Nat
    BY LimitPositive
  <2>5. Waiting' = Waiting /\ futures' = futures /\ limit' = limit
    BY <1>2 DEF Select
  <2>6. ids = Waiting \/ Cardinality(futures \cup ids) >= limit
    BY <2>1, <2>2, <2>3, <2>4
  <2>7. CASE ids = {}
    <3>1. futures \cup ids = futures
      BY <2>7
    <3> QED BY <2>1, <2>5, <2>6, <2>7, <3>1
  <2>8. CASE ids # {}
    BY <2>1, <2>5, <2>6, <2>8
  <2> QED BY <2>7, <2>8
<1>3. ASSUME DrainFails PROVE (DrainSuffices /\ WorkConserving)'
  BY <1>3 DEF DrainFails
<1>4. ASSUME NEW j \in Jobs, Submit(j) PROVE (DrainSuffices /\ WorkConserving)'
  <2> DEFINE next == mgr.todo \ {j}
  <2>1. mgr.pc = "submitting" /\ j \in mgr.todo /\ futures' = futures \cup {j}
    BY <1>4 DEF Submit, IsFirst
  <2>2. Waiting' \subseteq Waiting \ {j} /\ limit' = limit /\ refreshing' = refreshing
    BY <1>4 DEF Submit
  <2>3. futures' \cup next = futures \cup mgr.todo /\ futures' \cup mgr.todo = futures \cup mgr.todo
    BY <2>1
  <2>4. \/ mgr'.pc = "registering" /\ mgr'.todo = mgr.todo
        \/ mgr'.pc = "submitting" /\ mgr'.todo = next
        \/ mgr'.pc = "free" /\ next = {} /\ mgr'.todo = next
    BY <1>4 DEF Submit, After
  <2> QED BY <2>1, <2>2, <2>3, <2>4
<1>5. ASSUME NEW j \in Jobs, AddCallback(j) PROVE (DrainSuffices /\ WorkConserving)'
  <2> DEFINE next == mgr.todo \ {j}
  <2>1. mgr.pc = "registering" /\ j \in mgr.todo /\ j \in futures /\ futures' = futures
    BY <1>5 DEF AddCallback, IsFirst, InHand
  <2>2. Waiting' = Waiting /\ j \notin Waiting /\ limit' = limit /\ refreshing' = refreshing
    BY <1>5, <2>1 DEF AddCallback
  <2>3. futures' \cup next = futures \cup mgr.todo
    BY <2>1
  <2>4. \/ mgr'.pc = "stuck"
        \/ mgr'.pc = "submitting" /\ mgr'.todo = next
        \/ mgr'.pc = "free" /\ next = {} /\ mgr'.todo = next
    BY <1>5 DEF AddCallback, After
  <2> QED BY <2>1, <2>2, <2>3, <2>4
<1>6. ASSUME NEW j \in Jobs, Complete(j) PROVE (DrainSuffices /\ WorkConserving)'
  BY <1>6 DEF Complete, Goto
<1>7. ASSUME NEW n \in 1..MaxLimit, SetLimit(n) PROVE (DrainSuffices /\ WorkConserving)'
  BY <1>7 DEF SetLimit
<1>8. ASSUME Refresh PROVE (DrainSuffices /\ WorkConserving)'
  BY <1>8 DEF Refresh
<1>9. ASSUME NEW j \in Jobs, Skip(j) PROVE (DrainSuffices /\ WorkConserving)'
  BY <1>9 DEF Skip, Goto
<1>10. ASSUME NEW j \in Jobs, Pick(j) PROVE (DrainSuffices /\ WorkConserving)'
  BY <1>10 DEF Pick, Goto, SetStatus
<1>11. ASSUME NEW j \in Jobs, Reject(j) PROVE (DrainSuffices /\ WorkConserving)'
  BY <1>11 DEF Reject, Goto, SetStatus
<1>12. ASSUME NEW j \in Jobs, PickRead(j) PROVE (DrainSuffices /\ WorkConserving)'
  BY <1>12 DEF PickRead, Goto
<1>13. ASSUME NEW j \in Jobs, PickCommit(j) PROVE (DrainSuffices /\ WorkConserving)'
  BY <1>13 DEF PickCommit, Goto, SetStatus
<1>14. ASSUME NEW j \in Jobs, CheckCancel(j) PROVE (DrainSuffices /\ WorkConserving)'
  BY <1>14 DEF CheckCancel, Goto, SetStatus
<1>15. ASSUME NEW j \in Jobs, LastCheck(j) PROVE (DrainSuffices /\ WorkConserving)'
  BY <1>15 DEF LastCheck, Goto
<1>16. ASSUME NEW j \in Jobs, Finish(j) PROVE (DrainSuffices /\ WorkConserving)'
  BY <1>16 DEF Finish, Goto, SetStatus
<1>17. ASSUME NEW j \in Jobs, Report(j) PROVE (DrainSuffices /\ WorkConserving)'
  BY <1>17 DEF Report, Goto
<1>18. ASSUME NEW j \in Jobs, Fail(j) PROVE (DrainSuffices /\ WorkConserving)'
  BY <1>18 DEF Fail, Goto
<1>19. ASSUME NEW j \in Jobs, FailCommit(j) PROVE (DrainSuffices /\ WorkConserving)'
  BY <1>19 DEF FailCommit, Goto, SetStatus
<1>20. ASSUME NEW j \in Jobs, FailRefused(j) PROVE (DrainSuffices /\ WorkConserving)'
  BY <1>20 DEF FailRefused, Goto
<1>21. ASSUME NEW j \in Jobs, Cancel(j) PROVE (DrainSuffices /\ WorkConserving)'
  BY <1>21 DEF Cancel, WriteCancel
<1>22. ASSUME NEW j \in Jobs, CancelRead(j) PROVE (DrainSuffices /\ WorkConserving)'
  BY <1>22 DEF CancelRead
<1>23. ASSUME CancelCommit PROVE (DrainSuffices /\ WorkConserving)'
  BY <1>23 DEF CancelCommit, WriteCancel
<1>24. ASSUME NEW j \in Jobs, StaleCleanup(j) PROVE (DrainSuffices /\ WorkConserving)'
  BY <1>24 DEF StaleCleanup, SetStatus
<1>25. ASSUME Crash PROVE (DrainSuffices /\ WorkConserving)'
  BY <1>25 DEF Crash
<1>26. ASSUME Recover PROVE (DrainSuffices /\ WorkConserving)'
  BY <1>26 DEF Recover, Recovered
<1>27. ASSUME UNCHANGED vars PROVE (DrainSuffices /\ WorkConserving)'
  BY <1>27 DEF vars
<1> QED
  BY <1>1, <1>2, <1>3, <1>4, <1>5, <1>6, <1>7, <1>8, <1>9, <1>10, <1>11, <1>12,
     <1>13, <1>14, <1>15, <1>16, <1>17, <1>18, <1>19, <1>20, <1>21, <1>22, <1>23,
     <1>24, <1>25, <1>26, <1>27
     DEF Next, MgrStep, WorkerStep

\* While nobody holds the lock and no refresh is due, a job waits only because the
\* pool is full: for any number of jobs, accounts and places, whatever races with
\* the rows, as long as the drain's own query does not fail.
THEOREM NoLostWakeup ==
  ASSUME "database" \notin Windows
  PROVE  Spec => []WorkConserving
<1>1. Init => QueueInv
  BY InitType DEF Init, QueueInv, DrainSuffices, WorkConserving, Waiting, Eligible, FreeMgr
<1>2. QueueInv /\ [Next]_vars => QueueInv'
  BY NextType, NextQueue DEF QueueInv
<1>3. QueueInv => WorkConserving
  BY DEF QueueInv
<1> QED
  BY <1>1, <1>2, <1>3, PTL DEF Spec
-----------------------------------------------------------------------------
(* Threads, futures and rows *)

\* Whoever is at work has a future, a drain submits only jobs without one, and what
\* is in hand has a row; when the process is down nothing is.
WorkInv ==
  /\ \A j \in Jobs : work[j] # "none" => j \in futures
  /\ mgr.pc = "submitting" => mgr.todo \cap futures = {}
  /\ mgr.pc = "registering" => \A k \in mgr.todo \cap futures : IsFirst(k)
  /\ \A j \in Jobs : status[j] = "none" =>
       j \notin cancelReq \cup futures \cup mgr.todo /\ canceller.job # j
  /\ ~up => futures = {} /\ mgr.pc = "free" /\ ~refreshing /\ canceller = NoCancel

\* What a step of a worker leaves alone.
LEMMA WorkerFrame ==
  ASSUME TypeOK, NEW j \in Jobs, WorkerStep(j) \/ Fail(j)
  PROVE  /\ work[j] # "none" /\ work'[j] # "none"
         /\ status' \in [Jobs -> {"none"} \cup Active \cup Terminal]
         /\ work' \in [Jobs -> WorkPc]
         /\ \A k \in Jobs \ {j} : work'[k] = work[k] /\ status'[k] = status[k]
         /\ status'[j] \in {status[j], "running", "cancelling"} \cup Terminal
         /\ UNCHANGED <<account, cancelReq, futures, registered, mgr, canceller, limit,
                        refreshing, up, crashes>>
BY DEF TypeOK, WorkPc, Active, Terminal, WorkerStep, Skip, Pick, Reject, PickRead, PickCommit, CheckCancel, LastCheck,
   Finish, Report, FailCommit, FailRefused, Fail, Goto, SetStatus, rowVars, poolVars

LEMMA WorkStep ==
  ASSUME TypeInv, WorkInv, [Next]_vars
  PROVE  WorkInv'
<1> USE DEF TypeInv, TypeOK, WorkInv, FreeMgr, Drain, NoCancel, rowVars, poolVars, IsFirst, Before, Jobs
<1>1. ASSUME NEW a \in Accounts, Start(a) PROVE WorkInv'
  BY <1>1 DEF Start, SetStatus
<1>2. CASE Select
  <2>1. PICK ids \in SUBSET Waiting :
          mgr' = [pc |-> IF ids = {} THEN "free" ELSE "submitting", todo |-> ids]
    BY <1>2 DEF Select
  <2>2. \A j \in ids : j \in Jobs /\ j \notin futures /\ status[j] = "queued"
    BY DEF Waiting, Eligible
  <2>3. mgr'.todo = ids /\ mgr'.pc \in {"free", "submitting"}
    BY <2>1
  <2> QED BY <1>2, <2>2, <2>3 DEF Select
<1>3. CASE DrainFails \/ Refresh
  <2>1. /\ mgr'.todo = {} /\ mgr'.pc \in {"free", "draining"} /\ up' = up
        /\ UNCHANGED <<status, cancelReq, work, futures, canceller>>
        /\ ~up => mgr'.pc = "free" /\ ~refreshing'
    BY <1>3 DEF DrainFails, Refresh
  <2> QED BY <2>1
<1>4. ASSUME NEW j \in Jobs, Submit(j) PROVE WorkInv'
  <2>1. /\ futures' = futures \cup {j} /\ j \in mgr.todo /\ mgr.pc = "submitting"
        /\ mgr' = [pc |-> "registering", todo |-> mgr.todo] \/ mgr' = After(mgr.todo \ {j})
        /\ IsFirst(j) /\ UNCHANGED <<status, cancelReq, canceller, up>>
    BY <1>4 DEF Submit
  <2>2. \A k \in Jobs : work'[k] # "none" => k \in futures'
    BY <1>4 DEF Submit, Goto
  <2>3. CASE mgr' = [pc |-> "registering", todo |-> mgr.todo]
    BY <2>1, <2>2, <2>3
  <2>4. CASE mgr' = After(mgr.todo \ {j})
    <3>1. mgr'.todo = mgr.todo \ {j} /\ mgr'.pc \in {"free", "submitting"}
      BY <2>4 DEF After
    <3> QED BY <2>1, <2>2, <3>1
  <2> QED BY <2>1, <2>3, <2>4
<1>5. ASSUME NEW j \in Jobs, AddCallback(j) PROVE WorkInv'
  <2>1. /\ UNCHANGED <<status, cancelReq, canceller, up, futures, work>>
        /\ j \in mgr.todo /\ mgr.pc = "registering" /\ IsFirst(j)
        /\ mgr' = [pc |-> "stuck", todo |-> mgr.todo] \/ mgr' = After(mgr.todo \ {j})
    BY <1>5 DEF AddCallback
  <2>2. CASE mgr' = [pc |-> "stuck", todo |-> mgr.todo]
    BY <2>1, <2>2
  <2>3. CASE mgr' = After(mgr.todo \ {j})
    <3>1. mgr'.todo = mgr.todo \ {j} /\ mgr'.pc \in {"free", "submitting"}
      BY <2>3 DEF After
    <3>2. (mgr.todo \ {j}) \cap futures = {}
      BY <2>1
    <3> QED BY <2>1, <3>1, <3>2
  <2> QED BY <2>1, <2>2, <2>3
<1>6. ASSUME NEW j \in Jobs, Complete(j) PROVE WorkInv'
  BY <1>6 DEF Complete, Goto
<1>7. ASSUME NEW n \in 1..MaxLimit, SetLimit(n) PROVE WorkInv'
  BY <1>7 DEF SetLimit
<1>8. ASSUME NEW j \in Jobs, WorkerStep(j) \/ Fail(j) PROVE WorkInv'
  <2> HIDE DEF Jobs
  <2> QED BY <1>8, WorkerFrame DEF Active, Terminal
<1>9. ASSUME NEW j \in Jobs, Cancel(j) PROVE WorkInv'
  BY <1>9 DEF Cancel, WriteCancel, Active
<1>10. ASSUME NEW j \in Jobs, CancelRead(j) PROVE WorkInv'
  BY <1>10 DEF CancelRead, Active
<1>11. CASE CancelCommit
  BY <1>11 DEF CancelCommit, WriteCancel, Active
<1>12. ASSUME NEW j \in Jobs, StaleCleanup(j) PROVE WorkInv'
  BY <1>12 DEF StaleCleanup, SetStatus
<1>13. CASE Crash
  BY <1>13 DEF Crash
<1>14. CASE Recover
  BY <1>14 DEF Recover, Recovered, Active
<1>15. CASE UNCHANGED vars
  BY <1>15 DEF vars
<1> QED
  BY <1>1, <1>2, <1>3, <1>4, <1>5, <1>6, <1>7, <1>8, <1>9, <1>10, <1>11, <1>12, <1>13, <1>14, <1>15
     DEF Next, MgrStep

LEMMA WorkInit == Init => TypeInv /\ WorkInv
BY InitType DEF Init, WorkInv, FreeMgr, NoCancel, Jobs

-----------------------------------------------------------------------------
(* Cancellations *)

\* A cancellation that was accepted is kept, across crashes too, when no worker reads
\* its row before the cancellation is committed and writes it after.
THEOREM CancellationIsKept ==
  ASSUME "pick" \notin Windows
  PROVE  Spec => CancelIsKept
<1> DEFINE NoPick == \A j \in Jobs : work[j] # "picking"
           Kept   == \A j \in cancelReq :
                       status'[j] \in {"queued", "running"} => status'[j] = status[j]
<1>1. Init => TypeInv /\ WorkInv /\ NoPick
  BY WorkInit DEF Init
<1>2. TypeInv /\ WorkInv /\ NoPick /\ [Next]_vars => NoPick'
  <2> SUFFICES ASSUME TypeInv, WorkInv, NoPick, [Next]_vars PROVE NoPick'
    OBVIOUS
  <2> USE DEF TypeInv, TypeOK, rowVars, poolVars
  <2>1. ASSUME NEW j \in Jobs, WorkerStep(j) \/ Fail(j) PROVE NoPick'
    BY <2>1 DEF WorkerStep, Skip, Pick, Reject, PickRead, PickCommit, CheckCancel, LastCheck,
       Finish, Report, FailCommit, FailRefused, Fail, Goto
  <2>2. ASSUME NEW j \in Jobs, Submit(j) \/ Complete(j) PROVE NoPick'
    BY <2>2 DEF Submit, Complete, Goto
  <2>3. CASE Crash
    BY <2>3 DEF Crash
  <2>4. CASE UNCHANGED work
    BY <2>4
  <2> QED BY <2>1, <2>2, <2>3, <2>4 DEF Next, MgrStep, vars, Start, Select, DrainFails, AddCallback,
       SetLimit, Refresh, Cancel, CancelRead, CancelCommit, StaleCleanup, Recover
<1>3. TypeInv /\ WorkInv /\ NoPick /\ [Next]_vars => [Kept]_vars
  <2> SUFFICES ASSUME TypeInv, WorkInv, NoPick, [Next]_vars PROVE Kept
    BY DEF vars, rowVars
  <2> USE DEF TypeInv, TypeOK, rowVars, poolVars
  <2>1. ASSUME NEW a \in Accounts, Start(a) PROVE Kept
    BY <2>1 DEF Start, SetStatus, WorkInv
  <2>2. ASSUME NEW j \in Jobs, WorkerStep(j) \/ Fail(j) PROVE Kept
    BY <2>2 DEF WorkerStep, Skip, Pick, Reject, PickRead, PickCommit, CheckCancel, LastCheck,
       Finish, Report, FailCommit, FailRefused, Fail, Goto, SetStatus
  <2>3. ASSUME NEW j \in Jobs, Cancel(j) PROVE Kept
    BY <2>3 DEF Cancel, WriteCancel, Active
  <2>4. CASE CancelCommit
    BY <2>4 DEF CancelCommit, WriteCancel, Active, NoCancel
  <2>5. ASSUME NEW j \in Jobs, StaleCleanup(j) PROVE Kept
    BY <2>5 DEF StaleCleanup, SetStatus
  <2>6. CASE Recover
    BY <2>6 DEF Recover, Recovered, Active
  <2>7. CASE UNCHANGED status
    BY <2>7
  <2> QED BY <2>1, <2>2, <2>3, <2>4, <2>5, <2>6, <2>7 DEF Next, MgrStep, vars, Select, DrainFails,
       Submit, AddCallback, Complete, SetLimit, Refresh, CancelRead, Crash
<1>4. TypeInv /\ WorkInv /\ [Next]_vars => TypeInv' /\ WorkInv'
  BY NextType, WorkStep
<1> QED BY <1>1, <1>2, <1>3, <1>4, PTL DEF Spec, CancelIsKept

-----------------------------------------------------------------------------
(* One worker for an account *)

\* Who copies has an active row, when nothing but the run itself ends it.
CopyingIsActive ==
  /\ \A j \in Jobs : work[j] \in Copying => status[j] \in {"running", "cancelling"}
  /\ \A j \in Jobs : work[j] # "picking"
  /\ canceller = NoCancel

LEMMA SingleStep ==
  ASSUME TypeInv, WorkInv, CopyingIsActive, SingleWorker, [Next]_vars,
         Windows \cap {"cancel", "pick", "suspended"} = {}
  PROVE  (CopyingIsActive /\ SingleWorker)'
<1> USE DEF TypeInv, TypeOK, CopyingIsActive, SingleWorker, Copying, Active, rowVars, poolVars
<1>1. ASSUME NEW a \in Accounts, Start(a) PROVE (CopyingIsActive /\ SingleWorker)'
  BY <1>1 DEF Start, SetStatus, HasActive
<1>2. ASSUME NEW j \in Jobs, Submit(j) \/ Complete(j) PROVE (CopyingIsActive /\ SingleWorker)'
  <2>1. /\ work'[j] \in {"submitted", "none"} /\ \A k \in Jobs \ {j} : work'[k] = work[k]
        /\ UNCHANGED <<status, account, canceller>>
    BY <1>2 DEF Submit, Complete, Goto
  <2> QED BY <2>1
<1>3. ASSUME NEW j \in Jobs, WorkerStep(j) \/ Fail(j) PROVE (CopyingIsActive /\ SingleWorker)'
  <2>1. /\ \A k \in Jobs \ {j} : work'[k] = work[k] /\ status'[k] = status[k]
        /\ UNCHANGED <<account, canceller>>
    BY <1>3, WorkerFrame
  <2>2. /\ status'[j] \in Active => status[j] \in Active
        /\ work'[j] \in Copying => status'[j] \in {"running", "cancelling"}
        /\ work'[j] # "picking"
    BY <1>3 DEF WorkerStep, Skip, Pick, Reject, PickRead, PickCommit, CheckCancel, LastCheck,
       Finish, Report, FailCommit, FailRefused, Fail, Goto, SetStatus
  <2> QED BY <2>1, <2>2
<1>4. ASSUME NEW j \in Jobs, Cancel(j) PROVE (CopyingIsActive /\ SingleWorker)'
  <2>1. /\ \A k \in Jobs \ {j} : status'[k] = status[k]
        /\ UNCHANGED <<account, canceller, work>>
        /\ status[j] \in Active
        /\ status[j] = "queued" \/ status'[j] = "cancelling"
    BY <1>4 DEF Cancel, WriteCancel
  <2>2. CASE status'[j] = "cancelling"
    BY <2>1, <2>2
  <2>3. CASE status[j] = "queued"
    BY <2>1, <2>3
  <2> QED BY <2>1, <2>2, <2>3
<1>5. ASSUME NEW j \in Jobs, StaleCleanup(j) PROVE (CopyingIsActive /\ SingleWorker)'
  BY <1>5 DEF StaleCleanup, SetStatus
<1>6. CASE Crash
  BY <1>6 DEF Crash
<1>7. CASE Recover
  <2>1. \A j \in Jobs : work[j] = "none"
    BY <1>7 DEF Recover, WorkInv
  <2> QED BY <1>7, <2>1 DEF Recover, Recovered
<1>8. CASE CancelCommit \/ \E j \in Jobs : CancelRead(j)
  BY <1>8 DEF CancelCommit, CancelRead
<1>9. CASE UNCHANGED <<status, account, work, canceller>>
  BY <1>9
<1> QED BY <1>1, <1>2, <1>3, <1>4, <1>5, <1>6, <1>7, <1>8, <1>9
        DEF Next, MgrStep, vars, Select, DrainFails, AddCallback, SetLimit, Refresh

\* An account never has two active jobs nor two workers that copy it: however calls,
\* drains, refused commits, late errors, crashes and restarts interleave, as long as
\* nobody writes a job's row by what it read of it before.
THEOREM OneWorkerPerAccount ==
  ASSUME Windows \cap {"cancel", "pick", "suspended"} = {}
  PROVE  Spec => []SingleWorker
<1>1. Init => TypeInv /\ WorkInv /\ CopyingIsActive /\ SingleWorker
  BY WorkInit DEF Init, CopyingIsActive, SingleWorker, Copying, Active
<1>2. TypeInv /\ WorkInv /\ CopyingIsActive /\ SingleWorker /\ [Next]_vars
      => (TypeInv /\ WorkInv /\ CopyingIsActive /\ SingleWorker)'
  BY NextType, WorkStep, SingleStep
<1> QED BY <1>1, <1>2, PTL DEF Spec

-----------------------------------------------------------------------------
(* A row that is at work has its thread *)

\* No cancellation is between its read and its commit.
NoneCancels == canceller = NoCancel

LEMMA ThreadStep ==
  ASSUME TypeInv, WorkInv, ActiveHasWorker, NoneCancels, [Next]_vars,
         Windows \cap {"cancel", "database"} = {}
  PROVE  (ActiveHasWorker /\ NoneCancels)'
<1> USE DEF NoneCancels, TypeInv, TypeOK, WorkInv, ActiveHasWorker, Copying, Active, Terminal, rowVars, poolVars
<1>1. ASSUME NEW a \in Accounts, Start(a) PROVE (ActiveHasWorker /\ NoneCancels)'
  BY <1>1 DEF Start, SetStatus
<1>2. ASSUME NEW j \in Jobs, Submit(j) PROVE (ActiveHasWorker /\ NoneCancels)'
  <2>1. (j \notin futures /\ status[j] \notin {"running", "cancelling"}) \/ ~up
    BY <1>2 DEF Submit, IsFirst
  <2>2. up
    BY <1>2 DEF Submit
  <2> QED BY <1>2, <2>1, <2>2 DEF Submit, Goto
<1>3. ASSUME NEW j \in Jobs, Complete(j) PROVE (ActiveHasWorker /\ NoneCancels)'
  BY <1>3 DEF Complete, Goto
<1>4. ASSUME NEW j \in Jobs, WorkerStep(j) \/ Fail(j) PROVE (ActiveHasWorker /\ NoneCancels)'
  <2>1. /\ \A k \in Jobs \ {j} : work'[k] = work[k] /\ status'[k] = status[k]
        /\ UNCHANGED <<futures, canceller, up>> /\ j \in futures
    BY <1>4, WorkerFrame
  <2>2. up /\ status'[j] \in {"running", "cancelling"}
        => work'[j] \in Copying \cup {"stopping", "failing"}
    BY <1>4 DEF WorkerStep, Skip, Pick, Reject, PickRead, PickCommit, CheckCancel, LastCheck,
       Finish, Report, FailCommit, FailRefused, Fail, Goto, SetStatus
  <2> QED BY <2>1, <2>2
<1>5. ASSUME NEW j \in Jobs, Cancel(j) PROVE (ActiveHasWorker /\ NoneCancels)'
  BY <1>5 DEF Cancel, WriteCancel
<1>6. ASSUME NEW j \in Jobs, StaleCleanup(j) PROVE (ActiveHasWorker /\ NoneCancels)'
  BY <1>6 DEF StaleCleanup, SetStatus
<1>7. CASE Crash
  BY <1>7 DEF Crash
<1>8. CASE Recover
  BY <1>8 DEF Recover, Recovered
<1>9. CASE CancelCommit \/ \E j \in Jobs : CancelRead(j)
  BY <1>9 DEF CancelCommit, CancelRead
<1>10. CASE UNCHANGED <<status, work, futures, canceller, up>>
  BY <1>10
<1> QED BY <1>1, <1>2, <1>3, <1>4, <1>5, <1>6, <1>7, <1>8, <1>9, <1>10
        DEF Next, MgrStep, vars, Select, DrainFails, AddCallback, SetLimit, Refresh

\* A row that says running or cancelling has its thread, so that no account is barred
\* from backups, when no commit is refused and no cancellation is late.
THEOREM NoAccountIsBarred ==
  ASSUME Windows \cap {"cancel", "database"} = {}
  PROVE  Spec => []ActiveHasWorker
<1>1. Init => TypeInv /\ WorkInv /\ ActiveHasWorker /\ NoneCancels
  BY WorkInit DEF Init, ActiveHasWorker, NoneCancels
<1>2. TypeInv /\ WorkInv /\ ActiveHasWorker /\ NoneCancels /\ [Next]_vars
      => (TypeInv /\ WorkInv /\ ActiveHasWorker /\ NoneCancels)'
  BY NextType, WorkStep, ThreadStep
<1> QED BY <1>1, <1>2, PTL DEF Spec

-----------------------------------------------------------------------------
(* The order of the queue *)

\* What waits is younger than what has a place, and than what a drain has chosen;
\* a place comes free only when its job waits no more.
Ordered ==
  /\ \A j \in futures, k \in Waiting : k > j
  /\ mgr.pc \in {"submitting", "registering"} =>
       \A j \in mgr.todo, k \in Waiting \ mgr.todo : k > j
  /\ \A j \in Jobs : work[j] \in {"working", "finishing", "reporting", "stopping", "ended"} =>
       status[j] # "queued"
  /\ \A j, k \in Jobs : j < k /\ status[k] # "none" => status[j] # "none"

LEMMA OrderedStep ==
  ASSUME TypeInv, WorkInv, Ordered, [Next]_vars, "database" \notin Windows
  PROVE  Ordered'
<1> USE DEF TypeInv, TypeOK, WorkInv, Ordered, Waiting, Eligible, FreeMgr, Drain, rowVars, poolVars, Jobs
<1>1. ASSUME NEW a \in Accounts, Start(a) PROVE Ordered'
  <2>1. PICK n \in Jobs : /\ status[n] = "none" /\ \A k \in Jobs : k < n => status[k] # "none"
                          /\ status' = [status EXCEPT ![n] = "queued"]
    BY <1>1 DEF Start, SetStatus
  <2>2. \A j \in futures : j < n
    BY <2>1
  <2>3. mgr'.pc = "draining" /\ UNCHANGED <<work, futures, cancelReq>>
    BY <1>1 DEF Start
  <2> QED BY <2>1, <2>2, <2>3
<1>2. CASE Select
  <2>1. PICK ids \in SUBSET Waiting :
          /\ \A j \in ids, k \in Waiting \ ids : Before(j, k)
          /\ mgr' = [pc |-> IF ids = {} THEN "free" ELSE "submitting", todo |-> ids]
    BY <1>2 DEF Select
  <2>2. mgr'.todo = ids
    BY <2>1
  <2> QED BY <1>2, <2>1, <2>2 DEF Select, Before
<1>3. CASE Refresh
  BY <1>3 DEF Refresh
<1>4. ASSUME NEW j \in Jobs, Submit(j) PROVE Ordered'
  <2>1. /\ futures' = futures \cup {j} /\ mgr.pc = "submitting" /\ IsFirst(j)
        /\ UNCHANGED <<status, cancelReq>>
        /\ mgr' = [pc |-> "registering", todo |-> mgr.todo] \/ mgr' = After(mgr.todo \ {j})
        /\ work' = [work EXCEPT ![j] = "submitted"]
    BY <1>4 DEF Submit, Goto
  <2>2. Waiting' = Waiting \ {j}
    BY <2>1
  <2>3. \A k \in Waiting' : k > j
    BY <2>1, <2>2 DEF IsFirst, Before
  <2>4. mgr'.todo \in {mgr.todo, mgr.todo \ {j}}
    BY <2>1 DEF After
  <2> HIDE DEF Waiting
  <2> QED BY <2>1, <2>2, <2>3, <2>4
<1>5. ASSUME NEW j \in Jobs, AddCallback(j) PROVE Ordered'
  <2>1. /\ mgr.pc = "registering" /\ IsFirst(j) /\ j \in futures
        /\ UNCHANGED <<status, cancelReq, futures, work>>
        /\ mgr' = [pc |-> "stuck", todo |-> mgr.todo] \/ mgr' = After(mgr.todo \ {j})
    BY <1>5 DEF AddCallback, InHand
  <2>2. mgr'.todo \in {mgr.todo, mgr.todo \ {j}}
    BY <2>1 DEF After
  <2> QED BY <2>1, <2>2
<1>6. ASSUME NEW j \in Jobs, Complete(j) PROVE Ordered'
  BY <1>6 DEF Complete, Goto
<1>7. ASSUME NEW j \in Jobs, WorkerStep(j) \/ Fail(j) PROVE Ordered'
  <2>1. /\ \A k \in Jobs \ {j} : work'[k] = work[k] /\ status'[k] = status[k]
        /\ UNCHANGED <<cancelReq, futures, mgr>> /\ j \in futures
    BY <1>7, WorkerFrame
  <2>2. Waiting' = Waiting
    BY <2>1
  <2>3. /\ work'[j] \in {"working", "finishing", "reporting", "stopping", "ended"} => status'[j] # "queued"
        /\ status'[j] # "none" /\ status[j] # "none"
    BY <1>7 DEF WorkerStep, Skip, Pick, Reject, PickRead, PickCommit, CheckCancel, LastCheck,
       Finish, Report, FailCommit, FailRefused, Fail, Goto, SetStatus
  <2> HIDE DEF Waiting
  <2> QED BY <2>1, <2>2, <2>3
<1>8. ASSUME NEW j \in Jobs, Cancel(j) \/ StaleCleanup(j) PROVE Ordered'
  <2>1. /\ \A k \in Jobs \ {j} : status'[k] = status[k]
        /\ status[j] \in Active /\ status'[j] \notin {"none", "queued"}
        /\ UNCHANGED <<work, futures, mgr>> /\ cancelReq \subseteq cancelReq'
    BY <1>8 DEF Cancel, WriteCancel, StaleCleanup, SetStatus, Active
  <2>2. Waiting' \subseteq Waiting
    BY <2>1
  <2>3. status[j] # "none"
    BY <2>1 DEF Active
  <2> HIDE DEF Waiting
  <2> QED BY <2>1, <2>2, <2>3
<1>9. CASE CancelCommit
  BY <1>9 DEF CancelCommit, WriteCancel, Active, NoCancel
<1>10. CASE Crash
  BY <1>10 DEF Crash
<1>11. CASE Recover
  BY <1>11 DEF Recover, Recovered, Active
<1>12. CASE UNCHANGED <<status, cancelReq, work, futures, mgr>>
  BY <1>12
<1> QED BY <1>1, <1>2, <1>3, <1>4, <1>5, <1>6, <1>7, <1>8, <1>9, <1>10, <1>11, <1>12
        DEF Next, MgrStep, vars, DrainFails, SetLimit, CancelRead

\* First come, first served, whatever races with the rows, when the database refuses
\* nothing.
THEOREM OldestFirst ==
  ASSUME "database" \notin Windows
  PROVE  Spec => NoOvertaking
<1> DEFINE Fair == \A j \in Jobs : status[j] # "running" /\ work'[j] = "working" =>
                     \A k \in Waiting : k > j
<1>1. Init => TypeInv /\ WorkInv /\ Ordered
  BY WorkInit DEF Init, Ordered, FreeMgr, Jobs
<1>2. TypeInv /\ WorkInv /\ Ordered /\ [Next]_vars => (TypeInv /\ WorkInv /\ Ordered)'
  BY NextType, WorkStep, OrderedStep
<1>3. TypeInv /\ WorkInv /\ Ordered /\ [Next]_vars => [Fair]_vars
  <2> SUFFICES ASSUME TypeInv, WorkInv, Ordered, [Next]_vars, NEW j \in Jobs, work'[j] = "working"
               PROVE  j \in futures
    BY DEF Ordered
  <2> USE DEF TypeInv, TypeOK, rowVars, poolVars
  <2>1. ASSUME NEW i \in Jobs, WorkerStep(i) \/ Fail(i) PROVE work[j] # "none"
    BY <2>1, WorkerFrame
  <2>2. ASSUME NEW i \in Jobs, Submit(i) \/ Complete(i) PROVE work[j] # "none"
    BY <2>2 DEF Submit, Complete, Goto
  <2>3. CASE UNCHANGED work
    BY <2>3 DEF WorkInv
  <2>4. ~ Crash
    BY DEF Crash
  <2> QED BY <2>1, <2>2, <2>3, <2>4 DEF WorkInv, Next, MgrStep, vars, Start, Select, DrainFails,
       AddCallback, SetLimit, Refresh, Cancel, CancelRead, CancelCommit, StaleCleanup, Recover
<1> QED BY <1>1, <1>2, <1>3, PTL DEF Spec, NoOvertaking
=============================================================================
