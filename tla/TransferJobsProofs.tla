------------------------- MODULE TransferJobsProofs -------------------------
(* What holds of TransferJobs for any number of jobs, messages, threads,     *)
(* attempts and crashes, and in every window.                                *)
EXTENDS TransferJobs, FiniteSetTheorems, WellFoundedInduction, TLAPS

\* A set of numbers has a smallest one, so Message(j) is one of the messages to do.
LEMMA SmallestExists ==
  ASSUME NEW S \in SUBSET Nat, S # {}
  PROVE  \E x \in S : \A y \in S : x =< y
<1> DEFINE R == {ss \in Nat \X Nat : ss[1] < ss[2]}
<1>1. IsWellFoundedOn(R, Nat)
  BY NatLessThanWellFounded, Zenon DEF OpToRel
<1>2. PICK x \in S : \A y \in S : ~ (<<y, x>> \in R)
  <2> HIDE DEF R
  <2> QED BY <1>1, WFMin
<1>3. \A y \in S : ~ (y < x)
  BY <1>2
<1> QED BY <1>3

LEMMA MessageIsOneToDo ==
  ASSUME NEW j \in Jobs, todo[j] \in SUBSET Messages, todo[j] # {}
  PROVE  Message(j) \in todo[j]
<1>1. todo[j] \in SUBSET Nat
  BY TransferAssumption
<1>2. \E x \in todo[j] : \A y \in todo[j] : x =< y
  BY <1>1, SmallestExists
<1> QED BY <1>2 DEF Message, Min

LEMMA Bounds ==
  /\ Attempts \in Nat \ {0} /\ MaxCrashes \in Nat /\ MaxJobs \in Nat
  /\ Messages # {} /\ 0 \notin Jobs
BY TransferAssumption DEF Jobs

-----------------------------------------------------------------------------
(* Types *)

\* A worker at a message has it still to do, and one that reconnects has an attempt
\* left; the manager's lock is held for a job that was submitted.
AtMessage == {"check", "search", "deliver", "reconnect"}
WorkerInv ==
  /\ \A j \in Jobs : pc[j] \in AtMessage => todo[j] # {}
  /\ \A j \in Jobs : pc[j] = "reconnect" => attempt[j] < Attempts
LockInv == lock # 0 => lock \in submitted

TypeInv == TypeOK /\ WorkerInv /\ LockInv

LEMMA InitType == Init => TypeInv
<1> SUFFICES ASSUME Init PROVE TypeInv
  OBVIOUS
<1>1. RowType /\ ManagerType /\ LockInv
  BY DEF Init, RowType, ManagerType, LockInv
<1>2. WorkerType /\ WorkerInv
  BY Bounds DEF Init, WorkerType, WorkerInv, Places, AtMessage
<1>3. OutsideType
  BY Bounds DEF Init, OutsideType, NoCancel
<1> QED BY <1>1, <1>2, <1>3 DEF TypeInv, TypeOK

LEMMA RowStep == TypeOK /\ [Next]_vars => RowType'
<1> SUFFICES ASSUME TypeOK, [Next]_vars PROVE RowType'
  OBVIOUS
<1> USE DEF TypeOK, RowType, row, SetStatus, Active, Terminal
<1>1. ASSUME NEW j \in Jobs, Ask(j) PROVE RowType'
  BY <1>1 DEF Ask, CheckQuota, Refuse, Create, CancelRead
<1>2. ASSUME NEW j \in Jobs, CancelCommit(j) PROVE RowType'
  BY <1>2 DEF CancelCommit, WriteCancel
<1>3. ASSUME NEW j \in Jobs, Manage(j) PROVE RowType'
  BY <1>3 DEF Manage, Submit, Register, Done
<1>4. ASSUME NEW j \in Jobs, Begin(j) \/ Search(j) \/ Deliver(j) \/ DeliverFails(j)
                               \/ Reconnect(j) \/ Report(j) \/ CommitRefused(j) \/ ConnectFails(j)
      PROVE  RowType'
  BY <1>4 DEF Begin, Search, Deliver, DeliverFails, Reconnect, Report, CommitRefused, ConnectFails
<1>5. ASSUME NEW j \in Jobs, Connect(j) \/ Check(j) \/ Finish(j) \/ Cancelled(j) \/ Fail(j)
      PROVE  RowType'
  BY <1>5 DEF Connect, Check, Finish, Cancelled, Fail, End
<1>6. CASE Crash
  BY <1>6 DEF Crash
<1>7. CASE Recover
  BY <1>7 DEF Recover, Recovered, Interrupted
<1>8. CASE UNCHANGED vars
  BY <1>8 DEF vars
<1> QED BY <1>1, <1>2, <1>3, <1>4, <1>5, <1>6, <1>7, <1>8 DEF Next, Work, Rest

LEMMA ManagerStep == TypeOK /\ LockInv /\ [Next]_vars => (ManagerType /\ LockInv)'
<1> DEFINE P == ManagerType /\ LockInv
<1> SUFFICES ASSUME TypeOK, P, [Next]_vars PROVE P'
  BY DEF TypeOK
<1> USE Bounds DEF ManagerType, LockInv, manager
<1>1. ASSUME NEW j \in Jobs, Ask(j) \/ CancelCommit(j) PROVE P'
  BY <1>1 DEF Ask, CheckQuota, Refuse, Create, CancelRead, CancelCommit
<1>2. ASSUME NEW j \in Jobs, Submit(j) PROVE P'
  BY <1>2 DEF Submit
<1>3. ASSUME NEW j \in Jobs, Register(j) \/ Done(j) PROVE P'
  BY <1>3 DEF Register, Done, Queued
<1>4. ASSUME NEW j \in Jobs, Begin(j) PROVE P'
  BY <1>4 DEF Begin
<1>5. ASSUME NEW j \in Jobs, Connect(j) \/ ConnectFails(j) \/ Check(j) \/ Search(j) \/ Deliver(j)
                               \/ DeliverFails(j) \/ Reconnect(j)
      PROVE  P'
  BY <1>5 DEF Connect, ConnectFails, Check, Search, Deliver, DeliverFails, Reconnect
<1>6. ASSUME NEW j \in Jobs, Finish(j) \/ Report(j) \/ Cancelled(j) \/ Fail(j) \/ CommitRefused(j)
      PROVE  P'
  BY <1>6 DEF Finish, Report, Cancelled, Fail, CommitRefused
<1>7. CASE Crash
  BY <1>7 DEF Crash
<1>8. CASE Recover
  BY <1>8 DEF Recover
<1>9. CASE UNCHANGED vars
  BY <1>9 DEF vars
<1> QED
  BY <1>1, <1>2, <1>3, <1>4, <1>5, <1>6, <1>7, <1>8, <1>9 DEF Next, Manage, Work, Rest

\* The steps that go on to the next message.
LEMMA ProceedStep ==
  ASSUME WorkerType, WorkerInv, NEW j \in Jobs, pc[j] \in AtMessage,
         NEW U \in SUBSET {Message(j)}, Proceed(j, U)
  PROVE  (WorkerType /\ WorkerInv)'
<1>1. todo[j] # {} /\ todo[j] \in SUBSET Messages
  BY DEF WorkerType, WorkerInv
<1>2. Message(j) \in todo[j] /\ Message(j) \in Messages
  BY <1>1, MessageIsOneToDo
<1> DEFINE m == Message(j)
<1> HIDE DEF m
<1>3. /\ todo' = [todo EXCEPT ![j] = @ \ {m}] /\ attempt' = [attempt EXCEPT ![j] = 1]
      /\ failed' = [failed EXCEPT ![j] = @ \cup U] /\ U \subseteq {m}
      /\ pc' = [pc EXCEPT ![j] = IF todo[j] = {m} THEN "finish" ELSE "check"]
  BY DEF Proceed, Goto, m
<1>4. m \in todo[j] /\ m \in Messages
  BY <1>2 DEF m
<1>5. WorkerType'
  BY <1>1, <1>3, <1>4, Bounds DEF WorkerType, Places
<1>6. WorkerInv'
  BY <1>1, <1>3, <1>4, Bounds DEF WorkerType, WorkerInv, AtMessage
<1> QED BY <1>5, <1>6

LEMMA WorkerStep == TypeOK /\ WorkerInv /\ [Next]_vars => (WorkerType /\ WorkerInv)'
<1> DEFINE P == WorkerType /\ WorkerInv
<1> SUFFICES ASSUME TypeOK, P, [Next]_vars PROVE P'
  BY DEF TypeOK
<1> USE Bounds DEF WorkerType, WorkerInv, AtMessage, Places, worker, Goto
<1>1. ASSUME NEW j \in Jobs, Ask(j) \/ CancelCommit(j) PROVE P'
  BY <1>1 DEF Ask, CheckQuota, Refuse, Create, CancelRead, CancelCommit
<1>2. ASSUME NEW j \in Jobs, Submit(j) PROVE P'
  BY <1>2 DEF Submit
<1>3. ASSUME NEW j \in Jobs, Register(j) \/ Done(j) PROVE P'
  BY <1>3 DEF Register, Done
<1>4. ASSUME NEW j \in Jobs, Begin(j) PROVE P'
  BY <1>4 DEF Begin
<1>5. ASSUME NEW j \in Jobs, Connect(j) PROVE P'
  BY <1>5 DEF Connect, At
<1>6. ASSUME NEW j \in Jobs, Check(j) PROVE P'
  BY <1>6 DEF Check, At
<1>7. ASSUME NEW j \in Jobs, Search(j) PROVE P'
  <2>1. CASE Proceed(j, {Message(j)}) \/ Proceed(j, {})
    BY <1>7, <2>1, ProceedStep DEF Search, At
  <2>2. CASE Goto(j, "deliver") /\ UNCHANGED <<todo, attempt, failed>>
    BY <1>7, <2>2 DEF Search, At
  <2> QED BY <1>7, <2>1, <2>2 DEF Search
<1>8. ASSUME NEW j \in Jobs, Deliver(j) PROVE P'
  BY <1>8, ProceedStep DEF Deliver, At
<1>9. ASSUME NEW j \in Jobs, DeliverFails(j) PROVE P'
  <2>1. CASE attempt[j] < Attempts
    BY <1>9, <2>1 DEF DeliverFails, At
  <2>2. CASE ~ (attempt[j] < Attempts)
    BY <1>9, <2>2, ProceedStep DEF DeliverFails, At
  <2> QED BY <2>1, <2>2
<1>10. ASSUME NEW j \in Jobs, Reconnect(j) PROVE P'
  <2>1. CASE Proceed(j, {Message(j)})
    BY <1>10, <2>1, ProceedStep DEF Reconnect, At
  <2>2. CASE attempt' = [attempt EXCEPT ![j] = @ + 1] /\ Goto(j, "deliver")
             /\ UNCHANGED <<todo, failed>>
    BY <1>10, <2>2 DEF Reconnect, At
  <2> QED BY <1>10, <2>1, <2>2 DEF Reconnect
<1>11. ASSUME NEW j \in Jobs, ConnectFails(j) \/ Report(j) \/ CommitRefused(j) PROVE P'
  BY <1>11 DEF ConnectFails, Report, CommitRefused
<1>12. ASSUME NEW j \in Jobs, Finish(j) \/ Cancelled(j) \/ Fail(j) PROVE P'
  BY <1>12 DEF Finish, Cancelled, Fail, End
<1>13. CASE Crash
  BY <1>13 DEF Crash
<1>14. CASE Recover
  BY <1>14 DEF Recover
<1>15. CASE UNCHANGED vars
  BY <1>15 DEF vars
<1> QED
  BY <1>1, <1>2, <1>3, <1>4, <1>5, <1>6, <1>7, <1>8, <1>9, <1>10, <1>11, <1>12, <1>13, <1>14,
     <1>15 DEF Next, Manage, Work, Rest

LEMMA OutsideStep == TypeOK /\ WorkerInv /\ [Next]_vars => OutsideType'
<1> SUFFICES ASSUME TypeOK, WorkerInv, [Next]_vars PROVE OutsideType'
  OBVIOUS
<1>m. ASSUME NEW j \in Jobs, pc[j] = "deliver" PROVE Message(j) \in Messages
  <2>1. todo[j] # {} /\ todo[j] \in SUBSET Messages
    BY <1>m DEF TypeOK, WorkerType, WorkerInv, AtMessage
  <2> QED BY <2>1, MessageIsOneToDo
<1> USE Bounds DEF TypeOK, OutsideType, request, mailbox, process
<1>1. ASSUME NEW j \in Jobs, CheckQuota(j) \/ Refuse(j) \/ Create(j) PROVE OutsideType'
  BY <1>1 DEF CheckQuota, Refuse, Create
<1>2. ASSUME NEW j \in Jobs, CancelRead(j) PROVE OutsideType'
  BY <1>2 DEF CancelRead, Active
<1>3. ASSUME NEW j \in Jobs, CancelCommit(j) PROVE OutsideType'
  BY <1>3 DEF CancelCommit, NoCancel
<1>4. ASSUME NEW j \in Jobs, Manage(j) PROVE OutsideType'
  BY <1>4 DEF Manage, Submit, Register, Done
<1>5. ASSUME NEW j \in Jobs, Deliver(j) \/ DeliverFails(j) PROVE OutsideType'
  BY <1>5, <1>m DEF Deliver, DeliverFails, Arrives, At
<1>6. ASSUME NEW j \in Jobs, Begin(j) \/ Connect(j) \/ ConnectFails(j) \/ Check(j) \/ Search(j)
                               \/ Reconnect(j)
      PROVE  OutsideType'
  BY <1>6 DEF Begin, Connect, ConnectFails, Check, Search, Reconnect
<1>7. ASSUME NEW j \in Jobs, Finish(j) \/ Report(j) \/ Cancelled(j) \/ Fail(j) \/ CommitRefused(j)
      PROVE  OutsideType'
  BY <1>7 DEF Finish, Report, Cancelled, Fail, CommitRefused
<1>8. CASE Crash
  <2>1. crashes' \in 0..MaxCrashes
    <3>1. crashes \in Nat /\ crashes < MaxCrashes /\ crashes' = crashes + 1
      BY <1>8 DEF Crash
    <3> QED BY <3>1
  <2>2. canceller' \in [job : {0} \cup Jobs, seen : Active \cup {"none"}]
    BY <1>8 DEF Crash, NoCancel
  <2> QED BY <1>8, <2>1, <2>2 DEF Crash
<1>9. CASE Recover
  BY <1>9 DEF Recover
<1>10. CASE UNCHANGED vars
  BY <1>10 DEF vars
<1> QED
  BY <1>1, <1>2, <1>3, <1>4, <1>5, <1>6, <1>7, <1>8, <1>9, <1>10 DEF Next, Ask, Work, Rest

LEMMA NextType == TypeInv /\ [Next]_vars => TypeInv'
BY RowStep, ManagerStep, WorkerStep, OutsideStep DEF TypeInv, TypeOK

\* Every variable keeps its type, whatever races and faults there are.
THEOREM TypeCorrect == Spec => []TypeOK
<1>1. TypeInv => TypeOK
  BY DEF TypeInv
<1> QED BY InitType, NextType, <1>1, PTL DEF Spec

-----------------------------------------------------------------------------
(* Passwords *)

\* The statuses of TypeOK and SecretsErased are inductive together: a step that ends
\* a job erases its password, and only the insertion of a row stores one.
LEMMA SecretsStep == TypeOK /\ SecretsErased /\ [Next]_vars => SecretsErased'
<1> SUFFICES ASSUME TypeOK, SecretsErased, [Next]_vars PROVE SecretsErased'
  OBVIOUS
<1> USE DEF TypeOK, RowType, SecretsErased, row, SetStatus, Active, Terminal
<1>1. ASSUME NEW j \in Jobs, Ask(j) PROVE SecretsErased'
  BY <1>1 DEF Ask, CheckQuota, Refuse, Create, CancelRead
<1>2. ASSUME NEW j \in Jobs, CancelCommit(j) PROVE SecretsErased'
  BY <1>2 DEF CancelCommit, WriteCancel
<1>3. ASSUME NEW j \in Jobs, Manage(j) PROVE SecretsErased'
  BY <1>3 DEF Manage, Submit, Register, Done
<1>4. ASSUME NEW j \in Jobs, Begin(j) \/ Search(j) \/ Deliver(j) \/ DeliverFails(j)
                               \/ Reconnect(j) \/ Report(j) \/ CommitRefused(j) \/ ConnectFails(j)
      PROVE  SecretsErased'
  BY <1>4 DEF Begin, Search, Deliver, DeliverFails, Reconnect, Report, CommitRefused, ConnectFails
<1>5. ASSUME NEW j \in Jobs, Connect(j) \/ Check(j) PROVE SecretsErased'
  BY <1>5 DEF Connect, Check
<1>6. ASSUME NEW j \in Jobs, Finish(j) \/ Cancelled(j) \/ Fail(j) PROVE SecretsErased'
  BY <1>6 DEF Finish, Cancelled, Fail, End
<1>7. CASE Crash
  BY <1>7 DEF Crash
<1>8. CASE Recover
  BY <1>8 DEF Recover, Recovered, Interrupted
<1>9. CASE UNCHANGED vars
  BY <1>9 DEF vars
<1> QED BY <1>1, <1>2, <1>3, <1>4, <1>5, <1>6, <1>7, <1>8, <1>9 DEF Next, Work, Rest

\* Temporary passwords are erased when a job ends, whatever races with its end.
THEOREM PasswordsAreErased == Spec => []SecretsErased
<1>1. Init => SecretsErased
  BY DEF Init, SecretsErased
<1>2. TypeOK /\ SecretsErased /\ [Next]_vars => SecretsErased'
  BY SecretsStep
<1> QED BY <1>1, <1>2, TypeCorrect, PTL DEF Spec

-----------------------------------------------------------------------------
(* Deliveries *)

\* With one thread in the pool no two jobs are at work.
OneAtWork == \A j, k \in Working : j = k

\* A job that is to deliver a message, or to try again, has not delivered it.
NotYet == \A j \in Jobs : pc[j] \in {"deliver", "reconnect"} => Message(j) \notin delivered

\* What a job has not still to do, it has delivered or counted as failed; while it
\* is at that, its row does not say completed.
OnTheWay == AtMessage \cup {"finish"}
Accounted ==
  \A j \in Jobs :
    /\ pc[j] \in OnTheWay => Messages \ todo[j] \subseteq delivered \cup failed[j]
    /\ pc[j] = "finish" => todo[j] = {}
    /\ pc[j] \in OnTheWay \cup {"connect"} => status[j] # "completed"

DeliveryInv == TypeInv /\ OneAtWork /\ NotYet /\ Accounted /\ DeliveredOnce

LEMMA InitDelivery == Init => DeliveryInv
<1> SUFFICES ASSUME Init PROVE DeliveryInv
  OBVIOUS
<1>1. OneAtWork /\ NotYet /\ Accounted /\ DeliveredOnce
  BY DEF Init, OneAtWork, Working, NotYet, Accounted, OnTheWay, AtMessage, DeliveredOnce
<1> QED BY <1>1, InitType DEF DeliveryInv

\* Only Begin puts a job to work, and only if no other is.
LEMMA OneAtWorkStep ==
  ASSUME TypeInv, OneAtWork, Workers = 1, [Next]_vars
  PROVE  OneAtWork'
<1> USE DEF OneAtWork, Working, TypeInv, TypeOK, WorkerType, worker, Goto, At
<1>1. ASSUME NEW j \in Jobs, Begin(j) PROVE OneAtWork'
  <2>1. IsFiniteSet(Working)
    <3>1. IsFiniteSet(Jobs)
      BY Bounds, FS_Interval DEF Jobs
    <3> QED BY <3>1, FS_Subset
  <2>2. Cardinality(Working) < 1 /\ Cardinality(Working) \in Nat
    BY <1>1, <2>1, FS_CardinalityType DEF Begin
  <2>3. Working = {}
    BY <2>1, <2>2, FS_EmptySet
  <2> QED BY <1>1, <2>3 DEF Begin
<1>2. ASSUME NEW j \in Jobs, Ask(j) \/ CancelCommit(j) PROVE OneAtWork'
  BY <1>2 DEF Ask, CheckQuota, Refuse, Create, CancelRead, CancelCommit
<1>3. ASSUME NEW j \in Jobs, Manage(j) PROVE OneAtWork'
  BY <1>3 DEF Manage, Submit, Register, Done
<1>4. ASSUME NEW j \in Jobs, Connect(j) \/ ConnectFails(j) \/ Check(j) \/ CommitRefused(j)
      PROVE  OneAtWork'
  BY <1>4 DEF Connect, ConnectFails, Check, CommitRefused
<1>5. ASSUME NEW j \in Jobs, Search(j) \/ Deliver(j) \/ DeliverFails(j) \/ Reconnect(j)
      PROVE  OneAtWork'
  BY <1>5 DEF Search, Deliver, DeliverFails, Reconnect, Proceed
<1>6. ASSUME NEW j \in Jobs, Finish(j) \/ Report(j) \/ Cancelled(j) \/ Fail(j)
      PROVE  OneAtWork'
  BY <1>6 DEF Finish, Report, Cancelled, Fail, End
<1>7. CASE Crash
  BY <1>7 DEF Crash
<1>8. CASE Recover
  BY <1>8 DEF Recover
<1>9. CASE UNCHANGED vars
  BY <1>9 DEF vars
<1> QED BY <1>1, <1>2, <1>3, <1>4, <1>5, <1>6, <1>7, <1>8, <1>9 DEF Next, Work, Rest

\* What the three parts say is kept by a step that goes on to the next message.
LEMMA ProceedDelivery ==
  ASSUME DeliveryInv, NEW j \in Jobs, pc[j] \in AtMessage,
         NEW U \in SUBSET {Message(j)}, Proceed(j, U), UNCHANGED status,
         delivered \subseteq delivered', Message(j) \in U \cup delivered'
  PROVE  /\ NotYet' /\ Accounted'
         /\ \A k \in Jobs : status'[k] = "completed" => Messages \subseteq delivered' \cup failed'[k]
<1> DEFINE m == Message(j)
<1>1. /\ todo' = [todo EXCEPT ![j] = @ \ {m}] /\ failed' = [failed EXCEPT ![j] = @ \cup U]
      /\ pc' = [pc EXCEPT ![j] = IF todo[j] = {m} THEN "finish" ELSE "check"]
      /\ m \in U \cup delivered' /\ U \subseteq {m}
  BY DEF Proceed, Goto
<1> HIDE DEF m
<1>2. \A k \in Jobs : pc[k] \in AtMessage \cup {"finish", "connect"} => k = j
  BY DEF DeliveryInv, OneAtWork, Working, AtMessage
<1> USE DEF DeliveryInv, TypeInv, TypeOK, WorkerType
<1>3. NotYet'
  BY <1>1, <1>2 DEF NotYet, AtMessage
<1>4. Accounted'
  BY <1>1, <1>2 DEF Accounted, OnTheWay, AtMessage
<1>5. \A k \in Jobs : status'[k] = "completed" => Messages \subseteq delivered' \cup failed'[k]
  BY <1>1 DEF DeliveredOnce
<1> QED BY <1>3, <1>4, <1>5

LEMMA DeliveryStep ==
  ASSUME DeliveryInv, Workers = 1, "lost" \notin Windows, "search" \notin Windows, [Next]_vars
  PROVE  (NotYet /\ Accounted /\ DeliveredOnce)'
<1> DEFINE P == NotYet /\ Accounted /\ DeliveredOnce
<1> SUFFICES P'
  OBVIOUS
<1>s. \A k \in Jobs : todo'[k] = todo[k] => Message(k)' = Message(k)
  BY DEF Message
<1> USE <1>s DEF DeliveryInv, TypeInv, TypeOK, WorkerType, RowType, NotYet, Accounted, OnTheWay,
      AtMessage, DeliveredOnce, Goto, SetStatus, At, row, worker, manager, request, mailbox
<1>1. ASSUME NEW j \in Jobs, CheckQuota(j) \/ Refuse(j) \/ CancelRead(j) PROVE P'
  BY <1>1 DEF CheckQuota, Refuse, CancelRead
<1>2. ASSUME NEW j \in Jobs, Create(j) PROVE P'
  BY <1>2 DEF Create
<1>3. ASSUME NEW j \in Jobs, CancelCommit(j) PROVE P'
  BY <1>3 DEF CancelCommit, WriteCancel
<1>4. ASSUME NEW j \in Jobs, Manage(j) PROVE P'
  BY <1>4 DEF Manage, Submit, Register, Done
<1>5. ASSUME NEW j \in Jobs, Begin(j) PROVE P'
  BY <1>5 DEF Begin
<1>6. ASSUME NEW j \in Jobs, Connect(j) PROVE P'
  BY <1>6 DEF Connect
<1>7. ASSUME NEW j \in Jobs, Check(j) PROVE P'
  BY <1>7 DEF Check
<1>8. ASSUME NEW j \in Jobs, Search(j) PROVE P'
  <2>1. CASE Proceed(j, {Message(j)})
    BY <1>8, <2>1, ProceedDelivery DEF Search
  <2>2. CASE Message(j) \in delivered /\ Proceed(j, {})
    BY <1>8, <2>2, ProceedDelivery DEF Search
  <2>3. CASE Message(j) \notin delivered /\ Goto(j, "deliver")
             /\ UNCHANGED <<todo, attempt, failed>>
    BY <1>8, <2>3 DEF Search
  <2> QED BY <1>8, <2>1, <2>2, <2>3 DEF Search
<1>9. ASSUME NEW j \in Jobs, Deliver(j) PROVE P'
  <2>1. duplicated' = {} /\ Message(j) \in delivered' /\ delivered \subseteq delivered'
    BY <1>9 DEF Deliver, Arrives
  <2> QED BY <1>9, <2>1, ProceedDelivery DEF Deliver
<1>10. ASSUME NEW j \in Jobs, DeliverFails(j) PROVE P'
  <2>1. CASE attempt[j] < Attempts
    BY <1>10, <2>1 DEF DeliverFails
  <2>2. CASE ~ (attempt[j] < Attempts)
    BY <1>10, <2>2, ProceedDelivery DEF DeliverFails
  <2> QED BY <2>1, <2>2
<1>11. ASSUME NEW j \in Jobs, Reconnect(j) PROVE P'
  <2>1. CASE Proceed(j, {Message(j)})
    BY <1>11, <2>1, ProceedDelivery DEF Reconnect
  <2>2. CASE Goto(j, "deliver") /\ UNCHANGED <<todo, failed>>
    BY <1>11, <2>2 DEF Reconnect
  <2> QED BY <1>11, <2>1, <2>2 DEF Reconnect
<1>12. ASSUME NEW j \in Jobs, Finish(j) PROVE P'
  BY <1>12 DEF Finish, End
<1>13. ASSUME NEW j \in Jobs, ConnectFails(j) \/ Report(j) \/ CommitRefused(j) PROVE P'
  BY <1>13 DEF ConnectFails, Report, CommitRefused
<1>14. ASSUME NEW j \in Jobs, Cancelled(j) \/ Fail(j) PROVE P'
  BY <1>14 DEF Cancelled, Fail, End
<1>15. CASE Crash
  BY <1>15 DEF Crash
<1>16. CASE Recover
  BY <1>16 DEF Recover, Recovered
<1>17. CASE UNCHANGED vars
  BY <1>17 DEF vars
<1> QED
  BY <1>1, <1>2, <1>3, <1>4, <1>5, <1>6, <1>7, <1>8, <1>9, <1>10, <1>11, <1>12, <1>13, <1>14,
     <1>15, <1>16, <1>17 DEF Next, Ask, Work, Rest

LEMMA NextDelivery ==
  ASSUME Workers = 1, "lost" \notin Windows, "search" \notin Windows
  PROVE  DeliveryInv /\ [Next]_vars => DeliveryInv'
BY NextType, OneAtWorkStep, DeliveryStep DEF DeliveryInv

\* A completed transfer has put every message into the mailbox or counts it as failed, and
\* no message arrives twice, after a restart either: provided the pool has one thread
\* and the destination's answers are not lost.  (With more threads, or without them,
\* it does not hold.)
THEOREM NothingArrivesTwice ==
  ASSUME Workers = 1, "lost" \notin Windows, "search" \notin Windows
  PROVE  Spec => []DeliveredOnce
<1>1. DeliveryInv => DeliveredOnce
  BY DEF DeliveryInv
<1> QED BY InitDelivery, NextDelivery, <1>1, PTL DEF Spec
=============================================================================
