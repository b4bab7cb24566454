------------------------ MODULE ArchiveImportProofs ------------------------
(* What holds of ArchiveImport for any number of imports, row ids, accounts  *)
(* and crashes, in the windows each theorem admits.                          *)
EXTENDS ArchiveImport, FiniteSetTheorems, TLAPS

-----------------------------------------------------------------------------
(* The inductive invariants *)

Early  == {"receive", "queued", "check", "unpack"}
Begun  == {"inserted", "stored", "filled", "renamed"}
Stages == Working \cup {"idle", "receive", "queued", "check", "done", "undo", "sweep"}

\* Where a thread is, what it holds of row ids, and what its job's status says.
PlaceOK(i) ==
  /\ pc[i] \in Early \cup {"idle"} => aid[i] = 0 /\ sid[i] = 0 /\ ~landed[i]
  /\ pc[i] = "inserted" <=> writer = i
  /\ pc[i] = "inserted" => ~landed[i]
  /\ pc[i] \in {"stored", "filled", "renamed", "done"} => landed[i]
  /\ pc[i] = "inserted" \/ landed[i] => aid[i] \in Ids /\ sid[i] \in Ids
  /\ pc[i] = "idle" => status[i] \notin {"queued", "running"}
  /\ pc[i] = "receive" => status[i] = "none"
  /\ pc[i] \notin {"idle", "receive"} => status[i] \in {"queued", "running"}
  /\ status[i] = "none" \/ pc[i] = "queued" => part[i] = 1
  /\ temp[i] => status[i] \in {"queued", "running", "lost"} \/ pc[i] = "receive"
PlaceInv ==
  /\ \A i \in Imports : PlaceOK(i)
  /\ ~up => doomed = {} /\ \A i \in Imports : pc[i] = "idle"

\* Each version is of an account of the same import, has that import's messages, and
\* there is one of each for an import; what is current is completed.
TableInv ==
  /\ \A n \in Ids : version[n] # None =>
       under[n] \in Ids /\ account[under[n]] = version[n] /\ content[n] = {version[n]}
  /\ \A n \in Ids : version[n] = None => under[n] = 0 /\ n \notin completed
  /\ \A m, n \in Ids : account[m] # None /\ account[m] = account[n] => m = n
  /\ \A m, n \in Ids : version[m] # None /\ version[m] = version[n] => m = n
  /\ \A a \in Ids : active[a] # 0 => active[a] \in completed /\ under[active[a]] = a

\* A part whose rows have not been inserted yet.
Fresh(i, p) ==
  \/ p > part[i]
  \/ p = part[i] /\ (pc[i] \in Early \/ (pc[i] = "idle" /\ status[i] = "none"))
FreshInv ==
  \A i \in Imports, p \in {1, 2} : Fresh(i, p) =>
    /\ \A n \in Ids : account[n] # <<i, p>> /\ version[n] # <<i, p>>
    /\ <<i, p>> \notin stored \cup doomed
    /\ <<i, p>> \in staged => pc[i] = "unpack" /\ p = part[i]

\* While a thread is at an account its rows are there, and its version is staging.
AtRows(i) == pc[i] \in Begun \/ (pc[i] = "undo" /\ landed[i])
HeldInv ==
  /\ \A i \in Imports : AtRows(i) => account[aid[i]] = Unit(i) /\ version[sid[i]] = Unit(i)
  /\ \A i \in Imports : pc[i] = "undo" /\ ~landed[i] /\ aid[i] # 0 =>
       aid[i] \in Ids /\ account[aid[i]] = None

\* The directory of a completed version is there, and nothing is about to remove it.
KeptInv ==
  /\ \A i \in Imports, n \in Ids :
       pc[i] \in Begun \cup {"undo", "sweep"} /\ version[n] = Unit(i) => n \notin completed
  /\ \A i \in Imports : pc[i] = "renamed" => Unit(i) \in stored
  /\ \A u \in doomed : ~InHand(u) /\ \A n \in Ids : version[n] # u
  /\ \A n \in completed : version[n] \in stored

Steady == {"owner", "reuse"} \cap Windows = {}
WholeInv == TypeOK /\ PlaceInv /\ TableInv /\ FreshInv /\ HeldInv /\ KeptInv

\* When a thread gives up, its rows are gone before its directories; and when it is
\* done, the account it knows is the only one its part has.
UndoneInv ==
  \A i \in Imports :
    /\ pc[i] = "sweep" \/ (pc[i] = "undo" /\ ~landed[i]) =>
         \A n \in Ids : Unit(i) \notin {account[n], version[n]}
    /\ pc[i] = "done" => \A n \in Ids : account[n] = Unit(i) => n = aid[i]

\* After a crash, what has its final name and will not be removed is completed.
StoppedInv ==
  ~up => \A u \in stored \ abandoned : \E n \in completed : version[n] = u

Calm == {"owner", "reuse", "barred"} \cap Windows = {}
CleanInv == WholeInv /\ UndoneInv /\ StoppedInv /\ FailureLeavesNothing /\ NothingLeaks

-----------------------------------------------------------------------------
(* Types and places *)

LEMMA Constants ==
  /\ MaxId \in Nat \ {0} /\ Ids \subseteq Nat \ {0} /\ 0 \notin Ids /\ None \notin Imports
  /\ \A n \in Ids : n \in 0..MaxId
  /\ \A i \in Imports, p \in {1, 2} : <<i, p>> \in Parts /\ <<i, p>> # None
BY ImportBounds, NoneIsNoImport DEF Ids, Parts

LEMMA UnitIsAPart ==
  ASSUME TypeOK, NEW i \in Imports
  PROVE  Unit(i) \in Parts \ {None} /\ part[i] \in {1, 2} /\ Unit(i) = <<i, part[i]>>
BY Constants DEF TypeOK, Unit

\* SQLite gives out an id that no row has.
LEMMA NextIdIsNew ==
  ASSUME NEW table, NextId(table) \in Ids
  PROVE  table[NextId(table)] = None
<1> DEFINE S == RowsOf(table) \cup {0}
           R == {ss \in Nat \X Nat : ss[1] < ss[2]}
           U == {n \in Nat : \A y \in S : n >= y}
<1>1. S \subseteq 0..MaxId /\ 0 \in S /\ MaxId \in Nat
  BY Constants DEF RowsOf, Ids
<1>2. IsWellFoundedOn(R, Nat)
  BY NatLessThanWellFounded, Zenon DEF OpToRel
<1>3. MaxId \in U
  BY <1>1
<1>4. PICK m \in U : \A n \in U : ~ (<<n, m>> \in R)
  <2> HIDE DEF R, U
  <2>1. U \subseteq Nat /\ U # {}
    BY <1>3 DEF U
  <2> QED BY <1>2, <2>1, WFMin
<1>5. m \in Nat /\ (\A y \in S : m >= y) /\ \A n \in U : ~ (n < m)
  BY <1>4
<1>6. m \in S
  <2> SUFFICES ASSUME m \notin S PROVE FALSE
    OBVIOUS
  <2>1. m # 0 /\ m - 1 \in Nat /\ m - 1 < m
    BY <1>1, <1>5
  <2>2. \A y \in S : m - 1 >= y
    BY <1>1, <1>5
  <2> QED BY <1>5, <2>1, <2>2
<1> HIDE DEF S, R, U
<1>7. \E z \in S : \A y \in S : z >= y
  BY <1>5, <1>6
<1>8. Max(S) \in S /\ \A y \in S : Max(S) >= y
  BY <1>7 DEF Max
<1>9. NextId(table) \notin S
  <2>1. Max(S) \in Nat /\ NextId(table) = 1 + Max(S)
    BY <1>1, <1>8 DEF NextId, S
  <2> QED BY <1>1, <1>8, <2>1
<1> QED BY <1>9 DEF S, RowsOf

\* What Rollback, Forget, Recover and the owner do to the tables.
LEMMA DropTypes ==
  ASSUME TypeOK, NEW a, NEW out \in SUBSET Ids, DropVersions(a, out)
  PROVE  /\ version' \in [Ids -> Parts] /\ under' \in [Ids -> 0..MaxId]
         /\ completed' \in SUBSET Ids /\ active' \in [Ids -> 0..MaxId]
         /\ content' \in [Ids -> SUBSET (Parts \ {None})]
BY Constants DEF TypeOK, DropVersions, Parts

LEMMA EndTypes ==
  ASSUME TypeOK, NEW i \in Imports, NEW o \in Over, EndJob(i, o)
  PROVE  /\ status' \in [Imports -> Over \cup {"queued", "running"}]
         /\ temp' \in [Imports -> BOOLEAN] /\ pc' \in [Imports -> Stages]
         /\ landed' \in [Imports -> BOOLEAN] /\ aid' \in [Imports -> 0..MaxId]
         /\ sid' \in [Imports -> 0..MaxId] /\ UNCHANGED <<kind, part>>
BY Constants DEF TypeOK, EndJob, Goto, Stages

LEMMA TypeStep == TypeOK /\ PlaceInv /\ [Next]_vars => TypeOK'
<1> SUFFICES ASSUME TypeOK, PlaceInv, [Next]_vars PROVE TypeOK'
  OBVIOUS
<1> USE DEF jobs, thread, tables, disk, world, Goto
<1>1. ASSUME NEW i \in Imports, NEW k \in Kinds, Request(i, k) PROVE TypeOK'
  BY <1>1 DEF Request, TypeOK
<1>2. ASSUME NEW i \in Imports, Accept(i) \/ RefuseUpload(i) \/ Run(i) PROVE TypeOK'
  <2>1. CASE Accept(i)
    BY <2>1 DEF Accept, TypeOK
  <2>2. CASE RefuseUpload(i)
    BY <2>2 DEF RefuseUpload, TypeOK
  <2>3. CASE Run(i)
    <3>1. PICK p \in {1, 2} : part' = [part EXCEPT ![i] = p]
      BY <2>3 DEF Run
    <3> QED BY <2>3, <3>1 DEF Run, TypeOK
  <2> QED BY <1>2, <2>1, <2>2, <2>3
<1>3. ASSUME NEW i \in Imports, Stage(i) \/ Land(i) \/ Rename(i) PROVE TypeOK'
  <2>1. Unit(i) \in Parts \ {None}
    BY UnitIsAPart
  <2>2. CASE Stage(i)
    BY <2>1, <2>2 DEF Stage, TypeOK, Working
  <2>3. CASE Land(i)
    BY <2>3 DEF Land, TypeOK, Working
  <2>4. CASE Rename(i)
    BY <2>1, <2>4 DEF Rename, TypeOK, Working
  <2> QED BY <1>3, <2>2, <2>3, <2>4
<1>4. ASSUME NEW i \in Imports, Insert(i) PROVE TypeOK'
  <2>1. Unit(i) \in Parts \ {None}
    BY UnitIsAPart
  <2>2. NextId(account) \in 0..MaxId /\ NextId(version) \in 0..MaxId
    BY <1>4, Constants DEF Insert
  <2> QED BY <1>4, <2>1, <2>2 DEF Insert, NewRows, TypeOK, Working
<1>5. ASSUME NEW i \in Imports, Batch(i) PROVE TypeOK'
  <2>1. Unit(i) \in Parts \ {None}
    BY UnitIsAPart
  <2> QED BY <1>5, <2>1 DEF Batch, TypeOK, Working
<1>6. ASSUME NEW i \in Imports, Promote(i) PROVE TypeOK'
  <2>1. aid[i] \in Ids /\ sid[i] \in Ids
    BY <1>6 DEF Promote, PlaceInv, PlaceOK
  <2> QED BY <1>6, <2>1, Constants DEF Promote, TypeOK, Working
<1>7. ASSUME NEW i \in Imports, NextPart(i) PROVE TypeOK'
  BY <1>7, Constants DEF NextPart, TypeOK
<1>8. ASSUME NEW i \in Imports, Invalid(i) \/ Finish(i) \/ Sweep(i) PROVE TypeOK'
  <2>1. \E o \in Over : EndJob(i, o)
    BY <1>8 DEF Invalid, Finish, Sweep, Outcome, Over
  <2> QED BY <1>8, <2>1, EndTypes DEF Invalid, Finish, Sweep, TypeOK, Stages
<1>9. ASSUME NEW i \in Imports, Rollback(i) \/ Forget(i) PROVE TypeOK'
  <2>1. UNCHANGED tables \/ DropAccountRow(aid[i])
    BY <1>9 DEF Rollback, Forget
  <2>2. /\ version' \in [Ids -> Parts] /\ under' \in [Ids -> 0..MaxId]
        /\ completed' \in SUBSET Ids /\ active' \in [Ids -> 0..MaxId]
        /\ content' \in [Ids -> SUBSET (Parts \ {None})] /\ account' \in [Ids -> Parts]
    BY <2>1, DropTypes DEF TypeOK, DropAccountRow, Parts
  <2>3. CASE EndJob(i, "failed")
    BY <1>9, <2>2, <2>3, EndTypes DEF Rollback, Forget, TypeOK, Stages, Over
  <2>4. CASE ~EndJob(i, "failed")
    BY <1>9, <2>2, <2>4 DEF Rollback, Forget, TypeOK, Working
  <2> QED BY <2>3, <2>4
<1>10. ASSUME NEW a \in Ids, RemoveAccount(a) \/ ClearArchive(a) PROVE TypeOK'
  <2>1. DropVersions(a, {n \in Ids : under[n] = a}) /\ account[a] \in Parts \ {None}
    BY <1>10 DEF RemoveAccount, ClearArchive, DropAccountRow, Removable, TypeOK
  <2>2. account' \in [Ids -> Parts]
    BY <1>10 DEF RemoveAccount, ClearArchive, DropAccountRow, TypeOK, Parts
  <2> QED BY <1>10, <2>1, <2>2, DropTypes DEF RemoveAccount, ClearArchive, TypeOK
<1>11. ASSUME NEW u \in Parts \ {None}, RemoveFiles(u) PROVE TypeOK'
  BY <1>11 DEF RemoveFiles, TypeOK
<1>12. CASE Crash
  <2>1. UNCHANGED tables \/ DropAccountRow(aid[writer])
    BY <1>12 DEF Crash
  <2>2. /\ version' \in [Ids -> Parts] /\ under' \in [Ids -> 0..MaxId]
        /\ completed' \in SUBSET Ids /\ active' \in [Ids -> 0..MaxId]
        /\ content' \in [Ids -> SUBSET (Parts \ {None})] /\ account' \in [Ids -> Parts]
    <3>1. CASE UNCHANGED tables
      BY <3>1 DEF TypeOK
    <3>2. CASE DropAccountRow(aid[writer])
      <4>1. DropVersions(aid[writer], {n \in Ids : under[n] = aid[writer]})
            /\ account' = [account EXCEPT ![aid[writer]] = None]
        BY <3>2 DEF DropAccountRow
      <4>2. account' \in [Ids -> Parts]
        BY <4>1 DEF TypeOK, Parts
      <4> QED BY <4>1, <4>2, DropTypes
    <3> QED BY <2>1, <3>1, <3>2
  <2>3. abandoned' \in SUBSET (Parts \ {None}) /\ crashes' \in 0..MaxCrashes
    BY <1>12, ImportBounds DEF Crash, TypeOK
  <2>4. /\ pc' = [i \in Imports |-> "idle"] /\ landed' = [i \in Imports |-> FALSE]
        /\ aid' = [i \in Imports |-> 0] /\ sid' = [i \in Imports |-> 0]
        /\ status' = [i \in Imports |-> IF pc[i] = "idle" THEN status[i] ELSE "lost"]
        /\ up' = FALSE /\ writer' = None /\ doomed' = {} /\ UNCHANGED <<kind, temp, part, disk, plus>>
    BY <1>12 DEF Crash
  <2>5. status' \in [Imports -> Over \cup {"queued", "running"}]
    BY <2>4 DEF TypeOK, Over
  <2>6. /\ pc' \in [Imports -> Stages] /\ landed' \in [Imports -> BOOLEAN]
        /\ aid' \in [Imports -> 0..MaxId] /\ sid' \in [Imports -> 0..MaxId]
    BY <2>4, Constants DEF Stages
  <2> QED BY <2>2, <2>3, <2>4, <2>5, <2>6 DEF TypeOK, Stages
<1>13. CASE Recover
  <2>1. DropVersions(0, RowsOf(version) \ completed) /\ RowsOf(version) \ completed \subseteq Ids
    BY <1>13 DEF Recover, RowsOf
  <2> QED BY <1>13, <2>1, DropTypes DEF Recover, TypeOK
<1>14. CASE Rest \/ UNCHANGED vars
  BY <1>14 DEF Rest, vars, TypeOK
<1> QED BY <1>1, <1>2, <1>3, <1>4, <1>5, <1>6, <1>7, <1>8, <1>9, <1>10, <1>11, <1>12, <1>13,
           <1>14 DEF Next, Step

\* A step of one thread.
OthersStay(i) ==
  \A j \in Imports \ {i} :
    /\ pc'[j] = pc[j] /\ aid'[j] = aid[j] /\ sid'[j] = sid[j] /\ landed'[j] = landed[j]
    /\ status'[j] = status[j] /\ part'[j] = part[j] /\ temp'[j] = temp[j] /\ kind'[j] = kind[j]
    /\ writer' = j <=> writer = j

LEMMA PlaceOfThread ==
  ASSUME PlaceInv, NEW i \in Imports, PlaceOK(i)', OthersStay(i),
         UNCHANGED <<up, doomed>>, up \/ pc[i] # "idle"
  PROVE  PlaceInv'
<1>1. up
  BY DEF PlaceInv
<1>2. ASSUME NEW j \in Imports, j # i PROVE PlaceOK(j)'
  BY <1>2 DEF PlaceInv, PlaceOK, OthersStay
<1> QED BY <1>1, <1>2 DEF PlaceInv

LEMMA EndOfJob ==
  ASSUME TypeOK, PlaceInv, NEW i \in Imports, NEW o \in {"completed", "failed"}, EndJob(i, o),
         UNCHANGED writer, pc[i] # "inserted"
  PROVE  PlaceOK(i)' /\ OthersStay(i)
<1>1. /\ pc'[i] = "idle" /\ status'[i] = o /\ ~temp'[i] /\ ~landed'[i]
      /\ aid'[i] = 0 /\ sid'[i] = 0 /\ part' = part
  BY DEF EndJob, Goto, TypeOK
<1>2. PlaceOK(i)'
  BY <1>1 DEF PlaceOK, PlaceInv, Early
<1>3. OthersStay(i)
  BY DEF EndJob, Goto, TypeOK, OthersStay
<1> QED BY <1>2, <1>3

\* What a step of a thread does to the thread.
LEMMA ThreadStep ==
  ASSUME TypeOK, PlaceInv, NEW i \in Imports,
         Step(i) \/ RefuseUpload(i) \/ Invalid(i) \/ Rollback(i)
  PROVE  PlaceOK(i)' /\ OthersStay(i) /\ up /\ UNCHANGED <<up, doomed, world>>
<1> USE DEF jobs, thread, world, Goto
<1>1. PlaceOK(i) /\ (\A j \in Imports : pc[j] = "inserted" <=> writer = j) /\ None \notin Imports
  BY Constants DEF PlaceInv, PlaceOK
<1>2. UNCHANGED <<doomed, world>> /\ pc[i] # "idle"
  BY DEF Step, RefuseUpload, Invalid, Rollback, Accept, Run, Stage, Insert, Land, Batch, Rename,
         Promote, NextPart, Finish, Forget, Sweep, Working
<1>3. up
  BY <1>2 DEF PlaceInv
<1>4. CASE Accept(i)
  BY <1>1, <1>2, <1>3, <1>4 DEF Accept, TypeOK, PlaceOK, OthersStay, Early
<1>5. CASE RefuseUpload(i)
  BY <1>1, <1>2, <1>3, <1>5 DEF RefuseUpload, TypeOK, PlaceOK, OthersStay, Early
<1>6. CASE Run(i)
  <2>1. PICK p \in {1, 2} : part' = [part EXCEPT ![i] = p]
    BY <1>6 DEF Run
  <2> QED BY <1>1, <1>2, <1>3, <1>6, <2>1 DEF Run, TypeOK, PlaceOK, OthersStay, Early
<1>7. CASE Stage(i)
  BY <1>1, <1>2, <1>3, <1>7 DEF Stage, TypeOK, PlaceOK, OthersStay, Early
<1>8. CASE Insert(i)
  <2>1. /\ pc' = [pc EXCEPT ![i] = "inserted"] /\ writer = None /\ writer' = i /\ pc[i] = "unpack"
        /\ aid' = [aid EXCEPT ![i] = NextId(account)] /\ NextId(account) \in Ids
        /\ sid' = [sid EXCEPT ![i] = NextId(version)] /\ NextId(version) \in Ids
        /\ UNCHANGED <<status, kind, temp, part, landed>>
    BY <1>8 DEF Insert, NewRows
  <2> QED BY <1>1, <1>2, <1>3, <2>1 DEF TypeOK, PlaceOK, OthersStay, Early
<1>9. CASE Land(i)
  BY <1>1, <1>2, <1>3, <1>9 DEF Land, TypeOK, PlaceOK, OthersStay, Early
<1>10. CASE Batch(i) \/ Rename(i) \/ Promote(i)
  <2>1. /\ pc[i] \in {"stored", "filled", "renamed"}
        /\ \E place \in {"filled", "renamed", "done", "undo"} : pc' = [pc EXCEPT ![i] = place]
        /\ UNCHANGED <<jobs, part, aid, sid, landed, writer>>
    BY <1>10 DEF Batch, Rename, Promote
  <2> QED BY <1>1, <1>2, <1>3, <2>1 DEF TypeOK, PlaceOK, OthersStay, Early
<1>11. CASE NextPart(i)
  BY <1>1, <1>2, <1>3, <1>11 DEF NextPart, TypeOK, PlaceOK, OthersStay, Early
<1>12. ASSUME NEW o \in {"completed", "failed"}, EndJob(i, o), pc[i] # "inserted", UNCHANGED writer
       PROVE  PlaceOK(i)' /\ OthersStay(i)
  BY <1>12, EndOfJob
<1>13. CASE Invalid(i) \/ Finish(i) \/ Sweep(i)
  BY <1>2, <1>3, <1>12, <1>13 DEF Invalid, Finish, Sweep, Outcome
<1>14. CASE Rollback(i) \/ Forget(i)
  <2>1. CASE EndJob(i, "failed") /\ Forget(i)
    BY <1>2, <1>3, <1>12, <2>1 DEF Forget
  <2>2. CASE Rollback(i)
    <3>1. /\ pc' = [pc EXCEPT ![i] = "undo"] /\ pc[i] \in Working
          /\ writer' = (IF writer = i THEN None ELSE writer) /\ UNCHANGED <<jobs, part, aid, sid, landed>>
      BY <2>2 DEF Rollback
    <3> QED BY <1>1, <1>2, <1>3, <3>1 DEF TypeOK, PlaceOK, OthersStay, Early, Working
  <2>3. CASE Forget(i) /\ ~EndJob(i, "failed")
    <3>1. /\ pc' = [pc EXCEPT ![i] = "sweep"] /\ pc[i] = "undo"
          /\ UNCHANGED <<jobs, part, aid, sid, landed, writer>>
      BY <2>3 DEF Forget
    <3> QED BY <1>1, <1>2, <1>3, <3>1 DEF TypeOK, PlaceOK, OthersStay, Early
  <2> QED BY <1>14, <2>1, <2>2, <2>3
<1> QED BY <1>4, <1>5, <1>6, <1>7, <1>8, <1>9, <1>10, <1>11, <1>13, <1>14 DEF Step

LEMMA PlaceStep == TypeOK /\ PlaceInv /\ [Next]_vars => PlaceInv'
<1> SUFFICES ASSUME TypeOK, PlaceInv, [Next]_vars PROVE PlaceInv'
  OBVIOUS
<1> USE DEF jobs, thread, world, Goto
<1>1. ASSUME NEW i \in Imports, NEW k \in Kinds, Request(i, k) PROVE PlaceInv'
  <2>1. /\ up /\ status[i] = "none" /\ pc[i] = "idle" /\ PlaceOK(i)
        /\ UNCHANGED <<part, aid, sid, landed, writer, up, doomed>>
    BY <1>1 DEF Request, PlaceInv
  <2>2. OthersStay(i)
    BY <1>1 DEF Request, OthersStay, TypeOK
  <2>3. PlaceOK(i)'
    BY <1>1, <2>1 DEF Request, PlaceOK, TypeOK, Early
  <2> QED BY <2>1, <2>2, <2>3, PlaceOfThread
<1>2. ASSUME NEW i \in Imports, Step(i) \/ RefuseUpload(i) \/ Invalid(i) \/ Rollback(i)
      PROVE  PlaceInv'
  BY <1>2, ThreadStep, PlaceOfThread
<1>3. ASSUME UNCHANGED <<jobs, thread, writer, up>>, doomed' # {} => up
      PROVE  PlaceInv'
  BY <1>3 DEF PlaceInv, PlaceOK
<1>4. ASSUME NEW a \in Ids, RemoveAccount(a) \/ ClearArchive(a) PROVE PlaceInv'
  BY <1>3, <1>4 DEF RemoveAccount, ClearArchive, Removable
<1>5. ASSUME NEW u \in Parts \ {None}, RemoveFiles(u) PROVE PlaceInv'
  BY <1>3, <1>5 DEF RemoveFiles, PlaceInv
<1>6. CASE Crash
  <2>1. /\ pc' = [i \in Imports |-> "idle"] /\ landed' = [i \in Imports |-> FALSE]
        /\ aid' = [i \in Imports |-> 0] /\ sid' = [i \in Imports |-> 0]
        /\ status' = [i \in Imports |-> IF pc[i] = "idle" THEN status[i] ELSE "lost"]
        /\ writer' = None /\ doomed' = {} /\ UNCHANGED <<temp, part>>
    BY <1>6 DEF Crash
  <2>2. ASSUME NEW i \in Imports PROVE PlaceOK(i)'
    BY <2>1, Constants DEF PlaceInv, PlaceOK, Early
  <2> QED BY <2>1, <2>2 DEF PlaceInv
<1>7. CASE Recover
  BY <1>7 DEF Recover, PlaceInv, PlaceOK
<1>8. CASE Rest \/ UNCHANGED vars
  BY <1>8 DEF Rest, vars, PlaceInv, PlaceOK
<1> QED BY <1>1, <1>2, <1>4, <1>5, <1>6, <1>7, <1>8 DEF Next

-----------------------------------------------------------------------------
(* The rows *)

\* Rows only go.
Lessens ==
  /\ \A n \in Ids : account'[n] \in {account[n], None} /\ version'[n] \in {version[n], None}
  /\ completed' \subseteq completed

LEMMA TableDrops ==
  ASSUME TypeOK, TableInv, NEW a, NEW out \in SUBSET Ids, DropVersions(a, out),
         \/ account' = account
         \/ account' = [account EXCEPT ![a] = None] /\ \A n \in Ids : under[n] = a => n \in out
  PROVE  /\ TableInv' /\ Lessens /\ completed' = completed \ out
         /\ \A n \in Ids : version'[n] = IF n \in out THEN None ELSE version[n]
<1>1. /\ \A n \in Ids : n \in out => /\ version'[n] = None /\ under'[n] = 0 /\ n \notin completed'
      /\ \A n \in Ids : n \notin out =>
           version'[n] = version[n] /\ under'[n] = under[n] /\ content'[n] = content[n]
      /\ \A b \in Ids : active'[b] # 0 => b # a /\ active'[b] = active[b] /\ active[b] \notin out
      /\ completed' = completed \ out
  BY DEF DropVersions, TypeOK
<1>2. \A n \in Ids : account'[n] \in {account[n], None}
  BY DEF TypeOK
<1>3. \A n \in Ids : n \notin out /\ version[n] # None => account'[under[n]] = account[under[n]]
  BY DEF TypeOK, TableInv
<1>4. TableInv'
  <2>1. \A n \in Ids : version'[n] # None =>
          under'[n] \in Ids /\ account'[under'[n]] = version'[n] /\ content'[n] = {version'[n]}
    BY <1>1, <1>3 DEF TableInv
  <2>2. \A n \in Ids : version'[n] = None => under'[n] = 0 /\ n \notin completed'
    BY <1>1 DEF TableInv
  <2>3. \A m, n \in Ids : account'[m] # None /\ account'[m] = account'[n] => m = n
    BY <1>2 DEF TableInv
  <2>4. \A m, n \in Ids : version'[m] # None /\ version'[m] = version'[n] => m = n
    BY <1>1 DEF TableInv
  <2>5. \A b \in Ids : active'[b] # 0 => active'[b] \in completed' /\ under'[active'[b]] = b
    <3> TAKE b \in Ids
    <3> HAVE active'[b] # 0
    <3>1. active[b] \in completed /\ under[active[b]] = b /\ active[b] \in Ids
      BY <1>1 DEF TableInv, TypeOK
    <3> QED BY <1>1, <3>1
  <2> QED BY <2>1, <2>2, <2>3, <2>4, <2>5 DEF TableInv
<1>5. Lessens
  BY <1>1, <1>2 DEF Lessens
<1> QED BY <1>1, <1>4, <1>5

LEMMA AccountDrops ==
  ASSUME TypeOK, TableInv, NEW a, DropAccountRow(a)
  PROVE  /\ TableInv' /\ Lessens
         /\ completed' = completed \ {n \in Ids : under[n] = a}
         /\ \A n \in Ids : account'[n] = IF n = a THEN None ELSE account[n]
         /\ \A n \in Ids : version'[n] = IF under[n] = a THEN None ELSE version[n]
<1> DEFINE out == {n \in Ids : under[n] = a}
<1>1. /\ DropVersions(a, out) /\ account' = [account EXCEPT ![a] = None]
      /\ out \in SUBSET Ids /\ \A n \in Ids : under[n] = a => n \in out
  BY DEF DropAccountRow
<1>2. \A n \in Ids : n \in out <=> under[n] = a
  OBVIOUS
<1> HIDE DEF out
<1>3. /\ TableInv' /\ Lessens /\ completed' = completed \ out
      /\ \A n \in Ids : version'[n] = IF n \in out THEN None ELSE version[n]
  BY <1>1, TableDrops
<1>4. \A n \in Ids : account'[n] = IF n = a THEN None ELSE account[n]
  BY <1>1 DEF TypeOK
<1> QED BY <1>2, <1>3, <1>4 DEF out

\* The rows of one account.
LEMMA RowsOfUnit ==
  ASSUME TypeOK, TableInv, NEW u \in Parts \ {None}, NEW a \in Ids, account[a] = u
  PROVE  \A n \in Ids : /\ account[n] = u <=> n = a
                        /\ version[n] = u => under[n] = a
                        /\ version[n] # None /\ under[n] = a => version[n] = u
BY DEF TableInv

LEMMA UnitsApart ==
  ASSUME NEW i \in Imports, NEW j \in Imports, i # j
  PROVE  Unit(i) # Unit(j)
BY DEF Unit

\* A new account takes ids that no row has.
Inserted(i, a, s) ==
  /\ account[a] = None /\ version[s] = None /\ s \notin completed
  /\ aid' = [aid EXCEPT ![i] = a] /\ sid' = [sid EXCEPT ![i] = s]
  /\ \A n \in Ids : account'[n] = IF n = a THEN Unit(i) ELSE account[n]
  /\ \A n \in Ids : /\ version'[n] = IF n = s THEN Unit(i) ELSE version[n]
                    /\ under'[n] = IF n = s THEN a ELSE under[n]
                    /\ content'[n] = IF n = s THEN {Unit(i)} ELSE content[n]
  /\ UNCHANGED <<active, completed>> /\ Fresh(i, part[i])
  /\ \A n \in Ids : account[n] # Unit(i) /\ version[n] # Unit(i)

LEMMA RowsInserted ==
  ASSUME TypeOK, TableInv, FreshInv, NEW i \in Imports, Insert(i)
  PROVE  \E a, s \in Ids : Inserted(i, a, s)
<1> DEFINE a == NextId(account)
           s == NextId(version)
<1>1. /\ pc[i] = "unpack" /\ a \in Ids /\ s \in Ids
      /\ aid' = [aid EXCEPT ![i] = a] /\ sid' = [sid EXCEPT ![i] = s]
      /\ account' = [account EXCEPT ![a] = Unit(i)] /\ version' = [version EXCEPT ![s] = Unit(i)]
      /\ under' = [under EXCEPT ![s] = a] /\ content' = [content EXCEPT ![s] = {Unit(i)}]
      /\ UNCHANGED <<active, completed>>
  BY DEF Insert, NewRows
<1>2. account[a] = None /\ version[s] = None
  BY <1>1, NextIdIsNew
<1>3. s \notin completed
  BY <1>1, <1>2 DEF TableInv
<1> HIDE DEF a, s
<1>4. Fresh(i, part[i]) /\ part[i] \in {1, 2}
  BY <1>1, UnitIsAPart DEF Fresh, Early
<1>5. \A n \in Ids : account[n] # Unit(i) /\ version[n] # Unit(i)
  BY <1>4 DEF FreshInv, Unit
<1>6. /\ \A n \in Ids : account'[n] = IF n = a THEN Unit(i) ELSE account[n]
      /\ \A n \in Ids : /\ version'[n] = IF n = s THEN Unit(i) ELSE version[n]
                        /\ under'[n] = IF n = s THEN a ELSE under[n]
                        /\ content'[n] = IF n = s THEN {Unit(i)} ELSE content[n]
  BY <1>1 DEF TypeOK
<1> QED BY <1>1, <1>2, <1>3, <1>4, <1>5, <1>6 DEF Inserted

\* What a thread at its rows has.
LEMMA RowsHeld ==
  ASSUME TypeOK, PlaceInv, TableInv, HeldInv, NEW i \in Imports, AtRows(i)
  PROVE  /\ aid[i] \in Ids /\ sid[i] \in Ids
         /\ account[aid[i]] = Unit(i) /\ version[sid[i]] = Unit(i) /\ under[sid[i]] = aid[i]
         /\ content[sid[i]] = {Unit(i)} /\ Unit(i) # None
         /\ \A n \in Ids : /\ account[n] = Unit(i) <=> n = aid[i]
                           /\ version[n] = Unit(i) <=> n = sid[i]
<1>1. aid[i] \in Ids /\ sid[i] \in Ids /\ Unit(i) \in Parts \ {None}
  BY UnitIsAPart DEF PlaceInv, PlaceOK, AtRows, Begun
<1>2. account[aid[i]] = Unit(i) /\ version[sid[i]] = Unit(i)
  BY DEF HeldInv
<1> QED BY <1>1, <1>2 DEF TableInv

\* Which steps of a thread write rows.
LEMMA TableWriters ==
  ASSUME NEW i \in Imports, Step(i) \/ RefuseUpload(i) \/ Invalid(i) \/ Rollback(i)
  PROVE  \/ UNCHANGED tables \/ Insert(i) \/ Batch(i) \/ Promote(i)
         \/ (Rollback(i) \/ Forget(i)) /\ DropAccountRow(aid[i])
BY DEF Step, RefuseUpload, Invalid, Rollback, Accept, Run, Stage, Land, Rename, NextPart, Finish,
       Forget, Sweep

\* A batch and a promotion write at the rows of their own import.
LEMMA BatchWrites ==
  ASSUME TypeOK, PlaceInv, TableInv, HeldInv, NEW i \in Imports, Batch(i)
  PROVE  UNCHANGED tables
<1>1. pc[i] = "stored" /\ UNCHANGED <<account, active, version, under, completed>>
  BY DEF Batch
<1>2. content[sid[i]] = {Unit(i)} /\ sid[i] \in Ids
  BY <1>1, RowsHeld DEF AtRows, Begun
<1>3. [content EXCEPT ![sid[i]] = @ \cup {Unit(i)}] = content
  BY <1>2 DEF TypeOK
<1>4. content' = content \/ content' = [content EXCEPT ![sid[i]] = @ \cup {Unit(i)}]
  BY DEF Batch
<1> QED BY <1>1, <1>3, <1>4 DEF tables

LEMMA PromoteWrites ==
  ASSUME TypeOK, PlaceInv, TableInv, HeldInv, NEW i \in Imports, Promote(i)
  PROVE  /\ pc[i] = "renamed" /\ pc' = [pc EXCEPT ![i] = "done"]
         /\ completed' = completed \cup {sid[i]} /\ active' = [active EXCEPT ![aid[i]] = sid[i]]
         /\ UNCHANGED <<account, version, under, content>>
<1>1. pc[i] = "renamed"
  BY DEF Promote
<1>2. version[sid[i]] # None /\ account[aid[i]] # None
  BY <1>1, RowsHeld DEF AtRows, Begun
<1> QED BY <1>1, <1>2 DEF Promote, Goto

LEMMA TableStep ==
  ASSUME TypeOK, PlaceInv, TableInv, FreshInv, HeldInv, [Next]_vars
  PROVE  TableInv'
<1>1. ASSUME UNCHANGED tables PROVE TableInv'
  BY <1>1 DEF TableInv, tables
<1>2. ASSUME NEW i \in Imports, Insert(i) PROVE TableInv'
  <2>0. PICK a, s \in Ids : Inserted(i, a, s)
    BY <1>2, RowsInserted
  <2>1. /\ account[a] = None /\ version[s] = None /\ s \notin completed
        /\ \A n \in Ids : account'[n] = IF n = a THEN Unit(i) ELSE account[n]
        /\ \A n \in Ids : /\ version'[n] = IF n = s THEN Unit(i) ELSE version[n]
                          /\ under'[n] = IF n = s THEN a ELSE under[n]
                          /\ content'[n] = IF n = s THEN {Unit(i)} ELSE content[n]
        /\ UNCHANGED <<active, completed>>
        /\ \A n \in Ids : account[n] # Unit(i) /\ version[n] # Unit(i)
    BY <2>0 DEF Inserted
  <2>2. Unit(i) # None
    BY UnitIsAPart
  <2>3. \A n \in Ids : version'[n] # None =>
          under'[n] \in Ids /\ account'[under'[n]] = version'[n] /\ content'[n] = {version'[n]}
    BY <2>1 DEF TableInv
  <2>4. \A n \in Ids : version'[n] = None => under'[n] = 0 /\ n \notin completed'
    BY <2>1, <2>2 DEF TableInv
  <2>5. \A b \in Ids : active'[b] # 0 => active'[b] \in completed' /\ under'[active'[b]] = b
    <3> TAKE b \in Ids
    <3> HAVE active'[b] # 0
    <3>1. active[b] \in completed /\ under[active[b]] = b /\ active[b] \in Ids
      BY <2>1 DEF TableInv, TypeOK
    <3> QED BY <2>1, <3>1
  <2> QED BY <2>1, <2>3, <2>4, <2>5 DEF TableInv
<1>3. ASSUME NEW i \in Imports, Promote(i) PROVE TableInv'
  <2>1. /\ completed' = completed \cup {sid[i]} /\ active' = [active EXCEPT ![aid[i]] = sid[i]]
        /\ UNCHANGED <<account, version, under, content>> /\ pc[i] = "renamed"
    BY <1>3, PromoteWrites
  <2>2. aid[i] \in Ids /\ sid[i] \in Ids /\ under[sid[i]] = aid[i] /\ version[sid[i]] # None
    BY <2>1, RowsHeld DEF AtRows, Begun
  <2> QED BY <2>1, <2>2 DEF TableInv, TypeOK
<1>4. ASSUME NEW i \in Imports, Step(i) \/ RefuseUpload(i) \/ Invalid(i) \/ Rollback(i)
      PROVE  TableInv'
  BY <1>1, <1>2, <1>3, <1>4, TableWriters, BatchWrites, AccountDrops
<1>5. ASSUME NEW a \in Ids, RemoveAccount(a) PROVE TableInv'
  BY <1>5, AccountDrops DEF RemoveAccount
<1>6. ASSUME NEW a \in Ids, ClearArchive(a) PROVE TableInv'
  <2>1. DropVersions(a, {n \in Ids : under[n] = a}) /\ account' = account
    BY <1>6 DEF ClearArchive
  <2> QED BY <2>1, TableDrops
<1>7. CASE Crash
  BY <1>1, <1>7, AccountDrops DEF Crash
<1>8. CASE Recover
  <2>1. DropVersions(0, RowsOf(version) \ completed) /\ account' = account
        /\ RowsOf(version) \ completed \subseteq Ids
    BY <1>8 DEF Recover, RowsOf
  <2> QED BY <2>1, TableDrops
<1>9. CASE Rest \/ UNCHANGED vars
           \/ (\E i \in Imports, k \in Kinds : Request(i, k))
           \/ (\E u \in Parts \ {None} : RemoveFiles(u))
  BY <1>1, <1>9 DEF Rest, vars, Request, RemoveFiles
<1> QED BY <1>4, <1>5, <1>6, <1>7, <1>8, <1>9 DEF Next

-----------------------------------------------------------------------------
(* What is still to come *)

\* A step of a thread adds rows and directories of its own account only.
LEMMA Adds ==
  ASSUME TypeOK, PlaceInv, TableInv, FreshInv, HeldInv, NEW i \in Imports,
         Step(i) \/ RefuseUpload(i) \/ Invalid(i) \/ Rollback(i)
  PROVE  /\ staged' \subseteq staged \cup {Unit(i)} /\ stored' \subseteq stored \cup {Unit(i)}
         /\ \A n \in Ids : account'[n] \in {account[n], None, Unit(i)}
                         /\ version'[n] \in {version[n], None, Unit(i)}
<1>1. staged' \subseteq staged \cup {Unit(i)} /\ stored' \subseteq stored \cup {Unit(i)}
  BY DEF Step, RefuseUpload, Invalid, Rollback, Accept, Run, Stage, Insert, Land, Batch, Rename,
         Promote, NextPart, Finish, Forget, Sweep, disk
<1>2. CASE Insert(i)
  BY <1>1, <1>2, RowsInserted DEF Inserted
<1>3. CASE UNCHANGED tables \/ Batch(i) \/ Promote(i)
  BY <1>1, <1>3, BatchWrites, PromoteWrites DEF tables
<1>4. CASE DropAccountRow(aid[i])
  BY <1>1, <1>4, AccountDrops DEF Lessens
<1> QED BY <1>2, <1>3, <1>4, TableWriters

\* An account that is still to come is so before the step; if it is the one its
\* job is at, the step has written nothing but its staging directory.
LEMMA FreshBefore ==
  ASSUME TypeOK, PlaceInv, NEW i \in Imports, NEW p \in {1, 2}, Fresh(i, p)',
         Step(i) \/ RefuseUpload(i) \/ Invalid(i) \/ Rollback(i)
  PROVE  /\ Fresh(i, p)
         /\ p = part[i] => /\ UNCHANGED <<tables, stored>>
                          /\ (UNCHANGED staged \/ (pc'[i] = "unpack" /\ p = part'[i]))
<1> USE DEF jobs, thread, Goto
<1>1. PlaceOK(i) /\ part[i] \in {1, 2} /\ PlaceOK(i)'
  BY ThreadStep DEF TypeOK, PlaceInv
<1>2. CASE Accept(i) \/ RefuseUpload(i) \/ Stage(i)
  <2>1. /\ pc[i] \in {"receive", "check"} /\ part' = part
        /\ Stage(i) => pc'[i] = "unpack"
    BY <1>2 DEF Accept, RefuseUpload, Stage, TypeOK
  <2>2. p >= part[i]
    BY <1>1, <2>1 DEF Fresh
  <2>3. Fresh(i, p)
    BY <1>1, <2>1, <2>2 DEF Fresh, Early
  <2>4. UNCHANGED <<tables, stored>> /\ (UNCHANGED staged \/ Stage(i))
    BY <1>2 DEF Accept, RefuseUpload, Stage, disk
  <2> QED BY <2>1, <2>3, <2>4
<1>3. CASE Run(i)
  <2>1. pc[i] = "queued" /\ part[i] = 1 /\ UNCHANGED <<tables, disk>>
    BY <1>1, <1>3 DEF Run, PlaceOK
  <2> QED BY <1>1, <2>1 DEF Fresh, Early, disk
<1>4. CASE NextPart(i)
  <2>1. part[i] = 1 /\ part'[i] = 2
    BY <1>4 DEF NextPart, TypeOK
  <2> QED BY <1>1, <2>1 DEF Fresh
<1>5. CASE ~ (Accept(i) \/ RefuseUpload(i) \/ Stage(i) \/ Run(i) \/ NextPart(i))
  <2>1. /\ part' = part /\ pc'[i] \notin Early
        /\ pc'[i] = "idle" => status'[i] \in {"completed", "failed"}
    <3>1. CASE Insert(i) \/ Land(i) \/ Batch(i) \/ Rename(i) \/ Promote(i) \/ Rollback(i)
      BY <3>1 DEF Insert, Land, Batch, Rename, Promote, Rollback, Early, TypeOK
    <3>2. CASE Finish(i) \/ Sweep(i) \/ Invalid(i) \/ (Forget(i) /\ EndJob(i, "failed"))
      BY <3>2 DEF Finish, Sweep, Invalid, Forget, EndJob, Outcome, Early, TypeOK
    <3>3. CASE Forget(i) /\ ~EndJob(i, "failed")
      BY <3>3 DEF Forget, Early, TypeOK
    <3> QED BY <1>5, <3>1, <3>2, <3>3 DEF Step
  <2>2. p > part[i]
    BY <1>1, <2>1 DEF Fresh
  <2> QED BY <1>1, <2>2 DEF Fresh
<1> QED BY <1>2, <1>3, <1>4, <1>5

LEMMA FreshStep ==
  ASSUME TypeOK, PlaceInv, TableInv, FreshInv, HeldInv, [Next]_vars
  PROVE  FreshInv'
<1> DEFINE RowUnits == {account[n] : n \in Ids}
<1>1. ASSUME NEW i \in Imports, Step(i) \/ RefuseUpload(i) \/ Invalid(i) \/ Rollback(i)
      PROVE  FreshInv'
  <2>1. /\ staged' \subseteq staged \cup {Unit(i)} /\ stored' \subseteq stored \cup {Unit(i)}
        /\ \A n \in Ids : account'[n] \in {account[n], None, Unit(i)}
                        /\ version'[n] \in {version[n], None, Unit(i)}
        /\ OthersStay(i) /\ UNCHANGED doomed
    BY <1>1, Adds, ThreadStep
  <2>2. ASSUME NEW j \in Imports, NEW p \in {1, 2}, Fresh(j, p)'
        PROVE  /\ \A n \in Ids : account'[n] # <<j, p>> /\ version'[n] # <<j, p>>
               /\ <<j, p>> \notin stored' \cup doomed'
               /\ <<j, p>> \in staged' => pc'[j] = "unpack" /\ p = part'[j]
    <3>1. Fresh(j, p) /\ <<j, p>> # None
      <4>1. CASE j # i
        BY <2>1, <2>2, <4>1, Constants DEF OthersStay, Fresh
      <4>2. CASE j = i
        BY <1>1, <2>2, <4>2, FreshBefore, Constants
      <4> QED BY <4>1, <4>2
    <3>2. /\ \A n \in Ids : account[n] # <<j, p>> /\ version[n] # <<j, p>>
          /\ <<j, p>> \notin stored \cup doomed
          /\ <<j, p>> \in staged => pc[j] = "unpack" /\ p = part[j]
      BY <3>1 DEF FreshInv
    <3>3. CASE <<j, p>> # Unit(i)
      <4>1. <<j, p>> \in staged => j # i
        BY <3>2, <3>3 DEF Unit
      <4> QED BY <2>1, <3>1, <3>2, <3>3, <4>1 DEF OthersStay
    <3>4. CASE <<j, p>> = Unit(i)
      <4>1. j = i /\ p = part[i]
        BY <3>4 DEF Unit
      <4>2. /\ UNCHANGED <<tables, stored>>
            /\ (UNCHANGED staged \/ (pc'[i] = "unpack" /\ p = part'[i]))
        BY <1>1, <2>2, <4>1, FreshBefore
      <4>3. <<j, p>> \in staged' /\ UNCHANGED staged => pc'[j] = "unpack" /\ p = part'[j]
        <5>1. ASSUME pc[i] = "unpack", part[i] = p, Fresh(i, p)' PROVE pc'[i] = "unpack" /\ p = part'[i]
          <6>1. Insert(i) \/ Rollback(i)
            BY <1>1, <5>1 DEF Step, RefuseUpload, Invalid, Rollback, Accept, Run, Stage, Insert, Land,
                   Batch, Rename, Promote, NextPart, Finish, Forget, Sweep
          <6>2. part' = part /\ pc'[i] \in {"inserted", "undo"}
            BY <6>1 DEF Insert, Rollback, Goto, TypeOK
          <6> QED BY <5>1, <6>2, UnitIsAPart DEF Fresh, Early
        <5> QED BY <2>2, <3>2, <4>1, <5>1
      <4> QED BY <2>1, <3>2, <4>1, <4>2, <4>3 DEF tables
    <3> QED BY <3>3, <3>4
  <2> QED BY <2>2 DEF FreshInv
<1>2. ASSUME stored' \subseteq stored, staged' \subseteq staged, doomed' \subseteq doomed \cup RowUnits,
             \A n \in Ids : account'[n] \in {account[n], None} /\ version'[n] \in {version[n], None},
             \A j \in Imports, p \in {1, 2} : Fresh(j, p)' =>
               Fresh(j, p) /\ (pc[j] = "unpack" => pc'[j] = "unpack" /\ part'[j] = part[j])
      PROVE  FreshInv'
  <2>1. ASSUME NEW j \in Imports, NEW p \in {1, 2}, Fresh(j, p)'
        PROVE  /\ \A n \in Ids : account'[n] # <<j, p>> /\ version'[n] # <<j, p>>
               /\ <<j, p>> \notin stored' \cup doomed'
               /\ <<j, p>> \in staged' => pc'[j] = "unpack" /\ p = part'[j]
    <3>1. Fresh(j, p) /\ (pc[j] = "unpack" => pc'[j] = "unpack" /\ part'[j] = part[j])
      BY <1>2, <2>1
    <3>2. /\ \A n \in Ids : account[n] # <<j, p>> /\ version[n] # <<j, p>>
          /\ <<j, p>> \notin stored \cup doomed
          /\ <<j, p>> \in staged => pc[j] = "unpack" /\ p = part[j]
      BY <3>1 DEF FreshInv
    <3>3. <<j, p>> # None
      BY Constants
    <3>4. <<j, p>> \notin RowUnits
      BY <3>2
    <3> QED BY <1>2, <3>1, <3>2, <3>3, <3>4
  <2> QED BY <2>1 DEF FreshInv
<1>3. ASSUME NEW i \in Imports, NEW k \in Kinds, Request(i, k) PROVE FreshInv'
  <2>1. /\ UNCHANGED <<part, tables, disk, doomed>> /\ status[i] = "none" /\ pc[i] = "idle"
        /\ \A j \in Imports \ {i} : pc'[j] = pc[j] /\ status'[j] = status[j]
    BY <1>3 DEF Request, Goto, TypeOK
  <2>2. \A j \in Imports, p \in {1, 2} : Fresh(j, p)' =>
          Fresh(j, p) /\ (pc[j] = "unpack" => pc'[j] = "unpack" /\ part'[j] = part[j])
    BY <2>1 DEF Fresh
  <2> QED BY <1>2, <2>1, <2>2 DEF tables, disk
<1>4. ASSUME NEW a \in Ids, RemoveAccount(a) \/ ClearArchive(a) PROVE FreshInv'
  <2>1. Lessens /\ doomed' = doomed \cup {account[a]} /\ UNCHANGED <<jobs, thread, disk>>
    <3>1. CASE RemoveAccount(a)
      BY <3>1, AccountDrops DEF RemoveAccount
    <3>2. CASE ClearArchive(a)
      <4>1. DropVersions(a, {n \in Ids : under[n] = a}) /\ account' = account
        BY <3>2 DEF ClearArchive
      <4>2. Lessens
        BY <4>1, TableDrops
      <4> QED BY <3>2, <4>2 DEF ClearArchive
    <3> QED BY <1>4, <3>1, <3>2
  <2>2. \A j \in Imports, p \in {1, 2} : Fresh(j, p)' <=> Fresh(j, p)
    BY <2>1 DEF Fresh, jobs, thread
  <2> QED BY <1>2, <2>1, <2>2 DEF Lessens, disk, thread
<1>5. ASSUME NEW u \in Parts \ {None}, RemoveFiles(u) PROVE FreshInv'
  <2>1. doomed' \subseteq doomed /\ staged' \subseteq staged /\ stored' \subseteq stored
        /\ UNCHANGED <<jobs, thread, tables>>
    BY <1>5 DEF RemoveFiles
  <2>2. \A j \in Imports, p \in {1, 2} : Fresh(j, p)' <=> Fresh(j, p)
    BY <2>1 DEF Fresh, jobs, thread
  <2> QED BY <1>2, <2>1, <2>2 DEF tables, thread
<1>6. CASE Crash
  <2>1. /\ pc' = [i \in Imports |-> "idle"] /\ doomed' = {} /\ UNCHANGED <<part, disk>>
        /\ status' = [i \in Imports |-> IF pc[i] = "idle" THEN status[i] ELSE "lost"]
        /\ UNCHANGED tables \/ DropAccountRow(aid[writer])
    BY <1>6 DEF Crash
  <2>2. \A n \in Ids : account'[n] \in {account[n], None} /\ version'[n] \in {version[n], None}
    BY <2>1, AccountDrops DEF Lessens, tables
  <2>3. \A j \in Imports, p \in {1, 2} : Fresh(j, p)' =>
          Fresh(j, p) /\ (p = part[j] => pc[j] = "idle")
    BY <2>1, UnitIsAPart DEF Fresh, Early
  <2>4. ASSUME NEW j \in Imports, NEW p \in {1, 2}, Fresh(j, p)'
        PROVE  /\ \A n \in Ids : account'[n] # <<j, p>> /\ version'[n] # <<j, p>>
               /\ <<j, p>> \notin stored' \cup doomed'
               /\ <<j, p>> \in staged' => pc'[j] = "unpack" /\ p = part'[j]
    <3>1. /\ \A n \in Ids : account[n] # <<j, p>> /\ version[n] # <<j, p>>
          /\ <<j, p>> \notin stored \cup doomed
          /\ <<j, p>> \in staged => pc[j] = "unpack" /\ p = part[j]
      BY <2>3, <2>4 DEF FreshInv
    <3>2. <<j, p>> # None
      BY Constants
    <3>3. <<j, p>> \notin staged
      BY <2>3, <2>4, <3>1
    <3> QED BY <2>1, <2>2, <3>1, <3>2, <3>3 DEF disk
  <2> QED BY <2>4 DEF FreshInv
<1>7. CASE Recover
  <2>1. DropVersions(0, RowsOf(version) \ completed) /\ account' = account
        /\ RowsOf(version) \ completed \subseteq Ids /\ staged' \subseteq staged
        /\ UNCHANGED <<stored, doomed, jobs, thread>>
    BY <1>7 DEF Recover, RowsOf
  <2>2. Lessens
    BY <2>1, TableDrops
  <2>3. \A j \in Imports, p \in {1, 2} : Fresh(j, p)' => Fresh(j, p)
    BY <2>1 DEF Fresh, jobs, thread
  <2> QED BY <1>2, <2>1, <2>2, <2>3 DEF Lessens, thread
<1>8. CASE Rest \/ UNCHANGED vars
  <2>1. UNCHANGED <<status, pc, part, account, version, staged, stored, doomed>>
    BY <1>8 DEF Rest, vars, jobs, thread, tables, disk
  <2>2. \A j \in Imports, p \in {1, 2} : Fresh(j, p)' <=> Fresh(j, p)
    BY <2>1 DEF Fresh
  <2> QED BY <1>2, <2>1, <2>2
<1> QED BY <1>1, <1>3, <1>4, <1>5, <1>6, <1>7, <1>8 DEF Next

-----------------------------------------------------------------------------
(* The rows of a thread stay its own *)

\* The rows of one import are not touched by another's.
LEMMA RowsLeft ==
  ASSUME TypeOK, PlaceInv, TableInv, HeldInv, NEW i \in Imports, NEW a,
         DropAccountRow(a), AtRows(i), a # aid[i]
  PROVE  account'[aid[i]] = Unit(i) /\ version'[sid[i]] = Unit(i)
<1>1. /\ aid[i] \in Ids /\ sid[i] \in Ids /\ account[aid[i]] = Unit(i)
      /\ version[sid[i]] = Unit(i) /\ under[sid[i]] = aid[i]
  BY RowsHeld
<1> QED BY <1>1, AccountDrops

\* The account a thread that gives up deletes is its own, or there is none.
LEMMA OwnRow ==
  ASSUME TypeOK, PlaceInv, TableInv, HeldInv, NEW i \in Imports,
         AtRows(i) \/ (pc[i] = "undo" /\ ~landed[i] /\ aid[i] # 0)
  PROVE  aid[i] \in Ids /\ account[aid[i]] \in {Unit(i), None}
<1>1. CASE AtRows(i)
  BY <1>1, RowsHeld
<1>2. CASE pc[i] = "undo" /\ ~landed[i] /\ aid[i] # 0
  BY <1>2 DEF HeldInv
<1> QED BY <1>1, <1>2

\* What a step of a thread deletes is of its own import.
LEMMA DropsOwn ==
  ASSUME TypeOK, PlaceInv, TableInv, HeldInv, NEW i \in Imports, NEW j \in Imports, j # i,
         AtRows(j), Rollback(i) \/ Forget(i), DropAccountRow(aid[i])
  PROVE  account'[aid[j]] = Unit(j) /\ version'[sid[j]] = Unit(j)
<1>1. /\ aid[j] \in Ids /\ account[aid[j]] = Unit(j) /\ sid[j] \in Ids /\ version[sid[j]] = Unit(j)
      /\ Unit(j) # None /\ Unit(i) # Unit(j) /\ under[sid[j]] = aid[j]
  BY RowsHeld, UnitsApart
<1>2. AtRows(i) \/ (pc[i] = "undo" /\ ~landed[i] /\ aid[i] # 0) \/ aid[i] = 0 \/ UNCHANGED tables
  BY DEF Rollback, Forget, AtRows, Begun, PlaceInv, PlaceOK
<1>3. CASE UNCHANGED tables
  BY <1>1, <1>3 DEF tables
<1>4. CASE aid[i] = 0
  BY <1>1, <1>4, RowsLeft, Constants
<1>5. CASE AtRows(i) \/ (pc[i] = "undo" /\ ~landed[i] /\ aid[i] # 0)
  BY <1>1, <1>5, OwnRow, RowsLeft
<1> QED BY <1>2, <1>3, <1>4, <1>5

\* A thread that gives up has its rows, or none: the rollback of a transaction
\* takes both away.
LEMMA RollbackTakes ==
  ASSUME TypeOK, PlaceInv, TableInv, FreshInv, HeldInv, NEW i \in Imports, Rollback(i)
  PROVE  /\ pc'[i] = "undo" /\ UNCHANGED <<part, aid, sid, landed>>
         /\ landed[i] => AtRows(i) /\ UNCHANGED tables
         /\ ~landed[i] =>
              /\ aid[i] # 0 => aid[i] \in Ids /\ account'[aid[i]] = None
              /\ \A n \in Ids : account'[n] # Unit(i) /\ version'[n] # Unit(i)
<1>1. /\ pc[i] \in Working /\ pc'[i] = "undo" /\ UNCHANGED <<part, aid, sid, landed>>
      /\ writer = i => DropAccountRow(aid[i])
      /\ writer # i => UNCHANGED tables
  BY DEF Rollback, Goto, TypeOK
<1>2. PlaceOK(i)
  BY DEF PlaceInv
<1>3. CASE pc[i] = "unpack"
  <2>1. aid[i] = 0 /\ ~landed[i] /\ writer # i /\ UNCHANGED tables
    BY <1>1, <1>2, <1>3 DEF PlaceOK, Early
  <2>2. \A n \in Ids : account[n] # Unit(i) /\ version[n] # Unit(i)
    <3>1. Fresh(i, part[i]) /\ part[i] \in {1, 2} /\ Unit(i) = <<i, part[i]>>
      BY <1>3, UnitIsAPart DEF Fresh, Early
    <3> QED BY <3>1 DEF FreshInv
  <2> QED BY <1>1, <2>1, <2>2 DEF tables
<1>4. CASE pc[i] = "inserted"
  <2>1. AtRows(i) /\ ~landed[i] /\ writer = i
    BY <1>2, <1>4 DEF PlaceOK, AtRows, Begun
  <2>2. /\ aid[i] \in Ids /\ under[sid[i]] = aid[i] /\ Unit(i) # None
        /\ \A n \in Ids : /\ account[n] = Unit(i) <=> n = aid[i]
                          /\ version[n] = Unit(i) <=> n = sid[i]
    BY <2>1, RowsHeld
  <2>3. /\ \A n \in Ids : account'[n] = IF n = aid[i] THEN None ELSE account[n]
        /\ \A n \in Ids : version'[n] = IF under[n] = aid[i] THEN None ELSE version[n]
    BY <1>1, <2>1, AccountDrops
  <2> QED BY <1>1, <2>1, <2>2, <2>3
<1>5. CASE pc[i] \in {"stored", "filled", "renamed"}
  BY <1>1, <1>2, <1>5 DEF PlaceOK, AtRows, Begun
<1> QED BY <1>1, <1>3, <1>4, <1>5 DEF Working

\* What the owner removes or clears is no thread's.
LEMMA OwnerDrops ==
  ASSUME TypeOK, TableInv, NEW a \in Ids, RemoveAccount(a) \/ ClearArchive(a)
  PROVE  /\ account[a] \in Parts \ {None} /\ doomed' = doomed \cup {account[a]}
         /\ Lessens /\ up /\ UNCHANGED <<jobs, thread, disk, writer, world>>
         /\ \A n \in Ids : version'[n] = IF under[n] = a THEN None ELSE version[n]
         /\ \A n \in Ids : n # a => account'[n] = account[n]
         /\ \A n \in completed : under[n] # a => n \in completed'
         /\ "owner" \notin Windows => ~InHand(account[a])
<1>1. CASE RemoveAccount(a)
  BY <1>1, AccountDrops DEF RemoveAccount, Removable, TypeOK
<1>2. CASE ClearArchive(a)
  <2> DEFINE out == {n \in Ids : under[n] = a}
  <2>1. DropVersions(a, out) /\ account' = account /\ out \in SUBSET Ids
    BY <1>2 DEF ClearArchive
  <2>2. \A n \in Ids : n \in out <=> under[n] = a
    OBVIOUS
  <2> HIDE DEF out
  <2>3. /\ Lessens /\ completed' = completed \ out
        /\ \A n \in Ids : version'[n] = IF n \in out THEN None ELSE version[n]
    BY <2>1, TableDrops
  <2> QED BY <1>2, <2>1, <2>2, <2>3 DEF ClearArchive, Removable, TypeOK
<1> QED BY <1>1, <1>2

LEMMA HeldStep ==
  ASSUME TypeOK, PlaceInv, TableInv, FreshInv, HeldInv, Steady, [Next]_vars
  PROVE  HeldInv'
<1>1. ASSUME UNCHANGED <<thread, account, version>> PROVE HeldInv'
  BY <1>1 DEF HeldInv, thread, AtRows, Unit
<1>2. ASSUME NEW i \in Imports, Step(i) \/ RefuseUpload(i) \/ Invalid(i) \/ Rollback(i),
             NEW j \in Imports, j # i
      PROVE  /\ AtRows(j)' => account'[aid'[j]] = Unit(j)' /\ version'[sid'[j]] = Unit(j)'
             /\ (pc[j] = "undo" /\ ~landed[j] /\ aid[j] # 0)' =>
                  (aid[j] \in Ids /\ account[aid[j]] = None)'
  <2>1. /\ UNCHANGED <<pc[j], aid[j], sid[j], landed[j], part[j]>>
        /\ AtRows(j)' <=> AtRows(j)
        /\ Unit(j)' = Unit(j)
    BY <1>2, ThreadStep DEF OthersStay, AtRows, Unit
  <2>2. AtRows(j) => /\ aid[j] \in Ids /\ account[aid[j]] = Unit(j) /\ Unit(j) # None
                     /\ sid[j] \in Ids /\ version[sid[j]] = Unit(j)
    BY RowsHeld
  <2>3. pc[j] = "undo" /\ ~landed[j] /\ aid[j] # 0 => aid[j] \in Ids /\ account[aid[j]] = None
    BY DEF HeldInv
  <2>4. CASE UNCHANGED tables \/ Batch(i) \/ Promote(i)
    BY <2>1, <2>2, <2>3, <2>4, BatchWrites, PromoteWrites DEF tables
  <2>5. CASE Insert(i)
    <3>1. PICK a, s \in Ids : Inserted(i, a, s)
      BY <2>5, RowsInserted
    <3>2. ~ (pc[j] = "undo" /\ ~landed[j] /\ aid[j] # 0)
      BY <2>5 DEF Insert, Steady
    <3> QED BY <2>1, <2>2, <3>1, <3>2 DEF Inserted
  <2>6. CASE (Rollback(i) \/ Forget(i)) /\ DropAccountRow(aid[i])
    <3>1. \A n \in Ids : account'[n] \in {account[n], None}
      BY <2>6, AccountDrops DEF Lessens
    <3> QED BY <1>2, <2>1, <2>2, <2>3, <2>6, <3>1, DropsOwn
  <2> QED BY <1>2, <2>4, <2>5, <2>6, TableWriters
<1>3. ASSUME NEW i \in Imports, Step(i) \/ RefuseUpload(i) \/ Invalid(i) \/ Rollback(i)
      PROVE  /\ AtRows(i)' => account'[aid'[i]] = Unit(i)' /\ version'[sid'[i]] = Unit(i)'
             /\ (pc[i] = "undo" /\ ~landed[i] /\ aid[i] # 0)' =>
                  (aid[i] \in Ids /\ account[aid[i]] = None)'
  <2>1. CASE Insert(i)
    <3>1. PICK a, s \in Ids : Inserted(i, a, s)
      BY <2>1, RowsInserted
    <3>2. aid'[i] = a /\ sid'[i] = s /\ Unit(i)' = Unit(i) /\ pc'[i] = "inserted"
      BY <2>1, <3>1 DEF Insert, Inserted, Goto, Unit, TypeOK
    <3> QED BY <3>1, <3>2 DEF Inserted
  <2>2. CASE Land(i) \/ Batch(i) \/ Rename(i)
    <3>1. /\ AtRows(i) /\ UNCHANGED <<aid, sid, part>> /\ (landed[i] => landed'[i])
          /\ pc[i] # "inserted" => landed[i]
      BY <2>2 DEF Land, Batch, Rename, AtRows, Begun, PlaceInv, PlaceOK, TypeOK
    <3>2. UNCHANGED tables
      BY <2>2, BatchWrites DEF Land, Rename
    <3>3. pc'[i] = "undo" => landed'[i]
      BY <2>2, <3>1 DEF Land, Batch, Rename, Goto, TypeOK, IsMbox
    <3> QED BY <3>1, <3>2, <3>3, RowsHeld DEF tables, Unit
  <2>3. CASE Rollback(i)
    <3>1. pc'[i] = "undo" /\ UNCHANGED <<aid, sid, landed, part>>
      BY <2>3, RollbackTakes
    <3>2. CASE landed[i]
      <4>1. AtRows(i) /\ UNCHANGED tables
        BY <2>3, <3>2, RollbackTakes
      <4> QED BY <3>1, <3>2, <4>1, RowsHeld DEF tables, Unit
    <3>3. CASE ~landed[i]
      BY <2>3, <3>1, <3>3, RollbackTakes DEF AtRows, Begun
    <3> QED BY <3>2, <3>3
  <2>4. CASE ~ (Insert(i) \/ Land(i) \/ Batch(i) \/ Rename(i) \/ Rollback(i))
    <3>1. pc'[i] \notin Begun \cup {"undo"}
      <4>1. CASE Promote(i)
        BY <4>1, PromoteWrites DEF TypeOK, Begun
      <4>2. CASE Accept(i) \/ Run(i) \/ Stage(i) \/ NextPart(i) \/ RefuseUpload(i)
        BY <4>2 DEF Accept, Run, Stage, NextPart, RefuseUpload, Goto, TypeOK, Begun
      <4>3. CASE Finish(i) \/ Sweep(i) \/ Invalid(i) \/ (Forget(i) /\ EndJob(i, "failed"))
        BY <4>3 DEF Finish, Sweep, Invalid, EndJob, Goto, TypeOK, Begun
      <4>4. CASE Forget(i) /\ ~EndJob(i, "failed")
        BY <4>4 DEF Forget, Goto, TypeOK, Begun
      <4> QED BY <1>3, <2>4, <4>1, <4>2, <4>3, <4>4 DEF Step
    <3> QED BY <3>1 DEF AtRows
  <2> QED BY <2>1, <2>2, <2>3, <2>4
<1>4. ASSUME NEW i \in Imports, Step(i) \/ RefuseUpload(i) \/ Invalid(i) \/ Rollback(i)
      PROVE  HeldInv'
  BY <1>2, <1>3, <1>4 DEF HeldInv
<1>5. ASSUME NEW i \in Imports, NEW k \in Kinds, Request(i, k) PROVE HeldInv'
  <2>1. /\ UNCHANGED <<part, aid, sid, landed, account, version>> /\ pc'[i] \notin Begun \cup {"undo"}
        /\ \A j \in Imports \ {i} : pc'[j] = pc[j]
    BY <1>5 DEF Request, Goto, TypeOK, tables, Begun
  <2> QED BY <2>1 DEF HeldInv, AtRows, Unit
<1>6. ASSUME NEW a \in Ids, RemoveAccount(a) \/ ClearArchive(a) PROVE HeldInv'
  <2>1. /\ ~InHand(account[a]) /\ Lessens /\ UNCHANGED thread
        /\ \A n \in Ids : version'[n] = IF under[n] = a THEN None ELSE version[n]
        /\ \A n \in Ids : n # a => account'[n] = account[n]
    BY <1>6, OwnerDrops DEF Steady
  <2>2. ASSUME NEW j \in Imports, AtRows(j)
        PROVE  account'[aid[j]] = Unit(j) /\ version'[sid[j]] = Unit(j)
    <3>1. /\ aid[j] \in Ids /\ sid[j] \in Ids /\ account[aid[j]] = Unit(j)
          /\ version[sid[j]] = Unit(j) /\ under[sid[j]] = aid[j]
      BY <2>2, RowsHeld
    <3>2. InHand(Unit(j))
      BY <2>2 DEF InHand, AtRows, Begun, Working
    <3> QED BY <2>1, <3>1, <3>2
  <2>3. \A j \in Imports : (AtRows(j)' <=> AtRows(j)) /\ Unit(j)' = Unit(j)
    BY <2>1 DEF thread, AtRows, Unit
  <2> QED BY <2>1, <2>2, <2>3 DEF HeldInv, thread, Lessens
<1>7. CASE Crash \/ Recover
  <2>1. \A i \in Imports : pc'[i] = "idle"
    BY <1>7 DEF Crash, Recover, PlaceInv, thread
  <2> QED BY <2>1 DEF HeldInv, AtRows, Begun
<1>8. CASE Rest \/ UNCHANGED vars \/ (\E u \in Parts \ {None} : RemoveFiles(u))
  BY <1>1, <1>8 DEF Rest, vars, thread, tables, RemoveFiles
<1> QED BY <1>4, <1>5, <1>6, <1>7, <1>8 DEF Next

-----------------------------------------------------------------------------
(* The directories of what is completed *)

\* In which hands an account is after a step of a thread: only staging takes a new
\* one, which is not in any table or directory yet.
LEMMA HandOfThread ==
  ASSUME TypeOK, PlaceInv, NEW i \in Imports, NEW u, InHand(u)',
         Step(i) \/ RefuseUpload(i) \/ Invalid(i) \/ Rollback(i)
  PROVE  InHand(u) \/ (u = Unit(i) /\ Fresh(i, part[i]))
<1>1. PICK j \in Imports : u = Unit(j)' /\ pc'[j] \in Working \cup {"undo", "sweep"}
  BY DEF InHand
<1>2. CASE j # i
  BY <1>1, <1>2, ThreadStep DEF OthersStay, Unit, InHand
<1>3. CASE j = i
  <2>1. CASE Stage(i)
    BY <1>1, <1>3, <2>1, UnitIsAPart DEF Stage, Unit, Fresh, Early
  <2>2. CASE ~Stage(i)
    <3>1. pc[i] \in Working \cup {"undo"} /\ part' = part
      <4>1. CASE Insert(i) \/ Land(i) \/ Batch(i) \/ Rename(i) \/ Promote(i) \/ Rollback(i)
        BY <4>1 DEF Insert, Land, Batch, Rename, Promote, Rollback, Working
      <4>2. CASE Accept(i) \/ Run(i) \/ NextPart(i) \/ RefuseUpload(i)
        BY <1>1, <1>3, <4>2 DEF Accept, Run, NextPart, RefuseUpload, Goto, Working, TypeOK
      <4>3. CASE Finish(i) \/ Sweep(i) \/ Invalid(i) \/ (Forget(i) /\ EndJob(i, "failed"))
        BY <1>1, <1>3, <4>3 DEF Finish, Sweep, Invalid, EndJob, Goto, TypeOK, Working
      <4>4. CASE Forget(i) /\ ~EndJob(i, "failed")
        BY <4>4 DEF Forget
      <4> QED BY <2>2, <4>1, <4>2, <4>3, <4>4 DEF Step
    <3> QED BY <1>1, <1>3, <3>1 DEF InHand, Unit
  <2> QED BY <2>1, <2>2
<1> QED BY <1>2, <1>3

LEMMA KeptStep ==
  ASSUME TypeOK, PlaceInv, TableInv, FreshInv, HeldInv, KeptInv, Steady, TableInv', [Next]_vars
  PROVE  KeptInv'
<1> DEFINE Hold == Begun \cup {"undo", "sweep"}
<1>0. Begun \cup {"undo", "sweep"} \subseteq Working \cup {"undo", "sweep"} /\ "renamed" \in Begun
  BY DEF Begun, Working
<1>1. ASSUME NEW i \in Imports, Step(i) \/ RefuseUpload(i) \/ Invalid(i) \/ Rollback(i)
      PROVE  KeptInv'
  <2>1. /\ staged' \subseteq staged \cup {Unit(i)} /\ stored' \subseteq stored \cup {Unit(i)}
        /\ \A n \in Ids : account'[n] \in {account[n], None, Unit(i)}
                        /\ version'[n] \in {version[n], None, Unit(i)}
        /\ OthersStay(i) /\ UNCHANGED doomed /\ Unit(i) # None
    BY <1>1, Adds, ThreadStep, UnitIsAPart
  <2>2. CASE Insert(i)
    <3>1. PICK a, s \in Ids : Inserted(i, a, s)
      BY <2>2, RowsInserted
    <3>2. pc[i] = "unpack" /\ pc'[i] = "inserted" /\ part' = part /\ UNCHANGED stored
      BY <2>2 DEF Insert, Goto, TypeOK, disk
    <3>3. InHand(Unit(i)) /\ \A u : InHand(u)' => InHand(u)
      BY <1>1, <2>1, <3>2 DEF InHand, Working, OthersStay, Unit
    <3>4. \A j \in Imports, n \in Ids :
            pc'[j] \in Hold /\ version'[n] = Unit(j)' => n \notin completed'
      <4> TAKE j \in Imports, n \in Ids
      <4> HAVE pc'[j] \in Hold /\ version'[n] = Unit(j)'
      <4>1. Unit(j)' = Unit(j) /\ (j # i => pc'[j] = pc[j] /\ Unit(j) # Unit(i))
        BY <2>1, <3>2, UnitsApart DEF OthersStay, Unit
      <4>2. CASE n = s
        BY <3>1, <4>2 DEF Inserted
      <4>3. CASE n # s
        BY <3>1, <4>1, <4>3 DEF Inserted, KeptInv
      <4> QED BY <4>2, <4>3
    <3>5. \A j \in Imports : pc'[j] = "renamed" => Unit(j)' \in stored'
      BY <2>1, <3>2 DEF OthersStay, Unit, KeptInv
    <3>6. \A u \in doomed' : ~InHand(u)' /\ \A n \in Ids : version'[n] # u
      BY <2>1, <3>1, <3>3 DEF Inserted, KeptInv
    <3>7. \A n \in completed' : version'[n] \in stored'
      BY <3>1, <3>2 DEF Inserted, KeptInv, TypeOK
    <3> QED BY <3>4, <3>5, <3>6, <3>7 DEF KeptInv
  <2>3. CASE ~Insert(i)
    <3>1. \A n \in Ids : version'[n] \in {version[n], None}
      BY <1>1, <2>3, TableWriters, BatchWrites, PromoteWrites, AccountDrops DEF tables, Lessens
    <3>2. \/ completed' \subseteq completed
          \/ Promote(i) /\ completed' = completed \cup {sid[i]} /\ UNCHANGED version
      BY <1>1, <2>3, TableWriters, BatchWrites, PromoteWrites, AccountDrops DEF tables, Lessens
    <3>3. Fresh(i, part[i]) => Unit(i) \notin doomed /\ \A n \in Ids : version[n] # Unit(i)
      <4>1. part[i] \in {1, 2} /\ Unit(i) = <<i, part[i]>>
        BY DEF TypeOK, Unit
      <4> QED BY <4>1 DEF FreshInv
    <3>4. stored \subseteq stored' \/ (Sweep(i) /\ stored' = stored \ {Unit(i)})
      BY <1>1 DEF Step, RefuseUpload, Invalid, Rollback, Accept, Run, Stage, Insert, Land, Batch,
             Rename, Promote, NextPart, Finish, Forget, Sweep, disk
    <3>5. \A j \in Imports, n \in Ids :
            pc'[j] \in Hold /\ version'[n] = Unit(j)' => n \notin completed'
      <4> SUFFICES ASSUME NEW j \in Imports, NEW n \in Ids, pc'[j] \in Hold, version'[n] = Unit(j)'
                   PROVE  n \notin completed'
        OBVIOUS
      <4>1. CASE j # i
        <5>1. pc[j] \in Hold /\ Unit(j)' = Unit(j) /\ Unit(j) # Unit(i) /\ Unit(j) # None
          BY <2>1, <4>1, UnitsApart, UnitIsAPart DEF OthersStay, Unit
        <5>2. version[n] = Unit(j) /\ n \notin completed
          BY <3>1, <5>1 DEF KeptInv
        <5>3. Promote(i) => n # sid[i]
          BY <5>1, <5>2, PromoteWrites, RowsHeld DEF AtRows, Begun
        <5> QED BY <3>2, <5>2, <5>3
      <4>2. CASE j = i
        <5>1. ~Promote(i)
          BY <4>2, PromoteWrites DEF TypeOK, Begun
        <5>2. Unit(i)' = Unit(i) /\ (pc[i] \in Hold \/ Fresh(i, part[i]))
          <6>1. part'[i] = part[i] /\ pc[i] \in Hold \cup {"unpack"}
            <7>1. CASE Land(i) \/ Batch(i) \/ Rename(i) \/ Rollback(i)
              BY <7>1 DEF Land, Batch, Rename, Rollback, Working, Begun
            <7>2. CASE Accept(i) \/ Run(i) \/ Stage(i) \/ NextPart(i) \/ RefuseUpload(i)
              BY <4>2, <7>2 DEF Accept, Run, Stage, NextPart, RefuseUpload, Goto, Begun, TypeOK
            <7>3. CASE Finish(i) \/ Sweep(i) \/ Invalid(i) \/ (Forget(i) /\ EndJob(i, "failed"))
              BY <4>2, <7>3 DEF Finish, Sweep, Invalid, EndJob, Goto, TypeOK, Begun
            <7>4. CASE Forget(i) /\ ~EndJob(i, "failed")
              BY <7>4 DEF Forget
            <7> QED BY <1>1, <2>3, <5>1, <7>1, <7>2, <7>3, <7>4 DEF Step
          <6> QED BY <6>1, UnitIsAPart DEF Unit, Fresh, Early
        <5>3. version[n] = Unit(i)
          BY <2>1, <3>1, <4>2, <5>2
        <5>4. n \notin completed
          BY <3>3, <5>2, <5>3 DEF KeptInv
        <5> QED BY <3>2, <5>1, <5>4
      <4> QED BY <4>1, <4>2
    <3>6. \A j \in Imports : pc'[j] = "renamed" => Unit(j)' \in stored'
      <4> SUFFICES ASSUME NEW j \in Imports, pc'[j] = "renamed" PROVE Unit(j)' \in stored'
        OBVIOUS
      <4>1. CASE j # i
        <5>1. pc[j] = "renamed" /\ Unit(j)' = Unit(j) /\ Unit(j) # Unit(i)
          BY <2>1, <4>1, UnitsApart DEF OthersStay, Unit
        <5> QED BY <3>4, <5>1 DEF KeptInv
      <4>2. CASE j = i
        <5>1. Rename(i)
          <6>1. CASE Accept(i) \/ Run(i) \/ Stage(i) \/ NextPart(i) \/ RefuseUpload(i) \/ Land(i)
                     \/ Batch(i) \/ Rollback(i)
            BY <4>2, <6>1 DEF Accept, Run, Stage, NextPart, RefuseUpload, Land, Batch, Rollback, Goto,
                              TypeOK
          <6>2. CASE Finish(i) \/ Sweep(i) \/ Invalid(i) \/ (Forget(i) /\ EndJob(i, "failed"))
            BY <4>2, <6>2 DEF Finish, Sweep, Invalid, EndJob, Goto, TypeOK
          <6>3. CASE Forget(i) /\ ~EndJob(i, "failed")
            BY <4>2, <6>3 DEF Forget, Goto, TypeOK
          <6>4. CASE Promote(i)
            BY <4>2, <6>4, PromoteWrites DEF TypeOK
          <6> QED BY <1>1, <2>3, <6>1, <6>2, <6>3, <6>4 DEF Step
        <5> QED BY <4>2, <5>1 DEF Rename, Goto, TypeOK, Unit
      <4> QED BY <4>1, <4>2
    <3>7. \A u \in doomed' : ~InHand(u)' /\ \A n \in Ids : version'[n] # u
      <4> SUFFICES ASSUME NEW u \in doomed PROVE ~InHand(u)' /\ \A n \in Ids : version'[n] # u
        BY <2>1
      <4>1. u # None
        BY DEF TypeOK
      <4> QED BY <1>1, <3>1, <3>3, <4>1, HandOfThread DEF KeptInv
    <3>8. \A n \in completed' : version'[n] \in stored'
      <4> SUFFICES ASSUME NEW n \in completed' PROVE version'[n] \in stored'
        OBVIOUS
      <4>1. n \in Ids
        <5>1. CASE Promote(i)
          BY <3>2, <5>1, PromoteWrites, RowsHeld DEF TypeOK, AtRows, Begun
        <5> QED BY <3>2, <5>1 DEF TypeOK
      <4>2. version'[n] # None
        BY <4>1 DEF TableInv
      <4>3. version'[n] = version[n]
        BY <3>1, <4>1, <4>2
      <4>4. version[n] \in stored
        <5>1. CASE n \in completed
          BY <5>1 DEF KeptInv
        <5>2. CASE Promote(i) /\ n = sid[i]
          <6>1. pc[i] = "renamed" /\ AtRows(i)
            BY <5>2, PromoteWrites DEF AtRows, Begun
          <6> QED BY <5>2, <6>1, RowsHeld DEF KeptInv
        <5> QED BY <3>2, <5>1, <5>2
      <4>5. Sweep(i) => version[n] # Unit(i)
        <5>1. Sweep(i) => completed' = completed /\ pc[i] = "sweep"
          BY DEF Sweep, tables
        <5> QED BY <4>1, <5>1 DEF KeptInv
      <4> QED BY <3>4, <4>3, <4>4, <4>5
    <3> QED BY <3>5, <3>6, <3>7, <3>8 DEF KeptInv
  <2> QED BY <2>2, <2>3
<1>2. ASSUME NEW i \in Imports, NEW k \in Kinds, Request(i, k) PROVE KeptInv'
  <2>1. /\ UNCHANGED <<part, version, completed, stored, doomed>> /\ pc'[i] \in {"receive", "queued"}
        /\ \A j \in Imports \ {i} : pc'[j] = pc[j]
    BY <1>2 DEF Request, Goto, TypeOK, tables, disk
  <2>2. \A u : InHand(u)' => InHand(u)
    BY <2>1 DEF InHand, Unit, Working
  <2> QED BY <2>1, <2>2 DEF KeptInv, Unit, Begun
<1>3. ASSUME NEW a \in Ids, RemoveAccount(a) \/ ClearArchive(a) PROVE KeptInv'
  <2>1. /\ account[a] \in Parts \ {None} /\ doomed' = doomed \cup {account[a]}
        /\ Lessens /\ UNCHANGED <<thread, disk>> /\ ~InHand(account[a])
        /\ \A n \in Ids : version'[n] = IF under[n] = a THEN None ELSE version[n]
    BY <1>3, OwnerDrops DEF Steady
  <2>2. \A n \in Ids : version[n] = account[a] => under[n] = a
    BY <2>1, RowsOfUnit
  <2>3. \A u : InHand(u)' <=> InHand(u)
    BY <2>1 DEF InHand, thread, Unit
  <2>4. \A u \in doomed' : ~InHand(u)' /\ \A n \in Ids : version'[n] # u
    <3> SUFFICES ASSUME NEW u \in doomed' PROVE ~InHand(u)' /\ \A n \in Ids : version'[n] # u
      OBVIOUS
    <3>1. u # None /\ (u \in doomed \/ u = account[a])
      BY <2>1 DEF TypeOK
    <3> QED BY <2>1, <2>2, <2>3, <3>1 DEF KeptInv
  <2>5. \A n \in completed' : n \in completed /\ n \in Ids /\ version'[n] = version[n]
    BY <2>1 DEF Lessens, TypeOK, TableInv
  <2>6. \A j \in Imports, n \in Ids :
          pc'[j] \in Hold /\ version'[n] = Unit(j)' => n \notin completed'
    BY <2>1, <2>5 DEF KeptInv, thread, Unit
  <2> QED BY <2>1, <2>4, <2>5, <2>6 DEF KeptInv, thread, Unit, disk
<1>4. ASSUME NEW u \in Parts \ {None}, RemoveFiles(u) PROVE KeptInv'
  <2>1. /\ u \in doomed /\ doomed' = doomed \ {u} /\ stored' = stored \ {u}
        /\ UNCHANGED <<thread, tables>>
    BY <1>4 DEF RemoveFiles
  <2>2. ~InHand(u) /\ \A n \in Ids : version[n] # u
    BY <2>1 DEF KeptInv
  <2>3. \A j \in Imports : pc[j] = "renamed" => Unit(j) # u
    BY <2>2 DEF InHand, Working
  <2>4. \A v : InHand(v)' <=> InHand(v)
    BY <2>1 DEF InHand, thread, Unit
  <2> QED BY <2>1, <2>2, <2>3, <2>4 DEF KeptInv, thread, tables, Unit, TypeOK
<1>5. CASE Crash
  <2>1. /\ pc' = [i \in Imports |-> "idle"] /\ doomed' = {} /\ UNCHANGED disk
        /\ UNCHANGED tables \/ DropAccountRow(aid[writer])
    BY <1>5 DEF Crash
  <2>2. Lessens
    BY <2>1, AccountDrops DEF Lessens, tables
  <2>3. \A n \in completed' : n \in completed /\ n \in Ids /\ version'[n] = version[n]
    BY <2>2 DEF Lessens, TypeOK, TableInv
  <2> QED BY <2>1, <2>3 DEF KeptInv, Begun, disk
<1>6. CASE Recover
  <2>1. /\ \A i \in Imports : pc'[i] = "idle"
        /\ doomed' = {} /\ UNCHANGED stored
        /\ DropVersions(0, RowsOf(version) \ completed) /\ account' = account
        /\ RowsOf(version) \ completed \subseteq Ids
    BY <1>6 DEF Recover, RowsOf, PlaceInv, thread
  <2>2. Lessens
    BY <2>1, TableDrops
  <2>3. \A n \in completed' : n \in completed /\ n \in Ids /\ version'[n] = version[n]
    BY <2>2 DEF Lessens, TypeOK, TableInv
  <2> QED BY <2>1, <2>3 DEF KeptInv, Begun
<1>7. CASE Rest \/ UNCHANGED vars
  <2>1. UNCHANGED <<thread, version, completed, stored, doomed>>
    BY <1>7 DEF Rest, vars, tables, disk
  <2> QED BY <2>1 DEF KeptInv, thread, InHand, Unit
<1> QED BY <1>1, <1>2, <1>3, <1>4, <1>5, <1>6, <1>7 DEF Next

-----------------------------------------------------------------------------
(* The theorems for accounts that are whole *)

LEMMA StartsWhole == Init => WholeInv
<1> SUFFICES ASSUME Init PROVE WholeInv
  OBVIOUS
<1> USE DEF Init
<1>1. TypeOK
  <2>1. 0 \in 0..MaxId /\ 0 \in 0..MaxCrashes
    BY ImportBounds
  <2> QED BY <2>1 DEF TypeOK, Over, Kinds, Parts, Working
<1>2. PlaceInv
  BY Constants DEF PlaceInv, PlaceOK, Early
<1>3. TableInv /\ HeldInv /\ KeptInv
  BY DEF TableInv, HeldInv, KeptInv, AtRows, Begun
<1>4. FreshInv
  BY Constants DEF FreshInv
<1> QED BY <1>1, <1>2, <1>3, <1>4 DEF WholeInv

LEMMA WholeStep == WholeInv /\ Steady /\ [Next]_vars => WholeInv'
BY TypeStep, PlaceStep, TableStep, FreshStep, HeldStep, KeptStep DEF WholeInv

LEMMA WholeAlways == Steady /\ Spec => []WholeInv
<1>1. Steady /\ Init => WholeInv /\ Steady
  BY StartsWhole
<1>2. WholeInv /\ Steady /\ [Next]_vars => WholeInv' /\ Steady'
  BY WholeStep DEF Steady
<1> QED BY <1>1, <1>2, PTL DEF Spec

\* Every value an import keeps stays of its type, whatever overlaps, for any number of
\* imports, rows and crashes.
THEOREM TypeCorrect == Spec => []TypeOK
<1>1. Init => TypeOK /\ PlaceInv
  BY StartsWhole DEF WholeInv
<1>2. TypeOK /\ PlaceInv /\ [Next]_vars => (TypeOK /\ PlaceInv)'
  BY TypeStep, PlaceStep
<1> QED BY <1>1, <1>2, PTL DEF Spec

\* What an owner can open is one import and all of it, as long as nobody touches an
\* account while it is being imported and no id is given again before the clean-up
\* that still holds it: import_archive, import_mbox_sources, _drop_snapshot_rows and
\* recover_interrupted_jobs.
THEOREM AccountsAreWhole == Steady /\ Spec => []ArchivesAreWhole
<1>1. WholeInv => ArchivesAreWhole
  <2> SUFFICES ASSUME WholeInv, NEW a \in Ids, active[a] # 0
               PROVE  /\ active[a] \in completed /\ under[active[a]] = a
                      /\ version[active[a]] = account[a]
                      /\ content[active[a]] = {account[a]} /\ account[a] \in stored
    BY DEF ArchivesAreWhole
  <2>1. active[a] \in completed /\ under[active[a]] = a /\ active[a] \in Ids
    BY DEF WholeInv, TypeOK, TableInv
  <2>2. version[active[a]] # None
    BY <2>1 DEF WholeInv, TableInv
  <2>3. account[a] = version[active[a]] /\ content[active[a]] = {version[active[a]]}
    BY <2>1, <2>2 DEF WholeInv, TableInv
  <2> QED BY <2>1, <2>3 DEF WholeInv, KeptInv
<1> QED BY <1>1, WholeAlways, PTL

-----------------------------------------------------------------------------
(* What is undone, and what is left *)

\* The rows of a thread are gone when it turns to the directories.
LEMMA UndoneStep ==
  ASSUME WholeInv, UndoneInv, Calm, WholeInv', [Next]_vars
  PROVE  UndoneInv'
<1> DEFINE Gone(j) == \A n \in Ids : Unit(j) \notin {account[n], version[n]}
           Only(j) == \A n \in Ids : account[n] = Unit(j) => n = aid[j]
           Up(j)   == pc[j] = "sweep" \/ (pc[j] = "undo" /\ ~landed[j])
<1>0. TypeOK /\ PlaceInv /\ TableInv /\ FreshInv /\ HeldInv /\ KeptInv /\ TypeOK'
      /\ \A j \in Imports : Unit(j) # None
  BY UnitIsAPart DEF WholeInv
<1>1. ASSUME UNCHANGED thread, Lessens PROVE UndoneInv'
  BY <1>0, <1>1 DEF UndoneInv, thread, Lessens, Unit
<1>2. ASSUME NEW i \in Imports, Step(i) \/ RefuseUpload(i) \/ Invalid(i) \/ Rollback(i)
      PROVE  UndoneInv'
  <2>1. /\ \A n \in Ids : account'[n] \in {account[n], None, Unit(i)}
                        /\ version'[n] \in {version[n], None, Unit(i)}
        /\ OthersStay(i)
    BY <1>0, <1>2, Adds, ThreadStep
  <2>2. ASSUME NEW j \in Imports, j # i
        PROVE  (Up(j) => Gone(j))' /\ (pc[j] = "done" => Only(j))'
    <3>1. Unit(j)' = Unit(j) /\ Unit(j) # Unit(i) /\ Unit(j) # None
          /\ UNCHANGED <<pc[j], landed[j], aid[j]>>
      BY <1>0, <2>1, <2>2, UnitsApart DEF OthersStay, Unit
    <3>2. (Up(j) => Gone(j)) /\ (pc[j] = "done" => Only(j))
      BY DEF UndoneInv
    <3> QED BY <2>1, <3>1, <3>2
  <2>3. Up(i)' => Gone(i)'
    <3>1. CASE Rollback(i)
      <4>1. /\ UNCHANGED <<part, landed>> /\ pc'[i] = "undo"
            /\ ~landed[i] => \A n \in Ids : account'[n] # Unit(i) /\ version'[n] # Unit(i)
        BY <1>0, <3>1, RollbackTakes
      <4> QED BY <4>1 DEF Unit
    <3>2. CASE Forget(i) /\ ~EndJob(i, "failed")
      <4>1. pc[i] = "undo" /\ UNCHANGED <<part, landed, aid>>
        BY <3>2 DEF Forget
      <4>2. CASE ~landed[i]
        <5>1. Gone(i)
          BY <4>1, <4>2 DEF UndoneInv
        <5>2. Lessens
          <6>1. UNCHANGED tables \/ DropAccountRow(aid[i])
            BY <3>2 DEF Forget
          <6> QED BY <1>0, <6>1, AccountDrops DEF Lessens, tables
        <5> QED BY <1>0, <4>1, <5>1, <5>2 DEF Lessens, Unit
      <4>3. CASE landed[i]
        <5>1. AtRows(i)
          BY <4>1, <4>3 DEF AtRows
        <5>2. /\ aid[i] \in Ids /\ under[sid[i]] = aid[i] /\ account[aid[i]] # None
              /\ \A n \in Ids : /\ account[n] = Unit(i) <=> n = aid[i]
                                /\ version[n] = Unit(i) <=> n = sid[i]
          BY <1>0, <5>1, RowsHeld
        <5>3. DropAccountRow(aid[i])
          BY <3>2, <5>2, Constants DEF Forget, Calm
        <5>4. /\ \A n \in Ids : account'[n] = IF n = aid[i] THEN None ELSE account[n]
              /\ \A n \in Ids : version'[n] = IF under[n] = aid[i] THEN None ELSE version[n]
          BY <1>0, <5>3, AccountDrops
        <5> QED BY <1>0, <4>1, <5>2, <5>4 DEF Unit
      <4> QED BY <4>2, <4>3
    <3>3. CASE Finish(i) \/ Sweep(i) \/ Invalid(i) \/ (Forget(i) /\ EndJob(i, "failed"))
      BY <1>0, <3>3 DEF Finish, Sweep, Invalid, EndJob, Goto, TypeOK
    <3>4. CASE Accept(i) \/ Run(i) \/ Stage(i) \/ NextPart(i) \/ RefuseUpload(i) \/ Land(i) \/ Insert(i)
      BY <1>0, <3>4 DEF Accept, Run, Stage, NextPart, RefuseUpload, Land, Insert, Goto, TypeOK
    <3>5. CASE Batch(i) \/ Rename(i) \/ Promote(i)
      <4>1. landed[i] /\ landed' = landed
        BY <1>0, <3>5 DEF Batch, Rename, Promote, PlaceInv, PlaceOK
      <4>2. pc'[i] # "sweep"
        BY <1>0, <3>5 DEF Batch, Rename, Promote, Goto, TypeOK
      <4> QED BY <4>1, <4>2
    <3> QED BY <1>2, <3>1, <3>2, <3>3, <3>4, <3>5 DEF Step
  <2>4. pc'[i] = "done" => Only(i)'
    <3>1. CASE Promote(i)
      <4>1. AtRows(i) /\ UNCHANGED <<account, part, aid>>
        BY <3>1 DEF Promote, AtRows, Begun
      <4> QED BY <1>0, <4>1, RowsHeld DEF Unit
    <3>2. CASE ~Promote(i)
      <4>1. pc'[i] # "done"
        <5>1. CASE Finish(i) \/ Sweep(i) \/ Invalid(i) \/ (Forget(i) /\ EndJob(i, "failed"))
          BY <1>0, <5>1 DEF Finish, Sweep, Invalid, EndJob, Goto, TypeOK
        <5>2. CASE Accept(i) \/ Run(i) \/ Stage(i) \/ NextPart(i) \/ RefuseUpload(i) \/ Land(i)
                   \/ Insert(i) \/ Batch(i) \/ Rename(i) \/ Rollback(i)
          BY <1>0, <5>2 DEF Accept, Run, Stage, NextPart, RefuseUpload, Land, Insert, Batch, Rename,
                            Rollback, Goto, TypeOK
        <5>3. CASE Forget(i) /\ ~EndJob(i, "failed")
          BY <1>0, <5>3 DEF Forget, Goto, TypeOK
        <5> QED BY <1>2, <3>2, <5>1, <5>2, <5>3 DEF Step
      <4> QED BY <4>1
    <3> QED BY <3>1, <3>2
  <2> QED BY <2>2, <2>3, <2>4 DEF UndoneInv
<1>3. ASSUME NEW i \in Imports, NEW k \in Kinds, Request(i, k) PROVE UndoneInv'
  <2>1. /\ UNCHANGED <<part, aid, landed, account, version>> /\ pc'[i] \in {"receive", "queued"}
        /\ \A j \in Imports \ {i} : pc'[j] = pc[j]
    BY <1>0, <1>3 DEF Request, Goto, TypeOK, tables
  <2> QED BY <2>1 DEF UndoneInv, Unit
<1>4. ASSUME NEW a \in Ids, RemoveAccount(a) \/ ClearArchive(a) PROVE UndoneInv'
  BY <1>0, <1>1, <1>4, OwnerDrops
<1>5. CASE Crash \/ Recover
  <2>1. \A i \in Imports : pc'[i] = "idle"
    BY <1>0, <1>5 DEF Crash, Recover, PlaceInv, thread
  <2> QED BY <2>1 DEF UndoneInv
<1>6. CASE Rest \/ UNCHANGED vars \/ (\E u \in Parts \ {None} : RemoveFiles(u))
  <2>1. UNCHANGED <<thread, tables>>
    BY <1>6 DEF Rest, vars, RemoveFiles
  <2> QED BY <1>1, <2>1 DEF tables, Lessens
<1> QED BY <1>2, <1>3, <1>4, <1>5, <1>6 DEF Next

\* A crash takes no row of a completed version.
LEMMA CrashSpares ==
  ASSUME WholeInv, Crash
  PROVE  \A n \in completed : n \in completed' /\ version'[n] = version[n] /\ n \in Ids
<1>0. TypeOK /\ PlaceInv /\ TableInv /\ HeldInv /\ KeptInv
  BY DEF WholeInv
<1>1. CASE writer = None
  BY <1>0, <1>1 DEF Crash, tables, TypeOK
<1>2. CASE writer # None
  <2>1. writer \in Imports /\ DropAccountRow(aid[writer]) /\ pc[writer] = "inserted"
    BY <1>0, <1>2 DEF Crash, TypeOK, PlaceInv, PlaceOK
  <2>2. aid[writer] \in Ids /\ account[aid[writer]] = Unit(writer) /\ Unit(writer) # None
    BY <1>0, <2>1, RowsHeld DEF AtRows, Begun
  <2>3. ASSUME NEW n \in completed PROVE under[n] # aid[writer] /\ n \in Ids
    <3>1. n \in Ids /\ version[n] # None
      BY <1>0 DEF TypeOK, TableInv
    <3>2. version[n] # Unit(writer)
      BY <1>0, <2>1, <3>1 DEF KeptInv, Begun
    <3> QED BY <1>0, <2>2, <3>1, <3>2 DEF TableInv
  <2> QED BY <1>0, <2>1, <2>3, AccountDrops
<1> QED BY <1>1, <1>2

LEMMA StoppedStep ==
  ASSUME WholeInv, StoppedInv, [Next]_vars
  PROVE  StoppedInv'
<1>0. TypeOK /\ PlaceInv
  BY DEF WholeInv
<1>1. ASSUME NEW i \in Imports, Step(i) \/ RefuseUpload(i) \/ Invalid(i) \/ Rollback(i)
      PROVE  up'
  BY <1>0, <1>1, ThreadStep
<1>2. ASSUME NEW i \in Imports, NEW k \in Kinds, Request(i, k) PROVE up'
  BY <1>2 DEF Request, world
<1>3. ASSUME NEW a \in Ids, RemoveAccount(a) \/ ClearArchive(a) PROVE up'
  BY <1>3 DEF RemoveAccount, ClearArchive, Removable, world
<1>4. ASSUME NEW u \in Parts \ {None}, RemoveFiles(u) PROVE up'
  BY <1>0, <1>4 DEF RemoveFiles, PlaceInv, world
<1>5. CASE Crash
  <2>1. \A u \in stored' \ abandoned' : \E n \in completed : version[n] = u
    BY <1>5 DEF Crash, disk
  <2> QED BY <1>5, <2>1, CrashSpares DEF WholeInv, StoppedInv
<1>6. CASE Recover
  BY <1>6 DEF Recover, StoppedInv
<1>7. CASE Rest \/ UNCHANGED vars
  BY <1>7 DEF Rest, vars, tables, disk, world, StoppedInv
<1> QED BY <1>1, <1>2, <1>3, <1>4, <1>5, <1>6, <1>7 DEF Next, StoppedInv

\* How a job ends badly: it has no rows then, and no directory but what a maintenance
\* job or a crash has taken over.
LEMMA EndsBadly ==
  ASSUME CleanInv, Calm, NEW i \in Imports, status'[i] = "failed",
         Step(i) \/ RefuseUpload(i) \/ Invalid(i) \/ Rollback(i)
  PROVE  /\ \A n \in Ids : Unit(i) \notin {account[n], version[n]}
         /\ Unit(i) \notin (staged' \cup stored') \ (doomed \cup abandoned)
         /\ part' = part /\ UNCHANGED tables
<1>0. /\ TypeOK /\ PlaceInv /\ TableInv /\ FreshInv /\ HeldInv /\ PlaceOK(i)
      /\ Unit(i) = <<i, part[i]>> /\ part[i] \in {1, 2} /\ PlaceOK(i)' /\ Unit(i) # None
  BY ThreadStep, UnitIsAPart DEF CleanInv, WholeInv, PlaceInv
<1>1. pc'[i] = "idle"
  BY <1>0 DEF PlaceOK
<1>2. CASE Invalid(i)
  <2>1. pc[i] = "check" /\ part' = part /\ UNCHANGED <<tables, disk>>
    BY <1>2 DEF Invalid, EndJob
  <2>2. Fresh(i, part[i])
    BY <2>1 DEF Fresh, Early
  <2>3. /\ \A n \in Ids : account[n] # Unit(i) /\ version[n] # Unit(i)
        /\ Unit(i) \notin staged \cup stored
    BY <1>0, <2>1, <2>2 DEF FreshInv
  <2> QED BY <2>1, <2>3 DEF disk
<1>3. CASE Finish(i)
  <2>1. pc[i] = "done" /\ part' = part /\ UNCHANGED <<tables, disk>> /\ account[aid[i]] = None
    BY <1>0, <1>3 DEF Finish, EndJob, Outcome, TypeOK
  <2>2. \A n \in Ids : account[n] # Unit(i)
    BY <1>0, <2>1 DEF CleanInv, UndoneInv
  <2>3. \A n \in Ids : version[n] # Unit(i)
    BY <1>0, <2>2 DEF TableInv
  <2>4. ~InHand(Unit(i))
    BY <2>1 DEF InHand, Unit, Working
  <2> QED BY <2>1, <2>2, <2>3, <2>4 DEF CleanInv, NothingLeaks, disk
<1>4. CASE Sweep(i)
  <2>1. /\ pc[i] = "sweep" /\ part' = part /\ UNCHANGED tables
        /\ staged' = staged \ {Unit(i)} /\ stored' = stored \ {Unit(i)}
    BY <1>4 DEF Sweep, EndJob
  <2> QED BY <2>1 DEF CleanInv, UndoneInv
<1>5. CASE Forget(i) /\ EndJob(i, "failed")
  <2>1. AtRows(i) /\ account[aid[i]] = None
    BY <1>0, <1>1, <1>5 DEF Forget, Goto, TypeOK, AtRows
  <2> QED BY <1>0, <2>1, RowsHeld
<1>6. CASE ~ (Invalid(i) \/ Finish(i) \/ Sweep(i) \/ (Forget(i) /\ EndJob(i, "failed")))
  <2>1. CASE RefuseUpload(i)
    BY <1>0, <2>1 DEF RefuseUpload, PlaceOK
  <2>2. CASE Forget(i)
    BY <1>0, <1>1, <1>6, <2>2 DEF Forget, Goto, TypeOK
  <2>3. CASE Accept(i) \/ Run(i) \/ Stage(i) \/ NextPart(i) \/ Land(i) \/ Insert(i)
             \/ Batch(i) \/ Rename(i) \/ Rollback(i) \/ Promote(i)
    BY <1>0, <1>1, <2>3 DEF Accept, Run, Stage, NextPart, Land, Insert, Batch, Rename, Rollback,
                            Promote, Goto, TypeOK
  <2> QED BY <1>6, <2>1, <2>2, <2>3 DEF Step
<1> QED BY <1>2, <1>3, <1>4, <1>5, <1>6

LEMMA FailureStep ==
  ASSUME CleanInv, Calm, [Next]_vars
  PROVE  FailureLeavesNothing'
<1>0. /\ TypeOK /\ PlaceInv /\ TableInv /\ FreshInv /\ HeldInv /\ FailureLeavesNothing
      /\ \A j \in Imports : Unit(j) # None
  BY UnitIsAPart DEF CleanInv, WholeInv
<1>1. ASSUME NEW i \in Imports, Step(i) \/ RefuseUpload(i) \/ Invalid(i) \/ Rollback(i)
      PROVE  FailureLeavesNothing'
  <2>1. /\ staged' \subseteq staged \cup {Unit(i)} /\ stored' \subseteq stored \cup {Unit(i)}
        /\ \A n \in Ids : account'[n] \in {account[n], None, Unit(i)}
                        /\ version'[n] \in {version[n], None, Unit(i)}
        /\ OthersStay(i) /\ UNCHANGED <<doomed, abandoned>>
    BY <1>0, <1>1, Adds, ThreadStep DEF world
  <2>2. ASSUME NEW j \in Imports, status'[j] = "failed"
        PROVE  /\ Unit(j)' \notin (staged' \cup stored') \ (doomed' \cup abandoned')
               /\ \A n \in Ids : Unit(j)' \notin {account'[n], version'[n]}
    <3>1. CASE j # i
      <4>1. status[j] = "failed" /\ Unit(j)' = Unit(j) /\ Unit(j) # Unit(i)
        BY <2>1, <2>2, <3>1, UnitsApart DEF OthersStay, Unit
      <4>2. /\ Unit(j) \notin (staged \cup stored) \ (doomed \cup abandoned)
            /\ \A n \in Ids : Unit(j) \notin {account[n], version[n]}
        BY <1>0, <4>1 DEF FailureLeavesNothing
      <4> QED BY <1>0, <2>1, <4>1, <4>2
    <3>2. CASE j = i
      BY <1>1, <2>1, <2>2, <3>2, EndsBadly DEF Unit, tables
    <3> QED BY <3>1, <3>2
  <2> QED BY <2>2 DEF FailureLeavesNothing
<1>2. ASSUME Lessens, UNCHANGED part,
             \A j \in Imports : status'[j] = "failed" => status[j] = "failed",
             (staged' \cup stored') \ (doomed' \cup abandoned')
               \subseteq (staged \cup stored) \ (doomed \cup abandoned)
      PROVE  FailureLeavesNothing'
  <2> SUFFICES ASSUME NEW j \in Imports, status'[j] = "failed"
               PROVE  /\ Unit(j)' \notin (staged' \cup stored') \ (doomed' \cup abandoned')
                      /\ \A n \in Ids : Unit(j)' \notin {account'[n], version'[n]}
    BY DEF FailureLeavesNothing
  <2>1. Unit(j)' = Unit(j) /\ Unit(j) # None /\ status[j] = "failed"
    BY <1>0, <1>2 DEF Unit
  <2>2. /\ Unit(j) \notin (staged \cup stored) \ (doomed \cup abandoned)
        /\ \A n \in Ids : Unit(j) \notin {account[n], version[n]}
    BY <1>0, <2>1 DEF FailureLeavesNothing
  <2> QED BY <1>2, <2>1, <2>2 DEF Lessens
<1>3. ASSUME NEW i \in Imports, NEW k \in Kinds, Request(i, k) PROVE FailureLeavesNothing'
  <2>1. UNCHANGED <<part, tables, disk, doomed, abandoned>>
    BY <1>3 DEF Request, world
  <2>2. \A j \in Imports : status'[j] = "failed" => status[j] = "failed"
    BY <1>0, <1>3 DEF Request, TypeOK
  <2> QED BY <1>2, <2>1, <2>2 DEF Lessens, tables, disk
<1>4. ASSUME NEW a \in Ids, RemoveAccount(a) \/ ClearArchive(a) PROVE FailureLeavesNothing'
  <2>1. Lessens /\ doomed' = doomed \cup {account[a]} /\ UNCHANGED <<part, status, disk, abandoned>>
    BY <1>0, <1>4, OwnerDrops DEF jobs, thread, world
  <2> QED BY <1>2, <2>1 DEF disk
<1>5. ASSUME NEW u \in Parts \ {None}, RemoveFiles(u) PROVE FailureLeavesNothing'
  <2>1. /\ doomed' = doomed \ {u} /\ staged' = staged \ {u} /\ stored' = stored \ {u}
        /\ UNCHANGED <<part, status, tables, abandoned>>
    BY <1>5 DEF RemoveFiles, jobs, thread, world
  <2> QED BY <1>2, <2>1 DEF Lessens, tables
<1>6. CASE Crash
  <2>1. /\ doomed' = {} /\ UNCHANGED <<part, disk>> /\ doomed \cup abandoned \subseteq abandoned'
        /\ status' = [i \in Imports |-> IF pc[i] = "idle" THEN status[i] ELSE "lost"]
        /\ UNCHANGED tables \/ DropAccountRow(aid[writer])
    BY <1>6 DEF Crash
  <2>2. Lessens
    BY <1>0, <2>1, AccountDrops DEF Lessens, tables
  <2> QED BY <1>2, <2>1, <2>2 DEF disk
<1>7. CASE Recover
  <2>1. /\ DropVersions(0, RowsOf(version) \ completed) /\ account' = account
        /\ RowsOf(version) \ completed \subseteq Ids /\ staged' \subseteq staged
        /\ UNCHANGED <<stored, part, status, doomed, abandoned>>
    BY <1>7 DEF Recover, RowsOf, jobs, thread
  <2>2. Lessens
    BY <1>0, <2>1, TableDrops
  <2> QED BY <1>2, <2>1, <2>2
<1>8. CASE Rest \/ UNCHANGED vars
  <2>1. UNCHANGED <<part, status, tables, disk, doomed, abandoned>>
    BY <1>8 DEF Rest, vars, jobs, thread, world
  <2> QED BY <1>2, <2>1 DEF Lessens, tables, disk
<1> QED BY <1>1, <1>3, <1>4, <1>5, <1>6, <1>7, <1>8 DEF Next

\* An account leaves a thread's hands only when it is promoted or swept away.
LEMMA HandAfter ==
  ASSUME WholeInv, NEW i \in Imports, NEW u, InHand(u),
         Step(i) \/ RefuseUpload(i) \/ Invalid(i) \/ Rollback(i)
  PROVE  InHand(u)' \/ (u = Unit(i) /\ (Promote(i) \/ Sweep(i)))
<1>0. TypeOK /\ PlaceInv /\ TableInv /\ HeldInv /\ OthersStay(i)
  BY ThreadStep DEF WholeInv
<1>1. PICK j \in Imports : u = Unit(j) /\ pc[j] \in Working \cup {"undo", "sweep"}
  BY DEF InHand
<1>2. CASE j # i
  BY <1>0, <1>1, <1>2 DEF OthersStay, InHand, Unit
<1>3. CASE j = i
  <2>1. CASE Accept(i) \/ Run(i) \/ Stage(i) \/ NextPart(i) \/ RefuseUpload(i) \/ Finish(i)
             \/ Invalid(i)
    BY <1>1, <1>3, <2>1 DEF Accept, Run, Stage, NextPart, RefuseUpload, Finish, Invalid, Working
  <2>2. CASE Insert(i) \/ Land(i) \/ Batch(i) \/ Rename(i) \/ Rollback(i)
    <3>1. part' = part /\ pc'[i] \in Working \cup {"undo", "sweep"}
      BY <1>0, <2>2 DEF Insert, Land, Batch, Rename, Rollback, Goto, TypeOK, Working
    <3> QED BY <1>1, <1>3, <3>1 DEF InHand, Unit
  <2>3. CASE Forget(i)
    <3>1. ~EndJob(i, "failed") \/ ~landed[i] \/ account[aid[i]] # None
      <4>1. pc[i] = "undo"
        BY <2>3 DEF Forget
      <4> QED BY <1>0, <4>1, RowsHeld DEF AtRows
    <3>2. part' = part /\ pc'[i] = "sweep"
      BY <1>0, <2>3, <3>1 DEF Forget, Goto, TypeOK
    <3> QED BY <1>1, <1>3, <3>2 DEF InHand, Unit
  <2> QED BY <1>1, <1>3, <2>1, <2>2, <2>3 DEF Step
<1> QED BY <1>2, <1>3

\* A directory appears in the hands of the thread that makes it.
LEMMA DirsOfThread ==
  ASSUME TypeOK, NEW i \in Imports, NEW u \in staged' \cup stored', u \notin staged \cup stored,
         Step(i) \/ RefuseUpload(i) \/ Invalid(i) \/ Rollback(i)
  PROVE  InHand(u)'
<1>1. (Stage(i) \/ Batch(i)) /\ u = Unit(i)
  BY DEF Step, RefuseUpload, Invalid, Rollback, Accept, Run, Stage, Insert, Land, Batch, Rename,
         Promote, NextPart, Finish, Forget, Sweep, disk
<1>2. part' = part /\ pc'[i] \in Working \cup {"undo", "sweep"}
  BY <1>1 DEF Stage, Batch, Goto, TypeOK, Working
<1> QED BY <1>1, <1>2 DEF InHand, Unit

\* The versions a thread's step deletes are of the account in its hands.
LEMMA RowsOfThread ==
  ASSUME WholeInv, NEW i \in Imports, NEW n \in Ids, NEW u, u = version[n],
         version'[n] # u, ~Insert(i),
         Step(i) \/ RefuseUpload(i) \/ Invalid(i) \/ Rollback(i)
  PROVE  u = Unit(i) /\ version'[n] = None /\ InHand(u)'
<1>0. TypeOK /\ PlaceInv /\ TableInv /\ HeldInv /\ PlaceOK(i)
  BY DEF WholeInv, PlaceInv
<1>1. (Rollback(i) \/ Forget(i)) /\ DropAccountRow(aid[i]) /\ ~ UNCHANGED tables
  BY <1>0, TableWriters, BatchWrites, PromoteWrites DEF tables
<1>2. version'[n] = None /\ version[n] # None /\ under[n] = aid[i]
  BY <1>0, <1>1, AccountDrops
<1>3. under[n] \in Ids /\ account[aid[i]] = version[n]
  BY <1>0, <1>2 DEF TableInv
<1>4. AtRows(i) \/ (pc[i] = "undo" /\ ~landed[i] /\ aid[i] # 0)
  BY <1>0, <1>1, <1>2, <1>3, Constants DEF Rollback, Forget, AtRows, Begun, PlaceOK
<1>5. version[n] = Unit(i)
  BY <1>0, <1>2, <1>3, <1>4, OwnRow
<1>6. pc'[i] \in {"undo", "sweep"} /\ part' = part
  BY <1>0, <1>1, <1>2, <1>3 DEF Rollback, Forget, Goto, TypeOK
<1> QED BY <1>2, <1>5, <1>6 DEF InHand, Unit

LEMMA LeaksStep ==
  ASSUME CleanInv, Calm, PlaceInv', [Next]_vars
  PROVE  NothingLeaks'
<1>0. /\ TypeOK /\ PlaceInv /\ TableInv /\ FreshInv /\ HeldInv /\ KeptInv /\ WholeInv
      /\ NothingLeaks /\ StoppedInv
  BY DEF CleanInv, WholeInv
<1>1. \A i \in Imports : temp'[i] => status'[i] \in {"queued", "running", "lost"} \/ pc'[i] = "receive"
  BY DEF PlaceInv, PlaceOK
<1>2. ASSUME NEW i \in Imports, Step(i) \/ RefuseUpload(i) \/ Invalid(i) \/ Rollback(i)
      PROVE  NothingLeaks'
  <2>0. UNCHANGED <<doomed, abandoned>> /\ up /\ Unit(i) # None
    BY <1>0, <1>2, ThreadStep, UnitIsAPart DEF world
  <2>1. ASSUME NEW n \in Ids, NEW v, v = version'[n], v # None, n \notin completed'
        PROVE  InHand(v)'
    <3>1. CASE Insert(i)
      <4>1. PICK a, s \in Ids : Inserted(i, a, s)
        BY <1>0, <3>1, RowsInserted
      <4>2. InHand(Unit(i)) /\ ~Promote(i) /\ ~Sweep(i)
        BY <3>1 DEF Insert, InHand, Working, Promote, Sweep
      <4>3. InHand(v)
        BY <1>0, <2>0, <2>1, <4>1, <4>2 DEF Inserted, NothingLeaks, RowsOf
      <4> QED BY <1>0, <1>2, <4>2, <4>3, HandAfter
    <3>2. CASE ~Insert(i)
      <4>1. version'[n] = version[n]
        BY <1>0, <1>2, <2>1, <3>2, RowsOfThread
      <4>2. n \notin completed
        <5>1. n \in completed => n \in completed'
          BY <1>0, <1>2, <2>1, <3>2, <4>1, TableWriters, BatchWrites, PromoteWrites, AccountDrops
             DEF tables
        <5> QED BY <2>1, <5>1
      <4>3. InHand(v)
        BY <1>0, <2>0, <2>1, <4>1, <4>2 DEF NothingLeaks, RowsOf
      <4>4. v = Unit(i) => ~Sweep(i)
        BY <2>1, <4>1 DEF CleanInv, UndoneInv, Sweep
      <4>5. v = Unit(i) => ~Promote(i)
        <5>1. Promote(i) => n # sid[i]
          BY <1>0, <2>1, PromoteWrites
        <5>2. Promote(i) => AtRows(i)
          BY DEF Promote, AtRows, Begun
        <5> QED BY <1>0, <2>1, <4>1, <5>1, <5>2, RowsHeld
      <4> QED BY <1>0, <1>2, <4>1, <4>3, <4>4, <4>5, HandAfter
    <3> QED BY <3>1, <3>2
  <2>2. ASSUME NEW u \in (staged' \cup stored') \ abandoned'
        PROVE  InHand(u)' \/ u \in doomed' \/ \E n \in Ids : version'[n] = u
    <3>1. CASE u \notin staged \cup stored
      BY <1>0, <1>2, <2>2, <3>1, DirsOfThread
    <3>2. CASE u \in staged \cup stored
      <4>1. InHand(u) \/ u \in doomed \/ \E n \in Ids : version[n] = u
        BY <1>0, <2>0, <2>2, <3>2 DEF NothingLeaks
      <4>2. ASSUME InHand(u) PROVE InHand(u)' \/ \E n \in Ids : version'[n] = u
        <5>1. InHand(u)' \/ (u = Unit(i) /\ (Promote(i) \/ Sweep(i)))
          BY <1>0, <1>2, <4>2, HandAfter
        <5>2. ~ (u = Unit(i) /\ Sweep(i))
          BY <2>2 DEF Sweep
        <5>3. Promote(i) => sid[i] \in Ids /\ version'[sid[i]] = Unit(i)
          <6>1. Promote(i) => AtRows(i) /\ version' = version
            BY DEF Promote, AtRows, Begun
          <6> QED BY <1>0, <6>1, RowsHeld
        <5> QED BY <5>1, <5>2, <5>3
      <4>3. ASSUME NEW n \in Ids, version[n] = u PROVE InHand(u)' \/ \E m \in Ids : version'[m] = u
        <5>1. CASE version'[n] = version[n]
          BY <4>3, <5>1
        <5>2. CASE version'[n] # version[n] /\ ~Insert(i)
          BY <1>0, <1>2, <4>3, <5>2, RowsOfThread
        <5>3. CASE Insert(i) /\ version'[n] # version[n]
          <6>1. PICK a, s \in Ids : Inserted(i, a, s)
            BY <1>0, <5>3, RowsInserted
          <6>2. u = None
            BY <4>3, <5>3, <6>1 DEF Inserted
          <6>3. u # None
            BY <1>0, <3>2 DEF TypeOK
          <6> QED BY <6>2, <6>3
        <5> QED BY <5>1, <5>2, <5>3
      <4> QED BY <2>0, <4>1, <4>2, <4>3
    <3> QED BY <3>1, <3>2
  <2>3. \A n \in RowsOf(version)' \ completed' : InHand(version[n])'
    BY <2>1 DEF RowsOf, InHand
  <2> QED BY <1>1, <2>2, <2>3 DEF NothingLeaks
<1>3. ASSUME NEW i \in Imports, NEW k \in Kinds, Request(i, k) PROVE NothingLeaks'
  <2>1. /\ UNCHANGED <<part, version, completed, staged, stored, doomed, abandoned, up>>
        /\ pc[i] = "idle" /\ \A j \in Imports \ {i} : pc'[j] = pc[j]
    BY <1>0, <1>3 DEF Request, Goto, TypeOK, tables, disk, world
  <2>2. \A u : InHand(u) => InHand(u)'
    BY <2>1 DEF InHand, Unit, Working
  <2> QED BY <1>0, <1>1, <2>1, <2>2 DEF NothingLeaks, RowsOf
<1>4. ASSUME NEW a \in Ids, RemoveAccount(a) \/ ClearArchive(a) PROVE NothingLeaks'
  <2>1. /\ account[a] \in Parts \ {None} /\ doomed' = doomed \cup {account[a]}
        /\ Lessens /\ UNCHANGED <<thread, disk, up, abandoned>>
        /\ \A n \in Ids : version'[n] = IF under[n] = a THEN None ELSE version[n]
    BY <1>0, <1>4, OwnerDrops DEF world
  <2>2. \A n \in Ids : version[n] # None /\ under[n] = a => version[n] = account[a]
    BY <1>0, <2>1, RowsOfUnit
  <2>3. \A u : InHand(u)' <=> InHand(u)
    BY <2>1 DEF InHand, thread, Unit
  <2>4. ASSUME NEW n \in Ids, NEW v, v = version'[n], v # None, n \notin completed', up
        PROVE  InHand(v)'
    <3>1. version'[n] = version[n] /\ under[n] # a
      BY <2>1, <2>4
    <3>2. n \notin completed
      BY <1>0, <1>4, <2>4, <3>1, OwnerDrops
    <3> QED BY <1>0, <2>3, <2>4, <3>1, <3>2 DEF NothingLeaks, RowsOf
  <2>5. ASSUME NEW u \in (staged' \cup stored') \ abandoned'
        PROVE  InHand(u)' \/ u \in doomed' \/ \E n \in Ids : version'[n] = u
    <3>1. u # None /\ (InHand(u) \/ u \in doomed \/ \E n \in Ids : version[n] = u)
      BY <1>0, <2>1, <2>5 DEF NothingLeaks, TypeOK, disk
    <3> QED BY <2>1, <2>2, <2>3, <3>1
  <2>6. up => \A n \in RowsOf(version)' \ completed' : InHand(version[n])'
    BY <2>4 DEF RowsOf, InHand
  <2> QED BY <1>1, <2>1, <2>5, <2>6 DEF NothingLeaks
<1>5. ASSUME NEW u \in Parts \ {None}, RemoveFiles(u) PROVE NothingLeaks'
  <2>1. /\ doomed' = doomed \ {u} /\ staged' = staged \ {u} /\ stored' = stored \ {u}
        /\ UNCHANGED <<thread, version, completed, up, abandoned>>
    BY <1>5 DEF RemoveFiles, tables, world
  <2>2. \A v : InHand(v)' <=> InHand(v)
    BY <2>1 DEF InHand, thread, Unit
  <2> QED BY <1>0, <1>1, <2>1, <2>2 DEF NothingLeaks, RowsOf
<1>6. CASE Crash
  <2>1. /\ up' = FALSE /\ doomed' = {} /\ UNCHANGED disk
        /\ \A u \in staged \ abandoned' : \E n \in Ids : version'[n] = u
        /\ \A u \in stored \ abandoned' : \E n \in completed : version[n] = u
    BY <1>6 DEF Crash
  <2>2. \A u \in stored \ abandoned' : \E n \in Ids : version'[n] = u
    BY <1>0, <1>6, <2>1, CrashSpares
  <2> QED BY <1>1, <2>1, <2>2 DEF NothingLeaks, disk
<1>7. CASE Recover
  <2> DEFINE out == RowsOf(version) \ completed
  <2>1. /\ DropVersions(0, out) /\ account' = account /\ out \in SUBSET Ids
        /\ staged' = staged \ {version[n] : n \in out} /\ ~up
        /\ UNCHANGED <<stored, thread, doomed, abandoned>>
    BY <1>7 DEF Recover, RowsOf
  <2>2. doomed = {} /\ \A u : ~InHand(u)
    BY <1>0, <2>1 DEF PlaceInv, InHand, Working
  <2>3. \A n \in Ids : n \in out <=> version[n] # None /\ n \notin completed
    BY DEF RowsOf
  <2> HIDE DEF out
  <2>4. /\ completed' = completed \ out
        /\ \A n \in Ids : version'[n] = IF n \in out THEN None ELSE version[n]
    BY <1>0, <2>1, TableDrops
  <2>5. \A n \in Ids : version'[n] # None => n \in completed'
    BY <2>3, <2>4
  <2>6. ASSUME NEW u \in (staged' \cup stored') \ abandoned' PROVE \E n \in Ids : version'[n] = u
    <3>1. CASE u \in staged'
      <4>1. PICK n \in Ids : version[n] = u
        BY <1>0, <2>1, <2>2, <2>6, <3>1 DEF NothingLeaks
      <4>2. n \notin out
        BY <2>1, <3>1, <4>1
      <4> QED BY <2>4, <4>1, <4>2
    <3>2. CASE u \in stored
      <4>1. PICK n \in completed : version[n] = u
        BY <1>0, <2>1, <2>6, <3>2 DEF StoppedInv
      <4>2. n \in Ids /\ n \notin out
        BY <1>0, <2>3 DEF TypeOK
      <4> QED BY <2>4, <4>1, <4>2
    <3> QED BY <2>1, <2>6, <3>1, <3>2
  <2> QED BY <1>1, <2>5, <2>6 DEF NothingLeaks, RowsOf
<1>8. CASE Rest \/ UNCHANGED vars
  <2>1. UNCHANGED <<thread, version, completed, staged, stored, doomed, abandoned, up>>
    BY <1>8 DEF Rest, vars, tables, disk, world
  <2>2. \A v : InHand(v)' <=> InHand(v)
    BY <2>1 DEF InHand, thread, Unit
  <2> QED BY <1>0, <1>1, <2>1, <2>2 DEF NothingLeaks, RowsOf
<1> QED BY <1>2, <1>3, <1>4, <1>5, <1>6, <1>7, <1>8 DEF Next

-----------------------------------------------------------------------------
(* The theorems for what is left *)

LEMMA CleanAlways == Calm /\ Spec => []CleanInv
<1>1. Calm /\ Init => CleanInv /\ Calm
  <2> SUFFICES ASSUME Init PROVE CleanInv
    OBVIOUS
  <2>1. WholeInv
    BY StartsWhole
  <2>2. UndoneInv /\ StoppedInv /\ FailureLeavesNothing /\ NothingLeaks
    BY DEF Init, UndoneInv, StoppedInv, FailureLeavesNothing, NothingLeaks, RowsOf
  <2> QED BY <2>1, <2>2 DEF CleanInv
<1>2. CleanInv /\ Calm /\ [Next]_vars => CleanInv' /\ Calm'
  <2> SUFFICES ASSUME CleanInv, Calm, [Next]_vars PROVE CleanInv'
    BY DEF Calm
  <2>1. Steady
    BY DEF Calm, Steady
  <2>2. WholeInv' /\ PlaceInv'
    BY <2>1, WholeStep DEF CleanInv, WholeInv
  <2>3. UndoneInv' /\ StoppedInv'
    BY <2>2, UndoneStep, StoppedStep DEF CleanInv
  <2> QED BY <2>2, <2>3, FailureStep, LeaksStep DEF CleanInv
<1> QED BY <1>1, <1>2, PTL DEF Spec

\* An import that failed has left no row and no directory that nobody removes, if its
\* clean-up also gets the write lock in time: the handlers of import_archive and
\* import_mbox_sources.
THEOREM FailedImportsAreUndone == Calm /\ Spec => []FailureLeavesNothing
<1>1. CleanInv => FailureLeavesNothing
  BY DEF CleanInv
<1> QED BY <1>1, CleanAlways, PTL

\* Whatever an import has put into the tables, the directories or the uploads has
\* somebody who will remove it or a completed version it belongs to, under the same
\* conditions; what a crash leaves is what recover_interrupted_jobs does not know.
THEOREM NothingIsLeaked == Calm /\ Spec => []NothingLeaks
<1>1. CleanInv => NothingLeaks
  BY DEF CleanInv
<1> QED BY <1>1, CleanAlways, PTL

=============================================================================
