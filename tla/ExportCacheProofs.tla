-------------------------- MODULE ExportCacheProofs --------------------------
(* What holds of MessageTrash and ExportCache for any number of requests,    *)
(* messages, versions and export jobs.                                       *)
EXTENDS ExportCache, FiniteSetTheorems, TLAPS

-----------------------------------------------------------------------------
(* Requests and the refresh *)

\* The records have the fields they are given at first.
ReqShape ==
  /\ req = [q \in Requests |-> req[q]]
  /\ \A q \in Requests :
       req[q] = [at |-> req[q].at, op |-> req[q].op, on |-> req[q].on,
                 seen |-> req[q].seen, paths |-> req[q].paths]
RefreshShape ==
  refresh = [at |-> refresh.at, into |-> refresh.into, on |-> refresh.on,
             seen |-> refresh.seen]
Shapes == ReqShape /\ RefreshShape

\* A request that goes on is about a message, and the paths it has found are those
\* of no other row; at "deleted" its own row is gone as well.
RequestInv ==
  \A q \in Requests :
    /\ AtWork(q) => req[q].on \in Messages
    /\ req[q].at = "found" =>
         \A n \in rows \ {req[q].on} : req[q].paths \cap FilesOf(n) = {}
    /\ req[q].at = "deleted" => \A n \in rows : req[q].paths \cap FilesOf(n) = {}

\* A refresh is about a message without a row, and once it has written, the files
\* are there as long as the version is.
RefreshInv ==
  /\ Refreshing => refresh.on \in Messages /\ VersionOf[refresh.on] = refresh.into
  /\ refresh.at \in {"found", "written"} => refresh.on \notin rows
  /\ refresh.at = "written" /\ refresh.into \notin gone => FilesOf(refresh.on) \subseteq files

\* Requests and a refresh do not overlap when that window is not explored.
Apart == Refreshing => \A q \in Requests : ~ AtWork(q)

RowsInv ==
  /\ rows \subseteq Messages /\ binned \subseteq rows
  /\ \A m \in rows : VersionOf[m] \notin gone

TrashInv == /\ Shapes /\ RequestInv /\ RefreshInv /\ Apart /\ RowsInv
            /\ MessagesAreReachable

\* What a step of a request does to the requests.
LEMMA StepFacts ==
  ASSUME ReqShape, NEW q \in Requests, NEW place, Step(q, place)
  PROVE  /\ ReqShape' /\ req'[q].at = place
         /\ place # "ended" => /\ req'[q].on = req[q].on /\ req'[q].paths = req[q].paths
                              /\ req'[q].op = req[q].op /\ req'[q].seen = req[q].seen
         /\ place = "ended" => /\ req'[q].on = NoMessage /\ req'[q].paths = {}
                              /\ req'[q].op = "trash" /\ req'[q].seen = 0
         /\ \A r \in Requests \ {q} : req'[r] = req[r]
<1>1. CASE place = "ended"
  <2>1. req' = [req EXCEPT ![q] = [at |-> "ended", op |-> "trash", on |-> NoMessage,
                                   seen |-> 0, paths |-> {}]]
    <3>1. [Idle EXCEPT !.at = "ended"] = [at |-> "ended", op |-> "trash", on |-> NoMessage,
                                          seen |-> 0, paths |-> {}]
      BY DEF Idle
    <3> QED BY <1>1, <3>1 DEF Step
  <2> QED BY <1>1, <2>1 DEF ReqShape
<1>2. CASE place # "ended"
  <2>1. req[q] = [at |-> req[q].at, op |-> req[q].op, on |-> req[q].on,
                  seen |-> req[q].seen, paths |-> req[q].paths]
    BY DEF ReqShape
  <2>2. [req[q] EXCEPT !.at = place]
          = [at |-> place, op |-> req[q].op, on |-> req[q].on,
             seen |-> req[q].seen, paths |-> req[q].paths]
    BY <2>1
  <2>3. req' = [req EXCEPT ![q] = [at |-> place, op |-> req[q].op, on |-> req[q].on,
                                   seen |-> req[q].seen, paths |-> req[q].paths]]
    BY <1>2, <2>2 DEF Step
  <2> QED BY <1>2, <2>3 DEF ReqShape
<1> QED BY <1>1, <1>2

\* The search for paths ends the request, or hands them to it.
LEMMA FindFacts ==
  ASSUME ReqShape, NEW q \in Requests, FindPaths(q)
  PROVE  /\ ReqShape' /\ \A r \in Requests \ {q} : req'[r] = req[r]
         /\ \/ /\ req'[q].at = "ended" /\ req'[q].on = NoMessage /\ req'[q].paths = {}
               /\ req'[q].op = "trash" /\ req'[q].seen = 0
            \/ /\ req'[q].at = "found" /\ req'[q].paths = Unshared(req[q].on)
               /\ req'[q].paths \subseteq files
               /\ req'[q].op = req[q].op /\ req'[q].on = req[q].on /\ req'[q].seen = req[q].seen
<1> DEFINE found == Unshared(req[q].on)
<1> HIDE DEF found
<1>1. CASE found \subseteq files
  <2>1. req' = [req EXCEPT ![q] = [at |-> "found", op |-> req[q].op, on |-> req[q].on,
                                   seen |-> req[q].seen, paths |-> found]]
    BY <1>1 DEF FindPaths, ReqShape, found
  <2>2. /\ ReqShape' /\ \A r \in Requests \ {q} : req'[r] = req[r]
        /\ req'[q].at = "found" /\ req'[q].paths = found
        /\ req'[q].op = req[q].op /\ req'[q].on = req[q].on /\ req'[q].seen = req[q].seen
    BY <2>1 DEF ReqShape
  <2> QED BY <1>1, <2>2 DEF found
<1>2. CASE ~ (found \subseteq files)
  <2>1. Step(q, "ended")
    BY <1>2 DEF FindPaths, found
  <2> QED BY <2>1, StepFacts
<1> QED BY <1>1, <1>2

\* A measurement is kept by the request that made it.
LEMMA MeasureFacts ==
  ASSUME ReqShape, NEW q \in Requests, Measure(q)
  PROVE  /\ ReqShape' /\ \A r \in Requests \ {q} : req'[r] = req[r]
         /\ req'[q].at = "measured" /\ req'[q].seen = DirectorySize(VersionOf[req[q].on])
         /\ req'[q].op = req[q].op /\ req'[q].on = req[q].on /\ req'[q].paths = req[q].paths
<1> DEFINE now == DirectorySize(VersionOf[req[q].on])
<1>1. req[q] = [at |-> req[q].at, op |-> req[q].op, on |-> req[q].on,
                seen |-> req[q].seen, paths |-> req[q].paths]
  BY DEF ReqShape
<1>2. req' = [req EXCEPT ![q] = [[req[q] EXCEPT !.at = "measured"] EXCEPT !.seen = now]]
  BY DEF Measure, ReqShape
<1> HIDE DEF now
<1>3. [[req[q] EXCEPT !.at = "measured"] EXCEPT !.seen = now]
        = [at |-> "measured", op |-> req[q].op, on |-> req[q].on,
           seen |-> now, paths |-> req[q].paths]
  <2> DEFINE was == [req[q] EXCEPT !.at = "measured"]
  <2>1. was = [at |-> "measured", op |-> req[q].op, on |-> req[q].on,
               seen |-> req[q].seen, paths |-> req[q].paths]
    BY <1>1
  <2> HIDE DEF was
  <2>2. [was EXCEPT !.seen = now] = [at |-> "measured", op |-> req[q].op, on |-> req[q].on,
                                     seen |-> now, paths |-> req[q].paths]
    BY <2>1
  <2> QED BY <2>2 DEF was
<1>4. req' = [req EXCEPT ![q] = [at |-> "measured", op |-> req[q].op, on |-> req[q].on,
                                 seen |-> now, paths |-> req[q].paths]]
  BY <1>2, <1>3
<1>5. /\ ReqShape' /\ \A r \in Requests \ {q} : req'[r] = req[r]
      /\ req'[q].at = "measured" /\ req'[q].seen = now
      /\ req'[q].op = req[q].op /\ req'[q].on = req[q].on /\ req'[q].paths = req[q].paths
  BY <1>4 DEF ReqShape
<1> QED BY <1>5 DEF now

\* A request that is found to need files removed names none of another row's.
LEMMA UnsharedFacts ==
  ASSUME rows \subseteq Messages, NEW m \in Messages
  PROVE  \A n \in rows \ {m} : Unshared(m) \cap FilesOf(n) = {}
<1> SUFFICES ASSUME NEW n \in rows \ {m} PROVE Unshared(m) \cap FilesOf(n) = {}
  OBVIOUS
<1>1. Unshared(m) \subseteq FilesOf(m)
  BY DEF Unshared, FilesOf
<1>2. CASE VersionOf[n] = VersionOf[m]
  BY <1>2, NamesApart DEF Unshared, FilesOf
<1>3. CASE VersionOf[n] # VersionOf[m]
  <2>1. VersionOf[n] \in Versions /\ VersionOf[m] \in Versions
    BY MessagesFit DEF Versions
  <2>2. FilesOf(n) \subseteq VersionFiles(VersionOf[n]) /\ FilesOf(m) \subseteq VersionFiles(VersionOf[m])
    BY DEF VersionFiles
  <2> QED BY <1>1, <1>3, <2>1, <2>2, FilesAreOfOneVersion
<1> QED BY <1>2, <1>3

LEMMA TrashInitInv == TrashInit => TrashInv
<1> SUFFICES ASSUME TrashInit PROVE TrashInv
  OBVIOUS
<1>1. ReqShape
  BY DEF TrashInit, ReqShape, Idle
<1>2. RefreshShape
  BY DEF TrashInit, RefreshShape, Still
<1>3. RequestInv /\ Apart
  BY DEF TrashInit, RequestInv, Apart, AtWork, Refreshing, Idle, Still
<1>4. RefreshInv
  BY DEF TrashInit, RefreshInv, Refreshing, Still
<1>5. RowsInv /\ MessagesAreReachable
  BY DEF TrashInit, RowsInv, MessagesAreReachable
<1> QED BY <1>1, <1>2, <1>3, <1>4, <1>5 DEF TrashInv, Shapes

-----------------------------------------------------------------------------
LEMMA RequestBegins ==
  ASSUME TrashInv, "refresh" \notin Windows,
         NEW q \in Requests, NEW o \in Ops, NEW m \in Messages, Begin(q, o, m)
  PROVE  TrashInv'
<1> USE DEF TrashInv, Begin
<1>1. /\ req' = [req EXCEPT ![q] = req'[q]] /\ req'[q].on = m /\ req'[q].at = "begun"
      /\ req'[q] = [at |-> req'[q].at, op |-> req'[q].op, on |-> req'[q].on,
                    seen |-> req'[q].seen, paths |-> req'[q].paths]
  BY DEF Shapes, ReqShape
<1>2. \A r \in Requests \ {q} : req'[r] = req[r]
  BY <1>1 DEF Shapes, ReqShape
<1>3. Shapes'
  BY <1>1, <1>2 DEF Shapes, ReqShape, RefreshShape
<1>4. RequestInv'
  BY <1>1, <1>2 DEF RequestInv, AtWork
<1>5. RefreshInv' /\ Apart'
  BY <1>2 DEF RefreshInv, Apart, Refreshing, AtWork
<1>6. RowsInv' /\ MessagesAreReachable'
  BY DEF RowsInv, MessagesAreReachable
<1> QED BY <1>3, <1>4, <1>5, <1>6

LEMMA RequestMoves ==
  ASSUME TrashInv, NEW q \in Requests, Move(q)
  PROVE  TrashInv'
<1> USE DEF TrashInv, Move
<1>1. /\ ReqShape' /\ req'[q].at = "ended" /\ \A r \in Requests \ {q} : req'[r] = req[r]
  BY StepFacts DEF Shapes
<1>2. Shapes' /\ RequestInv' /\ Apart'
  BY <1>1 DEF Shapes, RefreshShape, RequestInv, Apart, AtWork, Refreshing
<1>3. RefreshInv'
  BY DEF RefreshInv, Refreshing
<1>4. RowsInv'
  BY DEF RowsInv
<1>5. MessagesAreReachable'
  BY DEF MessagesAreReachable, RowsInv
<1> QED BY <1>2, <1>3, <1>4, <1>5

LEMMA RequestFinds ==
  ASSUME TrashInv, NEW q \in Requests, FindPaths(q)
  PROVE  TrashInv'
<1> DEFINE found == Unshared(req[q].on)
<1>1. req[q].on \in Messages /\ AtWork(q)
  BY DEF TrashInv, RequestInv, FindPaths, AtWork
<1>2. \A n \in rows \ {req[q].on} : found \cap FilesOf(n) = {}
  BY <1>1, UnsharedFacts DEF TrashInv, RowsInv
<1>3. /\ \A r \in Requests \ {q} : req'[r] = req[r]
      /\ ReqShape'
      /\ \/ req'[q].at = "ended"
         \/ req'[q].at = "found" /\ req'[q].paths = found /\ req'[q].on = req[q].on
  BY FindFacts DEF TrashInv, Shapes
<1> HIDE DEF found
<1> USE DEF TrashInv, FindPaths
<1>4. Shapes' /\ Apart'
  BY <1>1, <1>3 DEF Shapes, RefreshShape, Apart, AtWork, Refreshing
<1>5. RequestInv'
  BY <1>1, <1>2, <1>3 DEF RequestInv, AtWork
<1>6. RefreshInv' /\ RowsInv' /\ MessagesAreReachable'
  BY DEF RefreshInv, Refreshing, RowsInv, MessagesAreReachable
<1> QED BY <1>4, <1>5, <1>6

LEMMA RequestDeletes ==
  ASSUME TrashInv, NEW q \in Requests, DeleteRow(q)
  PROVE  TrashInv'
<1> USE DEF TrashInv, DeleteRow
<1>1. PICK place \in {"ended", "deleted"} :
        /\ Step(q, place)
        /\ place = "ended" => UNCHANGED <<rows, binned>>
        /\ place = "deleted" => rows' = rows \ {req[q].on} /\ binned' = binned \ {req[q].on}
  OBVIOUS
<1>2. /\ ReqShape' /\ req'[q].at = place /\ \A r \in Requests \ {q} : req'[r] = req[r]
      /\ place # "ended" => req'[q].on = req[q].on /\ req'[q].paths = req[q].paths
  BY <1>1, StepFacts DEF Shapes
<1>3. AtWork(q) /\ req[q].at = "found"
  BY DEF AtWork
<1>4. Shapes' /\ Apart'
  BY <1>2, <1>3 DEF Shapes, RefreshShape, Apart, AtWork, Refreshing
<1>5. rows' \subseteq rows /\ (rows' = rows \/ rows' = rows \ {req[q].on})
  BY <1>1
<1>6. RequestInv'
  BY <1>1, <1>2, <1>3, <1>5 DEF RequestInv, AtWork
<1>7. RefreshInv'
  BY <1>5 DEF RefreshInv, Refreshing
<1>8. RowsInv' /\ MessagesAreReachable'
  BY <1>1 DEF RowsInv, MessagesAreReachable
<1> QED BY <1>4, <1>6, <1>7, <1>8

LEMMA RequestUnlinks ==
  ASSUME TrashInv, NEW q \in Requests, Unlink(q)
  PROVE  TrashInv'
<1> USE DEF TrashInv, Unlink
<1>1. /\ ReqShape' /\ req'[q].at = "unlinked" /\ req'[q].on = req[q].on
      /\ \A r \in Requests \ {q} : req'[r] = req[r]
  BY StepFacts DEF Shapes
<1>2. AtWork(q) /\ ~ Refreshing
  BY DEF AtWork, Apart
<1>3. Shapes' /\ Apart' /\ RequestInv'
  BY <1>1, <1>2 DEF Shapes, RefreshShape, Apart, RequestInv, AtWork, Refreshing
<1>4. RefreshInv' /\ RowsInv'
  BY <1>2 DEF RefreshInv, Refreshing, RowsInv
<1>5. \A n \in rows : req[q].paths \cap FilesOf(n) = {}
  BY DEF RequestInv
<1>6. MessagesAreReachable'
  BY <1>5 DEF MessagesAreReachable
<1> QED BY <1>3, <1>4, <1>6

LEMMA RequestMeasures ==
  ASSUME TrashInv, NEW q \in Requests, Measure(q) \/ Record(q)
  PROVE  TrashInv'
<1> USE DEF TrashInv
<1>1. /\ ReqShape' /\ \A r \in Requests \ {q} : req'[r] = req[r]
      /\ req'[q].at = "ended" \/ (req'[q].at = "measured" /\ req'[q].on = req[q].on)
  <2>1. CASE Measure(q)
    BY <2>1, MeasureFacts DEF Shapes
  <2>2. CASE Record(q)
    BY <2>2, StepFacts DEF Record, Shapes
  <2> QED BY <2>1, <2>2
<1>2. AtWork(q) /\ UNCHANGED <<rows, binned, indexed, files, gone, refresh>>
  BY DEF AtWork, Measure, Record
<1>3. Shapes' /\ Apart' /\ RequestInv'
  BY <1>1, <1>2 DEF Shapes, RefreshShape, Apart, RequestInv, AtWork, Refreshing
<1>4. RefreshInv' /\ RowsInv' /\ MessagesAreReachable'
  BY <1>2 DEF RefreshInv, Refreshing, RowsInv, MessagesAreReachable
<1> QED BY <1>3, <1>4

-----------------------------------------------------------------------------
LEMMA RefreshBegins ==
  ASSUME TrashInv, "refresh" \notin Windows, NEW v \in Versions, NEW m \in Messages,
         RefreshBegin(v, m)
  PROVE  TrashInv'
<1> USE DEF TrashInv, RefreshBegin
<1>1. refresh'.at = "found" /\ refresh'.into = v /\ refresh'.on = m
  OBVIOUS
<1>2. Shapes'
  BY <1>1 DEF Shapes, ReqShape, RefreshShape
<1>3. RequestInv' /\ RowsInv' /\ MessagesAreReachable'
  BY DEF RequestInv, AtWork, RowsInv, MessagesAreReachable
<1>4. Apart'
  BY DEF Apart, AtWork
<1>5. RefreshInv'
  BY <1>1 DEF RefreshInv, Refreshing
<1> QED BY <1>2, <1>3, <1>4, <1>5

LEMMA RefreshWrites ==
  ASSUME TrashInv, RefreshWrite
  PROVE  TrashInv'
<1> USE DEF TrashInv, RefreshWrite
<1> DEFINE more == refresh.seen + Cardinality(FilesOf(refresh.on))
<1>1. refresh' = [[refresh EXCEPT !.at = "written"] EXCEPT !.seen = more]
  BY DEF Shapes, RefreshShape
<1> HIDE DEF more
<1>2. refresh' = [at |-> "written", into |-> refresh.into, on |-> refresh.on, seen |-> more]
  BY <1>1 DEF Shapes, RefreshShape
<1>3. Shapes'
  BY <1>2 DEF Shapes, ReqShape, RefreshShape
<1>4. RequestInv' /\ RowsInv'
  BY DEF RequestInv, AtWork, RowsInv
<1>5. Apart' /\ RefreshInv'
  BY <1>2 DEF Apart, AtWork, RefreshInv, Refreshing
<1>6. MessagesAreReachable'
  BY DEF MessagesAreReachable
<1> QED BY <1>3, <1>4, <1>5, <1>6

LEMMA RefreshCommits ==
  ASSUME TrashInv, RefreshCommit
  PROVE  TrashInv'
<1> USE DEF TrashInv
<1>1. Refreshing /\ \A q \in Requests : ~ AtWork(q)
  BY DEF RefreshCommit, Apart, Refreshing
<1>2. CASE refresh.into \in gone
  <2>1. /\ refresh' = [at |-> "ended", into |-> 0, on |-> NoMessage, seen |-> 0]
        /\ UNCHANGED <<rows, binned, indexed, files, gone, req>>
    BY <1>2 DEF RefreshCommit, Still
  <2>2. Shapes' /\ RefreshInv' /\ Apart'
    BY <2>1 DEF Shapes, ReqShape, RefreshShape, RefreshInv, Apart, Refreshing
  <2>3. RequestInv' /\ RowsInv' /\ MessagesAreReachable'
    BY <2>1 DEF RequestInv, AtWork, RowsInv, MessagesAreReachable
  <2> QED BY <2>2, <2>3
<1>3. CASE refresh.into \notin gone
  <2>1. /\ refresh' = [refresh EXCEPT !.at = "stored"]
        /\ rows' = rows \cup {refresh.on} /\ indexed' = indexed \cup {refresh.on}
        /\ UNCHANGED <<binned, files, gone, req>>
    BY <1>3 DEF RefreshCommit
  <2>2. refresh' = [at |-> "stored", into |-> refresh.into, on |-> refresh.on,
                    seen |-> refresh.seen]
    BY <2>1 DEF Shapes, RefreshShape
  <2>3. Shapes' /\ RefreshInv'
    BY <1>1, <2>1, <2>2 DEF Shapes, ReqShape, RefreshShape, RefreshInv, Refreshing
  <2>4. Apart' /\ RequestInv'
    BY <1>1, <2>1 DEF Apart, AtWork, RequestInv
  <2>5. /\ refresh.on \in Messages \ rows /\ VersionOf[refresh.on] = refresh.into
        /\ FilesOf(refresh.on) \subseteq files
    BY <1>1, <1>3 DEF RefreshInv, RefreshCommit
  <2>6. RowsInv'
    BY <1>3, <2>1, <2>5 DEF RowsInv
  <2>7. MessagesAreReachable'
    BY <2>1, <2>5 DEF MessagesAreReachable, RowsInv
  <2> QED BY <2>3, <2>4, <2>6, <2>7
<1> QED BY <1>2, <1>3

LEMMA RefreshEnds ==
  ASSUME TrashInv, RefreshCount \/ RefreshEnd
  PROVE  TrashInv'
<1> USE DEF TrashInv
<1>1. UNCHANGED <<rows, binned, indexed, files, gone, req>> /\ Refreshing
  BY DEF RefreshCount, RefreshEnd, Refreshing
<1>2. /\ RefreshShape'
      /\ \/ refresh'.at = "ended"
         \/ /\ refresh'.at = "counted" /\ refresh'.on = refresh.on
            /\ refresh'.into = refresh.into
  <2>1. CASE RefreshEnd
    BY <2>1 DEF RefreshEnd, Still, RefreshShape
  <2>2. CASE RefreshCount
    <3> DEFINE now == Cardinality(Shown(refresh.into))
    <3>1. refresh' = [[refresh EXCEPT !.at = "counted"] EXCEPT !.seen = now]
      BY <2>2 DEF RefreshCount, Shapes, RefreshShape
    <3> HIDE DEF now
    <3>2. refresh' = [at |-> "counted", into |-> refresh.into, on |-> refresh.on, seen |-> now]
      BY <3>1 DEF Shapes, RefreshShape
    <3> QED BY <3>2 DEF RefreshShape
  <2> QED BY <2>1, <2>2
<1>3. Shapes' /\ RefreshInv' /\ Apart'
  BY <1>1, <1>2 DEF Shapes, ReqShape, RefreshInv, Apart, AtWork, Refreshing
<1>4. RequestInv' /\ RowsInv' /\ MessagesAreReachable'
  BY <1>1 DEF RequestInv, AtWork, RowsInv, MessagesAreReachable
<1> QED BY <1>3, <1>4

\* All that goes on once something has begun.
LEMMA TrashGoesOnKeeps ==
  ASSUME TrashInv, TrashGoesOn PROVE TrashInv'
BY RequestMoves, RequestFinds, RequestDeletes, RequestUnlinks, RequestMeasures,
   RefreshWrites, RefreshCommits, RefreshEnds DEF TrashGoesOn

-----------------------------------------------------------------------------
(* Versions that go, and crashes *)

\* The steps that take versions away.
Dropping ==
  Cleanup \/ Clear \/ \E v \in Versions : Rotate(v)

LEMMA DroppingDrops == Dropping => \E S : DropVersions(S)
BY DEF Dropping, Cleanup, Clear, Rotate

LEMMA DropKeeps ==
  ASSUME TrashInv, NEW S, DropVersions(S)
  PROVE  TrashInv'
<1> USE DEF TrashInv, DropVersions
<1>1. Shapes' /\ Apart'
  BY DEF Shapes, ReqShape, RefreshShape, Apart, Refreshing, AtWork
<1>2. RequestInv'
  BY DEF RequestInv, AtWork
<1>3. RefreshInv'
  BY DEF RefreshInv, Refreshing
<1>4. RowsInv'
  BY DEF RowsInv
<1>5. MessagesAreReachable'
  BY DEF MessagesAreReachable
<1> QED BY <1>1, <1>2, <1>3, <1>4, <1>5

LEMMA RemoveFilesKeeps ==
  ASSUME TrashInv, NEW v \in Versions, RemoveFiles(v)
  PROVE  TrashInv'
<1> USE DEF TrashInv, RemoveFiles
<1>1. Shapes' /\ Apart' /\ RequestInv' /\ RowsInv'
  BY DEF Shapes, ReqShape, RefreshShape, Apart, Refreshing, AtWork, RequestInv, RowsInv
<1>2. \A m \in Messages : VersionOf[m] \notin gone => FilesOf(m) \cap VersionFiles(v) = {}
  <2> SUFFICES ASSUME NEW m \in Messages, VersionOf[m] \notin gone
               PROVE  FilesOf(m) \cap VersionFiles(v) = {}
    OBVIOUS
  <2>1. VersionOf[m] \in Versions /\ VersionOf[m] # v
    BY MessagesFit DEF Versions
  <2>2. FilesOf(m) \subseteq VersionFiles(VersionOf[m])
    BY DEF VersionFiles
  <2> QED BY <2>1, <2>2, FilesAreOfOneVersion
<1>3. RefreshInv'
  BY <1>2 DEF RefreshInv, Refreshing
<1>4. MessagesAreReachable'
  BY <1>2 DEF MessagesAreReachable, RowsInv
<1> QED BY <1>1, <1>3, <1>4

LEMMA CrashKeeps == ASSUME TrashInv, Crash PROVE TrashInv'
<1> USE DEF TrashInv
<1>1. UNCHANGED <<rows, binned, indexed, files, gone>>
  BY DEF Crash
<1>2. /\ ReqShape'
      /\ \A q \in Requests : req'[q].at \in {"idle", "ended"}
  <2>1. req' = [q \in Requests |->
                 IF AtWork(q) THEN [at |-> "ended", op |-> "trash", on |-> NoMessage,
                                    seen |-> 0, paths |-> {}] ELSE req[q]]
    <3>1. [Idle EXCEPT !.at = "ended"] = [at |-> "ended", op |-> "trash", on |-> NoMessage,
                                          seen |-> 0, paths |-> {}]
      BY DEF Idle
    <3> QED BY <3>1 DEF Crash
  <2> QED BY <2>1 DEF Shapes, ReqShape, AtWork
<1>3. RefreshShape' /\ ~ Refreshing' /\ refresh'.at \in {"idle", "ended"}
  <2>1. refresh' = IF Refreshing THEN [at |-> "ended", into |-> 0, on |-> NoMessage, seen |-> 0]
                   ELSE refresh
    BY DEF Crash, Still
  <2> QED BY <2>1 DEF Shapes, RefreshShape, Refreshing
<1>4. Shapes' /\ RequestInv' /\ Apart' /\ RefreshInv'
  BY <1>2, <1>3 DEF Shapes, RequestInv, AtWork, Apart, RefreshInv
<1>5. RowsInv' /\ MessagesAreReachable'
  BY <1>1 DEF RowsInv, MessagesAreReachable
<1> QED BY <1>4, <1>5

LEMMA TrashStutters == ASSUME TrashInv, UNCHANGED trash PROVE TrashInv'
BY DEF trash, TrashInv, Shapes, ReqShape, RefreshShape, RequestInv, RefreshInv, Apart,
       RowsInv, MessagesAreReachable, AtWork, Refreshing

\* The jobs, the packages and the scheduler leave messages and their files alone.
LEMMA OthersLeaveTrash ==
  ASSUME \/ \E j \in Jobs : JobStep(j) \/ Expire(j) \/ UnlinkPackage(j)
         \/ CleanupStops \/ Promote
  PROVE  UNCHANGED trash
BY DEF JobStep, Start, Create, Open, List, Attach, Choose, Pack, Publish, Register,
       Finish, Fail, FailAfterBuild, Expire, UnlinkPackage, CleanupStops, Promote

\* However requests for single messages overlap, with crashes, rotation and exports
\* beside them, every message that has a row can be opened and is found by a search
\* unless it is in the trash (app/main.py:3686-3745): as long as no refresh of the same
\* mailbox runs beside a request.
THEOREM EveryMessageIsReachable ==
  ASSUME "refresh" \notin Windows
  PROVE  Spec => []MessagesAreReachable
<1>1. Init => TrashInv
  BY TrashInitInv DEF Init
<1>2. TrashInv /\ [Next]_vars => TrashInv'
  <2> SUFFICES ASSUME TrashInv, [Next]_vars PROVE TrashInv'
    OBVIOUS
  <2>1. CASE Edits
    <3>1. CASE \E q \in Requests, o \in Ops, m \in Messages : Begin(q, o, m)
      BY <3>1, RequestBegins
    <3>2. CASE \E m \in Messages : RefreshBegin(active, m)
      <4>1. PICK m \in Messages : RefreshBegin(active, m)
        BY <3>2
      <4>2. active \in Versions
        BY <4>1, MessagesFit DEF RefreshBegin, Versions
      <4> QED BY <4>1, <4>2, RefreshBegins
    <3>3. CASE TrashGoesOn
      BY <3>3, TrashGoesOnKeeps
    <3> QED BY <2>1, <3>1, <3>2, <3>3 DEF Edits
  <2>2. CASE \/ \E j \in Jobs : JobStep(j) \/ Expire(j) \/ UnlinkPackage(j)
             \/ CleanupStops \/ Promote
    BY <2>2, OthersLeaveTrash, TrashStutters
  <2>3. CASE Crash
    BY <2>3, CrashKeeps
  <2>4. CASE Dropping
    BY <2>4, DroppingDrops, DropKeeps
  <2>5. CASE \E v \in Versions : RemoveFiles(v)
    BY <2>5, RemoveFilesKeeps
  <2>6. CASE UNCHANGED vars
    BY <2>6, TrashStutters DEF vars
  <2> QED BY <2>1, <2>2, <2>3, <2>4, <2>5, <2>6 DEF Next, Dropping
<1>3. TrashInv => MessagesAreReachable
  BY DEF TrashInv
<1> QED BY <1>1, <1>2, <1>3, PTL DEF Spec

-----------------------------------------------------------------------------
(* Types and totals of the trash *)

\* The tables, and the fields of the records.
TableTypes ==
  /\ rows \subseteq Messages /\ binned \subseteq rows /\ indexed \subseteq Messages
  /\ files \subseteq Files /\ gone \subseteq Versions /\ disturbed \in BOOLEAN
  /\ count \in [Versions -> Nat] /\ size \in [Versions -> Nat]
RequestTypes ==
  \A q \in Requests :
    /\ req[q].at \in {"idle", "begun", "found", "deleted", "unlinked", "measured", "ended"}
    /\ req[q].op \in Ops /\ req[q].on \in Messages \cup {NoMessage}
    /\ req[q].paths \subseteq Files /\ req[q].seen \in Nat
    /\ AtWork(q) => req[q].on \in Messages
RefreshTypes ==
  /\ refresh.at \in {"idle", "found", "written", "stored", "counted", "ended"}
  /\ refresh.into \in {0} \cup Versions /\ refresh.on \in Messages \cup {NoMessage}
  /\ refresh.seen \in Nat
  /\ Refreshing => refresh.on \in Messages /\ VersionOf[refresh.on] = refresh.into

\* A request adds no more than 1 to what was counted, once.
Ended == {q \in Requests : req[q].at = "ended"}
Most  == Cardinality(Messages) + Cardinality(Ended)
CountBound ==
  /\ \A v \in Versions : count[v] =< Most
  /\ \A q \in Requests : req[q].at = "begun" /\ req[q].op # "permanent" => req[q].seen =< Most
  /\ refresh.at = "counted" => refresh.seen =< Cardinality(Messages)

TrashTypes == Shapes /\ TableTypes /\ RequestTypes /\ RefreshTypes /\ CountBound

LEMMA RequestsCount ==
  /\ \A S \in SUBSET Requests : Cardinality(S) \in Nat
  /\ \A S, T \in SUBSET Requests : S \subseteq T => Cardinality(S) =< Cardinality(T)
  /\ \A S \in SUBSET Requests, q \in Requests :
       q \notin S => Cardinality(S \cup {q}) = Cardinality(S) + 1
<1>1. \A S \in SUBSET Requests : IsFiniteSet(S) /\ Cardinality(S) \in Nat
  BY FinitelyMany, FS_Subset, FS_CardinalityType
<1>2. \A S, T \in SUBSET Requests : S \subseteq T => Cardinality(S) =< Cardinality(T)
  BY <1>1, FS_Subset
<1>3. \A S \in SUBSET Requests, q \in Requests :
        q \notin S => Cardinality(S \cup {q}) = Cardinality(S) + 1
  BY <1>1, FS_AddElement
<1> QED BY <1>1, <1>2, <1>3

LEMMA MessagesCount ==
  /\ \A S \in SUBSET Messages : IsFiniteSet(S) /\ Cardinality(S) \in Nat
  /\ \A S \in SUBSET Messages : Cardinality(S) =< Cardinality(Messages)
  /\ \A S \in SUBSET Messages, m \in Messages :
       /\ m \notin S => Cardinality(S \cup {m}) = Cardinality(S) + 1
       /\ m \in S => Cardinality(S \ {m}) = Cardinality(S) - 1 /\ Cardinality(S) > 0
<1>1. \A S \in SUBSET Messages : IsFiniteSet(S) /\ Cardinality(S) \in Nat
  BY FinitelyMany, FS_Subset, FS_CardinalityType
<1>2. \A S \in SUBSET Messages : Cardinality(S) =< Cardinality(Messages)
  BY FinitelyMany, FS_Subset
<1>3. \A S \in SUBSET Messages, m \in Messages :
        /\ m \notin S => Cardinality(S \cup {m}) = Cardinality(S) + 1
        /\ m \in S => Cardinality(S \ {m}) = Cardinality(S) - 1
  BY <1>1, FS_AddElement, FS_RemoveElement
<1>4. \A S \in SUBSET Messages : S # {} => Cardinality(S) > 0
  BY <1>1, FS_EmptySet
<1> QED BY <1>1, <1>2, <1>3, <1>4

\* The files of a version can be counted; with those of one message there are at most
\* as many more.
LEMMA FilesCount ==
  /\ \A m \in Messages : Cardinality(FilesOf(m)) \in Nat
  /\ \A v \in Versions : \A F : Cardinality(F \cap VersionFiles(v)) \in Nat
  /\ \A v \in Versions : \A F, G : F \subseteq G =>
       Cardinality(F \cap VersionFiles(v)) =< Cardinality(G \cap VersionFiles(v))
  /\ \A v \in Versions, m \in Messages : \A F :
       Cardinality((F \cup FilesOf(m)) \cap VersionFiles(v))
         =< Cardinality(F \cap VersionFiles(v)) + Cardinality(FilesOf(m))
<1>1. \A m \in Messages : IsFiniteSet(FilesOf(m)) /\ Cardinality(FilesOf(m)) \in Nat
  BY FinitelyMany, FS_Singleton, FS_Union, FS_CardinalityType DEF FilesOf
<1>2. \A v \in Versions : IsFiniteSet(VersionFiles(v))
  <2> SUFFICES ASSUME NEW v \in Versions PROVE IsFiniteSet(VersionFiles(v))
    OBVIOUS
  <2> DEFINE its == {n \in Messages : VersionOf[n] = v}
             sets == {FilesOf(m) : m \in its}
             f == [m \in its |-> FilesOf(m)]
  <2>1. IsFiniteSet(its)
    BY MessagesCount
  <2>2. f \in Surjection(its, sets)
    BY DEF Surjection
  <2>3. IsFiniteSet(sets)
    BY <2>1, <2>2, FS_Surjection
  <2>4. \A F \in sets : IsFiniteSet(F)
    BY <1>1
  <2>5. IsFiniteSet(UNION sets)
    BY <2>3, <2>4, FS_UNION
  <2> QED BY <2>5 DEF VersionFiles
<1>3. \A v \in Versions : \A F : IsFiniteSet(F \cap VersionFiles(v))
  BY <1>2, FS_Subset
<1>4. \A v \in Versions : \A F : Cardinality(F \cap VersionFiles(v)) \in Nat
  BY <1>3, FS_CardinalityType
<1>5. \A v \in Versions : \A F, G : F \subseteq G =>
        Cardinality(F \cap VersionFiles(v)) =< Cardinality(G \cap VersionFiles(v))
  <2> SUFFICES ASSUME NEW v \in Versions, NEW F, NEW G, F \subseteq G
               PROVE  Cardinality(F \cap VersionFiles(v)) =< Cardinality(G \cap VersionFiles(v))
    OBVIOUS
  <2>1. F \cap VersionFiles(v) \subseteq G \cap VersionFiles(v)
    OBVIOUS
  <2> QED BY <1>3, <2>1, FS_Subset
<1>6. ASSUME NEW v \in Versions, NEW m \in Messages, NEW F
      PROVE  Cardinality((F \cup FilesOf(m)) \cap VersionFiles(v))
               =< Cardinality(F \cap VersionFiles(v)) + Cardinality(FilesOf(m))
  <2> DEFINE A == F \cap VersionFiles(v)
             B == FilesOf(m)
  <2>1. IsFiniteSet(A) /\ IsFiniteSet(B) /\ IsFiniteSet(A \cup B) /\ IsFiniteSet(A \cap B)
    BY <1>1, <1>3, FS_Union, FS_Intersection
  <2>2. Cardinality(A \cup B) = Cardinality(A) + Cardinality(B) - Cardinality(A \cap B)
    BY <2>1, FS_Union
  <2>3. (F \cup FilesOf(m)) \cap VersionFiles(v) \subseteq A \cup B
    OBVIOUS
  <2>4. Cardinality((F \cup FilesOf(m)) \cap VersionFiles(v)) =< Cardinality(A \cup B)
    BY <2>1, <2>3, FS_Subset
  <2>5. /\ Cardinality(A) \in Nat /\ Cardinality(B) \in Nat /\ Cardinality(A \cap B) \in Nat
        /\ Cardinality((F \cup FilesOf(m)) \cap VersionFiles(v)) \in Nat
    BY <1>3, <2>1, FS_CardinalityType
  <2> HIDE DEF A, B
  <2>6. Cardinality((F \cup FilesOf(m)) \cap VersionFiles(v)) =< Cardinality(A) + Cardinality(B)
    BY <2>2, <2>4, <2>5
  <2> QED BY <2>6 DEF A, B
<1> QED BY <1>1, <1>4, <1>5, <1>6

\* All files are of some version, and a message's are of its own.
LEMMA FilesLie ==
  ASSUME NEW m \in Messages
  PROVE  /\ VersionOf[m] \in Versions /\ FilesOf(m) \subseteq VersionFiles(VersionOf[m])
         /\ FilesOf(m) \subseteq Files
<1>1. VersionOf[m] \in Versions
  BY MessagesFit DEF Versions
<1>2. FilesOf(m) \subseteq VersionFiles(VersionOf[m])
  BY DEF VersionFiles
<1> QED BY <1>1, <1>2 DEF Files

LEMMA TypesMeet == TrashTypes => TrashTypeOK
<1> SUFFICES ASSUME TrashTypes PROVE TrashTypeOK
  OBVIOUS
<1> USE DEF TrashTypes
<1>1. req \in [Requests ->
         [at : {"idle", "begun", "found", "deleted", "unlinked", "measured", "ended"},
          op : Ops, on : Messages \cup {NoMessage}, paths : SUBSET Files, seen : Nat]]
  BY DEF Shapes, ReqShape, RequestTypes
<1>2. refresh \in
        [at : {"idle", "found", "written", "stored", "counted", "ended"},
         into : {0} \cup Versions, on : Messages \cup {NoMessage}, seen : Nat]
  BY DEF Shapes, RefreshShape, RefreshTypes
<1>3. count \in [Versions -> 0..(Cardinality(Messages) + Cardinality(Requests))]
  <2>1. /\ Cardinality(Ended) \in Nat /\ Cardinality(Ended) =< Cardinality(Requests)
        /\ Cardinality(Requests) \in Nat /\ Cardinality(Messages) \in Nat
    BY RequestsCount, MessagesCount DEF Ended
  <2> QED BY <2>1 DEF TableTypes, CountBound, Most
<1> QED BY <1>1, <1>2, <1>3 DEF TrashTypeOK, TableTypes

LEMMA TypesAtFirst == TrashInit => TrashTypes
<1> SUFFICES ASSUME TrashInit PROVE TrashTypes
  OBVIOUS
<1>1. Shapes
  BY TrashInitInv DEF TrashInv
<1>2. /\ rows \subseteq Messages /\ binned \subseteq rows /\ indexed \subseteq Messages
      /\ gone \subseteq Versions /\ disturbed \in BOOLEAN
  BY MessagesFit DEF TrashInit
<1>3. files \subseteq Files
  BY <1>2, FilesLie DEF TrashInit
<1>4. \A v \in Versions : count[v] \in Nat /\ count[v] =< Cardinality(Messages)
  <2>1. \A v \in Versions : Shown(v) \in SUBSET Messages
    BY <1>2 DEF Shown
  <2> QED BY <2>1, MessagesCount DEF TrashInit
<1>5. \A v \in Versions : size[v] \in Nat
  BY FilesCount DEF TrashInit, DirectorySize
<1>6. TableTypes
  BY <1>2, <1>3, <1>4, <1>5 DEF TableTypes, TrashInit
<1>7. /\ \A q \in Requests : req[q] = Idle
      /\ refresh = Still
  BY DEF TrashInit
<1>8. RequestTypes /\ RefreshTypes
  BY <1>7 DEF RequestTypes, RefreshTypes, Idle, Still, AtWork, Refreshing, Ops
<1>9. CountBound
  <2>1. Cardinality(Ended) \in Nat /\ Cardinality(Messages) \in Nat
    BY RequestsCount, MessagesCount DEF Ended
  <2> QED BY <1>4, <1>7, <2>1 DEF CountBound, Most, Idle, Still
<1> QED BY <1>1, <1>6, <1>8, <1>9 DEF TrashTypes

\* The bound never falls, and a request that ends raises it by one.
LEMMA MostGrows ==
  ASSUME NEW q \in Requests, \A r \in Requests \ {q} : req'[r] = req[r], req[q].at # "ended"
  PROVE  /\ Most \in Nat /\ Most' \in Nat /\ Most =< Most'
         /\ req'[q].at = "ended" => Most' = Most + 1
<1>1. Ended \in SUBSET Requests /\ Ended' \in SUBSET Requests /\ q \notin Ended
  BY DEF Ended
<1>2. Ended' = IF req'[q].at = "ended" THEN Ended \cup {q} ELSE Ended
  BY DEF Ended
<1>3. Cardinality(Messages) \in Nat /\ Cardinality(Ended) \in Nat /\ Cardinality(Ended') \in Nat
  BY <1>1, RequestsCount, MessagesCount
<1>4. CASE req'[q].at = "ended"
  <2>1. Cardinality(Ended') = Cardinality(Ended) + 1
    BY <1>1, <1>2, <1>4, RequestsCount
  <2> QED BY <1>3, <1>4, <2>1 DEF Most
<1>5. CASE req'[q].at # "ended"
  <2>1. Ended' = Ended
    BY <1>2, <1>5
  <2> QED BY <1>3, <1>5, <2>1 DEF Most
<1> QED BY <1>4, <1>5

\* What is enough for a step of one request.
LEMMA RequestKeepsTypes ==
  ASSUME TrashTypes, NEW q \in Requests, ReqShape', refresh' = refresh,
         \A r \in Requests \ {q} : req'[r] = req[r], req[q].at # "ended", TableTypes',
         req'[q].at \in {"idle", "begun", "found", "deleted", "unlinked", "measured", "ended"},
         req'[q].op \in Ops, req'[q].on \in Messages \cup {NoMessage},
         req'[q].paths \subseteq Files, req'[q].seen \in Nat,
         req'[q].at # "ended" => req'[q].on \in Messages,
         req'[q].at = "begun" /\ req'[q].op # "permanent" => req'[q].seen =< Most,
         \A v \in Versions : count'[v] =< Most \/ (req'[q].at = "ended" /\ count'[v] =< Most + 1)
  PROVE  TrashTypes'
<1>1. Shapes'
  BY DEF TrashTypes, Shapes, RefreshShape
<1>2. RequestTypes' /\ RefreshTypes'
  BY DEF TrashTypes, RequestTypes, RefreshTypes, AtWork, Refreshing
<1>3. /\ Most \in Nat /\ Most' \in Nat /\ Most =< Most'
      /\ req'[q].at = "ended" => Most' = Most + 1
  BY MostGrows
<1>4. \A v \in Versions : count'[v] \in Nat
  BY DEF TableTypes
<1>5. \A r \in Requests : req'[r].seen \in Nat
  BY <1>2 DEF RequestTypes
<1>6. /\ \A r \in Requests : req[r].at = "begun" /\ req[r].op # "permanent" => req[r].seen =< Most
      /\ refresh.at = "counted" => refresh.seen =< Cardinality(Messages)
  BY DEF TrashTypes, CountBound
<1>7. \A v \in Versions : count'[v] =< Most'
  BY <1>3, <1>4
<1>8. \A r \in Requests :
        req'[r].at = "begun" /\ req'[r].op # "permanent" => req'[r].seen =< Most'
  <2> SUFFICES ASSUME NEW r \in Requests, req'[r].at = "begun", req'[r].op # "permanent"
               PROVE  req'[r].seen =< Most'
    OBVIOUS
  <2>1. req'[r].seen =< Most
    BY <1>6
  <2> QED BY <1>3, <1>5, <2>1
<1>9. CountBound'
  BY <1>6, <1>7, <1>8 DEF CountBound
<1> QED BY <1>1, <1>2, <1>9 DEF TrashTypes

LEMMA BeginKeepsTypes ==
  ASSUME TrashTypes, NEW q \in Requests, NEW o \in Ops, NEW m \in Messages, Begin(q, o, m)
  PROVE  TrashTypes'
<1>1. VersionOf[m] \in Versions
  BY FilesLie
<1>2. /\ ReqShape' /\ req'[q].at = "begun" /\ req'[q].on = m /\ req'[q].op = o
      /\ req'[q].paths = {}
      /\ req'[q].seen = IF o = "permanent" THEN 0 ELSE count[VersionOf[m]]
      /\ \A r \in Requests \ {q} : req'[r] = req[r]
  BY DEF Begin, TrashTypes, Shapes, ReqShape
<1>3. /\ req[q].at = "idle" /\ refresh' = refresh
      /\ UNCHANGED <<rows, binned, indexed, files, count, size, gone>>
      /\ disturbed' = (disturbed \/ Busy)
  BY DEF Begin
<1>4. TableTypes' /\ \A v \in Versions : count[v] \in Nat /\ count[v] =< Most
  BY <1>3 DEF TrashTypes, TableTypes, CountBound
<1> QED BY <1>1, <1>2, <1>3, <1>4, RequestKeepsTypes

\* The number a request writes.
LEMMA AdjustedIs ==
  ASSUME NEW q \in Requests, req[q].seen \in Nat
  PROVE  /\ Adjusted(q) \in Nat /\ Adjusted(q) =< req[q].seen + 1
         /\ req[q].op # "trash" => Adjusted(q) = req[q].seen + 1
         /\ req[q].op = "trash" /\ req[q].seen > 0 => Adjusted(q) = req[q].seen - 1
<1> DEFINE n == req[q].seen + (IF req[q].op = "trash" THEN -1 ELSE 1)
<1>1. n \in Int /\ n >= -1
  OBVIOUS
<1> HIDE DEF n
<1>2. Max({0, n}) = IF n > 0 THEN n ELSE 0
  <2>1. \A x \in {0, n} : \A y \in {0, n} : x >= y \/ y >= x
    BY <1>1
  <2>2. \E x \in {0, n} : \A y \in {0, n} : x >= y
    BY <1>1
  <2>3. Max({0, n}) = CHOOSE x \in {0, n} : \A y \in {0, n} : x >= y
    BY DEF Max
  <2>4. Max({0, n}) \in {0, n} /\ \A y \in {0, n} : Max({0, n}) >= y
    BY <2>2, <2>3
  <2> QED BY <1>1, <2>4
<1>3. Adjusted(q) = Max({0, n})
  BY DEF Adjusted, n
<1>4. Adjusted(q) = IF n > 0 THEN n ELSE 0
  BY <1>2, <1>3
<1> QED BY <1>1, <1>4 DEF n

LEMMA MoveKeepsTypes ==
  ASSUME TrashTypes, NEW q \in Requests, Move(q)
  PROVE  TrashTypes'
<1>1. /\ ReqShape' /\ req'[q].at = "ended" /\ \A r \in Requests \ {q} : req'[r] = req[r]
      /\ req'[q].on = NoMessage /\ req'[q].paths = {} /\ req'[q].op = "trash"
      /\ req'[q].seen = 0
  BY StepFacts DEF Move, TrashTypes, Shapes
<1>2. /\ req[q].at = "begun" /\ req[q].op # "permanent"
      /\ UNCHANGED <<rows, files, size, gone, refresh, disturbed>>
  BY DEF Move
<1>3. req[q].on \in Messages /\ VersionOf[req[q].on] \in Versions /\ req[q].seen \in Nat
  BY <1>2, FilesLie DEF TrashTypes, RequestTypes, AtWork
<1>4. Adjusted(q) \in Nat /\ Adjusted(q) =< Most + 1
  <2>1. Adjusted(q) \in Nat /\ Adjusted(q) =< req[q].seen + 1 /\ req[q].seen =< Most
    BY <1>2, <1>3, AdjustedIs DEF TrashTypes, CountBound
  <2>2. Most \in Nat
    BY <1>1, <1>2, MostGrows
  <2> QED BY <1>3, <2>1, <2>2
<1>5. /\ count' = count \/ count' = [count EXCEPT ![VersionOf[req[q].on]] = Adjusted(q)]
      /\ binned' \subseteq rows /\ indexed' \subseteq Messages
  BY <1>3 DEF Move, TrashTypes, TableTypes
<1>6. TableTypes'
  BY <1>2, <1>3, <1>4, <1>5 DEF TrashTypes, TableTypes
<1>7. \A v \in Versions : count'[v] =< Most \/ count'[v] =< Most + 1
  BY <1>3, <1>4, <1>5 DEF TrashTypes, TableTypes, CountBound
<1> QED BY <1>1, <1>2, <1>6, <1>7, RequestKeepsTypes DEF Ops

LEMMA DeletionKeepsTypes ==
  ASSUME TrashTypes, NEW q \in Requests,
         FindPaths(q) \/ DeleteRow(q) \/ Unlink(q) \/ Measure(q) \/ Record(q)
  PROVE  TrashTypes'
<1> USE DEF TrashTypes
<1>1. /\ AtWork(q) /\ UNCHANGED <<indexed, count, gone, refresh, disturbed>>
      /\ req[q].on \in Messages /\ VersionOf[req[q].on] \in Versions
  <2>1. AtWork(q) /\ UNCHANGED <<indexed, count, gone, refresh, disturbed>>
    BY DEF FindPaths, DeleteRow, Unlink, Measure, Record, AtWork
  <2> QED BY <2>1, FilesLie DEF RequestTypes
<1>2. /\ ReqShape' /\ \A r \in Requests \ {q} : req'[r] = req[r]
      /\ \/ /\ req'[q].at = "ended" /\ req'[q].on = NoMessage /\ req'[q].paths = {}
            /\ req'[q].op = "trash" /\ req'[q].seen = 0
         \/ /\ req'[q].at \in {"found", "deleted", "unlinked", "measured"}
            /\ req'[q].on = req[q].on /\ req'[q].op = req[q].op
            /\ req'[q].paths = req[q].paths \/ req'[q].paths \subseteq files
            /\ \/ req'[q].seen = req[q].seen
               \/ req'[q].seen = DirectorySize(VersionOf[req[q].on])
  <2>1. CASE FindPaths(q)
    BY <2>1, FindFacts DEF Shapes
  <2>2. CASE DeleteRow(q) \/ Unlink(q) \/ Record(q)
    <3>1. PICK place \in {"ended", "deleted", "unlinked"} : Step(q, place)
      BY <2>2 DEF DeleteRow, Unlink, Record
    <3> QED BY <3>1, StepFacts DEF Shapes
  <2>3. CASE Measure(q)
    BY <2>3, MeasureFacts DEF Shapes
  <2> QED BY <2>1, <2>2, <2>3
<1>3. /\ rows' \subseteq rows /\ binned' \subseteq rows' /\ files' \subseteq files
      /\ \/ size' = size
         \/ size' = [size EXCEPT ![VersionOf[req[q].on]] = req[q].seen]
  BY DEF FindPaths, DeleteRow, Unlink, Measure, Record, TableTypes
<1>4. TableTypes'
  BY <1>1, <1>3 DEF TableTypes, RequestTypes
<1>5. DirectorySize(VersionOf[req[q].on]) \in Nat
  BY <1>1, FilesCount DEF DirectorySize
<1>6. \A v \in Versions : count'[v] =< Most
  BY <1>1 DEF CountBound
<1>7. /\ req'[q].at \in {"found", "deleted", "unlinked", "measured", "ended"}
      /\ req'[q].op \in Ops /\ req'[q].on \in Messages \cup {NoMessage}
      /\ req'[q].paths \subseteq Files /\ req'[q].seen \in Nat
      /\ req'[q].at # "ended" => req'[q].on \in Messages
  BY <1>1, <1>2, <1>5 DEF RequestTypes, TableTypes, Ops
<1>8. req[q].at # "ended"
  BY <1>1 DEF AtWork
<1> HIDE DEF TrashTypes
<1> QED BY <1>1, <1>2, <1>4, <1>6, <1>7, <1>8, RequestKeepsTypes

\* What a refresh has read, step by step.
LEMMA RefreshFacts ==
  ASSUME RefreshShape
  PROVE  /\ RefreshWrite => /\ RefreshShape' /\ refresh'.at = "written"
                            /\ refresh'.into = refresh.into /\ refresh'.on = refresh.on
                            /\ refresh'.seen = refresh.seen + Cardinality(FilesOf(refresh.on))
         /\ RefreshCommit /\ refresh.into \notin gone =>
              /\ RefreshShape' /\ refresh'.at = "stored" /\ refresh'.into = refresh.into
              /\ refresh'.on = refresh.on /\ refresh'.seen = refresh.seen
         /\ RefreshCount => /\ RefreshShape' /\ refresh'.at = "counted"
                            /\ refresh'.into = refresh.into /\ refresh'.on = refresh.on
                            /\ refresh'.seen = Cardinality(Shown(refresh.into))
         /\ RefreshEnd \/ (RefreshCommit /\ refresh.into \in gone) =>
              /\ RefreshShape' /\ refresh'.at = "ended" /\ refresh'.into = 0
              /\ refresh'.on = NoMessage /\ refresh'.seen = 0
<1>1. ASSUME RefreshWrite
      PROVE  /\ RefreshShape' /\ refresh'.at = "written"
             /\ refresh'.into = refresh.into /\ refresh'.on = refresh.on
             /\ refresh'.seen = refresh.seen + Cardinality(FilesOf(refresh.on))
  <2> DEFINE more == refresh.seen + Cardinality(FilesOf(refresh.on))
  <2>1. refresh' = [[refresh EXCEPT !.at = "written"] EXCEPT !.seen = more]
    BY <1>1 DEF RefreshWrite, RefreshShape
  <2> HIDE DEF more
  <2>2. refresh' = [at |-> "written", into |-> refresh.into, on |-> refresh.on, seen |-> more]
    BY <2>1 DEF RefreshShape
  <2>3. RefreshShape' /\ refresh'.at = "written" /\ refresh'.into = refresh.into
        /\ refresh'.on = refresh.on /\ refresh'.seen = more
    BY <2>2 DEF RefreshShape
  <2> QED BY <2>3 DEF more
<1>2. ASSUME RefreshCommit, refresh.into \notin gone
      PROVE  /\ RefreshShape' /\ refresh'.at = "stored" /\ refresh'.into = refresh.into
             /\ refresh'.on = refresh.on /\ refresh'.seen = refresh.seen
  <2>1. refresh' = [refresh EXCEPT !.at = "stored"]
    BY <1>2 DEF RefreshCommit
  <2>2. refresh' = [at |-> "stored", into |-> refresh.into, on |-> refresh.on,
                    seen |-> refresh.seen]
    BY <2>1 DEF RefreshShape
  <2> QED BY <2>2 DEF RefreshShape
<1>3. ASSUME RefreshCount
      PROVE  /\ RefreshShape' /\ refresh'.at = "counted"
             /\ refresh'.into = refresh.into /\ refresh'.on = refresh.on
             /\ refresh'.seen = Cardinality(Shown(refresh.into))
  <2> DEFINE now == Cardinality(Shown(refresh.into))
  <2>1. refresh' = [[refresh EXCEPT !.at = "counted"] EXCEPT !.seen = now]
    BY <1>3 DEF RefreshCount, RefreshShape
  <2> HIDE DEF now
  <2>2. refresh' = [at |-> "counted", into |-> refresh.into, on |-> refresh.on, seen |-> now]
    BY <2>1 DEF RefreshShape
  <2>3. RefreshShape' /\ refresh'.at = "counted" /\ refresh'.into = refresh.into
        /\ refresh'.on = refresh.on /\ refresh'.seen = now
    BY <2>2 DEF RefreshShape
  <2> QED BY <2>3 DEF now
<1>4. ASSUME RefreshEnd \/ (RefreshCommit /\ refresh.into \in gone)
      PROVE  /\ RefreshShape' /\ refresh'.at = "ended" /\ refresh'.into = 0
             /\ refresh'.on = NoMessage /\ refresh'.seen = 0
  <2>1. refresh' = [at |-> "ended", into |-> 0, on |-> NoMessage, seen |-> 0]
    BY <1>4 DEF RefreshEnd, RefreshCommit, Still
  <2> QED BY <2>1 DEF RefreshShape
<1> QED BY <1>1, <1>2, <1>3, <1>4

\* What is enough for a step of the refresh.
LEMMA RefreshKeepsTypes ==
  ASSUME TrashTypes, RefreshShape', req' = req, TableTypes', RefreshTypes',
         refresh'.at = "counted" => refresh'.seen =< Cardinality(Messages),
         \A v \in Versions : count'[v] =< Most
  PROVE  TrashTypes'
<1>1. Shapes' /\ RequestTypes'
  BY DEF TrashTypes, Shapes, ReqShape, RequestTypes, AtWork
<1>2. Most' = Most
  BY DEF Most, Ended
<1>3. CountBound'
  BY <1>2 DEF TrashTypes, CountBound
<1> QED BY <1>1, <1>3 DEF TrashTypes

LEMMA RefreshBeginKeepsTypes ==
  ASSUME TrashTypes, NEW v \in Versions, NEW m \in Messages, RefreshBegin(v, m)
  PROVE  TrashTypes'
<1>1. /\ RefreshShape' /\ refresh'.at = "found" /\ refresh'.into = v /\ refresh'.on = m
      /\ refresh'.seen = size[v]
  BY DEF RefreshBegin, RefreshShape
<1>2. /\ UNCHANGED <<rows, binned, indexed, files, count, size, gone, req>>
      /\ disturbed' = (disturbed \/ Busy) /\ VersionOf[m] = v
  BY DEF RefreshBegin
<1>3. TableTypes' /\ RefreshTypes'
  BY <1>1, <1>2 DEF TrashTypes, TableTypes, RefreshTypes
<1>4. \A w \in Versions : count'[w] =< Most
  BY <1>2 DEF TrashTypes, CountBound
<1> QED BY <1>1, <1>2, <1>3, <1>4, RefreshKeepsTypes

LEMMA RefreshKeepsOnWithTypes ==
  ASSUME TrashTypes, RefreshWrite \/ RefreshCommit \/ RefreshCount \/ RefreshEnd
  PROVE  TrashTypes'
<1>1. /\ Refreshing /\ UNCHANGED <<binned, gone, req, disturbed>>
      /\ refresh.on \in Messages /\ refresh.into \in Versions /\ refresh.seen \in Nat
      /\ FilesOf(refresh.on) \subseteq Files
  <2>1. Refreshing /\ UNCHANGED <<binned, gone, req, disturbed>>
    BY DEF RefreshWrite, RefreshCommit, RefreshCount, RefreshEnd, Refreshing
  <2>2. refresh.on \in Messages /\ VersionOf[refresh.on] = refresh.into /\ refresh.seen \in Nat
    BY <2>1 DEF TrashTypes, RefreshTypes
  <2> QED BY <2>1, <2>2, FilesLie
<1>2. Shown(refresh.into) \in SUBSET Messages
  BY DEF TrashTypes, TableTypes, Shown
<1>3. /\ Cardinality(FilesOf(refresh.on)) \in Nat /\ Cardinality(Shown(refresh.into)) \in Nat
      /\ Cardinality(Shown(refresh.into)) =< Cardinality(Messages)
      /\ Cardinality(Messages) \in Nat
  BY <1>1, <1>2, FilesCount, MessagesCount
<1>4. RefreshShape' /\ RefreshTypes'
      /\ (refresh'.at = "counted" => refresh'.seen =< Cardinality(Messages))
  BY <1>1, <1>3, RefreshFacts DEF TrashTypes, Shapes, RefreshTypes, Refreshing
<1>5. /\ rows \subseteq rows' /\ rows' \subseteq rows \cup {refresh.on}
      /\ indexed' \subseteq indexed \cup {refresh.on}
      /\ files' \subseteq files \cup FilesOf(refresh.on)
      /\ size' = size \/ size' = [size EXCEPT ![refresh.into] = refresh.seen]
      /\ \/ count' = count
         \/ refresh.at = "counted" /\ count' = [count EXCEPT ![refresh.into] = refresh.seen]
  BY DEF RefreshWrite, RefreshCommit, RefreshCount, RefreshEnd
<1>6. TableTypes'
  BY <1>1, <1>5 DEF TrashTypes, TableTypes
<1>7. \A v \in Versions : count'[v] =< Most
  <2>1. Cardinality(Ended) \in Nat
    BY RequestsCount DEF Ended
  <2>2. refresh.at = "counted" => refresh.seen =< Most
    BY <1>1, <1>3, <2>1 DEF TrashTypes, CountBound, Most
  <2> QED BY <1>1, <1>5, <2>2 DEF TrashTypes, TableTypes, CountBound
<1> QED BY <1>1, <1>4, <1>6, <1>7, RefreshKeepsTypes

\* A crash ends what was begun.
LEMMA CrashFacts ==
  ASSUME Shapes, Crash
  PROVE  /\ Shapes' /\ ~ Refreshing' /\ \A q \in Requests : ~ AtWork(q)'
         /\ \A q \in Requests :
              req'[q] = IF AtWork(q)
                        THEN [at |-> "ended", op |-> "trash", on |-> NoMessage,
                              seen |-> 0, paths |-> {}]
                        ELSE req[q]
         /\ refresh' = IF Refreshing
                       THEN [at |-> "ended", into |-> 0, on |-> NoMessage, seen |-> 0]
                       ELSE refresh
<1>1. [Idle EXCEPT !.at = "ended"] = [at |-> "ended", op |-> "trash", on |-> NoMessage,
                                      seen |-> 0, paths |-> {}]
  BY DEF Idle
<1>2. req' = [q \in Requests |->
                IF AtWork(q) THEN [at |-> "ended", op |-> "trash", on |-> NoMessage,
                                   seen |-> 0, paths |-> {}] ELSE req[q]]
  BY <1>1 DEF Crash
<1>3. refresh' = IF Refreshing THEN [at |-> "ended", into |-> 0, on |-> NoMessage, seen |-> 0]
                 ELSE refresh
  BY DEF Crash, Still
<1>4. Shapes' /\ ~ Refreshing' /\ \A q \in Requests : ~ AtWork(q)'
  BY <1>2, <1>3 DEF Shapes, ReqShape, RefreshShape, AtWork, Refreshing
<1> QED BY <1>2, <1>3, <1>4

LEMMA CrashKeepsTypes == ASSUME TrashTypes, Crash PROVE TrashTypes'
<1>1. /\ UNCHANGED <<rows, binned, indexed, files, count, size, gone>>
      /\ disturbed' = (disturbed \/ Busy)
  BY DEF Crash
<1>2. TableTypes'
  BY <1>1 DEF TrashTypes, TableTypes
<1>3. Shapes' /\ ~ Refreshing' /\ \A q \in Requests : ~ AtWork(q)'
  BY CrashFacts DEF TrashTypes
<1>4. \A q \in Requests : \/ req'[q] = req[q]
                          \/ /\ req'[q].at = "ended" /\ req'[q].op = "trash"
                             /\ req'[q].on = NoMessage /\ req'[q].seen = 0 /\ req'[q].paths = {}
  BY CrashFacts DEF TrashTypes
<1>5. \/ refresh' = refresh
      \/ refresh'.at = "ended" /\ refresh'.into = 0 /\ refresh'.on = NoMessage /\ refresh'.seen = 0
  BY CrashFacts DEF TrashTypes
<1>6. RequestTypes'
  BY <1>3, <1>4 DEF TrashTypes, RequestTypes, Ops
<1>7. RefreshTypes'
  BY <1>3, <1>5 DEF TrashTypes, RefreshTypes
<1>8. Most \in Nat /\ Most' \in Nat /\ Most =< Most'
  <2>1. Ended \in SUBSET Requests /\ Ended' \in SUBSET Requests /\ Ended \subseteq Ended'
    BY <1>4 DEF Ended
  <2>2. /\ Cardinality(Ended) \in Nat /\ Cardinality(Ended') \in Nat
        /\ Cardinality(Ended) =< Cardinality(Ended') /\ Cardinality(Messages) \in Nat
    BY <2>1, RequestsCount, MessagesCount
  <2> QED BY <2>2 DEF Most
<1>9. CountBound'
  <2>1. \A v \in Versions : count'[v] =< Most'
    BY <1>1, <1>8 DEF TrashTypes, TableTypes, CountBound
  <2>2. \A q \in Requests : req'[q].at # "begun"
    BY <1>3 DEF AtWork
  <2>3. refresh'.at # "counted"
    BY <1>3 DEF Refreshing
  <2> QED BY <2>1, <2>2, <2>3 DEF CountBound
<1> QED BY <1>2, <1>3, <1>6, <1>7, <1>9 DEF TrashTypes

\* Versions have been there before they go.
Numbered == newest \in Versions /\ active \in {0} \cup Versions

LEMMA NumberedAtFirst == Init => Numbered
BY MessagesFit DEF Init, ExportInit, Numbered, Versions

LEMMA NumberedStep == Numbered /\ [Next]_vars => Numbered'
<1> SUFFICES ASSUME Numbered, [Next]_vars PROVE Numbered'
  OBVIOUS
<1> USE DEF Numbered, Versions
<1>1. MaxVersions \in Nat
  BY MessagesFit
<1>2. CASE Promote
  BY <1>1, <1>2 DEF Promote
<1>3. CASE Cleanup
  BY <1>1, <1>3 DEF Cleanup
<1>4. CASE Clear
  BY <1>4 DEF Clear
<1>5. CASE ~ (Promote \/ Cleanup \/ Clear)
  <2>1. UNCHANGED <<newest, active>>
    BY <1>5 DEF Next, Edits, JobStep, Start, Create, Open, List, Attach, Choose, Pack, Publish,
       Register, Finish, Fail, FailAfterBuild, Expire, UnlinkPackage, CleanupStops, Crash,
       Rotate, RemoveFiles, world, vars
  <2> QED BY <2>1
<1> QED BY <1>2, <1>3, <1>4, <1>5

LEMMA DroppedAreVersions ==
  ASSUME Numbered, Dropping
  PROVE  \E S \in SUBSET Versions : DropVersions(S)
<1>1. 1..newest \subseteq Versions
  BY MessagesFit DEF Numbered, Versions
<1>2. CASE Cleanup
  BY <1>1, <1>2 DEF Cleanup
<1>3. CASE Clear
  BY <1>1, <1>3 DEF Clear
<1>4. ASSUME NEW v \in Versions, Rotate(v) PROVE \E S \in SUBSET Versions : DropVersions(S)
  <2>1. DropVersions({v}) /\ {v} \in SUBSET Versions
    BY <1>4 DEF Rotate
  <2> QED BY <2>1
<1> QED BY <1>2, <1>3, <1>4 DEF Dropping

LEMMA TypesOfTrash == TrashTypes /\ Numbered /\ [Next]_vars => TrashTypes'
<1> SUFFICES ASSUME TrashTypes, Numbered, [Next]_vars PROVE TrashTypes'
  OBVIOUS
<1>1. CASE Edits
  <2>1. CASE \E q \in Requests, o \in Ops, m \in Messages : Begin(q, o, m)
    BY <2>1, BeginKeepsTypes
  <2>2. CASE \E m \in Messages : RefreshBegin(active, m)
    <3>1. PICK m \in Messages : RefreshBegin(active, m)
      BY <2>2
    <3>2. active \in Versions
      BY <3>1, FilesLie DEF RefreshBegin
    <3> QED BY <3>1, <3>2, RefreshBeginKeepsTypes
  <2>3. CASE TrashGoesOn
    BY <2>3, MoveKeepsTypes, DeletionKeepsTypes, RefreshKeepsOnWithTypes DEF TrashGoesOn
  <2> QED BY <1>1, <2>1, <2>2, <2>3 DEF Edits
<1>2. CASE Crash
  BY <1>2, CrashKeepsTypes
<1>3. CASE Dropping \/ \E v \in Versions : RemoveFiles(v)
  <2>1. UNCHANGED <<count, size, req, refresh, disturbed>>
    BY <1>3, DroppingDrops DEF DropVersions, RemoveFiles
  <2>2. Shapes' /\ RequestTypes' /\ RefreshTypes' /\ CountBound'
    BY <2>1 DEF TrashTypes, Shapes, ReqShape, RefreshShape, RequestTypes, RefreshTypes,
       CountBound, Most, Ended, AtWork, Refreshing
  <2>3. /\ rows' \subseteq rows /\ binned' \subseteq rows' /\ indexed' \subseteq indexed
        /\ files' \subseteq files /\ gone' \subseteq Versions
    <3>1. CASE Dropping
      <4>1. PICK S \in SUBSET Versions : DropVersions(S)
        BY <3>1, DroppedAreVersions
      <4> QED BY <4>1 DEF DropVersions, TrashTypes, TableTypes
    <3>2. CASE \E v \in Versions : RemoveFiles(v)
      BY <3>2 DEF RemoveFiles, TrashTypes, TableTypes
    <3> QED BY <1>3, <3>1, <3>2
  <2>4. TableTypes'
    BY <2>1, <2>3 DEF TrashTypes, TableTypes
  <2> QED BY <2>2, <2>4 DEF TrashTypes
<1>4. CASE \/ \E j \in Jobs : JobStep(j) \/ Expire(j) \/ UnlinkPackage(j)
           \/ CleanupStops \/ Promote \/ UNCHANGED vars
  <2>1. UNCHANGED trash
    BY <1>4, OthersLeaveTrash DEF vars
  <2> QED BY <2>1 DEF trash, TrashTypes, Shapes, ReqShape, RefreshShape, TableTypes, RequestTypes,
             RefreshTypes, CountBound, Most, Ended, AtWork, Refreshing
<1> QED BY <1>1, <1>2, <1>3, <1>4 DEF Next, Dropping

-----------------------------------------------------------------------------
(* Totals *)

\* One at a time is at work.
Alone ==
  /\ \A q, r \in Requests : AtWork(q) /\ AtWork(r) => q = r
  /\ Refreshing => \A q \in Requests : ~ AtWork(q)

\* The count is right but between the two commits of a refresh; what has been read to
\* compute the next is right too, and a message is still where its request found it.
CountsHold ==
  /\ \A v \in Versions \ gone :
       \/ refresh.at \in {"stored", "counted"} /\ refresh.into = v
       \/ count[v] = Cardinality(Shown(v))
  /\ refresh.at = "counted" /\ refresh.into \notin gone
       => refresh.seen = Cardinality(Shown(refresh.into))
  /\ \A q \in Requests :
       /\ req[q].at = "found" => req[q].op = "permanent"
       /\ req[q].at \in {"begun", "found"} /\ req[q].on \in rows
            => (req[q].on \in binned <=> req[q].op # "trash")
       /\ req[q].at = "begun" /\ req[q].op # "permanent" /\ req[q].on \in rows
            => req[q].seen = count[VersionOf[req[q].on]]

\* The size covers the files but while those of a refresh are written and their number
\* is not yet stored; what is to be stored covers them then.
SizesHold ==
  /\ \A v \in Versions \ gone :
       \/ refresh.at = "written" /\ refresh.into = v
       \/ size[v] >= DirectorySize(v)
  /\ refresh.at = "found" => refresh.seen = size[refresh.into]
  /\ refresh.at = "written" /\ refresh.into \notin gone
       => refresh.seen >= DirectorySize(refresh.into)
  /\ \A q \in Requests :
       req[q].at = "measured" /\ VersionOf[req[q].on] \notin gone
         => req[q].seen >= DirectorySize(VersionOf[req[q].on])

TotalsInv == ~ disturbed => Alone /\ CountsHold /\ SizesHold

LEMMA TotalsAtFirst == TrashInit => TotalsInv
<1> SUFFICES ASSUME TrashInit PROVE Alone /\ CountsHold /\ SizesHold
  BY DEF TotalsInv
<1>1. refresh.at = "idle" /\ \A q \in Requests : req[q].at = "idle"
  BY DEF TrashInit, Idle, Still
<1>2. Alone
  BY <1>1 DEF Alone, AtWork, Refreshing
<1>3. CountsHold
  BY <1>1 DEF CountsHold, TrashInit
<1>4. \A v \in Versions : DirectorySize(v) \in Nat
  BY FilesCount DEF DirectorySize
<1>5. SizesHold
  BY <1>1, <1>4 DEF SizesHold, TrashInit
<1> QED BY <1>2, <1>3, <1>5

\* Taking files away keeps what is said of sizes.
LEMMA SizesCover ==
  ASSUME files' \subseteq files
  PROVE  \A v \in Versions : /\ DirectorySize(v) \in Nat /\ DirectorySize(v)' \in Nat
                             /\ DirectorySize(v)' =< DirectorySize(v)
BY FilesCount DEF DirectorySize

LEMMA BeginKeepsTotals ==
  ASSUME TrashTypes, TotalsInv, NEW q \in Requests, NEW o \in Ops, NEW m \in Messages,
         Begin(q, o, m)
  PROVE  TotalsInv'
<1> SUFFICES ASSUME ~ disturbed' PROVE Alone' /\ CountsHold' /\ SizesHold'
  BY DEF TotalsInv
<1>1. /\ ~ disturbed /\ ~ Busy /\ m \in rows /\ (m \in binned) = (o # "trash")
      /\ UNCHANGED <<rows, binned, indexed, files, count, size, gone, refresh>>
  BY DEF Begin
<1>2. /\ req'[q].at = "begun" /\ req'[q].on = m /\ req'[q].op = o
      /\ req'[q].seen = IF o = "permanent" THEN 0 ELSE count[VersionOf[m]]
      /\ \A r \in Requests \ {q} : req'[r] = req[r]
  BY DEF Begin, TrashTypes, Shapes, ReqShape
<1>3. ~ Refreshing /\ \A r \in Requests : ~ AtWork(r)
  BY <1>1 DEF Busy
<1>4. Alone'
  BY <1>1, <1>2, <1>3 DEF Alone, AtWork, Refreshing
<1>5. CountsHold /\ SizesHold
  BY <1>1 DEF TotalsInv
<1>6. \A v : Shown(v)' = Shown(v) /\ DirectorySize(v)' = DirectorySize(v)
  BY <1>1 DEF Shown, DirectorySize
<1>7. CountsHold'
  BY <1>1, <1>2, <1>3, <1>5, <1>6 DEF CountsHold, AtWork, Refreshing
<1>8. SizesHold'
  BY <1>1, <1>2, <1>3, <1>5, <1>6 DEF SizesHold, AtWork, Refreshing
<1> QED BY <1>4, <1>7, <1>8

\* As long as nothing has overlapped, a request at work is the only one.
LEMMA AloneAtWork ==
  ASSUME TotalsInv, ~ disturbed, NEW q \in Requests, AtWork(q),
         \A r \in Requests \ {q} : req'[r] = req[r], refresh' = refresh
  PROVE  /\ Alone' /\ ~ Refreshing /\ \A r \in Requests \ {q} : ~ AtWork(r) /\ ~ AtWork(r)'
         /\ CountsHold /\ SizesHold
BY DEF TotalsInv, Alone, AtWork, Refreshing

LEMMA MoveKeepsTotals ==
  ASSUME TrashTypes, TotalsInv, NEW q \in Requests, Move(q)
  PROVE  TotalsInv'
<1> SUFFICES ASSUME ~ disturbed' PROVE Alone' /\ CountsHold' /\ SizesHold'
  BY DEF TotalsInv
<1> DEFINE m == req[q].on
           v == VersionOf[m]
<1>1. /\ AtWork(q) /\ req[q].at = "begun" /\ req[q].op # "permanent" /\ ~ disturbed
      /\ UNCHANGED <<rows, files, size, gone, refresh>>
  BY DEF Move, AtWork
<1>2. req'[q].at = "ended" /\ \A r \in Requests \ {q} : req'[r] = req[r]
  BY StepFacts DEF Move, TrashTypes, Shapes
<1>3. /\ Alone' /\ ~ Refreshing /\ \A r \in Requests \ {q} : ~ AtWork(r) /\ ~ AtWork(r)'
      /\ CountsHold /\ SizesHold
  BY <1>1, <1>2, AloneAtWork
<1>4. m \in Messages /\ v \in Versions /\ req[q].seen \in Nat
  BY <1>1, FilesLie DEF TrashTypes, RequestTypes
<1>5. /\ ~ Refreshing'
      /\ \A r \in Requests : req'[r].at \notin {"begun", "found", "measured"}
  BY <1>1, <1>2, <1>3 DEF AtWork, Refreshing
<1>6. SizesHold'
  <2>1. \A w : DirectorySize(w)' = DirectorySize(w)
    BY <1>1 DEF DirectorySize
  <2> QED BY <1>1, <1>3, <1>5, <2>1 DEF SizesHold, Refreshing
<1>7. ASSUME NEW w \in Versions \ gone PROVE count'[w] = Cardinality(Shown(w)')
  <2>1. count[w] = Cardinality(Shown(w))
    BY <1>3 DEF CountsHold, Refreshing
  <2>2. CASE m \notin rows
    <3>1. UNCHANGED <<binned, count>>
      BY <2>2 DEF Move
    <3> QED BY <1>1, <2>1, <3>1 DEF Shown
  <2>3. CASE m \in rows /\ w # v
    <3>1. /\ count' = [count EXCEPT ![v] = Adjusted(q)]
          /\ binned' = binned \cup {m} \/ binned' = binned \ {m}
      BY <2>3 DEF Move
    <3>2. Shown(w)' = Shown(w)
      BY <1>1, <2>3, <3>1 DEF Shown
    <3> QED BY <1>4, <2>1, <2>3, <3>1, <3>2 DEF TrashTypes, TableTypes
  <2>4. CASE m \in rows /\ w = v
    <3>1. /\ count' = [count EXCEPT ![v] = Adjusted(q)]
          /\ binned' = IF req[q].op = "trash" THEN binned \cup {m} ELSE binned \ {m}
      BY <2>4 DEF Move
    <3>2. count'[w] = Adjusted(q)
      BY <1>4, <2>4, <3>1 DEF TrashTypes, TableTypes
    <3>3. /\ (m \in binned <=> req[q].op # "trash") /\ req[q].seen = count[v]
      BY <1>1, <1>3, <2>4 DEF CountsHold
    <3>4. Shown(w) \in SUBSET Messages
      BY DEF Shown, TrashTypes, TableTypes
    <3>5. CASE req[q].op = "trash"
      <4>1. m \in Shown(w) /\ Shown(w)' = Shown(w) \ {m}
        BY <1>1, <2>4, <3>1, <3>3, <3>5 DEF Shown
      <4>2. /\ Cardinality(Shown(w) \ {m}) = Cardinality(Shown(w)) - 1
            /\ Cardinality(Shown(w)) > 0
        BY <1>4, <3>4, <4>1, MessagesCount
      <4>3. Adjusted(q) = req[q].seen - 1
        BY <1>4, <2>1, <2>4, <3>3, <3>5, <4>2, AdjustedIs
      <4> QED BY <2>1, <2>4, <3>2, <3>3, <4>1, <4>2, <4>3
    <3>6. CASE req[q].op # "trash"
      <4>1. m \notin Shown(w) /\ Shown(w)' = Shown(w) \cup {m}
        BY <1>1, <2>4, <3>1, <3>3, <3>6 DEF Shown
      <4>2. Cardinality(Shown(w) \cup {m}) = Cardinality(Shown(w)) + 1
        BY <1>4, <3>4, <4>1, MessagesCount
      <4>3. Adjusted(q) = req[q].seen + 1
        BY <1>4, <3>6, AdjustedIs
      <4> QED BY <2>1, <2>4, <3>2, <3>3, <4>1, <4>2, <4>3
    <3> QED BY <3>5, <3>6
  <2> QED BY <2>2, <2>3, <2>4
<1>8. CountsHold'
  BY <1>1, <1>5, <1>7 DEF CountsHold, Refreshing
<1> QED BY <1>3, <1>6, <1>8

LEMMA DeletionKeepsTotals ==
  ASSUME TrashTypes, TotalsInv, NEW q \in Requests,
         FindPaths(q) \/ DeleteRow(q) \/ Unlink(q) \/ Measure(q) \/ Record(q)
  PROVE  TotalsInv'
<1> SUFFICES ASSUME ~ disturbed' PROVE Alone' /\ CountsHold' /\ SizesHold'
  BY DEF TotalsInv
<1>1. /\ AtWork(q) /\ ~ disturbed /\ UNCHANGED <<count, gone, refresh>>
      /\ files' \subseteq files /\ (files' = files \/ req[q].at = "deleted")
      /\ req[q].at = "begun" => req[q].op = "permanent"
  BY DEF FindPaths, DeleteRow, Unlink, Measure, Record, AtWork
<1>2. /\ \A r \in Requests \ {q} : req'[r] = req[r]
      /\ \/ req'[q].at \in {"ended", "deleted", "unlinked"}
         \/ /\ req'[q].at = "found" /\ FindPaths(q)
            /\ req'[q].op = req[q].op /\ req'[q].on = req[q].on
         \/ /\ req'[q].at = "measured" /\ Measure(q) /\ req'[q].on = req[q].on
            /\ req'[q].seen = DirectorySize(VersionOf[req[q].on])
  <2>1. CASE FindPaths(q)
    BY <2>1, FindFacts DEF TrashTypes, Shapes
  <2>2. CASE DeleteRow(q) \/ Unlink(q) \/ Record(q)
    <3>1. PICK place \in {"ended", "deleted", "unlinked"} : Step(q, place)
      BY <2>2 DEF DeleteRow, Unlink, Record
    <3> QED BY <3>1, StepFacts DEF TrashTypes, Shapes
  <2>3. CASE Measure(q)
    BY <2>3, MeasureFacts DEF TrashTypes, Shapes
  <2> QED BY <2>1, <2>2, <2>3
<1>3. /\ Alone' /\ ~ Refreshing /\ \A r \in Requests \ {q} : ~ AtWork(r) /\ ~ AtWork(r)'
      /\ CountsHold /\ SizesHold
  BY <1>1, <1>2, AloneAtWork
<1>4. req[q].on \in Messages /\ VersionOf[req[q].on] \in Versions
  BY <1>1, FilesLie DEF TrashTypes, RequestTypes
<1>5. ~ Refreshing' /\ \A r \in Requests \ {q} : req'[r].at \notin {"begun", "found", "measured"}
  BY <1>1, <1>3 DEF AtWork, Refreshing
\* A row that goes was in the trash: what is shown stays.
<1>6. \A v : Shown(v)' = Shown(v)
  <2>1. CASE DeleteRow(q) /\ rows' # rows
    <3>1. /\ rows' = rows \ {req[q].on} /\ binned' = binned \ {req[q].on} /\ req[q].at = "found"
      BY <2>1 DEF DeleteRow
    <3>2. req[q].on \in rows
      BY <2>1, <3>1
    <3>3. req[q].on \in binned
      BY <1>3, <3>1, <3>2 DEF CountsHold
    <3> QED BY <3>1, <3>3 DEF Shown
  <2>2. CASE rows' = rows /\ binned' = binned
    BY <2>2 DEF Shown
  <2>3. CASE DeleteRow(q) /\ rows' = rows /\ binned' # binned
    <3>1. binned' = binned \ {req[q].on} /\ rows' = rows \ {req[q].on}
      BY <2>3 DEF DeleteRow
    <3> QED BY <2>3, <3>1 DEF TrashTypes, TableTypes
  <2>4. DeleteRow(q) \/ (rows' = rows /\ binned' = binned)
    BY DEF FindPaths, Unlink, Measure, Record
  <2> QED BY <2>1, <2>2, <2>3, <2>4
<1>7. CountsHold'
  <2>1. CASE req'[q].at = "found"
    <3>1. FindPaths(q) /\ req'[q].op = req[q].op /\ req'[q].on = req[q].on
      BY <1>2, <2>1
    <3>2. req[q].at = "begun" /\ req[q].op = "permanent" /\ UNCHANGED <<rows, binned>>
      BY <3>1 DEF FindPaths
    <3> QED BY <1>1, <1>3, <1>5, <1>6, <2>1, <3>1, <3>2 DEF CountsHold, Refreshing
  <2>2. CASE req'[q].at # "found"
    <3>1. \A r \in Requests : req'[r].at \notin {"begun", "found"}
      BY <1>2, <1>5, <2>2
    <3> QED BY <1>1, <1>3, <1>5, <1>6, <3>1 DEF CountsHold, Refreshing
  <2> QED BY <2>1, <2>2
<1>8. \A v \in Versions : /\ DirectorySize(v) \in Nat /\ DirectorySize(v)' \in Nat
                          /\ DirectorySize(v)' =< DirectorySize(v)
  BY <1>1, SizesCover
<1>9. \A v \in Versions \ gone : size'[v] \in Nat /\ size'[v] >= DirectorySize(v)'
  <2> SUFFICES ASSUME NEW v \in Versions \ gone
               PROVE  size'[v] \in Nat /\ size'[v] >= DirectorySize(v)'
    OBVIOUS
  <2>1. size[v] >= DirectorySize(v) /\ size[v] \in Nat
    BY <1>3 DEF SizesHold, Refreshing, TrashTypes, TableTypes
  <2>2. CASE size' = size
    BY <1>8, <2>1, <2>2
  <2>3. CASE size' # size
    <3>1. /\ Record(q) /\ req[q].at = "measured" /\ VersionOf[req[q].on] \notin gone
          /\ size' = [size EXCEPT ![VersionOf[req[q].on]] = req[q].seen]
      BY <2>3 DEF FindPaths, DeleteRow, Unlink, Measure, Record
    <3>2. /\ req[q].seen \in Nat /\ req[q].seen >= DirectorySize(VersionOf[req[q].on])
      BY <1>3, <3>1 DEF SizesHold, TrashTypes, RequestTypes
    <3> QED BY <1>4, <1>8, <2>1, <3>1, <3>2 DEF TrashTypes, TableTypes
  <2> QED BY <2>2, <2>3
<1>10. ASSUME req'[q].at = "measured", NEW v \in Versions, v = VersionOf[req'[q].on]
       PROVE  req'[q].seen >= DirectorySize(v)'
  <2>1. req'[q].seen = DirectorySize(VersionOf[req[q].on]) /\ req'[q].on = req[q].on
    BY <1>2, <1>10
  <2> QED BY <1>4, <1>8, <1>10, <2>1
<1>11. req'[q].at = "measured" =>
         VersionOf[req'[q].on] \in Versions /\ VersionOf[req'[q].on] = VersionOf[req[q].on]
  BY <1>2, <1>4
<1>12. SizesHold'
  BY <1>1, <1>5, <1>9, <1>10, <1>11 DEF SizesHold, Refreshing
<1> QED BY <1>3, <1>7, <1>12

LEMMA RefreshBeginKeepsTotals ==
  ASSUME TrashTypes, TotalsInv, NEW v \in Versions, NEW m \in Messages, RefreshBegin(v, m)
  PROVE  TotalsInv'
<1> SUFFICES ASSUME ~ disturbed' PROVE Alone' /\ CountsHold' /\ SizesHold'
  BY DEF TotalsInv
<1>1. /\ ~ disturbed /\ ~ Busy
      /\ UNCHANGED <<rows, binned, indexed, files, count, size, gone, req>>
      /\ refresh'.at = "found" /\ refresh'.into = v /\ refresh'.seen = size[v]
  BY DEF RefreshBegin
<1>2. ~ Refreshing /\ \A q \in Requests : ~ AtWork(q)
  BY <1>1 DEF Busy
<1>3. Alone'
  BY <1>1, <1>2 DEF Alone, AtWork, Refreshing
<1>4. CountsHold /\ SizesHold
  BY <1>1 DEF TotalsInv
<1>5. \A w : Shown(w)' = Shown(w) /\ DirectorySize(w)' = DirectorySize(w)
  BY <1>1 DEF Shown, DirectorySize
<1>6. CountsHold'
  BY <1>1, <1>2, <1>4, <1>5 DEF CountsHold, AtWork, Refreshing
<1>7. SizesHold'
  BY <1>1, <1>2, <1>4, <1>5 DEF SizesHold, AtWork, Refreshing
<1> QED BY <1>3, <1>6, <1>7

LEMMA RefreshKeepsTotals ==
  ASSUME TrashTypes, TotalsInv, RefreshWrite \/ RefreshCommit \/ RefreshCount \/ RefreshEnd
  PROVE  TotalsInv'
<1> SUFFICES ASSUME ~ disturbed' PROVE Alone' /\ CountsHold' /\ SizesHold'
  BY DEF TotalsInv
<1>1. Refreshing /\ ~ disturbed /\ UNCHANGED <<binned, gone, req>>
  BY DEF RefreshWrite, RefreshCommit, RefreshCount, RefreshEnd, Refreshing
<1>2. Alone /\ CountsHold /\ SizesHold /\ \A q \in Requests : ~ AtWork(q)
  BY <1>1 DEF TotalsInv, Alone
<1>3. \A q \in Requests : req'[q].at \notin {"begun", "found", "measured"}
  BY <1>1, <1>2 DEF AtWork
<1>4. Alone'
  BY <1>1, <1>2 DEF Alone, AtWork, Refreshing
<1>5. /\ refresh.on \in Messages /\ refresh.into = VersionOf[refresh.on]
      /\ refresh.into \in Versions /\ refresh.seen \in Nat
  BY <1>1, FilesLie DEF TrashTypes, RefreshTypes
<1>6. \A v \in Versions : count[v] \in Nat /\ size[v] \in Nat /\ DirectorySize(v) \in Nat
  BY FilesCount DEF TrashTypes, TableTypes, DirectorySize
<1>7. CASE RefreshWrite
  <2>1. /\ refresh'.at = "written" /\ refresh'.into = refresh.into
        /\ refresh'.seen = refresh.seen + Cardinality(FilesOf(refresh.on))
    BY <1>7, RefreshFacts DEF TrashTypes, Shapes
  <2>2. /\ refresh.at = "found" /\ files' = files \cup FilesOf(refresh.on)
        /\ UNCHANGED <<rows, count, size>>
    BY <1>7 DEF RefreshWrite
  <2>3. \A v \in Versions \ {refresh.into} : DirectorySize(v)' = DirectorySize(v)
    <3>1. \A v \in Versions \ {refresh.into} : FilesOf(refresh.on) \cap VersionFiles(v) = {}
      BY <1>5, FilesLie, FilesAreOfOneVersion
    <3>2. \A v \in Versions \ {refresh.into} :
            files' \cap VersionFiles(v) = files \cap VersionFiles(v)
      BY <2>2, <3>1
    <3> QED BY <3>2 DEF DirectorySize
  <2>4. /\ DirectorySize(refresh.into) \in Nat /\ Cardinality(FilesOf(refresh.on)) \in Nat
        /\ Cardinality(files' \cap VersionFiles(refresh.into)) \in Nat
        /\ Cardinality(files' \cap VersionFiles(refresh.into))
             =< DirectorySize(refresh.into) + Cardinality(FilesOf(refresh.on))
    BY <1>5, <2>2, FilesCount DEF DirectorySize
  <2>5. refresh.into \notin gone => refresh.seen >= DirectorySize(refresh.into)
    BY <1>2, <1>5, <2>2 DEF SizesHold
  <2>6. refresh.into \notin gone =>
          refresh'.seen >= Cardinality(files' \cap VersionFiles(refresh.into))
    BY <1>5, <2>1, <2>4, <2>5
  <2>7. SizesHold'
    BY <1>1, <1>2, <1>3, <2>1, <2>2, <2>3, <2>6 DEF SizesHold, DirectorySize
  <2>8. CountsHold'
    BY <1>1, <1>2, <1>3, <2>1, <2>2 DEF CountsHold, Shown
  <2> QED BY <1>4, <2>7, <2>8
<1>8. CASE RefreshCommit /\ refresh.into \notin gone
  <2>1. /\ refresh'.at = "stored" /\ refresh'.into = refresh.into
        /\ refresh'.seen = refresh.seen
    BY <1>8, RefreshFacts DEF TrashTypes, Shapes
  <2>2. /\ refresh.at = "written" /\ rows' = rows \cup {refresh.on}
        /\ size' = [size EXCEPT ![refresh.into] = refresh.seen] /\ UNCHANGED <<files, count>>
    BY <1>8 DEF RefreshCommit
  <2>3. \A v \in Versions \ {refresh.into} : Shown(v)' = Shown(v)
    BY <1>1, <1>5, <2>2 DEF Shown
  <2>4. refresh.seen >= DirectorySize(refresh.into)
    BY <1>2, <1>8, <2>2 DEF SizesHold
  <2>5. \A v : DirectorySize(v)' = DirectorySize(v)
    BY <2>2 DEF DirectorySize
  <2>6. \A v \in Versions \ gone : size'[v] >= DirectorySize(v)
    BY <1>2, <1>5, <2>2, <2>4 DEF SizesHold, TrashTypes, TableTypes
  <2>7. SizesHold'
    BY <1>1, <1>3, <2>1, <2>5, <2>6 DEF SizesHold
  <2>8. CountsHold'
    BY <1>1, <1>2, <1>3, <2>1, <2>2, <2>3 DEF CountsHold
  <2> QED BY <1>4, <2>7, <2>8
<1>9. CASE RefreshCount
  <2>1. /\ refresh'.at = "counted" /\ refresh'.into = refresh.into
        /\ refresh'.seen = Cardinality(Shown(refresh.into))
    BY <1>9, RefreshFacts DEF TrashTypes, Shapes
  <2>2. refresh.at = "stored" /\ UNCHANGED <<rows, files, count, size>>
    BY <1>9 DEF RefreshCount
  <2>3. \A v : Shown(v)' = Shown(v) /\ DirectorySize(v)' = DirectorySize(v)
    BY <1>1, <2>2 DEF Shown, DirectorySize
  <2>4. SizesHold'
    BY <1>1, <1>2, <1>3, <2>1, <2>2, <2>3 DEF SizesHold
  <2>5. CountsHold'
    BY <1>1, <1>2, <1>3, <2>1, <2>2, <2>3 DEF CountsHold, Shown
  <2> QED BY <1>4, <2>4, <2>5
<1>10. CASE RefreshEnd \/ (RefreshCommit /\ refresh.into \in gone)
  <2>1. refresh'.at = "ended"
    BY <1>10, RefreshFacts DEF TrashTypes, Shapes
  <2>2. /\ UNCHANGED <<rows, files, size>>
        /\ \/ refresh.into \in gone /\ count' = count
           \/ /\ refresh.at = "counted" /\ refresh.into \notin gone
              /\ count' = [count EXCEPT ![refresh.into] = refresh.seen]
        /\ refresh.into \in gone \/ refresh.at = "counted"
    BY <1>10 DEF RefreshEnd, RefreshCommit
  <2>3. \A v : Shown(v)' = Shown(v) /\ DirectorySize(v)' = DirectorySize(v)
    BY <1>1, <2>2 DEF Shown, DirectorySize
  <2>4. SizesHold'
    BY <1>1, <1>2, <1>3, <2>1, <2>2, <2>3 DEF SizesHold
  <2>5. \A v \in Versions \ gone : count'[v] = Cardinality(Shown(v))
    BY <1>2, <1>5, <2>2 DEF CountsHold, TrashTypes, TableTypes
  <2>6. CountsHold'
    BY <1>1, <1>3, <2>1, <2>3, <2>5 DEF CountsHold
  <2> QED BY <1>4, <2>4, <2>6
<1> QED BY <1>7, <1>8, <1>9, <1>10

\* Versions that go take their own messages and files with them.
LEMMA DroppingKeepsTotals ==
  ASSUME TrashTypes, TotalsInv, Dropping \/ \E v \in Versions : RemoveFiles(v)
  PROVE  TotalsInv'
<1> SUFFICES ASSUME ~ disturbed' PROVE Alone' /\ CountsHold' /\ SizesHold'
  BY DEF TotalsInv
<1>1. /\ ~ disturbed /\ UNCHANGED <<count, size, req, refresh>> /\ files' \subseteq files
      /\ rows' \subseteq rows /\ gone \subseteq gone'
      /\ \A m \in rows : VersionOf[m] \notin gone' => m \in rows'
      /\ binned' = binned \cap rows'
  <2>1. CASE Dropping
    <3>1. PICK S : DropVersions(S)
      BY <2>1, DroppingDrops
    <3> QED BY <3>1 DEF DropVersions
  <2>2. CASE \E v \in Versions : RemoveFiles(v)
    BY <2>2 DEF RemoveFiles, TrashTypes, TableTypes
  <2> QED BY <2>1, <2>2
<1>2. Alone /\ CountsHold /\ SizesHold
  BY <1>1 DEF TotalsInv
<1>3. Alone'
  BY <1>1, <1>2 DEF Alone, AtWork, Refreshing
<1>4. \A w \in Versions \ gone' : Shown(w)' = Shown(w)
  BY <1>1 DEF Shown
<1>5. \A m \in rows' : m \in rows /\ (m \in binned' <=> m \in binned)
  BY <1>1
<1>6. Refreshing => refresh.into \in Versions
  BY FilesLie DEF TrashTypes, RefreshTypes
<1>7. CountsHold'
  BY <1>1, <1>2, <1>4, <1>5, <1>6 DEF CountsHold, Refreshing
<1>8. \A w \in Versions : /\ DirectorySize(w) \in Nat /\ DirectorySize(w)' \in Nat
                          /\ DirectorySize(w)' =< DirectorySize(w)
  BY <1>1, SizesCover
<1>9. /\ \A w \in Versions : size[w] \in Nat
      /\ refresh.seen \in Nat
      /\ \A q \in Requests : req[q].seen \in Nat
                          /\ (AtWork(q) => VersionOf[req[q].on] \in Versions)
  BY FilesLie DEF TrashTypes, TableTypes, RefreshTypes, RequestTypes
<1>10. \A w \in Versions \ gone' :
         (refresh'.at = "written" /\ refresh'.into = w) \/ size'[w] >= DirectorySize(w)'
  BY <1>1, <1>2, <1>8, <1>9 DEF SizesHold
<1>11. \A w \in Versions \ gone' : refresh'.at = "written" /\ refresh'.into = w
         => refresh'.seen >= DirectorySize(w)'
  BY <1>1, <1>2, <1>8, <1>9 DEF SizesHold
<1>12. \A w \in Versions \ gone', q \in Requests :
         req'[q].at = "measured" /\ VersionOf[req'[q].on] = w => req'[q].seen >= DirectorySize(w)'
  BY <1>1, <1>2, <1>8, <1>9 DEF SizesHold
<1>13. SizesHold'
  BY <1>1, <1>2, <1>6, <1>9, <1>10, <1>11, <1>12 DEF SizesHold, Refreshing, AtWork
<1> QED BY <1>3, <1>7, <1>13

LEMMA CrashKeepsTotals ==
  ASSUME TrashTypes, TotalsInv, Crash
  PROVE  TotalsInv'
<1> SUFFICES ASSUME ~ disturbed' PROVE Alone' /\ CountsHold' /\ SizesHold'
  BY DEF TotalsInv
<1>1. /\ ~ disturbed /\ ~ Busy
      /\ UNCHANGED <<rows, binned, indexed, files, count, size, gone>>
  BY DEF Crash
<1>2. ~ Refreshing' /\ \A q \in Requests : ~ AtWork(q)'
  BY CrashFacts DEF TrashTypes
<1>3. ~ Refreshing /\ CountsHold /\ SizesHold
  BY <1>1 DEF Busy, TotalsInv
<1>4. Alone'
  BY <1>2 DEF Alone
<1>5. CountsHold'
  BY <1>1, <1>2, <1>3 DEF CountsHold, Shown, Refreshing, AtWork
<1>6. SizesHold'
  BY <1>1, <1>2, <1>3 DEF SizesHold, DirectorySize, Refreshing, AtWork
<1> QED BY <1>4, <1>5, <1>6

\* The count shown and the size charged are true of the messages and files there are
\* (app/main.py:3674-3745, app/pec.py:175-250), in every window: as long as no two
\* changes have overlapped and no crash has cut one short.
THEOREM TotalsHoldAtRest == Spec => []TotalsAreTrue
<1>1. Init => TrashTypes /\ Numbered /\ TotalsInv
  BY TypesAtFirst, NumberedAtFirst, TotalsAtFirst DEF Init
<1>2. TrashTypes /\ Numbered /\ TotalsInv /\ [Next]_vars
        => TrashTypes' /\ Numbered' /\ TotalsInv'
  <2> SUFFICES ASSUME TrashTypes, TotalsInv, [Next]_vars PROVE TotalsInv'
    BY TypesOfTrash, NumberedStep
  <2>1. CASE Edits
    <3>1. CASE \E q \in Requests, o \in Ops, m \in Messages : Begin(q, o, m)
      BY <3>1, BeginKeepsTotals
    <3>2. CASE \E m \in Messages : RefreshBegin(active, m)
      <4>1. PICK m \in Messages : RefreshBegin(active, m)
        BY <3>2
      <4>2. active \in Versions
        BY <4>1, FilesLie DEF RefreshBegin
      <4> QED BY <4>1, <4>2, RefreshBeginKeepsTotals
    <3>3. CASE TrashGoesOn
      BY <3>3, MoveKeepsTotals, DeletionKeepsTotals, RefreshKeepsTotals DEF TrashGoesOn
    <3> QED BY <2>1, <3>1, <3>2, <3>3 DEF Edits
  <2>2. CASE Crash
    BY <2>2, CrashKeepsTotals
  <2>3. CASE Dropping \/ \E v \in Versions : RemoveFiles(v)
    BY <2>3, DroppingKeepsTotals
  <2>4. CASE \/ \E j \in Jobs : JobStep(j) \/ Expire(j) \/ UnlinkPackage(j)
             \/ CleanupStops \/ Promote \/ UNCHANGED vars
    <3>1. UNCHANGED trash
      BY <2>4, OthersLeaveTrash DEF vars
    <3> QED BY <3>1 DEF trash, TotalsInv, Alone, CountsHold, SizesHold, Shown, DirectorySize,
               AtWork, Refreshing
  <2> QED BY <2>1, <2>2, <2>3, <2>4 DEF Next, Dropping
<1>3. TotalsInv => TotalsAreTrue
  <2> SUFFICES ASSUME TotalsInv, ~ disturbed, ~ Busy, NEW v \in Versions \ gone
               PROVE  count[v] = Cardinality(Shown(v)) /\ size[v] >= DirectorySize(v)
    BY DEF TotalsAreTrue
  <2> QED BY DEF TotalsInv, CountsHold, SizesHold, Busy, Refreshing
<1> QED BY <1>1, <1>2, <1>3, PTL DEF Spec

-----------------------------------------------------------------------------
(* Types of jobs and packages *)

JobTypes ==
  /\ kind \in [Jobs -> {"plain", "local"}] /\ result \in [Jobs -> SUBSET Jobs]
  /\ status \in [Jobs -> {"none", "queued", "running", "completed", "failed", "lost"}]
  /\ pc \in [Jobs -> Making \cup {"idle", "queued", "built", "moved", "ready"}]
BuildTypes ==
  /\ from \in [Jobs -> {0} \cup Versions] /\ packed \in [Jobs -> SUBSET Files]
  /\ listed \in [Jobs -> SUBSET Messages] /\ attached \in [Jobs -> SUBSET Messages]
StoreTypes ==
  /\ temp \in SUBSET Jobs /\ packages \in SUBSET Jobs /\ young \in SUBSET Jobs
  /\ due \in SUBSET Jobs /\ doomed \in SUBSET Jobs /\ abandoned \in SUBSET Jobs
  /\ shelf \in [Jobs -> 0..Cardinality(Jobs)]
  /\ Numbered /\ plus \in BOOLEAN /\ crashes \in 0..MaxCrashes

ExportTypes == JobTypes /\ BuildTypes /\ StoreTypes

LEMMA JobTypesStep == JobTypes /\ [Next]_vars => JobTypes'
<1> SUFFICES ASSUME JobTypes, [Next]_vars PROVE JobTypes'
  OBVIOUS
<1> USE DEF JobTypes, Making
<1>1. ASSUME NEW j \in Jobs, JobStep(j) PROVE JobTypes'
  <2>1. ASSUME NEW k \in {"plain", "local"}, Start(j, k) PROVE JobTypes'
    BY <2>1 DEF Start
  <2>2. CASE Create(j)
    <3>1. /\ result' = result \/ \E S \in SUBSET Jobs : result' = [result EXCEPT ![j] = S]
          /\ kind' = kind \/ kind' = [kind EXCEPT ![j] = "plain"]
      BY <2>2 DEF Create, Over, Usable, Offered, Registered
    <3>2. /\ \E s \in {"running", "failed"} : status' = [status EXCEPT ![j] = s]
          /\ \E place \in {"ready", "open", "idle"} : pc' = [pc EXCEPT ![j] = place]
      BY <2>2 DEF Create, Over
    <3> QED BY <3>1, <3>2
  <2>3. CASE Open(j) \/ List(j) \/ Attach(j) \/ Choose(j) \/ Pack(j) \/ Publish(j)
    <3>1. /\ \E place \in {"list", "attach", "choose", "pack", "built", "moved"} :
                pc' = [pc EXCEPT ![j] = place]
          /\ UNCHANGED <<kind, status, result>>
      BY <2>3 DEF Open, List, Attach, Choose, Pack, Publish, Goto
    <3> QED BY <3>1
  <2>4. CASE Register(j)
    <3>1. /\ result' = [result EXCEPT ![j] = {j}] \/ result' = [result EXCEPT ![j] = {}]
          /\ kind' = kind \/ kind' = [kind EXCEPT ![j] = "plain"]
          /\ status' = status \/ status' = [status EXCEPT ![j] = "failed"]
          /\ pc' = [pc EXCEPT ![j] = "ready"] \/ pc' = [pc EXCEPT ![j] = "idle"]
      BY <2>4 DEF Register, Over
    <3> QED BY <3>1
  <2>5. CASE Finish(j) \/ Fail(j) \/ FailAfterBuild(j)
    <3>1. /\ \E s \in {"completed", "failed"} : status' = [status EXCEPT ![j] = s]
          /\ pc' = [pc EXCEPT ![j] = "idle"] /\ kind' = [kind EXCEPT ![j] = "plain"]
          /\ result' = [result EXCEPT ![j] = {}]
      BY <2>5 DEF Finish, Fail, FailAfterBuild, Over
    <3> QED BY <3>1
  <2> QED BY <1>1, <2>1, <2>2, <2>3, <2>4, <2>5 DEF JobStep
<1>2. CASE Crash
  BY <1>2 DEF Crash
<1>3. CASE \/ Edits \/ (\E j \in Jobs : Expire(j) \/ UnlinkPackage(j)) \/ Cleanup
           \/ CleanupStops \/ Promote \/ Clear
           \/ (\E v \in Versions : Rotate(v) \/ RemoveFiles(v)) \/ UNCHANGED vars
  BY <1>3 DEF Edits, Expire, UnlinkPackage, Cleanup, CleanupStops, Promote, Clear, Rotate,
     RemoveFiles, job, vars
<1> QED BY <1>1, <1>2, <1>3 DEF Next

LEMMA BuildTypesStep ==
  TableTypes /\ ExportTypes /\ [Next]_vars => BuildTypes'
<1> SUFFICES ASSUME TableTypes, ExportTypes, [Next]_vars PROVE BuildTypes'
  OBVIOUS
<1> USE DEF ExportTypes, BuildTypes
\* What is shown of a version are messages of the archive, and their files are known.
<1>1. \A v : /\ Shown(v) \in SUBSET Messages
             /\ {m \in Shown(v) : PartsOf[m] # {}} \in SUBSET Messages
             /\ UNION {FilesOf(m) : m \in Shown(v)} \in SUBSET Files
  <2> SUFFICES ASSUME NEW v PROVE /\ Shown(v) \subseteq Messages
                                  /\ UNION {FilesOf(m) : m \in Shown(v)} \subseteq Files
    OBVIOUS
  <2>1. Shown(v) \subseteq Messages
    BY DEF Shown, TableTypes
  <2>2. \A m \in Shown(v) : FilesOf(m) \subseteq Files
    BY <2>1, FilesLie
  <2> QED BY <2>1, <2>2
<1>2. ASSUME NEW j \in Jobs, Open(j) \/ List(j) \/ Attach(j) \/ Choose(j) PROVE BuildTypes'
  <2>1. /\ from' = from \/ from' = [from EXCEPT ![j] = active]
        /\ listed' = listed \/ listed' = [listed EXCEPT ![j] = Shown(from[j])]
        /\ \/ attached' = attached
           \/ attached' = [attached EXCEPT ![j] = {m \in Shown(from[j]) : PartsOf[m] # {}}]
        /\ \/ packed' = packed
           \/ packed' = [packed EXCEPT ![j] = UNION {FilesOf(m) : m \in Shown(from[j])}]
    BY <1>2 DEF Open, List, Attach, Choose
  <2>2. active \in {0} \cup Versions
    BY DEF StoreTypes, Numbered
  <2> QED BY <1>1, <2>1, <2>2
<1>3. ASSUME NEW js, Discard(js) PROVE BuildTypes'
  BY <1>3 DEF Discard
<1>4. CASE Crash \/ Cleanup \/ \E j \in Jobs : Fail(j) \/ FailAfterBuild(j)
  BY <1>3, <1>4 DEF Crash, Cleanup, Fail, FailAfterBuild
<1>5. CASE \/ Edits \/ CleanupStops \/ Promote \/ Clear
           \/ (\E v \in Versions : Rotate(v) \/ RemoveFiles(v)) \/ UNCHANGED vars
           \/ \E j \in Jobs : \/ \E k \in {"plain", "local"} : Start(j, k)
                              \/ Create(j) \/ Pack(j) \/ Publish(j) \/ Register(j) \/ Finish(j)
                              \/ Expire(j) \/ UnlinkPackage(j)
  <2>1. UNCHANGED build
    BY <1>5 DEF Edits, CleanupStops, Promote, Clear, Rotate, RemoveFiles, vars, Start, Create,
       Pack, Publish, Register, Finish, Expire, UnlinkPackage
  <2> QED BY <2>1 DEF build
<1> QED BY <1>2, <1>4, <1>5 DEF Next, JobStep

LEMMA StoreTypesStep ==
  ASSUME IsFiniteSet(Jobs), StoreTypes, [Next]_vars
  PROVE  StoreTypes'
<1> USE DEF StoreTypes
<1>1. Cardinality(Jobs) \in Nat /\ MaxCrashes \in Nat /\ MaxVersions \in Nat
  BY FS_CardinalityType, ExportBounds, MessagesFit
<1>0. Numbered'
  BY NumberedStep
<1>2. ASSUME NEW j \in Jobs, JobStep(j) PROVE StoreTypes'
  <2>1. UNCHANGED <<plus, crashes, due, doomed>>
    BY <1>2 DEF JobStep, Start, Create, Open, List, Attach, Choose, Pack, Publish, Register,
       Finish, Fail, FailAfterBuild, store, world
  <2>2. /\ temp' \subseteq temp \cup {j} /\ packages' \subseteq packages \cup {j}
        /\ young' \subseteq young \cup {j} /\ abandoned' \subseteq abandoned \cup {j}
    BY <1>2 DEF JobStep, Start, Create, Open, List, Attach, Choose, Pack, Publish, Register,
       Finish, Fail, FailAfterBuild, store, world
  <2>3. \/ shelf' = shelf
        \/ \E n \in 1..Cardinality(Jobs) : shelf' = [shelf EXCEPT ![j] = n]
    BY <1>2 DEF JobStep, Start, Create, Open, List, Attach, Choose, Pack, Publish, Register,
       Finish, Fail, FailAfterBuild, store
  <2>4. shelf' \in [Jobs -> 0..Cardinality(Jobs)]
    BY <1>1, <2>3
  <2> QED BY <1>0, <2>1, <2>2, <2>4
<1>3. ASSUME NEW j \in Jobs, Expire(j) \/ UnlinkPackage(j) PROVE StoreTypes'
  BY <1>0, <1>3 DEF Expire, UnlinkPackage, world
<1>4. CASE Cleanup
  BY <1>0, <1>1, <1>4 DEF Cleanup
<1>5. CASE Promote \/ CleanupStops \/ Clear
  BY <1>0, <1>5 DEF Promote, CleanupStops, Clear, store
<1>6. CASE Crash
  <2>1. crashes + 1 \in 0..MaxCrashes
    BY <1>1, <1>6 DEF Crash
  <2> QED BY <1>0, <1>6, <2>1 DEF Crash
<1>7. CASE Edits \/ (\E v \in Versions : Rotate(v) \/ RemoveFiles(v)) \/ UNCHANGED vars
  BY <1>0, <1>7 DEF Edits, Rotate, RemoveFiles, store, world, vars
<1> QED BY <1>2, <1>3, <1>4, <1>5, <1>6, <1>7 DEF Next

\* Every variable keeps its type in every window; what is counted of a version never
\* exceeds the messages by more than one for each request (app/main.py:3674-3684).
THEOREM TypeCorrect ==
  ASSUME IsFiniteSet(Jobs)
  PROVE  Spec => []TypeOK
<1>1. Init => TrashTypes /\ ExportTypes
  <2> SUFFICES ASSUME Init PROVE ExportTypes
    BY TypesAtFirst DEF Init
  <2>1. Cardinality(Jobs) \in Nat /\ MaxCrashes \in Nat /\ Numbered
    BY FS_CardinalityType, ExportBounds, NumberedAtFirst
  <2> QED BY <2>1 DEF Init, ExportInit, ExportTypes, JobTypes, BuildTypes, StoreTypes
<1>2. TrashTypes /\ ExportTypes /\ [Next]_vars => TrashTypes' /\ ExportTypes'
  BY TypesOfTrash, JobTypesStep, BuildTypesStep, StoreTypesStep
     DEF ExportTypes, StoreTypes, TrashTypes
<1>3. TrashTypes /\ ExportTypes => TypeOK
  BY TypesMeet DEF TypeOK, ExportTypes, JobTypes, BuildTypes, StoreTypes, Numbered
<1> QED BY <1>1, <1>2, <1>3, PTL DEF Spec

-----------------------------------------------------------------------------
(* Jobs and packages *)

JobShape ==
  /\ pc = [j \in Jobs |-> pc[j]] /\ status = [j \in Jobs |-> status[j]]
  /\ shelf = [j \in Jobs |-> shelf[j]]
  /\ temp \subseteq Jobs /\ packages \subseteq Jobs /\ due \subseteq Jobs

\* A thread is at work exactly as long as its job goes on.
PlaceInv ==
  /\ JobShape
  /\ \A j \in Jobs : pc[j] = "idle" <=> ~ Ongoing(j)

\* The job of a package that has, or had, a row has nothing more to store; a package
\* that is to get its row is in its place, and its temporary directory is gone.
StoreInv ==
  /\ doomed \subseteq due
  /\ \A j \in Registered \cup due : status[j] # "none" /\ pc[j] \in {"idle", "ready"}
  /\ \A j \in Jobs : pc[j] = "moved" => j \in packages
  /\ \A j \in temp : j \notin Registered /\ pc[j] # "moved"

JobInv == PlaceInv /\ StoreInv

\* The two halves of PackagesAreOwned: what is owned, and why something is not.
Owned ==
  /\ Offered \subseteq packages
  /\ \A j \in packages \ abandoned : j \in Registered \cup doomed \/ pc[j] = "moved"
  /\ \A j \in temp \ abandoned : Building(j) \/ pc[j] = "built"
Blamed ==
  /\ abandoned = {} \/ crashes > 0 \/ "faults" \in Windows
  /\ crashes \in Nat

LEMMA JobInit == Init => JobInv /\ Owned
BY DEF Init, ExportInit, JobInv, PlaceInv, JobShape, StoreInv, Owned,
       Registered, Offered, Ongoing

\* The thread and its job, step by step.
LEMMA PlaceStep == JobInv /\ [Next]_vars => PlaceInv'
<1> SUFFICES ASSUME JobInv, [Next]_vars PROVE PlaceInv'
  OBVIOUS
<1> USE DEF JobInv, PlaceInv, JobShape, Ongoing
<1>1. ASSUME NEW j \in Jobs, NEW k \in {"plain", "local"}, Start(j, k) PROVE PlaceInv'
  BY <1>1 DEF Start, store
<1>2. ASSUME NEW j \in Jobs, Create(j) PROVE PlaceInv'
  <2>1. \/ /\ status' = [status EXCEPT ![j] = "running"]
           /\ \E place \in {"ready", "open"} : pc' = [pc EXCEPT ![j] = place]
        \/ status' = [status EXCEPT ![j] = "failed"] /\ pc' = [pc EXCEPT ![j] = "idle"]
    BY <1>2 DEF Create, Over
  <2>2. UNCHANGED <<temp, packages, shelf, due>>
    BY <1>2 DEF Create, store
  <2> QED BY <2>1, <2>2
<1>3. ASSUME NEW j \in Jobs, Open(j) \/ List(j) \/ Attach(j) \/ Choose(j) \/ Pack(j) \/ Publish(j)
      PROVE  PlaceInv'
  <2>1. /\ pc[j] # "idle" /\ UNCHANGED <<status, shelf, due>>
        /\ \E place \in {"list", "attach", "choose", "pack", "built", "moved"} :
              pc' = [pc EXCEPT ![j] = place]
        /\ temp' \subseteq temp \cup {j} /\ packages' \subseteq packages \cup {j}
    BY <1>3 DEF Open, List, Attach, Choose, Pack, Publish, Goto, store
  <2> QED BY <2>1
<1>4. ASSUME NEW j \in Jobs, Register(j) PROVE PlaceInv'
  <2>1. /\ pc[j] = "moved" /\ UNCHANGED <<temp, packages, due>>
        /\ shelf' = shelf \/ \E n \in Int : shelf' = [shelf EXCEPT ![j] = n]
        /\ \/ status' = status /\ pc' = [pc EXCEPT ![j] = "ready"]
           \/ status' = [status EXCEPT ![j] = "failed"] /\ pc' = [pc EXCEPT ![j] = "idle"]
    BY <1>4 DEF Register, Over
  <2> QED BY <2>1
<1>5. ASSUME NEW j \in Jobs, Finish(j) \/ Fail(j) \/ FailAfterBuild(j) PROVE PlaceInv'
  <2>1. /\ \E s \in {"completed", "failed"} : status' = [status EXCEPT ![j] = s]
        /\ pc' = [pc EXCEPT ![j] = "idle"] /\ temp' \subseteq temp
        /\ packages' \subseteq packages \cup {j} /\ UNCHANGED <<shelf, due>>
    BY <1>5 DEF Finish, Fail, FailAfterBuild, Over, store
  <2> QED BY <2>1
<1>6. ASSUME NEW j \in Jobs, Expire(j) \/ UnlinkPackage(j) PROVE PlaceInv'
  <2>1. /\ UNCHANGED <<pc, status, shelf, temp>> /\ packages' \subseteq packages
        /\ due' \subseteq due \cup {j}
    BY <1>6 DEF Expire, UnlinkPackage, job
  <2> QED BY <2>1
<1>7. CASE Cleanup \/ CleanupStops \/ Promote \/ Clear
  BY <1>7 DEF Cleanup, CleanupStops, Promote, Clear, job, store
<1>8. CASE Crash
  BY <1>8 DEF Crash
<1>9. CASE Edits \/ (\E v \in Versions : Rotate(v) \/ RemoveFiles(v)) \/ UNCHANGED vars
  BY <1>9 DEF Edits, Rotate, RemoveFiles, job, store, vars
<1> QED BY <1>1, <1>2, <1>3, <1>4, <1>5, <1>6, <1>7, <1>8, <1>9 DEF Next, JobStep

\* Rows, packages and temporary directories, step by step.
LEMMA StoreStep == JobInv /\ Owned /\ [Next]_vars => StoreInv' /\ Owned'
<1> SUFFICES ASSUME JobInv, Owned, [Next]_vars PROVE StoreInv' /\ Owned'
  OBVIOUS
<1> USE DEF JobInv, PlaceInv, JobShape, Ongoing, StoreInv, Owned, Registered,
            Offered, Building, Making
<1>1. ASSUME NEW j \in Jobs, NEW k \in {"plain", "local"}, Start(j, k)
      PROVE  StoreInv' /\ Owned'
  <2>1. /\ status[j] = "none" /\ status' = [status EXCEPT ![j] = "queued"]
        /\ pc' = [pc EXCEPT ![j] = "queued"]
        /\ UNCHANGED <<temp, packages, shelf, due, doomed, abandoned>>
    BY <1>1 DEF Start, store, world
  <2> QED BY <2>1
<1>2. ASSUME NEW j \in Jobs, Create(j) PROVE StoreInv' /\ Owned'
  <2>1. /\ pc[j] = "queued" /\ UNCHANGED <<temp, packages, shelf, due, doomed, abandoned>>
        /\ \/ /\ status' = [status EXCEPT ![j] = "running"]
              /\ \E place \in {"ready", "open"} : pc' = [pc EXCEPT ![j] = place]
           \/ status' = [status EXCEPT ![j] = "failed"] /\ pc' = [pc EXCEPT ![j] = "idle"]
    BY <1>2 DEF Create, Over, store, world
  <2> QED BY <2>1
<1>3. ASSUME NEW j \in Jobs, Open(j) \/ List(j) \/ Attach(j) \/ Choose(j) \/ Pack(j)
      PROVE  StoreInv' /\ Owned'
  <2>1. /\ pc[j] \in Making /\ UNCHANGED <<status, packages, shelf, due, doomed, abandoned>>
        /\ \E place \in {"list", "attach", "choose", "pack", "built"} :
              pc' = [pc EXCEPT ![j] = place]
        /\ temp' = temp \/ temp' = temp \cup {j}
    BY <1>3 DEF Open, List, Attach, Choose, Pack, Goto, store, world
  <2> QED BY <2>1
<1>4. ASSUME NEW j \in Jobs, Publish(j) PROVE StoreInv' /\ Owned'
  <2>1. /\ pc[j] = "built" /\ pc' = [pc EXCEPT ![j] = "moved"]
        /\ packages' = packages \cup {j} /\ temp' = temp \ {j}
        /\ UNCHANGED <<status, shelf, due, doomed, abandoned>>
    BY <1>4 DEF Publish, Goto, world
  <2> QED BY <2>1
<1>5. ASSUME NEW j \in Jobs, Register(j) PROVE StoreInv' /\ Owned'
  <2>1. /\ pc[j] = "moved" /\ UNCHANGED <<temp, packages, due, doomed>>
        /\ \/ /\ \E n \in Int \ {0} : shelf' = [shelf EXCEPT ![j] = n]
              /\ status' = status /\ pc' = [pc EXCEPT ![j] = "ready"] /\ abandoned' = abandoned
           \/ /\ shelf' = shelf /\ abandoned' = abandoned \cup {j}
              /\ status' = [status EXCEPT ![j] = "failed"] /\ pc' = [pc EXCEPT ![j] = "idle"]
    BY <1>5 DEF Register, Over
  <2>2. status[j] # "none" /\ j \in packages /\ j \notin due /\ j \notin Registered
    BY <2>1
  <2>3. CASE \E n \in Int \ {0} : shelf' = [shelf EXCEPT ![j] = n]
    <3>1. Registered' = Registered \cup {j} /\ UNCHANGED <<temp, packages, due, doomed>>
      BY <2>1, <2>3
    <3>2. \A i \in Jobs \ {j} : pc'[i] = pc[i] /\ status'[i] = status[i]
      BY <2>1
    <3>3. pc'[j] \in {"idle", "ready"} /\ status'[j] # "none" /\ abandoned \subseteq abandoned'
      BY <2>1, <2>2
    <3> HIDE DEF Registered
    <3>4. StoreInv'
      BY <2>1, <2>2, <3>1, <3>2, <3>3
    <3>5. Owned'
      BY <2>1, <2>2, <3>1, <3>2, <3>3
    <3> QED BY <3>4, <3>5
  <2>4. CASE shelf' = shelf /\ abandoned' = abandoned \cup {j}
    BY <2>1, <2>2, <2>4
  <2> QED BY <2>1, <2>3, <2>4
<1>6. ASSUME NEW j \in Jobs, Finish(j) PROVE StoreInv' /\ Owned'
  <2>1. /\ pc[j] = "ready" /\ pc' = [pc EXCEPT ![j] = "idle"]
        /\ \E s \in {"completed", "failed"} : status' = [status EXCEPT ![j] = s]
        /\ UNCHANGED <<temp, packages, shelf, due, doomed, abandoned>>
    BY <1>6 DEF Finish, Over, store, world
  <2> QED BY <2>1
<1>7. ASSUME NEW j \in Jobs, Fail(j) PROVE StoreInv' /\ Owned'
  <2>1. /\ pc[j] \in Making \cup {"queued", "built"} /\ pc' = [pc EXCEPT ![j] = "idle"]
        /\ status' = [status EXCEPT ![j] = "failed"] /\ temp' = temp \ {j}
        /\ UNCHANGED <<packages, shelf, due, doomed, abandoned>>
    BY <1>7 DEF Fail, Over, world
  <2> QED BY <2>1
<1>12. ASSUME NEW j \in Jobs, FailAfterBuild(j) PROVE StoreInv' /\ Owned'
  <2>1. /\ pc[j] = "built" /\ pc' = [pc EXCEPT ![j] = "idle"]
        /\ status' = [status EXCEPT ![j] = "failed"] /\ abandoned' = abandoned \cup {j}
        /\ packages' = packages \/ packages' = packages \cup {j}
        /\ UNCHANGED <<temp, shelf, due, doomed>>
    BY <1>12 DEF FailAfterBuild, Over
  <2> QED BY <2>1
<1>8. ASSUME NEW j \in Jobs, Expire(j) \/ UnlinkPackage(j) PROVE StoreInv' /\ Owned'
  <2>1. UNCHANGED <<pc, status, shelf, temp, abandoned>>
    BY <1>8 DEF Expire, UnlinkPackage, job, world
  <2>2. \/ j \in Offered /\ due' = due \cup {j} /\ UNCHANGED <<packages, doomed>>
        \/ /\ j \in doomed /\ doomed' = doomed \ {j} /\ packages' = packages \ {j}
           /\ UNCHANGED due
    BY <1>8 DEF Expire, UnlinkPackage
  <2> QED BY <2>1, <2>2
<1>9. CASE Cleanup
  <2>1. /\ UNCHANGED <<pc, status, temp, packages, due, abandoned>>
        /\ doomed = {} /\ doomed' = due \cap Registered
        /\ shelf' = [r \in Jobs |-> IF r \in due THEN 0 ELSE shelf[r]]
    BY <1>9 DEF Cleanup, job
  <2> QED BY <2>1
<1>13. CASE CleanupStops
  <2>1. /\ UNCHANGED <<pc, status, temp, packages, shelf, due>> /\ doomed' = {}
        /\ abandoned' = abandoned \cup doomed
    BY <1>13 DEF CleanupStops, job
  <2> QED BY <2>1
<1>10. CASE Crash
  <2>1. /\ UNCHANGED <<temp, packages, shelf, due>> /\ doomed' = {}
        /\ pc' = [j \in Jobs |-> "idle"]
        /\ status' = [j \in Jobs |-> IF Ongoing(j) THEN "lost" ELSE status[j]]
        /\ abandoned' = abandoned \cup temp \cup doomed \cup (packages \ Registered)
    BY <1>10 DEF Crash
  <2> QED BY <2>1
<1>11. CASE Promote \/ Clear \/ Edits \/ (\E v \in Versions : Rotate(v) \/ RemoveFiles(v)) \/ UNCHANGED vars
  <2>1. UNCHANGED <<pc, status, temp, packages, shelf, due, doomed, abandoned>>
    BY <1>11 DEF Promote, Clear, Edits, Rotate, RemoveFiles, job, store, world, vars
  <2> QED BY <2>1
<1> QED BY <1>1, <1>2, <1>3, <1>4, <1>5, <1>6, <1>7, <1>8, <1>9, <1>10, <1>11, <1>12,
           <1>13 DEF Next, JobStep

LEMMA BlamedStep == Blamed /\ [Next]_vars => Blamed'
<1> SUFFICES ASSUME Blamed, [Next]_vars PROVE Blamed'
  OBVIOUS
<1> USE DEF Blamed
<1>1. CASE Crash
  BY <1>1 DEF Crash
<1>2. CASE CleanupStops \/ \E j \in Jobs : FailAfterBuild(j)
  BY <1>2 DEF CleanupStops, FailAfterBuild
<1>3. ASSUME NEW j \in Jobs, Register(j) PROVE Blamed'
  BY <1>3 DEF Register
<1>4. CASE \/ \E j \in Jobs : \/ \E k \in {"plain", "local"} : Start(j, k)
                              \/ Create(j) \/ Open(j) \/ List(j) \/ Attach(j) \/ Choose(j)
                              \/ Pack(j) \/ Publish(j) \/ Finish(j) \/ Fail(j)
                              \/ Expire(j) \/ UnlinkPackage(j)
           \/ Edits \/ Cleanup \/ Promote \/ Clear
           \/ (\E v \in Versions : Rotate(v) \/ RemoveFiles(v)) \/ UNCHANGED vars
  <2>1. UNCHANGED <<abandoned, crashes>>
    BY <1>4 DEF Start, Create, Open, List, Attach, Choose, Pack, Publish, Finish, Fail, Expire,
       UnlinkPackage, Edits, Cleanup, Promote, Clear, Rotate, RemoveFiles, world, vars
  <2> QED BY <2>1
<1> QED BY <1>1, <1>2, <1>3, <1>4 DEF Next, JobStep

\* A package that can be had is there, and what lies in the directory of exports has a
\* row, a thread or the clean-up that knows it (app/main.py:2641-2667, app/scheduler.py:58-88):
\* in every window, but for what a crash, or a refused commit or an error on a file at one
\* of three places, has left to nobody; without a crash and without these, nothing is.
THEOREM NoPackageIsStray == Spec => []PackagesAreOwned
<1>1. Init => JobInv /\ Owned /\ Blamed
  BY JobInit, ExportBounds DEF Init, ExportInit, Blamed
<1>2. JobInv /\ Owned /\ Blamed /\ [Next]_vars => JobInv' /\ Owned' /\ Blamed'
  BY PlaceStep, StoreStep, BlamedStep DEF JobInv
<1>3. Owned /\ Blamed => PackagesAreOwned
  BY DEF Owned, Blamed, PackagesAreOwned
<1> QED BY <1>1, <1>2, <1>3, PTL DEF Spec

-----------------------------------------------------------------------------
(* A package that is used again *)

BuildShape ==
  /\ from = [j \in Jobs |-> from[j]] /\ result = [j \in Jobs |-> result[j]]
  /\ young \subseteq Jobs

\* What is being built is of the current version; so is what is stamped after the last
\* backup, unless the version of that backup is gone: then it is current no more.
Current ==
  /\ BuildShape /\ Numbered
  /\ active # newest => newest \in gone
  /\ \A j \in Jobs : pc[j] \in {"list", "attach", "choose", "pack", "built"} => from[j] = active
  /\ active = newest =>
       \A r \in young : r \in Registered \/ pc[r] = "moved" => from[r] = active

\* No step brings a version back.
LEMMA GoneGrows == [Next]_vars => gone \subseteq gone'
<1> SUFFICES ASSUME [Next]_vars PROVE gone \subseteq gone'
  OBVIOUS
<1>1. CASE Cleanup \/ Clear \/ \E v \in Versions : Rotate(v)
  BY <1>1 DEF Cleanup, Clear, Rotate, DropVersions
<1>2. CASE Edits
  BY <1>2 DEF Edits, Begin, RefreshBegin, TrashGoesOn, Move, FindPaths, DeleteRow, Unlink,
     Measure, Record, RefreshWrite, RefreshCommit, RefreshCount, RefreshEnd
<1>3. CASE ~ (Cleanup \/ Clear \/ Edits \/ \E v \in Versions : Rotate(v))
  BY <1>3 DEF Next, JobStep, Start, Create, Open, List, Attach, Choose, Pack, Publish,
     Register, Finish, Fail, FailAfterBuild, Expire, UnlinkPackage, CleanupStops, Promote,
     Crash, RemoveFiles, trash, vars
<1> QED BY <1>1, <1>2, <1>3

LEMMA CurrentStep ==
  ASSUME "promotion" \notin Windows, JobInv, Current, [Next]_vars
  PROVE  Current'
<1>a. Numbered' /\ gone \subseteq gone'
  BY NumberedStep, GoneGrows DEF Current
<1> USE DEF JobInv, PlaceInv, JobShape, StoreInv, Current, BuildShape, Registered, Building, Making
<1>1. ASSUME NEW j \in Jobs, (\E k \in {"plain", "local"} : Start(j, k)) \/ Create(j) \/ Finish(j)
      PROVE  Current'
  <2>1. /\ UNCHANGED <<from, young, shelf, active, newest>>
        /\ \E place \in {"queued", "open", "ready", "idle"} : pc' = [pc EXCEPT ![j] = place]
        /\ result' = [i \in Jobs |-> result'[i]]
    BY <1>1 DEF Start, Create, Finish, Over, build, store, world
  <2> QED BY <1>a, <2>1
<1>2. ASSUME NEW j \in Jobs, Open(j) PROVE Current'
  <2>1. /\ pc[j] = "open" /\ UNCHANGED <<result, young, shelf, active, newest>>
        /\ pc' = [pc EXCEPT ![j] = "list"] /\ from' = [from EXCEPT ![j] = active]
    BY <1>2 DEF Open, Goto, world
  <2> QED BY <1>a, <2>1
<1>3. ASSUME NEW j \in Jobs, List(j) \/ Attach(j) \/ Choose(j) \/ Pack(j) \/ Publish(j)
      PROVE  Current'
  <2>1. /\ pc[j] \in {"list", "attach", "choose", "pack", "built"}
        /\ UNCHANGED <<result, from, shelf, active, newest>>
        /\ young' = young \/ young' = young \cup {j}
        /\ \E place \in {"attach", "choose", "pack", "built", "moved"} :
              pc' = [pc EXCEPT ![j] = place]
    BY <1>3 DEF List, Attach, Choose, Pack, Publish, Goto, store, world, build
  <2>2. from[j] = active
    BY <2>1
  <2> QED BY <1>a, <2>1, <2>2
<1>4. ASSUME NEW j \in Jobs, Register(j) PROVE Current'
  <2>1. /\ pc[j] = "moved" /\ UNCHANGED <<from, young, active, newest>>
        /\ shelf' = shelf \/ \E n \in Int : shelf' = [shelf EXCEPT ![j] = n]
        /\ result' = [i \in Jobs |-> result'[i]]
        /\ \E place \in {"ready", "idle"} : pc' = [pc EXCEPT ![j] = place]
    BY <1>4 DEF Register, Over, build
  <2> QED BY <1>a, <2>1
<1>5. ASSUME NEW j \in Jobs, Fail(j) \/ FailAfterBuild(j) PROVE Current'
  <2>1. /\ pc[j] \in Making \cup {"queued", "built"} /\ pc' = [pc EXCEPT ![j] = "idle"]
        /\ from' = [i \in Jobs |-> IF i \in {j} THEN 0 ELSE from[i]]
        /\ result' = [result EXCEPT ![j] = {}] /\ UNCHANGED <<young, shelf, active, newest>>
    BY <1>5 DEF Fail, FailAfterBuild, Over, Discard, world
  <2> QED BY <1>a, <2>1
\* The versions that are left to take the place of the newest one are all older.
<1>6. CASE Cleanup
  <2>1. /\ UNCHANGED <<pc, result, young, newest>>
        /\ from' = [i \in Jobs |-> IF i \in due \cap Registered THEN 0 ELSE from[i]]
        /\ shelf' = [r \in Jobs |-> IF r \in due THEN 0 ELSE shelf[r]]
    BY <1>6 DEF Cleanup, Discard, job
  <2>2. PICK S : /\ S = {} \/ Undisturbed
                 /\ gone' = gone \cup S
                 /\ IF active \in S THEN \E a \in 0..newest : Replaces(a, S) /\ active' = a
                                   ELSE active' = active
    BY <1>6 DEF Cleanup, DropVersions
  <2>3. CASE active \notin S
    BY <1>a, <2>1, <2>2, <2>3
  <2>4. CASE active \in S
    <3>1. newest \in gone' /\ newest \in 1..newest
      BY <2>2, <2>4, MessagesFit DEF Numbered, Versions
    <3>2. active' # newest
      BY <2>2, <2>4, <3>1 DEF Replaces
    <3>3. \A j \in Jobs : pc[j] \notin Making \cup {"built"}
      BY <2>2, <2>4 DEF Undisturbed
    <3> QED BY <1>a, <2>1, <3>1, <3>2, <3>3
  <2> QED BY <2>3, <2>4
<1>7. CASE Crash
  <2>1. /\ UNCHANGED <<young, shelf, active, newest>> /\ result' = [j \in Jobs |-> {}]
        /\ pc' = [j \in Jobs |-> "idle"]
        /\ from' = [i \in Jobs |-> IF i \in temp THEN 0 ELSE from[i]]
    BY <1>7 DEF Crash, Discard
  <2> QED BY <1>a, <2>1
<1>8. CASE Promote
  <2>1. UNCHANGED <<pc, result, from, shelf>> /\ young' = {} /\ active' = newest'
    BY <1>8 DEF Promote, job, build
  <2>2. \A j \in Jobs : pc[j] \notin Making \cup {"built"}
    BY <1>8 DEF Promote, Undisturbed
  <2> QED BY <1>a, <2>1, <2>2
<1>9. CASE \/ \E j \in Jobs : Expire(j) \/ UnlinkPackage(j)
           \/ CleanupStops \/ Edits \/ (\E v \in Versions : Rotate(v) \/ RemoveFiles(v)) \/ UNCHANGED vars
  <2>1. UNCHANGED <<pc, result, from, young, shelf, active, newest>>
    BY <1>9 DEF Expire, UnlinkPackage, CleanupStops, Edits, Rotate, RemoveFiles, job, build, store, world, vars
  <2> QED BY <1>a, <2>1
<1>10. CASE Clear
  <2>1. UNCHANGED <<pc, result, from, young, shelf, newest>> /\ active' = 0
    BY <1>10 DEF Clear, job, build, store
  <2>2. newest \in gone' /\ newest # 0
    BY <1>10, MessagesFit DEF Clear, DropVersions, Numbered, Versions
  <2>3. \A j \in Jobs : pc[j] \notin Making \cup {"built"}
    BY <1>10 DEF Clear, Undisturbed
  <2> QED BY <1>a, <2>1, <2>2, <2>3
<1> QED BY <1>10, <1>1, <1>2, <1>3, <1>4, <1>5, <1>6, <1>7, <1>8, <1>9 DEF Next, JobStep

\* A job that is answered with a package of an earlier one is answered with the current
\* version, as long as that is the one the last backup made (app/main.py:2611-2629), no
\* backup completes while a package is built, and local time is not ahead of UTC.
THEOREM ReusedPackagesAreCurrent ==
  ASSUME "promotion" \notin Windows, "clock" \notin Windows
  PROVE  Spec => ReuseIsCurrent
<1> DEFINE Reuse == \A j \in Jobs : result[j] = {} /\ active = newest =>
                      \A r \in result'[j] \ {j} : from[r] = active
<1>1. Init => JobInv /\ Owned /\ Current
  BY JobInit, NumberedAtFirst DEF Init, ExportInit, Current, BuildShape
<1>2. JobInv /\ Owned /\ Current /\ [Next]_vars
        => JobInv' /\ Owned' /\ Current'
  BY PlaceStep, StoreStep, CurrentStep DEF JobInv
<1>3. JobInv /\ Current /\ [Next]_vars => [Reuse]_vars
  <2> SUFFICES ASSUME JobInv, Current, [Next]_vars PROVE Reuse \/ UNCHANGED vars
    OBVIOUS
  <2> USE DEF Current, BuildShape
  <2>1. ASSUME NEW j \in Jobs, Create(j) PROVE Reuse
    <3>1. active = newest => \A r \in Usable : from[r] = active
      BY DEF Usable, Offered
    <3>2. \A i \in Jobs : result'[i] = result[i] \/ result'[i] \subseteq Usable
      BY <2>1 DEF Create, Over
    <3> QED BY <3>1, <3>2
  <2>2. ASSUME NEW j \in Jobs, Register(j) PROVE Reuse
    <3>1. \A i \in Jobs : result'[i] = result[i] \/ result'[i] \subseteq {i}
      BY <2>2 DEF Register, Over
    <3> QED BY <3>1
  <2>3. ASSUME NEW j \in Jobs, Finish(j) \/ Fail(j) \/ FailAfterBuild(j) PROVE Reuse
    <3>1. \A i \in Jobs : result'[i] = result[i] \/ result'[i] = {}
      BY <2>3 DEF Finish, Fail, FailAfterBuild, Over
    <3> QED BY <3>1
  <2>4. CASE Crash
    BY <2>4 DEF Crash
  <2>5. CASE \/ \E j \in Jobs : (\E k \in {"plain", "local"} : Start(j, k)) \/ Open(j) \/ List(j)
                \/ Attach(j) \/ Choose(j) \/ Pack(j) \/ Publish(j) \/ Expire(j) \/ UnlinkPackage(j)
             \/ Cleanup \/ CleanupStops \/ Promote \/ Clear \/ Edits
             \/ \E v \in Versions : Rotate(v) \/ RemoveFiles(v)
    <3>1. UNCHANGED result
      BY <2>5 DEF Start, Open, List, Attach, Choose, Pack, Publish, Goto, Expire,
         UnlinkPackage, Cleanup, CleanupStops, Promote, Clear, Edits, Rotate, RemoveFiles, job
    <3> QED BY <3>1
  <2> QED BY <2>1, <2>2, <2>3, <2>4, <2>5 DEF Next, JobStep
<1> QED BY <1>1, <1>2, <1>3, PTL DEF Spec, ReuseIsCurrent

-----------------------------------------------------------------------------
(* A package that is whole *)

\* Nothing changes messages as long as a job goes on.
Quiet == \A j \in Jobs : Ongoing(j) => ~ Busy

Whole(j) == Importable(j) /\ \A m \in listed[j] : PartsOf[m] # {} => m \in attached[j]

\* What has been collected for a package is all that is shown of its version.
Collected ==
  /\ from = [j \in Jobs |-> from[j]] /\ listed = [j \in Jobs |-> listed[j]]
  /\ attached = [j \in Jobs |-> attached[j]] /\ packed = [j \in Jobs |-> packed[j]]
  /\ \A j \in Jobs :
       /\ pc[j] \in {"attach", "choose", "pack"} => listed[j] = Shown(from[j])
       /\ pc[j] \in {"choose", "pack"} =>
            attached[j] = {m \in Shown(from[j]) : PartsOf[m] # {}}
       /\ pc[j] = "pack" => packed[j] = UNION {FilesOf(m) : m \in Shown(from[j])}
       /\ pc[j] \in {"built", "moved"} \/ j \in Registered => Whole(j)

LEMMA TrashGoesOnIsBusy == TrashGoesOn => Busy
BY DEF TrashGoesOn, Move, FindPaths, DeleteRow, Unlink, Measure, Record, RefreshWrite,
       RefreshCommit, RefreshCount, RefreshEnd, Busy, AtWork, Refreshing

LEMMA QuietStep ==
  ASSUME "edits" \notin Windows, JobInv, Quiet, [Next]_vars
  PROVE  Quiet'
<1> USE DEF JobInv, PlaceInv, JobShape, Quiet, Ongoing
<1>1. ASSUME NEW j \in Jobs, NEW k \in {"plain", "local"}, Start(j, k) PROVE Quiet'
  BY <1>1 DEF Start, trash, Busy, AtWork, Refreshing
<1>2. ASSUME NEW j \in Jobs,
             Create(j) \/ Open(j) \/ List(j) \/ Attach(j) \/ Choose(j) \/ Pack(j)
               \/ Publish(j) \/ Register(j) \/ Finish(j) \/ Fail(j)
               \/ FailAfterBuild(j)
      PROVE  Quiet'
  <2>1. UNCHANGED <<req, refresh>>
    BY <1>2 DEF Create, Open, List, Attach, Choose, Pack, Publish, Register, Finish, Fail,
       FailAfterBuild, trash
  <2>2. pc[j] # "idle"
    BY <1>2 DEF Create, Open, List, Attach, Choose, Pack, Publish, Register, Finish, Fail,
       FailAfterBuild, Building, Making
  <2>3. \A i \in Jobs \ {j} : status'[i] = status[i]
    BY <1>2 DEF Create, Open, List, Attach, Choose, Pack, Publish, Register, Finish, Fail,
       FailAfterBuild, Goto, Over
  <2>4. ~ Busy'
    BY <2>1, <2>2 DEF Busy, AtWork, Refreshing
  <2> QED BY <2>4
<1>3. CASE Edits
  <2>1. \A j \in Jobs : ~ Ongoing(j)
    BY <1>3, TrashGoesOnIsBusy DEF Edits
  <2> QED BY <1>3, <2>1 DEF Edits, job
<1>4. CASE Crash
  BY <1>4 DEF Crash
<1>5. CASE \/ \E j \in Jobs : Expire(j) \/ UnlinkPackage(j)
           \/ Cleanup \/ CleanupStops \/ Promote \/ Clear
           \/ (\E v \in Versions : Rotate(v) \/ RemoveFiles(v)) \/ UNCHANGED vars
  <2>1. UNCHANGED <<status, req, refresh>>
    BY <1>5 DEF Expire, UnlinkPackage, Cleanup, CleanupStops, Promote, Clear, Rotate,
       DropVersions, RemoveFiles, job, trash, vars
  <2> QED BY <2>1 DEF Busy, AtWork, Refreshing
<1> QED BY <1>1, <1>2, <1>3, <1>4, <1>5 DEF Next, JobStep

\* What is said of packages rests on these alone.
LEMMA CollectedFrame ==
  ASSUME Collected, UNCHANGED <<rows, binned, build, pc>>, Registered' \subseteq Registered
  PROVE  Collected'
BY DEF Collected, build, Shown, Whole, Importable

LEMMA CollectedBuild ==
  ASSUME NEW j \in Jobs, Collected, UNCHANGED <<rows, binned, shelf>>,
         j \notin Registered, pc' = [pc EXCEPT ![j] = pc'[j]], JobShape,
         pc'[j] \in Making,
         \A i \in Jobs \ {j} : /\ from'[i] = from[i] /\ listed'[i] = listed[i]
                               /\ attached'[i] = attached[i] /\ packed'[i] = packed[i],
         from' = [i \in Jobs |-> from'[i]], listed' = [i \in Jobs |-> listed'[i]],
         attached' = [i \in Jobs |-> attached'[i]], packed' = [i \in Jobs |-> packed'[i]],
         pc'[j] \in {"attach", "choose", "pack"} => listed'[j] = Shown(from'[j]),
         pc'[j] \in {"choose", "pack"} =>
            attached'[j] = {m \in Shown(from'[j]) : PartsOf[m] # {}},
         pc'[j] = "pack" => packed'[j] = UNION {FilesOf(m) : m \in Shown(from'[j])}
  PROVE  Collected'
<1>1. Registered' = Registered /\ \A i \in Jobs \ {j} : pc'[i] = pc[i]
  BY DEF Registered, JobShape
<1>2. \A v : Shown(v)' = Shown(v)
  BY DEF Shown
<1>3. \A i \in Jobs \ {j} : Whole(i) => Whole(i)'
  BY DEF Whole, Importable
<1>4. ASSUME NEW i \in Jobs \ {j}
      PROVE  /\ (pc[i] \in {"attach", "choose", "pack"} => listed[i] = Shown(from[i]))'
             /\ (pc[i] \in {"choose", "pack"} =>
                   attached[i] = {m \in Shown(from[i]) : PartsOf[m] # {}})'
             /\ (pc[i] = "pack" => packed[i] = UNION {FilesOf(m) : m \in Shown(from[i])})'
             /\ (pc[i] \in {"built", "moved"} \/ i \in Registered => Whole(i))'
  <2>1. (pc[i] \in {"built", "moved"} \/ i \in Registered => Whole(i))'
    BY <1>1, <1>3, <1>4 DEF Collected
  <2>2. (pc[i] \in {"attach", "choose", "pack"} => listed[i] = Shown(from[i]))'
    BY <1>1, <1>4 DEF Collected, Shown
  <2>3. (pc[i] \in {"choose", "pack"} =>
           attached[i] = {m \in Shown(from[i]) : PartsOf[m] # {}})'
    BY <1>1, <1>4 DEF Collected, Shown
  <2>4. (pc[i] = "pack" => packed[i] = UNION {FilesOf(m) : m \in Shown(from[i])})'
    BY <1>1, <1>4 DEF Collected, Shown
  <2> QED BY <2>1, <2>2, <2>3, <2>4
<1> QED BY <1>1, <1>2, <1>4 DEF Collected, Making

LEMMA CollectedStep ==
  ASSUME "edits" \notin Windows, "promotion" \notin Windows,
         JobInv, Quiet, Collected, [Next]_vars
  PROVE  Collected'
<1> USE DEF JobInv, PlaceInv, JobShape, StoreInv
<1>1. ASSUME NEW j \in Jobs, (\E k \in {"plain", "local"} : Start(j, k)) \/ Create(j) \/ Finish(j)
      PROVE  Collected'
  <2>1. /\ UNCHANGED <<rows, binned, build, shelf>>
        /\ \E place \in {"queued", "open", "ready", "idle"} : pc' = [pc EXCEPT ![j] = place]
    BY <1>1 DEF Start, Create, Finish, Over, store, trash
  <2> QED BY <2>1 DEF Collected, build, Shown, Whole, Importable, Registered
<1>2. ASSUME NEW j \in Jobs, Open(j) PROVE Collected'
  <2>1. /\ pc[j] = "open" /\ UNCHANGED <<rows, binned, listed, attached, packed, shelf>>
        /\ pc' = [pc EXCEPT ![j] = "list"] /\ from' = [from EXCEPT ![j] = active]
    BY <1>2 DEF Open, Goto, trash
  <2>2. j \notin Registered
    BY <2>1
  <2> QED BY <2>1, <2>2, CollectedBuild DEF Collected, Making
<1>3. ASSUME NEW j \in Jobs, List(j) PROVE Collected'
  <2>1. /\ pc[j] = "list" /\ UNCHANGED <<rows, binned, from, attached, packed, shelf>>
        /\ pc' = [pc EXCEPT ![j] = "attach"] /\ listed' = [listed EXCEPT ![j] = Shown(from[j])]
    BY <1>3 DEF List, Goto, trash, store
  <2>2. j \notin Registered
    BY <2>1
  <2> QED BY <2>1, <2>2, CollectedBuild DEF Collected, Making
<1>4. ASSUME NEW j \in Jobs, Attach(j) PROVE Collected'
  <2>1. /\ pc[j] = "attach" /\ UNCHANGED <<rows, binned, from, listed, packed, shelf>>
        /\ pc' = [pc EXCEPT ![j] = "choose"]
        /\ attached' = [attached EXCEPT ![j] = {m \in Shown(from[j]) : PartsOf[m] # {}}]
    BY <1>4 DEF Attach, Goto, trash, store
  <2>2. j \notin Registered
    BY <2>1
  <2> QED BY <2>1, <2>2, CollectedBuild DEF Collected, Making
<1>5. ASSUME NEW j \in Jobs, Choose(j) PROVE Collected'
  <2>1. /\ pc[j] = "choose" /\ UNCHANGED <<rows, binned, from, listed, attached, shelf>>
        /\ pc' = [pc EXCEPT ![j] = "pack"]
        /\ packed' = [packed EXCEPT ![j] = UNION {FilesOf(m) : m \in Shown(from[j])}]
    BY <1>5 DEF Choose, Goto, trash, store
  <2>2. j \notin Registered
    BY <2>1
  <2> QED BY <2>1, <2>2, CollectedBuild DEF Collected, Making
<1>6. ASSUME NEW j \in Jobs, Pack(j) PROVE Collected'
  <2>1. /\ pc[j] = "pack" /\ UNCHANGED <<rows, binned, build, shelf>>
        /\ pc' = [pc EXCEPT ![j] = "built"]
    BY <1>6 DEF Pack, Goto, trash
  <2>2. Whole(j)
    BY <2>1 DEF Collected, Whole, Importable, FilesOf
  <2> QED BY <2>1, <2>2 DEF Collected, build, Shown, Whole, Importable, Registered
<1>7. ASSUME NEW j \in Jobs, Publish(j) \/ Register(j) PROVE Collected'
  <2>1. /\ pc[j] \in {"built", "moved"} /\ UNCHANGED <<rows, binned, build>>
        /\ \E place \in {"moved", "ready", "idle"} : pc' = [pc EXCEPT ![j] = place]
        /\ \A i \in Jobs \ {j} : shelf'[i] = shelf[i]
    BY <1>7 DEF Publish, Register, Goto, Over, trash
  <2> QED BY <2>1 DEF Collected, build, Shown, Whole, Importable, Registered
<1>8. ASSUME NEW j \in Jobs, Fail(j) \/ FailAfterBuild(j) PROVE Collected'
  <2>1. /\ pc[j] \in Making \cup {"queued", "built"} /\ pc' = [pc EXCEPT ![j] = "idle"]
        /\ UNCHANGED <<rows, binned, shelf>> /\ Discard({j})
    BY <1>8 DEF Fail, FailAfterBuild, Over, trash, Building
  <2>2. j \notin Registered
    BY <2>1 DEF Making
  <2> QED BY <2>1, <2>2 DEF Collected, Discard, Shown, Whole, Importable, Registered
\* A clean-up that deletes versions finds no package being built.
<1>9. CASE Cleanup
  <2>1. /\ UNCHANGED pc /\ Discard(due \cap Registered)
        /\ shelf' = [r \in Jobs |-> IF r \in due THEN 0 ELSE shelf[r]]
    BY <1>9 DEF Cleanup, job
  <2>2. Registered' = Registered \ due
    BY <2>1 DEF Registered
  <2>3. \A j \in Registered : pc[j] \in {"idle", "ready"}
    OBVIOUS
  <2>4. ASSUME NEW v, NEW j \in Jobs, pc[j] \in Making PROVE Shown(v)' = Shown(v)
    <3>1. \E S : DropVersions(S) /\ (S = {} \/ Undisturbed)
      BY <1>9 DEF Cleanup
    <3>2. DropVersions({})
      BY <2>4, <3>1 DEF Undisturbed, Building
    <3> QED BY <3>2 DEF DropVersions, Shown
  <2>5. \A j \in Jobs : Whole(j) /\ j \notin due \cap Registered => Whole(j)'
    BY <2>1 DEF Discard, Whole, Importable
  <2>6. ASSUME NEW j \in Jobs, pc[j] \in Making
        PROVE  /\ UNCHANGED <<from[j], listed[j], attached[j], packed[j]>>
               /\ Shown(from[j])' = Shown(from[j])
    <3>1. UNCHANGED <<from[j], listed[j], attached[j], packed[j]>>
      BY <2>1, <2>3, <2>6 DEF Discard, Making, Collected
    <3>2. PICK v : v = from[j]
      OBVIOUS
    <3>3. Shown(v)' = Shown(v)
      BY <2>4, <2>6
    <3> QED BY <3>1, <3>2, <3>3 DEF Shown
  <2> QED BY <2>1, <2>2, <2>3, <2>5, <2>6 DEF Collected, Discard, Making
<1>10. CASE Crash
  <2>1. /\ UNCHANGED <<rows, binned, shelf>> /\ Discard(temp)
        /\ pc' = [j \in Jobs |-> "idle"]
    BY <1>10 DEF Crash
  <2>2. \A j \in Registered : j \notin temp
    OBVIOUS
  <2> QED BY <2>1, <2>2 DEF Collected, Discard, Shown, Whole, Importable, Registered
<1>11. ASSUME UNCHANGED <<build, pc, shelf>>, \A j \in Jobs : ~ Building(j)
       PROVE  Collected'
  BY <1>11 DEF Collected, build, Building, Making, Whole, Importable, Registered
<1>12. CASE Edits
  <2>1. \A j \in Jobs : ~ Ongoing(j)
    BY <1>12, TrashGoesOnIsBusy DEF Edits, Quiet
  <2> QED BY <1>11, <1>12, <2>1 DEF Edits, job, store, Building, Making
<1>13. CASE Clear \/ \E v \in Versions : Rotate(v)
  BY <1>11, <1>13 DEF Clear, Rotate, Undisturbed, job, store
<1>14. CASE \/ \E j \in Jobs : Expire(j) \/ UnlinkPackage(j)
            \/ CleanupStops \/ Promote \/ (\E v \in Versions : RemoveFiles(v)) \/ UNCHANGED vars
  <2>1. UNCHANGED <<rows, binned, build, pc, shelf>>
    BY <1>14 DEF Expire, UnlinkPackage, CleanupStops, Promote, RemoveFiles, job, store, trash, vars
  <2> QED BY <2>1, CollectedFrame DEF Registered
<1> QED BY <1>1, <1>2, <1>3, <1>4, <1>5, <1>6, <1>7, <1>8, <1>9, <1>10, <1>12, <1>13, <1>14
        DEF Next, JobStep

\* A package that is offered can be imported again with all its attachments
\* (app/archive.py:63-206, read back by :221-421): as long as nobody edits the archive and no
\* backup or rotation changes it while the package is built.
THEOREM OfferedPackagesAreWhole ==
  ASSUME "edits" \notin Windows, "promotion" \notin Windows
  PROVE  Spec => []PackageIsWhole
<1>1. Init => JobInv /\ Owned /\ Quiet /\ Collected
  <2> SUFFICES ASSUME Init PROVE Quiet /\ Collected
    BY JobInit
  <2>1. \A j \in Jobs : pc[j] = "idle" /\ shelf[j] = 0 /\ ~ Ongoing(j)
    BY DEF Init, ExportInit, Ongoing
  <2> QED BY <2>1 DEF Init, ExportInit, Quiet, Collected, Registered
<1>2. JobInv /\ Owned /\ Quiet /\ Collected /\ [Next]_vars
        => JobInv' /\ Owned' /\ Quiet' /\ Collected'
  BY PlaceStep, StoreStep, QuietStep, CollectedStep DEF JobInv
<1>3. Collected => PackageIsWhole
  BY DEF Collected, PackageIsWhole, Whole, Registered
<1> QED BY <1>1, <1>2, <1>3, PTL DEF Spec

-----------------------------------------------------------------------------
(* The storage limit *)

LEMMA OfferedCounts ==
  ASSUME IsFiniteSet(Jobs)
  PROVE  /\ \A S \in SUBSET Jobs : Cardinality(S) \in Nat
         /\ \A S, T \in SUBSET Jobs : S \subseteq T => Cardinality(S) =< Cardinality(T)
         /\ \A S \in SUBSET Jobs, j \in Jobs : Cardinality(S \cup {j}) =< Cardinality(S) + 1
<1>1. \A S \in SUBSET Jobs : IsFiniteSet(S) /\ Cardinality(S) \in Nat
  BY FS_Subset, FS_CardinalityType
<1>2. \A S, T \in SUBSET Jobs : S \subseteq T => Cardinality(S) =< Cardinality(T)
  BY <1>1, FS_Subset
<1>3. ASSUME NEW S \in SUBSET Jobs, NEW j \in Jobs
      PROVE  Cardinality(S \cup {j}) =< Cardinality(S) + 1
  <2>1. Cardinality(S \cup {j}) = IF j \in S THEN Cardinality(S) ELSE Cardinality(S) + 1
    BY <1>1, FS_AddElement
  <2> QED BY <1>1, <2>1
<1> QED BY <1>1, <1>2, <1>3

\* One job goes on at a time, and as long as it builds there is room for its package.
Fits ==
  plus \/ /\ \A i, j \in Jobs : Ongoing(i) /\ Ongoing(j) => i = j
          /\ Cardinality(Offered) =< Room
          /\ \A j \in Jobs : pc[j] \in Making \cup {"built", "moved"} => Cardinality(Offered) < Room

LEMMA FitsStep ==
  ASSUME "quota" \notin Windows, IsFiniteSet(Jobs), JobInv, Fits, [Next]_vars
  PROVE  Fits'
<1>1. UNCHANGED plus
  BY DEF Next, JobStep, Start, Create, Open, List, Attach, Choose, Pack, Publish, Register,
     Finish, Fail, FailAfterBuild, Expire, UnlinkPackage, Cleanup, CleanupStops, Promote,
     Clear, Crash, Rotate, RemoveFiles, Edits, world, vars
<1> SUFFICES ASSUME ~ plus PROVE Fits'
  BY <1>1 DEF Fits
<1>2. Room \in Nat /\ Offered \in SUBSET Jobs /\ Offered' \in SUBSET Jobs
  BY ExportBounds DEF Offered, Registered
<1>3. /\ \A i, j \in Jobs : Ongoing(i) /\ Ongoing(j) => i = j
      /\ Cardinality(Offered) =< Room
      /\ \A j \in Jobs : pc[j] \in Making \cup {"built", "moved"} => Cardinality(Offered) < Room
  BY DEF Fits
<1> USE DEF JobInv, PlaceInv, JobShape, Ongoing
\* What is enough for a step that offers no more than there was.
<1>4. ASSUME Offered' \subseteq Offered,
             \A i, j \in Jobs : Ongoing(i)' /\ Ongoing(j)' => i = j,
             \A j \in Jobs : pc'[j] \in Making \cup {"built", "moved"} =>
                                \/ pc[j] \in Making \cup {"built", "moved"}
                                \/ Cardinality(Offered) < Room
      PROVE  Fits'
  <2>1. Cardinality(Offered') \in Nat /\ Cardinality(Offered') =< Cardinality(Offered)
    BY <1>2, <1>4, OfferedCounts
  <2>2. Cardinality(Offered) \in Nat
    BY <1>2, OfferedCounts
  <2>3. \A j \in Jobs : pc'[j] \in Making \cup {"built", "moved"} => Cardinality(Offered') < Room
    BY <1>2, <1>3, <1>4, <2>1, <2>2
  <2> QED BY <1>2, <1>3, <1>4, <2>1, <2>2, <2>3 DEF Fits, Making
<1>5. ASSUME NEW j \in Jobs, NEW k \in {"plain", "local"}, Start(j, k) PROVE Fits'
  <2>1. /\ \A i \in Jobs : ~ Ongoing(i)
        /\ status' = [status EXCEPT ![j] = "queued"] /\ pc' = [pc EXCEPT ![j] = "queued"]
        /\ UNCHANGED <<shelf, due>>
    BY <1>5 DEF Start, store
  <2> QED BY <1>4, <2>1 DEF Offered, Registered, Making
<1>6. ASSUME NEW j \in Jobs, Create(j) PROVE Fits'
  <2>1. /\ UNCHANGED <<shelf, due>> /\ pc[j] = "queued"
        /\ \/ /\ status' = [status EXCEPT ![j] = "running"]
              /\ \E place \in {"ready", "open"} :
                    pc' = [pc EXCEPT ![j] = place] /\ (place = "open" => HasRoom)
           \/ status' = [status EXCEPT ![j] = "failed"] /\ pc' = [pc EXCEPT ![j] = "idle"]
    BY <1>6 DEF Create, Over, store
  <2>2. \A i \in Jobs : Ongoing(i)' => Ongoing(i)
    BY <2>1
  <2>3. \A i \in Jobs : pc'[i] = pc[i] \/ pc'[i] \in {"ready", "idle"}
                                    \/ Cardinality(Offered) < Room
    BY <2>1 DEF HasRoom
  <2> QED BY <1>3, <1>4, <2>1, <2>2, <2>3 DEF Offered, Registered, Making
<1>7. ASSUME NEW j \in Jobs, Open(j) \/ List(j) \/ Attach(j) \/ Choose(j) \/ Pack(j) \/ Publish(j)
      PROVE  Fits'
  <2>1. /\ pc[j] \in Making \cup {"built"} /\ UNCHANGED <<status, shelf, due>>
        /\ \A i \in Jobs \ {j} : pc'[i] = pc[i]
    BY <1>7 DEF Open, List, Attach, Choose, Pack, Publish, Goto, store, Making
  <2> QED BY <1>3, <1>4, <2>1 DEF Offered, Registered
<1>8. ASSUME NEW j \in Jobs, Register(j) PROVE Fits'
  <2>1. /\ pc[j] = "moved" /\ due' = due /\ \A i \in Jobs \ {j} : shelf'[i] = shelf[i]
        /\ \E place \in {"ready", "idle"} : pc' = [pc EXCEPT ![j] = place]
        /\ status' = status \/ status' = [status EXCEPT ![j] = "failed"]
    BY <1>8 DEF Register, Over
  <2>2. Offered' \subseteq Offered \cup {j}
    BY <2>1 DEF Offered, Registered
  <2>3. Cardinality(Offered) < Room /\ \A i \in Jobs : Ongoing(i) => i = j
    BY <1>3, <2>1
  <2>4. Cardinality(Offered') =< Room
    <3>1. Offered \cup {j} \in SUBSET Jobs
      BY <1>2
    <3>2. Cardinality(Offered') =< Cardinality(Offered \cup {j})
      BY <1>2, <2>2, <3>1, OfferedCounts
    <3>3. Cardinality(Offered \cup {j}) =< Cardinality(Offered) + 1
      BY <1>2, OfferedCounts
    <3>4. /\ Cardinality(Offered') \in Nat /\ Cardinality(Offered) \in Nat
          /\ Cardinality(Offered \cup {j}) \in Nat
      BY <1>2, <3>1, OfferedCounts
    <3> QED BY <1>2, <2>3, <3>2, <3>3, <3>4
  <2>5. \A i \in Jobs : pc'[i] \notin Making \cup {"built", "moved"}
    BY <2>1, <2>3 DEF Making
  <2>6. \A i, h \in Jobs : Ongoing(i)' /\ Ongoing(h)' => i = h
    BY <2>1, <2>3
  <2> QED BY <2>4, <2>5, <2>6 DEF Fits, Making
<1>9. ASSUME NEW j \in Jobs, Finish(j) \/ Fail(j) \/ FailAfterBuild(j) PROVE Fits'
  <2>1. /\ UNCHANGED <<shelf, due>> /\ pc' = [pc EXCEPT ![j] = "idle"]
        /\ \E s \in {"completed", "failed"} : status' = [status EXCEPT ![j] = s]
    BY <1>9 DEF Finish, Fail, FailAfterBuild, Over, store
  <2> QED BY <1>3, <1>4, <2>1 DEF Offered, Registered, Making
<1>10. CASE Cleanup \/ \E j \in Jobs : Expire(j) \/ UnlinkPackage(j)
  <2>1. /\ UNCHANGED <<pc, status>> /\ due \subseteq due'
        /\ \A i \in Jobs : shelf'[i] # 0 => shelf[i] # 0
    BY <1>10 DEF Cleanup, Expire, UnlinkPackage, job
  <2> QED BY <1>3, <1>4, <2>1 DEF Offered, Registered
<1>11. CASE Crash
  <2>1. /\ UNCHANGED <<shelf, due>> /\ pc' = [j \in Jobs |-> "idle"]
        /\ \A j \in Jobs : ~ Ongoing(j)'
    BY <1>11 DEF Crash
  <2> QED BY <1>4, <2>1 DEF Offered, Registered, Making
<1>12. CASE \/ CleanupStops \/ Promote \/ Clear \/ Edits \/ (\E v \in Versions : Rotate(v) \/ RemoveFiles(v)) \/ UNCHANGED vars
  <2>1. UNCHANGED <<pc, status, shelf, due>>
    BY <1>12 DEF CleanupStops, Promote, Clear, Edits, Rotate, RemoveFiles, job, store, vars
  <2> QED BY <1>3, <1>4, <2>1 DEF Offered, Registered
<1> QED BY <1>5, <1>6, <1>7, <1>8, <1>9, <1>10, <1>11, <1>12 DEF Next, JobStep

\* A user of the STANDARD plan keeps no more packages than the limit admits
\* (app/main.py:2641-2643): as long as his jobs run one after the other.
THEOREM StorageLimitIsKept ==
  ASSUME "quota" \notin Windows, IsFiniteSet(Jobs)
  PROVE  Spec => []RoomIsKept
<1>1. Init => JobInv /\ Owned /\ Fits
  <2> SUFFICES ASSUME Init PROVE Fits
    BY JobInit
  <2>1. Offered = {} /\ \A j \in Jobs : pc[j] = "idle" /\ ~ Ongoing(j)
    BY DEF Init, ExportInit, Offered, Registered, Ongoing
  <2>2. Cardinality(Offered) = 0 /\ Room \in Nat
    BY <2>1, FS_EmptySet, ExportBounds
  <2> QED BY <2>1, <2>2 DEF Fits, Making
<1>2. JobInv /\ Owned /\ Fits /\ [Next]_vars
        => JobInv' /\ Owned' /\ Fits'
  BY PlaceStep, StoreStep, FitsStep DEF JobInv
<1>3. Fits => RoomIsKept
  BY DEF Fits, RoomIsKept
<1> QED BY <1>1, <1>2, <1>3, PTL DEF Spec
=============================================================================
