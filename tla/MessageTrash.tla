---------------------------- MODULE MessageTrash ----------------------------
(***************************************************************************)
(* What an owner does to single messages of an archive: into the local     *)
(* trash, back, and deletion for good (app/main.py), beside the refresh of *)
(* a PEC mailbox, the one job that adds messages to a version in use       *)
(* (app/pec.py).                                                           *)
(*                                                                         *)
(* Every request is a thread with a database session of its own.  What it  *)
(* reads is a copy: SELECTs run in transactions of their own, and totals   *)
(* are written as numbers computed from the copy.  A flush and the commit  *)
(* after it are one step, since SQLite has one writer.  Files are named    *)
(* by their content and shared by the messages of a version; each counts   *)
(* as 1 in the sizes.                                                      *)
(*                                                                         *)
(* `Windows` are the overlaps explored:                                    *)
(*   "requests"  requests run beside each other                            *)
(*   "refresh"   a refresh runs beside requests                            *)
(***************************************************************************)
EXTENDS Integers, FiniteSets, FiniteSetsExt

CONSTANTS Requests,   \* requests of the owner
          Messages,   \* messages that are archived, or arrive
          Late,       \* those that have not arrived at first
          MaxVersions,\* bound: versions, by their snapshots.id
          VersionOf,  \* messages.snapshot_id
          RawOf,      \* messages.raw_relpath
          PartsOf,    \* attachments.relpath of each message
          Windows,    \* the overlaps explored, see above
          NoMessage   \* what an idle request is about

ASSUME MessagesFit ==
  /\ Late \subseteq Messages /\ MaxVersions \in Nat \ {0}
  /\ VersionOf \in [Messages -> 1..MaxVersions]
  /\ DOMAIN RawOf = Messages /\ DOMAIN PartsOf = Messages /\ NoMessage \notin Messages

Versions    == 1..MaxVersions
FilesOf(m)  == {RawOf[m]} \cup PartsOf[m]
VersionFiles(v) == UNION {FilesOf(m) : m \in {n \in Messages : VersionOf[n] = v}}
Files       == UNION {VersionFiles(v) : v \in Versions}

ASSUME FilesAreOfOneVersion ==
  \A v, w \in Versions : v # w => VersionFiles(v) \cap VersionFiles(w) = {}
\* Messages lie in raw/, attachments in attachments/.
ASSUME NamesApart == \A m, n \in Messages : RawOf[m] \notin PartsOf[n]
\* What is counted is finite.
ASSUME FinitelyMany ==
  /\ IsFiniteSet(Requests) /\ IsFiniteSet(Messages)
  /\ \A m \in Messages : IsFiniteSet(PartsOf[m])

VARIABLES
  rows,       \* messages, by their rows
  binned,     \* messages.is_deleted
  indexed,    \* messages that have an entry in message_fts
  files,      \* files in the directories of versions
  count, size,\* snapshots.message_count and archive_size
  gone,       \* versions whose rows are deleted
  req,        \* requests: where, what, on which message, what they have read
  refresh,    \* the refresh: where, the version, the message, what it has read
  disturbed   \* history: two of these overlapped, or a crash cut one short

trash == <<rows, binned, indexed, files, count, size, gone, req, refresh, disturbed>>

Ops    == {"trash", "restore", "permanent"}
Idle   == [at |-> "idle", op |-> "trash", on |-> NoMessage,
           seen |-> 0, paths |-> {}]
Still  == [at |-> "idle", into |-> 0, on |-> NoMessage, seen |-> 0]
AtWork(q) == req[q].at \notin {"idle", "ended"}
Refreshing == refresh.at \notin {"idle", "ended"}
Busy   == Refreshing \/ \E q \in Requests : AtWork(q)

\* What the walk through a version's directory adds up.
DirectorySize(v) == Cardinality(files \cap VersionFiles(v))

Shown(v) == {m \in rows \ binned : VersionOf[m] = v}

TrashInit ==
  /\ rows = Messages \ Late /\ binned \in SUBSET rows
  /\ indexed = rows \ binned /\ gone = {}
  /\ files = UNION {FilesOf(m) : m \in rows}
  /\ count = [v \in Versions |-> Cardinality(Shown(v))]
  /\ size = [v \in Versions |-> DirectorySize(v)]
  /\ req = [q \in Requests |-> Idle] /\ refresh = Still /\ disturbed = FALSE

\* A request that ends forgets what it has read.
Step(q, place) ==
  req' = [req EXCEPT ![q] = IF place = "ended" THEN [Idle EXCEPT !.at = place]
                            ELSE [@ EXCEPT !.at = place]]

-----------------------------------------------------------------------------
(* Requests *)

\* The message is read, and its version with the count: into the trash goes what
\* is not there, the other two ask for a message that is.
Begin(q, o, m) ==
  /\ req[q].at = "idle" /\ m \in rows /\ (m \in binned) = (o # "trash")
  /\ (\E r \in Requests : AtWork(r)) => "requests" \in Windows
  /\ Refreshing => "refresh" \in Windows
  /\ req' = [req EXCEPT ![q] = [at |-> "begun", op |-> o, on |-> m,
            seen |-> IF o = "permanent" THEN 0 ELSE count[VersionOf[m]], paths |-> {}]]
  /\ disturbed' = (disturbed \/ Busy)
  /\ UNCHANGED <<rows, binned, indexed, files, count, size, gone, refresh>>

\* Mutation: what is added again is not counted.
LoweredOnly(q) == Max({0, req[q].seen - (IF req[q].op = "trash" THEN 1 ELSE 0)})

\* The count a request writes.
Adjusted(q) == Max({0, req[q].seen + (IF req[q].op = "trash" THEN -1 ELSE 1)})

\* Mutation: nobody looks whether the row is still there.
MoveRegardless(q) ==
  /\ req[q].at = "begun" /\ req[q].op # "permanent" /\ Step(q, "ended")
  /\ LET m == req[q].on IN
     /\ IF req[q].op = "trash"
        THEN binned' = binned \cup {m} /\ indexed' = indexed \ {m}
        ELSE binned' = binned \ {m} /\ indexed' = indexed \cup {m}
     /\ count' = [count EXCEPT ![VersionOf[m]] = Adjusted(q)]
  /\ UNCHANGED <<rows, files, size, gone, refresh, disturbed>>

\* Into the trash or back, in one transaction: the flag, the count and the entry
\* for the search.  An update that meets no row fails, and all of it is undone.
Move(q) ==
  /\ req[q].at = "begun" /\ req[q].op # "permanent" /\ Step(q, "ended")
  /\ LET m == req[q].on IN
     IF m \notin rows THEN UNCHANGED <<binned, indexed, count>>
     ELSE /\ IF req[q].op = "trash"
             THEN binned' = binned \cup {m} /\ indexed' = indexed \ {m}
             ELSE binned' = binned \ {m} /\ indexed' = indexed \cup {m}
          /\ count' = [count EXCEPT ![VersionOf[m]] = Adjusted(q)]
  /\ UNCHANGED <<rows, files, size, gone, refresh, disturbed>>

\* Mutation: attachments are not looked for under other messages.
UnsharedRaw(m) ==
  LET others == {n \in rows \ {m} : VersionOf[n] = VersionOf[m]} IN
  ({RawOf[m]} \ {RawOf[n] : n \in others}) \cup PartsOf[m]

\* The files of a message that no other row of the version names.
Unshared(m) ==
  LET others == {n \in rows \ {m} : VersionOf[n] = VersionOf[m]} IN
  ({RawOf[m]} \ {RawOf[n] : n \in others})
    \cup (PartsOf[m] \ UNION {PartsOf[n] : n \in others})

\* Deletion for good first looks for the files to remove.  If one of them is not
\* there, the request is refused.
FindPaths(q) ==
  /\ req[q].at = "begun" /\ req[q].op = "permanent"
  /\ LET found == Unshared(req[q].on) IN
     IF found \subseteq files
     THEN req' = [req EXCEPT ![q].at = "found", ![q].paths = found]
     ELSE Step(q, "ended")
  /\ UNCHANGED <<rows, binned, indexed, files, count, size, gone, refresh, disturbed>>

\* The row goes, wherever the message is by now.  The audit's foreign key wants
\* the version to be there.
DeleteRow(q) ==
  /\ req[q].at = "found"
  /\ LET m == req[q].on IN
     IF VersionOf[m] \in gone
     THEN Step(q, "ended") /\ UNCHANGED <<rows, binned>>
     ELSE Step(q, "deleted") /\ rows' = rows \ {m} /\ binned' = binned \ {m}
  /\ UNCHANGED <<indexed, files, count, size, gone, refresh, disturbed>>

Unlink(q) ==
  /\ req[q].at = "deleted" /\ Step(q, "unlinked")
  /\ files' = files \ req[q].paths
  /\ UNCHANGED <<rows, binned, indexed, count, size, gone, refresh, disturbed>>

\* The directory is measured, and the number stored, if the version is there.
Measure(q) ==
  /\ req[q].at = "unlinked"
  /\ req' = [req EXCEPT ![q].at = "measured",
                           ![q].seen = DirectorySize(VersionOf[req[q].on])]
  /\ UNCHANGED <<rows, binned, indexed, files, count, size, gone, refresh, disturbed>>

Record(q) ==
  /\ req[q].at = "measured" /\ Step(q, "ended")
  /\ LET v == VersionOf[req[q].on] IN
     size' = IF v \in gone THEN size ELSE [size EXCEPT ![v] = req[q].seen]
  /\ UNCHANGED <<rows, binned, indexed, files, count, gone, refresh, disturbed>>

-----------------------------------------------------------------------------
(* A refresh of the version `v` *)

\* The version is read, its size with it, and a message is found on the server that
\* has no row: a new one, or one that was deleted for good here.
RefreshBegin(v, m) ==
  /\ refresh.at = "idle" /\ v \notin gone /\ m \notin rows /\ VersionOf[m] = v
  /\ (\E q \in Requests : AtWork(q)) => "refresh" \in Windows
  /\ refresh' = [at |-> "found", into |-> v, on |-> m, seen |-> size[v]]
  /\ disturbed' = (disturbed \/ Busy)
  /\ UNCHANGED <<rows, binned, indexed, files, count, size, gone, req>>

\* Files that are there already are not written again, but counted.
RefreshWrite ==
  /\ refresh.at = "found"
  /\ files' = files \cup FilesOf(refresh.on)
  /\ refresh' = [refresh EXCEPT !.at = "written",
                    !.seen = @ + Cardinality(FilesOf(refresh.on))]
  /\ UNCHANGED <<rows, binned, indexed, count, size, gone, req, disturbed>>

\* The message's row and its entry for the search are stored, with the new size.
RefreshCommit ==
  /\ refresh.at = "written"
  /\ IF refresh.into \in gone
     THEN refresh' = [Still EXCEPT !.at = "ended"] /\ UNCHANGED <<rows, indexed, size>>
     ELSE /\ refresh' = [refresh EXCEPT !.at = "stored"]
          /\ rows' = rows \cup {refresh.on} /\ indexed' = indexed \cup {refresh.on}
          /\ size' = [size EXCEPT ![refresh.into] = refresh.seen]
  /\ UNCHANGED <<binned, files, count, gone, req, disturbed>>

\* The rows that are not in the trash are counted, and the number stored.
RefreshCount ==
  /\ refresh.at = "stored"
  /\ refresh' = [refresh EXCEPT !.at = "counted", !.seen = Cardinality(Shown(refresh.into))]
  /\ UNCHANGED <<rows, binned, indexed, files, count, size, gone, req, disturbed>>

RefreshEnd ==
  /\ refresh.at = "counted" /\ refresh' = [Still EXCEPT !.at = "ended"]
  /\ count' = IF refresh.into \in gone THEN count
              ELSE [count EXCEPT ![refresh.into] = refresh.seen]
  /\ UNCHANGED <<rows, binned, indexed, files, size, gone, req, disturbed>>

-----------------------------------------------------------------------------
\* All that goes on once a request or a refresh has begun.
TrashGoesOn ==
  \/ \E q \in Requests : Move(q) \/ FindPaths(q) \/ DeleteRow(q) \/ Unlink(q)
                           \/ Measure(q) \/ Record(q)
  \/ RefreshWrite \/ RefreshCommit \/ RefreshCount \/ RefreshEnd

-----------------------------------------------------------------------------
(* Properties *)

TrashTypeOK ==
  /\ rows \in SUBSET Messages /\ binned \in SUBSET rows /\ indexed \in SUBSET Messages
  /\ files \in SUBSET Files /\ gone \in SUBSET Versions /\ disturbed \in BOOLEAN
  /\ count \in [Versions -> 0..(Cardinality(Messages) + Cardinality(Requests))]
  /\ size \in [Versions -> Nat]
  /\ req \in [Requests ->
       [at : {"idle", "begun", "found", "deleted", "unlinked", "measured", "ended"},
        op : Ops, on : Messages \cup {NoMessage}, paths : SUBSET Files,
        seen : Nat]]
  /\ refresh \in
       [at : {"idle", "found", "written", "stored", "counted", "ended"},
        into : {0} \cup Versions, on : Messages \cup {NoMessage}, seen : Nat]

\* Every message of the archive, in the trash or not, can be opened, and a search
\* finds those that are not in the trash: deletion takes no file that another message
\* needs, however requests overlap.
MessagesAreReachable ==
  \A m \in rows : FilesOf(m) \subseteq files /\ (m \in indexed <=> m \notin binned)

\* The count shown is that of the messages there are, and the size charged covers the
\* files, when all is quiet, unless two changes overlapped or were cut short: totals
\* are written from copies, and not computed again.  (The size may be larger: a refresh
\* adds a file that is shared.)
TotalsAreTrue ==
  ~disturbed /\ ~Busy => \A v \in Versions \ gone :
    /\ count[v] = Cardinality(Shown(v))
    /\ size[v] >= DirectorySize(v)
=============================================================================
