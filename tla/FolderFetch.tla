---------------------------- MODULE FolderFetch ----------------------------
(***************************************************************************)
(* How one backup run downloads a mailbox (app/backup.py, run_backup and   *)
(* the classes above it).  Folder after folder, the run lists the UIDs,    *)
(* cuts them into batches and gives these to a few threads, each of which  *)
(* takes an IMAP session from a shared pool.  The results are stored by    *)
(* the thread of the run, in the order they land.  What the server refused *)
(* is asked for a second time at the end of the folder, and what it then   *)
(* still refuses is kept without its body, or noted as skipped.            *)
(*                                                                         *)
(* A message is a pair of its folder and its UID there; UIDs of different  *)
(* folders coincide.  One thread works for one future at a time and there  *)
(* are as many threads as futures in flight, so a slot stands for both.    *)
(***************************************************************************)
EXTENDS Naturals, FiniteSets, Sequences, FiniteSetsExt, SequencesExt

CONSTANTS FolderList,  \* the selectable folders, in the order of the server
          Mailbox,     \* the messages on the server when the run begins
          Tempers,     \* how the server may treat a message, see temper
          Width,       \* BACKUP_CONNECTIONS: sessions, threads, futures in flight
          BatchSize,   \* IMAP_FETCH_BATCH
          SearchCap,   \* the number of UIDs after which the server cuts SEARCH
          MaxDrops,    \* bound on the sessions that break
          MaxVanish,   \* bound on the messages another client removes
          Faults       \* which of the faults below can happen

AllTempers == {"sound", "moody", "headers", "mute"}
AllFaults  == {"unreachable", "storage"}
NoFolder   == "none"

Slots   == 1..Width
Folders == Range(FolderList)
Uids    == {m[2] : m \in Mailbox}

ASSUME FetchAssumption ==
    /\ FolderList \in Seq(Folders)
    /\ IsFiniteSet(Mailbox) /\ Mailbox \subseteq Folders \X Nat
    /\ NoFolder \notin Folders
    /\ IsInjective(FolderList)
    /\ Tempers \subseteq AllTempers
    /\ {Width, BatchSize, SearchCap} \subseteq Nat \ {0}
    /\ {MaxDrops, MaxVanish} \subseteq Nat
    /\ Faults \subseteq AllFaults

VARIABLES
    mail,       \* the messages on the server now
    temper,     \* how the server answers a FETCH of a message: "sound" gives it,
                \* "moody" may refuse it, "headers" refuses its body, "mute" gives nothing
    phase,      \* of the run: next, listing, first, second, over
    at,         \* index of the current folder
    exists,     \* EXISTS of the folder when it was selected (remote_count)
    listed,     \* the UIDs listed in each folder so far (message_count of its row)
    queue,      \* batches not submitted yet
    refused,    \* UIDs of the folder left for the second pass
    step,       \* of each slot: idle, submitted, select, batch, single, salvage, done, failed
    left,       \* UIDs the slot has still to ask for
    got,        \* messages it has received
    bad,        \* UIDs it was refused
    conn,       \* the session it uses, 0 if none
    handling,   \* finished slots the run's thread is going through
    free,       \* the pool's queue of sessions
    link,       \* of each session: none, open, dead
    recalled,   \* the folder the program believes a session has selected
    selected,   \* the folder it has selected
    rows,       \* messages stored: [folder, uid, from, whole]
    processed,  \* how many were stored
    skipped, partial,  \* the messages noted as lost, and as stored without a body
    cancelReq,  \* the owner has asked to stop
    outcome,    \* running, completed, failed, cancelled
    drops       \* sessions broken so far

server  == <<mail, temper>>
loop    == <<phase, at, exists, listed, queue, refused, handling>>
threads == <<step, left, got, bad, conn>>
pool    == <<free, link, recalled, selected>>
archive == <<rows, processed, skipped, partial, outcome>>
vars == <<server, loop, threads, pool, archive, cancelReq, drops>>

Here == FolderList[at]
Running == outcome = "running"
UidsOf(f) == {m[2] : m \in {x \in mail : x[1] = f}}

\* uids[offset:offset + IMAP_FETCH_BATCH] for each offset; the UIDs ascend, so the
\* place of one is the number of smaller ones
Place(u, S) == Cardinality({v \in S : v < u})
Batches(S) == [k \in 1..((Cardinality(S) + BatchSize - 1) \div BatchSize) |->
                 {u \in S : Place(u, S) \div BatchSize = k - 1}]

Init ==
    /\ mail = Mailbox
    /\ temper \in [Mailbox -> Tempers]
    /\ phase = "next" /\ at = 1
    /\ exists = [f \in Folders |-> 0]
    /\ listed = [f \in Folders |-> {}]
    /\ queue = <<>> /\ refused = {} /\ handling = {}
    /\ step = [s \in Slots |-> "idle"]
    /\ left = [s \in Slots |-> {}]
    /\ got = [s \in Slots |-> {}]
    /\ bad = [s \in Slots |-> {}]
    /\ conn = [s \in Slots |-> 0]
    \* the first session is open, the pre-pass has gone through the folders with it
    /\ free = [c \in Slots |-> c]
    /\ link = [c \in Slots |-> IF c = 1 THEN "open" ELSE "none"]
    /\ recalled = [c \in Slots |-> NoFolder]
    /\ selected = [c \in Slots |-> IF c = 1 /\ FolderList # <<>> THEN Last(FolderList)
                                ELSE NoFolder]
    /\ rows = {} /\ processed = 0 /\ skipped = {} /\ partial = {}
    /\ cancelReq = FALSE /\ outcome = "running" /\ drops = 0

(***************************************************************************)
(* The thread of the run.                                                  *)
(***************************************************************************)
\* The handlers of run_backup: the snapshot goes with all its rows, futures
\* that have not started are cancelled, the others are waited for.
Abort(o) ==
    /\ outcome' = o
    /\ handling' = {}
    /\ queue' = <<>>
    /\ refused' = {}
    /\ step' = [s \in Slots |-> IF step[s] = "submitted" THEN "idle" ELSE step[s]]
    /\ rows' = {} /\ processed' = 0 /\ skipped' = {} /\ partial' = {}
    /\ UNCHANGED <<phase, at, exists, listed, left, got, bad, conn>>

\* select_folder on session c, which is opened first if it never was
Select(c, f) ==
    /\ link[c] # "dead"
    /\ link' = [link EXCEPT ![c] = "open"]
    /\ selected' = [selected EXCEPT ![c] = f]
    /\ recalled' = [recalled EXCEPT ![c] = f]

\* The session is broken, or cannot be opened however often it is tried.
SelectFails(c) ==
    \/ link[c] = "dead"
    \/ link[c] = "none" /\ "unreachable" \in Faults

OpenFolder ==
    /\ Running /\ phase = "next" /\ at <= Len(FolderList) /\ ~cancelReq /\ free # <<>>
    /\ Select(Head(free), Here)
    /\ exists' = [exists EXCEPT ![Here] = Cardinality(UidsOf(Here))]
    /\ phase' = "listing"
    /\ UNCHANGED <<server, at, listed, queue, refused, handling, threads, free, archive,
                   cancelReq, drops>>

\* message_uids: SEARCH, and the enumeration by sequence number when it is short
Listing ==
    LET uids == UidsOf(Here)
        found == IF Cardinality(uids) <= SearchCap THEN {uids} ELSE kSubset(SearchCap, uids)
    IN  {IF Cardinality(f) < exists[Here] /\ Cardinality(uids) > Cardinality(f)
         THEN uids ELSE f : f \in found}

ListFolder ==
    /\ Running /\ phase = "listing"
    /\ link[Head(free)] = "open"
    /\ \E uids \in Listing :
          /\ listed' = [listed EXCEPT ![Here] = uids]
          /\ queue' = Batches(uids)
    /\ free' = Append(Tail(free), Head(free))
    /\ phase' = "first"
    /\ UNCHANGED <<server, at, exists, refused, handling, threads, link, recalled, selected,
                   archive, cancelReq, drops>>

FolderFails ==
    /\ Running
    /\ \/ /\ phase = "next" /\ at <= Len(FolderList) /\ ~cancelReq /\ free # <<>>
          /\ SelectFails(Head(free))
       \/ phase = "listing" /\ link[Head(free)] = "dead"
    /\ Abort("failed")
    /\ UNCHANGED <<server, pool, cancelReq, drops>>

\* _check_cancel before a folder, and once more after the last
Stop ==
    /\ Running /\ phase = "next" /\ cancelReq
    /\ Abort("cancelled")
    /\ UNCHANGED <<server, pool, cancelReq, drops>>

Idle == {s \in Slots : step[s] = "idle"}
Pass == Running /\ phase \in {"first", "second"}

Submit ==
    /\ Pass /\ handling = {} /\ queue # <<>> /\ Idle # {}
    /\ LET s == Min(Idle)
       IN  /\ step' = [step EXCEPT ![s] = "submitted"]
           /\ left' = [left EXCEPT ![s] = Head(queue)]
    /\ queue' = Tail(queue)
    /\ UNCHANGED <<server, phase, at, exists, listed, refused, handling, got, bad, conn, pool,
                   archive, cancelReq, drops>>

Ready == {s \in Slots : step[s] \in {"done", "failed"}}

\* the two results of wait() are confused
WakePending ==
    /\ Pass /\ handling = {} /\ Ready # {}
    /\ queue = <<>> \/ Idle = {}
    /\ handling' = Slots \ (Idle \cup Ready)
    /\ UNCHANGED <<server, phase, at, exists, listed, queue, refused, threads, pool, archive,
                   cancelReq, drops>>

\* wait(pending, return_when=FIRST_COMPLETED), once as many are in flight as may be
Wake ==
    /\ Pass /\ handling = {} /\ Ready # {}
    /\ queue = <<>> \/ Idle = {}
    /\ handling' = Ready
    /\ UNCHANGED <<server, phase, at, exists, listed, queue, refused, threads, pool, archive,
                   cancelReq, drops>>

\* store(): a row for every message received
Store(s) ==
    /\ rows' = rows \cup {[folder |-> Here, uid |-> m.uid, from |-> m.from,
                           whole |-> m.whole] : m \in got[s]}
    /\ processed' = processed + Cardinality(got[s])

Clear(s) ==
    /\ step' = [step EXCEPT ![s] = "idle"]
    /\ left' = [left EXCEPT ![s] = {}]
    /\ got' = [got EXCEPT ![s] = {}]
    /\ bad' = [bad EXCEPT ![s] = {}]
    /\ UNCHANGED conn

\* refused is assigned, not extended
FirstPassAssigns(s) ==
    /\ s \in handling /\ phase = "first" /\ step[s] = "done" /\ ~cancelReq
    /\ refused' = bad[s]
    /\ Store(s) /\ Clear(s)
    /\ handling' = handling \ {s}
    /\ UNCHANGED <<server, phase, at, exists, listed, queue, pool, skipped, partial, outcome,
                   cancelReq, drops>>

\* first_pass: what was refused waits for the second pass
FirstPass(s) ==
    /\ s \in handling /\ phase = "first" /\ step[s] = "done" /\ ~cancelReq
    /\ refused' = refused \cup bad[s]
    /\ Store(s) /\ Clear(s)
    /\ handling' = handling \ {s}
    /\ UNCHANGED <<server, phase, at, exists, listed, queue, pool, skipped, partial, outcome,
                   cancelReq, drops>>

\* second_pass: what was refused again is noted
SecondPass(s) ==
    /\ s \in handling /\ phase = "second" /\ step[s] = "done" /\ ~cancelReq
    /\ skipped' = skipped \cup {<<Here, u>> : u \in bad[s]}
    /\ partial' = partial \cup {<<Here, m.uid>> : m \in {x \in got[s] : ~x.whole}}
    /\ Store(s) /\ Clear(s)
    /\ handling' = handling \ {s}
    /\ UNCHANGED <<server, phase, at, exists, listed, queue, refused, pool, outcome,
                   cancelReq, drops>>

\* future.result() raises, the owner has cancelled, or storing went over the limit
HandlingFails(s) ==
    /\ s \in handling
    /\ \/ step[s] = "failed" /\ Abort("failed")
       \/ step[s] = "done" /\ cancelReq /\ Abort("cancelled")
       \/ step[s] = "done" /\ ~cancelReq /\ "storage" \in Faults /\ Abort("failed")
    /\ UNCHANGED <<server, pool, cancelReq, drops>>

PassOver == Pass /\ handling = {} /\ queue = <<>> /\ Idle = Slots

SecondChance ==
    /\ PassOver /\ phase = "first" /\ refused # {}
    /\ phase' = "second"
    /\ queue' = SetToSeq({{u} : u \in refused})
    /\ refused' = {}
    /\ UNCHANGED <<server, at, exists, listed, handling, threads, pool, archive, cancelReq, drops>>

NextFolder ==
    /\ PassOver /\ refused = {}
    /\ phase' = "next" /\ at' = at + 1
    /\ UNCHANGED <<server, exists, listed, queue, refused, handling, threads, pool, archive,
                   cancelReq, drops>>

Complete ==
    /\ Running /\ phase = "next" /\ at > Len(FolderList) /\ ~cancelReq
    /\ outcome' = "completed"
    /\ UNCHANGED <<server, phase, at, exists, listed, queue, refused, handling, threads, pool, rows,
                   processed, skipped, partial, cancelReq, drops>>

\* executor.shutdown(wait=True), pool.close()
Close ==
    /\ ~Running /\ phase # "over"
    /\ \A s \in Slots : step[s] \in {"idle", "done", "failed"}
    /\ phase' = "over"
    /\ link' = [c \in Slots |-> "none"]
    /\ UNCHANGED <<server, at, exists, listed, queue, refused, handling, threads, free, recalled,
                   selected, archive, cancelReq, drops>>

(***************************************************************************)
(* The threads that fetch.                                                 *)
(***************************************************************************)
Acquire(s) ==
    /\ step[s] = "submitted" /\ free # <<>>
    /\ conn' = [conn EXCEPT ![s] = Head(free)]
    /\ free' = Tail(free)
    /\ step' = [step EXCEPT ![s] = "select"]
    /\ UNCHANGED <<server, loop, left, got, bad, link, recalled, selected, archive,
                   cancelReq, drops>>

\* the release is not in a finally clause
EndUnreleased(s, how) ==
    /\ step' = [step EXCEPT ![s] = how]
    /\ free' = IF how = "done" THEN Append(free, conn[s]) ELSE free
    /\ conn' = [conn EXCEPT ![s] = 0]

\* The future has its result: the session goes back to the pool first.
End(s, how) ==
    /\ step' = [step EXCEPT ![s] = how]
    /\ free' = Append(free, conn[s])
    /\ conn' = [conn EXCEPT ![s] = 0]

\* _Connection.fetch: the folder is selected only when it is another one
Prepare(s) ==
    /\ step[s] = "select"
    /\ step' = [step EXCEPT ![s] = "batch"]
    /\ IF recalled[conn[s]] = Here
       THEN UNCHANGED <<link, recalled, selected>>
       ELSE Select(conn[s], Here)
    /\ UNCHANGED <<server, loop, left, got, bad, conn, free, archive, cancelReq, drops>>

PrepareFails(s) ==
    /\ step[s] = "select"
    /\ recalled[conn[s]] # Here /\ SelectFails(conn[s])
    /\ End(s, "failed")
    /\ UNCHANGED <<server, loop, left, got, bad, link, recalled, selected, archive,
                   cancelReq, drops>>

Asking(s) == step[s] \in {"batch", "single"}
\* the UIDs of the next FETCH: a batch at once, or its messages one by one
Ask(s) == IF step[s] = "batch" THEN left[s] ELSE {Min(left[s])}
\* what the server holds of them in the folder the session has selected
OnServer(s) == {m \in mail : m[1] = selected[conn[s]] /\ m[2] \in Ask(s)}
Answer(s) == {[uid |-> m[2], from |-> m[1], whole |-> TRUE] : m \in OnServer(s)}

\* fetch() is through with Ask(s): on to the other messages, the salvage or the end
Proceed(s, received, unreachable) ==
    /\ got' = [got EXCEPT ![s] = @ \cup received]
    /\ bad' = [bad EXCEPT ![s] = @ \cup unreachable]
    /\ left' = [left EXCEPT ![s] = @ \ Ask(s)]
    /\ IF left'[s] # {} THEN step' = step /\ UNCHANGED <<conn, free>>
       ELSE IF phase = "second" /\ bad'[s] # {}
       THEN step' = [step EXCEPT ![s] = "salvage"] /\ UNCHANGED <<conn, free>>
       ELSE End(s, "done")

\* fetch_messages answers; a UID without a message is passed over without a word
FetchGives(s) ==
    /\ Asking(s) /\ link[conn[s]] = "open"
    /\ \A m \in OnServer(s) : temper[m] \in {"sound", "moody"}
    /\ Proceed(s, Answer(s), {})
    /\ UNCHANGED <<server, loop, link, recalled, selected, archive, cancelReq, drops>>

\* the whole of a refused batch counts as unreachable
GiveUpBatch(s) ==
    IF Cardinality(Ask(s)) > 1
    THEN /\ step' = [step EXCEPT ![s] = "single"]
         /\ bad' = [bad EXCEPT ![s] = @ \cup Ask(s)]
         /\ UNCHANGED <<left, got, conn, free>>
    ELSE Proceed(s, {}, Ask(s))

\* what is refused is asked for again without end
GiveUpNever(s) ==
    /\ step' = [step EXCEPT ![s] = IF @ = "batch" THEN "single" ELSE "batch"]
    /\ UNCHANGED <<left, got, bad, conn, free>>

\* The attempts for Ask(s) are used up (one, by default): a batch is asked for
\* one by one, a single message is given up.
GiveUp(s) ==
    IF Cardinality(Ask(s)) > 1
    THEN step' = [step EXCEPT ![s] = "single"] /\ UNCHANGED <<left, got, bad, conn, free>>
    ELSE Proceed(s, {}, Ask(s))

FetchRefused(s) ==
    /\ Asking(s) /\ link[conn[s]] = "open"
    /\ \E m \in OnServer(s) : temper[m] # "sound"
    /\ GiveUp(s)
    /\ UNCHANGED <<server, loop, link, recalled, selected, archive, cancelReq, drops>>

\* The session is dead: it is rebuilt and the folder selected again, which is
\* the only repair, and the attempt is used up all the same.
FetchBreaks(s) ==
    /\ Asking(s) /\ link[conn[s]] = "dead"
    /\ link' = [link EXCEPT ![conn[s]] = "open"]
    /\ selected' = [selected EXCEPT ![conn[s]] = Here]
    /\ GiveUp(s)
    /\ UNCHANGED <<server, loop, recalled, archive, cancelReq, drops>>

ReconnectFails(s) ==
    /\ Asking(s) /\ link[conn[s]] = "dead" /\ "unreachable" \in Faults
    /\ End(s, "failed")
    /\ UNCHANGED <<server, loop, left, got, bad, link, recalled, selected, archive,
                   cancelReq, drops>>

\* fetch_headers_only for the one message of a second-pass batch
Salvage(s) ==
    /\ step[s] = "salvage"
    /\ \E u \in bad[s] :
          LET m == <<selected[conn[s]], u>>
              reached == link[conn[s]] = "open" /\ m \in mail
          IN  \/ /\ reached /\ temper[m] # "mute"
                 /\ got' = [got EXCEPT ![s] = {[uid |-> u, from |-> m[1], whole |-> FALSE]}]
                 /\ bad' = [bad EXCEPT ![s] = {}]
              \/ /\ reached => temper[m] \in {"mute", "moody"}
                 /\ UNCHANGED <<got, bad>>
    /\ End(s, "done")
    /\ UNCHANGED <<server, loop, left, link, recalled, selected, archive, cancelReq, drops>>

(***************************************************************************)
(* The surroundings: the owner, other mail clients and the network.        *)
(***************************************************************************)
Cancel ==
    /\ Running /\ ~cancelReq
    /\ cancelReq' = TRUE
    /\ UNCHANGED <<server, loop, threads, pool, archive, drops>>

Drop(c) ==
    /\ link[c] = "open" /\ drops < MaxDrops
    /\ link' = [link EXCEPT ![c] = "dead"]
    /\ drops' = drops + 1
    /\ UNCHANGED <<server, loop, threads, free, recalled, selected, archive, cancelReq>>

Vanish(m) ==
    /\ phase # "over"
    /\ m \in mail /\ Cardinality(Mailbox \ mail) < MaxVanish
    /\ mail' = mail \ {m}
    /\ UNCHANGED <<temper, loop, threads, pool, archive, cancelReq, drops>>

Over == phase = "over" /\ UNCHANGED vars

Run == \/ OpenFolder \/ ListFolder \/ FolderFails \/ Stop
       \/ Submit \/ Wake
       \/ \E s \in Slots : FirstPass(s) \/ SecondPass(s) \/ HandlingFails(s)
       \/ SecondChance \/ NextFolder \/ Complete \/ Close

Fetch(s) == \/ Acquire(s) \/ Prepare(s) \/ PrepareFails(s)
            \/ FetchGives(s) \/ FetchRefused(s) \/ FetchBreaks(s) \/ ReconnectFails(s)
            \/ Salvage(s)

Next == \/ Run
        \/ \E s \in Slots : Fetch(s)
        \/ Cancel
        \/ \E c \in Slots : Drop(c)
        \/ \E m \in Mailbox : Vanish(m)
        \/ Over

Spec == Init /\ [][Next]_vars

\* The threads of the program run; what the network and the owner do is theirs.
FairSpec == Spec /\ WF_vars(Run) /\ \A s \in Slots : WF_vars(Fetch(s))

(***************************************************************************)
(* Properties                                                              *)
(***************************************************************************)

\* Every variable keeps its type.
Messages == [uid : Uids, from : Folders, whole : BOOLEAN]
TypeOK ==
    /\ mail \subseteq Mailbox /\ temper \in [Mailbox -> Tempers]
    /\ phase \in {"next", "listing", "first", "second", "over"}
    /\ at \in 1..(Len(FolderList) + 1)
    /\ exists \in [Folders -> 0..Cardinality(Mailbox)]
    /\ listed \in [Folders -> SUBSET Uids]
    /\ queue \in Seq(SUBSET Uids)
    /\ refused \subseteq Uids /\ handling \subseteq Ready
    /\ step \in [Slots -> {"idle", "submitted", "select", "batch", "single", "salvage",
                           "done", "failed"}]
    /\ left \in [Slots -> SUBSET Uids] /\ bad \in [Slots -> SUBSET Uids]
    /\ got \in [Slots -> SUBSET Messages]
    /\ conn \in [Slots -> 0..Width]
    /\ free \in Seq(Slots)
    /\ link \in [Slots -> {"none", "open", "dead"}]
    /\ recalled \in [Slots -> Folders \cup {NoFolder}]
    /\ selected \in [Slots -> Folders \cup {NoFolder}]
    /\ rows \subseteq {[folder |-> f, uid |-> m.uid, from |-> m.from, whole |-> m.whole] :
                        f \in Folders, m \in Messages}
    /\ processed \in Nat
    /\ skipped \subseteq Mailbox /\ partial \subseteq Mailbox
    /\ cancelReq \in BOOLEAN
    /\ outcome \in {"running", "completed", "failed", "cancelled"}
    /\ drops \in 0..MaxDrops

Key(r) == <<r.folder, r.uid>>
Stored == {Key(r) : r \in rows}

\* A session is used by one thread or waits in the pool, never both, never
\* twice, never neither: IMAP sessions do not bear two threads (_Connection).
SessionsAreExclusive ==
    \A c \in Slots :
        Cardinality({i \in DOMAIN free : free[i] = c})
          + Cardinality({s \in Slots : conn[s] = c}) = 1

\* A message is stored once, under the folder it came from, and not also noted as
\* lost, however the two passes, the splitting of batches and the order of results
\* fall, although sessions remember what they have selected and are rebuilt.
StoredOnce ==
    /\ processed = Cardinality(Stored)
    /\ Stored \cap skipped = {}
    /\ \A r \in rows : r.from = r.folder

\* A completed run has every message of the mailbox that is still on the server, or
\* says that it is lost, although the server cuts its SEARCH short; and it tells of
\* exactly those it kept without their body.
NothingForgotten ==
    outcome = "completed" =>
        /\ mail \subseteq Stored \cup skipped
        /\ partial = {Key(r) : r \in {x \in rows : ~x.whole}}

\* The run ends, in whatever way, and gives all its sessions back.
RunEnds == <>(phase = "over")

=============================================================================
