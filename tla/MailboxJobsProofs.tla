-------------------------- MODULE MailboxJobsProofs --------------------------
(* What holds of MailboxJobs for any number of messages, versions, jobs,      *)
(* renumberings and any size of a batch.                                      *)
EXTENDS MailboxJobs, FiniteSetTheorems, TLAPS

Entries == [uid : Nat, msg : Messages, full : BOOLEAN]
MessagesOf(rows) == {r.msg : r \in rows}
Distinct(rows) == \A r, s \in rows : r.msg = s.msg => r = s

\* The types these proofs need.
ServerShape ==
  /\ arrived \in Nat /\ box \subseteq Messages
  /\ epoch \in Nat \ {0} /\ uid \in [Messages -> Nat]

ArchiveShape ==
  /\ published \in Nat /\ published <= MaxVersions
  /\ kept \subseteq 1..published /\ active \in kept \cup {0}
  /\ copy \in [Versions -> SUBSET Entries] /\ binned \in [Versions -> SUBSET Entries]
  /\ validity \in [Versions -> Nat]

DraftShape ==
  /\ draft.rows \subseteq Entries /\ Distinct(draft.rows)
  /\ draft.epoch \in Nat /\ (draft.on => published < MaxVersions)

\* With one maintenance job of the account at a time.
JobShape ==
  /\ kind \in [Jobs -> Kinds]
  /\ status \in [Jobs -> {"none", "queued", "running", "completed", "failed"}]
  /\ pc \in [Jobs -> Places] /\ ver \in [Jobs -> {0} \cup Versions]
  /\ todo \in [Jobs -> SUBSET Nat]
  /\ \A j \in Jobs : pc[j] # "none" => status[j] = "running"
  /\ \A i, j \in Ongoing : i = j

\* A request holds a row of a version that is published, as long as that is kept.
Asked(q) == req[q].op # "none"
RequestShape ==
  /\ DOMAIN req = Requests
  /\ \A q \in Requests : Asked(q) =>
       /\ req[q].ver \in 1..published /\ req[q].row \in Entries
       /\ req[q].ver \in kept => req[q].row \in copy[req[q].ver]

\* What is in the trash are rows of the version.
Binned == \A v \in Versions : binned[v] \subseteq copy[v] /\ (v > published => binned[v] = {})

MailInv == ServerShape /\ ArchiveShape /\ DraftShape /\ JobShape /\ RequestShape /\ Binned

LEMMA Sizes ==
  /\ MaxMessages \in Nat \ {0} /\ First \in Nat \ {0} /\ First <= MaxMessages
  /\ MaxVersions \in Nat \ {0} /\ MaxJobs \in Nat \ {0}
BY MailboxAssumption

LEMMA RowFields == \A m, f : Row(m, f).uid = uid[m] /\ Row(m, f).msg = m /\ Row(m, f).full = f
BY DEF Row

LEMMA RowIsEntry ==
  ASSUME uid \in [Messages -> Nat], NEW m \in Messages, NEW f \in BOOLEAN
  PROVE  Row(m, f) \in Entries /\ Row(m, f).uid = uid[m] /\ Row(m, f).msg = m
         /\ Row(m, f).full = f
BY DEF Row, Entries

\* The UIDs after a renumbering are numbers again.
LEMMA RankIsNumber ==
  ASSUME NEW m \in Messages, NEW S \in SUBSET (1..m)
  PROVE  Cardinality(S) \in Nat
<1>1. IsFiniteSet(1..m)
  BY Sizes, FS_Interval DEF Messages
<1>2. IsFiniteSet(S)
  BY <1>1, FS_Subset
<1> QED BY <1>2, FS_CardinalityType

-----------------------------------------------------------------------------
(* Counting rows and messages *)

LEMMA MessagesAreFinite ==
  ASSUME NEW rows \in SUBSET Entries
  PROVE  /\ IsFiniteSet(MessagesOf(rows))
         /\ Cardinality(MessagesOf(rows)) \in Nat
<1>1. IsFiniteSet(Messages)
  BY Sizes, FS_Interval DEF Messages
<1>2. MessagesOf(rows) \subseteq Messages
  BY DEF MessagesOf, Entries
<1>3. IsFiniteSet(MessagesOf(rows))
  BY <1>1, <1>2, FS_Subset
<1> QED BY <1>3, FS_CardinalityType

\* Rows of different messages are as many as their messages.
LEMMA OneRowEach ==
  ASSUME NEW rows \in SUBSET Entries, Distinct(rows)
  PROVE  Cardinality(rows) = Cardinality(MessagesOf(rows))
<1> DEFINE f == [r \in rows |-> r.msg]
           T == MessagesOf(rows)
<1>1. f \in [rows -> T]
  BY DEF MessagesOf
<1>2. \A r, s \in rows : f[r] = f[s] => r = s
  BY DEF Distinct
<1>3. \A t \in T : \E r \in rows : f[r] = t
  BY DEF MessagesOf
<1>4. IsFiniteSet(T)
  BY MessagesAreFinite
<1> HIDE DEF f, T
<1>5. f \in Injection(rows, T)
  BY <1>1, <1>2 DEF Injection, IsInjective
<1>6. f \in Surjection(rows, T)
  BY <1>1, <1>3 DEF Surjection
<1>7. Cardinality(rows) = Cardinality(T)
  BY <1>4, <1>5, <1>6, FS_Injection
<1> QED BY <1>7 DEF T

LEMMA OneRowLess ==
  ASSUME NEW rows \in SUBSET Entries, NEW r \in rows
  PROVE  Cardinality(MessagesOf(rows \ {r})) >= Cardinality(MessagesOf(rows)) - 1
<1> DEFINE S == MessagesOf(rows) \ {r.msg}
           T == MessagesOf(rows \ {r})
<1>1. IsFiniteSet(MessagesOf(rows)) /\ Cardinality(MessagesOf(rows)) \in Nat
  BY MessagesAreFinite
<1>2. IsFiniteSet(T) /\ Cardinality(T) \in Nat
  <2>1. rows \ {r} \in SUBSET Entries
    OBVIOUS
  <2> QED BY <2>1, MessagesAreFinite
<1>3. S \in SUBSET T
  BY DEF MessagesOf
<1>4. Cardinality(S) <= Cardinality(T)
  <2> HIDE DEF S, T
  <2> QED BY <1>2, <1>3, FS_Subset
<1>5. r.msg \in MessagesOf(rows)
  BY DEF MessagesOf
<1>6. Cardinality(S) = Cardinality(MessagesOf(rows)) - 1
  BY <1>1, <1>5, FS_RemoveElement
<1> HIDE DEF S, T
<1> QED BY <1>1, <1>2, <1>4, <1>6 DEF T

LEMMA OneRowMore ==
  ASSUME NEW rows \in SUBSET Entries, NEW r \in Entries, Distinct(rows \cup {r}), r \notin rows
  PROVE  Cardinality(MessagesOf(rows \cup {r})) = Cardinality(MessagesOf(rows)) + 1
<1>1. IsFiniteSet(MessagesOf(rows)) /\ Cardinality(MessagesOf(rows)) \in Nat
  BY MessagesAreFinite
<1>2. r.msg \notin MessagesOf(rows)
  BY DEF Distinct, MessagesOf
<1>3. MessagesOf(rows \cup {r}) = MessagesOf(rows) \cup {r.msg}
  BY DEF MessagesOf
<1> QED BY <1>1, <1>2, <1>3, FS_AddElement

LEMMA MoreRows ==
  ASSUME NEW rows \in SUBSET Entries, NEW more \in SUBSET Entries, rows \subseteq more
  PROVE  Cardinality(MessagesOf(rows)) <= Cardinality(MessagesOf(more))
<1>1. IsFiniteSet(MessagesOf(more))
  BY MessagesAreFinite
<1>2. MessagesOf(rows) \subseteq MessagesOf(more)
  BY DEF MessagesOf
<1> QED BY <1>1, <1>2, FS_Subset

-----------------------------------------------------------------------------
(* Types, and one job at a time *)

LEMMA InitMail == Init => MailInv
<1> SUFFICES ASSUME Init PROVE MailInv
  OBVIOUS
<1>1. uid \in [Messages -> Nat]
  BY DEF Init, Messages
<1>2. box \subseteq Messages
  BY Sizes DEF Init, Messages
<1>3. copy \in [Versions -> SUBSET Entries]
  <2>1. {Row(m, TRUE) : m \in box} \subseteq Entries
    BY <1>1, <1>2, RowIsEntry
  <2> QED BY <2>1 DEF Init
<1>5. draft.rows = {} /\ draft.epoch = 1 /\ ~draft.on
  BY DEF Init, NoDraft
<1>6. /\ kind \in [Jobs -> Kinds]
      /\ status \in [Jobs -> {"none", "queued", "running", "completed", "failed"}]
      /\ pc \in [Jobs -> Places] /\ ver \in [Jobs -> {0} \cup Versions]
      /\ todo \in [Jobs -> SUBSET Nat]
  BY DEF Init, Kinds, Places
<1>7. /\ arrived \in Nat /\ epoch \in Nat \ {0} /\ published \in Nat /\ published <= MaxVersions
      /\ kept \subseteq 1..published /\ active \in kept
      /\ binned \in [Versions -> SUBSET Entries] /\ validity \in [Versions -> Nat]
  BY Sizes DEF Init
<1>8. ServerShape /\ ArchiveShape
  BY <1>1, <1>2, <1>3, <1>7 DEF ServerShape, ArchiveShape
<1>10. DraftShape
  BY <1>5 DEF DraftShape, Distinct
<1>11. JobShape
  BY <1>6 DEF JobShape, Init, Ongoing
<1>12. RequestShape
  BY DEF Init, RequestShape, Asked, NoRequest
<1>13. Binned
  BY DEF Init, Binned
<1> QED BY <1>8, <1>10, <1>11, <1>12, <1>13 DEF MailInv

USE DEF server, archive, work, job

\* A job that goes on, or ends, leaves at most itself under way.
LEMMA GotoKeeps ==
  ASSUME JobShape, NEW j \in Jobs, NEW place \in Places \ {"none"}, pc[j] # "none", Goto(j, place),
         ver' = ver \/ \E v \in {0} \cup Versions : ver' = [ver EXCEPT ![j] = v],
         todo' = todo \/ \E uids \in SUBSET Nat : todo' = [todo EXCEPT ![j] = uids]
  PROVE  JobShape'
<1>1. /\ ver' \in [Jobs -> {0} \cup Versions] /\ todo' \in [Jobs -> SUBSET Nat]
      /\ pc' \in [Jobs -> Places] /\ kind' = kind /\ status' = status
  BY DEF JobShape, Goto
<1>2. \A i \in Jobs : pc'[i] # "none" => status'[i] = "running"
  BY DEF JobShape, Goto
<1> QED BY <1>1, <1>2 DEF JobShape, Ongoing

LEMMA EndKeeps ==
  ASSUME JobShape, NEW j \in Jobs, NEW s \in {"completed", "failed"}, End(j, s)
  PROVE  JobShape'
<1>1. /\ ver' \in [Jobs -> {0} \cup Versions] /\ todo' \in [Jobs -> SUBSET Nat]
      /\ kind' \in [Jobs -> Kinds] /\ pc' \in [Jobs -> Places]
      /\ status' \in [Jobs -> {"none", "queued", "running", "completed", "failed"}]
  BY DEF JobShape, End, Kinds, Places
<1>2. \A i \in Jobs : pc'[i] # "none" => status'[i] = "running"
  BY DEF JobShape, End
<1>3. Ongoing' \subseteq Ongoing
  BY DEF JobShape, End, Ongoing
<1> QED BY <1>1, <1>2, <1>3 DEF JobShape

LEMMA JobStep == MailInv /\ [Next]_vars => JobShape'
<1> SUFFICES ASSUME MailInv, [Next]_vars PROVE JobShape'
  OBVIOUS
<1> USE DEF MailInv, Places
<1>1. ASSUME NEW j \in Jobs, NEW k \in Kinds, NEW cut \in BOOLEAN, Start(j, k, cut) PROVE JobShape'
  BY <1>1 DEF Start, Enter, JobShape, Ongoing
<1>2. ASSUME NEW j \in Jobs, Cancel(j) PROVE JobShape'
  BY <1>2 DEF Cancel, JobShape, Ongoing
<1>3. ASSUME NEW j \in Jobs, Run(j) PROVE JobShape'
  <2>1. FirstStep(kind[j]) \in Places
    BY DEF FirstStep, JobShape, Kinds
  <2> QED BY <1>3, <2>1 DEF Run, JobShape, Ongoing
<1>4. ASSUME NEW j \in Jobs, Fails(j) \/ DeleteBreaks(j) \/ StopDeleting(j) \/ Drop(j) PROVE JobShape'
  BY <1>4, EndKeeps DEF Fails, DeleteBreaks, StopDeleting, Drop
<1>5. ASSUME NEW j \in Jobs, Cover(j) PROVE JobShape'
  <2>1. active # 0 => UidsOf(Dated(Visible(active), j \in cutoff)) \subseteq Nat
    <3>1. active # 0 => copy[active] \subseteq Entries
      BY Sizes DEF ArchiveShape, Versions
    <3> QED BY <3>1 DEF UidsOf, Dated, Visible, Entries
  <2> QED BY <1>5, <2>1, EndKeeps, GotoKeeps DEF Cover
<1>6. ASSUME NEW j \in Jobs, Open(j) PROVE JobShape'
  <2>1. Targets(j) \subseteq Nat
    BY DEF Targets, ServerShape
  <2> QED BY <1>6, <2>1, EndKeeps, GotoKeeps DEF Open
<1>7. ASSUME NEW j \in Jobs, Delete(j) PROVE JobShape'
  <2>1. CASE End(j, "completed")
    BY <2>1, EndKeeps
  <2>2. CASE /\ todo' = [todo EXCEPT ![j] = @ \ NextBatch(todo[j])]
             /\ UNCHANGED <<kind, cutoff, status, cancelReq, pc, ver, exists, seen>>
    BY <2>2 DEF JobShape, Ongoing
  <2> QED BY <1>7, <2>1, <2>2 DEF Delete
<1>8. ASSUME NEW j \in Jobs, Look(j) PROVE JobShape'
  <2>1. active \in {0} \cup Versions
    BY Sizes DEF ArchiveShape, Versions
  <2> QED BY <1>8, <2>1, EndKeeps, GotoKeeps DEF Look
<1>9. ASSUME NEW j \in Jobs, Select(j) PROVE JobShape'
  <2>1. {uid[m] : m \in box} \ Known(ver[j]) \subseteq Nat
    BY DEF ServerShape
  <2> QED BY <1>9, <2>1, EndKeeps, GotoKeeps DEF Select
<1>10. ASSUME NEW j \in Jobs, Fetch(j) PROVE JobShape'
  <2>1. todo[j] \ NextBatch(todo[j]) \subseteq Nat
    BY DEF JobShape
  <2>2. CASE End(j, "failed")
    BY <2>2, EndKeeps
  <2>3. CASE /\ todo' = [todo EXCEPT ![j] = @ \ NextBatch(todo[j])]
             /\ Goto(j, "fetch") \/ Goto(j, "count")
             /\ UNCHANGED <<ver, exists, seen>>
    BY <1>10, <2>1, <2>3, GotoKeeps DEF Fetch
  <2> QED BY <1>10, <2>2, <2>3 DEF Fetch
<1>11. ASSUME NEW j \in Jobs, CountFolder(j) \/ CountTotal(j) PROVE JobShape'
  BY <1>11, GotoKeeps DEF CountFolder, CountTotal, CountRows
<1>12. ASSUME NEW j \in Jobs, WriteFolder(j) \/ WriteTotal(j) PROVE JobShape'
  BY <1>12, EndKeeps, GotoKeeps DEF WriteFolder, WriteTotal
<1>13. CASE UNCHANGED job
  BY <1>13 DEF JobShape, Ongoing
<1>14. UNCHANGED job \/ \E j \in Jobs : Cancel(j) \/ Fails(j) \/ Work(j)
         \/ \E k \in Kinds, cut \in BOOLEAN : Start(j, k, cut)
  BY DEF Next, Outside, vars, Arrive, OtherExpunges, Renumber, Mark, BackupDownload, BackupPublish,
         ReadToTrash, ReadToRestore, Read, Trash, Restore, Commit
<1> QED BY <1>1, <1>2, <1>3, <1>4, <1>5, <1>6, <1>7, <1>8, <1>9, <1>10, <1>11, <1>12, <1>13, <1>14
        DEF Work

\* The steps that write the messages on the server and their UIDs.
LEMMA MailboxWriters ==
  [Next]_vars => \/ UNCHANGED <<arrived, box, epoch, uid>>
                 \/ Arrive \/ OtherExpunges \/ Renumber \/ \E j \in Jobs : Delete(j)
BY DEF Next, Outside, Work, vars, Mark, BackupDownload, BackupPublish, ReadToTrash, ReadToRestore, Read, Trash, Restore, Commit, Cancel, Fails,
       Start, Enter, Run, Cover, Open, DeleteBreaks, StopDeleting, Look, Select, Fetch, CountFolder,
       CountTotal, CountRows, WriteFolder, WriteTotal, Drop

LEMMA ServerStep == MailInv /\ [Next]_vars => ServerShape'
<1> SUFFICES ASSUME MailInv, [Next]_vars PROVE ServerShape'
  OBVIOUS
<1> USE Sizes DEF MailInv, ServerShape
<1>1. CASE Arrive
  BY <1>1 DEF Arrive, Messages
<1>2. CASE OtherExpunges
  BY <1>2 DEF OtherExpunges
<1>3. CASE Renumber
  <2>1. \A m \in Messages : Cardinality({k \in 1..m : k \in box \/ k > arrived}) \in Nat
    BY RankIsNumber
  <2>2. \A m \in Messages : epoch * MaxMessages + m \in Nat
    BY DEF Messages
  <2>3. uid' \in [Messages -> Nat]
    BY <1>3, <2>1, <2>2 DEF Renumber
  <2>4. epoch' = epoch + 1 /\ UNCHANGED <<arrived, box>>
    BY <1>3 DEF Renumber
  <2> QED BY <2>3, <2>4
<1>4. ASSUME NEW j \in Jobs, Delete(j) PROVE ServerShape'
  BY <1>4 DEF Delete
<1>5. CASE UNCHANGED <<arrived, box, epoch, uid>>
  BY <1>5
<1> QED BY <1>1, <1>2, <1>3, <1>4, <1>5, MailboxWriters

\* A request that commits, and the steps that write the rows of the archive.
LEMMA Committed ==
  ASSUME NEW q \in Requests, Trash(q) \/ Restore(q)
  PROVE  /\ UNCHANGED <<published, kept, active, protected, copy, validity, remote, server, draft,
                        job, purged>>
         /\ Asked(q) /\ req' = [req EXCEPT ![q] = NoRequest]
         /\ \/ UNCHANGED <<binned, count, total>> /\ req[q].ver \notin kept
            \/ /\ req[q].ver \in kept
               /\ \E rows \in {binned[req[q].ver] \cup {req[q].row}, binned[req[q].ver] \ {req[q].row}} :
                    binned' = [binned EXCEPT ![req[q].ver] = rows]
BY DEF Trash, Restore, Commit, Asked

LEMMA Writers ==
  [Next]_vars => \/ UNCHANGED <<published, kept, active, copy, binned, validity>>
                 \/ BackupPublish \/ \E j \in Jobs : Fetch(j) \/ Drop(j)
                 \/ \E q \in Requests : Trash(q) \/ Restore(q)
BY DEF Next, Outside, Work, vars, Arrive, OtherExpunges, Renumber, Mark, BackupDownload, Cancel, Fails,
       Start, Enter, Run, Cover, Open, Delete, DeleteBreaks, StopDeleting, Look, Select, CountFolder,
       CountTotal, CountRows, WriteFolder, WriteTotal, ReadToTrash, ReadToRestore, Read

LEMMA ArchiveStep == MailInv /\ [Next]_vars => ArchiveShape'
<1> SUFFICES ASSUME MailInv, [Next]_vars PROVE ArchiveShape'
  OBVIOUS
<1> USE DEF MailInv, ArchiveShape
<1>1. CASE BackupPublish
  <2>1. /\ kept' \subseteq kept \cup {published + 1} /\ published + 1 \in kept'
        /\ active' = published + 1 /\ published' = published + 1
    BY <1>1 DEF BackupPublish, Rotated
  <2>2. published + 1 \in Versions /\ published + 1 <= MaxVersions
    BY <1>1, Sizes DEF BackupPublish, DraftShape, Versions
  <2>3. kept' \subseteq 1..published'
    BY <2>1
  <2>4. /\ copy' \in [Versions -> SUBSET Entries] /\ binned' = binned
        /\ validity' \in [Versions -> Nat]
    BY <1>1, <2>2 DEF BackupPublish, DraftShape
  <2> QED BY <2>1, <2>2, <2>3, <2>4
<1>2. ASSUME NEW q \in Requests, Trash(q) \/ Restore(q) PROVE ArchiveShape'
  <2>1. req[q].row \in Entries
    BY <1>2, Committed DEF RequestShape
  <2>2. binned' \in [Versions -> SUBSET Entries]
    <3>1. \A rows \in {binned[req[q].ver] \cup {req[q].row}, binned[req[q].ver] \ {req[q].row}} :
            req[q].ver \in kept => rows \in SUBSET Entries
      <4>1. kept \subseteq Versions
        BY Sizes DEF Versions
      <4>2. req[q].ver \in Versions => binned[req[q].ver] \in SUBSET Entries
        OBVIOUS
      <4> QED BY <2>1, <4>1, <4>2
    <3>2. CASE binned' = binned
      BY <3>2
    <3>3. ASSUME NEW rows, req[q].ver \in kept => rows \in SUBSET Entries, req[q].ver \in kept,
                 binned' = [binned EXCEPT ![req[q].ver] = rows]
          PROVE  binned' \in [Versions -> SUBSET Entries]
      BY <3>3
    <3> QED BY <1>2, <3>1, <3>2, <3>3, Committed
  <2> QED BY <1>2, <2>2, Committed
<1>3. ASSUME NEW j \in Jobs, Fetch(j) PROVE ArchiveShape'
  <2>1. ASSUME NEW got \in SUBSET box PROVE {Row(m, TRUE) : m \in got} \subseteq Entries
    <3>1. \A m \in got : m \in Messages /\ Row(m, TRUE) \in Entries
      BY <2>1, RowIsEntry DEF ServerShape
    <3> QED BY <3>1
  <2>2. copy' \in [Versions -> SUBSET Entries]
    <3>1. CASE copy' = copy
      BY <3>1
    <3>2. CASE \E got \in SUBSET box :
                 copy' = [copy EXCEPT ![ver[j]] = @ \cup {Row(m, TRUE) : m \in got}]
      BY <2>1, <3>2
    <3> QED BY <1>3, <3>1, <3>2 DEF Fetch, Named
  <2> QED BY <1>3, <2>2 DEF Fetch
<1>4. ASSUME NEW j \in Jobs, Drop(j) PROVE ArchiveShape'
  BY <1>4 DEF Drop
<1>5. CASE UNCHANGED <<published, kept, active, copy, binned, validity>>
  BY <1>5
<1> QED BY <1>1, <1>2, <1>3, <1>4, <1>5, Writers

\* What a backup downloads are rows of messages on the server, under its numbering.
LEMMA Downloaded ==
  ASSUME ServerShape, BackupDownload
  PROVE  /\ draft'.epoch = epoch /\ draft'.rows \subseteq Entries /\ Distinct(draft'.rows)
         /\ \A r \in draft'.rows : r.uid = uid[r.msg] /\ ("salvage" \notin Windows => r.full)
         /\ published' = published /\ published < MaxVersions
<1>1. PICK got \in SUBSET box, stubs \in SUBSET box :
        /\ draft' = [on |-> TRUE, rows |-> {Row(m, m \notin stubs) : m \in got}, epoch |-> epoch,
                     exists |-> Cardinality(box), base |-> active]
        /\ "salvage" \notin Windows => stubs = {}
  BY DEF BackupDownload
<1>2. \A m \in got : m \in Messages /\ Row(m, m \notin stubs) \in Entries
                      /\ Row(m, m \notin stubs).msg = m /\ Row(m, m \notin stubs).uid = uid[m]
                      /\ Row(m, m \notin stubs).full = (m \notin stubs)
  <2> SUFFICES ASSUME NEW m \in got
               PROVE  m \in Messages /\ Row(m, m \notin stubs) \in Entries
                      /\ Row(m, m \notin stubs).msg = m /\ Row(m, m \notin stubs).uid = uid[m]
                      /\ Row(m, m \notin stubs).full = (m \notin stubs)
    OBVIOUS
  <2>1. m \in Messages /\ (m \notin stubs) \in BOOLEAN
    BY DEF ServerShape
  <2> QED BY <2>1, RowIsEntry DEF ServerShape
<1>3. draft'.rows = {Row(m, m \notin stubs) : m \in got} /\ draft'.epoch = epoch
  BY <1>1
<1>4. published' = published /\ published < MaxVersions
  BY DEF BackupDownload
<1>5. \A r \in draft'.rows : r.uid = uid[r.msg] /\ ("salvage" \notin Windows => r.full)
  <2> SUFFICES ASSUME NEW m \in got
               PROVE  /\ Row(m, m \notin stubs).uid = uid[Row(m, m \notin stubs).msg]
                      /\ "salvage" \notin Windows => Row(m, m \notin stubs).full
    BY <1>3
  <2> QED BY <1>1, <1>2
<1>6. draft'.rows \subseteq Entries /\ Distinct(draft'.rows)
  BY <1>2, <1>3 DEF Distinct
<1> QED BY <1>3, <1>4, <1>5, <1>6

LEMMA DraftWriters ==
  [Next]_vars => BackupDownload \/ draft' = NoDraft \/ UNCHANGED <<draft, published>>
BY DEF Next, Outside, Work, vars, Arrive, OtherExpunges, Renumber, Mark, BackupPublish, ReadToTrash,
       ReadToRestore, Read, Trash, Restore, Commit, Cancel, Fails, Start, Enter, Run, Cover, Open, Delete, DeleteBreaks, StopDeleting,
       Look, Select, Fetch, CountFolder, CountTotal, CountRows, WriteFolder, WriteTotal, Drop

LEMMA DraftStep == MailInv /\ [Next]_vars => DraftShape'
<1> SUFFICES ASSUME MailInv, [Next]_vars PROVE DraftShape'
  OBVIOUS
<1> USE Sizes DEF MailInv, DraftShape
<1>1. CASE BackupDownload
  BY <1>1, Downloaded DEF ServerShape
<1>2. CASE draft' = NoDraft
  <2>1. draft'.rows = {} /\ draft'.epoch = 1 /\ ~draft'.on
    BY <1>2 DEF NoDraft
  <2> QED BY <2>1 DEF Distinct
<1>3. CASE UNCHANGED <<draft, published>>
  BY <1>3 DEF Distinct
<1> QED BY <1>1, <1>2, <1>3, DraftWriters

LEMMA VersionsOf ==
  ASSUME ArchiveShape
  PROVE  /\ kept \subseteq Versions /\ 1..published \subseteq Versions
         /\ \A v \in Versions : copy[v] \subseteq Entries /\ Visible(v) \subseteq Entries
BY Sizes DEF ArchiveShape, Versions, Visible

\* What a refresh adds are rows of messages on the server that the version has not.
LEMMA FetchedRows ==
  ASSUME MailInv, NEW j \in Jobs, Fetch(j)
  PROVE  \/ copy' = copy
         \/ /\ ver[j] \in kept /\ pc[j] = "fetch"
            /\ \E got \in SUBSET box :
                 /\ copy' = [copy EXCEPT ![ver[j]] = @ \cup {Row(m, TRUE) : m \in got}]
                 /\ \A m \in got : uid[m] \in todo[j] /\ \A r \in copy[ver[j]] : r.uid # uid[m]
<1>1. CASE End(j, "failed") /\ UNCHANGED copy
  BY <1>1
<1>2. CASE \E got \in SUBSET Named(NextBatch(todo[j])) :
             /\ ver[j] \in kept /\ NextBatch(todo[j]) \cap Known(ver[j]) = {}
             /\ copy' = [copy EXCEPT ![ver[j]] = @ \cup {Row(m, TRUE) : m \in got}]
  <2>1. PICK got \in SUBSET Named(NextBatch(todo[j])) :
             /\ ver[j] \in kept /\ NextBatch(todo[j]) \cap Known(ver[j]) = {}
             /\ copy' = [copy EXCEPT ![ver[j]] = @ \cup {Row(m, TRUE) : m \in got}]
    BY <1>2
  <2>2. got \in SUBSET box /\ \A m \in got : uid[m] \in NextBatch(todo[j])
    BY DEF Named
  <2>3. \A m \in got : \A r \in copy[ver[j]] : r.uid # uid[m]
    BY <2>1, <2>2 DEF Known, UidsOf
  <2>4. pc[j] = "fetch" /\ NextBatch(todo[j]) \subseteq todo[j]
    BY DEF Fetch, NextBatch
  <2> QED BY <2>1, <2>2, <2>3, <2>4
<1> QED BY <1>1, <1>2 DEF Fetch

\* A version gains rows, and a version that is not new was there before.
LEMMA RowsGrow ==
  ASSUME MailInv, [Next]_vars
  PROVE  /\ published' \in Nat /\ published <= published'
         /\ \A v \in kept' : v <= published => v \in kept /\ copy[v] \subseteq copy'[v]
<1>0. /\ copy \in [Versions -> SUBSET Entries] /\ published \in Nat /\ kept \subseteq 1..published
      /\ kept \subseteq Versions
  BY VersionsOf DEF MailInv, ArchiveShape
<1>1. CASE BackupPublish
  <2>1. /\ published' = published + 1 /\ kept' \subseteq kept \cup {published + 1}
        /\ copy' = [copy EXCEPT ![published + 1] = draft.rows]
    BY <1>1 DEF BackupPublish, Rotated
  <2>2. \A v \in kept' : v <= published => v \in kept /\ v # published + 1
    BY <1>0, <2>1
  <2>3. published' \in Nat /\ published <= published'
    BY <1>0, <2>1
  <2>4. ASSUME NEW v \in Versions, v # published + 1 PROVE copy'[v] = copy[v]
    BY <1>0, <2>1, <2>4
  <2>5. ASSUME NEW v \in kept', v <= published PROVE v \in kept /\ copy[v] \subseteq copy'[v]
    <3>1. v \in kept /\ v # published + 1
      BY <2>2, <2>5
    <3>2. v \in Versions
      BY <1>0, <3>1
    <3> QED BY <2>4, <3>1, <3>2
  <2> QED BY <2>3, <2>5
<1>2. ASSUME NEW j \in Jobs, Fetch(j) PROVE kept' = kept /\ published' = published
                                        /\ \A v \in Versions : copy[v] \subseteq copy'[v]
  <2>1. ASSUME NEW new, copy' = [copy EXCEPT ![ver[j]] = @ \cup new]
        PROVE  \A v \in Versions : copy[v] \subseteq copy'[v]
    BY <1>0, <2>1
  <2>2. \A v \in Versions : copy[v] \subseteq copy'[v]
    BY <1>2, <2>1, FetchedRows
  <2>3. kept' = kept /\ published' = published
    BY <1>2 DEF Fetch
  <2> QED BY <2>2, <2>3
<1>3. ASSUME NEW j \in Jobs, Drop(j) PROVE kept' = {} /\ published' = published
  BY <1>3 DEF Drop
<1>4. CASE UNCHANGED <<published, kept, copy>>
  BY <1>0, <1>4
<1>5. \/ BackupPublish \/ (\E j \in Jobs : Fetch(j) \/ Drop(j)) \/ UNCHANGED <<published, kept, copy>>
  BY Writers, Committed
<1>6. ASSUME NEW j \in Jobs, Fetch(j) \/ Drop(j)
      PROVE  /\ published' = published
             /\ \A v \in kept' : v \in kept /\ copy[v] \subseteq copy'[v]
  BY <1>0, <1>2, <1>3, <1>6
<1> QED BY <1>0, <1>1, <1>4, <1>5, <1>6

LEMMA RequestWriters ==
  [Next]_vars => \/ UNCHANGED req \/ \E q \in Requests : Trash(q) \/ Restore(q)
                 \/ \E q \in Requests, r \in UNION {copy[v] : v \in Versions} :
                      ReadToTrash(q, r) \/ ReadToRestore(q, r)
BY DEF Next, Outside, Work, vars, Arrive, OtherExpunges, Renumber, Mark, BackupDownload, BackupPublish,
       Cancel, Fails, Start, Enter, Run, Cover, Open, Delete, DeleteBreaks, StopDeleting, Look,
       Select, Fetch, CountFolder, CountTotal, CountRows, WriteFolder, WriteTotal, Drop

\* What a request remembers when it has read.
LEMMA ReadRow ==
  ASSUME MailInv, NEW q \in Requests, NEW r, ReadToTrash(q, r) \/ ReadToRestore(q, r)
  PROVE  /\ UNCHANGED <<server, archive, draft, job, purged>> /\ req[q] = NoRequest
         /\ active \in kept /\ active \in Versions /\ r \in copy[active] /\ r \in Entries
         /\ \E o \in {"trash", "restore"} :
              /\ req' = [req EXCEPT ![q] = [op |-> o, row |-> r, ver |-> active,
                                          count |-> count[active], total |-> total[active]]]
              /\ o = "restore" => r \in binned[active]
         /\ \/ Counting = {} /\ \A p \in Requests : req[p] = NoRequest
            \/ "requests" \in Windows
<1>1. active \in kept /\ active \in Versions /\ copy[active] \subseteq Entries
  BY VersionsOf DEF ReadToTrash, ReadToRestore, MailInv, ArchiveShape
<1>2. r \in copy[active]
  BY <1>1 DEF ReadToTrash, ReadToRestore, Visible, MailInv, Binned
<1> QED BY <1>1, <1>2 DEF ReadToTrash, ReadToRestore, Read

LEMMA RequestStep == MailInv /\ [Next]_vars => RequestShape'
<1> SUFFICES ASSUME MailInv, [Next]_vars PROVE RequestShape'
  OBVIOUS
<1>0. /\ DOMAIN req = Requests /\ published \in Nat /\ published' \in Nat /\ published <= published'
      /\ \A q \in Requests : Asked(q) =>
           /\ req[q].ver \in 1..published' /\ req[q].row \in Entries
           /\ req[q].ver \in kept' => req[q].row \in copy'[req[q].ver]
  BY RowsGrow DEF MailInv, RequestShape, ArchiveShape
<1>1. CASE UNCHANGED req
  BY <1>0, <1>1 DEF RequestShape, Asked
<1>2. ASSUME NEW q \in Requests, Trash(q) \/ Restore(q) PROVE RequestShape'
  <2>1. req' = [req EXCEPT ![q] = NoRequest]
    BY <1>2, Committed
  <2> QED BY <1>0, <2>1 DEF RequestShape, Asked, NoRequest
<1>3. ASSUME NEW q \in Requests, NEW r, ReadToTrash(q, r) \/ ReadToRestore(q, r) PROVE RequestShape'
  <2>1. /\ copy' = copy /\ kept' = kept /\ published' = published
        /\ active \in 1..published /\ r \in copy[active] /\ r \in Entries
    BY <1>3, ReadRow DEF MailInv, ArchiveShape
  <2>2. PICK o, n, t : req' = [req EXCEPT ![q] = [op |-> o, row |-> r, ver |-> active,
                                                count |-> n, total |-> t]]
    BY <1>3, ReadRow
  <2>3. req'[q].ver = active /\ req'[q].row = r /\ \A p \in Requests : p # q => req'[p] = req[p]
    BY <1>0, <2>2
  <2> QED BY <1>0, <2>1, <2>2, <2>3 DEF RequestShape, Asked
<1> QED BY <1>1, <1>2, <1>3, RequestWriters

LEMMA BinnedStep == MailInv /\ [Next]_vars => Binned'
<1> SUFFICES ASSUME MailInv, [Next]_vars PROVE Binned'
  OBVIOUS
<1>0. copy \in [Versions -> SUBSET Entries] /\ binned \in [Versions -> SUBSET Entries]
  BY DEF MailInv, ArchiveShape
<1>1. CASE BackupPublish
  <2>1. /\ published' = published + 1 /\ copy' = [copy EXCEPT ![published + 1] = draft.rows]
        /\ UNCHANGED binned
    BY <1>1 DEF BackupPublish
  <2>2. published \in Nat
    BY DEF MailInv, ArchiveShape
  <2>3. \A v \in Versions : v > published + 1 => v > published
    BY <2>2, Sizes DEF Versions
  <2> QED BY <1>0, <2>1, <2>2, <2>3, Sizes DEF Versions, MailInv, Binned
<1>2. ASSUME NEW q \in Requests, Trash(q) \/ Restore(q) PROVE Binned'
  <2>1. UNCHANGED <<copy, published>> /\ Asked(q)
    BY <1>2, Committed
  <2>2. CASE UNCHANGED binned
    BY <2>1, <2>2 DEF MailInv, Binned
  <2>3. CASE /\ req[q].ver \in kept
             /\ \E rows \in {binned[req[q].ver] \cup {req[q].row}, binned[req[q].ver] \ {req[q].row}} :
                  binned' = [binned EXCEPT ![req[q].ver] = rows]
    <3>1. req[q].row \in copy[req[q].ver] /\ req[q].ver \in 1..published
      BY <2>1, <2>3 DEF MailInv, RequestShape
    <3>2. published \in Nat
      BY DEF MailInv, ArchiveShape
    <3>3. req[q].ver <= published /\ ~(req[q].ver > published)
      BY <3>1, <3>2
    <3> QED BY <1>0, <2>1, <2>3, <3>1, <3>3 DEF MailInv, Binned
  <2> QED BY <1>2, <2>2, <2>3, Committed
<1>3. ASSUME NEW j \in Jobs, Fetch(j) PROVE Binned'
  <2>1. UNCHANGED <<binned, published>>
    BY <1>3 DEF Fetch
  <2>2. ASSUME NEW new, copy' = [copy EXCEPT ![ver[j]] = @ \cup new] PROVE Binned'
    BY <1>0, <2>1, <2>2 DEF MailInv, Binned
  <2>3. CASE copy' = copy
    BY <2>1, <2>3 DEF MailInv, Binned
  <2> QED BY <1>3, <2>2, <2>3, FetchedRows
<1>4. ASSUME NEW j \in Jobs, Drop(j) PROVE Binned'
  BY <1>4 DEF Drop, Binned
<1>5. CASE UNCHANGED <<published, kept, active, copy, binned, validity>>
  BY <1>5 DEF MailInv, Binned
<1> QED BY <1>1, <1>2, <1>3, <1>4, <1>5, Writers

LEMMA NextMail == MailInv /\ [Next]_vars => MailInv'
BY ServerStep, ArchiveStep, DraftStep, JobStep, RequestStep, BinnedStep DEF MailInv

-----------------------------------------------------------------------------
(* UIDs that are never used again *)

NeverReused ==
  /\ \A m, n \in Messages : uid[m] = uid[n] => m = n
  /\ \A m \in Messages : uid[m] <= epoch * MaxMessages

LEMMA Products ==
  ASSUME NEW e \in Nat \ {0}
  PROVE  e * MaxMessages \in Nat /\ (e + 1) * MaxMessages = e * MaxMessages + MaxMessages
BY Sizes

LEMMA Renumbered ==
  ASSUME "reuse" \notin Windows, Renumber
  PROVE  epoch' = epoch + 1 /\ uid' = [m \in Messages |-> epoch * MaxMessages + m]
BY DEF Renumber

LEMMA NeverReusedStep ==
  ASSUME "reuse" \notin Windows, MailInv, NeverReused, [Next]_vars
  PROVE  NeverReused'
<1>1. CASE Renumber
  <2>1. epoch \in Nat \ {0} /\ Messages \subseteq Nat /\ \A m \in Messages : m <= MaxMessages
    BY Sizes DEF MailInv, ServerShape, Messages
  <2> DEFINE base == epoch * MaxMessages
  <2>2. base \in Nat /\ epoch' * MaxMessages = base + MaxMessages
    BY <1>1, <2>1, Products, Renumbered
  <2>3. \A m \in Messages : uid'[m] = base + m
    BY <1>1, Renumbered
  <2> HIDE DEF base
  <2> QED BY <2>1, <2>2, <2>3, Sizes DEF NeverReused
<1>2. CASE UNCHANGED <<epoch, uid>>
  BY <1>2 DEF NeverReused
<1>3. Renumber \/ UNCHANGED <<epoch, uid>>
  BY MailboxWriters DEF Arrive, OtherExpunges, Delete
<1> QED BY <1>1, <1>2, <1>3

LEMMA NeverReusedAtFirst == Init => NeverReused
BY Sizes DEF Init, NeverReused, Messages

-----------------------------------------------------------------------------
(* ClaimsAreHeld *)

\* No counter is read while another reading of it is under way, and a UID stays
\* the UID of its message.
Alone == {"requests", "reuse"} \cap Windows = {}

\* Under the numbering a version was taken with, its rows bear the UIDs of their
\* messages; a refresh that fetches found the server at that numbering, and if the
\* server has been renumbered since, it has none of the UIDs still to fetch.
Current(rows) == \A r \in rows : r.uid = uid[r.msg]
Numbered ==
  /\ \A v \in Versions : validity[v] <= epoch /\ (validity[v] = epoch => Current(copy[v]))
  /\ draft.epoch <= epoch /\ (draft.epoch = epoch => Current(draft.rows))
  /\ \A j \in Jobs : pc[j] = "fetch" =>
       /\ ver[j] \in 1..published /\ \A u \in todo[j] : u <= epoch * MaxMessages
       /\ validity[ver[j]] = epoch \/ \A m \in Messages : uid[m] \notin todo[j]

\* A version has a message once.
OneEach == \A v \in Versions : Distinct(copy[v])

Claims ==
  /\ total \in [Versions -> Nat]
  /\ \A v \in kept : total[v] <= Cardinality(MessagesOf(Visible(v)))

\* What a request, or a refresh, has read of the version and not yet written is true
\* of it still.
Readings ==
  /\ DOMAIN seen = Jobs /\ \A q \in Requests : Asked(q) \/ req[q] = NoRequest
  /\ \A j \in Jobs : ver[j] <= published
  /\ \A p, q \in Requests : Asked(p) /\ Asked(q) => p = q
  /\ \A q \in Requests : Asked(q) => Counting = {}
  /\ \A q \in Requests : Asked(q) /\ req[q].ver \in kept =>
       /\ req[q].total = total[req[q].ver]
       /\ req[q].op = "restore" => req[q].row \in binned[req[q].ver]
  /\ \A j \in Jobs : pc[j] = "totalled" /\ ver[j] \in kept =>
       seen[j] \in Nat /\ seen[j] <= Cardinality(MessagesOf(Visible(ver[j])))

ClaimInv == MailInv /\ NeverReused /\ Numbered /\ OneEach /\ Claims /\ Readings

\* Who fetches was fetching, or finds the numbering unchanged now.
LEMMA FetchBegins ==
  ASSUME MailInv, [Next]_vars, NEW j \in Jobs, pc'[j] = "fetch"
  PROVE  \/ pc[j] = "fetch" /\ ver'[j] = ver[j] /\ todo'[j] \subseteq todo[j]
         \/ Select(j)
<1> DEFINE Fetches == pc[j] = "fetch" /\ ver'[j] = ver[j] /\ todo'[j] \subseteq todo[j]
<1>1. /\ pc \in [Jobs -> Places] /\ ver \in [Jobs -> {0} \cup Versions] /\ kind \in [Jobs -> Kinds]
      /\ todo \in [Jobs -> SUBSET Nat]
  BY DEF MailInv, JobShape
<1>2. ASSUME NEW i \in Jobs, NEW s, End(i, s) PROVE i # j /\ Fetches
  BY <1>1, <1>2 DEF End
<1>3. ASSUME NEW i \in Jobs, NEW place \in Places \ {"fetch"}, Goto(i, place)
      PROVE  i # j /\ pc[j] = "fetch"
  BY <1>1, <1>3 DEF Goto
<1>4. ASSUME NEW i \in Jobs, Run(i) PROVE Fetches
  BY <1>1, <1>4 DEF Run, FirstStep, Kinds
<1>5. ASSUME NEW i \in Jobs, Delete(i) PROVE Fetches
  <2>1. CASE /\ pc[i] = "delete" /\ todo' = [todo EXCEPT ![i] = @ \ NextBatch(todo[i])]
             /\ UNCHANGED <<kind, cutoff, status, cancelReq, pc, ver, exists, seen>>
    BY <1>1, <2>1
  <2> QED BY <1>2, <1>5, <2>1 DEF Delete
<1>6. ASSUME NEW i \in Jobs, Cover(i) \/ Open(i) \/ DeleteBreaks(i) \/ StopDeleting(i) \/ Drop(i)
                             \/ CountFolder(i) \/ CountTotal(i) \/ WriteFolder(i) \/ WriteTotal(i)
      PROVE  Fetches
  <2>1. \/ \E s \in {"failed", "completed"} : End(i, s)
        \/ /\ \E place \in Places \ {"fetch"} : Goto(i, place)
           /\ ver' = ver /\ \E uids : todo' = todo \/ todo' = [todo EXCEPT ![i] = uids]
    BY <1>6 DEF Cover, Open, DeleteBreaks, StopDeleting, Drop, CountFolder, CountTotal, CountRows,
       WriteFolder, WriteTotal, Places
  <2> QED BY <1>1, <1>2, <1>3, <2>1
<1>7. ASSUME NEW i \in Jobs, Look(i) PROVE Fetches
  BY <1>1, <1>2, <1>3, <1>7 DEF Look, Places
<1>8. ASSUME NEW i \in Jobs, i # j, Select(i) PROVE Fetches
  <2>1. /\ pc'[j] = pc[j] /\ ver'[j] = ver[j] /\ todo'[j] = todo[j]
    BY <1>1, <1>8 DEF Select, End, Goto
  <2> QED BY <2>1
<1>9. ASSUME NEW i \in Jobs, Fetch(i) PROVE Fetches
  <2>1. CASE End(i, "failed")
    BY <1>2, <2>1
  <2>2. CASE /\ pc[i] = "fetch" /\ ver' = ver /\ (Goto(i, "count") \/ Goto(i, "fetch"))
             /\ todo' = [todo EXCEPT ![i] = @ \ NextBatch(todo[i])]
    BY <1>1, <2>2 DEF Goto
  <2> QED BY <1>9, <2>1, <2>2 DEF Fetch
<1>10. ASSUME NEW i \in Jobs, Fails(i) PROVE Fetches
  BY <1>2, <1>10 DEF Fails
<1>11. CASE UNCHANGED <<pc, ver, todo>>
  BY <1>11
<1>12. \/ UNCHANGED <<pc, ver, todo>> \/ \E i \in Jobs : Fails(i) \/ Work(i)
  BY DEF Next, vars, Outside, Arrive, OtherExpunges, Renumber, Mark, BackupDownload, BackupPublish,
         ReadToTrash, ReadToRestore, Read, Trash, Restore, Commit, Cancel, Start, Enter
<1> QED BY <1>2, <1>4, <1>5, <1>6, <1>7, <1>8, <1>9, <1>10, <1>11, <1>12 DEF Work

LEMMA RowsOfMessages ==
  ASSUME NEW S, NEW new, new = {Row(m, TRUE) : m \in S}
  PROVE  Distinct(new) /\ Current(new) /\ \A r \in new : r.msg \in S
<1>1. \A r \in new : r = Row(r.msg, TRUE) /\ r.uid = uid[r.msg] /\ r.msg \in S
  <2> SUFFICES ASSUME NEW r \in new PROVE r = Row(r.msg, TRUE) /\ r.uid = uid[r.msg] /\ r.msg \in S
    OBVIOUS
  <2>1. PICK m \in S : r = Row(m, TRUE)
    OBVIOUS
  <2> QED BY <2>1, RowFields
<1>2. Distinct(new)
  BY <1>1 DEF Distinct
<1>3. Current(new)
  BY <1>1 DEF Current
<1> QED BY <1>1, <1>2, <1>3

LEMMA NumberedStep ==
  ASSUME Alone, ClaimInv, [Next]_vars
  PROVE  Numbered'
<1> USE DEF ClaimInv, MailInv, Numbered, Current, ServerShape
<1>1. CASE Renumber
  <2>1. \A v \in Versions : validity'[v] < epoch'
    BY <1>1 DEF Renumber, ArchiveShape
  <2>2. draft'.epoch < epoch'
    BY <1>1 DEF Renumber, DraftShape
  <2>3. ASSUME NEW j \in Jobs, pc'[j] = "fetch"
        PROVE  /\ ver'[j] \in 1..published' /\ \A u \in todo'[j] : u <= epoch' * MaxMessages
               /\ \A m \in Messages : uid'[m] \notin todo'[j]
    <3> DEFINE base == epoch * MaxMessages
    <3>1. UNCHANGED <<pc, ver, todo, published>>
      BY <1>1 DEF Renumber
    <3>2. base \in Nat /\ epoch' * MaxMessages = base + MaxMessages
          /\ \A m \in Messages : uid'[m] = base + m
      BY <1>1, Products, Renumbered DEF Alone
    <3>3. ver[j] \in 1..published /\ todo[j] \subseteq Nat /\ \A u \in todo[j] : u <= base
      BY <2>3, <3>1 DEF JobShape
    <3> HIDE DEF base
    <3> QED BY <3>1, <3>2, <3>3, Sizes DEF Messages
  <2>4. \A v \in Versions : validity'[v] <= epoch' /\ validity'[v] # epoch'
    <3>1. validity' \in [Versions -> Nat] /\ epoch' \in Nat
      BY <1>1 DEF Renumber, ArchiveShape
    <3> QED BY <2>1, <3>1
  <2>5. draft'.epoch <= epoch' /\ draft'.epoch # epoch'
    <3>1. draft'.epoch \in Nat /\ epoch' \in Nat
      BY <1>1 DEF Renumber, DraftShape
    <3> QED BY <2>2, <3>1
  <2> QED BY <2>3, <2>4, <2>5
<1>2. CASE BackupDownload
  <2>1. /\ UNCHANGED <<copy, validity, epoch, uid, published, pc, ver, todo>>
    BY <1>2 DEF BackupDownload
  <2> QED BY <1>2, <2>1, Downloaded
<1>3. CASE BackupPublish
  <2>1. draft'.rows = {} /\ draft'.epoch = 1
    BY <1>3 DEF BackupPublish, NoDraft
  <2>2. /\ published' = published + 1 /\ copy' = [copy EXCEPT ![published + 1] = draft.rows]
        /\ validity' = [validity EXCEPT ![published + 1] = draft.epoch]
        /\ UNCHANGED <<epoch, uid, pc, ver, todo>>
    BY <1>3 DEF BackupPublish
  <2>3. \A v \in Versions : validity'[v] <= epoch' /\ (validity'[v] = epoch' => Current(copy[v])')
    BY <2>2 DEF ArchiveShape
  <2>4. \A v \in 1..published : v \in 1..published' /\ validity'[v] = validity[v]
    BY <2>2, Sizes DEF ArchiveShape, Versions
  <2> QED BY <2>1, <2>2, <2>3, <2>4
<1>4. ASSUME UNCHANGED <<epoch, uid, validity, published>>, NEW i \in Jobs,
             pc[i] = "fetch", ver'[i] = ver[i], todo'[i] \subseteq todo[i]
      PROVE  /\ ver'[i] \in 1..published' /\ \A u \in todo'[i] : u <= epoch' * MaxMessages
             /\ validity'[ver'[i]] = epoch' \/ \A m \in Messages : uid'[m] \notin todo'[i]
  BY <1>4
<1>5. ASSUME NEW j \in Jobs, Fetch(j) PROVE Numbered'
  <2>1. UNCHANGED <<epoch, uid, validity, draft, published>>
    BY <1>5 DEF Fetch
  <2>2. \A v \in Versions : validity[v] = epoch => Current(copy[v])'
    <3>1. CASE copy' = copy
      BY <2>1, <3>1
    <3>2. ASSUME NEW got \in SUBSET box, ver[j] \in kept,
                 copy' = [copy EXCEPT ![ver[j]] = @ \cup {Row(m, TRUE) : m \in got}]
          PROVE  \A v \in Versions : validity[v] = epoch => Current(copy[v])'
      BY <2>1, <3>2 DEF ArchiveShape, Row
    <3> QED BY <1>5, <3>1, <3>2, FetchedRows
  <2>3. ASSUME NEW i \in Jobs, Select(i) PROVE FALSE
    <3>1. pc[j] = "fetch" /\ pc[i] = "select" /\ i # j
      BY <1>5, <2>3 DEF Fetch, Select
    <3>2. pc'[i] = pc[i]
      BY <1>5, <3>1 DEF Fetch, Goto, End, JobShape
    <3>3. pc'[i] # "select"
      BY <2>3 DEF Select, Goto, End, JobShape
    <3> QED BY <3>1, <3>2, <3>3
  <2>4. \A i \in Jobs : pc'[i] = "fetch" => pc[i] = "fetch" /\ ver'[i] = ver[i] /\ todo'[i] \subseteq todo[i]
    BY <2>3, FetchBegins
  <2> QED BY <1>4, <2>1, <2>2, <2>4
<1>6. ASSUME NEW j \in Jobs, Select(j) PROVE Numbered'
  <2>1. UNCHANGED <<epoch, uid, copy, validity, draft, published, box>>
    BY <1>6 DEF Select
  <2>2. pc'[j] = "fetch" => /\ ver'[j] \in kept /\ validity[ver'[j]] = epoch
                            /\ todo'[j] \subseteq {uid[m] : m \in box}
    BY <1>6 DEF Select, SameNumbering, Goto, End, JobShape
  <2>3. \A i \in Jobs : i # j => pc'[i] = pc[i] /\ ver'[i] = ver[i] /\ todo'[i] = todo[i]
    BY <1>6 DEF Select, Goto, End, JobShape
  <2>4. \A m \in box : uid[m] <= epoch * MaxMessages
    BY DEF NeverReused
  <2>5. pc'[j] = "fetch" => /\ ver'[j] \in 1..published' /\ validity'[ver'[j]] = epoch'
                            /\ \A u \in todo'[j] : u <= epoch' * MaxMessages
    BY <2>1, <2>2, <2>4 DEF ArchiveShape
  <2>6. \A i \in Jobs : i # j /\ pc'[i] = "fetch" =>
             /\ ver'[i] \in 1..published' /\ \A u \in todo'[i] : u <= epoch' * MaxMessages
             /\ validity'[ver'[i]] = epoch' \/ \A m \in Messages : uid'[m] \notin todo'[i]
    BY <1>4, <2>1, <2>3
  <2> QED BY <2>1, <2>5, <2>6
<1>7. ASSUME NEW j \in Jobs, Drop(j) PROVE Numbered'
  <2>1. draft'.rows = {} /\ draft'.epoch = 1 /\ UNCHANGED <<epoch, uid, validity, published>>
    BY <1>7 DEF Drop, NoDraft
  <2>2. \A i \in Jobs : pc'[i] = "fetch" => pc[i] = "fetch" /\ ver'[i] = ver[i] /\ todo'[i] \subseteq todo[i]
    BY <1>7 DEF Drop, End, JobShape
  <2>3. \A v \in Versions : copy'[v] = {}
    BY <1>7 DEF Drop
  <2> QED BY <1>4, <2>1, <2>2, <2>3
<1>8. CASE UNCHANGED <<epoch, uid, copy, validity, draft, published>> /\ \A j \in Jobs : ~Select(j)
  <2>1. \A i \in Jobs : pc'[i] = "fetch" => pc[i] = "fetch" /\ ver'[i] = ver[i] /\ todo'[i] \subseteq todo[i]
    BY <1>8, FetchBegins
  <2> QED BY <1>4, <1>8, <2>1
<1>9. \/ Renumber \/ BackupDownload \/ BackupPublish
      \/ \E j \in Jobs : Fetch(j) \/ Select(j) \/ Drop(j)
      \/ UNCHANGED <<epoch, uid, copy, validity, draft, published>>
  BY DEF Next, Outside, Work, vars, Arrive, OtherExpunges, Mark, ReadToTrash, ReadToRestore, Read,
         Trash, Restore, Commit, Cancel, Fails, Start, Enter, Run, Cover, Open, Delete,
         DeleteBreaks, StopDeleting, Look, CountFolder, CountTotal, CountRows, WriteFolder, WriteTotal
<1> QED BY <1>1, <1>2, <1>3, <1>5, <1>6, <1>7, <1>8, <1>9

LEMMA OneEachStep ==
  ASSUME ClaimInv, [Next]_vars
  PROVE  OneEach'
<1>0. copy \in [Versions -> SUBSET Entries]
  BY DEF ClaimInv, MailInv, ArchiveShape
<1>1. CASE BackupPublish
  <2>1. copy' = [copy EXCEPT ![published + 1] = draft.rows] /\ Distinct(draft.rows)
    BY <1>1 DEF BackupPublish, ClaimInv, MailInv, DraftShape
  <2> QED BY <1>0, <2>1 DEF ClaimInv, OneEach
<1>2. ASSUME NEW j \in Jobs, NEW got \in SUBSET box, ver[j] \in kept, pc[j] = "fetch",
             copy' = [copy EXCEPT ![ver[j]] = @ \cup {Row(m, TRUE) : m \in got}],
             \A m \in got : uid[m] \in todo[j] /\ \A r \in copy[ver[j]] : r.uid # uid[m]
      PROVE  OneEach'
  <2>1. ver[j] \in Versions /\ got \subseteq Messages
    BY <1>2, VersionsOf DEF ClaimInv, MailInv, ServerShape
  <2>2. Current(copy[ver[j]]) \/ got = {}
    BY <1>2, <2>1 DEF ClaimInv, Numbered
  <2>3. Distinct(copy[ver[j]] \cup {Row(m, TRUE) : m \in got})
    <3> DEFINE new == {Row(m, TRUE) : m \in got}
    <3>1. Distinct(new) /\ \A r \in new : r.msg \in got
      BY RowsOfMessages
    <3>2. \A r \in copy[ver[j]] : r.msg \notin got
      BY <1>2, <2>2 DEF Current
    <3>3. Distinct(copy[ver[j]])
      BY <2>1 DEF ClaimInv, OneEach
    <3> HIDE DEF new
    <3>4. Distinct(copy[ver[j]] \cup new)
      BY <3>1, <3>2, <3>3 DEF Distinct
    <3> QED BY <3>4 DEF new
  <2>4. copy'[ver[j]] = copy[ver[j]] \cup {Row(m, TRUE) : m \in got}
        /\ \A v \in Versions : v # ver[j] => copy'[v] = copy[v]
    BY <1>0, <1>2, <2>1
  <2> QED BY <2>1, <2>3, <2>4 DEF ClaimInv, OneEach
<1>3. ASSUME NEW j \in Jobs, Drop(j) PROVE OneEach'
  BY <1>3 DEF Drop, OneEach, Distinct
<1>4. CASE copy' = copy
  BY <1>4 DEF ClaimInv, OneEach
<1>5. ASSUME NEW j \in Jobs, Fetch(j) PROVE OneEach'
  BY <1>2, <1>4, <1>5, FetchedRows DEF ClaimInv
<1> QED BY <1>1, <1>3, <1>4, <1>5, Writers, Committed

\* Only trashing takes rows from what a version shows.
LEMMA VisibleGrows ==
  ASSUME MailInv, [Next]_vars, \A q \in Requests : ~Trash(q), NEW v \in kept', v <= published
  PROVE  /\ v \in kept /\ v \in Versions
         /\ Cardinality(MessagesOf(Visible(v))) \in Nat
         /\ Cardinality(MessagesOf(Visible(v))) <= Cardinality(MessagesOf(Visible(v)))'
         /\ Cardinality(MessagesOf(Visible(v)))' \in Nat
<1>1. v \in kept /\ copy[v] \subseteq copy'[v] /\ v \in Versions
  BY RowsGrow, VersionsOf DEF MailInv
<1>2. binned'[v] \subseteq binned[v]
  <2>0. binned \in [Versions -> SUBSET Entries]
    BY DEF MailInv, ArchiveShape
  <2>1. ASSUME NEW q \in Requests, Restore(q) PROVE binned'[v] \subseteq binned[v]
    <3>1. CASE UNCHANGED binned
      BY <3>1
    <3>2. CASE binned' = [binned EXCEPT ![req[q].ver] = binned[req[q].ver] \ {req[q].row}]
      BY <1>1, <2>0, <3>2
    <3> QED BY <2>1, <3>1, <3>2 DEF Restore, Commit
  <2>2. ASSUME NEW j \in Jobs, Drop(j) PROVE FALSE
    BY <2>2 DEF Drop
  <2>3. BackupPublish => UNCHANGED binned
    BY DEF BackupPublish
  <2>4. \A j \in Jobs : Fetch(j) => UNCHANGED binned
    BY DEF Fetch
  <2> QED BY <2>1, <2>2, <2>3, <2>4, Writers
<1> DEFINE new == Visible(v)'
<1>3. Visible(v) \in SUBSET Entries /\ new \in SUBSET Entries /\ Visible(v) \subseteq new
  <2>1. copy'[v] \subseteq Entries
    BY <1>1, NextMail DEF MailInv, ArchiveShape
  <2>2. Visible(v) \in SUBSET Entries
    BY <1>1, VersionsOf DEF MailInv
  <2> QED BY <1>1, <1>2, <2>1, <2>2 DEF Visible
<1>4. MessagesOf(Visible(v))' = MessagesOf(new)
  BY DEF MessagesOf
<1> HIDE DEF new
<1>5. /\ Cardinality(MessagesOf(Visible(v))) <= Cardinality(MessagesOf(new))
      /\ Cardinality(MessagesOf(Visible(v))) \in Nat /\ Cardinality(MessagesOf(new)) \in Nat
  BY <1>3, MoreRows, MessagesAreFinite
<1> QED BY <1>1, <1>4, <1>5

\* The steps that write the version's counter.
LEMMA TotalWriters ==
  [Next]_vars => \/ UNCHANGED <<total, published>> \/ BackupPublish
                 \/ \E j \in Jobs : WriteTotal(j)
                 \/ \E q \in Requests : Trash(q) \/ Restore(q)
BY DEF Next, Outside, Work, vars, Arrive, OtherExpunges, Renumber, Mark, BackupDownload, Cancel, Fails,
       Start, Enter, Run, Cover, Open, Delete, DeleteBreaks, StopDeleting, Look, Select, Fetch,
       CountFolder, CountTotal, CountRows, WriteFolder, Drop, ReadToTrash, ReadToRestore, Read

LEMMA ClaimsStep ==
  ASSUME ClaimInv, [Next]_vars
  PROVE  Claims'
<1>0. /\ copy \in [Versions -> SUBSET Entries] /\ binned \in [Versions -> SUBSET Entries]
      /\ total \in [Versions -> Nat] /\ kept \subseteq Versions /\ published \in Nat
      /\ kept \subseteq 1..published /\ kept' \subseteq 1..published'
      /\ \A v \in Versions : copy[v] \subseteq Entries /\ Visible(v) \subseteq Entries
      /\ MailInv /\ MailInv'
  BY VersionsOf, NextMail DEF ClaimInv, MailInv, ArchiveShape, Claims
<1>1. CASE BackupPublish
  <2>1. PICK n \in Versions : n = published + 1 /\ n > published
    BY <1>1, Sizes DEF BackupPublish, ClaimInv, MailInv, ArchiveShape, DraftShape, Versions
  <2>2. /\ UNCHANGED binned /\ published' = n
        /\ copy' = [copy EXCEPT ![n] = draft.rows]
        /\ total' = [total EXCEPT ![n] = Cardinality(draft.rows)]
    BY <1>1, <2>1 DEF BackupPublish
  <2>3. draft.rows \in SUBSET Entries /\ Distinct(draft.rows)
    BY DEF ClaimInv, MailInv, DraftShape
  <2>4. Cardinality(draft.rows) = Cardinality(MessagesOf(draft.rows)) /\ Cardinality(draft.rows) \in Nat
    BY <2>3, OneRowEach, MessagesAreFinite
  <2>5. Visible(n)' = draft.rows
    BY <1>0, <2>1, <2>2 DEF Visible, MailInv, Binned
  <2>6. total' \in [Versions -> Nat] /\ total'[n] = Cardinality(draft.rows)
        /\ \A v \in Versions : v # n => total'[v] = total[v]
    BY <1>0, <2>1, <2>2, <2>4
  <2>7. total'[n] <= Cardinality(MessagesOf(Visible(n)))'
    BY <2>4, <2>5, <2>6 DEF MessagesOf
  <2>8. \A q \in Requests : ~Trash(q)
    BY <1>0, <2>1, <2>2, Committed
  <2>9. ASSUME NEW v \in kept', v # n PROVE total'[v] <= Cardinality(MessagesOf(Visible(v)))'
    <3>1. v <= published
      BY <1>0, <2>1, <2>2, <2>9
    <3> QED BY <1>0, <2>6, <2>8, <2>9, <3>1, VisibleGrows DEF ClaimInv, Claims
  <2> QED BY <2>6, <2>7, <2>9 DEF Claims
<1>2. ASSUME NEW q \in Requests, Trash(q), req[q].ver \in kept PROVE Claims'
  <2>0. PICK w, r : w = req[q].ver /\ r = req[q].row
    OBVIOUS
  <2>1. w \in Versions /\ UNCHANGED <<kept, copy>> /\ r \in copy[w]
    BY <1>0, <1>2, <2>0, Committed DEF MailInv, RequestShape
  <2>2. binned' = [binned EXCEPT ![w] = @ \cup {r}] /\ total' = [total EXCEPT ![w] = Lower(total[w])]
    BY <1>0, <1>2, <2>0, <2>1 DEF Trash, Commit, ClaimInv, Readings, Asked
  <2>3. /\ Visible(w)' = Visible(w) \ {r}
        /\ \A v \in Versions : v # w => Visible(v)' = Visible(v)
    BY <1>0, <2>1, <2>2 DEF Visible
  <2>4. Lower(total[w]) \in Nat /\ Lower(total[w]) <= total[w]
        /\ (total[w] > 0 => Lower(total[w]) = total[w] - 1)
    BY <1>0, <2>1 DEF Lower
  <2>5. Visible(w) \ {r} \in SUBSET Entries /\ Visible(w) \in SUBSET Entries
    BY <1>0, <2>1
  <2>6. /\ Cardinality(MessagesOf(Visible(w) \ {r})) >= Cardinality(MessagesOf(Visible(w))) - 1
    <3>1. CASE r \in Visible(w)
      BY <2>5, <3>1, OneRowLess
    <3>2. CASE r \notin Visible(w)
      <4>1. Visible(w) \ {r} = Visible(w)
        BY <3>2
      <4>2. Cardinality(MessagesOf(Visible(w))) \in Nat
        BY <2>5, MessagesAreFinite
      <4> QED BY <4>1, <4>2
    <3> QED BY <3>1, <3>2
  <2>7. /\ Cardinality(MessagesOf(Visible(w))) \in Nat
        /\ Cardinality(MessagesOf(Visible(w) \ {r})) \in Nat
    BY <2>5, MessagesAreFinite
  <2>8. w \in kept => Lower(total[w]) <= Cardinality(MessagesOf(Visible(w) \ {r}))
    <3>1. w \in kept => total[w] <= Cardinality(MessagesOf(Visible(w)))
      BY DEF ClaimInv, Claims
    <3>2. total[w] \in Nat
      BY <1>0, <2>1
    <3>3. total[w] = 0 => Lower(total[w]) = 0
      BY DEF Lower
    <3> QED BY <2>4, <2>6, <2>7, <3>1, <3>2, <3>3
  <2>9. w \in kept => Lower(total[w]) <= Cardinality(MessagesOf(Visible(w)))'
    BY <2>3, <2>8 DEF MessagesOf
  <2>10. \A v \in kept : v # w => total'[v] <= Cardinality(MessagesOf(Visible(v)))'
    BY <1>0, <2>2, <2>3 DEF ClaimInv, Claims, MessagesOf
  <2> QED BY <1>0, <2>1, <2>2, <2>4, <2>9, <2>10 DEF Claims
<1>3. ASSUME NEW q \in Requests, Restore(q), req[q].ver \in kept PROVE Claims'
  <2>0. PICK w, r : w = req[q].ver /\ r = req[q].row
    OBVIOUS
  <2>1. w \in Versions /\ UNCHANGED <<kept, copy>> /\ r \in binned[w]
    BY <1>0, <1>3, <2>0, Committed DEF Restore, ClaimInv, Readings, Asked
  <2>2. binned' = [binned EXCEPT ![w] = @ \ {r}] /\ total' = [total EXCEPT ![w] = total[w] + 1]
    BY <1>0, <1>3, <2>0, <2>1 DEF Restore, Commit, ClaimInv, Readings, Asked
  <2>3. r \in copy[w] /\ r \in Entries /\ r \notin Visible(w) /\ Distinct(copy[w])
    BY <1>0, <2>1 DEF ClaimInv, OneEach, MailInv, Binned, Visible
  <2>4. /\ Visible(w)' = Visible(w) \cup {r}
        /\ \A v \in Versions : v # w => Visible(v)' = Visible(v)
    BY <1>0, <2>1, <2>2, <2>3 DEF Visible
  <2>5. Distinct(Visible(w) \cup {r})
    BY <2>3 DEF Distinct, Visible
  <2>6. Cardinality(MessagesOf(Visible(w)))' = Cardinality(MessagesOf(Visible(w))) + 1
    BY <1>0, <2>1, <2>3, <2>4, <2>5, OneRowMore DEF MessagesOf
  <2>7. Cardinality(MessagesOf(Visible(w))) \in Nat
    BY <1>0, <2>1, MessagesAreFinite
  <2>8. w \in kept => total'[w] <= Cardinality(MessagesOf(Visible(w)))'
    BY <1>0, <2>1, <2>2, <2>6, <2>7 DEF ClaimInv, Claims
  <2>9. \A v \in kept : v # w => total'[v] <= Cardinality(MessagesOf(Visible(v)))'
    BY <1>0, <2>2, <2>4 DEF ClaimInv, Claims, MessagesOf
  <2> QED BY <1>0, <2>1, <2>2, <2>8, <2>9 DEF Claims
<1>4. ASSUME NEW j \in Jobs, WriteTotal(j), ver[j] \in kept PROVE Claims'
  <2>1. /\ UNCHANGED <<kept, copy, binned>> /\ total' = [total EXCEPT ![ver[j]] = seen[j]]
    BY <1>4 DEF WriteTotal
  <2>2. /\ ver[j] \in Versions /\ seen[j] \in Nat
        /\ seen[j] <= Cardinality(MessagesOf(Visible(ver[j])))
    BY <1>0, <1>4 DEF WriteTotal, ClaimInv, Readings
  <2>3. \A v \in kept : Cardinality(MessagesOf(Visible(v)))' = Cardinality(MessagesOf(Visible(v)))
    BY <2>1 DEF Visible, MessagesOf
  <2> QED BY <1>0, <2>1, <2>2, <2>3 DEF ClaimInv, Claims
<1>5. ASSUME UNCHANGED <<total, published>>, \A q \in Requests : ~Trash(q) PROVE Claims'
  <2>1. ASSUME NEW v \in kept' PROVE total'[v] <= Cardinality(MessagesOf(Visible(v)))'
    <3>1. v <= published
      BY <1>0, <1>5, <2>1
    <3> QED BY <1>0, <1>5, <2>1, <3>1, VisibleGrows DEF ClaimInv, Claims
  <2> QED BY <1>0, <1>5, <2>1 DEF Claims
<1>6. ASSUME UNCHANGED <<kept, copy, binned, total>> PROVE Claims'
  BY <1>6 DEF ClaimInv, Claims, Visible, MessagesOf
<1>7. ASSUME NEW q \in Requests, Trash(q) \/ Restore(q), req[q].ver \notin kept PROVE Claims'
  BY <1>6, <1>7, Committed
<1>8. ASSUME NEW j \in Jobs, WriteTotal(j), ver[j] \notin kept PROVE Claims'
  BY <1>6, <1>8 DEF WriteTotal
<1> QED BY <1>1, <1>2, <1>3, <1>4, <1>5, <1>7, <1>8, TotalWriters

\* A refresh that has counted keeps its count until it has written it.
LEMMA CountingBegins ==
  ASSUME MailInv, DOMAIN seen = Jobs, [Next]_vars
  PROVE  /\ DOMAIN seen' = Jobs
         /\ \A j \in Jobs : pc'[j] \in {"counted", "totalled"} =>
              \/ pc'[j] = pc[j] /\ ver'[j] = ver[j] /\ seen'[j] = seen[j]
              \/ (CountFolder(j) \/ CountTotal(j)) /\ ver'[j] = ver[j] /\ seen'[j] = Counted(ver[j])
<1> DEFINE Place == {"counted", "totalled"}
           Same(j) == pc'[j] = pc[j] /\ ver'[j] = ver[j] /\ seen'[j] = seen[j]
           Goal == /\ DOMAIN seen' = Jobs
                   /\ \A j \in Jobs : pc'[j] \in Place =>
                        \/ Same(j)
                        \/ (CountFolder(j) \/ CountTotal(j)) /\ ver'[j] = ver[j]
                           /\ seen'[j] = Counted(ver[j])
<1>0. pc \in [Jobs -> Places] /\ ver \in [Jobs -> {0} \cup Versions] /\ kind \in [Jobs -> Kinds]
  BY DEF MailInv, JobShape
<1>1. ASSUME NEW i \in Jobs, NEW s, End(i, s) PROVE Goal
  BY <1>0, <1>1 DEF End
<1>2. ASSUME NEW i \in Jobs, NEW place \in Places \ Place, Goto(i, place),
             ver' = ver \/ \E v : ver' = [ver EXCEPT ![i] = v], seen' = seen
      PROVE  Goal
  BY <1>0, <1>2 DEF Goto
<1>3. ASSUME NEW i \in Jobs, Run(i) PROVE Goal
  <2>1. FirstStep(kind[i]) \notin Place
    BY <1>0 DEF FirstStep, Kinds
  <2> QED BY <1>0, <1>3, <2>1 DEF Run
<1>4. ASSUME pc' = pc, ver' = ver, seen' = seen PROVE Goal
  BY <1>4
<1>5. ASSUME NEW i \in Jobs, CountFolder(i) \/ CountTotal(i) PROVE Goal
  <2>1. /\ seen' = [seen EXCEPT ![i] = Counted(ver[i])] /\ ver' = ver
        /\ \E place \in Place : pc' = [pc EXCEPT ![i] = place]
    BY <1>5 DEF CountFolder, CountTotal, CountRows, Goto
  <2> QED BY <1>0, <1>5, <2>1
<1>6. ASSUME NEW i \in Jobs, Cover(i) \/ Open(i) \/ DeleteBreaks(i) \/ StopDeleting(i) \/ Look(i)
                             \/ Drop(i) \/ Fails(i) \/ WriteFolder(i) \/ WriteTotal(i)
      PROVE  Goal
  <2>1. \/ \E s \in {"failed", "completed"} : End(i, s)
        \/ /\ \E place \in Places \ Place : Goto(i, place)
           /\ ver' = ver \/ \E v : ver' = [ver EXCEPT ![i] = v]
           /\ seen' = seen
    BY <1>6 DEF Cover, Open, DeleteBreaks, StopDeleting, Look, Drop, Fails, WriteFolder, WriteTotal,
       Places
  <2> QED BY <1>1, <1>2, <2>1
<1>7. ASSUME NEW i \in Jobs, Select(i) PROVE Goal
  <2>1. \/ End(i, "failed")
        \/ ver' = ver /\ seen' = seen /\ \E place \in {"total", "count", "fetch"} : Goto(i, place)
    BY <1>7 DEF Select
  <2> QED BY <1>1, <1>2, <2>1 DEF Places
<1>8. ASSUME NEW i \in Jobs, Fetch(i) PROVE Goal
  <2>1. \/ End(i, "failed")
        \/ ver' = ver /\ seen' = seen /\ \E place \in {"count", "fetch"} : Goto(i, place)
    BY <1>8 DEF Fetch
  <2> QED BY <1>1, <1>2, <2>1 DEF Places
<1>9. ASSUME NEW i \in Jobs, Delete(i) PROVE Goal
  BY <1>1, <1>4, <1>9 DEF Delete
<1>10. (pc' = pc /\ ver' = ver /\ seen' = seen) \/ \E i \in Jobs : Fails(i) \/ Work(i)
  BY DEF Next, vars, Outside, Arrive, OtherExpunges, Renumber, Mark, BackupDownload, BackupPublish,
         ReadToTrash, ReadToRestore, Read, Trash, Restore, Commit, Cancel, Start, Enter
<1> HIDE DEF Goal
<1>11. ASSUME NEW i \in Jobs, Work(i) PROVE Goal
  BY <1>3, <1>5, <1>6, <1>7, <1>8, <1>9, <1>11 DEF Work
<1>12. ASSUME NEW i \in Jobs, Fails(i) PROVE Goal
  BY <1>6, <1>12
<1>13. Goal
  <2>1. CASE pc' = pc /\ ver' = ver /\ seen' = seen
    BY <1>4, <2>1
  <2>2. CASE \E i \in Jobs : Fails(i) \/ Work(i)
    BY <1>11, <1>12, <2>2
  <2> QED BY <1>10, <2>1, <2>2
<1> QED BY <1>13 DEF Goal

\* A job looks up versions that are published.
LEMMA LookedUp ==
  ASSUME MailInv, \A j \in Jobs : ver[j] <= published, [Next]_vars
  PROVE  \A j \in Jobs : ver'[j] <= published'
<1>0. /\ ver \in [Jobs -> {0} \cup Versions] /\ published \in Nat /\ published' \in Nat
      /\ published <= published'
  BY RowsGrow, NextMail DEF MailInv, JobShape, ArchiveShape
<1>3. active \in Nat /\ active <= published /\ \A v \in {0} \cup Versions : v \in Nat
  BY DEF MailInv, ArchiveShape, Versions
<1>1. ver' = ver \/ \E i \in Jobs : ver' = [ver EXCEPT ![i] = 0] \/ ver' = [ver EXCEPT ![i] = active]
  <2>1. ver' = ver \/ \E i \in Jobs : Fails(i) \/ Work(i)
    BY DEF Next, vars, Outside, Arrive, OtherExpunges, Renumber, Mark, BackupDownload, BackupPublish,
           ReadToTrash, ReadToRestore, Read, Trash, Restore, Commit, Cancel, Start, Enter
  <2>2. ASSUME NEW i \in Jobs, Fails(i) \/ Work(i)
        PROVE  ver' = ver \/ ver' = [ver EXCEPT ![i] = 0] \/ ver' = [ver EXCEPT ![i] = active]
    BY <2>2 DEF Work, Fails, Run, Cover, Open, Delete, DeleteBreaks, StopDeleting, Look, Select, Fetch,
       CountFolder, CountTotal, CountRows, WriteFolder, WriteTotal, Drop, End
  <2> QED BY <2>1, <2>2
<1>2. ASSUME NEW j \in Jobs PROVE ver'[j] = ver[j] \/ ver'[j] = 0 \/ ver'[j] = active
  <2>1. ver[j] \in {0} \cup Versions
    BY <1>0
  <2> QED BY <1>0, <1>1, <2>1
<1> SUFFICES ASSUME NEW j \in Jobs PROVE ver'[j] <= published'
  OBVIOUS
<1>4. ver[j] \in Nat /\ ver[j] <= published
  <2>1. ver[j] \in {0} \cup Versions
    BY <1>0
  <2> QED BY <1>3, <2>1
<1>5. ver'[j] = ver[j] \/ ver'[j] = 0 \/ ver'[j] = active
  BY <1>2
<1> QED BY <1>0, <1>3, <1>4, <1>5

LEMMA ReadingsStep ==
  ASSUME Alone, ClaimInv, [Next]_vars
  PROVE  Readings'
<1>0. /\ binned \in [Versions -> SUBSET Entries] /\ total \in [Versions -> Nat]
      /\ kept \subseteq Versions /\ published \in Nat /\ DOMAIN req = Requests
      /\ kept' \subseteq 1..published' /\ MailInv /\ MailInv' /\ "requests" \notin Windows
  BY VersionsOf, NextMail
     DEF Alone, ClaimInv, MailInv, ArchiveShape, RequestShape, Claims
<1>1. \A q \in Requests : ~Asked(q) => req[q] = NoRequest
  BY DEF ClaimInv, Readings
<1>2. /\ DOMAIN seen' = Jobs
      /\ \A j \in Jobs : pc'[j] \in {"counted", "totalled"} =>
           \/ pc'[j] = pc[j] /\ ver'[j] = ver[j] /\ seen'[j] = seen[j]
           \/ (CountFolder(j) \/ CountTotal(j)) /\ ver'[j] = ver[j] /\ seen'[j] = Counted(ver[j])
  BY CountingBegins DEF ClaimInv, MailInv, Readings
\* Who asks now, asked before, or nobody did and nobody counts.
<1>3. ASSUME NEW q \in Requests, Asked(q)'
      PROVE  \/ Asked(q) /\ req'[q] = req[q]
             \/ /\ Counting = {} /\ \A p \in Requests : ~Asked(p) /\ (p # q => ~Asked(p)')
                /\ UNCHANGED <<archive, job>>
                /\ req'[q].ver \in Versions /\ req'[q].total = total[req'[q].ver]
                /\ req'[q].op = "restore" => req'[q].row \in binned[req'[q].ver]
  <2>1. CASE UNCHANGED req
    BY <1>3, <2>1 DEF Asked
  <2>2. ASSUME NEW p \in Requests, Trash(p) \/ Restore(p) PROVE Asked(q) /\ req'[q] = req[q]
    <3>1. req' = [req EXCEPT ![p] = NoRequest]
      BY <2>2, Committed
    <3> QED BY <1>0, <1>3, <3>1 DEF Asked, NoRequest
  <2>3. ASSUME NEW p \in Requests, NEW r, ReadToTrash(p, r) \/ ReadToRestore(p, r)
        PROVE  /\ Counting = {} /\ \A i \in Requests : ~Asked(i) /\ (i # q => ~Asked(i)')
               /\ UNCHANGED <<archive, job>>
               /\ req'[q].ver \in Versions /\ req'[q].total = total[req'[q].ver]
               /\ req'[q].op = "restore" => req'[q].row \in binned[req'[q].ver]
    <3>1. /\ UNCHANGED <<archive, job>> /\ active \in Versions
          /\ Counting = {} /\ \A i \in Requests : req[i] = NoRequest
      BY <1>0, <2>3, ReadRow
    <3>2. PICK o \in {"trash", "restore"} :
            /\ req' = [req EXCEPT ![p] = [op |-> o, row |-> r, ver |-> active,
                                        count |-> count[active], total |-> total[active]]]
            /\ o = "restore" => r \in binned[active]
      BY <1>0, <2>3, ReadRow
    <3>3. \A i \in Requests : ~Asked(i) /\ (i # p => ~Asked(i)')
      BY <1>0, <3>1, <3>2 DEF Asked, NoRequest
    <3>4. p = q
      BY <1>3, <3>3
    <3> QED BY <1>0, <3>1, <3>2, <3>3, <3>4
  <2> QED BY <2>1, <2>2, <2>3, RequestWriters
<1>8. \A q \in Requests : Asked(q)' \/ req'[q] = NoRequest
  <2>1. ASSUME NEW p \in Requests, NEW new, req' = [req EXCEPT ![p] = new],
               new = NoRequest \/ new.op \in {"trash", "restore"}
        PROVE  \A q \in Requests : Asked(q)' \/ req'[q] = NoRequest
    BY <1>0, <1>1, <2>1 DEF Asked
  <2>2. ASSUME NEW p \in Requests, NEW r, ReadToTrash(p, r) \/ ReadToRestore(p, r)
        PROVE  \E new : req' = [req EXCEPT ![p] = new] /\ new.op \in {"trash", "restore"}
    BY <1>0, <2>2, ReadRow
  <2>3. CASE UNCHANGED req
    BY <1>1, <2>3 DEF Asked
  <2> QED BY <2>1, <2>2, <2>3, RequestWriters, Committed
<1>4. ASSUME NEW p \in Requests, NEW q \in Requests, Asked(p)', Asked(q)' PROVE p = q
  BY <1>3, <1>4 DEF ClaimInv, Readings
<1>5. ASSUME NEW q \in Requests, Asked(q)', NEW j \in Counting' PROVE FALSE
  <2>1. pc'[j] \in {"counted", "totalled"} /\ j \in Jobs
    BY <1>5 DEF Counting
  <2>2. CASE j \in Counting
    BY <1>3, <1>5, <2>2 DEF ClaimInv, Readings
  <2>3. CASE CountFolder(j) \/ CountTotal(j)
    <3>1. req' = req /\ \A p \in Requests : req[p] = NoRequest
      BY <1>0, <2>3 DEF CountFolder, CountTotal, CountRows
    <3> QED BY <1>5, <3>1 DEF Asked, NoRequest
  <2> QED BY <1>2, <2>1, <2>2, <2>3 DEF Counting
<1>6. ASSUME NEW q \in Requests, Asked(q)', req'[q].ver \in kept'
      PROVE  /\ req'[q].total = total'[req'[q].ver]
             /\ req'[q].op = "restore" => req'[q].row \in binned'[req'[q].ver]
  <2>1. CASE UNCHANGED archive /\ ~Asked(q)
    BY <1>3, <1>6, <2>1
  <2>2. CASE Asked(q) /\ req'[q] = req[q]
    <3>0. PICK w : w = req[q].ver
      OBVIOUS
    <3>1. w \in 1..published /\ w <= published
      BY <2>2, <3>0 DEF ClaimInv, MailInv, RequestShape
    <3>2. w \in kept /\ w \in Versions
      BY <1>0, <1>6, <2>2, <3>0, <3>1, RowsGrow
    <3>3. /\ req[q].total = total[w]
          /\ req[q].op = "restore" => req[q].row \in binned[w]
      BY <2>2, <3>0, <3>2 DEF ClaimInv, Readings
    <3>4. ASSUME NEW p \in Requests, Trash(p) \/ Restore(p) PROVE FALSE
      <4>1. Asked(p) /\ req' = [req EXCEPT ![p] = NoRequest]
        BY <3>4, Committed
      <4>2. p = q
        BY <2>2, <4>1 DEF ClaimInv, Readings
      <4> QED BY <1>0, <1>6, <4>1, <4>2 DEF Asked, NoRequest
    <3>5. ASSUME NEW j \in Jobs, WriteTotal(j) PROVE FALSE
      <4>1. j \in Counting
        BY <3>5 DEF WriteTotal, Counting
      <4> QED BY <2>2, <4>1 DEF ClaimInv, Readings
    <3>6. total'[w] = total[w]
      <4>1. BackupPublish => total' = [total EXCEPT ![published + 1] = Cardinality(draft.rows)]
        BY DEF BackupPublish
      <4>2. w # published + 1
        BY <1>0, <3>1
      <4> QED BY <1>0, <3>2, <3>4, <3>5, <4>1, <4>2, TotalWriters
    <3>7. binned'[w] = binned[w]
      <4>1. \A j \in Jobs : ~Drop(j)
        BY <1>6 DEF Drop
      <4>2. BackupPublish => UNCHANGED binned
        BY DEF BackupPublish
      <4>3. \A j \in Jobs : Fetch(j) => UNCHANGED binned
        BY DEF Fetch
      <4> QED BY <3>4, <4>1, <4>2, <4>3, Writers
    <3> QED BY <2>2, <3>0, <3>3, <3>6, <3>7
  <2> QED BY <1>3, <1>6, <2>1, <2>2
<1>7. ASSUME NEW j \in Jobs, pc'[j] = "totalled", ver'[j] \in kept'
      PROVE  seen'[j] \in Nat /\ seen'[j] <= Cardinality(MessagesOf(Visible(ver[j])))'
  <2>1. PICK w : w = ver[j] /\ w = ver'[j]
    BY <1>2, <1>7
  <2>2. CASE pc[j] = "totalled" /\ seen'[j] = seen[j]
    <3>1. ASSUME NEW q \in Requests, Trash(q) PROVE FALSE
      <4>1. Asked(q)
        BY <3>1, Committed
      <4>2. j \in Counting
        BY <2>2 DEF Counting
      <4> QED BY <4>1, <4>2 DEF ClaimInv, Readings
    <3>2. w <= published /\ w \in kept'
      BY <1>7, <2>1 DEF ClaimInv, Readings
    <3> DEFINE before == Cardinality(MessagesOf(Visible(w)))
               after == Cardinality(MessagesOf(Visible(w)))'
    <3>3. w \in kept /\ before \in Nat /\ before <= after /\ after \in Nat
      BY <1>0, <3>1, <3>2, VisibleGrows
    <3>4. seen[j] \in Nat /\ seen[j] <= before
      BY <2>1, <2>2, <3>3 DEF ClaimInv, Readings
    <3>5. after = Cardinality(MessagesOf(Visible(ver[j])))'
      BY <2>1 DEF Visible, MessagesOf
    <3> HIDE DEF before, after
    <3>6. seen[j] <= after
      BY <3>3, <3>4
    <3> QED BY <2>2, <3>4, <3>5, <3>6
  <2>3. CASE (CountFolder(j) \/ CountTotal(j)) /\ seen'[j] = Counted(ver[j])
    <3>1. UNCHANGED <<copy, binned, kept>>
      BY <2>3 DEF CountFolder, CountTotal, CountRows
    <3>2. w \in Versions /\ Visible(w) \in SUBSET Entries /\ Distinct(Visible(w))
      <4>1. w \in kept /\ w \in Versions
        BY <1>0, <1>7, <2>1, <3>1
      <4>2. Distinct(copy[w]) /\ Visible(w) \subseteq copy[w]
        BY <4>1 DEF ClaimInv, OneEach, Visible
      <4>3. Visible(w) \subseteq Entries
        BY <1>0, <4>1, VersionsOf DEF MailInv
      <4>4. \A r, s \in Visible(w) : r \in copy[w] /\ s \in copy[w]
        BY <4>2
      <4> QED BY <4>1, <4>2, <4>3, <4>4 DEF Distinct
    <3>3. Counted(w) = Cardinality(MessagesOf(Visible(w))) /\ Counted(w) \in Nat
      BY <3>2, OneRowEach, MessagesAreFinite DEF Counted
    <3> DEFINE after == Cardinality(MessagesOf(Visible(ver[j])))'
    <3>4. after = Cardinality(MessagesOf(Visible(w)))
      BY <2>1, <3>1 DEF Visible, MessagesOf
    <3>5. seen'[j] = Counted(w)
      BY <2>1, <2>3
    <3> HIDE DEF after
    <3>6. seen'[j] \in Nat /\ seen'[j] <= after
      BY <3>3, <3>4, <3>5
    <3> QED BY <3>6 DEF after
  <2> QED BY <1>2, <1>7, <2>2, <2>3
<1>9. \A j \in Jobs : ver'[j] <= published'
  BY LookedUp DEF ClaimInv, Readings
<1> QED BY <1>2, <1>4, <1>5, <1>6, <1>7, <1>8, <1>9 DEF Readings

LEMMA ClaimsAtFirst == Init => ClaimInv
<1> SUFFICES ASSUME Init PROVE ClaimInv
  OBVIOUS
<1>1. MailInv
  BY InitMail
<1>2. /\ \A v \in Versions : Current(copy[v]) /\ Distinct(copy[v]) /\ binned[v] = {}
      /\ \A v \in Versions : validity[v] = 1
  <2>1. \A v \in Versions : copy[v] \subseteq {Row(m, TRUE) : m \in box}
    BY DEF Init
  <2>2. Current({Row(m, TRUE) : m \in box}) /\ Distinct({Row(m, TRUE) : m \in box})
    BY RowsOfMessages
  <2> QED BY <2>1, <2>2 DEF Current, Distinct, Init
<1>3. draft.epoch = 1 /\ draft.rows = {} /\ epoch = 1
  BY DEF Init, NoDraft
<1>4. Numbered
  <2>1. \A j \in Jobs : pc[j] # "fetch"
    BY DEF Init
  <2> QED BY <1>2, <1>3, <2>1 DEF Numbered, Current
<1>5. OneEach
  BY <1>2 DEF OneEach
<1>6. Claims
  <2>0. 1 \in Versions
    BY Sizes DEF Versions
  <2>1. copy[1] = {Row(m, TRUE) : m \in 1..First} /\ binned[1] = {}
    BY <2>0 DEF Init
  <2>2. MessagesOf(Visible(1)) = 1..First
    <3>1. Visible(1) = {Row(m, TRUE) : m \in 1..First}
      BY <2>1 DEF Visible
    <3>2. \A m \in 1..First : Row(m, TRUE).msg = m
      BY RowFields
    <3>3. \A r \in Visible(1) : r.msg \in 1..First
      BY <3>1, <3>2
    <3>4. \A m \in 1..First : Row(m, TRUE) \in Visible(1)
      BY <3>1
    <3> QED BY <3>2, <3>3, <3>4 DEF MessagesOf
  <2>3. Cardinality(1..First) = First
    BY Sizes, FS_Interval
  <2> QED BY <2>0, <2>2, <2>3, Sizes DEF Claims, Init
<1>7. Readings
  <2>1. /\ \A q \in Requests : req[q] = NoRequest /\ ~Asked(q)
        /\ \A j \in Jobs : pc[j] = "none"
        /\ DOMAIN seen = Jobs /\ \A j \in Jobs : ver[j] = 0
        /\ published = 1
    BY DEF Init, Asked, NoRequest
  <2> QED BY <2>1 DEF Readings, Counting
<1> QED BY <1>1, <1>4, <1>5, <1>6, <1>7, NeverReusedAtFirst DEF ClaimInv

\* A version never claims more messages than it shows, whatever the server, its other
\* clients, backups, refreshes, clearing and failures do, while no counter is read
\* between the reading and the writing of another request or refresh
\* (app/main.py:3674-3713, app/pec.py:234-247), and no UID is used again.
THEOREM ClaimsStayHeld ==
  ASSUME Alone
  PROVE  Spec => []ClaimsAreHeld
<1>1. Init => ClaimInv
  BY ClaimsAtFirst
<1>2. ClaimInv /\ [Next]_vars => ClaimInv'
  <2> SUFFICES ASSUME ClaimInv, [Next]_vars PROVE ClaimInv'
    OBVIOUS
  <2>1. MailInv' /\ NeverReused'
    BY NextMail, NeverReusedStep DEF ClaimInv, Alone
  <2> QED BY <2>1, NumberedStep, OneEachStep, ClaimsStep, ReadingsStep DEF ClaimInv
<1>3. ClaimInv => ClaimsAreHeld
  BY DEF ClaimInv, Claims, ClaimsAreHeld, MessagesOf
<1> QED BY <1>1, <1>2, <1>3, PTL DEF Spec

-----------------------------------------------------------------------------
(* PurgedIsKept *)

\* A UID is never used again, and a version never loses a row nor the archive a version.
Safe == {"reuse", "expunge", "salvage", "rotation"} \cap Windows = {}

\* A row that bears the UID of a message, now, is the whole of that message.
Faithful(r) ==
  /\ r.full /\ r.uid <= epoch * MaxMessages
  /\ \A m \in Messages : uid[m] = r.uid => r.msg = m

RowsFaithful ==
  /\ \A v \in Versions : \A r \in copy[v] : Faithful(r)
  /\ \A r \in draft.rows : Faithful(r)

\* What a purge that relies on the archive has still to delete, the archive has rows of.
Purging(j) == kind[j] = "purge" /\ pc[j] \in {"open", "delete"}
Covered ==
  \A j \in Jobs : Purging(j) => \A u \in todo[j] : \E v \in kept : \E r \in copy[v] : r.uid = u

PurgeInv == MailInv /\ NeverReused /\ RowsFaithful /\ Covered /\ PurgedIsKept

\* A row stays faithful through a renumbering: UIDs never used are above its own.
LEMMA StaysFaithful ==
  ASSUME Safe, PurgeInv, [Next]_vars, NEW r \in Entries, Faithful(r)
  PROVE  Faithful(r)'
<1>1. CASE Renumber
  <2>1. epoch \in Nat \ {0} /\ Messages \subseteq Nat \ {0} /\ r.uid \in Nat
    BY Sizes DEF PurgeInv, MailInv, ServerShape, Messages, Entries
  <2> DEFINE base == epoch * MaxMessages
  <2>2. base \in Nat /\ epoch' * MaxMessages = base + MaxMessages
    BY <1>1, <2>1, Products, Renumbered DEF Safe
  <2>3. \A m \in Messages : uid'[m] = base + m
    BY <1>1, Renumbered DEF Safe
  <2>4. r.full /\ r.uid <= base
    BY DEF Faithful
  <2> HIDE DEF base
  <2> QED BY <2>1, <2>2, <2>3, <2>4, Sizes DEF Faithful
<1>2. CASE UNCHANGED <<epoch, uid>>
  BY <1>2 DEF Faithful
<1>3. Renumber \/ UNCHANGED <<epoch, uid>>
  BY MailboxWriters DEF Arrive, OtherExpunges, Delete
<1> QED BY <1>1, <1>2, <1>3

LEMMA NewRowIsFaithful ==
  ASSUME NeverReused, NEW r, r.full, r.msg \in Messages, r.uid = uid[r.msg]
  PROVE  Faithful(r)
BY DEF NeverReused, Faithful

LEMMA RowsFaithfulStep ==
  ASSUME Safe, PurgeInv, [Next]_vars
  PROVE  RowsFaithful'
<1>0. /\ copy \in [Versions -> SUBSET Entries] /\ draft.rows \subseteq Entries
      /\ \A v \in Versions : \A r \in copy[v] : Faithful(r)' /\ r \in Entries
      /\ \A r \in draft.rows : Faithful(r)'
  <2>1. copy \in [Versions -> SUBSET Entries] /\ draft.rows \subseteq Entries
    BY DEF PurgeInv, MailInv, ArchiveShape, DraftShape
  <2>2. /\ \A v \in Versions : \A r \in copy[v] : Faithful(r) /\ r \in Entries
        /\ \A r \in draft.rows : Faithful(r) /\ r \in Entries
    BY <2>1 DEF PurgeInv, RowsFaithful
  <2> QED BY <2>1, <2>2, StaysFaithful
<1>1. \A r \in draft'.rows : Faithful(r)'
  <2>1. CASE BackupDownload
    <3>1. /\ \A r \in draft'.rows : r.full /\ r.msg \in Messages /\ r.uid = uid[r.msg]
      BY <2>1, Downloaded DEF Safe, PurgeInv, MailInv, Entries
    <3>2. \A r \in draft'.rows : Faithful(r)
      BY <3>1, NewRowIsFaithful DEF PurgeInv
    <3>3. draft'.rows \subseteq Entries
      BY <2>1, Downloaded DEF PurgeInv, MailInv
    <3> QED BY <3>2, <3>3, StaysFaithful
  <2>2. CASE draft' = NoDraft
    BY <2>2 DEF NoDraft
  <2>3. CASE draft' = draft
    BY <1>0, <2>3
  <2> QED BY <2>1, <2>2, <2>3, DraftWriters
<1>2. \A v \in Versions : \A r \in copy'[v] : Faithful(r)'
  <2>1. CASE BackupPublish
    BY <1>0, <2>1 DEF BackupPublish
  <2>2. ASSUME NEW j \in Jobs, NEW got \in SUBSET box,
               copy' = [copy EXCEPT ![ver[j]] = @ \cup {Row(m, TRUE) : m \in got}]
        PROVE  \A v \in Versions : \A r \in copy'[v] : Faithful(r)'
    <3>1. \A m \in got : Row(m, TRUE) \in Entries /\ Faithful(Row(m, TRUE))
      <4> SUFFICES ASSUME NEW m \in got PROVE Row(m, TRUE) \in Entries /\ Faithful(Row(m, TRUE))
        OBVIOUS
      <4>1. m \in Messages /\ Row(m, TRUE) \in Entries
        BY RowIsEntry DEF PurgeInv, MailInv, ServerShape
      <4>2. Row(m, TRUE).full
        BY DEF Row
      <4>3. Row(m, TRUE).msg = m /\ Row(m, TRUE).uid = uid[m]
        BY RowFields
      <4> DEFINE r == Row(m, TRUE)
      <4>4. r.full /\ r.msg \in Messages /\ r.uid = uid[r.msg]
        BY <4>1, <4>2, <4>3
      <4> HIDE DEF r
      <4>5. Faithful(r)
        BY <4>4, NewRowIsFaithful DEF PurgeInv
      <4> QED BY <4>1, <4>5 DEF r
    <3>2. \A r \in {Row(m, TRUE) : m \in got} : Faithful(r)'
      <4> SUFFICES ASSUME NEW r \in {Row(m, TRUE) : m \in got} PROVE Faithful(r)'
        OBVIOUS
      <4>1. r \in Entries /\ Faithful(r)
        BY <3>1
      <4> QED BY <4>1, StaysFaithful
    <3> QED BY <1>0, <2>2, <3>2
  <2>3. ASSUME NEW j \in Jobs, Drop(j) PROVE \A v \in Versions : copy'[v] = {}
    BY <2>3 DEF Drop
  <2>4. CASE copy' = copy
    BY <1>0, <2>4
  <2>5. \/ copy' = copy \/ BackupPublish \/ \E j \in Jobs : Drop(j)
        \/ \E j \in Jobs : \E got \in SUBSET box :
             copy' = [copy EXCEPT ![ver[j]] = @ \cup {Row(m, TRUE) : m \in got}]
    BY Writers, Committed, FetchedRows DEF PurgeInv
  <2> QED BY <2>1, <2>2, <2>3, <2>4, <2>5
<1> QED BY <1>1, <1>2 DEF RowsFaithful

\* Only clearing takes away rows.
LEMMA RowsStay ==
  ASSUME Safe, PurgeInv, [Next]_vars, \A j \in Jobs : ~Drop(j)
  PROVE  \A v \in kept : v \in kept' /\ copy[v] \subseteq copy'[v]
<1>0. copy \in [Versions -> SUBSET Entries] /\ published \in Nat /\ kept \subseteq 1..published
      /\ kept \subseteq Versions
  BY VersionsOf DEF PurgeInv, MailInv, ArchiveShape
<1>1. CASE BackupPublish
  <2>1. kept' = kept \cup {published + 1} /\ copy' = [copy EXCEPT ![published + 1] = draft.rows]
    BY <1>1 DEF BackupPublish, Rotated, Safe
  <2>2. published + 1 \notin kept
    BY <1>0
  <2> QED BY <1>0, <2>1, <2>2
<1>2. ASSUME NEW j \in Jobs, Fetch(j) PROVE \A v \in kept : v \in kept' /\ copy[v] \subseteq copy'[v]
  <2>1. kept' = kept
    BY <1>2 DEF Fetch
  <2>2. ASSUME NEW new, copy' = [copy EXCEPT ![ver[j]] = @ \cup new]
        PROVE  \A v \in Versions : copy[v] \subseteq copy'[v]
    BY <1>0, <2>2
  <2>3. CASE copy' = copy
    BY <2>1, <2>3
  <2> QED BY <1>0, <1>2, <2>1, <2>2, <2>3, FetchedRows DEF PurgeInv
<1>3. CASE UNCHANGED <<kept, copy>>
  BY <1>3
<1>4. BackupPublish \/ (\E j \in Jobs : Fetch(j)) \/ UNCHANGED <<kept, copy>>
  BY Writers, Committed
<1> QED BY <1>1, <1>2, <1>3, <1>4

\* A purge reads what to delete from the active version; from then on that shrinks.
LEMMA PurgeShrinks ==
  ASSUME PurgeInv, [Next]_vars, NEW j \in Jobs, Purging(j)'
  PROVE  \/ Purging(j) /\ todo'[j] \subseteq todo[j]
         \/ /\ active \in kept /\ todo'[j] \subseteq UidsOf(copy[active])
            /\ Cover(j)
<1>1. /\ pc \in [Jobs -> Places] /\ kind \in [Jobs -> Kinds] /\ todo \in [Jobs -> SUBSET Nat]
  BY DEF PurgeInv, MailInv, JobShape
<1>2. ASSUME NEW i \in Jobs, NEW s, End(i, s) PROVE Purging(j) /\ todo'[j] \subseteq todo[j]
  BY <1>1, <1>2 DEF End, Purging
<1>3. ASSUME NEW i \in Jobs, NEW place \in Places \ {"open", "delete"}, Goto(i, place),
             i # j => todo'[j] = todo[j]
      PROVE  Purging(j) /\ todo'[j] \subseteq todo[j]
  BY <1>1, <1>3 DEF Goto, Purging
<1>4. ASSUME NEW i \in Jobs, Run(i) PROVE Purging(j) /\ todo'[j] \subseteq todo[j]
  <2>1. kind' = kind /\ todo' = todo /\ pc' = [pc EXCEPT ![i] = FirstStep(kind[i])]
    BY <1>4 DEF Run
  <2>2. kind[i] = "purge" => FirstStep(kind[i]) = "cover"
    BY DEF FirstStep
  <2> QED BY <1>1, <2>1, <2>2 DEF Purging
<1>5. ASSUME NEW i \in Jobs, Delete(i) PROVE Purging(j) /\ todo'[j] \subseteq todo[j]
  <2>1. CASE /\ todo' = [todo EXCEPT ![i] = @ \ NextBatch(todo[i])] /\ UNCHANGED <<kind, pc>>
    BY <1>1, <2>1 DEF Purging
  <2> QED BY <1>2, <1>5, <2>1 DEF Delete
<1>6. ASSUME NEW i \in Jobs, Open(i) PROVE Purging(j) /\ todo'[j] \subseteq todo[j]
  <2>1. CASE End(i, "completed")
    BY <1>2, <2>1
  <2>2. CASE /\ pc[i] = "open" /\ todo' = [todo EXCEPT ![i] = Targets(i)] /\ Goto(i, "delete")
    <3>1. kind' = kind /\ pc' = [pc EXCEPT ![i] = "delete"]
      BY <2>2 DEF Goto
    <3>2. kind[i] = "purge" => Targets(i) \subseteq todo[i]
      BY DEF Targets
    <3> QED BY <1>1, <2>2, <3>1, <3>2 DEF Purging
  <2> QED BY <1>6, <2>1, <2>2 DEF Open
<1>7. ASSUME NEW i \in Jobs, i # j, Cover(i) PROVE Purging(j) /\ todo'[j] \subseteq todo[j]
  <2>1. pc'[j] = pc[j] /\ kind'[j] = kind[j] /\ todo'[j] = todo[j]
    BY <1>1, <1>7 DEF Cover, End, Goto
  <2> QED BY <2>1 DEF Purging
<1>8. ASSUME Cover(j)
      PROVE  \/ Purging(j) /\ todo'[j] \subseteq todo[j]
             \/ active \in kept /\ todo'[j] \subseteq UidsOf(copy[active])
  <2>1. CASE End(j, "failed")
    BY <1>2, <2>1
  <2>2. CASE active # 0 /\ todo' = [todo EXCEPT ![j] = UidsOf(Dated(Visible(active), j \in cutoff))]
    <3>1. active \in kept
      BY <2>2 DEF PurgeInv, MailInv, ArchiveShape
    <3>2. UidsOf(Dated(Visible(active), j \in cutoff)) \subseteq UidsOf(copy[active])
      BY DEF UidsOf, Dated, Visible
    <3> QED BY <1>1, <2>2, <3>1, <3>2
  <2> QED BY <1>8, <2>1, <2>2 DEF Cover
<1>9. ASSUME NEW i \in Jobs, Look(i) \/ Select(i) \/ CountFolder(i) \/ CountTotal(i)
                             \/ WriteFolder(i) \/ WriteTotal(i)
                             \/ DeleteBreaks(i) \/ StopDeleting(i) \/ Drop(i) \/ Fails(i)
      PROVE  Purging(j) /\ todo'[j] \subseteq todo[j]
  <2>1. ASSUME NEW s, End(i, s) PROVE Purging(j) /\ todo'[j] \subseteq todo[j]
    BY <1>2, <2>1
  <2>2. i # j => todo'[j] = todo[j]
    BY <1>1, <1>9 DEF Look, Select, CountFolder, CountTotal, CountRows, WriteFolder, WriteTotal,
       DeleteBreaks, StopDeleting, Drop, Fails, End
  <2>3. \/ \E s \in {"failed", "completed"} : End(i, s)
        \/ \E place \in Places \ {"open", "delete"} : Goto(i, place)
    BY <1>9 DEF Look, Select, CountFolder, CountTotal, CountRows, WriteFolder, WriteTotal,
       DeleteBreaks, StopDeleting, Drop, Fails, Places
  <2> QED BY <1>3, <2>1, <2>2, <2>3
<1>10. ASSUME NEW i \in Jobs, Fetch(i) PROVE Purging(j) /\ todo'[j] \subseteq todo[j]
  <2>1. CASE End(i, "failed")
    BY <1>2, <2>1
  <2>2. CASE /\ todo' = [todo EXCEPT ![i] = @ \ NextBatch(todo[i])]
             /\ Goto(i, "count") \/ Goto(i, "fetch")
    <3>1. i # j => todo'[j] = todo[j]
      BY <1>1, <2>2
    <3> QED BY <1>3, <2>2, <3>1 DEF Places
  <2> QED BY <1>10, <2>1, <2>2 DEF Fetch
<1>11. ASSUME NEW i \in Jobs, NEW k \in Kinds, NEW cut \in BOOLEAN, Start(i, k, cut)
       PROVE  Purging(j) /\ todo'[j] \subseteq todo[j]
  <2>1. pc[i] = "none" /\ pc' = pc /\ todo' = todo /\ kind' = [kind EXCEPT ![i] = k]
    BY <1>11 DEF Start, Enter, PurgeInv, MailInv, JobShape
  <2> QED BY <1>1, <2>1 DEF Purging
<1>12. CASE UNCHANGED <<kind, pc, todo>>
  BY <1>12 DEF Purging
<1>13. \/ UNCHANGED <<kind, pc, todo>> \/ \E i \in Jobs : Fails(i) \/ Work(i)
       \/ \E i \in Jobs, k \in Kinds, cut \in BOOLEAN : Start(i, k, cut)
  BY DEF Next, vars, Outside, Arrive, OtherExpunges, Renumber, Mark, BackupDownload, BackupPublish, ReadToTrash,
         ReadToRestore, Read, Trash, Restore, Commit, Cancel
<1> QED BY <1>4, <1>5, <1>6, <1>7, <1>8, <1>9, <1>10, <1>11, <1>12, <1>13 DEF Work

LEMMA CoveredStep ==
  ASSUME Safe, PurgeInv, [Next]_vars
  PROVE  Covered'
<1>1. ASSUME NEW i \in Jobs, Drop(i) PROVE Covered'
  <2>1. i \in Ongoing /\ pc' = [pc EXCEPT ![i] = "none"] /\ pc \in [Jobs -> Places]
    BY <1>1 DEF Drop, End, Ongoing, PurgeInv, MailInv, JobShape
  <2>2. \A j \in Jobs : j # i => pc[j] = "none"
    BY <2>1 DEF PurgeInv, MailInv, JobShape, Ongoing
  <2>3. \A j \in Jobs : pc'[j] = "none"
    BY <2>1, <2>2
  <2> QED BY <2>3 DEF Covered, Purging
<1>2. ASSUME \A i \in Jobs : ~Drop(i), NEW j \in Jobs, Purging(j)', NEW u \in todo'[j]
      PROVE  \E v \in kept' : \E r \in copy'[v] : r.uid = u
  <2>1. \E v \in kept : \E r \in copy[v] : r.uid = u
    <3>1. CASE Purging(j) /\ todo'[j] \subseteq todo[j]
      BY <1>2, <3>1 DEF PurgeInv, Covered
    <3>2. CASE active \in kept /\ todo'[j] \subseteq UidsOf(copy[active])
      BY <1>2, <3>2 DEF UidsOf
    <3> QED BY <1>2, <3>1, <3>2, PurgeShrinks
  <2>2. \A v \in kept : v \in kept' /\ copy[v] \subseteq copy'[v]
    BY <1>2, RowsStay
  <2> QED BY <2>1, <2>2
<1> QED BY <1>1, <1>2 DEF Covered

LEMMA PurgedStep ==
  ASSUME Safe, PurgeInv, [Next]_vars
  PROVE  PurgedIsKept'
<1>1. ASSUME NEW i \in Jobs, Drop(i) PROVE PurgedIsKept'
  BY <1>1 DEF Drop, PurgedIsKept
<1>2. ASSUME \A i \in Jobs : ~Drop(i), NEW m \in purged'
      PROVE  \E v \in kept' : \E r \in copy'[v] : r.msg = m /\ r.full
  <2>1. \E v \in kept : \E r \in copy[v] : r.msg = m /\ r.full
    <3>1. CASE m \in purged
      BY <3>1 DEF PurgeInv, PurgedIsKept
    <3>2. ASSUME NEW j \in Jobs, kind[j] = "purge", Delete(j), m \in Named(NextBatch(todo[j]))
          PROVE  \E v \in kept : \E r \in copy[v] : r.msg = m /\ r.full
      <4>1. m \in Messages /\ uid[m] \in todo[j]
        BY <3>2 DEF Named, NextBatch, PurgeInv, MailInv, ServerShape
      <4>2. PICK v \in kept : \E r \in copy[v] : r.uid = uid[m]
        BY <3>2, <4>1 DEF PurgeInv, Covered, Purging, Delete
      <4>3. PICK r \in copy[v] : r.uid = uid[m]
        BY <4>2
      <4>4. Faithful(r)
        BY <4>3, VersionsOf DEF PurgeInv, MailInv, RowsFaithful
      <4> QED BY <4>1, <4>3, <4>4 DEF Faithful
    <3>3. purged' = purged \/ \E j \in Jobs : Delete(j)
      BY <1>2 DEF Next, Outside, Work, vars, Arrive, OtherExpunges, Renumber, Mark, BackupDownload,
             BackupPublish, ReadToTrash, ReadToRestore, Read, Trash, Restore, Commit, Cancel, Fails, Start, Enter, Run, Cover, Open, DeleteBreaks,
             StopDeleting, Look, Select, Fetch, CountFolder, CountTotal, CountRows, WriteFolder, WriteTotal
    <3>4. ASSUME NEW j \in Jobs, Delete(j)
          PROVE  \/ m \in purged
                 \/ kind[j] = "purge" /\ m \in Named(NextBatch(todo[j]))
      <4>1. "expunge" \notin Windows
        BY DEF Safe
      <4>2. purged' = IF kind[j] = "purge" THEN purged \cup Named(NextBatch(todo[j])) ELSE purged
        BY <3>4, <4>1 DEF Delete
      <4> QED BY <1>2, <4>2
    <3> QED BY <1>2, <3>1, <3>2, <3>3, <3>4
  <2>2. \A v \in kept : v \in kept' /\ copy[v] \subseteq copy'[v]
    BY <1>2, RowsStay
  <2> QED BY <2>1, <2>2
<1> QED BY <1>1, <1>2 DEF PurgedIsKept

\* What a purge removes because the archive holds it, the archive goes on holding
\* in full: as long as no UID is used again, UIDPLUS is there, no backup keeps
\* stubs, and every version is retained.
THEOREM PurgesAreCovered ==
  ASSUME Safe
  PROVE  Spec => []PurgedIsKept
<1>1. Init => PurgeInv
  <2> SUFFICES ASSUME Init PROVE PurgeInv
    OBVIOUS
  <2>1. MailInv
    BY InitMail
  <2>2. epoch = 1 /\ uid = [m \in Messages |-> m] /\ box \subseteq Messages
    BY <2>1 DEF Init, MailInv, ServerShape
  <2>3. NeverReused
    BY <2>2, Sizes DEF NeverReused, Messages
  <2>4. \A r \in {Row(m, TRUE) : m \in box} : Faithful(r)
    <3> SUFFICES ASSUME NEW m \in box PROVE Faithful(Row(m, TRUE))
      OBVIOUS
    <3>1. Row(m, TRUE).full
      BY DEF Row
    <3>2. Row(m, TRUE).msg = m /\ Row(m, TRUE).uid = uid[m]
      BY RowFields
    <3> DEFINE r == Row(m, TRUE)
    <3>3. r.full /\ r.msg \in Messages /\ r.uid = uid[r.msg]
      BY <2>2, <3>1, <3>2
    <3> HIDE DEF r
    <3>4. Faithful(r)
      BY <2>3, <3>3, NewRowIsFaithful
    <3> QED BY <3>4 DEF r
  <2>5. RowsFaithful
    <3>1. draft.rows = {} /\ \A v \in Versions : copy[v] \subseteq {Row(m, TRUE) : m \in box}
      BY DEF Init, NoDraft
    <3> QED BY <2>4, <3>1 DEF RowsFaithful
  <2>6. Covered /\ PurgedIsKept
    BY DEF Init, Covered, Purging, PurgedIsKept
  <2> QED BY <2>1, <2>3, <2>5, <2>6 DEF PurgeInv
<1>2. PurgeInv /\ [Next]_vars => PurgeInv'
  BY NextMail, NeverReusedStep, RowsFaithfulStep, CoveredStep, PurgedStep DEF PurgeInv, Safe
<1>3. PurgeInv => PurgedIsKept
  BY DEF PurgeInv
<1> QED BY <1>1, <1>2, <1>3, PTL DEF Spec

-----------------------------------------------------------------------------
(* Types *)

ServerTypes ==
  /\ arrived \in First..MaxMessages /\ box \subseteq 1..arrived /\ marked \subseteq box
  /\ epoch \in Epochs /\ uid \in [Messages -> Uids]

VersionTypes ==
  /\ published \in Versions /\ protected \subseteq Versions
  /\ copy \in [Versions -> SUBSET Rows] /\ validity \in [Versions -> Epochs]

DraftTypes ==
  /\ draft.rows \subseteq Rows /\ draft.epoch \in Epochs
  /\ draft.base \in {0} \cup Versions /\ draft.exists \in 0..MaxMessages

CounterTypes ==
  /\ remote \in [Versions -> 0..MaxMessages]
  /\ count \in [Versions -> Nat] /\ total \in [Versions -> Nat]
  /\ req \in [Requests -> {NoRequest} \cup Requested]

WorkTypes ==
  /\ cutoff \subseteq Jobs /\ cancelReq \subseteq Jobs
  /\ todo \in [Jobs -> SUBSET Uids] /\ exists \in [Jobs -> 0..MaxMessages]
  /\ seen \in [Jobs -> Nat] /\ purged \subseteq Messages

\* A refresh that has looked up its version goes on with it.
Refreshing == {"select", "fetch", "count", "counted", "total", "totalled"}
Looked == \A j \in Jobs : pc[j] \in Refreshing => ver[j] \in Versions

MailboxTypes ==
  ServerTypes /\ VersionTypes /\ DraftTypes /\ CounterTypes /\ WorkTypes /\ Looked

LEMMA UidRange ==
  /\ Messages \subseteq Uids
  /\ \A e \in Epochs, m \in Messages : e < MaxEpochs => e * MaxMessages + m \in Uids
<1>1. MaxMessages \in Nat \ {0} /\ MaxEpochs \in Nat \ {0}
  BY MailboxAssumption
<1> DEFINE top == MaxMessages * MaxEpochs
<1>2. ASSUME NEW e \in Epochs \cup {0}, e < MaxEpochs
      PROVE  e * MaxMessages \in Nat /\ e * MaxMessages + MaxMessages <= top /\ top \in Nat
  <2> DEFINE left == MaxEpochs - (e + 1)
  <2>1. left \in Nat /\ e \in Nat /\ MaxEpochs = left + (e + 1)
    BY <1>1, <1>2 DEF Epochs
  <2> HIDE DEF left
  <2>2. left * MaxMessages \in Nat /\ e * MaxMessages \in Nat
    BY <1>1, <2>1
  <2>3. top = left * MaxMessages + (e * MaxMessages + MaxMessages)
    BY <1>1, <2>1
  <2> HIDE DEF top
  <2> QED BY <1>1, <2>2, <2>3
<1>3. 0 * MaxMessages = 0
  BY <1>1
<1>4. MaxMessages <= top /\ top \in Nat
  BY <1>1, <1>2, <1>3 DEF Epochs
<1>5. Uids = 1..top
  BY DEF Uids
<1> HIDE DEF top
<1>6. Messages \subseteq Uids
  BY <1>1, <1>4, <1>5 DEF Messages
<1>7. ASSUME NEW e \in Epochs, NEW m \in Messages, e < MaxEpochs
      PROVE  e * MaxMessages + m \in Uids
  <2>1. e * MaxMessages \in Nat /\ e * MaxMessages + MaxMessages <= top /\ top \in Nat
    BY <1>2, <1>7
  <2>2. m \in 1..MaxMessages
    BY DEF Messages
  <2> QED BY <1>1, <1>5, <2>1, <2>2
<1> QED BY <1>6, <1>7

\* There are no more messages than the bound, and any set of rows can be counted.
LEMMA AtMostAll ==
  \A S \in SUBSET Messages : Cardinality(S) \in 0..MaxMessages
<1>1. IsFiniteSet(Messages) /\ Cardinality(Messages) = MaxMessages
  BY Sizes, FS_Interval DEF Messages
<1> QED BY <1>1, Sizes, FS_Subset, FS_CardinalityType

LEMMA RowsAreFinite ==
  ASSUME NEW rows \in SUBSET Rows
  PROVE  Cardinality(rows) \in Nat
<1> DEFINE Triples == (Uids \X Messages) \X BOOLEAN
           f == [t \in Triples |-> [uid |-> t[1][1], msg |-> t[1][2], full |-> t[2]]]
<1>1. IsFiniteSet(Uids) /\ IsFiniteSet(Messages)
  <2>1. MaxMessages * MaxEpochs \in Nat /\ MaxMessages \in Nat
    BY MailboxAssumption
  <2> QED BY <2>1, FS_Interval DEF Uids, Messages
<1>2. IsFiniteSet(BOOLEAN)
  <2>1. IsFiniteSet({TRUE}) /\ IsFiniteSet({TRUE} \cup {FALSE})
    BY FS_Singleton, FS_AddElement
  <2>2. BOOLEAN = {TRUE} \cup {FALSE}
    OBVIOUS
  <2> QED BY <2>1, <2>2
<1>3. IsFiniteSet(Uids \X Messages)
  BY <1>1, FS_Product
<1>4. IsFiniteSet(Triples)
  BY <1>2, <1>3, FS_Product
<1>5. f \in [Triples -> Rows]
  BY DEF Rows
<1>6. ASSUME NEW r \in Rows PROVE \E t \in Triples : f[t] = r
  <2>1. <<<<r.uid, r.msg>>, r.full>> \in Triples /\ f[<<<<r.uid, r.msg>>, r.full>>] = r
    BY DEF Rows
  <2> QED BY <2>1
<1>7. f \in Surjection(Triples, Rows)
  BY <1>5, <1>6 DEF Surjection
<1> HIDE DEF f, Triples
<1>8. IsFiniteSet(Rows)
  BY <1>4, <1>7, FS_Surjection
<1> QED BY <1>8, FS_Subset, FS_CardinalityType

LEMMA RowIsTyped ==
  ASSUME uid \in [Messages -> Uids], NEW m \in Messages, NEW f \in BOOLEAN
  PROVE  Row(m, f) \in Rows
BY DEF Row, Rows

LEMMA ServerTypesStep == MailInv /\ MailboxTypes /\ [Next]_vars => ServerTypes'
<1> SUFFICES ASSUME MailInv, MailboxTypes, [Next]_vars PROVE ServerTypes'
  OBVIOUS
<1> USE DEF MailboxTypes, ServerTypes
<1>0. MaxMessages \in Nat /\ First \in Nat /\ MaxEpochs \in Nat /\ arrived \in Nat
  BY MailboxAssumption DEF ServerTypes
<1>1. CASE Arrive
  <2>1. arrived + 1 \in First..MaxMessages /\ 1..arrived \subseteq 1..(arrived + 1)
    BY <1>0, <1>1 DEF Arrive
  <2> QED BY <1>0, <1>1, <2>1 DEF Arrive
<1>2. ASSUME NEW m, Mark(m) PROVE ServerTypes'
  BY <1>2 DEF Mark
<1>3. CASE OtherExpunges
  BY <1>3 DEF OtherExpunges
<1>4. CASE Renumber
  <2>1. epoch + 1 \in Epochs
    BY <1>0, <1>4 DEF Renumber, Epochs
  <2>2. \A m \in Messages : epoch * MaxMessages + m \in Uids
    BY <1>4, UidRange DEF Renumber
  <2>3. \A m \in Messages : (m \in box \/ m > arrived) =>
          Cardinality({k \in 1..m : k \in box \/ k > arrived}) \in Uids
    <3> SUFFICES ASSUME NEW m \in Messages, m \in box \/ m > arrived
                 PROVE  Cardinality({k \in 1..m : k \in box \/ k > arrived}) \in Messages
      BY UidRange
    <3> DEFINE S == {k \in 1..m : k \in box \/ k > arrived}
    <3>1. m \in Nat \ {0} /\ m <= MaxMessages
      BY <1>0 DEF Messages
    <3>2. IsFiniteSet(1..m) /\ Cardinality(1..m) = m
      BY <3>1, FS_Interval
    <3>3. S \in SUBSET (1..m) /\ m \in S
      BY <3>1
    <3> HIDE DEF S
    <3>4. IsFiniteSet(S) /\ Cardinality(S) <= m /\ Cardinality(S) \in Nat
      BY <3>2, <3>3, FS_Subset, FS_CardinalityType
    <3>5. Cardinality(S) # 0
      BY <3>3, <3>4, FS_EmptySet
    <3> QED BY <1>0, <3>1, <3>4, <3>5 DEF Messages, S
  <2>4. uid' = [m \in Messages |->
                  IF "reuse" \in Windows /\ (m \in box \/ m > arrived)
                  THEN Cardinality({k \in 1..m : k \in box \/ k > arrived})
                  ELSE epoch * MaxMessages + m]
    BY <1>4 DEF Renumber
  <2>5. uid' \in [Messages -> Uids]
    BY <2>2, <2>3, <2>4
  <2> QED BY <1>4, <2>1, <2>5 DEF Renumber
<1>5. ASSUME NEW j \in Jobs, Delete(j) PROVE ServerTypes'
  BY <1>5 DEF Delete
<1>6. ASSUME NEW j \in Jobs, DeleteBreaks(j) PROVE ServerTypes'
  BY <1>6 DEF DeleteBreaks, Named
<1>7. CASE UNCHANGED server
  BY <1>7
<1>8. ASSUME NEW j \in Jobs, Work(j) PROVE UNCHANGED server \/ Delete(j) \/ DeleteBreaks(j)
  BY <1>8 DEF Work, Run, Cover, Open, StopDeleting, Look, Select, Fetch, CountFolder, CountTotal, CountRows, WriteFolder, WriteTotal,
     Drop
<1>9. CASE Outside
  <2>1. \/ UNCHANGED server \/ Arrive \/ OtherExpunges \/ Renumber
        \/ \E m \in Messages : Mark(m)
    BY <1>9 DEF Outside, BackupDownload, BackupPublish, ReadToTrash, ReadToRestore, Read, Trash, Restore, Commit, Cancel, Fails, Start, Enter
  <2> QED BY <1>1, <1>2, <1>3, <1>4, <1>7, <2>1
<1> QED BY <1>5, <1>6, <1>7, <1>8, <1>9 DEF Next, vars

LEMMA DraftTypesStep == MailInv /\ MailboxTypes /\ [Next]_vars => DraftTypes'
<1> SUFFICES ASSUME MailInv, MailboxTypes, [Next]_vars PROVE DraftTypes'
  OBVIOUS
<1> USE DEF MailboxTypes, DraftTypes
<1>1. CASE BackupDownload
  <2>1. PICK got \in SUBSET box, stubs \in SUBSET box :
          draft' = [on |-> TRUE, rows |-> {Row(m, m \notin stubs) : m \in got}, epoch |-> epoch,
                    exists |-> Cardinality(box), base |-> active]
    BY <1>1 DEF BackupDownload
  <2>2. box \in SUBSET Messages /\ epoch \in Epochs /\ uid \in [Messages -> Uids]
    BY DEF ServerTypes, MailInv, ServerShape
  <2>3. {Row(m, m \notin stubs) : m \in got} \subseteq Rows
    <3> SUFFICES ASSUME NEW m \in got PROVE Row(m, m \notin stubs) \in Rows
      OBVIOUS
    <3>1. m \in Messages /\ (m \notin stubs) \in BOOLEAN
      BY <2>2
    <3> QED BY <2>2, <3>1, RowIsTyped
  <2>4. active \in {0} \cup Versions /\ Cardinality(box) \in 0..MaxMessages
    BY <2>2, VersionsOf, AtMostAll DEF MailInv, ArchiveShape
  <2> QED BY <2>1, <2>2, <2>3, <2>4
<1>2. CASE draft' = NoDraft
  BY <1>2, MailboxAssumption DEF NoDraft, Epochs
<1>3. CASE UNCHANGED draft
  BY <1>3
<1> QED BY <1>1, <1>2, <1>3, DraftWriters

LEMMA VersionTypesStep == MailInv /\ MailboxTypes /\ [Next]_vars => VersionTypes'
<1> SUFFICES ASSUME MailInv, MailboxTypes, [Next]_vars PROVE VersionTypes'
  OBVIOUS
<1> USE DEF MailboxTypes, VersionTypes
<1>1. CASE BackupPublish
  <2>1. published + 1 \in Versions /\ kept \subseteq Versions
    BY <1>1, Sizes, VersionsOf DEF BackupPublish, MailInv, ArchiveShape, DraftShape, Versions
  <2>2. protected' \subseteq protected \cup kept /\ published' = published + 1
        /\ copy' = [copy EXCEPT ![published + 1] = draft.rows]
        /\ validity' = [validity EXCEPT ![published + 1] = draft.epoch]
    BY <1>1 DEF BackupPublish
  <2> QED BY <2>1, <2>2 DEF DraftTypes
<1>2. ASSUME NEW j \in Jobs, Fetch(j) PROVE VersionTypes'
  <2>1. \A got \in SUBSET box : {Row(m, TRUE) : m \in got} \subseteq Rows
    BY RowIsTyped DEF ServerTypes, MailInv, ServerShape
  <2>2. copy' = copy \/ \E got \in SUBSET box :
                          copy' = [copy EXCEPT ![ver[j]] = @ \cup {Row(m, TRUE) : m \in got}]
    BY <1>2, FetchedRows
  <2>3. copy' \in [Versions -> SUBSET Rows]
    BY <2>1, <2>2
  <2> QED BY <1>2, <2>3 DEF Fetch
<1>3. ASSUME NEW j \in Jobs, Drop(j) PROVE VersionTypes'
  BY <1>3 DEF Drop
<1>4. CASE UNCHANGED <<published, protected, copy, validity>>
  BY <1>4
<1>5. \/ UNCHANGED <<published, protected, copy, validity>>
      \/ BackupPublish \/ \E j \in Jobs : Fetch(j) \/ Drop(j)
  BY DEF Next, Outside, Work, vars, Arrive, OtherExpunges, Renumber, Mark, BackupDownload, ReadToTrash,
         ReadToRestore, Read, Trash, Restore, Commit, Cancel, Fails, Start, Enter, Run, Cover, Open, Delete, DeleteBreaks,
         StopDeleting, Look, Select, CountFolder, CountTotal, CountRows, WriteFolder, WriteTotal
<1> QED BY <1>1, <1>2, <1>3, <1>4, <1>5

LEMMA CounterWriters ==
  [Next]_vars => \/ UNCHANGED <<remote, count, total>> \/ BackupPublish
                 \/ \E j \in Jobs : WriteFolder(j) \/ WriteTotal(j)
                 \/ \E q \in Requests : Trash(q) \/ Restore(q)
BY DEF Next, Outside, Work, vars, Arrive, OtherExpunges, Renumber, Mark, BackupDownload, Cancel, Fails,
       Start, Enter, Run, Cover, Open, Delete, DeleteBreaks, StopDeleting, Look, Select, Fetch,
       CountFolder, CountTotal, CountRows, Drop, ReadToTrash, ReadToRestore, Read

\* A counter never goes below zero, whatever has been read of it and when.
LEMMA CounterTypesStep == MailInv /\ MailboxTypes /\ [Next]_vars => CounterTypes'
<1> SUFFICES ASSUME MailInv, MailboxTypes, [Next]_vars PROVE CounterTypes'
  OBVIOUS
<1> DEFINE Counters == /\ remote \in [Versions -> 0..MaxMessages]
                       /\ count \in [Versions -> Nat] /\ total \in [Versions -> Nat]
<1>0. CounterTypes /\ Counters /\ MaxMessages \in Nat
  BY Sizes DEF MailboxTypes, CounterTypes
<1>1. Counters'
  <2>1. CASE BackupPublish
    <3>1. Cardinality(draft.rows) \in Nat /\ draft.exists \in 0..MaxMessages
      BY RowsAreFinite DEF MailboxTypes, DraftTypes
    <3>2. draft.exists \in Nat
      BY <1>0, <3>1
    <3> QED BY <1>0, <2>1, <3>1, <3>2 DEF BackupPublish
  <2>2. ASSUME NEW q \in Requests, Trash(q) \/ Restore(q) PROVE Counters'
    <3>1. CASE UNCHANGED <<count, total>>
      BY <1>0, <2>2, <3>1, Committed
    <3>2. CASE req[q].ver \in kept
      <4>1. req[q] \in Requested
        BY <1>0, <2>2, Committed DEF CounterTypes, Asked, NoRequest
      <4>2. req[q].count \in Nat /\ req[q].total \in Nat
        BY <4>1 DEF Requested
      <4>3. /\ Lower(req[q].count) \in Nat /\ req[q].count + 1 \in Nat
            /\ Lower(req[q].total) \in Nat /\ req[q].total + 1 \in Nat
        BY <4>2 DEF Lower
      <4> QED BY <1>0, <2>2, <3>2, <4>3 DEF Trash, Restore, Commit
    <3> QED BY <2>2, <3>1, <3>2 DEF Trash, Restore, Commit
  <2>3. ASSUME NEW j \in Jobs, WriteFolder(j) \/ WriteTotal(j) PROVE Counters'
    <3>1. seen[j] \in Nat /\ exists[j] \in 0..MaxMessages
      BY DEF MailboxTypes, WorkTypes
    <3> QED BY <1>0, <2>3, <3>1 DEF WriteFolder, WriteTotal
  <2>4. CASE UNCHANGED <<remote, count, total>>
    BY <1>0, <2>4
  <2> QED BY <2>1, <2>2, <2>3, <2>4, CounterWriters
<1>2. req' \in [Requests -> {NoRequest} \cup Requested]
  <2>0. req \in [Requests -> {NoRequest} \cup Requested]
    BY <1>0 DEF CounterTypes
  <2>1. ASSUME NEW q \in Requests, NEW r, ReadToTrash(q, r) \/ ReadToRestore(q, r)
        PROVE  req' \in [Requests -> {NoRequest} \cup Requested]
    <3>1. active \in Versions /\ r \in copy[active]
      BY <2>1, ReadRow
    <3>2. r \in Rows /\ count[active] \in Nat /\ total[active] \in Nat
      BY <1>0, <3>1 DEF MailboxTypes, VersionTypes
    <3>3. PICK o \in {"trash", "restore"} :
            req' = [req EXCEPT ![q] = [op |-> o, row |-> r, ver |-> active,
                                        count |-> count[active], total |-> total[active]]]
      BY <2>1, ReadRow
    <3>4. [op |-> o, row |-> r, ver |-> active, count |-> count[active], total |-> total[active]]
            \in Requested
      BY <3>1, <3>2 DEF Requested
    <3> QED BY <2>0, <3>3, <3>4
  <2>2. ASSUME NEW q \in Requests, Trash(q) \/ Restore(q)
        PROVE  req' \in [Requests -> {NoRequest} \cup Requested]
    BY <2>0, <2>2, Committed
  <2> QED BY <2>0, <2>1, <2>2, RequestWriters
<1> QED BY <1>1, <1>2 DEF CounterTypes

LEMMA LookedStep == MailInv /\ Looked /\ [Next]_vars => Looked'
<1> SUFFICES ASSUME MailInv, Looked, [Next]_vars PROVE Looked'
  OBVIOUS
<1>0. pc \in [Jobs -> Places] /\ ver \in [Jobs -> {0} \cup Versions] /\ kind \in [Jobs -> Kinds]
  BY DEF MailInv, JobShape
<1>1. ASSUME NEW i \in Jobs, NEW s, End(i, s) PROVE Looked'
  BY <1>0, <1>1 DEF End, Looked, Refreshing
<1>2. ASSUME NEW i \in Jobs, NEW place, Goto(i, place), ver' = ver,
             place \notin Refreshing \/ pc[i] \in Refreshing
      PROVE  Looked'
  BY <1>0, <1>2 DEF Goto, Looked
<1>3. ASSUME NEW i \in Jobs, Run(i) PROVE Looked'
  <2>1. FirstStep(kind[i]) \notin Refreshing
    BY <1>0 DEF FirstStep, Kinds, Refreshing
  <2> QED BY <1>0, <1>3, <2>1 DEF Run, Looked
<1>4. ASSUME NEW i \in Jobs, Look(i) PROVE Looked'
  <2>1. CASE active # 0 /\ ver' = [ver EXCEPT ![i] = active] /\ Goto(i, "select")
    <3>1. active \in Versions
      BY <2>1, VersionsOf DEF MailInv, ArchiveShape
    <3> QED BY <1>0, <2>1, <3>1 DEF Goto, Looked
  <2> QED BY <1>1, <1>4, <2>1 DEF Look
<1>5. CASE pc' = pc /\ ver' = ver
  BY <1>5 DEF Looked
<1>6. ASSUME NEW i \in Jobs, Cover(i) \/ Open(i) \/ DeleteBreaks(i) \/ StopDeleting(i) \/ Drop(i)
                             \/ Fails(i)
      PROVE  Looked'
  <2>1. \/ \E s \in {"failed", "completed"} : End(i, s)
        \/ ver' = ver /\ \E place \in {"open", "delete"} : Goto(i, place)
    BY <1>6 DEF Cover, Open, DeleteBreaks, StopDeleting, Drop, Fails
  <2> QED BY <1>1, <1>2, <2>1 DEF Refreshing
<1>7. ASSUME NEW i \in Jobs, Delete(i) PROVE Looked'
  BY <1>1, <1>5, <1>7 DEF Delete
<1>8. ASSUME NEW i \in Jobs, Select(i) \/ Fetch(i) \/ CountFolder(i) \/ CountTotal(i)
                             \/ WriteFolder(i) \/ WriteTotal(i)
      PROVE  Looked'
  <2>1. pc[i] \in Refreshing
    BY <1>8 DEF Select, Fetch, CountFolder, CountTotal, CountRows, WriteFolder, WriteTotal, Refreshing
  <2>2. \/ \E s \in {"failed", "completed"} : End(i, s)
        \/ ver' = ver /\ \E place \in Refreshing : Goto(i, place)
    BY <1>8 DEF Select, Fetch, CountFolder, CountTotal, CountRows, WriteFolder, WriteTotal, Refreshing
  <2> QED BY <1>1, <1>2, <2>1, <2>2
<1>9. (pc' = pc /\ ver' = ver) \/ \E i \in Jobs : Fails(i) \/ Work(i)
  BY DEF Next, vars, Outside, Arrive, OtherExpunges, Renumber, Mark, BackupDownload, BackupPublish,
         ReadToTrash, ReadToRestore, Read, Trash, Restore, Commit, Cancel, Start, Enter
<1> QED BY <1>3, <1>4, <1>5, <1>6, <1>7, <1>8, <1>9 DEF Work

LEMMA EndKeepsTypes ==
  ASSUME WorkTypes, NEW j \in Jobs, NEW s, End(j, s), purged' \subseteq Messages
  PROVE  WorkTypes'
BY Sizes DEF WorkTypes, End

LEMMA WorkTypesStep == MailInv /\ MailboxTypes /\ [Next]_vars => WorkTypes'
<1> SUFFICES ASSUME MailInv, MailboxTypes, [Next]_vars PROVE WorkTypes'
  OBVIOUS
<1>0. /\ WorkTypes /\ box \in SUBSET Messages /\ marked \subseteq box
      /\ uid \in [Messages -> Uids] /\ copy \in [Versions -> SUBSET Rows]
      /\ active \in {0} \cup Versions /\ Cardinality(box) \in 0..MaxMessages
  BY VersionsOf, AtMostAll
     DEF MailboxTypes, ServerTypes, VersionTypes, MailInv, ServerShape, ArchiveShape
<1>1. ASSUME NEW j \in Jobs, NEW k, NEW cut, Start(j, k, cut) PROVE WorkTypes'
  BY <1>0, <1>1 DEF Start, Enter, WorkTypes
<1>2. ASSUME NEW j \in Jobs, Cancel(j) \/ Run(j) PROVE WorkTypes'
  BY <1>0, <1>2 DEF Cancel, Run, WorkTypes
<1>3. ASSUME NEW j \in Jobs, Fails(j) \/ DeleteBreaks(j) \/ StopDeleting(j) \/ Drop(j)
      PROVE  WorkTypes'
  BY <1>0, <1>3, EndKeepsTypes DEF Fails, DeleteBreaks, StopDeleting, Drop, WorkTypes
<1>4. ASSUME NEW j \in Jobs, Cover(j) PROVE WorkTypes'
  <2>1. active # 0 => UidsOf(Dated(Visible(active), j \in cutoff)) \subseteq Uids
    BY <1>0 DEF UidsOf, Dated, Visible, Rows
  <2>2. CASE End(j, "failed")
    BY <1>0, <1>4, <2>2, EndKeepsTypes DEF Cover, WorkTypes
  <2> QED BY <1>0, <1>4, <2>1, <2>2 DEF Cover, Goto, WorkTypes
<1>5. ASSUME NEW j \in Jobs, Open(j) PROVE WorkTypes'
  <2>1. Targets(j) \subseteq Uids
    BY <1>0 DEF Targets
  <2>2. CASE End(j, "completed")
    BY <1>0, <1>5, <2>2, EndKeepsTypes DEF Open, WorkTypes
  <2> QED BY <1>0, <1>5, <2>1, <2>2 DEF Open, Goto, WorkTypes
<1>6. ASSUME NEW j \in Jobs, Delete(j) PROVE WorkTypes'
  <2>1. purged' \subseteq Messages
    BY <1>0, <1>6 DEF Delete, Named, WorkTypes
  <2>2. CASE End(j, "completed")
    BY <1>0, <2>1, <2>2, EndKeepsTypes
  <2>3. CASE /\ todo' = [todo EXCEPT ![j] = @ \ NextBatch(todo[j])]
             /\ UNCHANGED <<kind, cutoff, status, cancelReq, pc, ver, exists, seen>>
    BY <1>0, <2>1, <2>3 DEF WorkTypes
  <2> QED BY <1>6, <2>2, <2>3 DEF Delete
<1>7. ASSUME NEW j \in Jobs, Look(j) PROVE WorkTypes'
  <2>1. CASE End(j, "failed")
    BY <1>0, <1>7, <2>1, EndKeepsTypes DEF Look, WorkTypes
  <2> QED BY <1>0, <1>7, <2>1 DEF Look, Goto, WorkTypes
<1>8. ASSUME NEW j \in Jobs, Select(j) PROVE WorkTypes'
  <2>1. {uid[m] : m \in box} \ Known(ver[j]) \subseteq Uids
    BY <1>0
  <2>2. CASE End(j, "failed")
    BY <1>0, <1>8, <2>2, EndKeepsTypes DEF Select, WorkTypes
  <2> QED BY <1>0, <1>8, <2>1, <2>2 DEF Select, Goto, WorkTypes
<1>9. ASSUME NEW j \in Jobs, Fetch(j) PROVE WorkTypes'
  <2>1. CASE End(j, "failed")
    BY <1>0, <1>9, <2>1, EndKeepsTypes DEF Fetch, WorkTypes
  <2>2. CASE /\ todo' = [todo EXCEPT ![j] = @ \ NextBatch(todo[j])]
             /\ Goto(j, "fetch") \/ Goto(j, "count")
             /\ UNCHANGED <<ver, exists, seen>>
    BY <1>0, <1>9, <2>2 DEF Fetch, Goto, WorkTypes
  <2> QED BY <1>9, <2>1, <2>2 DEF Fetch
<1>10. ASSUME NEW j \in Jobs, CountFolder(j) \/ CountTotal(j) PROVE WorkTypes'
  <2>1. Counted(ver[j]) \in Nat
    <3>1. ver[j] \in Versions
      BY <1>10 DEF CountFolder, CountTotal, CountRows, MailboxTypes, Looked, Refreshing
    <3>2. Visible(ver[j]) \in SUBSET Rows
      BY <1>0, <3>1 DEF Visible
    <3> QED BY <3>2, RowsAreFinite DEF Counted
  <2> QED BY <1>0, <1>10, <2>1 DEF CountFolder, CountTotal, CountRows, Goto, WorkTypes
<1>13. ASSUME NEW j \in Jobs, WriteFolder(j) \/ WriteTotal(j) PROVE WorkTypes'
  <2>1. CASE End(j, "failed") \/ End(j, "completed")
    BY <1>0, <1>13, <2>1, EndKeepsTypes DEF WriteFolder, WriteTotal, WorkTypes
  <2> QED BY <1>0, <1>13, <2>1 DEF WriteFolder, WriteTotal, Goto, WorkTypes
<1>11. CASE UNCHANGED <<job, purged>>
  BY <1>0, <1>11 DEF WorkTypes
<1>12. CASE Outside
  <2>1. \/ UNCHANGED <<job, purged>>
        \/ \E j \in Jobs : \/ Cancel(j) \/ Fails(j)
                           \/ \E k \in Kinds, cut \in BOOLEAN : Start(j, k, cut)
    BY <1>12 DEF Outside, Arrive, OtherExpunges, Renumber, Mark, BackupDownload, BackupPublish,
       ReadToTrash, ReadToRestore, Read, Trash, Restore, Commit
  <2> QED BY <1>1, <1>2, <1>3, <1>11, <2>1
<1> QED BY <1>2, <1>3, <1>4, <1>5, <1>6, <1>7, <1>8, <1>9, <1>10, <1>11, <1>12, <1>13
        DEF Next, Work, vars

\* Every variable keeps its type in every window: what trash and refreshes write, from
\* whatever reading of a counter (app/main.py:3674-3684, app/pec.py:234-246), is a number
\* of messages, never less than none, and a request or a refresh holds a row, a version
\* and numbers of the archive until it is over.
THEOREM TypeCorrect == Spec => []TypeOK
<1>1. Init => MailInv /\ MailboxTypes
  <2> SUFFICES ASSUME Init PROVE MailboxTypes
    BY InitMail
  <2>0. MaxMessages \in Nat \ {0} /\ First \in 1..MaxMessages /\ 1 \in Epochs /\ 1 \in Versions
    BY MailboxAssumption DEF Epochs, Versions
  <2>1. uid \in [Messages -> Uids] /\ box \in SUBSET Messages
    BY <2>0, UidRange DEF Init, Messages
  <2>2. ServerTypes
    BY <2>0, <2>1 DEF Init, ServerTypes
  <2>3. {Row(m, TRUE) : m \in box} \subseteq Rows
    BY <2>1, RowIsTyped
  <2>4. VersionTypes
    BY <2>0, <2>3 DEF Init, VersionTypes
  <2>5. DraftTypes
    BY <2>0 DEF Init, DraftTypes, NoDraft
  <2>6. CounterTypes
    BY <2>0 DEF Init, CounterTypes
  <2>7. WorkTypes
    BY <2>0 DEF Init, WorkTypes
  <2>8. Looked
    BY DEF Init, Looked, Refreshing
  <2> QED BY <2>2, <2>4, <2>5, <2>6, <2>7, <2>8 DEF MailboxTypes
<1>2. MailInv /\ MailboxTypes /\ [Next]_vars => MailInv' /\ MailboxTypes'
  BY NextMail, ServerTypesStep, VersionTypesStep, DraftTypesStep, CounterTypesStep, WorkTypesStep,
     LookedStep DEF MailboxTypes
<1>3. MailInv /\ MailboxTypes => TypeOK
  BY DEF MailInv, ArchiveShape, Binned, JobShape, MailboxTypes, ServerTypes,
     VersionTypes, DraftTypes, CounterTypes, WorkTypes, TypeOK
<1> QED BY <1>1, <1>2, <1>3, PTL DEF Spec
==============================================================================
