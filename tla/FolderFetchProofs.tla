------------------------- MODULE FolderFetchProofs -------------------------
(* What holds of FolderFetch for any mailbox, any order of its folders, any  *)
(* number of sessions, any sizes of batches and of the server's SEARCH, and  *)
(* any faults.                                                               *)
EXTENDS FolderFetch, FiniteSetTheorems, SequenceTheorems, TLAPS

-----------------------------------------------------------------------------
(* The inductive invariant *)

\* A thread uses a session between taking it and giving it back.
Using == {"select", "batch", "single", "salvage"}

\* The pool has each session that no thread has, and each once.
PoolInv ==
  /\ \A s \in Slots : conn[s] # 0 <=> step[s] \in Using
  /\ \A s, t \in Slots : conn[s] # 0 /\ conn[s] = conn[t] => s = t
  /\ IsInjective(free)
  /\ \A c \in Slots : c \in Range(free) <=> \A s \in Slots : conn[s] # c

\* What the program recalls of a session is so, and a thread asks for messages
\* where its session has selected the folder of the run.
RecallInv ==
  /\ \A c \in Slots : recalled[c] # NoFolder => recalled[c] = selected[c]
  /\ \A s \in Slots : step[s] \in Using \ {"select"} => recalled[conn[s]] = Here

\* Between folders nothing is in flight, and threads work within a folder only.
Between == Running /\ phase \in {"next", "listing"}
LoopInv ==
  /\ phase \in {"listing", "first", "second"} => at <= Len(FolderList)
  /\ Running => phase # "over"
  /\ handling # {} => Running
  /\ Between => Idle = Slots /\ queue = <<>> /\ refused = {} /\ handling = {}
  /\ \A s \in Slots : step[s] \in Using \cup {"submitted"} => phase \in {"first", "second"}
  /\ Running /\ phase = "second" => refused = {}
  /\ outcome = "completed" => at > Len(FolderList)

\* What a thread has of its batch: to ask for, received, refused.
Of(f) == {u \in Uids : <<f, u>> \in Mailbox}
Taken(s) == {m.uid : m \in got[s]}
Held(s) == left[s] \cup bad[s] \cup Taken(s)

SlotOK(s) ==
  /\ step[s] = "single" => left[s] # {}
  /\ step[s] = "salvage" => left[s] = {} /\ bad[s] # {} /\ phase = "second"
  /\ step[s] = "done" => left[s] = {}
  /\ Running /\ step[s] = "idle" => left[s] = {} /\ bad[s] = {} /\ got[s] = {}
SlotInv == \A s \in Slots : SlotOK(s)

\* A message is in one of these, once, as the server gave it: from the folder of the
\* run, and whole in the first pass.
BatchOK(s) ==
  /\ left[s] \cap bad[s] = {} /\ left[s] \cap Taken(s) = {} /\ bad[s] \cap Taken(s) = {}
  /\ Held(s) \subseteq Of(Here)
  /\ \A m, n \in got[s] : m.uid = n.uid => m = n
  /\ \A m \in got[s] : m.from = Here /\ (phase = "first" => m.whole)
  /\ phase = "second" => \A u, v \in Held(s) : u = v
BatchInv == Pass => \A s \in Slots : BatchOK(s)

\* The messages of the folder that are stored or noted.
Settled == {u \in Uids : <<Here, u>> \in Stored \cup skipped}

\* Batches, what the threads hold, what waits for the second pass and what is
\* settled have no message in common.
ApartInv ==
  Pass =>
    /\ \A s \in Slots : Held(s) \cap (Settled \cup refused) = {}
    /\ \A s, t \in Slots : s # t => Held(s) \cap Held(t) = {}
    /\ \A i \in DOMAIN queue :
         /\ queue[i] \subseteq Of(Here)
         /\ queue[i] \cap (Settled \cup refused) = {}
         /\ \A s \in Slots : queue[i] \cap Held(s) = {}
         /\ \A j \in DOMAIN queue : i # j => queue[i] \cap queue[j] = {}
         /\ phase = "second" => \A u, v \in queue[i] : u = v
    /\ refused \subseteq Of(Here) /\ refused \cap Settled = {}

\* Folders the run is through with, and the one it is at.
Past == {FolderList[i] : i \in {j \in 1..Len(FolderList) : j < at}}
Reached == {FolderList[i] : i \in {j \in 1..Len(FolderList) :
                               j < at \/ (j = at /\ phase \in {"first", "second"})}}

\* The archive so far.
ArchiveInv ==
  /\ Stored \subseteq Mailbox
  /\ \A m \in Stored \cup skipped : Running => m[1] \in Reached
  /\ partial = {Key(r) : r \in {x \in rows : ~x.whole}}

\* Nothing the server still has is forgotten: of a folder the run has left it is
\* settled, of the present one settled or on its way.
OnItsWay ==
  {u \in Uids : \/ u \in Settled \cup refused
                \/ \E i \in DOMAIN queue : u \in queue[i]
                \/ \E s \in Slots : u \in Held(s)}
CoverInv ==
  /\ outcome \in {"running", "completed"} =>
       \A m \in mail : m[1] \in Past => m \in Stored \cup skipped
  /\ Pass => UidsOf(Here) \subseteq OnItsWay
  /\ Running /\ phase = "listing" => Cardinality(UidsOf(Here)) <= exists[Here]

FetchInv == /\ TypeOK /\ PoolInv /\ RecallInv /\ LoopInv /\ SlotInv /\ BatchInv /\ ApartInv
            /\ ArchiveInv /\ CoverInv /\ StoredOnce

-----------------------------------------------------------------------------
(* The constants, and the operators of the library *)

LEMMA Bounds ==
  /\ Width \in Nat \ {0} /\ BatchSize \in Nat \ {0} /\ SearchCap \in Nat \ {0}
  /\ MaxDrops \in Nat
  /\ Uids \subseteq Nat /\ IsFiniteSet(Mailbox) /\ NoFolder \notin Folders
  /\ Slots \subseteq Nat /\ 0 \notin Slots /\ 1 \in Slots
  /\ \A m \in Mailbox : m = <<m[1], m[2]>> /\ m[1] \in Folders /\ m[2] \in Uids
BY FetchAssumption DEF Uids, Slots

LEMMA FoldersInOrder ==
  /\ Len(FolderList) \in Nat
  /\ \A i \in 1..Len(FolderList) : FolderList[i] \in Folders
  /\ \A i, j \in 1..Len(FolderList) : FolderList[i] = FolderList[j] => i = j
  /\ \A f \in Folders : \E i \in 1..Len(FolderList) : f = FolderList[i]
<1>1. FolderList \in Seq(Folders) /\ IsInjective(FolderList)
  BY FetchAssumption
<1>2. Len(FolderList) \in Nat /\ DOMAIN FolderList = 1..Len(FolderList)
  BY <1>1, LenProperties
<1> QED BY <1>1, <1>2 DEF Folders, Range, IsInjective

\* A set of numbers has a smallest one.
LEMMA MinIsIn ==
  ASSUME NEW S \in SUBSET Nat, S # {}
  PROVE  Min(S) \in S
<1> DEFINE R == {ss \in Nat \X Nat : ss[1] < ss[2]}
<1>1. IsWellFoundedOn(R, Nat)
  BY NatLessThanWellFounded, Zenon DEF OpToRel
<1>2. PICK x \in S : \A y \in S : ~ (<<y, x>> \in R)
  <2> HIDE DEF R
  <2> QED BY <1>1, WFMin
<1>3. \A y \in S : ~ (y < x)
  BY <1>2
<1>4. \E z \in S : \A y \in S : z =< y
  BY <1>3
<1> QED BY <1>4 DEF Min

\* The UIDs of a folder are as many as its messages, hence finitely many.
LEMMA UidsAreFew ==
  ASSUME NEW M \in SUBSET Mailbox, NEW f
  PROVE  LET U == {m[2] : m \in {x \in M : x[1] = f}}
         IN  IsFiniteSet(U) /\ U \subseteq Of(f) /\ Cardinality(U) <= Cardinality(Mailbox)
<1> DEFINE U == {m[2] : m \in {x \in M : x[1] = f}}
           g == [u \in U |-> <<f, u>>]
<1>1. \A u \in U : <<f, u>> \in Mailbox
  BY Bounds
<1>2. g \in Injection(U, Mailbox)
  BY <1>1 DEF Injection, IsInjective
<1>3. IsFiniteSet(U) /\ Cardinality(U) <= Cardinality(Mailbox)
  <2> HIDE DEF U, g
  <2> QED BY <1>2, Bounds, FS_Injection
<1>4. U \subseteq Of(f)
  BY <1>1, Bounds DEF Of
<1> QED BY <1>3, <1>4

LEMMA UidsAreFinite == IsFiniteSet(Uids)
<1> DEFINE g == [m \in Mailbox |-> m[2]]
<1>1. g \in Surjection(Mailbox, Uids)
  BY DEF Surjection, Uids
<1> HIDE DEF g
<1> QED BY <1>1, Bounds, FS_Surjection

\* The batches of a set are a partition of it.
LEMMA BatchesPartition ==
  ASSUME NEW S \in SUBSET Uids
  PROVE  /\ Batches(S) \in Seq(SUBSET Uids)
         /\ \A i \in DOMAIN Batches(S) : Batches(S)[i] \subseteq S
         /\ \A i, j \in DOMAIN Batches(S) : i # j => Batches(S)[i] \cap Batches(S)[j] = {}
         /\ \A u \in S : \E i \in DOMAIN Batches(S) : u \in Batches(S)[i]
<1> DEFINE c == Cardinality(S)
           n == (c + BatchSize - 1) \div BatchSize
           b == Batches(S)
<1>1. IsFiniteSet(S) /\ c \in Nat
  BY UidsAreFinite, FS_Subset, FS_CardinalityType
<1>2. n \in Nat /\ b = [k \in 1..n |-> {u \in S : Place(u, S) \div BatchSize = k - 1}]
  BY <1>1, Bounds DEF Batches
<1>3. ASSUME NEW u \in S
      PROVE  Place(u, S) \in Nat /\ Place(u, S) < c
  <2> DEFINE T == {v \in S : v < u}
  <2>1. u \notin T /\ T \subseteq S \ {u}
    BY Bounds
  <2>2. IsFiniteSet(S \ {u}) /\ Cardinality(S \ {u}) = c - 1
    BY <1>1, FS_RemoveElement
  <2>3. IsFiniteSet(T) /\ Cardinality(T) <= c - 1 /\ Cardinality(T) \in Nat
    BY <2>1, <2>2, FS_Subset, FS_CardinalityType
  <2> QED BY <1>1, <2>3 DEF Place
<1>4. ASSUME NEW p \in Nat, p < c
      PROVE  p \div BatchSize + 1 \in 1..n
  <2>1. p \div BatchSize \in Nat /\ BatchSize * (p \div BatchSize) <= p
    BY Bounds
  <2>2. BatchSize * (p \div BatchSize) + BatchSize <= c + BatchSize - 1
    BY <2>1, <1>1, <1>4, Bounds
  <2>3. BatchSize * (p \div BatchSize + 1) <= c + BatchSize - 1
    BY <2>1, <2>2, Bounds
  <2>4. \A q \in Nat : BatchSize * q <= c + BatchSize - 1 => q <= n
    BY <1>1, Bounds
  <2> QED BY <2>1, <2>3, <2>4, <1>2
<1>5. \A u \in S : \E i \in 1..n : u \in b[i]
  <2> TAKE u \in S
  <2> DEFINE q == Place(u, S) \div BatchSize
  <2>1. q + 1 \in 1..n /\ q \in Nat
    BY <1>3, <1>4, Bounds
  <2>2. u \in b[q + 1]
    BY <2>1, <1>2
  <2> QED BY <2>1, <2>2
<1>6. b \in Seq(SUBSET Uids) /\ DOMAIN b = 1..n
  BY <1>2
<1>7. \A i, j \in 1..n : i # j => b[i] \cap b[j] = {}
  BY <1>2
<1> QED BY <1>2, <1>5, <1>6, <1>7

\* What was refused is asked for one message at a time.
LEMMA SinglesPartition ==
  ASSUME NEW R \in SUBSET Uids, NEW q, q = SetToSeq({{u} : u \in R})
  PROVE  /\ q \in Seq(SUBSET Uids)
         /\ \A i \in DOMAIN q : q[i] \in {{u} : u \in R}
         /\ \A i, j \in DOMAIN q : i # j => q[i] \cap q[j] = {}
         /\ \A u \in R : \E i \in DOMAIN q : u \in q[i]
<1> DEFINE S == {{u} : u \in R}
           n == Cardinality(S)
           g == [u \in R |-> {u}]
<1>1. IsFiniteSet(S)
  <2>1. IsFiniteSet(R)
    BY UidsAreFinite, FS_Subset
  <2>2. g \in Surjection(R, S)
    BY DEF Surjection
  <2> QED BY <2>1, <2>2, FS_Surjection
<1>2. n \in Nat /\ IsFiniteSet(1..n) /\ Cardinality(1..n) = n
  BY <1>1, FS_CardinalityType, FS_Interval
<1>3. \E f \in [1..n -> S] : IsInjective(f)
  <2> HIDE DEF S
  <2>1. ExistsBijection(1..n, S)
    BY <1>1, FS_CardinalityType
  <2> QED BY <2>1 DEF ExistsBijection, Bijection, Injection
<1>4. q \in [1..n -> S] /\ IsInjective(q)
  <2> HIDE DEF S
  <2>1. q = CHOOSE f \in [1..n -> S] : IsInjective(f)
    BY DEF SetToSeq, S
  <2> QED BY <1>3, <2>1
<1>5. q \in Surjection(1..n, S)
  <2> HIDE DEF S
  <2>1. q \in Injection(1..n, S)
    BY <1>4 DEF Injection
  <2> QED BY <2>1, <1>1, <1>2, FS_Injection
<1>6. \A x \in S : \E i \in 1..n : q[i] = x
  BY <1>5 DEF Surjection
<1>7. \A x \in S : \E u \in R : x = {u}
  OBVIOUS
<1>8. S \subseteq SUBSET Uids
  OBVIOUS
<1>9. \A u \in R : {u} \in S
  OBVIOUS
<1> HIDE DEF S
<1>10. q \in Seq(SUBSET Uids)
  <2>1. q \in [1..n -> SUBSET Uids]
    BY <1>4, <1>8
  <2> HIDE DEF n
  <2> QED BY <1>2, <2>1, SeqDef
<1>11. \A i, j \in 1..n : i # j => q[i] # q[j]
  BY <1>4 DEF IsInjective
<1>12. \A i \in 1..n : \E u \in R : q[i] = {u}
  BY <1>4, <1>7
<1>13. DOMAIN q = 1..n /\ \A u \in R : \E i \in 1..n : u \in q[i]
  BY <1>4, <1>6, <1>9
<1> HIDE DEF n
<1>14. ASSUME NEW i \in 1..n, NEW j \in 1..n, i # j
       PROVE  q[i] \cap q[j] = {}
  <2>1. PICK u \in R : q[i] = {u}
    BY <1>12
  <2>2. PICK v \in R : q[j] = {v}
    BY <1>12
  <2>3. {u} # {v}
    BY <1>11, <1>14, <2>1, <2>2
  <2> QED BY <2>1, <2>2, <2>3
<1> QED BY <1>4, <1>10, <1>13, <1>14 DEF S

\* A queue of distinct sessions, its head taken or another put at its end.
LEMMA TakeHead ==
  ASSUME NEW q \in Seq(Slots), q # <<>>, IsInjective(q)
  PROVE  /\ Head(q) \in Range(q) /\ Tail(q) \in Seq(Slots) /\ IsInjective(Tail(q))
         /\ Range(Tail(q)) = Range(q) \ {Head(q)}
<1>1. Len(q) \in Nat \ {0} /\ DOMAIN q = 1..Len(q)
  BY EmptySeq, LenProperties
<1>2. /\ Tail(q) \in Seq(Slots) /\ Len(Tail(q)) = Len(q) - 1
      /\ \A i \in 1..Len(Tail(q)) : Tail(q)[i] = q[i + 1]
  BY HeadTailProperties
<1>3. DOMAIN Tail(q) = 1..(Len(q) - 1)
  BY <1>2, LenProperties
<1>4. Head(q) = q[1]
  BY <1>1
<1>5. IsInjective(Tail(q))
  BY <1>1, <1>2, <1>3 DEF IsInjective
<1>6. Head(q) \in Range(q)
  BY <1>1, <1>4 DEF Range
<1>7. \A c : c \in Range(Tail(q)) => c \in Range(q) /\ c # Head(q)
  BY <1>1, <1>2, <1>3, <1>4 DEF Range, IsInjective
<1>8. ASSUME NEW c \in Range(q), c # Head(q) PROVE c \in Range(Tail(q))
  <2>1. PICK i \in 1..Len(q) : c = q[i]
    BY <1>1 DEF Range
  <2>2. i - 1 \in 1..(Len(q) - 1) /\ Tail(q)[i - 1] = c
    BY <1>1, <1>2, <1>4, <1>8, <2>1
  <2> QED BY <1>3, <2>2 DEF Range
<1> QED BY <1>2, <1>5, <1>6, <1>7, <1>8

LEMMA PutBack ==
  ASSUME NEW q \in Seq(Slots), IsInjective(q), NEW c \in Slots, c \notin Range(q)
  PROVE  /\ Append(q, c) \in Seq(Slots) /\ IsInjective(Append(q, c))
         /\ Range(Append(q, c)) = Range(q) \cup {c}
<1> DEFINE p == Append(q, c)
<1>1. Len(q) \in Nat /\ DOMAIN q = 1..Len(q)
  BY LenProperties
<1>2. /\ p \in Seq(Slots) /\ Len(p) = Len(q) + 1 /\ p[Len(q) + 1] = c
      /\ \A i \in 1..Len(q) : p[i] = q[i]
  BY AppendProperties
<1>3. DOMAIN p = 1..(Len(q) + 1)
  BY <1>2, LenProperties
<1> HIDE DEF p
<1>4. IsInjective(p)
  BY <1>1, <1>2, <1>3 DEF IsInjective, Range
<1>5. Range(p) = Range(q) \cup {c}
  BY <1>1, <1>2, <1>3 DEF Range
<1> QED BY <1>2, <1>4, <1>5 DEF p

-----------------------------------------------------------------------------
(* Sessions *)

Places == {"idle", "submitted", "select", "batch", "single", "salvage", "done", "failed"}

\* The parts of TypeOK.
SessionType ==
  /\ step \in [Slots -> Places] /\ conn \in [Slots -> 0..Width] /\ free \in Seq(Slots)
  /\ link \in [Slots -> {"none", "open", "dead"}]
  /\ recalled \in [Slots -> Folders \cup {NoFolder}]
  /\ selected \in [Slots -> Folders \cup {NoFolder}]
RunType ==
  /\ mail \subseteq Mailbox /\ temper \in [Mailbox -> Tempers]
  /\ phase \in {"next", "listing", "first", "second", "over"}
  /\ at \in 1..(Len(FolderList) + 1)
  /\ cancelReq \in BOOLEAN /\ outcome \in {"running", "completed", "failed", "cancelled"}
  /\ drops \in 0..MaxDrops
BatchType ==
  /\ exists \in [Folders -> 0..Cardinality(Mailbox)] /\ listed \in [Folders -> SUBSET Uids]
  /\ queue \in Seq(SUBSET Uids) /\ refused \subseteq Uids /\ handling \subseteq Ready
  /\ left \in [Slots -> SUBSET Uids] /\ bad \in [Slots -> SUBSET Uids]
  /\ got \in [Slots -> SUBSET Messages]
ArchiveType ==
  /\ rows \subseteq {[folder |-> f, uid |-> m.uid, from |-> m.from, whole |-> m.whole] :
                      f \in Folders, m \in Messages}
  /\ processed \in Nat /\ skipped \subseteq Mailbox /\ partial \subseteq Mailbox

LEMMA TypeParts == TypeOK <=> SessionType /\ RunType /\ BatchType /\ ArchiveType
BY DEF TypeOK, SessionType, RunType, BatchType, ArchiveType, Places

SessionInv == SessionType /\ PoolInv /\ RecallInv

LEMMA HereIsAFolder ==
  ASSUME RunType, at <= Len(FolderList)
  PROVE  Here \in Folders /\ Here # NoFolder /\ at \in 1..Len(FolderList)
BY FoldersInOrder, Bounds DEF RunType, Here

LEMMA SessionOfThread ==
  ASSUME SessionType, PoolInv, NEW s \in Slots, step[s] \in Using
  PROVE  conn[s] \in Slots /\ conn[s] \notin Range(free)
         /\ \A t \in Slots : t # s => conn[t] # conn[s]
BY Bounds DEF SessionType, PoolInv, Slots

\* A thread that ends gives its session back and no other.
LEMMA EndPool ==
  ASSUME SessionType, PoolInv, NEW s \in Slots, step[s] \in Using,
         NEW how \in {"done", "failed"}, End(s, how)
  PROVE  /\ step' \in [Slots -> Places] /\ conn' \in [Slots -> 0..Width]
         /\ free' \in Seq(Slots) /\ PoolInv'
         /\ step'[s] = how
         /\ \A t \in Slots \ {s} : step'[t] = step[t] /\ conn'[t] = conn[t]
<1>1. /\ conn[s] \in Slots /\ conn[s] \notin Range(free)
      /\ \A t \in Slots : t # s => conn[t] # conn[s]
  BY SessionOfThread
<1>2. free \in Seq(Slots) /\ IsInjective(free) /\ free' = Append(free, conn[s])
  BY DEF SessionType, PoolInv, End
<1>3. /\ free' \in Seq(Slots) /\ IsInjective(free')
      /\ Range(free') = Range(free) \cup {conn[s]}
  BY <1>1, <1>2, PutBack
<1>4. /\ step' = [step EXCEPT ![s] = how] /\ conn' = [conn EXCEPT ![s] = 0]
      /\ step \in [Slots -> Places] /\ conn \in [Slots -> 0..Width] /\ how \in Places
      /\ how \notin Using
  BY DEF End, SessionType, Places, Using
<1>5. /\ step' \in [Slots -> Places] /\ conn' \in [Slots -> 0..Width]
      /\ step'[s] = how /\ conn'[s] = 0
      /\ \A t \in Slots \ {s} : step'[t] = step[t] /\ conn'[t] = conn[t]
  BY <1>4, Bounds
<1>6. /\ \A t \in Slots : conn'[t] # 0 <=> step'[t] \in Using
      /\ \A t, u \in Slots : conn'[t] # 0 /\ conn'[t] = conn'[u] => t = u
  BY <1>4, <1>5 DEF PoolInv
<1>7. \A c \in Slots : c \in Range(free') <=> \A t \in Slots : conn'[t] # c
  <2> TAKE c \in Slots
  <2>1. c # 0
    BY Bounds
  <2>2. c \in Range(free) <=> \A t \in Slots : conn[t] # c
    BY DEF PoolInv
  <2>3. CASE c = conn[s]
    BY <2>1, <2>3, <1>1, <1>3, <1>5
  <2>4. CASE c # conn[s]
    BY <2>1, <2>2, <2>4, <1>3, <1>5
  <2> QED BY <2>3, <2>4
<1> QED BY <1>3, <1>5, <1>6, <1>7 DEF PoolInv

\* A thread that goes on asking keeps its session.
LEMMA StayPool ==
  ASSUME SessionType, PoolInv, NEW s \in Slots, NEW place \in Places,
         step[s] \in Using <=> place \in Using,
         step' = [step EXCEPT ![s] = place], UNCHANGED <<conn, free>>
  PROVE  /\ step' \in [Slots -> Places] /\ conn' \in [Slots -> 0..Width]
         /\ free' \in Seq(Slots) /\ PoolInv'
         /\ \A t \in Slots \ {s} : step'[t] = step[t] /\ conn'[t] = conn[t]
<1>1. step \in [Slots -> Places]
  BY DEF SessionType
<1>2. step' \in [Slots -> Places] /\ \A t \in Slots : step'[t] \in Using <=> step[t] \in Using
  BY <1>1
<1> QED BY <1>1, <1>2 DEF SessionType, PoolInv

\* Whatever the answer, the session stays with the thread or goes back to the pool.
LEMMA ProceedPool ==
  ASSUME SessionType, PoolInv, NEW s \in Slots, Asking(s), NEW A, NEW B, Proceed(s, A, B)
  PROVE  /\ step' \in [Slots -> Places] /\ conn' \in [Slots -> 0..Width]
         /\ free' \in Seq(Slots) /\ PoolInv'
         /\ step'[s] \in {step[s], "salvage", "done"} /\ (step'[s] # "done" => conn'[s] = conn[s])
         /\ \A t \in Slots \ {s} : step'[t] = step[t] /\ conn'[t] = conn[t]
<1>1. step \in [Slots -> Places] /\ step[s] \in {"batch", "single"}
  BY DEF SessionType, Asking
<1>2. CASE step' = step /\ UNCHANGED <<conn, free>>
  BY <1>1, <1>2 DEF SessionType, PoolInv
<1>3. CASE step' = [step EXCEPT ![s] = "salvage"] /\ UNCHANGED <<conn, free>>
  BY <1>1, <1>3, StayPool DEF Using, Places
<1>4. CASE End(s, "done")
  BY <1>1, <1>4, EndPool DEF Using
<1> QED BY <1>2, <1>3, <1>4 DEF Proceed

LEMMA GiveUpPool ==
  ASSUME SessionType, PoolInv, NEW s \in Slots, Asking(s), GiveUp(s)
  PROVE  /\ step' \in [Slots -> Places] /\ conn' \in [Slots -> 0..Width]
         /\ free' \in Seq(Slots) /\ PoolInv'
         /\ step'[s] \in {"batch", "single", "salvage", "done"}
         /\ (step'[s] # "done" => conn'[s] = conn[s])
         /\ \A t \in Slots \ {s} : step'[t] = step[t] /\ conn'[t] = conn[t]
<1>1. step \in [Slots -> Places] /\ step[s] \in {"batch", "single"}
  BY DEF SessionType, Asking
<1>2. CASE step' = [step EXCEPT ![s] = "single"] /\ UNCHANGED <<left, got, bad, conn, free>>
  BY <1>1, <1>2, StayPool DEF Using, Places
<1>3. CASE Proceed(s, {}, Ask(s))
  BY <1>1, <1>3, ProceedPool
<1> QED BY <1>2, <1>3 DEF GiveUp

\* Threads that ask, of one session each, are not disturbed by what others do.
LEMMA RecallKept ==
  ASSUME RecallInv, UNCHANGED <<at, recalled, selected>>,
         \A t \in Slots : step'[t] \in Using \ {"select"} =>
                            step[t] \in Using \ {"select"} /\ conn'[t] = conn[t]
  PROVE  RecallInv'
BY DEF RecallInv, Here

\* A folder is selected on a session that no other thread asks through.
LEMMA RecallSelected ==
  ASSUME SessionType, RunType, RecallInv, at <= Len(FolderList), NEW c \in Slots,
         Select(c, Here), at' = at,
         \A t \in Slots : step'[t] \in Using \ {"select"} =>
                            conn'[t] \in Slots /\ (conn'[t] = c \/ (/\ step[t] \in Using \ {"select"}
                                                                    /\ conn'[t] = conn[t]))
  PROVE  RecallInv' /\ link' \in [Slots -> {"none", "open", "dead"}]
         /\ recalled' \in [Slots -> Folders \cup {NoFolder}]
         /\ selected' \in [Slots -> Folders \cup {NoFolder}]
<1>1. Here \in Folders /\ Here' = Here
  BY HereIsAFolder DEF Here
<1> QED BY <1>1 DEF RecallInv, Select, SessionType

LEMMA FreeBetween ==
  ASSUME SessionType, PoolInv, Idle = Slots
  PROVE  /\ free # <<>> /\ Head(free) \in Slots
         /\ \A s \in Slots : step[s] = "idle" /\ conn[s] = 0
<1>1. \A s \in Slots : step[s] = "idle" /\ conn[s] = 0
  BY DEF Idle, PoolInv, Using
<1>2. 1 \in Range(free)
  BY <1>1, Bounds DEF PoolInv
<1>3. free \in Seq(Slots)
  BY DEF SessionType
<1>4. free # <<>>
  BY <1>2 DEF Range
<1> QED BY <1>1, <1>3, <1>4, HeadTailProperties

\* The thread of the run.
LEMMA SessionsInRun ==
  ASSUME SessionInv, RunType, LoopInv, Run
  PROVE  SessionInv'
<1> USE DEF SessionInv
<1>1. CASE OpenFolder
  <2>1. /\ at <= Len(FolderList) /\ free # <<>> /\ Idle = Slots /\ Select(Head(free), Here)
        /\ UNCHANGED <<step, conn, free, at>>
    BY <1>1 DEF OpenFolder, threads, LoopInv, Between
  <2>2. /\ Head(free) \in Slots
        /\ \A s \in Slots : step[s] = "idle" /\ conn[s] = 0
    BY <2>1, FreeBetween
  <2>3. \A t \in Slots : step'[t] \notin Using
    BY <2>1, <2>2 DEF Using
  <2>4. /\ RecallInv' /\ link' \in [Slots -> {"none", "open", "dead"}]
        /\ recalled' \in [Slots -> Folders \cup {NoFolder}]
        /\ selected' \in [Slots -> Folders \cup {NoFolder}]
    BY <2>1, <2>2, <2>3, RecallSelected
  <2> QED BY <2>1, <2>4 DEF SessionType, PoolInv
<1>2. CASE ListFolder
  <2>1. /\ Idle = Slots /\ free' = Append(Tail(free), Head(free))
        /\ UNCHANGED <<step, conn, at, link, recalled, selected>>
    BY <1>2 DEF ListFolder, threads, LoopInv, Between
  <2>2. free # <<>> /\ Head(free) \in Slots /\ free \in Seq(Slots) /\ IsInjective(free)
    BY <2>1, FreeBetween DEF SessionType, PoolInv
  <2>3. /\ Head(free) \in Range(free) /\ Tail(free) \in Seq(Slots) /\ IsInjective(Tail(free))
        /\ Range(Tail(free)) = Range(free) \ {Head(free)}
    BY <2>2, TakeHead
  <2>4. Head(free) \notin Range(Tail(free))
    BY <2>3
  <2>5. /\ free' \in Seq(Slots) /\ IsInjective(free')
        /\ Range(free') = Range(Tail(free)) \cup {Head(free)}
    BY <2>1, <2>2, <2>3, <2>4, PutBack
  <2>6. Range(free') = Range(free)
    BY <2>3, <2>5
  <2> QED BY <2>1, <2>5, <2>6, RecallKept DEF SessionType, PoolInv
<1>3. CASE FolderFails \/ Stop \/ \E s \in Slots : HandlingFails(s)
  <2>1. \E o : Abort(o) /\ UNCHANGED pool
    BY <1>3 DEF FolderFails, Stop, HandlingFails
  <2>2. /\ step' = [s \in Slots |-> IF step[s] = "submitted" THEN "idle" ELSE step[s]]
        /\ UNCHANGED <<at, conn, free, link, recalled, selected>>
    BY <2>1 DEF Abort, pool
  <2>3. SessionType'
    BY <2>2 DEF SessionType, Places
  <2>4. \A t \in Slots : /\ step'[t] \in Using <=> step[t] \in Using
                         /\ step'[t] \in Using => step'[t] = step[t]
    BY <2>2 DEF Using
  <2> QED BY <2>2, <2>3, <2>4, RecallKept DEF PoolInv
<1>4. CASE Submit
  <2>1. /\ Idle # {} /\ step' = [step EXCEPT ![Min(Idle)] = "submitted"]
        /\ UNCHANGED <<at, conn, free, link, recalled, selected>>
    BY <1>4 DEF Submit, pool
  <2>2. Min(Idle) \in Slots /\ step[Min(Idle)] = "idle"
    BY <2>1, Bounds, MinIsIn DEF Idle
  <2>3. PoolInv' /\ SessionType' /\ \A t \in Slots : step'[t] \in Using => step'[t] = step[t]
    BY <2>1, <2>2, StayPool DEF Using, Places, SessionType
  <2> QED BY <2>1, <2>3, RecallKept
<1>5. ASSUME NEW s \in Slots, FirstPass(s) \/ SecondPass(s) PROVE SessionInv'
  <2>1. /\ step[s] = "done" /\ step' = [step EXCEPT ![s] = "idle"]
        /\ UNCHANGED <<at, conn, free, link, recalled, selected>>
    BY <1>5 DEF FirstPass, SecondPass, Clear, pool
  <2>2. PoolInv' /\ SessionType' /\ \A t \in Slots : step'[t] \in Using => step'[t] = step[t]
    BY <2>1, StayPool DEF Using, Places, SessionType
  <2> QED BY <2>1, <2>2, RecallKept
<1>6. CASE Wake \/ SecondChance \/ Complete
  <2>1. UNCHANGED <<at, step, conn, free, link, recalled, selected>>
    BY <1>6 DEF Wake, SecondChance, Complete, threads, pool
  <2> QED BY <2>1, RecallKept DEF PoolInv, SessionType
<1>7. CASE NextFolder
  <2>1. Idle = Slots /\ UNCHANGED <<step, conn, free, link, recalled, selected>>
    BY <1>7 DEF NextFolder, PassOver, threads, pool
  <2>2. \A s \in Slots : step'[s] \notin Using
    BY <2>1, FreeBetween DEF Using
  <2> QED BY <2>1, <2>2 DEF PoolInv, SessionType, RecallInv
<1>8. CASE Close
  <2>1. /\ link' = [c \in Slots |-> "none"]
        /\ UNCHANGED <<at, step, conn, free, recalled, selected>>
    BY <1>8 DEF Close, threads
  <2> QED BY <2>1, RecallKept DEF PoolInv, SessionType
<1> QED BY <1>1, <1>2, <1>3, <1>4, <1>5, <1>6, <1>7, <1>8 DEF Run

\* The threads that fetch.
LEMMA SessionsInFetch ==
  ASSUME SessionInv, RunType, LoopInv, NEW s \in Slots, Fetch(s)
  PROVE  SessionInv'
<1> USE DEF SessionInv
<1>1. CASE Acquire(s)
  <2>1. /\ step[s] = "submitted" /\ free # <<>> /\ free \in Seq(Slots) /\ IsInjective(free)
        /\ conn' = [conn EXCEPT ![s] = Head(free)] /\ free' = Tail(free)
        /\ step' = [step EXCEPT ![s] = "select"]
        /\ UNCHANGED <<at, link, recalled, selected>>
    BY <1>1 DEF Acquire, loop, SessionType, PoolInv
  <2>2. /\ Head(free) \in Range(free) /\ Tail(free) \in Seq(Slots) /\ IsInjective(Tail(free))
        /\ Range(Tail(free)) = Range(free) \ {Head(free)} /\ Head(free) \in Slots
    BY <2>1, TakeHead, HeadTailProperties
  <2>3. Head(free) # 0 /\ \A t \in Slots : conn[t] # Head(free)
    BY <2>2, Bounds DEF PoolInv
  <2>4. /\ conn'[s] = Head(free) /\ step'[s] = "select"
        /\ \A t \in Slots \ {s} : step'[t] = step[t] /\ conn'[t] = conn[t]
    BY <2>1 DEF SessionType
  <2>5. SessionType'
    BY <2>1, <2>2, Bounds DEF SessionType, Places, Slots
  <2>6. conn[s] = 0
    BY <2>1 DEF PoolInv, Using
  <2>7. \A c \in Slots : c \in Range(free') <=> \A t \in Slots : conn'[t] # c
    <3> TAKE c \in Slots
    <3>1. c # 0 /\ (c \in Range(free) <=> \A t \in Slots : conn[t] # c)
      BY Bounds DEF PoolInv
    <3>2. c \in Range(free') <=> c \in Range(free) /\ c # Head(free)
      BY <2>1, <2>2
    <3> QED BY <3>1, <3>2, <2>3, <2>4, <2>6
  <2>8. /\ \A t \in Slots : conn'[t] # 0 <=> step'[t] \in Using
        /\ \A t, u \in Slots : conn'[t] # 0 /\ conn'[t] = conn'[u] => t = u
    BY <2>3, <2>4 DEF PoolInv, Using
  <2>9. PoolInv'
    BY <2>1, <2>2, <2>7, <2>8 DEF PoolInv
  <2>10. \A t \in Slots : step'[t] \in Using \ {"select"} =>
                            step[t] \in Using \ {"select"} /\ conn'[t] = conn[t]
    BY <2>4
  <2> QED BY <2>1, <2>5, <2>9, <2>10, RecallKept
<1>2. CASE Prepare(s)
  <2>1. /\ step[s] = "select" /\ step' = [step EXCEPT ![s] = "batch"]
        /\ UNCHANGED <<at, conn, free>>
    BY <1>2 DEF Prepare, loop
  <2>2. conn[s] \in Slots /\ phase \in {"first", "second"} /\ at <= Len(FolderList)
    BY <2>1, SessionOfThread DEF LoopInv, Using
  <2>3. /\ step' \in [Slots -> Places] /\ conn' \in [Slots -> 0..Width]
        /\ free' \in Seq(Slots) /\ PoolInv'
        /\ \A t \in Slots \ {s} : step'[t] = step[t] /\ conn'[t] = conn[t]
    BY <2>1, StayPool DEF Using, Places
  <2>4. CASE recalled[conn[s]] = Here
    <3>1. UNCHANGED <<link, recalled, selected>>
      BY <1>2, <2>4 DEF Prepare
    <3>2. RecallInv'
      BY <2>1, <2>3, <2>4, <3>1 DEF RecallInv, Here
    <3> QED BY <2>3, <3>1, <3>2 DEF SessionType
  <2>5. CASE recalled[conn[s]] # Here
    <3>1. Select(conn[s], Here)
      BY <1>2, <2>5 DEF Prepare
    <3>2. \A t \in Slots : step'[t] \in Using =>
             conn'[t] \in Slots /\ (t # s => step[t] = step'[t] /\ conn'[t] = conn[t])
      BY <2>1, <2>2, <2>3, SessionOfThread
    <3>3. RecallInv' /\ link' \in [Slots -> {"none", "open", "dead"}]
          /\ recalled' \in [Slots -> Folders \cup {NoFolder}]
          /\ selected' \in [Slots -> Folders \cup {NoFolder}]
      BY <2>1, <2>2, <3>1, <3>2, RecallSelected
    <3> QED BY <2>3, <3>3 DEF SessionType
  <2> QED BY <2>4, <2>5
<1>3. CASE PrepareFails(s) \/ ReconnectFails(s) \/ Salvage(s)
  <2>1. /\ step[s] \in Using /\ (End(s, "failed") \/ End(s, "done"))
        /\ UNCHANGED <<at, link, recalled, selected>>
    BY <1>3 DEF PrepareFails, ReconnectFails, Salvage, Asking, Using, loop
  <2>2. /\ step' \in [Slots -> Places] /\ conn' \in [Slots -> 0..Width]
        /\ free' \in Seq(Slots) /\ PoolInv' /\ step'[s] \notin Using
        /\ \A t \in Slots \ {s} : step'[t] = step[t] /\ conn'[t] = conn[t]
    BY <2>1, EndPool DEF Using
  <2> QED BY <2>1, <2>2, RecallKept DEF SessionType
<1>4. CASE FetchGives(s) \/ FetchRefused(s)
  <2>1. /\ Asking(s) /\ (GiveUp(s) \/ Proceed(s, Answer(s), {}))
        /\ UNCHANGED <<at, link, recalled, selected>>
    BY <1>4 DEF FetchGives, FetchRefused, loop
  <2>2. /\ step' \in [Slots -> Places] /\ conn' \in [Slots -> 0..Width]
        /\ free' \in Seq(Slots) /\ PoolInv' /\ (step'[s] # "done" => conn'[s] = conn[s])
        /\ \A t \in Slots \ {s} : step'[t] = step[t] /\ conn'[t] = conn[t]
    BY <2>1, ProceedPool, GiveUpPool
  <2>3. \A t \in Slots : step'[t] \in Using \ {"select"} =>
                            step[t] \in Using \ {"select"} /\ conn'[t] = conn[t]
    BY <2>1, <2>2 DEF Asking, Using
  <2> QED BY <2>1, <2>2, <2>3, RecallKept DEF SessionType
<1>5. CASE FetchBreaks(s)
  <2>1. /\ Asking(s) /\ GiveUp(s) /\ UNCHANGED <<at, recalled>>
        /\ link' = [link EXCEPT ![conn[s]] = "open"]
        /\ selected' = [selected EXCEPT ![conn[s]] = Here]
    BY <1>5 DEF FetchBreaks, loop
  <2>2. /\ step' \in [Slots -> Places] /\ conn' \in [Slots -> 0..Width]
        /\ free' \in Seq(Slots) /\ PoolInv' /\ (step'[s] # "done" => conn'[s] = conn[s])
        /\ \A t \in Slots \ {s} : step'[t] = step[t] /\ conn'[t] = conn[t]
    BY <2>1, GiveUpPool
  <2>3. step[s] \in Using \ {"select"} /\ recalled[conn[s]] = Here
    BY <2>1 DEF Asking, Using, RecallInv
  <2>4. conn[s] \in Slots /\ Here \in Folders
    BY <2>3, SessionOfThread, HereIsAFolder DEF LoopInv
  <2>5. \A t \in Slots : step'[t] \in Using \ {"select"} =>
                            step[t] \in Using \ {"select"} /\ conn'[t] = conn[t]
    BY <2>2, <2>3 DEF Using
  <2>6. RecallInv'
    BY <2>1, <2>3, <2>4, <2>5 DEF RecallInv, Here, SessionType
  <2> QED BY <2>1, <2>2, <2>4, <2>6 DEF SessionType
<1> QED BY <1>1, <1>2, <1>3, <1>4, <1>5 DEF Fetch

LEMMA SessionStep == SessionInv /\ RunType /\ LoopInv /\ [Next]_vars => SessionInv'
<1> SUFFICES ASSUME SessionInv, RunType, LoopInv, [Next]_vars PROVE SessionInv'
  OBVIOUS
<1>1. CASE Run
  BY <1>1, SessionsInRun
<1>2. ASSUME NEW s \in Slots, Fetch(s) PROVE SessionInv'
  BY <1>2, SessionsInFetch
<1>3. CASE UNCHANGED <<loop, threads, pool>>
  BY <1>3, RecallKept DEF SessionInv, SessionType, PoolInv, loop, threads, pool
<1>4. CASE Cancel \/ \E m \in Mailbox : Vanish(m)
  BY <1>3, <1>4 DEF Cancel, Vanish
<1>5. ASSUME NEW c \in Slots, Drop(c) PROVE SessionInv'
  BY <1>5, RecallKept DEF Drop, SessionInv, SessionType, PoolInv, loop, threads
<1> QED BY <1>1, <1>2, <1>3, <1>4, <1>5 DEF Next, Over, vars

-----------------------------------------------------------------------------
(* What the threads hold *)

\* A step of a thread leaves the run and the other threads as they are.
LEMMA ThreadFacts ==
  ASSUME SessionInv, NEW s \in Slots, Fetch(s)
  PROVE  /\ UNCHANGED <<server, loop, archive, cancelReq, drops>>
         /\ step[s] \in Using \cup {"submitted"} /\ step'[s] \in Using \cup {"done", "failed"}
         /\ \A t \in Slots \ {s} : step'[t] = step[t]
<1> USE DEF SessionInv
<1>1. UNCHANGED <<server, loop, archive, cancelReq, drops>>
  BY DEF Fetch, Acquire, Prepare, PrepareFails, FetchGives, FetchRefused, FetchBreaks,
         ReconnectFails, Salvage
<1>2. step \in [Slots -> Places]
  BY DEF SessionType
<1>3. CASE Acquire(s) \/ Prepare(s)
  BY <1>1, <1>2, <1>3 DEF Acquire, Prepare, Using
<1>4. CASE PrepareFails(s) \/ ReconnectFails(s) \/ Salvage(s)
  <2>1. step[s] \in Using /\ (End(s, "failed") \/ End(s, "done"))
    BY <1>4 DEF PrepareFails, ReconnectFails, Salvage, Asking, Using
  <2> QED BY <1>1, <1>2, <2>1 DEF End
<1>5. CASE FetchGives(s) \/ FetchRefused(s) \/ FetchBreaks(s)
  <2>1. Asking(s) /\ (GiveUp(s) \/ Proceed(s, Answer(s), {}))
    BY <1>5 DEF FetchGives, FetchRefused, FetchBreaks
  <2>2. step[s] \in {"batch", "single"}
    BY <2>1 DEF Asking
  <2>3. /\ step'[s] \in {"batch", "single", "salvage", "done"}
        /\ \A t \in Slots \ {s} : step'[t] = step[t]
    BY <2>1, <2>2, ProceedPool, GiveUpPool
  <2> QED BY <1>1, <2>2, <2>3 DEF Using
<1> QED BY <1>3, <1>4, <1>5 DEF Fetch

\* A thread drops only messages that are not on the server any more.
Keeps(s) ==
  /\ Held(s)' \subseteq Held(s)
  /\ \A u \in Held(s) : <<Here, u>> \in mail => u \in Held(s)'

\* What a step of thread s has to show about what the threads hold.
ThreadData(s) ==
  /\ left' \in [Slots -> SUBSET Uids] /\ bad' \in [Slots -> SUBSET Uids]
  /\ got' \in [Slots -> SUBSET Messages]
  /\ \A t \in Slots \ {s} : left'[t] = left[t] /\ bad'[t] = bad[t] /\ got'[t] = got[t]
  /\ SlotOK(s)'
  /\ Pass => BatchOK(s)' /\ Keeps(s)

LEMMA AskIsLeft ==
  ASSUME BatchType, NEW s \in Slots, SlotOK(s), Asking(s)
  PROVE  Ask(s) \subseteq left[s] /\ left[s] \subseteq Uids
         /\ (Cardinality(Ask(s)) > 1 => step[s] = "batch" /\ left[s] # {})
<1>1. left[s] \subseteq Uids /\ left[s] \in SUBSET Nat
  BY Bounds DEF BatchType
<1>2. CASE step[s] = "batch"
  <2>1. Ask(s) = left[s]
    BY <1>2 DEF Ask
  <2>2. Cardinality(left[s]) > 1 => left[s] # {}
    BY FS_EmptySet
  <2> QED BY <1>1, <1>2, <2>1, <2>2
<1>3. CASE step[s] = "single"
  <2>1. Min(left[s]) \in left[s]
    BY <1>1, <1>3, MinIsIn DEF SlotOK
  <2>2. Ask(s) = {Min(left[s])}
    BY <1>3 DEF Ask
  <2>3. Cardinality(Ask(s)) = 1
    BY <2>2, FS_Singleton
  <2> QED BY <1>1, <2>1, <2>2, <2>3
<1> QED BY <1>2, <1>3 DEF Asking

\* fetch() is through with some messages: each is received or refused, unless it is
\* gone.
LEMMA ProceedData ==
  ASSUME SessionType, BatchType, NEW s \in Slots, SlotOK(s), Asking(s),
         Pass => BatchOK(s), UNCHANGED <<phase, at, outcome>>,
         NEW A \in SUBSET Messages, NEW B \in SUBSET Uids, Proceed(s, A, B),
         Pass => /\ {m.uid : m \in A} \subseteq Ask(s) /\ B \subseteq Ask(s)
                 /\ B \cap {m.uid : m \in A} = {}
                 /\ \A m, n \in A : m.uid = n.uid => m = n
                 /\ \A m \in A : m.from = Here /\ m.whole
                 /\ \A u \in Ask(s) : <<Here, u>> \in mail => u \in B \cup {m.uid : m \in A}
  PROVE  ThreadData(s)
<1>1. Ask(s) \subseteq left[s] /\ left[s] \subseteq Uids
  BY AskIsLeft
<1> DEFINE K == Ask(s)
<1> HIDE DEF K
<1>2. /\ got' = [got EXCEPT ![s] = @ \cup A] /\ bad' = [bad EXCEPT ![s] = @ \cup B]
      /\ left' = [left EXCEPT ![s] = @ \ K]
  BY DEF Proceed, K
<1>3. /\ left' \in [Slots -> SUBSET Uids] /\ bad' \in [Slots -> SUBSET Uids]
      /\ got' \in [Slots -> SUBSET Messages]
      /\ \A t \in Slots \ {s} : left'[t] = left[t] /\ bad'[t] = bad[t] /\ got'[t] = got[t]
  BY <1>2 DEF BatchType
<1>4. left'[s] = left[s] \ K /\ bad'[s] = bad[s] \cup B /\ got'[s] = got[s] \cup A
  BY <1>2 DEF BatchType
<1>5. SlotOK(s)'
  <2>1. step[s] \in {"batch", "single"} /\ step \in [Slots -> Places]
    BY DEF Asking, SessionType
  <2>2. CASE left'[s] # {}
    BY <2>1, <2>2 DEF Proceed, SlotOK
  <2>3. CASE left'[s] = {} /\ phase = "second" /\ bad'[s] # {}
    <3>1. step' = [step EXCEPT ![s] = "salvage"]
      BY <2>3 DEF Proceed
    <3> QED BY <2>1, <2>3, <3>1 DEF SlotOK
  <2>4. CASE left'[s] = {} /\ ~(phase = "second" /\ bad'[s] # {})
    <3>1. step' = [step EXCEPT ![s] = "done"]
      BY <2>4 DEF Proceed, End
    <3> QED BY <2>1, <2>4, <3>1 DEF SlotOK
  <2> QED BY <2>2, <2>3, <2>4
<1>6. ASSUME Pass PROVE BatchOK(s)' /\ Keeps(s)
  <2> DEFINE N == {m.uid : m \in A}
  <2>1. /\ N \subseteq K /\ B \subseteq K /\ B \cap N = {} /\ K \subseteq left[s]
        /\ \A u \in K : <<Here, u>> \in mail => u \in B \cup N
    BY <1>1, <1>6 DEF K
  <2>2. BatchOK(s)
    BY <1>6
  <2>3. Taken(s)' = Taken(s) \cup N
    BY <1>4 DEF Taken
  <2>4. Held(s)' \subseteq Held(s)
    BY <1>4, <2>1, <2>3 DEF Held
  <2>5. \A u \in Held(s) : u \notin K => u \in Held(s)'
    BY <1>4, <2>3 DEF Held
  <2>6. \A u \in B \cup N : u \in Held(s)'
    BY <1>4, <2>3 DEF Held
  <2>7. Keeps(s)
    BY <2>1, <2>4, <2>5, <2>6 DEF Keeps
  <2>8. \A m, n \in got'[s] : m.uid = n.uid => m = n
    <3> SUFFICES ASSUME NEW m \in got[s] \cup A, NEW n \in got[s] \cup A, m.uid = n.uid
                 PROVE  m = n
      BY <1>4
    <3>1. left[s] \cap Taken(s) = {} /\ \A x, y \in got[s] : x.uid = y.uid => x = y
      BY <2>2 DEF BatchOK
    <3>2. \A x \in got[s] : x.uid \in Taken(s)
      BY DEF Taken
    <3>3. \A x \in A : x.uid \in left[s]
      BY <2>1
    <3>4. \A x, y \in A : x.uid = y.uid => x = y
      BY <1>6
    <3> QED BY <3>1, <3>2, <3>3, <3>4
  <2>9. Here' = Here
    BY DEF Here
  <2>10. \A m \in A : m.from = Here /\ m.whole
    BY <1>6
  <2> HIDE DEF N
  <2>11. BatchOK(s)'
    BY <1>4, <2>1, <2>2, <2>3, <2>4, <2>8, <2>9, <2>10 DEF BatchOK
  <2> QED BY <2>7, <2>11
<1> QED BY <1>3, <1>5, <1>6 DEF ThreadData

\* A thread that leaves what it holds alone.
LEMMA HoldsOn ==
  ASSUME SessionType, BatchType, NEW s \in Slots, Pass => BatchOK(s), UNCHANGED <<left, bad, got>>,
         UNCHANGED <<phase, at, outcome>>, SlotOK(s)'
  PROVE  ThreadData(s)
<1>1. Pass => BatchOK(s)'
  BY DEF BatchOK, Held, Taken, Here
<1>2. Keeps(s)
  BY DEF Keeps, Held, Taken
<1> QED BY <1>1, <1>2 DEF ThreadData, BatchType

LEMMA GiveUpData ==
  ASSUME SessionType, BatchType, NEW s \in Slots, SlotOK(s), Asking(s), Pass => BatchOK(s),
         UNCHANGED <<phase, at, outcome>>, GiveUp(s)
  PROVE  ThreadData(s)
<1>1. Ask(s) \subseteq left[s] /\ left[s] \subseteq Uids
      /\ (Cardinality(Ask(s)) > 1 => step[s] = "batch" /\ left[s] # {})
  BY AskIsLeft
<1>2. CASE Cardinality(Ask(s)) > 1
  <2>1. step' = [step EXCEPT ![s] = "single"] /\ UNCHANGED <<left, got, bad>>
    BY <1>2 DEF GiveUp
  <2>2. SlotOK(s)'
    BY <1>1, <1>2, <2>1 DEF SlotOK, SessionType
  <2> QED BY <2>1, <2>2, HoldsOn
<1>3. CASE ~(Cardinality(Ask(s)) > 1)
  <2>1. Proceed(s, {}, Ask(s))
    BY <1>3 DEF GiveUp
  <2> DEFINE A == {}
             B == Ask(s)
  <2>2. /\ A \in SUBSET Messages /\ B \in SUBSET Uids
        /\ {m.uid : m \in A} \subseteq Ask(s) /\ B \subseteq Ask(s)
        /\ B \cap {m.uid : m \in A} = {}
        /\ \A m, n \in A : m.uid = n.uid => m = n
        /\ \A m \in A : m.from = Here /\ m.whole
        /\ \A u \in Ask(s) : <<Here, u>> \in mail => u \in B \cup {m.uid : m \in A}
    BY <1>1
  <2>3. Proceed(s, A, B)
    BY <2>1
  <2> HIDE DEF A, B
  <2> QED BY <2>2, <2>3, ProceedData
<1> QED BY <1>2, <1>3

\* The session of a thread that asks is at the folder of the run.
LEMMA AtHere ==
  ASSUME SessionInv, RunType, LoopInv, NEW s \in Slots, step[s] \in Using \ {"select"}
  PROVE  selected[conn[s]] = Here /\ Here \in Folders
<1>1. conn[s] \in Slots /\ at <= Len(FolderList)
  BY SessionOfThread DEF SessionInv, LoopInv
<1>2. Here \in Folders /\ Here # NoFolder
  BY <1>1, HereIsAFolder
<1> QED BY <1>1, <1>2 DEF SessionInv, RecallInv

LEMMA ThreadsHold ==
  ASSUME SessionInv, RunType, LoopInv, BatchType, SlotInv, BatchInv, NEW s \in Slots, Fetch(s)
  PROVE  ThreadData(s)
<1>1. /\ UNCHANGED <<phase, at, outcome>> /\ SessionType /\ step \in [Slots -> Places]
      /\ SlotOK(s) /\ (Pass => BatchOK(s)) /\ mail \subseteq Mailbox
  BY ThreadFacts DEF loop, archive, SessionInv, SessionType, SlotInv, BatchInv, RunType
<1>2. CASE Acquire(s) \/ Prepare(s)
  <2>1. UNCHANGED <<left, bad, got>> /\ step'[s] \in {"select", "batch"}
    BY <1>1, <1>2 DEF Acquire, Prepare
  <2> QED BY <1>1, <2>1, HoldsOn DEF SlotOK
<1>3. CASE PrepareFails(s) \/ ReconnectFails(s)
  <2>1. UNCHANGED <<left, bad, got>> /\ step'[s] = "failed"
    BY <1>1, <1>3 DEF PrepareFails, ReconnectFails, End
  <2> QED BY <1>1, <2>1, HoldsOn DEF SlotOK
<1>4. CASE FetchRefused(s) \/ FetchBreaks(s)
  <2>1. Asking(s) /\ GiveUp(s)
    BY <1>4 DEF FetchRefused, FetchBreaks
  <2> QED BY <1>1, <2>1, GiveUpData
<1>5. CASE FetchGives(s)
  <2>1. Asking(s) /\ Proceed(s, Answer(s), {})
    BY <1>5 DEF FetchGives
  <2>2. selected[conn[s]] = Here /\ Here \in Folders
    BY <2>1, AtHere DEF Asking, Using
  <2> DEFINE A == Answer(s)
             B == {}
  <2>3. OnServer(s) = {m \in mail : m[1] = Here /\ m[2] \in Ask(s)}
    BY <2>2 DEF OnServer
  <2>4. \A m \in OnServer(s) : m = <<Here, m[2]>> /\ m[2] \in Uids /\ m[2] \in Ask(s) /\ m \in mail
    BY <1>1, <2>3, Bounds
  <2>5. ASSUME NEW x \in A
        PROVE  \E u \in Uids \cap Ask(s) : x = [uid |-> u, from |-> Here, whole |-> TRUE]
    <3>1. PICK m \in OnServer(s) : x = [uid |-> m[2], from |-> m[1], whole |-> TRUE]
      BY DEF Answer
    <3>2. m[1] = Here
      BY <2>3
    <3> QED BY <2>4, <3>1, <3>2
  <2>6. ASSUME NEW u \in Ask(s), <<Here, u>> \in mail
        PROVE  [uid |-> u, from |-> Here, whole |-> TRUE] \in A
    <3> DEFINE m == <<Here, u>>
    <3>1. m \in OnServer(s) /\ m[1] = Here /\ m[2] = u
      BY <2>3, <2>6
    <3> QED BY <3>1 DEF Answer
  <2> HIDE DEF A
  <2> DEFINE N == {m.uid : m \in A}
  <2>7. A \in SUBSET Messages
    <3> SUFFICES ASSUME NEW x \in A PROVE x \in Messages
      OBVIOUS
    <3>1. PICK u \in Uids \cap Ask(s) : x = [uid |-> u, from |-> Here, whole |-> TRUE]
      BY <2>5
    <3> QED BY <2>2, <3>1 DEF Messages
  <2>8. /\ \A m \in A : m.uid \in Ask(s) /\ m.from = Here /\ m.whole
        /\ \A m, n \in A : m.uid = n.uid => m = n
    <3>1. ASSUME NEW m \in A PROVE m.uid \in Ask(s) /\ m.from = Here /\ m.whole
      <4>1. PICK u \in Uids \cap Ask(s) : m = [uid |-> u, from |-> Here, whole |-> TRUE]
        BY <2>5
      <4> QED BY <4>1
    <3>2. ASSUME NEW m \in A, NEW n \in A, m.uid = n.uid PROVE m = n
      <4>1. PICK u \in Uids \cap Ask(s) : m = [uid |-> u, from |-> Here, whole |-> TRUE]
        BY <2>5
      <4>2. PICK v \in Uids \cap Ask(s) : n = [uid |-> v, from |-> Here, whole |-> TRUE]
        BY <2>5
      <4> QED BY <3>2, <4>1, <4>2
    <3> QED BY <3>1, <3>2
  <2>9. ASSUME NEW u \in Ask(s), <<Here, u>> \in mail
        PROVE  u \in N
    <3> DEFINE x == [uid |-> u, from |-> Here, whole |-> TRUE]
    <3>1. x \in A /\ x.uid = u
      BY <2>6, <2>9
    <3> QED BY <3>1
  <2>10. Proceed(s, A, B) /\ B \in SUBSET Uids
    BY <2>1 DEF A
  <2>11. /\ N \subseteq Ask(s) /\ B \subseteq Ask(s) /\ B \cap N = {}
         /\ \A u \in Ask(s) : <<Here, u>> \in mail => u \in B \cup N
    BY <2>8, <2>9
  <2> HIDE DEF B
  <2> QED BY <1>1, <2>1, <2>7, <2>8, <2>10, <2>11, ProceedData
<1>6. CASE Salvage(s)
  <2>1. step[s] = "salvage" /\ End(s, "done") /\ left' = left
    BY <1>6 DEF Salvage
  <2>2. /\ step'[s] = "done" /\ left[s] = {} /\ bad[s] # {} /\ phase = "second"
        /\ selected[conn[s]] = Here /\ Here \in Folders
    BY <1>1, <2>1, AtHere DEF End, SlotOK, Using
  <2>3. CASE UNCHANGED <<got, bad>>
    BY <1>1, <2>1, <2>2, <2>3, HoldsOn DEF SlotOK
  <2>4. CASE ~UNCHANGED <<got, bad>>
    <3>1. PICK u \in bad[s] :
            /\ <<Here, u>> \in mail
            /\ got' = [got EXCEPT ![s] = {[uid |-> u, from |-> Here, whole |-> FALSE]}]
            /\ bad' = [bad EXCEPT ![s] = {}]
      BY <1>6, <2>2, <2>4 DEF Salvage
    <3> DEFINE x == [uid |-> u, from |-> Here, whole |-> FALSE]
    <3>2. u \in Uids /\ x \in Messages /\ x.uid = u /\ x.from = Here
      BY <3>1, <1>1, <2>2, Bounds DEF BatchType, Messages
    <3> HIDE DEF x
    <3>3. /\ left'[s] = {} /\ bad'[s] = {} /\ got'[s] = {x}
          /\ \A t \in Slots \ {s} : left'[t] = left[t] /\ bad'[t] = bad[t] /\ got'[t] = got[t]
          /\ left' \in [Slots -> SUBSET Uids] /\ bad' \in [Slots -> SUBSET Uids]
          /\ got' \in [Slots -> SUBSET Messages]
      BY <2>1, <2>2, <3>1, <3>2 DEF BatchType, x
    <3>4. SlotOK(s)'
      BY <2>2, <3>3 DEF SlotOK
    <3>5. Taken(s)' = {u} /\ Held(s)' = {u} /\ u \in Held(s)
      BY <3>1, <3>2, <3>3 DEF Taken, Held
    <3>6. ASSUME Pass PROVE BatchOK(s)' /\ Keeps(s)
      <4>1. BatchOK(s) /\ Here' = Here /\ phase' # "first"
        BY <1>1, <2>2, <3>6 DEF Here
      <4>2. Keeps(s)
        BY <2>2, <3>5, <4>1 DEF Keeps, BatchOK
      <4>3. BatchOK(s)'
        BY <3>2, <3>3, <3>5, <4>1 DEF BatchOK
      <4> QED BY <4>2, <4>3
    <3> QED BY <3>3, <3>4, <3>6 DEF ThreadData
  <2> QED BY <2>3, <2>4
<1> QED BY <1>2, <1>3, <1>4, <1>5, <1>6 DEF Fetch

-----------------------------------------------------------------------------
(* The run, its queue and its folders *)

\* The server lists every UID it has, cut short or not: SEARCH and EXISTS differ
\* when it is cut, and the enumeration by sequence number is not.
LEMMA ListingIsWhole ==
  ASSUME RunType, BatchType, LoopInv, CoverInv, Running, phase = "listing", NEW uids \in Listing
  PROVE  uids = UidsOf(Here)
<1> DEFINE all == UidsOf(Here)
<1>1. IsFiniteSet(all) /\ Cardinality(all) \in Nat /\ Cardinality(all) <= exists[Here]
  BY UidsAreFew, FS_CardinalityType DEF RunType, UidsOf, CoverInv
<1>2. CASE Cardinality(all) <= SearchCap
  BY <1>2 DEF Listing
<1>3. CASE ~(Cardinality(all) <= SearchCap)
  <2>1. PICK f \in kSubset(SearchCap, all) :
          uids = IF Cardinality(f) < exists[Here] /\ Cardinality(all) > Cardinality(f)
                 THEN all ELSE f
    BY <1>3 DEF Listing
  <2>2. Cardinality(f) = SearchCap
    BY DEF kSubset
  <2>3. SearchCap < Cardinality(all) /\ SearchCap < exists[Here]
    <3>1. Here \in Folders
      BY HereIsAFolder DEF LoopInv
    <3>2. IsFiniteSet(Mailbox) /\ Cardinality(Mailbox) \in Nat
      BY Bounds, FS_CardinalityType
    <3>3. exists[Here] \in Nat
      BY <3>1, <3>2 DEF BatchType
    <3> QED BY <1>1, <1>3, <3>3, Bounds
  <2> QED BY <2>1, <2>2, <2>3
<1> QED BY <1>2, <1>3

FlowInv == RunType /\ LoopInv /\ BatchType /\ SlotInv

LEMMA UidsHere ==
  ASSUME RunType, NEW f
  PROVE  /\ UidsOf(f) \subseteq Uids /\ UidsOf(f) \subseteq Of(f)
         /\ Cardinality(UidsOf(f)) \in 0..Cardinality(Mailbox)
<1>1. /\ IsFiniteSet(UidsOf(f)) /\ UidsOf(f) \subseteq Of(f)
      /\ Cardinality(UidsOf(f)) <= Cardinality(Mailbox)
  BY UidsAreFew DEF RunType, UidsOf
<1>2. Cardinality(UidsOf(f)) \in Nat /\ Cardinality(Mailbox) \in Nat
  BY <1>1, Bounds, FS_CardinalityType
<1>3. Of(f) \subseteq Uids
  BY DEF Of
<1> QED BY <1>1, <1>2, <1>3

\* Steps that leave the threads alone.
LEMMA SlotsLeft ==
  ASSUME SlotInv, UNCHANGED threads, Running' => Running,
         \A s \in Slots : step[s] = "salvage" => phase' = "second"
  PROVE  SlotInv'
BY DEF SlotInv, SlotOK, threads

LEMMA FlowOpens ==
  ASSUME SessionInv, FlowInv, CoverInv, OpenFolder \/ ListFolder
  PROVE  FlowInv'
<1> USE DEF FlowInv, Running
<1>1. /\ Running /\ at <= Len(FolderList) /\ Idle = Slots /\ queue = <<>> /\ refused = {}
      /\ handling = {} /\ outcome' = outcome /\ UNCHANGED <<server, at, refused, handling, threads>>
      /\ cancelReq' = cancelReq /\ drops' = drops
  BY DEF OpenFolder, ListFolder, LoopInv, Between, archive
<1>2. \A s \in Slots : step[s] = "idle"
  BY <1>1 DEF Idle
<1>3. SlotInv'
  BY <1>1, <1>2, SlotsLeft
<1>4. Here \in Folders /\ UidsOf(Here) \subseteq Uids
      /\ Cardinality(UidsOf(Here)) \in 0..Cardinality(Mailbox)
  BY <1>1, HereIsAFolder, UidsHere
<1>5. CASE OpenFolder
  <2>1. /\ phase' = "listing" /\ exists' = [exists EXCEPT ![Here] = Cardinality(UidsOf(Here))]
        /\ UNCHANGED <<listed, queue>>
    BY <1>5 DEF OpenFolder
  <2>2. RunType' /\ BatchType'
    BY <1>1, <1>4, <2>1 DEF RunType, BatchType, threads, server, Ready
  <2>3. LoopInv'
    BY <1>1, <1>2, <2>1 DEF LoopInv, Between, threads, Idle, Using
  <2> QED BY <1>3, <2>2, <2>3
<1>6. CASE ListFolder
  <2>1. PICK uids \in Listing : listed' = [listed EXCEPT ![Here] = uids] /\ queue' = Batches(uids)
    BY <1>6 DEF ListFolder
  <2>2. uids = UidsOf(Here) /\ phase' = "first" /\ exists' = exists
    BY <1>6, ListingIsWhole DEF ListFolder
  <2>3. queue' \in Seq(SUBSET Uids)
    BY <1>4, <2>1, <2>2, BatchesPartition
  <2>4. RunType' /\ BatchType'
    BY <1>1, <1>4, <2>1, <2>2, <2>3 DEF RunType, BatchType, threads, server, Ready
  <2>5. LoopInv'
    BY <1>1, <1>2, <2>2 DEF LoopInv, Between, threads, Idle, Using
  <2> QED BY <1>3, <2>4, <2>5
<1> QED BY <1>5, <1>6

LEMMA FlowAborts ==
  ASSUME SessionInv, FlowInv, NEW o \in {"failed", "cancelled"}, Abort(o),
         UNCHANGED <<server, cancelReq, drops>>
  PROVE  FlowInv'
<1> USE DEF FlowInv, Running
<1>1. /\ outcome' = o /\ queue' = <<>> /\ refused' = {} /\ handling' = {}
      /\ step' = [s \in Slots |-> IF step[s] = "submitted" THEN "idle" ELSE step[s]]
      /\ UNCHANGED <<phase, at, exists, listed, left, got, bad, conn>>
  BY DEF Abort
<1>2. RunType' /\ BatchType'
  BY <1>1, EmptySeq DEF RunType, BatchType, server
<1>3. LoopInv'
  BY <1>1 DEF LoopInv, Between, Using
<1>4. SlotInv'
  BY <1>1 DEF SlotInv, SlotOK
<1> QED BY <1>2, <1>3, <1>4

LEMMA FlowPasses ==
  ASSUME SessionInv, FlowInv, Submit \/ Wake \/ SecondChance \/ NextFolder
  PROVE  FlowInv'
<1> USE DEF FlowInv, Running
<1>1. /\ Pass /\ handling = {} /\ UNCHANGED <<server, cancelReq, drops, exists, listed, outcome>>
      /\ at <= Len(FolderList) /\ step \in [Slots -> Places]
  BY DEF Submit, Wake, SecondChance, NextFolder, PassOver, archive, Pass, LoopInv,
         SessionInv, SessionType
<1>2. CASE Submit
  <2> DEFINE s == Min(Idle)
  <2>1. /\ queue # <<>> /\ Idle # {} /\ queue' = Tail(queue)
        /\ step' = [step EXCEPT ![s] = "submitted"] /\ left' = [left EXCEPT ![s] = Head(queue)]
        /\ UNCHANGED <<phase, at, refused, handling, got, bad>>
    BY <1>2 DEF Submit
  <2>2. s \in Slots /\ step[s] = "idle"
    BY <2>1, Bounds, MinIsIn DEF Idle
  <2> HIDE DEF s
  <2>3. Head(queue) \in SUBSET Uids /\ queue' \in Seq(SUBSET Uids)
    BY <2>1, HeadTailProperties DEF BatchType
  <2>4. RunType' /\ BatchType'
    BY <1>1, <2>1, <2>2, <2>3 DEF RunType, BatchType, server
  <2>5. LoopInv'
    BY <1>1, <2>1, <2>2 DEF LoopInv, Between, Pass
  <2>6. SlotInv'
    BY <1>1, <2>1, <2>2 DEF SlotInv, SlotOK, BatchType
  <2> QED BY <2>4, <2>5, <2>6
<1>3. CASE Wake
  <2>1. handling' = Ready /\ UNCHANGED <<phase, at, queue, refused, threads>>
    BY <1>3 DEF Wake
  <2>2. SlotInv'
    BY <1>1, <2>1, SlotsLeft DEF SlotInv, SlotOK
  <2> QED BY <1>1, <2>1, <2>2 DEF RunType, BatchType, LoopInv, Between, Pass, server, threads,
                                  Ready
<1>4. CASE SecondChance
  <2>1. /\ phase = "first" /\ phase' = "second" /\ refused' = {}
        /\ queue' = SetToSeq({{u} : u \in refused}) /\ UNCHANGED <<at, handling, threads>>
    BY <1>4 DEF SecondChance
  <2>2. queue' \in Seq(SUBSET Uids)
    BY <2>1, SinglesPartition DEF BatchType
  <2>3. SlotInv'
    BY <1>1, <2>1, SlotsLeft
  <2> QED BY <1>1, <2>1, <2>2, <2>3
          DEF RunType, BatchType, LoopInv, Between, Pass, server, threads, Ready
<1>5. CASE NextFolder
  <2>1. /\ phase' = "next" /\ at' = at + 1 /\ UNCHANGED <<queue, refused, handling, threads>>
        /\ queue = <<>> /\ refused = {} /\ Idle = Slots
    BY <1>5 DEF NextFolder, PassOver
  <2>2. \A s \in Slots : step[s] = "idle"
    BY <2>1 DEF Idle
  <2>3. SlotInv'
    BY <1>1, <2>1, <2>2, SlotsLeft
  <2>4. at + 1 \in 1..(Len(FolderList) + 1)
    BY <1>1, FoldersInOrder DEF RunType
  <2> QED BY <1>1, <2>1, <2>2, <2>3, <2>4
          DEF RunType, BatchType, LoopInv, Between, Pass, server, threads, Ready, Idle, Using
<1> QED BY <1>2, <1>3, <1>4, <1>5

LEMMA FlowClears ==
  ASSUME SessionInv, FlowInv, NEW s \in Slots, FirstPass(s) \/ SecondPass(s)
  PROVE  FlowInv'
<1> USE DEF FlowInv, Running
<1>1. /\ s \in handling /\ step[s] = "done" /\ phase \in {"first", "second"} /\ Clear(s)
      /\ handling' = handling \ {s} /\ (refused' = refused \cup bad[s] \/ refused' = refused)
      /\ phase = "second" => refused' = refused
      /\ UNCHANGED <<server, phase, at, exists, listed, queue, outcome, cancelReq, drops>>
  BY DEF FirstPass, SecondPass
<1>2. /\ step' = [step EXCEPT ![s] = "idle"] /\ left' = [left EXCEPT ![s] = {}]
      /\ got' = [got EXCEPT ![s] = {}] /\ bad' = [bad EXCEPT ![s] = {}]
      /\ step \in [Slots -> Places]
  BY <1>1 DEF Clear, SessionInv, SessionType
<1>3. RunType'
  BY <1>1 DEF RunType, server
<1>4. BatchType'
  BY <1>1, <1>2 DEF BatchType, Ready
<1>5. LoopInv'
  BY <1>1, <1>2 DEF LoopInv, Between, Using
<1>6. SlotInv'
  BY <1>1, <1>2 DEF SlotInv, SlotOK, BatchType
<1> QED BY <1>3, <1>4, <1>5, <1>6

LEMMA FlowEnds ==
  ASSUME SessionInv, FlowInv, Complete \/ Close
  PROVE  FlowInv'
<1> USE DEF FlowInv, Running
<1>1. /\ UNCHANGED <<server, at, exists, listed, queue, refused, handling, threads, cancelReq, drops>>
      /\ outcome' # "running"
  BY DEF Complete, Close, archive
<1>2. \A s \in Slots : step[s] \in {"idle", "done", "failed"}
  BY DEF Complete, Close, LoopInv, Between, Idle
<1>3. SlotInv'
  BY <1>1, <1>2, SlotsLeft
<1>4. RunType' /\ BatchType'
  BY <1>1 DEF Complete, Close, RunType, BatchType, server, threads, Ready, archive
<1>5. CASE Complete
  <2>1. at > Len(FolderList) /\ phase' = phase /\ phase = "next"
    BY <1>5 DEF Complete
  <2> QED BY <1>1, <1>2, <1>3, <1>4, <2>1 DEF LoopInv, Between, threads, Using
<1>6. CASE Close
  <2>1. phase' = "over" /\ outcome' = outcome
    BY <1>6 DEF Close, archive
  <2> QED BY <1>1, <1>2, <1>3, <1>4, <2>1 DEF LoopInv, Between, threads, Using
<1> QED BY <1>5, <1>6

LEMMA FlowFetches ==
  ASSUME SessionInv, FlowInv, BatchInv, NEW s \in Slots, Fetch(s)
  PROVE  FlowInv'
<1> USE DEF FlowInv, Running
<1>1. /\ UNCHANGED <<server, loop, archive, cancelReq, drops>>
      /\ step[s] \in Using \cup {"submitted"} /\ step'[s] \in Using \cup {"done", "failed"}
      /\ \A t \in Slots \ {s} : step'[t] = step[t]
  BY ThreadFacts
<1>2. ThreadData(s)
  BY ThreadsHold
<1>3. RunType'
  BY <1>1 DEF RunType, server, loop, archive
<1>4. handling \subseteq Ready'
  BY <1>1 DEF BatchType, Ready, Using
<1>5. BatchType'
  BY <1>1, <1>2, <1>4 DEF BatchType, ThreadData, loop
<1>6. phase \in {"first", "second"} /\ step[s] # "idle"
  BY <1>1 DEF LoopInv, Using
<1>7. LoopInv'
  BY <1>1, <1>6 DEF LoopInv, Between, loop, archive
<1>8. SlotInv'
  BY <1>1, <1>2 DEF SlotInv, SlotOK, ThreadData, loop, archive
<1> QED BY <1>3, <1>5, <1>7, <1>8

LEMMA FlowStep ==
  ASSUME SessionInv, FlowInv, BatchInv, CoverInv, [Next]_vars
  PROVE  FlowInv'
<1>1. CASE OpenFolder \/ ListFolder
  BY <1>1, FlowOpens
<1>2. CASE FolderFails \/ Stop \/ \E s \in Slots : HandlingFails(s)
  <2>1. \E o \in {"failed", "cancelled"} : Abort(o) /\ UNCHANGED <<server, cancelReq, drops>>
    BY <1>2 DEF FolderFails, Stop, HandlingFails
  <2> QED BY <2>1, FlowAborts
<1>3. CASE Submit \/ Wake \/ SecondChance \/ NextFolder
  BY <1>3, FlowPasses
<1>4. ASSUME NEW s \in Slots, FirstPass(s) \/ SecondPass(s) PROVE FlowInv'
  BY <1>4, FlowClears
<1>5. CASE Complete \/ Close
  BY <1>5, FlowEnds
<1>6. ASSUME NEW s \in Slots, Fetch(s) PROVE FlowInv'
  BY <1>6, FlowFetches
<1>7. ASSUME UNCHANGED <<loop, threads, outcome, temper>>, mail' \subseteq mail,
             cancelReq' \in BOOLEAN, drops' \in 0..MaxDrops
      PROVE  FlowInv'
  <2>1. SlotInv'
    BY <1>7, SlotsLeft DEF FlowInv, SlotInv, SlotOK, loop, Running
  <2> QED BY <1>7, <2>1 DEF FlowInv, RunType, LoopInv, BatchType, Between, loop, threads, Ready,
                            Running, Idle
<1>8. CASE Cancel \/ (\E c \in Slots : Drop(c)) \/ (\E m \in Mailbox : Vanish(m)) \/ Over
           \/ UNCHANGED vars
  <2>1. UNCHANGED <<loop, threads, outcome, temper>> /\ mail' \subseteq mail
    BY <1>8 DEF Cancel, Drop, Vanish, Over, vars, archive, server
  <2>2. cancelReq' \in BOOLEAN /\ drops' \in 0..MaxDrops
    <3>1. drops \in 0..MaxDrops /\ MaxDrops \in Nat /\ cancelReq \in BOOLEAN
      BY Bounds DEF FlowInv, RunType
    <3>2. ASSUME NEW c \in Slots, Drop(c) PROVE cancelReq' \in BOOLEAN /\ drops' \in 0..MaxDrops
      BY <3>1, <3>2 DEF Drop
    <3>3. ASSUME NEW m \in Mailbox, Vanish(m)
          PROVE  cancelReq' \in BOOLEAN /\ drops' \in 0..MaxDrops
      BY <3>1, <3>3 DEF Vanish
    <3>4. CASE Cancel \/ Over \/ UNCHANGED vars
      BY <3>1, <3>4 DEF Cancel, Over, vars
    <3> QED BY <1>8, <3>2, <3>3, <3>4
  <2> QED BY <2>1, <2>2, <1>7
<1> QED BY <1>1, <1>2, <1>3, <1>4, <1>5, <1>6, <1>8 DEF Next, Run

-----------------------------------------------------------------------------
(* What is stored, and what is on its way *)

ShelfInv == ArchiveType /\ ArchiveInv /\ StoredOnce
RestInv == BatchInv /\ ApartInv /\ ShelfInv /\ CoverInv

LEMMA InvParts == FetchInv <=> SessionInv /\ FlowInv /\ RestInv
BY TypeParts DEF FetchInv, SessionInv, FlowInv, RestInv, ShelfInv

LEMMA ShelfKept ==
  ASSUME ShelfInv, UNCHANGED <<rows, processed, skipped, partial>>,
         Running' => Running /\ Reached \subseteq Reached'
  PROVE  ShelfInv'
<1>1. Stored' = Stored
  BY DEF Stored
<1>2. ArchiveType' /\ StoredOnce'
  BY <1>1 DEF ShelfInv, ArchiveType, StoredOnce
<1>3. ArchiveInv'
  <2>1. Stored' \subseteq Mailbox /\ partial' = {Key(r) : r \in {x \in rows' : ~x.whole}}
    BY <1>1 DEF ShelfInv, ArchiveInv
  <2>2. \A m \in Stored' \cup skipped' : Running' => m[1] \in Reached'
    BY <1>1 DEF ShelfInv, ArchiveInv
  <2> QED BY <2>1, <2>2, <1>1 DEF ArchiveInv, Key
<1> QED BY <1>2, <1>3 DEF ShelfInv

\* Outside of a folder there is nothing to share.
LEMMA NothingShared ==
  ASSUME ~Pass' PROVE BatchInv' /\ ApartInv'
BY DEF BatchInv, ApartInv

\* Of a folder the run has not reached nothing is settled.
LEMMA NothingSettled ==
  ASSUME FlowInv, ShelfInv, Running, phase = "listing"
  PROVE  /\ Here \in Folders /\ Reached \subseteq Past
         /\ \A u \in Uids : <<Here, u>> \notin Stored \cup skipped
<1>1. at \in 1..Len(FolderList) /\ Here \in Folders
  BY HereIsAFolder DEF FlowInv, LoopInv
<1>2. Reached \subseteq Past
  BY <1>1 DEF Reached, Past
<1>3. Here \notin Past
  BY <1>1, FoldersInOrder DEF Past, Here
<1>4. \A m \in Stored \cup skipped : m[1] \in Past
  BY <1>2 DEF ShelfInv, ArchiveInv
<1> QED BY <1>1, <1>2, <1>3, <1>4

\* A folder is opened: what it holds is counted.
LEMMA RestOpens ==
  ASSUME FetchInv, OpenFolder PROVE RestInv'
<1> USE DEF Running, Pass
<1>1. SessionInv /\ FlowInv /\ RestInv
  BY InvParts
<1>2. /\ phase = "next" /\ phase' = "listing" /\ at <= Len(FolderList)
      /\ exists' = [exists EXCEPT ![Here] = Cardinality(UidsOf(Here))]
      /\ UNCHANGED <<mail, at, rows, processed, skipped, partial, outcome>>
  BY DEF OpenFolder, server, archive
<1>3. Here \in Folders /\ Here' = Here
  BY <1>1, <1>2, HereIsAFolder DEF FlowInv, Here
<1>4. Reached' = Reached /\ Past' = Past
  BY <1>2 DEF Reached, Past
<1>5. ShelfInv'
  BY <1>1, <1>2, <1>4, ShelfKept DEF RestInv
<1>6. UidsOf(Here)' = UidsOf(Here)
  BY <1>2, <1>3 DEF UidsOf
<1>7. exists'[Here] = Cardinality(UidsOf(Here)) /\ Cardinality(UidsOf(Here)) \in Nat
  BY <1>1, <1>2, <1>3, UidsHere DEF FlowInv, BatchType
<1>8. Stored' = Stored
  BY <1>2 DEF Stored
<1>9. CoverInv'
  BY <1>1, <1>2, <1>3, <1>4, <1>6, <1>7, <1>8 DEF CoverInv, RestInv
<1> QED BY <1>2, <1>5, <1>9, NothingShared DEF RestInv

\* The folder is listed and cut into batches.
LEMMA RestLists ==
  ASSUME FetchInv, ListFolder PROVE RestInv'
<1> USE DEF Running
<1>1. SessionInv /\ FlowInv /\ RestInv
  BY InvParts
<1>2. /\ phase = "listing" /\ phase' = "first" /\ Running
      /\ UNCHANGED <<mail, at, refused, left, got, bad, rows, processed, skipped, partial, outcome>>
  BY DEF ListFolder, server, threads, archive
<1>3. queue' = Batches(UidsOf(Here))
  BY <1>1, <1>2, ListingIsWhole DEF ListFolder, FlowInv, RestInv
<1>4. /\ Here \in Folders /\ Here' = Here /\ Reached \subseteq Past /\ Past' = Past
      /\ \A u \in Uids : <<Here, u>> \notin Stored \cup skipped
  BY <1>1, <1>2, NothingSettled DEF RestInv, Here, Past
<1>5. Reached \subseteq Reached'
  BY <1>2 DEF Reached
<1>6. ShelfInv'
  BY <1>1, <1>2, <1>5, ShelfKept DEF RestInv
<1>7. refused' = {} /\ \A s \in Slots : left'[s] = {} /\ bad'[s] = {} /\ got'[s] = {}
  BY <1>1, <1>2 DEF FlowInv, LoopInv, Between, SlotInv, SlotOK, Idle
<1>8. Settled' = {} /\ \A s \in Slots : Taken(s)' = {} /\ Held(s)' = {}
  BY <1>2, <1>4, <1>7 DEF Settled, Stored, Taken, Held
<1>9. BatchInv'
  BY <1>7, <1>8 DEF BatchInv, BatchOK
<1>10. /\ UidsOf(Here) \subseteq Uids /\ UidsOf(Here) \subseteq Of(Here)
       /\ UidsOf(Here)' = UidsOf(Here)
  BY <1>1, <1>2, <1>4, UidsHere DEF FlowInv, UidsOf
<1>11. /\ \A i \in DOMAIN queue' : queue'[i] \subseteq Of(Here)
       /\ \A i, j \in DOMAIN queue' : i # j => queue'[i] \cap queue'[j] = {}
       /\ \A u \in UidsOf(Here) : \E i \in DOMAIN queue' : u \in queue'[i]
  BY <1>3, <1>10, BatchesPartition
<1>12. ApartInv'
  BY <1>2, <1>4, <1>7, <1>8, <1>11 DEF ApartInv
<1>13. UidsOf(Here)' \subseteq OnItsWay'
  BY <1>10, <1>11 DEF OnItsWay
<1>14. CoverInv'
  BY <1>1, <1>2, <1>4, <1>13 DEF CoverInv, RestInv, Stored
<1> QED BY <1>6, <1>9, <1>12, <1>14 DEF RestInv

\* An aborted run keeps nothing.
LEMMA RestAborts ==
  ASSUME FetchInv, NEW o \in {"failed", "cancelled"}, Abort(o)
  PROVE  RestInv'
<1>1. /\ outcome' = o /\ rows' = {} /\ processed' = 0 /\ skipped' = {} /\ partial' = {}
  BY DEF Abort
<1>2. Stored' = {} /\ ~Running'
  BY <1>1 DEF Stored, Running
<1>3. ShelfInv'
  BY <1>1, <1>2, FS_EmptySet DEF ShelfInv, ArchiveType, ArchiveInv, StoredOnce
<1>4. CoverInv'
  BY <1>1, <1>2 DEF CoverInv, Pass
<1> QED BY <1>2, <1>3, <1>4, NothingShared DEF RestInv, Pass

\* A batch goes from the queue to a thread.
LEMMA RestSubmits ==
  ASSUME FetchInv, Submit PROVE RestInv'
<1> USE DEF Running, Pass
<1> DEFINE n == Len(queue)
<1>1. SessionInv /\ FlowInv /\ RestInv
  BY InvParts
<1>2. /\ Pass /\ queue # <<>> /\ Idle # {} /\ queue' = Tail(queue)
      /\ left' = [left EXCEPT ![Min(Idle)] = Head(queue)]
      /\ UNCHANGED <<mail, phase, at, refused, got, bad, rows, processed, skipped, partial, outcome>>
  BY DEF Submit, server, archive
<1>3. PICK s \in Slots : step[s] = "idle" /\ left' = [left EXCEPT ![s] = Head(queue)]
  <2>1. Min(Idle) \in Idle
    BY <1>2, Bounds, MinIsIn DEF Idle
  <2> QED BY <1>2, <2>1 DEF Idle
<1>4. left[s] = {} /\ bad[s] = {} /\ got[s] = {} /\ left \in [Slots -> SUBSET Uids]
  BY <1>1, <1>2, <1>3 DEF FlowInv, SlotInv, SlotOK, BatchType
<1>5. queue \in Seq(SUBSET Uids) /\ n \in Nat \ {0} /\ DOMAIN queue = 1..n
  BY <1>1, <1>2, EmptySeq, LenProperties DEF FlowInv, BatchType
<1>6. /\ queue' \in Seq(SUBSET Uids) /\ Len(queue') = n - 1
      /\ \A i \in 1..(n - 1) : queue'[i] = queue[i + 1]
  BY <1>2, <1>5, HeadTailProperties
<1>7. DOMAIN queue' = 1..(n - 1)
  BY <1>6, LenProperties
<1> HIDE DEF n
<1>8. 1 \in DOMAIN queue /\ Head(queue) = queue[1]
  BY <1>5
<1>9. \A i \in DOMAIN queue' : i + 1 \in DOMAIN queue /\ i + 1 # 1 /\ queue'[i] = queue[i + 1]
  BY <1>5, <1>6, <1>7
<1>10. /\ left'[s] = queue[1] /\ \A t \in Slots \ {s} : left'[t] = left[t]
  BY <1>3, <1>4, <1>8
<1>11. /\ Taken(s)' = {} /\ Held(s)' = queue[1] /\ Held(s) = {}
       /\ \A t \in Slots : Taken(t)' = Taken(t)
       /\ \A t \in Slots \ {s} : Held(t)' = Held(t)
  BY <1>2, <1>4, <1>10 DEF Taken, Held
<1>12. Here' = Here /\ Settled' = Settled /\ Reached' = Reached /\ Past' = Past /\ Stored' = Stored
  BY <1>2 DEF Here, Settled, Reached, Past, Stored
<1>13. ShelfInv'
  BY <1>1, <1>2, <1>12, ShelfKept DEF RestInv
<1>14. /\ queue[1] \subseteq Of(Here) /\ queue[1] \cap (Settled \cup refused) = {}
       /\ \A t \in Slots : queue[1] \cap Held(t) = {}
       /\ \A j \in DOMAIN queue : 1 # j => queue[1] \cap queue[j] = {}
       /\ phase = "second" => \A u, v \in queue[1] : u = v
  BY <1>1, <1>2, <1>8 DEF RestInv, ApartInv
<1>15. BatchInv'
  <2> SUFFICES ASSUME NEW t \in Slots PROVE BatchOK(t)'
    BY DEF BatchInv
  <2>1. BatchOK(t)
    BY <1>1, <1>2 DEF RestInv, BatchInv
  <2>2. CASE t = s
    BY <1>2, <1>4, <1>10, <1>11, <1>12, <1>14, <2>2 DEF BatchOK
  <2>3. CASE t # s
    BY <1>2, <1>10, <1>11, <1>12, <2>1, <2>3 DEF BatchOK
  <2> QED BY <2>2, <2>3
<1>16. ApartInv'
  <2>1. ApartInv /\ Pass
    BY <1>1, <1>2 DEF RestInv
  <2>2. /\ \A t \in Slots : Held(t)' \cap (Settled' \cup refused') = {}
        /\ \A t, u \in Slots : t # u => Held(t)' \cap Held(u)' = {}
    BY <1>2, <1>11, <1>12, <1>14, <2>1 DEF ApartInv
  <2>3. refused' \subseteq Of(Here)' /\ refused' \cap Settled' = {}
    BY <1>2, <1>12, <2>1 DEF ApartInv, Of
  <2>4. ASSUME NEW i \in DOMAIN queue'
        PROVE  /\ queue'[i] \subseteq Of(Here)'
               /\ queue'[i] \cap (Settled' \cup refused') = {}
               /\ \A t \in Slots : queue'[i] \cap Held(t)' = {}
               /\ \A j \in DOMAIN queue' : i # j => queue'[i] \cap queue'[j] = {}
               /\ phase' = "second" => \A u, v \in queue'[i] : u = v
    <3>1. i + 1 \in DOMAIN queue /\ i + 1 # 1 /\ queue'[i] = queue[i + 1] /\ i \in Nat
      BY <1>9, <1>5, <1>7
    <3>2. \A t \in Slots : queue'[i] \cap Held(t)' = {}
      BY <3>1, <1>11, <1>14, <2>1 DEF ApartInv
    <3>3. \A j \in DOMAIN queue' : i # j => queue'[i] \cap queue'[j] = {}
      <4> TAKE j \in DOMAIN queue'
      <4>1. j + 1 \in DOMAIN queue /\ queue'[j] = queue[j + 1] /\ j \in Nat
        BY <1>9, <1>5, <1>7
      <4>2. i # j => i + 1 # j + 1
        BY <3>1, <4>1
      <4> QED BY <2>1, <3>1, <4>1, <4>2 DEF ApartInv
    <3> QED BY <1>2, <1>12, <2>1, <3>1, <3>2, <3>3 DEF ApartInv, Of
  <2> QED BY <2>2, <2>3, <2>4 DEF ApartInv
<1>17. OnItsWay \subseteq OnItsWay'
  <2> SUFFICES ASSUME NEW u \in OnItsWay PROVE u \in OnItsWay'
    OBVIOUS
  <2>1. u \in Uids
    BY DEF OnItsWay
  <2>2. CASE u \in Settled \cup refused
    BY <1>2, <1>12, <2>1, <2>2 DEF OnItsWay
  <2>3. ASSUME NEW t \in Slots, u \in Held(t) PROVE u \in OnItsWay'
    <3>1. t # s
      BY <1>11, <2>3
    <3>2. u \in Held(t)'
      BY <1>11, <2>3, <3>1
    <3> QED BY <2>1, <3>2 DEF OnItsWay
  <2>4. ASSUME NEW i \in DOMAIN queue, u \in queue[i] PROVE u \in OnItsWay'
    <3>1. CASE i = 1
      <4>1. u \in Held(s)'
        BY <1>11, <2>4, <3>1
      <4> QED BY <1>3, <2>1, <4>1 DEF OnItsWay
    <3>2. CASE i # 1
      <4>1. i - 1 \in DOMAIN queue' /\ queue'[i - 1] = queue[i]
        BY <1>5, <1>6, <1>7, <2>4, <3>2
      <4> QED BY <2>1, <2>4, <4>1 DEF OnItsWay
    <3> QED BY <3>1, <3>2
  <2> QED BY <2>2, <2>3, <2>4 DEF OnItsWay
<1>18. CoverInv'
  BY <1>1, <1>2, <1>12, <1>17 DEF RestInv, CoverInv, UidsOf, Here
<1> QED BY <1>13, <1>15, <1>16, <1>18 DEF RestInv

\* What was refused in the first pass becomes the queue of the second.
LEMMA RestReturns ==
  ASSUME FetchInv, SecondChance PROVE RestInv'
<1> USE DEF Running, Pass
<1>1. SessionInv /\ FlowInv /\ RestInv
  BY InvParts
<1>2. /\ Pass /\ phase = "first" /\ phase' = "second" /\ queue = <<>> /\ Idle = Slots
      /\ refused' = {} /\ queue' = SetToSeq({{u} : u \in refused})
      /\ UNCHANGED <<mail, at, left, got, bad, rows, processed, skipped, partial, outcome>>
  BY DEF SecondChance, PassOver, server, threads, archive
<1>3. \A s \in Slots : left[s] = {} /\ bad[s] = {} /\ got[s] = {}
  BY <1>1, <1>2 DEF FlowInv, SlotInv, SlotOK, Idle
<1>4. \A s \in Slots : Taken(s) = {} /\ Held(s) = {} /\ Taken(s)' = {} /\ Held(s)' = {}
  BY <1>2, <1>3 DEF Taken, Held
<1>5. refused \subseteq Uids
  BY <1>1 DEF FlowInv, BatchType
<1>6. /\ \A i \in DOMAIN queue' : \E u \in refused : queue'[i] = {u}
      /\ \A i, j \in DOMAIN queue' : i # j => queue'[i] \cap queue'[j] = {}
      /\ \A u \in refused : \E i \in DOMAIN queue' : u \in queue'[i]
  <2> DEFINE q == queue'
  <2>1. q = SetToSeq({{u} : u \in refused})
    BY <1>2
  <2> HIDE DEF q
  <2>2. /\ \A i \in DOMAIN q : \E u \in refused : q[i] = {u}
        /\ \A i, j \in DOMAIN q : i # j => q[i] \cap q[j] = {}
        /\ \A u \in refused : \E i \in DOMAIN q : u \in q[i]
    <3>1. refused \in SUBSET Uids
      BY <1>5
    <3>2. ASSUME NEW i \in DOMAIN q PROVE \E u \in refused : q[i] = {u}
      <4>1. q[i] \in {{u} : u \in refused}
        BY <2>1, <3>1, SinglesPartition
      <4> QED BY <4>1
    <3>3. \A i, j \in DOMAIN q : i # j => q[i] \cap q[j] = {}
      BY <2>1, <3>1, SinglesPartition
    <3>4. \A u \in refused : \E i \in DOMAIN q : u \in q[i]
      BY <2>1, <3>1, SinglesPartition
    <3> QED BY <3>2, <3>3, <3>4
  <2> QED BY <2>2 DEF q
<1>7. Here' = Here /\ Settled' = Settled /\ Reached' = Reached /\ Past' = Past /\ Stored' = Stored
  BY <1>2 DEF Here, Settled, Reached, Past, Stored
<1>8. ShelfInv'
  BY <1>1, <1>2, <1>7, ShelfKept DEF RestInv
<1>9. BatchInv'
  BY <1>2, <1>3, <1>4 DEF BatchInv, BatchOK
<1>10. refused \subseteq Of(Here) /\ refused \cap Settled = {}
  BY <1>1, <1>2 DEF RestInv, ApartInv
<1>11. ASSUME NEW i \in DOMAIN queue'
       PROVE  /\ queue'[i] \subseteq Of(Here)' /\ queue'[i] \cap (Settled' \cup refused') = {}
              /\ \A u, v \in queue'[i] : u = v
  <2>1. PICK u \in refused : queue'[i] = {u}
    BY <1>6
  <2> QED BY <1>2, <1>7, <1>10, <2>1 DEF Of
<1>12. ApartInv'
  BY <1>2, <1>4, <1>6, <1>11 DEF ApartInv
<1>13. OnItsWay \subseteq OnItsWay'
  <2>1. \A u \in OnItsWay : u \in Uids /\ u \in Settled \cup refused
    BY <1>2, <1>4 DEF OnItsWay
  <2> QED BY <1>6, <1>7, <2>1 DEF OnItsWay
<1>14. CoverInv'
  BY <1>1, <1>2, <1>7, <1>13 DEF RestInv, CoverInv, UidsOf, Here
<1> QED BY <1>8, <1>9, <1>12, <1>14 DEF RestInv

\* A folder is left when all it holds is settled.
LEMMA RestLeaves ==
  ASSUME FetchInv, NextFolder PROVE RestInv'
<1> USE DEF Running, Pass
<1>1. SessionInv /\ FlowInv /\ RestInv
  BY InvParts
<1>2. /\ Pass /\ phase' = "next" /\ at' = at + 1 /\ queue = <<>> /\ refused = {} /\ Idle = Slots
      /\ UNCHANGED <<mail, rows, processed, skipped, partial, outcome>>
  BY DEF NextFolder, PassOver, server, archive
<1>3. \A s \in Slots : Held(s) = {}
  BY <1>1, <1>2 DEF FlowInv, SlotInv, SlotOK, Idle, Held, Taken
<1>4. OnItsWay \subseteq Settled
  BY <1>2, <1>3 DEF OnItsWay
<1>5. UidsOf(Here) \subseteq Settled
  BY <1>1, <1>2, <1>4 DEF RestInv, CoverInv
<1>6. \A m \in mail : m[1] = Here => m \in Stored \cup skipped
  <2> SUFFICES ASSUME NEW m \in mail, m[1] = Here PROVE m \in Stored \cup skipped
    OBVIOUS
  <2>1. m[2] \in UidsOf(Here)
    BY DEF UidsOf
  <2>2. <<Here, m[2]>> \in Stored \cup skipped
    BY <1>5, <2>1 DEF Settled
  <2>3. m = <<m[1], m[2]>>
    BY <1>1, Bounds DEF FlowInv, RunType
  <2> QED BY <2>2, <2>3
<1>7. at \in 1..Len(FolderList) /\ at \in Nat /\ Len(FolderList) \in Nat
  BY <1>1, <1>2, HereIsAFolder, FoldersInOrder DEF FlowInv, LoopInv
<1>8. Reached \subseteq Reached'
  BY <1>2, <1>7 DEF Reached
<1>9. Past' = Past \cup {Here}
  BY <1>2, <1>7 DEF Past, Here
<1>10. ShelfInv'
  BY <1>1, <1>2, <1>8, ShelfKept DEF RestInv
<1>11. CoverInv'
  BY <1>1, <1>2, <1>6, <1>9 DEF RestInv, CoverInv, Stored
<1> QED BY <1>2, <1>10, <1>11, NothingShared DEF RestInv

LEMMA RestEnds ==
  ASSUME FetchInv, Complete \/ Close PROVE RestInv'
<1> USE DEF Running, Pass
<1>1. SessionInv /\ FlowInv /\ RestInv
  BY InvParts
<1>2. /\ ~Running' /\ UNCHANGED <<mail, at, rows, processed, skipped, partial>>
      /\ outcome' = "completed" => outcome \in {"running", "completed"}
  BY DEF Complete, Close, server, archive
<1>3. ShelfInv'
  BY <1>1, <1>2, ShelfKept DEF RestInv
<1>4. CoverInv'
  BY <1>1, <1>2 DEF RestInv, CoverInv, Past, Stored
<1> QED BY <1>2, <1>3, <1>4, NothingShared DEF RestInv

\* What storing adds to the archive.
LEMMA StoredGrows ==
  ASSUME FetchInv, Pass, NEW s \in Slots, Store(s)
  PROVE  /\ Stored' = Stored \cup {<<Here, u>> : u \in Taken(s)}
         /\ {Key(r) : r \in {x \in rows' : ~x.whole}}
              = {Key(r) : r \in {x \in rows : ~x.whole}}
                  \cup {<<Here, m.uid>> : m \in {x \in got[s] : ~x.whole}}
         /\ \A r \in rows' : r \in rows \/ (r.from = Here /\ r.folder = Here)
         /\ rows' \subseteq {[folder |-> f, uid |-> m.uid, from |-> m.from, whole |-> m.whole] :
                              f \in Folders, m \in Messages}
<1>1. SessionInv /\ FlowInv /\ RestInv
  BY InvParts
<1>2. BatchOK(s) /\ got[s] \subseteq Messages /\ Here \in Folders
  BY <1>1, HereIsAFolder DEF RestInv, BatchInv, FlowInv, BatchType, LoopInv, Pass
<1> DEFINE row(m) == [folder |-> Here, uid |-> m.uid, from |-> m.from, whole |-> m.whole]
           N == {row(m) : m \in got[s]}
           old == {Key(r) : r \in {x \in rows : ~x.whole}}
           new == {<<Here, m.uid>> : m \in {x \in got[s] : ~x.whole}}
           now == {Key(r) : r \in {x \in rows' : ~x.whole}}
<1>3. rows' = rows \cup N
  BY DEF Store
<1>4. \A m \in got[s] : /\ row(m) \in N /\ Key(row(m)) = <<Here, m.uid>>
                        /\ row(m).whole = m.whole /\ row(m).from = Here /\ row(m).folder = Here
  BY <1>2 DEF Key, BatchOK
<1>5. \A r \in N : \E m \in got[s] : r = row(m)
  OBVIOUS
<1>6. N \subseteq {[folder |-> f, uid |-> m.uid, from |-> m.from, whole |-> m.whole] :
                    f \in Folders, m \in Messages}
  BY <1>2
<1> HIDE DEF N, row
<1>7. Stored' = Stored \cup {<<Here, u>> : u \in Taken(s)}
  <2>1. Stored' = Stored \cup {Key(r) : r \in N}
    BY <1>3 DEF Stored, Key
  <2>2. {Key(r) : r \in N} = {<<Here, u>> : u \in Taken(s)}
    <3>1. ASSUME NEW r \in N PROVE Key(r) \in {<<Here, u>> : u \in Taken(s)}
      <4>1. PICK m \in got[s] : r = row(m)
        BY <1>5
      <4>2. m.uid \in Taken(s) /\ Key(r) = <<Here, m.uid>>
        BY <1>4, <4>1 DEF Taken
      <4> QED BY <4>2
    <3>2. ASSUME NEW u \in Taken(s) PROVE <<Here, u>> \in {Key(r) : r \in N}
      <4>1. PICK m \in got[s] : u = m.uid
        BY DEF Taken
      <4> QED BY <1>4, <4>1
    <3> QED BY <3>1, <3>2
  <2> QED BY <2>1, <2>2
<1>8. now = old \cup new
  <2>1. ASSUME NEW r \in rows', ~r.whole PROVE Key(r) \in old \cup new
    <3>1. CASE r \in rows
      BY <2>1, <3>1
    <3>2. CASE r \in N
      <4>1. PICK m \in got[s] : r = row(m)
        BY <1>5, <3>2
      <4> QED BY <1>4, <2>1, <4>1
    <3> QED BY <1>3, <3>1, <3>2
  <2>2. old \subseteq now
    BY <1>3 DEF Key
  <2>3. ASSUME NEW m \in got[s], ~m.whole PROVE <<Here, m.uid>> \in now
    <3>1. row(m) \in rows' /\ ~row(m).whole /\ Key(row(m)) = <<Here, m.uid>>
      BY <1>3, <1>4, <2>3
    <3> QED BY <3>1 DEF Key
  <2> QED BY <2>1, <2>2, <2>3 DEF Key
<1>9. \A r \in rows' : r \in rows \/ (r.from = Here /\ r.folder = Here)
  BY <1>3, <1>4, <1>5
<1>10. rows' \subseteq {[folder |-> f, uid |-> m.uid, from |-> m.from, whole |-> m.whole] :
                         f \in Folders, m \in Messages}
  BY <1>1, <1>3, <1>6 DEF RestInv, ShelfInv, ArchiveType
<1> QED BY <1>7, <1>8, <1>9, <1>10

\* What a thread has received is as much as is stored of it.
LEMMA AsMuchAsReceived ==
  ASSUME FetchInv, Pass, NEW s \in Slots
  PROVE  LET K == {<<Here, u>> : u \in Taken(s)}
         IN  /\ K \subseteq Mailbox /\ IsFiniteSet(K) /\ Cardinality(got[s]) = Cardinality(K)
             /\ K \cap (Stored \cup skipped) = {}
<1> DEFINE K == {<<Here, u>> : u \in Taken(s)}
           g == [m \in got[s] |-> <<Here, m.uid>>]
<1>1. BatchOK(s) /\ got[s] \subseteq Messages /\ Held(s) \cap Settled = {}
  BY InvParts DEF RestInv, BatchInv, ApartInv, FlowInv, BatchType
<1>2. Taken(s) \subseteq Uids /\ Taken(s) \subseteq Of(Here) /\ Taken(s) \cap Settled = {}
  BY <1>1 DEF BatchOK, Held, Of
<1>3. K \subseteq Mailbox /\ K \cap (Stored \cup skipped) = {}
  BY <1>2 DEF Of, Settled
<1>4. IsFiniteSet(K)
  BY <1>3, Bounds, FS_Subset
<1>5. \A m \in got[s] : g[m] \in K
  BY DEF Taken
<1>6. \A m, n \in got[s] : g[m] = g[n] => m = n
  BY <1>1 DEF BatchOK
<1>7. \A k \in K : \E m \in got[s] : g[m] = k
  BY DEF Taken
<1>8. g \in Injection(got[s], K) /\ g \in Surjection(got[s], K)
  <2>1. g \in [got[s] -> K]
    BY <1>5
  <2> HIDE DEF g, K
  <2> QED BY <2>1, <1>6, <1>7 DEF Injection, Surjection, IsInjective
<1> HIDE DEF g, K
<1>9. Cardinality(got[s]) = Cardinality(K)
  BY <1>4, <1>8, FS_Injection
<1> QED BY <1>3, <1>4, <1>9 DEF K

\* A thread's batch is stored: of what it was refused, L is noted as lost and R left
\* for the second pass.
StoresBatch(s, L, R) ==
  /\ Pass /\ Store(s) /\ Clear(s) /\ step[s] = "done"
  /\ L \cup R = bad[s] /\ L \cap R = {}
  /\ refused' = refused \cup R
  /\ skipped' = skipped \cup {<<Here, u>> : u \in L}
  /\ partial' = partial \cup {<<Here, m.uid>> : m \in {x \in got[s] : ~x.whole}}
  /\ UNCHANGED <<mail, phase, at, queue, outcome>>

LEMMA ShelfGrows ==
  ASSUME FetchInv, NEW s \in Slots, NEW L \in SUBSET Uids, NEW R \in SUBSET Uids,
         StoresBatch(s, L, R)
  PROVE  ShelfInv'
<1> DEFINE K == {<<Here, u>> : u \in Taken(s)}
           N == {<<Here, u>> : u \in L}
           P == {<<Here, m.uid>> : m \in {x \in got[s] : ~x.whole}}
<1> USE DEF StoresBatch
<1>1. /\ SessionInv /\ FlowInv /\ RestInv /\ Pass /\ Pass' /\ Here' = Here
      /\ Reached' = Reached /\ phase \in {"first", "second"} /\ outcome = "running"
  BY InvParts DEF Here, Reached, Pass, Running
<1>2. BatchOK(s) /\ Held(s) \cap Settled = {} /\ ShelfInv
  BY <1>1 DEF RestInv, BatchInv, ApartInv
<1>3. /\ Stored' = Stored \cup K
      /\ {Key(r) : r \in {x \in rows' : ~x.whole}}
           = {Key(r) : r \in {x \in rows : ~x.whole}} \cup P
      /\ \A r \in rows' : r \in rows \/ (r.from = Here /\ r.folder = Here)
      /\ rows' \subseteq {[folder |-> f, uid |-> m.uid, from |-> m.from, whole |-> m.whole] :
                           f \in Folders, m \in Messages}
  BY <1>1, StoredGrows
<1>4. /\ K \subseteq Mailbox /\ IsFiniteSet(K) /\ Cardinality(got[s]) = Cardinality(K)
      /\ K \cap (Stored \cup skipped) = {}
  BY <1>1, AsMuchAsReceived
<1>5. L \subseteq Of(Here) /\ L \cap Settled = {} /\ L \cap Taken(s) = {}
  BY <1>2 DEF BatchOK, Held
<1>6. N \subseteq Mailbox /\ N \cap (Stored \cup K) = {}
  <2>1. ASSUME NEW u \in L PROVE <<Here, u>> \in Mailbox /\ <<Here, u>> \notin Stored \cup K
    BY <1>5 DEF Of, Settled
  <2> QED BY <2>1
<1>7. P \subseteq K
  BY DEF Taken
<1> HIDE DEF K, N, P
<1>8. skipped' = skipped \cup N /\ partial' = partial \cup P
      /\ processed' = processed + Cardinality(got[s])
  BY DEF N, P, Store
<1>9. IsFiniteSet(Stored) /\ Cardinality(Stored) \in Nat /\ Cardinality(K) \in Nat
      /\ processed = Cardinality(Stored)
  BY <1>2, <1>4, Bounds, FS_Subset, FS_CardinalityType DEF ShelfInv, ArchiveInv, StoredOnce
<1>10. Cardinality(Stored \cup K) = Cardinality(Stored) + Cardinality(K)
  <2>1. Stored \cap K = {}
    BY <1>4
  <2>2. Cardinality(Stored \cap K) = 0
    BY <2>1, FS_EmptySet
  <2>3. Cardinality(Stored \cup K)
          = Cardinality(Stored) + Cardinality(K) - Cardinality(Stored \cap K)
    BY <1>4, <1>9, FS_Union
  <2> QED BY <1>9, <2>2, <2>3
<1>11. StoredOnce'
  <2>1. processed' = Cardinality(Stored')
    BY <1>3, <1>4, <1>8, <1>9, <1>10
  <2>2. Stored' \cap skipped' = {}
    BY <1>2, <1>3, <1>4, <1>6, <1>8 DEF ShelfInv, StoredOnce
  <2>3. \A r \in rows' : r.from = r.folder
    BY <1>2, <1>3 DEF ShelfInv, StoredOnce
  <2> QED BY <2>1, <2>2, <2>3 DEF StoredOnce
<1>12. ArchiveType'
  <2>1. processed' \in Nat
    BY <1>4, <1>8, <1>9
  <2> QED BY <1>2, <1>3, <1>4, <1>6, <1>7, <1>8, <2>1 DEF ShelfInv, ArchiveType
<1>13. ArchiveInv'
  <2>1. Stored' \subseteq Mailbox
    BY <1>2, <1>3, <1>4 DEF ShelfInv, ArchiveInv
  <2>2. Here \in Reached
    <3>1. at \in 1..Len(FolderList)
      BY <1>1, HereIsAFolder DEF FlowInv, LoopInv
    <3> QED BY <1>1, <3>1 DEF Reached, Here
  <2>3. \A m \in K \cup N : m[1] = Here
    BY DEF K, N
  <2>4. \A m \in Stored' \cup skipped' : m[1] \in Reached'
    <3>1. \A m \in Stored \cup skipped : m[1] \in Reached
      BY <1>1, <1>2 DEF ShelfInv, ArchiveInv, Running
    <3> QED BY <1>1, <1>3, <1>8, <2>2, <2>3, <3>1
  <2>5. partial' = {Key(r) : r \in {x \in rows' : ~x.whole}}
    BY <1>2, <1>3, <1>8 DEF ShelfInv, ArchiveInv
  <2> QED BY <2>1, <2>4, <2>5 DEF ArchiveInv, Key
<1> QED BY <1>11, <1>12, <1>13 DEF ShelfInv

LEMMA RestStores ==
  ASSUME FetchInv, NEW s \in Slots, NEW L \in SUBSET Uids, NEW R \in SUBSET Uids,
         StoresBatch(s, L, R)
  PROVE  RestInv'
<1> USE DEF Pass, Running
<1>1. /\ SessionInv /\ FlowInv /\ RestInv /\ Pass /\ ApartInv /\ BatchInv
      /\ left[s] = {} /\ L \cup R = bad[s] /\ L \cap R = {} /\ refused' = refused \cup R
      /\ skipped' = skipped \cup {<<Here, u>> : u \in L}
      /\ UNCHANGED <<mail, phase, at, queue, outcome>>
  BY InvParts DEF RestInv, FlowInv, SlotInv, SlotOK, StoresBatch
<1>2. /\ left' = [left EXCEPT ![s] = {}] /\ got' = [got EXCEPT ![s] = {}]
      /\ bad' = [bad EXCEPT ![s] = {}]
  BY DEF StoresBatch, Clear
<1>3. /\ left'[s] = {} /\ bad'[s] = {} /\ got'[s] = {}
      /\ \A t \in Slots \ {s} : left'[t] = left[t] /\ bad'[t] = bad[t] /\ got'[t] = got[t]
  BY <1>1, <1>2 DEF FlowInv, BatchType
<1>4. Taken(s)' = {} /\ Held(s)' = {}
  BY <1>3 DEF Taken, Held
<1>5. \A t \in Slots \ {s} : Taken(t)' = Taken(t) /\ Held(t)' = Held(t)
  BY <1>3 DEF Taken, Held
<1>6. Here' = Here /\ Past' = Past
  BY <1>1 DEF Here, Past
<1>7. /\ Stored' = Stored \cup {<<Here, u>> : u \in Taken(s)}
      /\ Taken(s) \subseteq Uids
  BY <1>1, StoredGrows DEF StoresBatch, FlowInv, BatchType, Messages, Taken
<1>8. Settled' = Settled \cup Taken(s) \cup L
  BY <1>1, <1>6, <1>7 DEF Settled
<1>9. BatchOK(s) /\ Held(s) = L \cup R \cup Taken(s) /\ L \cap Taken(s) = {} /\ R \cap Taken(s) = {}
      /\ Held(s) \subseteq Of(Here)
  BY <1>1 DEF BatchInv, BatchOK, Held
<1>10. Settled' \cup refused' = Settled \cup refused \cup Held(s)
  BY <1>1, <1>8, <1>9
<1>11. BatchInv'
  <2> SUFFICES ASSUME NEW t \in Slots PROVE BatchOK(t)'
    BY DEF BatchInv
  <2>1. CASE t = s
    BY <1>3, <1>4, <2>1 DEF BatchOK
  <2>2. CASE t # s
    <3>1. BatchOK(t)
      BY <1>1 DEF BatchInv
    <3>2. Taken(t)' = Taken(t) /\ Held(t)' = Held(t)
      BY <1>5, <2>2
    <3> QED BY <1>1, <1>3, <1>6, <2>2, <3>1, <3>2 DEF BatchOK
  <2> QED BY <2>1, <2>2
<1>12. ApartInv'
  <2>1. /\ \A t \in Slots : Held(t) \cap (Settled \cup refused) = {}
        /\ \A t, u \in Slots : t # u => Held(t) \cap Held(u) = {}
        /\ \A i \in DOMAIN queue :
             /\ queue[i] \subseteq Of(Here)
             /\ queue[i] \cap (Settled \cup refused) = {}
             /\ \A t \in Slots : queue[i] \cap Held(t) = {}
             /\ \A j \in DOMAIN queue : i # j => queue[i] \cap queue[j] = {}
             /\ phase = "second" => \A u, v \in queue[i] : u = v
        /\ refused \subseteq Of(Here) /\ refused \cap Settled = {}
    BY <1>1 DEF ApartInv
  <2>2. \A t \in Slots : Held(t)' \cap (Settled' \cup refused') = {}
    BY <1>4, <1>5, <1>10, <2>1
  <2>3. \A t, u \in Slots : t # u => Held(t)' \cap Held(u)' = {}
    BY <1>4, <1>5, <2>1
  <2>4. ASSUME NEW i \in DOMAIN queue
        PROVE  /\ queue[i] \subseteq Of(Here)
               /\ queue[i] \cap (Settled' \cup refused') = {}
               /\ \A t \in Slots : queue[i] \cap Held(t)' = {}
    BY <1>4, <1>5, <1>10, <2>1
  <2>5. refused' \subseteq Of(Here) /\ refused' \cap Settled' = {}
    BY <1>1, <1>8, <1>9, <2>1
  <2>6. Of(Here)' = Of(Here)
    BY <1>6 DEF Of
  <2> QED BY <1>1, <2>1, <2>2, <2>3, <2>4, <2>5, <2>6 DEF ApartInv
<1>13. OnItsWay \subseteq OnItsWay'
  <2> SUFFICES ASSUME NEW u \in OnItsWay PROVE u \in OnItsWay'
    OBVIOUS
  <2>1. u \in Uids
    BY DEF OnItsWay
  <2>2. CASE u \in Settled \cup refused \cup Held(s)
    BY <1>10, <2>1, <2>2 DEF OnItsWay
  <2>3. ASSUME NEW t \in Slots, t # s, u \in Held(t) PROVE u \in OnItsWay'
    BY <1>5, <2>1, <2>3 DEF OnItsWay
  <2>4. ASSUME NEW i \in DOMAIN queue, u \in queue[i] PROVE u \in OnItsWay'
    BY <1>1, <2>1, <2>4 DEF OnItsWay
  <2> QED BY <2>2, <2>3, <2>4 DEF OnItsWay
<1>14. CoverInv'
  <2>1. UidsOf(Here)' = UidsOf(Here)
    BY <1>1, <1>6 DEF UidsOf
  <2> QED BY <1>1, <1>6, <1>7, <1>13, <2>1 DEF RestInv, CoverInv
<1> QED BY <1>11, <1>12, <1>14, ShelfGrows DEF RestInv

LEMMA RestClears ==
  ASSUME FetchInv, NEW s \in Slots, FirstPass(s) \/ SecondPass(s)
  PROVE  RestInv'
<1>1. /\ SessionInv /\ FlowInv /\ RestInv /\ Pass
      /\ bad[s] \subseteq Uids /\ phase \in {"first", "second"}
  <2>1. SessionInv /\ FlowInv /\ RestInv
    BY InvParts
  <2>2. s \in handling /\ step[s] = "done" /\ phase \in {"first", "second"}
    BY DEF FirstPass, SecondPass
  <2>3. Running
    BY <2>1, <2>2 DEF FlowInv, LoopInv
  <2> QED BY <2>1, <2>2, <2>3 DEF FlowInv, BatchType, Pass
<1>2. CASE FirstPass(s)
  <2>1. \A m \in got[s] : m.whole
    BY <1>1, <1>2 DEF RestInv, BatchInv, BatchOK, FirstPass
  <2>2. /\ skipped' = skipped \cup {<<Here, u>> : u \in {}}
        /\ partial' = partial \cup {<<Here, m.uid>> : m \in {x \in got[s] : ~x.whole}}
    BY <1>2, <2>1 DEF FirstPass
  <2>3. StoresBatch(s, {}, bad[s])
    BY <1>1, <1>2, <2>2 DEF FirstPass, StoresBatch, server
  <2> QED BY <1>1, <2>3, RestStores
<1>3. CASE SecondPass(s)
  <2>1. StoresBatch(s, bad[s], {})
    BY <1>1, <1>3 DEF SecondPass, StoresBatch, server
  <2> QED BY <1>1, <2>1, RestStores
<1> QED BY <1>2, <1>3

\* A thread changes what it holds, and forgets only what is gone.
LEMMA RestFetches ==
  ASSUME FetchInv, NEW s \in Slots, Fetch(s) PROVE RestInv'
<1> USE DEF Pass, Running
<1>1. /\ SessionInv /\ FlowInv /\ RestInv /\ ThreadData(s)
      /\ UNCHANGED <<mail, phase, at, exists, queue, refused, rows, processed, skipped, partial,
                     outcome>>
  <2>1. SessionInv /\ FlowInv /\ RestInv
    BY InvParts
  <2>2. UNCHANGED <<server, loop, archive>>
    BY <2>1, ThreadFacts
  <2>3. ThreadData(s)
    BY <2>1, ThreadsHold DEF FlowInv, RestInv
  <2> QED BY <2>1, <2>2, <2>3 DEF server, loop, archive
<1>2. /\ Here' = Here /\ Past' = Past /\ Reached' = Reached /\ Stored' = Stored
      /\ Settled' = Settled /\ Of(Here)' = Of(Here) /\ UidsOf(Here)' = UidsOf(Here)
  BY <1>1 DEF Here, Past, Reached, Stored, Settled, Of, UidsOf
<1>3. ShelfInv'
  BY <1>1, <1>2, ShelfKept DEF RestInv
<1>4. \A t \in Slots \ {s} : /\ left'[t] = left[t] /\ bad'[t] = bad[t] /\ got'[t] = got[t]
                             /\ Taken(t)' = Taken(t) /\ Held(t)' = Held(t)
  BY <1>1 DEF ThreadData, Taken, Held
<1>5. Pass => /\ BatchOK(s)' /\ Held(s)' \subseteq Held(s)
              /\ \A u \in Held(s) : <<Here, u>> \in mail => u \in Held(s)'
  BY <1>1 DEF ThreadData, Keeps
<1>6. BatchInv'
  <2> SUFFICES ASSUME Pass, NEW t \in Slots PROVE BatchOK(t)'
    BY <1>1 DEF BatchInv
  <2>1. CASE t = s
    BY <1>5, <2>1
  <2>2. CASE t # s
    <3>1. BatchOK(t)
      BY <1>1 DEF RestInv, BatchInv
    <3> QED BY <1>1, <1>2, <1>4, <2>2, <3>1 DEF BatchOK
  <2> QED BY <2>1, <2>2
<1>7. ApartInv'
  <2> SUFFICES ASSUME Pass PROVE ApartInv'
    BY <1>1 DEF ApartInv
  <2>1. \A t \in Slots : Held(t)' \subseteq Held(t)
    BY <1>4, <1>5
  <2>2. ApartInv
    BY <1>1 DEF RestInv
  <2>3. /\ \A t \in Slots : Held(t)' \cap (Settled \cup refused) = {}
        /\ \A t, u \in Slots : t # u => Held(t)' \cap Held(u)' = {}
    BY <2>1, <2>2 DEF ApartInv
  <2>4. \A i \in DOMAIN queue : \A t \in Slots : queue[i] \cap Held(t)' = {}
    BY <2>1, <2>2 DEF ApartInv
  <2> QED BY <1>1, <1>2, <2>2, <2>3, <2>4 DEF ApartInv
<1>8. ASSUME Pass, NEW u \in UidsOf(Here), u \in OnItsWay PROVE u \in OnItsWay'
  <2>1. u \in Uids /\ <<Here, u>> \in mail
    <3>1. PICK m \in mail : m[1] = Here /\ u = m[2]
      BY <1>8 DEF UidsOf
    <3>2. m = <<m[1], m[2]>> /\ m[2] \in Uids
      BY <1>1, <3>1, Bounds DEF FlowInv, RunType
    <3> QED BY <3>1, <3>2
  <2>2. CASE u \in Settled \cup refused \/ \E i \in DOMAIN queue : u \in queue[i]
    BY <1>1, <1>2, <2>1, <2>2 DEF OnItsWay
  <2>3. ASSUME NEW t \in Slots, u \in Held(t) PROVE u \in OnItsWay'
    <3>1. u \in Held(t)'
      BY <1>4, <1>5, <1>8, <2>1, <2>3
    <3> QED BY <2>1, <3>1 DEF OnItsWay
  <2> QED BY <1>8, <2>2, <2>3 DEF OnItsWay
<1>9. CoverInv'
  <2>1. Pass => UidsOf(Here)' \subseteq OnItsWay'
    <3>1. Pass => UidsOf(Here) \subseteq OnItsWay
      BY <1>1 DEF RestInv, CoverInv
    <3> QED BY <1>2, <1>8, <3>1
  <2> QED BY <1>1, <1>2, <2>1 DEF RestInv, CoverInv
<1> QED BY <1>3, <1>6, <1>7, <1>9 DEF RestInv

\* The run's thread waits, the owner, the network and other mail clients act: at most
\* there are fewer messages on the server.
LEMMA RestIsLeft ==
  ASSUME FetchInv, UNCHANGED <<phase, at, exists, queue, refused, threads, archive>>,
         mail' \subseteq mail
  PROVE  RestInv'
<1> USE DEF Pass, Running
<1>1. SessionInv /\ FlowInv /\ RestInv
  BY InvParts
<1>2. /\ Here' = Here /\ Past' = Past /\ Reached' = Reached /\ Stored' = Stored
      /\ Settled' = Settled /\ Of(Here)' = Of(Here)
      /\ UNCHANGED <<left, got, bad, rows, processed, skipped, partial, outcome>>
  BY DEF Here, Past, Reached, Stored, Settled, Of, threads, archive
<1>3. ShelfInv'
  BY <1>1, <1>2, ShelfKept DEF RestInv
<1>4. \A t \in Slots : Taken(t)' = Taken(t) /\ Held(t)' = Held(t)
  BY <1>2 DEF Taken, Held
<1>5. BatchInv'
  <2>1. ASSUME NEW t \in Slots, BatchOK(t) PROVE BatchOK(t)'
    BY <1>2, <1>4, <2>1 DEF BatchOK
  <2> QED BY <1>1, <1>2, <2>1 DEF RestInv, BatchInv
<1>6. ApartInv'
  BY <1>1, <1>2, <1>4 DEF RestInv, ApartInv
<1>7. OnItsWay' = OnItsWay
  BY <1>2, <1>4 DEF OnItsWay
<1>8. UidsOf(Here)' \subseteq UidsOf(Here)
  BY <1>2 DEF UidsOf
<1>9. ASSUME Running, phase = "listing" PROVE Cardinality(UidsOf(Here)') <= exists[Here]
  <2>1. IsFiniteSet(UidsOf(Here))
    BY <1>1, UidsAreFew DEF FlowInv, RunType, UidsOf
  <2>2. IsFiniteSet(UidsOf(Here)') /\ Cardinality(UidsOf(Here)') <= Cardinality(UidsOf(Here))
    BY <1>8, <2>1, FS_Subset
  <2>3. Cardinality(UidsOf(Here)) <= exists[Here]
    BY <1>1, <1>9 DEF RestInv, CoverInv
  <2>4. exists[Here] \in Nat
    <3>1. Here \in Folders
      BY <1>1, <1>9, HereIsAFolder DEF FlowInv, LoopInv
    <3>2. Cardinality(Mailbox) \in Nat
      BY Bounds, FS_CardinalityType
    <3> QED BY <1>1, <3>1, <3>2 DEF FlowInv, BatchType
  <2>5. Cardinality(UidsOf(Here)) \in Nat /\ Cardinality(UidsOf(Here)') \in Nat
    BY <2>1, <2>2, FS_CardinalityType
  <2> QED BY <2>2, <2>3, <2>4, <2>5
<1>10. CoverInv'
  <2>1. Running /\ phase = "listing" => (Cardinality(UidsOf(Here)) <= exists[Here])'
    BY <1>2, <1>9
  <2>2. Pass => UidsOf(Here)' \subseteq OnItsWay'
    BY <1>1, <1>7, <1>8 DEF RestInv, CoverInv
  <2>3. outcome \in {"running", "completed"} =>
          \A m \in mail' : m[1] \in Past' => m \in Stored' \cup skipped'
    BY <1>1, <1>2 DEF RestInv, CoverInv
  <2> QED BY <1>2, <2>1, <2>2, <2>3 DEF CoverInv
<1> QED BY <1>3, <1>5, <1>6, <1>10 DEF RestInv

LEMMA RestStep == FetchInv /\ [Next]_vars => RestInv'
<1> SUFFICES ASSUME FetchInv, [Next]_vars PROVE RestInv'
  OBVIOUS
<1>1. CASE OpenFolder \/ ListFolder
  BY <1>1, RestOpens, RestLists
<1>2. ASSUME NEW s \in Slots, HandlingFails(s) PROVE RestInv'
  BY <1>2, RestAborts DEF HandlingFails
<1>3. CASE FolderFails \/ Stop
  BY <1>3, RestAborts DEF FolderFails, Stop
<1>4. CASE Submit
  BY <1>4, RestSubmits
<1>5. CASE SecondChance
  BY <1>5, RestReturns
<1>6. CASE NextFolder
  BY <1>6, RestLeaves
<1>7. ASSUME NEW s \in Slots, FirstPass(s) \/ SecondPass(s) PROVE RestInv'
  BY <1>7, RestClears
<1>8. CASE Complete \/ Close
  BY <1>8, RestEnds
<1>9. ASSUME NEW s \in Slots, Fetch(s) PROVE RestInv'
  BY <1>9, RestFetches
<1>10. CASE Wake \/ Cancel \/ (\E c \in Slots : Drop(c)) \/ (\E m \in Mailbox : Vanish(m))
            \/ Over \/ UNCHANGED vars
  <2>1. /\ UNCHANGED <<phase, at, exists, queue, refused, threads, archive>>
        /\ mail' \subseteq mail
    BY <1>10 DEF Wake, Cancel, Drop, Vanish, Over, vars, loop, server
  <2> QED BY <2>1, RestIsLeft
<1> QED BY <1>1, <1>2, <1>3, <1>4, <1>5, <1>6, <1>7, <1>8, <1>9, <1>10 DEF Next, Run

-----------------------------------------------------------------------------
(* The theorems *)

LEMMA FetchInit == Init => FetchInv
<1> SUFFICES ASSUME Init PROVE FetchInv
  OBVIOUS
<1> USE DEF Init
<1>1. \A s \in Slots : /\ step[s] = "idle" /\ conn[s] = 0
                       /\ left[s] = {} /\ bad[s] = {} /\ got[s] = {}
  OBVIOUS
<1>2. phase = "next" /\ at = 1 /\ outcome = "running" /\ rows = {} /\ Stored = {}
  BY DEF Stored
<1>3. IsFiniteSet({}) /\ Cardinality({}) = 0 /\ Cardinality(Mailbox) \in Nat
  BY Bounds, FS_EmptySet, FS_CardinalityType
<1>4. SessionType
  <2>1. FolderList # <<>> => Last(FolderList) \in Folders
    <3>1. FolderList \in Seq(Folders)
      BY FetchAssumption
    <3>2. FolderList # <<>> => Len(FolderList) \in 1..Len(FolderList)
      BY <3>1, EmptySeq, LenProperties
    <3> QED BY <3>2, FoldersInOrder DEF Last
  <2>2. step \in [Slots -> Places] /\ conn \in [Slots -> 0..Width]
    BY Bounds DEF Places
  <2>3. free \in Seq(Slots)
    <3>1. free \in [1..Width -> Slots] /\ Width \in Nat
      BY Bounds DEF Slots
    <3> QED BY <3>1, SeqDef
  <2> QED BY <2>1, <2>2, <2>3 DEF SessionType
<1>5. PoolInv
  <2>1. IsInjective(free) /\ Range(free) = Slots
    BY DEF IsInjective, Range
  <2> QED BY <1>1, <2>1, Bounds DEF PoolInv, Using
<1>6. RecallInv
  BY <1>1 DEF RecallInv, Using
<1>7. SessionInv
  BY <1>4, <1>5, <1>6 DEF SessionInv
<1>8. FlowInv
  <2>1. RunType
    <3>1. 0 \in 0..MaxDrops /\ 1 \in 1..(Len(FolderList) + 1)
      BY FoldersInOrder, Bounds
    <3> QED BY <3>1 DEF RunType
  <2>2. LoopInv
    BY <1>1 DEF LoopInv, Between, Running, Idle, Using
  <2>3. BatchType
    BY <1>3, EmptySeq DEF BatchType
  <2>4. SlotInv
    BY <1>1 DEF SlotInv, SlotOK
  <2> QED BY <2>1, <2>2, <2>3, <2>4 DEF FlowInv
<1>9. ~Pass
  BY <1>2 DEF Pass
<1>10. BatchInv /\ ApartInv
  BY <1>9 DEF BatchInv, ApartInv
<1>11. ShelfInv
  BY <1>2, <1>3 DEF ShelfInv, ArchiveType, ArchiveInv, StoredOnce
<1>12. CoverInv
  BY <1>2, <1>9 DEF CoverInv, Past
<1> QED BY <1>7, <1>8, <1>10, <1>11, <1>12, InvParts DEF RestInv

LEMMA FetchStep == FetchInv /\ [Next]_vars => FetchInv'
<1> SUFFICES ASSUME FetchInv, [Next]_vars PROVE FetchInv'
  OBVIOUS
<1>1. SessionInv /\ FlowInv /\ RestInv
  BY InvParts
<1>2. SessionInv'
  BY <1>1, SessionStep DEF FlowInv
<1>3. FlowInv'
  BY <1>1, FlowStep DEF RestInv
<1>4. RestInv'
  BY RestStep
<1>5. (SessionInv /\ FlowInv /\ RestInv)' => FetchInv'
  BY InvParts, PTL
<1> QED BY <1>2, <1>3, <1>4, <1>5

\* Every state of a run, with any mailbox, width, batch size and faults, satisfies
\* the inductive invariant.
LEMMA FetchSafe == Spec => []FetchInv
BY FetchInit, FetchStep, PTL DEF Spec

\* Every variable of a backup run keeps its type.
THEOREM TypeCorrect == Spec => []TypeOK
<1>1. FetchInv => TypeOK
  BY DEF FetchInv
<1> QED BY <1>1, FetchSafe, PTL

\* However many threads and sessions there are, each session is with one thread or in
\* the pool, and it is there once (_ConnectionPool.acquire and release, the finally of
\* _fetch_batch, the rebuilding of sessions).
THEOREM NoSessionIsShared == Spec => []SessionsAreExclusive
<1>1. FetchInv => SessionsAreExclusive
  <2> SUFFICES ASSUME FetchInv, NEW c \in Slots
               PROVE  Cardinality({i \in DOMAIN free : free[i] = c})
                        + Cardinality({s \in Slots : conn[s] = c}) = 1
    BY DEF SessionsAreExclusive
  <2> DEFINE waits == {i \in DOMAIN free : free[i] = c}
             users == {s \in Slots : conn[s] = c}
  <2>1. PoolInv /\ c # 0
    BY Bounds DEF FetchInv
  <2>2. CASE c \in Range(free)
    <3>1. PICK i \in DOMAIN free : free[i] = c
      BY <2>2 DEF Range
    <3>2. waits = {i}
      BY <2>1, <3>1 DEF PoolInv, IsInjective
    <3>3. users = {}
      BY <2>1, <2>2 DEF PoolInv
    <3>4. Cardinality(waits) = 1 /\ Cardinality(users) = 0
      BY <3>2, <3>3, FS_Singleton, FS_EmptySet
    <3> QED BY <3>4
  <2>3. CASE c \notin Range(free)
    <3>1. PICK s \in Slots : conn[s] = c
      BY <2>1, <2>3 DEF PoolInv
    <3>2. users = {s}
      BY <2>1, <3>1 DEF PoolInv
    <3>3. waits = {}
      BY <2>3 DEF Range
    <3>4. Cardinality(waits) = 0 /\ Cardinality(users) = 1
      BY <3>2, <3>3, FS_Singleton, FS_EmptySet
    <3> QED BY <3>4
  <2> QED BY <2>2, <2>3
<1> QED BY <1>1, FetchSafe, PTL

\* A message is stored once, under the folder the server gave it from, is counted once
\* and is not also noted as lost (first_pass, second_pass and store of run_backup, the
\* memory of the selected folder in _Connection).
THEOREM EachMessageOnce == Spec => []StoredOnce
<1>1. FetchInv => StoredOnce
  BY DEF FetchInv
<1> QED BY <1>1, FetchSafe, PTL

\* A run that reports success has every message that is still on the server, or has
\* noted it as lost, and names exactly those without a body (message_uids and its
\* enumeration, the two passes, the loop over the folders).
THEOREM SuccessIsComplete == Spec => []NothingForgotten
<1>1. FetchInv => NothingForgotten
  <2> SUFFICES ASSUME FetchInv, outcome = "completed"
               PROVE  /\ mail \subseteq Stored \cup skipped
                      /\ partial = {Key(r) : r \in {x \in rows : ~x.whole}}
    BY DEF NothingForgotten
  <2>1. LoopInv /\ CoverInv /\ ArchiveInv /\ RunType
    BY TypeParts DEF FetchInv
  <2>2. at > Len(FolderList) /\ at \in Nat
    BY <2>1, FoldersInOrder DEF LoopInv, RunType
  <2>3. Folders \subseteq Past
    <3> SUFFICES ASSUME NEW f \in Folders PROVE f \in Past
      OBVIOUS
    <3>1. PICK i \in 1..Len(FolderList) : f = FolderList[i]
      BY FoldersInOrder
    <3>2. i < at
      BY <2>2, <3>1, FoldersInOrder
    <3> QED BY <3>1, <3>2 DEF Past
  <2>4. \A m \in mail : m[1] \in Folders
    BY <2>1, Bounds DEF RunType
  <2>5. mail \subseteq Stored \cup skipped
    BY <2>1, <2>3, <2>4 DEF CoverInv
  <2> QED BY <2>1, <2>5 DEF ArchiveInv
<1> QED BY <1>1, FetchSafe, PTL

=============================================================================
