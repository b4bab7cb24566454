--------------------------- MODULE ArchivePromise ---------------------------
(***************************************************************************)
(* What the owner of a mailbox is promised about its archive: there is a   *)
(* set of versions that can be opened and one of them is the current one.  *)
(* A finished backup adds a version and makes it current; old versions are *)
(* retired or expire; the owner may clear the archive.  Nothing else       *)
(* touches the versions: a backup that is interrupted, refused or killed   *)
(* does not appear here at all.                                            *)
(***************************************************************************)
CONSTANTS Versions,   \* the identities a version may have
          None        \* "no current version", not a version

VARIABLES current,    \* the version searched, read, exported and restored
          versions    \* the versions that exist

promise == <<current, versions>>

Init == current = None /\ versions = {}

\* A backup that ran to its end adds a version and makes it current.
Promote ==
  \E v \in Versions \ versions :
    /\ versions' = versions \cup {v}
    /\ current' = v

\* Rotation drops superseded versions, never the current one.
Retire ==
  \E old \in SUBSET (versions \ {current}) :
    /\ versions' = versions \ old
    /\ UNCHANGED current

\* Versions past their date go; if the current one is among them another
\* version replaces it, and the account is left with none only when none is left.
Expire ==
  \E old \in SUBSET versions :
    /\ versions' = versions \ old
    /\ IF current \notin old THEN UNCHANGED current
       ELSE IF versions' = {} THEN current' = None
       ELSE current' \in versions'

\* The owner clears the archive.
Clear == versions' = {} /\ current' = None

Next == Promote \/ Retire \/ Expire \/ Clear

Spec == Init /\ [][Next]_promise
=============================================================================
