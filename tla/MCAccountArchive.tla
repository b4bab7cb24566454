-------------------------- MODULE MCAccountArchive --------------------------
(* AccountArchive on small instances. *)
EXTENDS AccountArchive, TLC

\* uuids and threads carry no order (safety runs only).
Symmetry == Permutations(Snaps) \cup Permutations(Runs)

\* FilesReclaimed for one version, which stands for all: no action prefers one uuid to
\* another.
OneReclaimed == Reclaimed(CHOOSE s \in Snaps : TRUE)
=============================================================================
