--------------------------- MODULE MCBackupQueue ---------------------------
(* BackupQueue on small instances. *)
EXTENDS BackupQueue, TLC

\* Accounts carry no order (safety runs only).
Symmetry == Permutations(Accounts)
=============================================================================
