-------------------------- MODULE MCArchiveImport --------------------------
(***************************************************************************)
(* ArchiveImport on small instances.                                       *)
(***************************************************************************)
EXTENDS ArchiveImport, TLC

Symmetry == Permutations(Imports)
=============================================================================
