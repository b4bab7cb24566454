---------------------------- MODULE MCExportCache ----------------------------
EXTENDS ExportCache, TLC
CONSTANT x

\* The messages are of the first version; each has a file of its own, which has its
\* name here, and all share an attachment.
AllInFirst == [m \in Messages |-> 1]
Raw        == [m \in Messages |-> m]
Shared     == [m \in Messages |-> {x}]
\* What no guard and no property asks: how a job ended, and the dates of packages
\* without a row that no job is about to give one.
Ended == {"completed", "failed", "lost"}
Dated == Registered \cup {j \in Jobs : pc[j] # "idle"}
View  ==
  <<trash, kind, [j \in Jobs |-> IF status[j] \in Ended THEN "over" ELSE status[j]], pc, result,
    build, temp, packages, shelf, due \cap Dated, doomed, young \cap Dated, world>>
Symmetry   ==
  Permutations(Jobs) \cup Permutations(Requests) \cup Permutations(Messages)
=============================================================================
