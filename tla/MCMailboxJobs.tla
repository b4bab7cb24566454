--------------------------- MODULE MCMailboxJobs ---------------------------
EXTENDS MailboxJobs

\* The first message is older than the cutoff, the others are not.
FirstIsOld == {1}

\* What no guard and no property asks is left out: how a job ended, a count that has
\* been written down, and the counters of versions that are gone.
Ended == {"completed", "failed"}
View ==
    <<server, published, kept, active, protected, copy, binned,
      [v \in kept |-> <<validity[v], remote[v], count[v], total[v]>>], draft, req,
      kind, cutoff, [j \in Jobs |-> IF status[j] \in Ended THEN "over" ELSE status[j]],
      cancelReq, pc, ver, todo, exists, [j \in Counting |-> seen[j]], purged>>
=============================================================================
