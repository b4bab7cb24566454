--------------------------- MODULE MCTransferJobs ---------------------------
\* Two messages: one may be delivered when the other fails.  One is enough where
\* only the end of a job matters.
EXTENDS TransferJobs

TwoMessages == {1, 2}
OneMessage  == {1}

=============================================================================
