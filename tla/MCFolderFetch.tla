--------------------------- MODULE MCFolderFetch ---------------------------
\* Two folders whose UIDs coincide; INBOX is larger than a batch.
EXTENDS FolderFetch

TwoFolders == <<"INBOX", "Sent">>
SmallMailbox == {<<"INBOX", 1>>, <<"INBOX", 2>>, <<"INBOX", 3>>, <<"Sent", 1>>}

=============================================================================
