-------------------------- MODULE MCCleanupJournal --------------------------
EXTENDS CleanupJournal
=============================================================================
