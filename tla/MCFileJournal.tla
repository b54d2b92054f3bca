---------------------------- MODULE MCFileJournal ----------------------------
EXTENDS FileJournalInvariant
MCInodes == 1..8
=============================================================================
