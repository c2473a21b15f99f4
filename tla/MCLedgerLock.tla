---------------------------- MODULE MCLedgerLock ----------------------------
(* An instance of LedgerLock for TLC.                                      *)
EXTENDS LedgerLock
=============================================================================
