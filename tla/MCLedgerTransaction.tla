------------------------- MODULE MCLedgerTransaction -------------------------
(* Instances of LedgerTransaction for TLC.                                 *)
EXTENDS LedgerTransaction
=============================================================================
