--------------------------- MODULE MCLedgerAudit ----------------------------
(* TLC instance of LedgerAudit: addresses are interchangeable. *)
EXTENDS LedgerAudit, TLC

AddressSymmetry == Permutations(Addr)
=============================================================================
