------------------------------- MODULE MCLedger -------------------------------
(* Instances of Ledger for TLC.                                              *)
EXTENDS Ledger, TLC

Operations == {"create", "update", "delete", "deleteAccount", "updateAccount", "zeroDeleted"}

Symmetry == Permutations(Request)
==============================================================================
