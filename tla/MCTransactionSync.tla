-------------------------- MODULE MCTransactionSync --------------------------
(* Instances of TransactionSync for TLC.                                     *)
EXTENDS TransactionSync

\* Rows of one account each, transfers, and both.
Plain == {{a} : a \in Account}
Transfers == {s \in SUBSET Account : Cardinality(s) = 2}
PlainAndTransfers == Plain \cup Transfers
==============================================================================
