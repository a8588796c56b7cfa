----------------------------- MODULE MCPostings -----------------------------
(* Instances of Postings for TLC.                                            *)
EXTENDS Postings, TLC

CONSTANTS wallet, bank, coffee, lunch

\* Two payments of one amount were tapped; the bank posts one with a tip.
Reported == (<<wallet, coffee>> :> 1) @@ (<<wallet, lunch>> :> 1)
            @@ (<<bank, coffee>> :> 1) @@ (<<bank, lunch>> :> 2)

\* The wallet words one of its reports in two ways, and never delivers the
\* other: the bank's tipped amount meets the tap of the wrong payment.
Payloads == {<<wallet, coffee, 1>>, <<wallet, coffee, 2>>, <<bank, coffee, 1>>, <<bank, lunch, 1>>}

\* The imports next to the user's queue, to their own transactions and to a
\* rule, and on PostgreSQL next to each other; posts next to the user's edits.
Busy == {<<"sqlite", {"import", "queue"}>>, <<"sqlite", {"import", "hand"}>>,
         <<"sqlite", {"import", "rule"}>>, <<"postgresql", {"import"}>>,
         <<"sqlite", {"recur", "hand"}>>, <<"postgresql", {"recur", "hand"}>>}

\* The user edits what was imported while a rule is applied to it.
Backfilled == {<<"sqlite", {"import", "hand", "rule"}>>}

Interchangeable == Permutations(Txn) \cup Permutations(Operation) \cup Permutations(Request)
==============================================================================
