----------------------------- MODULE MCAuthServer -----------------------------
(* Instances of AuthServer for TLC.                                          *)
EXTENDS AuthServer, TLC

Interchangeable == Permutations(Proc) \cup Permutations(Client) \cup Permutations(Code)
                   \cup Permutations(Grant)

\* Connecting, and the life of connections once made: replacement, rotation,
\* reuse, disconnection, reclaim.
GrantOperations == {"Approve", "Exchange", "Refresh", "Disconnect", "Reclaim"}
==============================================================================
