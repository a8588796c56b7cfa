---------------------------- MODULE MCCredentials ----------------------------
(* Instances of Credentials for TLC: the operations are split between runs.  *)
EXTENDS Credentials, TLC

\* Requests, token ids and codes are interchangeable; addresses are not, since
\* the account starts with either of them.
Interchangeable == Permutations(Proc) \cup Permutations(Token) \cup Permutations(Code)

\* What the owner and the operator do to the account: sign in, rotate, mint,
\* reclaim, activate, change its address and save the row.
AccountOperations == {"Login", "UpdatePassword", "CreatePersonalToken", "AdminChangePassword",
                      "AdminDeactivate", "AdminActivate", "AdminSetAccess", "AdminChangeEmail"}

\* Reset codes, pending changes and the address they are about.
RequestOperations == {"Login", "RemindPassword", "ResetPassword",
                      "RequestEmailChange", "ResendEmailChangeCode", "ConfirmEmailChange",
                      "RevokeOtherSessions"}
==============================================================================
