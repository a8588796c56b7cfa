---------------------------- MODULE MCOAuthLogin ----------------------------
(* Instance of OAuthLogin for TLC: a mix of operations a behaviour.         *)
EXTENDS OAuthLogin, TLC

CONSTANTS google, oidc, sub1, sub2

Mix(on, who, kinds) == [passwordLogin |-> on, who |-> who, kinds |-> kinds]

One == {<<google, sub1>>}
Moved == One \cup {<<google, sub2>>}   \* the issuer or the subject changed
Two == One \cup {<<oidc, sub1>>}

Mixes ==
    {Mix(on, One, {"login", "unlink", "reclaim"}) : on \in BOOLEAN}
        \cup {Mix(on, Two, {"link", "unlink"}) : on \in BOOLEAN}
        \cup {Mix(TRUE, One, {"login", "deactivate"}), Mix(TRUE, One, {"link", "reclaim"}),
              Mix(TRUE, Moved, {"login", "unlink"})}

\* Providers and subjects are told apart by the mixes.
Interchangeable == Permutations(Proc) \cup Permutations(Identity) \cup Permutations(Email)
                       \cup Permutations(Code)
==============================================================================
