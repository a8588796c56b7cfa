--------------------------- MODULE CredentialFence ---------------------------
(***************************************************************************)
(* What an account's credentials promise, without locks, transactions or   *)
(* fences: a credential is granted at once, on the authority of the        *)
(* current generation or of a credential no eviction has taken; a rotation *)
(* moves the generation and ends all sessions but one; an eviction moves   *)
(* the generation and spares nothing.  Credentials implements this module: *)
(* every interleaving of its requests is one of these atomic steps or none.*)
(***************************************************************************)
EXTENDS Integers

CONSTANTS
    Token,              \* credentials that may be granted
    MaxGeneration       \* bound on generation

VARIABLES
    generation,     \* the current credentials generation
    evicted,        \* the generation of the latest eviction
    valid,          \* the credentials that have not been revoked
    session,        \* those among them that are sessions
    since           \* the generation each valid credential's authority goes back to

fenceVars == <<generation, evicted, valid, session, since>>

FenceInit ==
    /\ generation = 0
    /\ evicted = 0
    /\ valid = {}
    /\ session = {}
    /\ since = [t \in Token |-> 0]

\* A sign-in vouches for itself at the current generation.
SignIn(t) ==
    /\ t \in Token \ valid
    /\ valid' = valid \cup {t}
    /\ session' = session \cup {t}
    /\ since' = [since EXCEPT ![t] = generation]
    /\ UNCHANGED <<generation, evicted>>

\* A credential that no eviction has taken vouches for another, which inherits
\* its authority.  It may itself have been withdrawn a moment before.
Derive(t) ==
    /\ t \in Token \ valid
    /\ \E g \in evicted .. generation : since' = [since EXCEPT ![t] = g]
    /\ valid' = valid \cup {t}
    /\ UNCHANGED <<generation, evicted, session>>

Forget(S) == [t \in Token |-> IF t \in S THEN 0 ELSE since[t]]

Withdraw(S) ==
    /\ S \subseteq valid
    /\ valid' = valid \ S
    /\ session' = session \ S
    /\ since' = Forget(S)
    /\ UNCHANGED <<generation, evicted>>

\* A rotation ends every session but at most one it is told to keep.
Rotate(keep) ==
    /\ generation < MaxGeneration
    /\ \A s, t \in keep : s = t
    /\ generation' = generation + 1
    /\ valid' = valid \ (session \ keep)
    /\ session' = session \cap keep
    /\ since' = Forget(session \ keep)
    /\ UNCHANGED evicted

Evict ==
    /\ generation < MaxGeneration
    /\ generation' = generation + 1
    /\ evicted' = generation + 1
    /\ valid' = {}
    /\ session' = {}
    /\ since' = [t \in Token |-> 0]

FenceNext ==
    \/ \E t \in Token : SignIn(t) \/ Derive(t)
    \/ \E S \in SUBSET Token : Withdraw(S) \/ Rotate(S)
    \/ Evict

FenceSpec == FenceInit /\ [][FenceNext]_fenceVars

==============================================================================
