------------------------------ MODULE OAuthLogin ------------------------------
(***************************************************************************)
(* Sign-in through external providers (package internal/oauth), for ONE    *)
(* account: its users row, the external identities linked to it, the       *)
(* authorization requests under way and the one-shot hand-offs that a      *)
(* callback parks for the client, on PostgreSQL at READ COMMITTED.         *)
(*                                                                         *)
(* A callback reads the identity and the users row in statements of their  *)
(* own; every write of an identity, an unlink, a redemption and a reclaim  *)
(* is a transaction that first takes the users-row lock.  What the account *)
(* does on its own side (package internal/user) is one step where module   *)
(* Credentials shows it to act as one: a password sign-in, a deactivation. *)
(* The client's flow secret and the provider's protocol are left out: a    *)
(* provider answers with a subject and an address, verified.  On SQLite,   *)
(* with one writer at a time, only a part of these behaviours happens.     *)
(***************************************************************************)
EXTENDS Integers, FiniteSets

CONSTANTS
    Proc,           \* requests in flight
    Provider,       \* provider slots
    Subject,        \* <<issuer, subject>> of a provider
    Settings,       \* the deployments and the mixes of operations, one a behaviour
    Email,          \* normalized addresses
    Identity,       \* ids of users_identities rows
    Code,           \* hand-off codes
    MaxGeneration,  \* bound on credentials_generation
    MaxStarted      \* bound on authorization requests under way

Kinds == {"login", "link", "unlink", "reclaim", "deactivate"}

ASSUME SettingsAssumption ==
    Settings \subseteq [passwordLogin : BOOLEAN, who : SUBSET (Provider \X Subject), kinds : SUBSET Kinds]
ASSUME BoundsAssumption == MaxGeneration \in Nat /\ MaxStarted \in Nat

VARIABLES
    setting,        \* ECONUMO_PASSWORD_LOGIN, the external accounts and the mix: for good
    user,           \* the users row
    identities,     \* the users_identities rows
    states,         \* the oauth_states rows
    handoffs,       \* the oauth_handoffs rows
    sessions,       \* the generations the unrevoked sessions were opened under
    pc, op, seen,   \* where each request stands, what it runs, what it has read
    writes,         \* what its open transaction will commit: {} or one write set
    history         \* generations of the latest reclaim and the latest eviction

stored == <<user, identities, states, handoffs, sessions>>
vars == <<setting, user, identities, states, handoffs, sessions, pc, op, seen, writes, history>>

------------------------------------------------------------------------------
(* Rows *)

UserRow == [exists : BOOLEAN, password : BOOLEAN, active : BOOLEAN, generation : Nat, email : Email]

\* linked: the generation its authority goes back to (not a column): of the
\* session or the address that linked it, or of the reclaim that spared it.
IdentityRow == [id : Identity, provider : Provider, subject : Subject, email : Email, linked : Nat]

\* Of one intent and provider, one request is under way at a time.
StateRow == [intent : {"login", "link"}, provider : Provider]

HandoffRow == [code : Code, kind : {"login", "link"}, provider : Provider, subject : Subject,
               email : SUBSET Email, generation : Nat]

\* as: the generation of the presenting session; says: what the provider
\* answered; identity, row, handoff: rows read.  Each is {} when there is none.
Seen == [as : SUBSET Nat, says : SUBSET [provider : Provider, subject : Subject, email : Email],
         identity : SUBSET IdentityRow, row : SUBSET UserRow, handoff : SUBSET HandoffRow]

\* drop, put: identities deleted by id and written whole; spared: those that a
\* reclaim lists and leaves; codes, links: hand-offs and requests deleted;
\* sweep: every session is revoked; open: the session opened.
WriteSet == [user : UserRow, drop : SUBSET Identity, put : SUBSET IdentityRow,
             spared : SUBSET Identity, codes : SUBSET Code, links : SUBSET StateRow,
             sweep : BOOLEAN, open : SUBSET Nat]

Nothing == [as |-> {}, says |-> {}, identity |-> {}, row |-> {}, handoff |-> {}]

NoUser(e) == [exists |-> FALSE, password |-> FALSE, active |-> FALSE, generation |-> 0, email |-> e]

Linked(provider, subject) == {i \in identities : i.provider = provider /\ i.subject = subject}
Slot(provider) == {i \in identities : i.provider = provider}

\* Ids and codes are drawn afresh.
FreshIdentity == {n \in Identity : /\ \A i \in identities : i.id # n
                                   /\ \A q \in Proc : \A i \in seen[q].identity : i.id # n}
FreshCode == {c \in Code : /\ \A h \in handoffs : h.code # c
                           /\ \A q \in Proc : \A h \in seen[q].handoff : h.code # c}

------------------------------------------------------------------------------
(* The users-row lock, and the rows an open transaction has written *)

RowLocked == \E q \in Proc : pc[q] \in {"body", "commit"}

IdentityLocked(n) == \E q \in Proc : \E w \in writes[q] : n \in w.drop \/ \E i \in w.put : i.id = n
CodeLocked(c) == \E q \in Proc : \E w \in writes[q] : c \in w.codes
StateLocked(st) == \E q \in Proc : \E w \in writes[q] : st \in w.links

Start(p, o, where, s) ==
    /\ pc[p] = "idle"
    /\ pc' = [pc EXCEPT ![p] = where]
    /\ op' = [op EXCEPT ![p] = o]
    /\ seen' = [seen EXCEPT ![p] = s]
    /\ UNCHANGED <<setting, writes, history>>

Move(p, where, s) ==
    /\ pc' = [pc EXCEPT ![p] = where]
    /\ seen' = [seen EXCEPT ![p] = s]
    /\ UNCHANGED <<setting, op, writes, history>>

Finish(p) ==
    /\ pc' = [pc EXCEPT ![p] = "idle"]
    /\ op' = [op EXCEPT ![p] = "none"]
    /\ seen' = [seen EXCEPT ![p] = Nothing]
    /\ writes' = [writes EXCEPT ![p] = {}]
    /\ UNCHANGED <<setting, history>>

\* Mutant: the transaction does not take the users-row lock.
LockRowNotTaken(p) ==
    /\ pc[p] = "lock"
    /\ Move(p, "body", seen[p])
    /\ UNCHANGED stored

LockRow(p) ==
    /\ pc[p] = "lock"
    /\ ~RowLocked
    /\ Move(p, "body", seen[p])
    /\ UNCHANGED stored

Buffer(p, w) ==
    /\ writes' = [writes EXCEPT ![p] = {w}]
    /\ pc' = [pc EXCEPT ![p] = "commit"]
    /\ UNCHANGED <<setting, stored, op, seen, history>>

\* The write set that changes nothing; each body overrides what it writes.
Same == [user |-> user, drop |-> {}, put |-> {}, spared |-> {}, codes |-> {}, links |-> {},
         sweep |-> FALSE, open |-> {}]

\* A linked identity is followed by the callback's hand-off; the rest is done.
Commit(p) ==
    /\ pc[p] = "commit"
    /\ \E w \in writes[p] :
        /\ user' = w.user
        /\ identities' = w.put \cup
             {[i EXCEPT !.linked = IF i.id \in w.spared THEN w.user.generation ELSE @] :
                 i \in {j \in identities : j.id \notin w.drop /\ \A k \in w.put : k.id # j.id}}
        /\ handoffs' = {h \in handoffs : h.code \notin w.codes}
        /\ states' = states \ w.links
        /\ sessions' = IF w.sweep THEN {} ELSE sessions \cup w.open
        /\ history' = IF op[p] = "Reclaim"
                      THEN [reclaimed |-> w.user.generation, evicted |-> w.user.generation] ELSE history
    /\ writes' = [writes EXCEPT ![p] = {}]
    /\ IF op[p] \in {"AutoLink", "Provision"}
       THEN pc' = [pc EXCEPT ![p] = "mint"] /\ UNCHANGED <<op, seen>>
       ELSE /\ pc' = [pc EXCEPT ![p] = "idle"]
            /\ op' = [op EXCEPT ![p] = "none"]
            /\ seen' = [seen EXCEPT ![p] = Nothing]
    /\ UNCHANGED setting

\* An error, a refusal, a client or a server gone: the transaction is rolled back.
GiveUp(p) == pc[p] # "idle" /\ Finish(p) /\ UNCHANGED stored

------------------------------------------------------------------------------
(* Starting, and the callback of the provider *)

Authenticate(p, o, s) == \E g \in sessions : Start(p, o, "authenticated", [s EXCEPT !.as = {g}])

Begin(intent) ==
    /\ Cardinality(states) < MaxStarted
    /\ \E st \in [intent : {intent}, provider : Provider] \ states : states' = states \cup {st}
    /\ UNCHANGED <<user, identities, handoffs, sessions>>

StartLogin == Begin("login") /\ UNCHANGED <<setting, pc, op, seen, writes, history>>

AskLink(p) == Authenticate(p, "StartLink", Nothing) /\ UNCHANGED stored
StartLink(p) == pc[p] = "authenticated" /\ op[p] = "StartLink" /\ Begin("link") /\ Finish(p)

\* consumeState: one callback gets the request's row, whatever follows.
Callback(p) ==
    \E st \in states, who \in setting.who, e \in Email :
        /\ who[1] = st.provider
        /\ ~StateLocked(st)
        /\ states' = states \ {st}
        /\ Start(p, st.intent, "callback",
                 [Nothing EXCEPT !.says = {[provider |-> who[1], subject |-> who[2], email |-> e]}])
        /\ UNCHANGED <<user, identities, handoffs, sessions>>

\* login looks the identity up ...
FindIdentity(p) ==
    /\ pc[p] = "callback" /\ op[p] = "login"
    /\ \E c \in seen[p].says :
        LET found == Linked(c.provider, c.subject)
        IN  Move(p, IF found = {} THEN "unknown" ELSE "found", [seen[p] EXCEPT !.identity = found])
    /\ UNCHANGED stored

\* ... and then its owner, with the generation the flow goes on under.
FindOwner(p) ==
    /\ pc[p] = "found"
    /\ user.active
    /\ Move(p, "refresh", [seen[p] EXCEPT !.row = {user}])
    /\ UNCHANGED stored

\* UpdateIfCurrent, without the users-row lock: the row read is written back
\* with the address if it is still there and the generation is the one read.
\* A statement that has to wait for the row has read the generation by then.
RefreshIdentity(p) ==
    /\ \E i \in seen[p].identity, row \in seen[p].row, c \in seen[p].says :
        /\ pc[p] = "refresh" => user.generation = row.generation
        /\ pc[p] \in {"refresh", "waiting"} /\ ~IdentityLocked(i.id)
        /\ \E j \in identities :
            /\ j.id = i.id
            /\ identities' = (identities \ {j}) \cup
                                {[j EXCEPT !.subject = i.subject, !.email = c.email]}
    /\ Move(p, "mirror", [seen[p] EXCEPT !.identity = {}])
    /\ UNCHANGED <<user, states, handoffs, sessions>>

WaitForIdentity(p) ==
    /\ pc[p] = "refresh"
    /\ \E i \in seen[p].identity, row \in seen[p].row :
        IdentityLocked(i.id) /\ user.generation = row.generation
    /\ Move(p, "waiting", seen[p])
    /\ UNCHANGED stored

\* mirrorEmailDrift goes on only for a passwordless account with one identity;
\* an address that another user has ends it, which here is a choice.
MayMirror(p) ==
    /\ pc[p] = "mirror"
    /\ \E row \in seen[p].row, c \in seen[p].says :
        /\ row.email # c.email /\ ~row.password
        /\ Cardinality(identities) = 1
    /\ Move(p, "replace", seen[p])
    /\ UNCHANGED stored

SkipMirror(p) == pc[p] = "mirror" /\ Move(p, "mint", seen[p]) /\ UNCHANGED stored

\* ReplaceEmailIfPasswordless: one UPDATE that waits for the users row, and
\* writes if the account is still passwordless at the generation read.
ReplaceVerifiedEmail(p) ==
    /\ pc[p] = "replace"
    /\ ~RowLocked
    /\ \E row \in seen[p].row, c \in seen[p].says :
        user' = IF user.generation = row.generation /\ ~user.password
                THEN [user EXCEPT !.email = c.email] ELSE user
    /\ Move(p, "mint", seen[p])
    /\ UNCHANGED <<identities, states, handoffs, sessions>>

\* mintHandoff, and the end of a link callback: an INSERT of its own.
MintHandoff(p) ==
    /\ pc[p] = "mint"
    /\ \E c \in seen[p].says, row \in seen[p].row, code \in FreshCode :
        handoffs' = handoffs \cup
            {[code |-> code, kind |-> IF op[p] = "link" THEN "link" ELSE "login",
              provider |-> c.provider, subject |-> c.subject,
              email |-> IF op[p] = "link" THEN {c.email} ELSE {}, generation |-> row.generation]}
    /\ Finish(p)
    /\ UNCHANGED <<user, identities, states, sessions>>

\* No identity: a passwordless account of that address is linked, a password
\* account refused, and an address without an account gets one.
FindByEmail(p) ==
    /\ pc[p] = "unknown"
    /\ user.exists /\ user.active /\ ~user.password
    /\ \E c \in seen[p].says : user.email = c.email
    /\ pc' = [pc EXCEPT ![p] = "lock"]
    /\ op' = [op EXCEPT ![p] = "AutoLink"]
    /\ seen' = [seen EXCEPT ![p].row = {user}]
    /\ UNCHANGED <<setting, stored, writes, history>>

ProvisionExternal(p) ==
    /\ pc[p] = "unknown"
    /\ ~user.exists
    /\ \E c \in seen[p].says :
        user' = [NoUser(c.email) EXCEPT !.exists = TRUE, !.active = TRUE]
    /\ pc' = [pc EXCEPT ![p] = "lock"]
    /\ op' = [op EXCEPT ![p] = "Provision"]
    /\ seen' = [seen EXCEPT ![p].row = {user'}]
    /\ UNCHANGED <<setting, identities, states, handoffs, sessions, writes, history>>

\* The callback of a link reads the owner and parks what the provider said.
FindLinkOwner(p) ==
    /\ pc[p] = "callback" /\ op[p] = "link"
    /\ Move(p, "check", [seen[p] EXCEPT !.row = {user}])
    /\ UNCHANGED stored

CheckLink(p) ==
    /\ pc[p] = "check"
    /\ \E c \in seen[p].says : Linked(c.provider, c.subject) = {} => Slot(c.provider) = {}
    /\ Move(p, "mint", seen[p])
    /\ UNCHANGED stored

------------------------------------------------------------------------------
(* Hand-offs redeemed *)

\* A redemption peeks at the row to learn whose lock to take.
ExchangeHandoff(p) ==
    /\ \E h \in handoffs : Start(p, "ExchangeHandoff", "lock", [Nothing EXCEPT !.handoff = {h}])
    /\ UNCHANGED stored

\* A link is completed by an authenticated client that holds the code.
AskCompletion(p) ==
    /\ \E h \in handoffs : Authenticate(p, "CompleteLink", [Nothing EXCEPT !.handoff = {h}])
    /\ UNCHANGED stored

\* consumeHandoff, before the transaction and without the lock: the one whose
\* DELETE removes the row has it, and a sign-in's row is wasted.
ConsumeLink(p) ==
    /\ pc[p] = "authenticated" /\ op[p] = "CompleteLink"
    /\ \E h \in seen[p].handoff :
        /\ h \in handoffs /\ ~CodeLocked(h.code)
        /\ handoffs' = handoffs \ {h}
        /\ IF h.kind = "link" THEN Move(p, "lock", seen[p]) ELSE Finish(p)
    /\ UNCHANGED <<user, identities, states, sessions>>

------------------------------------------------------------------------------
(* Inside the transactions *)

In(p, o) == pc[p] = "body" /\ op[p] = o

Row(n, c, e, g) == [id |-> n, provider |-> c.provider, subject |-> c.subject, email |-> e, linked |-> g]

Fenced(g) == user.generation = g

\* saveLinkedIdentity: the slot's row is repointed, or written.
AutoLink(p) ==
    /\ In(p, "AutoLink")
    /\ \E row \in seen[p].row, c \in seen[p].says :
        /\ Fenced(row.generation)
        /\ \E n \in IF Slot(c.provider) = {} THEN FreshIdentity ELSE {i.id : i \in Slot(c.provider)} :
            Buffer(p, [Same EXCEPT !.put = {Row(n, c, c.email, row.generation)}])

\* A row that another callback linked meanwhile fails the unique key.
Provision(p) ==
    /\ In(p, "Provision")
    /\ \E row \in seen[p].row, c \in seen[p].says, n \in FreshIdentity :
        /\ Fenced(row.generation)
        /\ Slot(c.provider) = {}
        /\ Buffer(p, [Same EXCEPT !.put = {Row(n, c, c.email, row.generation)}])

\* Mutant: the identity is written whatever the generation is by now.
CompleteLinkUnfenced(p) ==
    /\ In(p, "CompleteLink")
    /\ \E h \in seen[p].handoff, g \in seen[p].as, n \in FreshIdentity : \E e \in h.email :
        /\ Slot(h.provider) = {}
        /\ Buffer(p, [Same EXCEPT !.put = {Row(n, h, e, g)}])

\* The parked identity is written under the generation the callback read; of
\* one the account has already, only the address is.
CompleteLink(p) ==
    /\ In(p, "CompleteLink")
    /\ \E h \in seen[p].handoff, g \in seen[p].as : \E e \in h.email :
        /\ Fenced(h.generation)
        /\ \/ \E i \in Linked(h.provider, h.subject) :
                Buffer(p, [Same EXCEPT !.put = {[i EXCEPT !.email = e]}])
           \/ /\ Slot(h.provider) = {}
              /\ \E n \in FreshIdentity : Buffer(p, [Same EXCEPT !.put = {Row(n, h, e, g)}])

\* A way in that is not an identity.
PasswordWorks == user.password /\ setting.passwordLogin

AskUnlink(p) == Authenticate(p, "UnlinkIdentity", Nothing) /\ UNCHANGED stored

PrepareUnlink(p) ==
    /\ pc[p] = "authenticated" /\ op[p] = "UnlinkIdentity"
    /\ Move(p, "lock", seen[p])
    /\ UNCHANGED stored

\* UnlinkIdentity: never the last way in, and the provider's hand-offs go with it.
UnlinkIdentity(p) ==
    /\ In(p, "UnlinkIdentity")
    /\ PasswordWorks \/ Cardinality(identities) > 1
    /\ \E i \in identities :
        Buffer(p, [Same EXCEPT !.drop = {i.id},
                     !.codes = {h.code : h \in {x \in handoffs : x.provider = i.provider}}])

\* Mutant: the identity that the callback found is not looked for again.
RedeemUnchecked(p) ==
    /\ In(p, "ExchangeHandoff")
    /\ \E h \in seen[p].handoff :
        /\ h \in handoffs /\ h.kind = "login" /\ user.active /\ Fenced(h.generation)
        /\ Buffer(p, [Same EXCEPT !.codes = {h.code}, !.open = {h.generation}])

\* The hand-off is taken under the lock, its identity must still be linked, and
\* the session is fenced on the generation the callback resolved the user under.
Redeem(p) ==
    /\ In(p, "ExchangeHandoff")
    /\ \E h \in seen[p].handoff :
        /\ h \in handoffs /\ h.kind = "login"
        /\ Linked(h.provider, h.subject) # {}
        /\ user.active /\ Fenced(h.generation)
        /\ Buffer(p, [Same EXCEPT !.codes = {h.code}, !.open = {h.generation}])

\* A wrong kind, a wrong secret, a lapsed row or an unlinked identity costs the code.
Waste(p) ==
    /\ In(p, "ExchangeHandoff")
    /\ \E h \in seen[p].handoff : h \in handoffs /\ Buffer(p, [Same EXCEPT !.codes = {h.code}])

------------------------------------------------------------------------------
(* The account's own side *)

CanBump == user.generation < MaxGeneration

\* A reset of the password, or the operator's: reclaimCredentials.
AskReclaim(p) == user.exists /\ Start(p, "Reclaim", "lock", Nothing) /\ UNCHANGED stored

\* ReclaimAccount: identities listed and those of other addresses deleted, then
\* every hand-off and every link under way, as each statement finds them.
ReclaimAccount(p) ==
    /\ In(p, "Reclaim") /\ CanBump
    /\ Buffer(p, [Same EXCEPT
            !.user = [user EXCEPT !.password = TRUE, !.generation = @ + 1],
            !.drop = {i.id : i \in {x \in identities : x.email # user.email}},
            !.spared = {i.id : i \in {x \in identities : x.email = user.email}},
            !.codes = {h.code : h \in handoffs},
            !.links = {st \in states : st.intent = "link"}, !.sweep = TRUE])

\* What Credentials shows to act as one step, when nobody holds the row.
SignIn ==
    /\ ~RowLocked /\ user.active /\ PasswordWorks
    /\ sessions' = sessions \cup {user.generation}
    /\ UNCHANGED <<setting, user, identities, states, handoffs, pc, op, seen, writes, history>>

AdminDeactivate ==
    /\ ~RowLocked /\ user.active /\ CanBump
    /\ user' = [user EXCEPT !.active = FALSE, !.generation = @ + 1]
    /\ sessions' = {}
    /\ history' = [history EXCEPT !.evicted = user'.generation]
    /\ UNCHANGED <<setting, identities, states, handoffs, pc, op, seen, writes>>

AdminActivate ==
    /\ ~RowLocked /\ user.exists /\ ~user.active
    /\ user' = [user EXCEPT !.active = TRUE]
    /\ UNCHANGED <<setting, identities, states, handoffs, sessions, pc, op, seen, writes, history>>

\* sweepExpired: a row past its time, which would be refused anyway, goes.
LapseHandoff ==
    /\ \E h \in handoffs : ~CodeLocked(h.code) /\ handoffs' = handoffs \ {h}
    /\ UNCHANGED <<setting, user, identities, states, sessions, pc, op, seen, writes, history>>

LapseState ==
    /\ \E st \in states : ~StateLocked(st) /\ states' = states \ {st}
    /\ UNCHANGED <<setting, user, identities, handoffs, sessions, pc, op, seen, writes, history>>

------------------------------------------------------------------------------
(* The specification *)

\* No account; or one with a password, or with one identity, or with both.
Init ==
    /\ setting \in Settings
    /\ \E e \in Email, password \in BOOLEAN :
        \/ "login" \in setting.kinds /\ user = NoUser(e) /\ identities = {} /\ sessions = {}
        \/ /\ user = [NoUser(e) EXCEPT !.exists = TRUE, !.active = TRUE, !.password = password]
           /\ \/ identities = {} /\ password
              \/ \E n \in Identity, who \in setting.who, vouched \in Email :
                    identities = {[id |-> n, provider |-> who[1], subject |-> who[2],
                                   email |-> vouched, linked |-> 0]}
           /\ sessions = {0}
    /\ states = {} /\ handoffs = {}
    /\ pc = [p \in Proc |-> "idle"]
    /\ op = [p \in Proc |-> "none"]
    /\ seen = [p \in Proc |-> Nothing]
    /\ writes = [p \in Proc |-> {}]
    /\ history = [reclaimed |-> 0, evicted |-> 0]

Arrive(p) == \/ Callback(p)
             \/ "login" \in setting.kinds /\ ExchangeHandoff(p)
             \/ "link" \in setting.kinds /\ (AskLink(p) \/ AskCompletion(p))
             \/ "unlink" \in setting.kinds /\ AskUnlink(p)
             \/ "reclaim" \in setting.kinds /\ AskReclaim(p)

Proceed(p) == \/ StartLink(p) \/ FindIdentity(p) \/ FindOwner(p) \/ RefreshIdentity(p)
              \/ WaitForIdentity(p) \/ MayMirror(p)
              \/ SkipMirror(p) \/ ReplaceVerifiedEmail(p) \/ MintHandoff(p) \/ FindByEmail(p)
              \/ ProvisionExternal(p) \/ FindLinkOwner(p) \/ CheckLink(p) \/ ConsumeLink(p)
              \/ PrepareUnlink(p)

Body(p) == \/ AutoLink(p) \/ Provision(p) \/ CompleteLink(p) \/ UnlinkIdentity(p)
           \/ Redeem(p) \/ Waste(p) \/ ReclaimAccount(p)

Account == \/ SignIn
           \/ "deactivate" \in setting.kinds /\ (AdminDeactivate \/ AdminActivate)

Next == \/ \E p \in Proc : Arrive(p) \/ Proceed(p) \/ LockRow(p) \/ Body(p) \/ Commit(p) \/ GiveUp(p)
        \/ "login" \in setting.kinds /\ StartLogin
        \/ LapseHandoff \/ LapseState \/ Account

Spec == Init /\ [][Next]_vars

------------------------------------------------------------------------------
(* Properties *)

\* Every variable has its type.
TypeOK ==
    /\ setting \in Settings
    /\ user \in UserRow
    /\ identities \in SUBSET IdentityRow /\ states \in SUBSET StateRow
    /\ handoffs \in SUBSET HandoffRow /\ sessions \in SUBSET Nat
    /\ pc \in [Proc -> {"idle", "authenticated", "callback", "found", "refresh", "waiting", "mirror",
                       "replace", "unknown", "check", "mint", "lock", "body", "commit"}]
    /\ op \in [Proc -> {"none", "login", "link", "StartLink", "ExchangeHandoff", "CompleteLink",
                       "AutoLink", "Provision", "UnlinkIdentity", "Reclaim"}]
    /\ seen \in [Proc -> Seen]
    /\ writes \in [Proc -> SUBSET WriteSet]
    /\ history \in [reclaimed : Nat, evicted : Nat]

\* A recovered account is its owner's alone: no session and no identity has an
\* authority older than the latest reset, and no session one older than the
\* latest deactivation, whichever callback, redemption or link was in the air
\* (identities.go:97-144, handoff.go:118-124, callback.go:175-182).
NoWayInOutlivesReclaim ==
    /\ \A g \in sessions : g >= history.evicted
    /\ \A i \in identities : i.linked >= history.reclaimed

\* A hand-off opens a session only by taking its row while it is outstanding,
\* so once, and only while its provider is still linked and the account active:
\* an unlink and a redemption run one after the other (handoff.go:14-17, 33-58).
RedeemedOnlyWhileLinked ==
    [][\A p \in Proc : Commit(p) /\ (\E w \in writes[p] : w.open # {}) =>
        /\ user.active
        /\ \E h \in handoffs \ handoffs' : h.kind = "login" /\ Slot(h.provider) # {}]_vars

HasWayIn == PasswordWorks \/ identities # {}

\* Nobody locks themselves out: with any number of unlinks at once a way in
\* stays.  Only an operator who sets a password that this deployment does not
\* take can end the last one (identities.go:51-53, 64-80).
LastWayInStays ==
    [][HasWayIn =>
        HasWayIn' \/ \E p \in Proc : Commit(p) /\ op[p] = "Reclaim" /\ ~setting.passwordLogin]_vars

==============================================================================
