-------------------------- MODULE Credentials_proofs --------------------------
(***************************************************************************)
(* Proofs about Credentials, for any numbers of requests, tokens, codes    *)
(* and addresses, any bound on the generation and any set of operations.   *)
(***************************************************************************)
EXTENDS Credentials, TLAPS

\* The write set that changes nothing is one; so is each that a body buffers.
LEMMA SameIsAWriteSet ==
    ASSUME TypeOK
    PROVE  Same \in WriteSet
BY DEF TypeOK, Same, WriteSet, NoToken, TokenRow

LEMMA NothingIsSeen == Nothing \in Seen
BY DEF Nothing, Seen

\* The ways a body changes the users row, applied to a row, give a row.
LEMMA SetPasswordGivesARow ==
    ASSUME NEW u \in UserRow
    PROVE  SetPassword(u) \in UserRow
<1>1. u.generation + 1 \in Nat
      BY DEF UserRow
<1> QED  BY <1>1 DEF SetPassword, UserRow

LEMMA BumpGivesARow ==
    ASSUME NEW u \in UserRow
    PROVE  Bump(u) \in UserRow
<1>1. u.generation + 1 \in Nat
      BY DEF UserRow
<1> QED  BY <1>1 DEF Bump, UserRow

\* Buffering a write set leaves every variable with its type.
LEMMA BufferKeepsTypes ==
    ASSUME TypeOK, NEW p \in Proc, NEW w \in WriteSet, Buffer(p, w)
    PROVE  TypeOK'
BY DEF TypeOK, Buffer

LEMMA FinishKeepsTypes ==
    ASSUME TypeOK, NEW p \in Proc, Finish(p), UNCHANGED <<user, tokens, resets, changes, history>>
    PROVE  TypeOK'
BY NothingIsSeen DEF TypeOK, Finish

LEMMA StartKeepsTypes ==
    ASSUME TypeOK, NEW p \in Proc, NEW o \in AllOperations, NEW s \in Seen,
           NEW where \in {"touch", "authenticated", "lock"}, Start(p, o, where, s)
    PROVE  TypeOK'
BY DEF TypeOK, Start

LEMMA ReadKeepsTypes ==
    ASSUME TypeOK, NEW p \in Proc, NEW s \in Seen,
           NEW where \in {"reread", "lock"}, Read(p, where, s)
    PROVE  TypeOK'
BY DEF TypeOK, Read

\* Whatever a body writes is a write set.
LEMMA BodyBuffersAWriteSet ==
    ASSUME TypeOK, NEW p \in Proc, Body(p)
    PROVE  \E w \in WriteSet : Buffer(p, w)
<1>0. /\ Same \in WriteSet
      /\ user \in UserRow
      /\ user.generation \in Nat
      /\ seen[p] \in Seen
      BY SameIsAWriteSet DEF TypeOK, UserRow
<1>1. CASE CreateSession(p)
  <2>1. PICK row \in seen[p].row, t \in FreshToken :
           Buffer(p, [Same EXCEPT !.mint = {t},
                        !.minted = [state |-> "live", kind |-> "session", since |-> row.generation]])
        BY <1>1 DEF CreateSession
  <2>2. t \in Token /\ row.generation \in Nat
        BY <1>0 DEF FreshToken, Seen, UserRow
  <2>3. [Same EXCEPT !.mint = {t},
           !.minted = [state |-> "live", kind |-> "session", since |-> row.generation]] \in WriteSet
        BY <1>0, <2>2 DEF WriteSet, TokenRow
  <2> QED  BY <2>1, <2>3
<1>2. CASE CreatePersonalToken(p)
  <2>1. PICK a \in seen[p].as, t \in FreshToken :
           Buffer(p, [Same EXCEPT !.mint = {t},
                        !.minted = [state |-> "live", kind |-> "personal", since |-> tokens[a].since]])
        BY <1>2 DEF CreatePersonalToken
  <2>2. t \in Token /\ tokens[a].since \in Nat
        BY <1>0 DEF FreshToken, Seen, TypeOK, TokenRow
  <2>3. [Same EXCEPT !.mint = {t},
           !.minted = [state |-> "live", kind |-> "personal", since |-> tokens[a].since]] \in WriteSet
        BY <1>0, <2>2 DEF WriteSet, TokenRow
  <2> QED  BY <2>1, <2>3
<1>3. CASE IssueResetCode(p)
  <2>1. PICK row \in seen[p].row, c \in FreshCode :
           Buffer(p, [Same EXCEPT !.resets =
               {[id |-> c, to |-> row.email, fresh |-> TRUE, verified |-> row.generation,
                 by |-> "RemindPassword"]}])
        BY <1>3 DEF IssueResetCode
  <2>2. c \in Code /\ row.email \in Email /\ row.generation \in Nat
        BY <1>0 DEF FreshCode, Seen, UserRow
  <2>3. [id |-> c, to |-> row.email, fresh |-> TRUE, verified |-> row.generation,
         by |-> "RemindPassword"] \in RequestRow
        BY <2>2 DEF RequestRow
  <2> QED  BY <1>0, <2>1, <2>3 DEF WriteSet
<1>4. CASE CompleteReset(p) \/ AdminChangePassword(p)
  <2>1. Reclaim(p, SetPassword(user))
        BY <1>4 DEF CompleteReset, AdminChangePassword
  <2>2. Bump(SetPassword(user)) \in UserRow
        BY <1>0, SetPasswordGivesARow, BumpGivesARow
  <2> QED  BY <1>0, <2>1, <2>2 DEF Reclaim, WriteSet, Unrevoked
<1>5. CASE AdminDeactivate(p)
  <2>0. [user EXCEPT !.active = FALSE] \in UserRow
        BY <1>0 DEF UserRow
  <2>1. Bump([user EXCEPT !.active = FALSE]) \in UserRow
        BY <2>0, BumpGivesARow
  <2> QED  BY <1>0, <1>5, <2>1 DEF AdminDeactivate, WriteSet, Unrevoked
<1>6. CASE AdminActivate(p) \/ SaveProfile(p)
  <2>1. [user EXCEPT !.active = TRUE] \in UserRow
        BY <1>0 DEF UserRow
  <2> QED  BY <1>0, <1>6, <2>1 DEF AdminActivate, SaveProfile, WriteSet
<1>7. CASE AdminChangeEmail(p)
  <2>1. ASSUME NEW e \in Email
        PROVE  [user EXCEPT !.email = e] \in UserRow
        BY <1>0 DEF UserRow
  <2> QED  BY <1>0, <1>7, <2>1 DEF AdminChangeEmail, WriteSet
<1>8. CASE UpdatePassword(p)
  <2>1. Bump(SetPassword(user)) \in UserRow
        BY <1>0, SetPasswordGivesARow, BumpGivesARow
  <2> QED  BY <1>0, <1>8, <2>1 DEF UpdatePassword, WriteSet, Unrevoked, Sessions
<1>9. CASE IssueEmailChangeCode(p)
  <2>1. PICK e \in seen[p].to, c \in FreshCode, row \in seen[p].row :
           \E g \in (IF op[p] = "RequestEmailChange" THEN {row.generation}
                     ELSE {r.verified : r \in seen[p].pending}) :
               Buffer(p, [Same EXCEPT !.changes =
                   {[id |-> c, to |-> e, fresh |-> TRUE, verified |-> g, by |-> op[p]]}])
        BY <1>9 DEF IssueEmailChangeCode
  <2>2. PICK g \in (IF op[p] = "RequestEmailChange" THEN {row.generation}
                    ELSE {r.verified : r \in seen[p].pending}) :
           Buffer(p, [Same EXCEPT !.changes =
               {[id |-> c, to |-> e, fresh |-> TRUE, verified |-> g, by |-> op[p]]}])
        BY <2>1
  <2>3. e \in Email /\ c \in Code /\ g \in Nat
        BY <1>0 DEF FreshCode, Seen, UserRow, RequestRow
  <2>4. op[p] \in {"RequestEmailChange", "ResendEmailChangeCode"}
        BY <1>9 DEF IssueEmailChangeCode
  <2>5. [id |-> c, to |-> e, fresh |-> TRUE, verified |-> g, by |-> op[p]] \in RequestRow
        BY <2>3, <2>4 DEF RequestRow
  <2> QED  BY <1>0, <2>2, <2>5 DEF WriteSet
<1>10. CASE ConfirmEmailChange(p)
  <2>1. PICK cr \in seen[p].pending :
           Buffer(p, [Same EXCEPT !.user = [user EXCEPT !.email = cr.to],
                        !.changes = {r \in changes : r.id # cr.id}])
        BY <1>10 DEF ConfirmEmailChange
  <2>2. cr.to \in Email
        BY <1>0 DEF Seen, RequestRow
  <2>3. [user EXCEPT !.email = cr.to] \in UserRow /\ {r \in changes : r.id # cr.id} \subseteq RequestRow
        BY <1>0, <2>2 DEF UserRow, TypeOK
  <2> QED  BY <1>0, <2>1, <2>3 DEF WriteSet
<1> QED  BY <1>1, <1>2, <1>3, <1>4, <1>5, <1>6, <1>7, <1>8, <1>9, <1>10 DEF Body

LEMMA InitHasTypes == Init => TypeOK
<1> SUFFICES ASSUME Init
             PROVE  TypeOK
    OBVIOUS
<1>1. user \in UserRow
      BY DEF Init, UserRow
<1>2. tokens \in [Token -> TokenRow]
      BY DEF Init, TokenRow, NoToken
<1>3. history \in [rotated : Nat, evicted : Nat]
      BY DEF Init
<1> QED  BY <1>1, <1>2, <1>3, NothingIsSeen DEF Init, TypeOK

\* One case per action; those that share a shape share its lemma.
LEMMA NextKeepsTypes == TypeOK /\ [Next]_vars => TypeOK'
<1> SUFFICES ASSUME TypeOK, [Next]_vars
             PROVE  TypeOK'
    OBVIOUS
<1> USE OperationsAssumption
<1>1. ASSUME NEW p \in Proc, Arrive(p)
      PROVE  TypeOK'
  <2>0. user \in UserRow /\ Operations \subseteq AllOperations
        BY DEF TypeOK
  <2>1. CASE Login(p)
    <3>1. [Nothing EXCEPT !.row = {user}] \in Seen
          BY <2>0 DEF Nothing, Seen
    <3>2. "Login" \in AllOperations
          BY DEF AllOperations, Anonymous
    <3> QED  BY <2>1, <3>1, <3>2, StartKeepsTypes DEF Login
  <2>2. CASE RemindPassword(p)
    <3>1. [Nothing EXCEPT !.row = {user}] \in Seen
          BY <2>0 DEF Nothing, Seen
    <3>2. "RemindPassword" \in AllOperations
          BY DEF AllOperations, Anonymous
    <3> QED  BY <2>2, <3>1, <3>2, StartKeepsTypes DEF RemindPassword
  <2>3. CASE ResetPassword(p)
    <3>1. PICK r \in resets : Start(p, "ResetPassword", "lock", [Nothing EXCEPT !.row = {user}, !.code = {r}])
          BY <2>3 DEF ResetPassword
    <3>2. r \in RequestRow
          BY DEF TypeOK
    <3>3. [Nothing EXCEPT !.row = {user}, !.code = {r}] \in Seen
          BY <2>0, <3>2 DEF Nothing, Seen
    <3>4. "ResetPassword" \in AllOperations
          BY DEF AllOperations, Anonymous
    <3> QED  BY <3>1, <3>3, <3>4, StartKeepsTypes
  <2>4. CASE Mutate(p)
    <3>1. PICK o \in Operator : Start(p, o, "lock", [Nothing EXCEPT !.row = {user}])
          BY <2>4 DEF Mutate
    <3>2. [Nothing EXCEPT !.row = {user}] \in Seen
          BY <2>0 DEF Nothing, Seen
    <3>3. o \in AllOperations
          BY DEF AllOperations
    <3> QED  BY <3>1, <3>2, <3>3, StartKeepsTypes
  <2>5. CASE Authenticate(p)
    <3>1. PICK t \in Token, o \in Authenticated, where \in {"touch", "authenticated"} :
             Start(p, o, where, [Nothing EXCEPT !.as = {t}])
          BY <2>5 DEF Authenticate
    <3>2. [Nothing EXCEPT !.as = {t}] \in Seen
          BY DEF Nothing, Seen
    <3>3. o \in AllOperations
          BY DEF AllOperations
    <3> QED  BY <3>1, <3>2, <3>3, StartKeepsTypes
  <2> QED  BY <1>1, <2>1, <2>2, <2>3, <2>4, <2>5 DEF Arrive
<1>2. ASSUME NEW p \in Proc, Wait(p)
      PROVE  TypeOK'
  <2>1. CASE LockRow(p)
        BY <2>1 DEF LockRow, TypeOK
  <2>2. CASE RehashLegacyPassword(p)
    <3>1. PICK row \in seen[p].row :
             /\ user' = IF user.generation = row.generation
                        THEN [user EXCEPT !.password = row.password, !.legacy = FALSE]
                        ELSE user
             /\ seen' = [seen EXCEPT ![p].row = {[row EXCEPT !.legacy = FALSE]}]
          BY <2>2 DEF RehashLegacyPassword
    <3>2. seen[p] \in Seen /\ row \in UserRow
          BY <3>1 DEF TypeOK, Seen
    <3>3. user' \in UserRow /\ [row EXCEPT !.legacy = FALSE] \in UserRow
          BY <3>1, <3>2 DEF TypeOK, UserRow
    <3>4. [seen[p] EXCEPT !.row = {[row EXCEPT !.legacy = FALSE]}] \in Seen
          BY <3>2, <3>3 DEF Seen
    <3>5. seen' \in [Proc -> Seen]
          BY <3>1, <3>4 DEF TypeOK
    <3> QED  BY <2>2, <3>3, <3>5 DEF RehashLegacyPassword, TypeOK
  <2>3. CASE Touch(p)
    <3>1. PICK t \in seen[p].as :
            IF t \in Unrevoked
            THEN /\ pc' = [pc EXCEPT ![p] = "authenticated"]
                 /\ tokens' = IF tokens[t].kind = "session"
                              THEN [tokens EXCEPT ![t].state = "live"] ELSE tokens
                 /\ UNCHANGED <<op, seen, writes>>
            ELSE Finish(p) /\ UNCHANGED tokens
          BY <2>3 DEF Touch
    <3>2. UNCHANGED <<user, resets, changes, history>>
          BY <2>3 DEF Touch
    <3>3. t \in Token
          BY DEF TypeOK, Seen
    <3>4. [tokens EXCEPT ![t].state = "live"] \in [Token -> TokenRow]
          BY <3>3 DEF TypeOK, TokenRow
    <3>5. CASE t \in Unrevoked
          BY <3>1, <3>2, <3>4, <3>5 DEF TypeOK
    <3>6. CASE t \notin Unrevoked
          BY <3>1, <3>2, <3>6, FinishKeepsTypes
    <3> QED  BY <3>5, <3>6
  <2>4. CASE RevokeSessions(p)
    <3>1. tokens' \in [Token -> TokenRow]
          BY <2>4 DEF RevokeSessions, TypeOK, TokenRow
    <3>2. Finish(p) /\ UNCHANGED <<user, resets, changes, history>>
          BY <2>4 DEF RevokeSessions
    <3> QED  BY <3>1, <3>2, NothingIsSeen DEF TypeOK, Finish
  <2> QED  BY <1>2, <2>1, <2>2, <2>3, <2>4 DEF Wait
<1>3. ASSUME NEW p \in Proc, Evidence(p)
      PROVE  TypeOK'
  <2>0. user \in UserRow /\ seen[p] \in Seen
        BY DEF TypeOK
  <2>1. CASE CheckOldPassword(p)
    <3>1. [seen[p] EXCEPT !.row = {user}] \in Seen
          BY <2>0 DEF Seen
    <3> QED  BY <2>1, <3>1, ReadKeepsTypes DEF CheckOldPassword
  <2>2. CASE CheckEmailChange(p)
    <3>1. PICK e \in Email : Read(p, "lock", [seen[p] EXCEPT !.row = {user}, !.to = {e}])
          BY <2>2 DEF CheckEmailChange
    <3>2. [seen[p] EXCEPT !.row = {user}, !.to = {e}] \in Seen
          BY <2>0 DEF Seen
    <3> QED  BY <3>1, <3>2, ReadKeepsTypes
  <2>3. CASE PreparePersonalToken(p)
        BY <2>0, <2>3, ReadKeepsTypes DEF PreparePersonalToken
  <2>4. CASE MatchPendingChange(p)
    <3>1. PICK r \in changes : Read(p, "lock", [seen[p] EXCEPT !.pending = {r}])
          BY <2>4 DEF MatchPendingChange
    <3>2. r \in RequestRow
          BY DEF TypeOK
    <3>3. [seen[p] EXCEPT !.pending = {r}] \in Seen
          BY <2>0, <3>2 DEF Seen
    <3> QED  BY <3>1, <3>3, ReadKeepsTypes
  <2>5. CASE ReadPendingChange(p)
    <3>1. PICK r \in changes : Read(p, "reread", [seen[p] EXCEPT !.pending = {r}, !.to = {r.to}])
          BY <2>5 DEF ReadPendingChange
    <3>2. r \in RequestRow /\ r.to \in Email
          BY DEF TypeOK, RequestRow
    <3>3. [seen[p] EXCEPT !.pending = {r}, !.to = {r.to}] \in Seen
          BY <2>0, <3>2 DEF Seen
    <3> QED  BY <3>1, <3>3, ReadKeepsTypes
  <2>6. CASE RereadUser(p)
    <3>1. [seen[p] EXCEPT !.row = {user}] \in Seen
          BY <2>0 DEF Seen
    <3> QED  BY <2>6, <3>1, ReadKeepsTypes DEF RereadUser
  <2> QED  BY <1>3, <2>1, <2>2, <2>3, <2>4, <2>5, <2>6 DEF Evidence
<1>4. ASSUME NEW p \in Proc, Body(p)
      PROVE  TypeOK'
      BY <1>4, BodyBuffersAWriteSet, BufferKeepsTypes
<1>5. ASSUME NEW p \in Proc, Commit(p)
      PROVE  TypeOK'
  <2>1. PICK w \in writes[p] :
           /\ user' = w.user
           /\ resets' = w.resets
           /\ changes' = w.changes
           /\ tokens' = [t \in Token |->
                           IF t \in w.sweep THEN [tokens[t] EXCEPT !.state = "revoked"]
                           ELSE IF t \in w.mint THEN w.minted
                           ELSE tokens[t]]
           /\ history' = [rotated |-> IF op[p] \in Rotating THEN w.user.generation ELSE history.rotated,
                          evicted |-> IF op[p] \in Evicting THEN w.user.generation ELSE history.evicted]
        BY <1>5 DEF Commit
  <2>2. w \in WriteSet
        BY DEF TypeOK
  <2>3. user' \in UserRow /\ resets' \subseteq RequestRow /\ changes' \subseteq RequestRow
        BY <2>1, <2>2 DEF WriteSet
  <2>4. tokens' \in [Token -> TokenRow]
        BY <2>1, <2>2 DEF WriteSet, TypeOK, TokenRow
  <2>5. history' \in [rotated : Nat, evicted : Nat]
        BY <2>1, <2>2 DEF WriteSet, UserRow, TypeOK
  <2>6. /\ pc' \in [Proc -> {"idle", "touch", "authenticated", "reread", "lock", "body", "commit", "revoke"}]
        /\ op' \in [Proc -> AllOperations \cup {"none"}]
        /\ seen' \in [Proc -> Seen]
        /\ writes' \in [Proc -> SUBSET WriteSet]
        BY <1>5, NothingIsSeen DEF Commit, Finish, TypeOK
  <2> QED  BY <2>3, <2>4, <2>5, <2>6 DEF TypeOK
<1>6. ASSUME NEW p \in Proc, Reject(p) \/ Crash(p)
      PROVE  TypeOK'
      BY <1>6, FinishKeepsTypes DEF Reject, Crash
<1>7. ASSUME NEW t \in Token, Lapse(t)
      PROVE  TypeOK'
  <2>1. tokens' \in [Token -> TokenRow]
        BY <1>7 DEF Lapse, RevokeToken, Expire, PurgeDeadToken, SetToken, TypeOK, TokenRow, NoToken
  <2> QED  BY <1>7, <2>1 DEF Lapse, RevokeToken, Expire, PurgeDeadToken, SetToken, TypeOK
<1>8. ASSUME NEW c \in Code, ExpireCode(c)
      PROVE  TypeOK'
  <2>1. /\ resets' = {[r EXCEPT !.fresh = @ /\ r.id # c] : r \in resets}
        /\ changes' = {[r EXCEPT !.fresh = @ /\ r.id # c] : r \in changes}
        BY <1>8 DEF ExpireCode
  <2>2. ASSUME NEW r \in RequestRow
        PROVE  [r EXCEPT !.fresh = @ /\ r.id # c] \in RequestRow
    <3>1. (r.fresh /\ r.id # c) \in BOOLEAN
          OBVIOUS
    <3> QED  BY <3>1 DEF RequestRow
  <2>3. resets' \subseteq RequestRow /\ changes' \subseteq RequestRow
        BY <2>1, <2>2 DEF TypeOK
  <2> QED  BY <1>8, <2>3 DEF ExpireCode, TypeOK
<1>9. CASE UNCHANGED vars
      BY <1>9 DEF vars, TypeOK
<1> QED  BY <1>1, <1>2, <1>3, <1>4, <1>5, <1>6, <1>7, <1>8, <1>9 DEF Next, Run

\* Type correctness, for every instance.
THEOREM TypesAreKept == Spec => []TypeOK
BY InitHasTypes, NextKeepsTypes, PTL DEF Spec

------------------------------------------------------------------------------
(***************************************************************************)
(* Safety.  The properties of the committed rows are inductive only along  *)
(* with what they rest on: the row lock has one holder; evidence read      *)
(* outside a transaction is of this generation only if nothing it vouches  *)
(* for has changed since; and what a body has buffered is still right,     *)
(* however long the commit takes.                                          *)
(***************************************************************************)

OneHolder ==
    /\ \A p, q \in Proc : Holding(p) /\ Holding(q) => p = q
    /\ \A p \in Proc : pc[p] # "commit" => writes[p] = {}

\* Both ends of every authority.
GenerationsInOrder ==
    /\ history.evicted <= user.generation
    /\ \A t \in Unrevoked : tokens[t].since <= user.generation

EvidenceHolds ==
    \A p \in Proc :
        /\ \A row \in seen[p].row :
            /\ row.generation <= user.generation
            /\ row.generation = user.generation =>
                 /\ row.password = user.password
                 /\ row.active => user.active
            /\ op[p] = "Login" => row.active
        /\ \A s, t \in seen[p].as : s = t

BufferHolds(o, w) ==
    /\ w.user.generation = IF o \in Bumping THEN user.generation + 1 ELSE user.generation
    /\ w.user.password = IF o \in Rotating THEN user.generation + 1 ELSE user.password
    /\ o \in Evicting => w.mint = {} /\ Unrevoked \subseteq w.sweep
    /\ o = "UpdatePassword" => w.mint = {} /\ \A s, t \in Sessions \ w.sweep : s = t
    /\ o \notin Evicting => (user.active => w.user.active)
    /\ w.mint # {} => /\ w.user = user /\ user.active
                      /\ history.evicted <= w.minted.since
                      /\ w.minted.since <= user.generation
                      /\ w.minted.kind = "session" => w.minted.since = user.generation

BuffersHold == \A p \in Proc : \A w \in writes[p] : BufferHolds(op[p], w)

RowsHold ==
    /\ GenerationsInOrder
    /\ NoCredentialOutlivesEviction
    /\ AtMostOneSurvivor
    /\ InactiveHoldsNoToken
    /\ PasswordIsTheLatestSet

SafetyInv == TypeOK /\ OneHolder /\ EvidenceHolds /\ BuffersHold /\ RowsHold

\* Revocation, expiry, purging and touching: fewer tokens, none of them new.
Fewer ==
    /\ UNCHANGED <<user, history>>
    /\ Unrevoked' \subseteq Unrevoked
    /\ \A t \in Unrevoked' : tokens'[t].since = tokens[t].since /\ tokens'[t].kind = tokens[t].kind

LEMMA FewerKeepsRows ==
    ASSUME RowsHold, Fewer
    PROVE  RowsHold'
<1>1. Sessions' \subseteq Sessions
      BY DEF Fewer, Sessions
<1>2. GenerationsInOrder'
      BY DEF RowsHold, GenerationsInOrder, Fewer
<1>3. NoCredentialOutlivesEviction'
      BY DEF RowsHold, NoCredentialOutlivesEviction, Fewer
<1>4. AtMostOneSurvivor'
      BY <1>1 DEF RowsHold, AtMostOneSurvivor, Fewer, Sessions
<1>5. InactiveHoldsNoToken'
      BY DEF RowsHold, InactiveHoldsNoToken, Fewer
<1>6. PasswordIsTheLatestSet'
      BY DEF RowsHold, PasswordIsTheLatestSet, Fewer
<1> QED  BY <1>2, <1>3, <1>4, <1>5, <1>6 DEF RowsHold

LEMMA FewerKeepsBuffers ==
    ASSUME BuffersHold, Fewer,
           \A q \in Proc : writes'[q] = {} \/ (writes'[q] = writes[q] /\ op'[q] = op[q])
    PROVE  BuffersHold'
<1> SUFFICES ASSUME NEW q \in Proc, NEW w \in writes'[q]
             PROVE  BufferHolds(op[q], w)' /\ op'[q] = op[q]
    BY DEF BuffersHold
<1>1. op'[q] = op[q] /\ BufferHolds(op[q], w)
      BY DEF BuffersHold
<1>2. Sessions' \subseteq Sessions
      BY DEF Fewer, Sessions
<1> QED  BY <1>1, <1>2 DEF BufferHolds, Fewer

\* A step of p that leaves the tokens and the users row alone disturbs nobody
\* else's evidence, and the lock only if p takes it.
LEMMA StayingEvidence ==
    ASSUME TypeOK, EvidenceHolds, UNCHANGED user, NEW p \in Proc,
           \A q \in Proc \ {p} : seen'[q] = seen[q] /\ op'[q] = op[q],
           \A row \in seen'[p].row : /\ row \in seen[p].row \/ row = user
                                     /\ op'[p] = "Login" => row.active,
           \A s, t \in seen'[p].as : s = t
    PROVE  EvidenceHolds'
<1> SUFFICES ASSUME NEW q \in Proc
             PROVE  /\ \A row \in seen'[q].row :
                        /\ row.generation <= user.generation
                        /\ row.generation = user.generation =>
                             row.password = user.password /\ (row.active => user.active)
                        /\ op'[q] = "Login" => row.active
                    /\ \A s, t \in seen'[q].as : s = t
    BY DEF EvidenceHolds
<1>1. CASE q # p
      BY <1>1 DEF EvidenceHolds
<1>2. CASE q = p
      BY <1>2 DEF EvidenceHolds, TypeOK, UserRow
<1> QED  BY <1>1, <1>2

LEMMA StayingHolder ==
    ASSUME TypeOK, OneHolder, NEW p \in Proc, NEW where, pc' = [pc EXCEPT ![p] = where],
           where \notin {"body", "commit"}, writes'[p] = {},
           \A q \in Proc \ {p} : writes'[q] = writes[q]
    PROVE  OneHolder'
BY DEF OneHolder, Holding, TypeOK

LEMMA InitIsSafe == Init => SafetyInv
<1> SUFFICES ASSUME Init
             PROVE  SafetyInv
    OBVIOUS
<1>1. Unrevoked = {} /\ Sessions = {}
      BY DEF Init, Unrevoked, Sessions, NoToken
<1>2. user.generation = 0 /\ user.password = 0 /\ history.evicted = 0 /\ history.rotated = 0
      BY DEF Init
<1>3. RowsHold
      BY <1>1, <1>2 DEF RowsHold, GenerationsInOrder, NoCredentialOutlivesEviction,
            AtMostOneSurvivor, InactiveHoldsNoToken, PasswordIsTheLatestSet
<1>4. OneHolder /\ BuffersHold
      BY DEF Init, OneHolder, Holding, BuffersHold
<1>5. EvidenceHolds
      BY DEF Init, EvidenceHolds, Nothing
<1> QED  BY <1>3, <1>4, <1>5, InitHasTypes DEF SafetyInv

LEMMA StartIsSafe ==
    ASSUME SafetyInv, TypeOK', NEW p \in Proc, NEW o, NEW where \in {"touch", "authenticated", "lock"},
           NEW s \in Seen, Start(p, o, where, s),
           \A row \in s.row : row = user /\ (o = "Login" => user.active),
           \A a, b \in s.as : a = b
    PROVE  SafetyInv'
<1>1. /\ pc' = [pc EXCEPT ![p] = where] /\ writes' = writes /\ writes[p] = {}
      /\ op' = [op EXCEPT ![p] = o] /\ seen' = [seen EXCEPT ![p] = s]
      /\ UNCHANGED <<user, tokens, history>>
      BY DEF Start, SafetyInv, OneHolder
<1>2. TypeOK /\ OneHolder /\ EvidenceHolds /\ BuffersHold /\ RowsHold
      BY DEF SafetyInv
<1>3. OneHolder'
      BY <1>1, <1>2, StayingHolder
<1>4. Fewer
      BY <1>1 DEF Fewer, Unrevoked
<1>5. \A q \in Proc : writes'[q] = {} \/ (writes'[q] = writes[q] /\ op'[q] = op[q])
      BY <1>1, <1>2 DEF TypeOK
<1>6. /\ \A q \in Proc \ {p} : seen'[q] = seen[q] /\ op'[q] = op[q]
      /\ seen'[p] = s /\ op'[p] = o
      BY <1>1, <1>2 DEF TypeOK
<1>7. EvidenceHolds'
      BY <1>1, <1>2, <1>6, StayingEvidence
<1> QED  BY <1>2, <1>3, <1>4, <1>5, <1>7, FewerKeepsRows, FewerKeepsBuffers DEF SafetyInv

\* A request arrives having read the row as it is now, or nothing.
LEMMA ArriveIsSafe ==
    ASSUME SafetyInv, TypeOK', NEW p \in Proc, Arrive(p)
    PROVE  SafetyInv'
<1>0. user \in UserRow /\ resets \subseteq RequestRow
      BY DEF SafetyInv, TypeOK
<1>1. CASE Login(p)
  <2>1. [Nothing EXCEPT !.row = {user}] \in Seen
        BY <1>0 DEF Nothing, Seen
  <2> QED  BY <1>1, <2>1, StartIsSafe DEF Login, Nothing
<1>2. CASE RemindPassword(p)
  <2>1. [Nothing EXCEPT !.row = {user}] \in Seen
        BY <1>0 DEF Nothing, Seen
  <2> QED  BY <1>2, <2>1, StartIsSafe DEF RemindPassword, Nothing
<1>3. CASE ResetPassword(p)
  <2>1. PICK r \in resets : Start(p, "ResetPassword", "lock", [Nothing EXCEPT !.row = {user}, !.code = {r}])
        BY <1>3 DEF ResetPassword
  <2> DEFINE s == [Nothing EXCEPT !.row = {user}, !.code = {r}]
  <2>2. s \in Seen /\ s.row = {user} /\ s.as = {}
        BY <1>0 DEF Nothing, Seen
  <2>3. Start(p, "ResetPassword", "lock", s)
        BY <2>1
  <2> HIDE DEF s
  <2> QED  BY <2>2, <2>3, StartIsSafe
<1>4. CASE Mutate(p)
  <2>1. PICK o \in Operator : Start(p, o, "lock", [Nothing EXCEPT !.row = {user}])
        BY <1>4 DEF Mutate
  <2>2. [Nothing EXCEPT !.row = {user}] \in Seen /\ o # "Login"
        BY <1>0 DEF Nothing, Seen, Operator
  <2> QED  BY <2>1, <2>2, StartIsSafe DEF Nothing
<1>5. CASE Authenticate(p)
  <2>1. PICK t \in Token, o \in Authenticated, where \in {"touch", "authenticated"} :
           Start(p, o, where, [Nothing EXCEPT !.as = {t}])
        BY <1>5 DEF Authenticate
  <2>2. [Nothing EXCEPT !.as = {t}] \in Seen
        BY DEF Nothing, Seen
  <2> QED  BY <2>1, <2>2, StartIsSafe DEF Nothing
<1> QED  BY <1>1, <1>2, <1>3, <1>4, <1>5 DEF Arrive

LEMMA FinishIsSafe ==
    ASSUME SafetyInv, TypeOK', NEW p \in Proc, Finish(p), Fewer
    PROVE  SafetyInv'
<1>1. TypeOK /\ OneHolder /\ EvidenceHolds /\ BuffersHold /\ RowsHold
      BY DEF SafetyInv
<1>2. /\ pc' = [pc EXCEPT ![p] = "idle"]
      /\ \A q \in Proc \ {p} : writes'[q] = writes[q] /\ seen'[q] = seen[q] /\ op'[q] = op[q]
      /\ writes'[p] = {} /\ seen'[p] = Nothing /\ user' = user
      BY <1>1 DEF Finish, TypeOK, Fewer
<1>3. OneHolder'
      BY <1>1, <1>2, StayingHolder
<1>4. BuffersHold'
      BY <1>1, <1>2, FewerKeepsBuffers
<1>5. EvidenceHolds'
      BY <1>1, <1>2, StayingEvidence DEF Nothing
<1> QED  BY <1>1, <1>3, <1>4, <1>5, FewerKeepsRows DEF SafetyInv

LEMMA ReadIsSafe ==
    ASSUME SafetyInv, TypeOK', NEW p \in Proc, NEW where \in {"reread", "lock"}, NEW s \in Seen,
           Read(p, where, s), pc[p] # "commit", op[p] # "Login",
           s.as = seen[p].as,
           \A row \in s.row : row \in seen[p].row \/ row = user
    PROVE  SafetyInv'
<1>1. TypeOK /\ OneHolder /\ EvidenceHolds /\ BuffersHold /\ RowsHold
      BY DEF SafetyInv
<1>2. /\ pc' = [pc EXCEPT ![p] = where] /\ writes' = writes /\ writes[p] = {} /\ op' = op
      /\ UNCHANGED <<user, tokens, history>>
      BY <1>1 DEF Read, OneHolder
<1>3. /\ \A q \in Proc \ {p} : seen'[q] = seen[q]
      /\ seen'[p] = s
      BY <1>1 DEF Read, TypeOK
<1>4. OneHolder'
      BY <1>1, <1>2, StayingHolder
<1>5. Fewer
      BY <1>2 DEF Fewer, Unrevoked
<1>6. \A a, b \in s.as : a = b
      BY <1>1 DEF EvidenceHolds
<1>7. EvidenceHolds'
      BY <1>1, <1>2, <1>3, <1>6, StayingEvidence
<1> QED  BY <1>1, <1>2, <1>4, <1>5, <1>7, FewerKeepsRows, FewerKeepsBuffers DEF SafetyInv

LEMMA EvidenceIsSafe ==
    ASSUME SafetyInv, TypeOK', NEW p \in Proc, Evidence(p)
    PROVE  SafetyInv'
<1>0. user \in UserRow /\ seen[p] \in Seen /\ changes \subseteq RequestRow
      BY DEF SafetyInv, TypeOK
<1>1. CASE CheckOldPassword(p) \/ RereadUser(p)
  <2>1. [seen[p] EXCEPT !.row = {user}] \in Seen
        BY <1>0 DEF Seen
  <2>2. /\ [seen[p] EXCEPT !.row = {user}].as = seen[p].as
        /\ [seen[p] EXCEPT !.row = {user}].row = {user}
        BY <1>0 DEF Seen
  <2>3. /\ Read(p, "lock", [seen[p] EXCEPT !.row = {user}])
        /\ pc[p] # "commit" /\ op[p] # "Login"
        BY <1>1 DEF CheckOldPassword, RereadUser
  <2> QED  BY <2>1, <2>2, <2>3, ReadIsSafe
<1>2. CASE CheckEmailChange(p)
  <2>1. PICK e \in Email : Read(p, "lock", [seen[p] EXCEPT !.row = {user}, !.to = {e}])
        BY <1>2 DEF CheckEmailChange
  <2>2. /\ [seen[p] EXCEPT !.row = {user}, !.to = {e}] \in Seen
        /\ [seen[p] EXCEPT !.row = {user}, !.to = {e}].as = seen[p].as
        /\ [seen[p] EXCEPT !.row = {user}, !.to = {e}].row = {user}
        BY <1>0 DEF Seen
  <2>3. pc[p] # "commit" /\ op[p] # "Login"
        BY <1>2 DEF CheckEmailChange
  <2> QED  BY <2>1, <2>2, <2>3, ReadIsSafe
<1>3. CASE PreparePersonalToken(p)
      BY <1>0, <1>3, ReadIsSafe DEF PreparePersonalToken
<1>4. CASE MatchPendingChange(p)
  <2>1. PICK r \in changes : Read(p, "lock", [seen[p] EXCEPT !.pending = {r}])
        BY <1>4 DEF MatchPendingChange
  <2>2. /\ [seen[p] EXCEPT !.pending = {r}] \in Seen
        /\ [seen[p] EXCEPT !.pending = {r}].as = seen[p].as
        /\ [seen[p] EXCEPT !.pending = {r}].row = seen[p].row
        BY <1>0 DEF Seen
  <2>3. pc[p] # "commit" /\ op[p] # "Login"
        BY <1>4 DEF MatchPendingChange
  <2> QED  BY <2>1, <2>2, <2>3, ReadIsSafe
<1>5. CASE ReadPendingChange(p)
  <2>1. PICK r \in changes : Read(p, "reread", [seen[p] EXCEPT !.pending = {r}, !.to = {r.to}])
        BY <1>5 DEF ReadPendingChange
  <2>2. r.to \in Email
        BY <1>0 DEF RequestRow
  <2>3. /\ [seen[p] EXCEPT !.pending = {r}, !.to = {r.to}] \in Seen
        /\ [seen[p] EXCEPT !.pending = {r}, !.to = {r.to}].as = seen[p].as
        /\ [seen[p] EXCEPT !.pending = {r}, !.to = {r.to}].row = seen[p].row
        BY <1>0, <2>2 DEF Seen
  <2>4. pc[p] # "commit" /\ op[p] # "Login"
        BY <1>5 DEF ReadPendingChange
  <2> QED  BY <2>1, <2>3, <2>4, ReadIsSafe
<1> QED  BY <1>1, <1>2, <1>3, <1>4, <1>5 DEF Evidence

\* The steps that wait for a row: the lock itself, the rehash, the touch, and
\* the sweep of the sessions.
LEMMA WaitIsSafe ==
    ASSUME SafetyInv, TypeOK', NEW p \in Proc, Wait(p)
    PROVE  SafetyInv'
<1>0. TypeOK /\ OneHolder /\ EvidenceHolds /\ BuffersHold /\ RowsHold
      BY DEF SafetyInv
<1>1. CASE LockRow(p)
  <2>1. /\ pc' = [pc EXCEPT ![p] = "body"]
        /\ \A q \in Proc : ~Holding(q)
        /\ UNCHANGED <<user, tokens, resets, changes, op, seen, writes, history>>
        BY <1>1 DEF LockRow, RowLocked
  <2>2. OneHolder'
        BY <1>0, <2>1 DEF OneHolder, Holding, TypeOK
  <2>3. Fewer
        BY <2>1 DEF Fewer, Unrevoked
  <2>4. EvidenceHolds'
        BY <1>0, <2>1 DEF EvidenceHolds
  <2> QED  BY <1>0, <2>1, <2>2, <2>3, <2>4, FewerKeepsRows, FewerKeepsBuffers DEF SafetyInv
<1>2. CASE RehashLegacyPassword(p)
  <2>1. PICK row \in seen[p].row :
           /\ user' = IF user.generation = row.generation
                      THEN [user EXCEPT !.password = row.password, !.legacy = FALSE]
                      ELSE user
           /\ seen' = [seen EXCEPT ![p].row = {[row EXCEPT !.legacy = FALSE]}]
        BY <1>2 DEF RehashLegacyPassword
  <2>2. /\ pc[p] = "lock" /\ ~RowLocked
        /\ UNCHANGED <<tokens, resets, changes, pc, op, writes, history>>
        BY <1>2 DEF RehashLegacyPassword
  <2>3. /\ user \in UserRow /\ row \in UserRow /\ seen[p] \in Seen
        /\ row.generation = user.generation => row.password = user.password
        BY <1>0, <2>1 DEF TypeOK, Seen, EvidenceHolds
  <2>4. /\ user'.generation = user.generation /\ user'.password = user.password
        /\ user'.active = user.active
        BY <2>1, <2>3 DEF UserRow
  <2>5. OneHolder'
        BY <1>0, <2>2 DEF OneHolder, Holding
  <2>6. \A q \in Proc : writes'[q] = {}
        BY <1>0, <2>2 DEF OneHolder, RowLocked, Holding
  <2>7. Unrevoked' = Unrevoked /\ Sessions' = Sessions
        BY <2>2 DEF Unrevoked, Sessions
  <2>8. RowsHold'
        BY <1>0, <2>2, <2>4, <2>7 DEF RowsHold, GenerationsInOrder, NoCredentialOutlivesEviction,
              AtMostOneSurvivor, InactiveHoldsNoToken, PasswordIsTheLatestSet
  <2>9. /\ \A q \in Proc \ {p} : seen'[q] = seen[q]
        /\ seen'[p].as = seen[p].as
        /\ seen'[p].row = {[row EXCEPT !.legacy = FALSE]}
        BY <1>0, <2>1, <2>3 DEF TypeOK, Seen
  <2>10. /\ [row EXCEPT !.legacy = FALSE].generation = row.generation
         /\ [row EXCEPT !.legacy = FALSE].password = row.password
         /\ [row EXCEPT !.legacy = FALSE].active = row.active
         BY <2>3 DEF UserRow
  <2>11. EvidenceHolds'
    <3> SUFFICES ASSUME NEW q \in Proc
                 PROVE  /\ \A r \in seen'[q].row :
                            /\ r.generation <= user.generation
                            /\ r.generation = user.generation =>
                                 r.password = user.password /\ (r.active => user.active)
                            /\ op[q] = "Login" => r.active
                        /\ \A s, t \in seen'[q].as : s = t
        BY <2>2, <2>4 DEF EvidenceHolds
    <3>1. CASE q = p
      <4> DEFINE upgraded == [row EXCEPT !.legacy = FALSE]
      <4>1. /\ upgraded.generation = row.generation
            /\ upgraded.password = row.password
            /\ upgraded.active = row.active
            /\ seen'[q].row = {upgraded}
            BY <2>9, <2>10, <3>1
      <4> HIDE DEF upgraded
      <4>2. /\ row.generation <= user.generation
            /\ row.generation = user.generation =>
                 row.password = user.password /\ (row.active => user.active)
            /\ op[q] = "Login" => row.active
            /\ \A s, t \in seen[q].as : s = t
            BY <1>0, <2>1, <3>1 DEF EvidenceHolds
      <4>3. seen'[q].as = seen[q].as
            BY <2>9, <3>1
      <4> QED  BY <4>1, <4>2, <4>3
    <3>2. CASE q # p
          BY <1>0, <2>9, <3>2 DEF EvidenceHolds
    <3> QED  BY <3>1, <3>2
  <2> QED  BY <2>5, <2>6, <2>8, <2>11 DEF SafetyInv, BuffersHold
<1>3. CASE Touch(p)
  <2>1. PICK t \in seen[p].as :
          IF t \in Unrevoked
          THEN /\ pc' = [pc EXCEPT ![p] = "authenticated"]
               /\ tokens' = IF tokens[t].kind = "session"
                            THEN [tokens EXCEPT ![t].state = "live"] ELSE tokens
               /\ UNCHANGED <<op, seen, writes>>
          ELSE Finish(p) /\ UNCHANGED tokens
        BY <1>3 DEF Touch
  <2>2. pc[p] = "touch" /\ UNCHANGED <<user, resets, changes, history>>
        BY <1>3 DEF Touch
  <2>3. t \in Token
        BY <1>0 DEF TypeOK, Seen
  <2>4. CASE t \in Unrevoked
    <3>0. \A s \in Token : /\ tokens'[s].since = tokens[s].since /\ tokens'[s].kind = tokens[s].kind
                           /\ s # t => tokens'[s] = tokens[s]
          BY <1>0, <2>1, <2>3, <2>4 DEF TypeOK, TokenRow
    <3>1. Fewer
          BY <2>2, <2>3, <2>4, <3>0 DEF Fewer, Unrevoked
    <3>2. OneHolder'
          BY <1>0, <2>1, <2>2, <2>4 DEF OneHolder, Holding, TypeOK
    <3>3. EvidenceHolds'
          BY <1>0, <2>1, <2>2, <2>4 DEF EvidenceHolds
    <3> QED  BY <1>0, <2>1, <2>4, <3>1, <3>2, <3>3, FewerKeepsRows, FewerKeepsBuffers DEF SafetyInv
  <2>5. CASE t \notin Unrevoked
    <3>1. Fewer
          BY <2>1, <2>2, <2>5 DEF Fewer, Unrevoked
    <3> QED  BY <2>1, <2>5, <3>1, FinishIsSafe
  <2> QED  BY <2>4, <2>5
<1>4. CASE RevokeSessions(p)
  <2>1. Fewer
        BY <1>0, <1>4 DEF RevokeSessions, Fewer, Unrevoked, TypeOK, TokenRow
  <2> QED  BY <1>4, <2>1, FinishIsSafe DEF RevokeSessions
<1> QED  BY <1>1, <1>2, <1>3, <1>4 DEF Wait

LEMMA LapseIsSafe ==
    ASSUME SafetyInv, TypeOK', NEW t \in Token, Lapse(t)
    PROVE  SafetyInv'
<1>0. TypeOK /\ OneHolder /\ EvidenceHolds /\ BuffersHold /\ RowsHold
      BY DEF SafetyInv
<1>1. UNCHANGED <<user, resets, changes, pc, op, seen, writes, history>>
      BY DEF Lapse, RevokeToken, Expire, PurgeDeadToken, SetToken
<1>2. Fewer
  <2>0. tokens \in [Token -> TokenRow]
        BY <1>0 DEF TypeOK
  <2>1. CASE RevokeToken(t)
        BY <2>0, <2>1 DEF RevokeToken, SetToken, Fewer, Unrevoked, TokenRow
  <2>2. CASE Expire(t)
    <3>1. /\ tokens[t].state = "live" /\ tokens' = [tokens EXCEPT ![t] = [tokens[t] EXCEPT !.state = "expired"]]
          BY <2>2 DEF Expire, SetToken
    <3>2. \A s \in Token : /\ tokens'[s].since = tokens[s].since /\ tokens'[s].kind = tokens[s].kind
                           /\ s # t => tokens'[s] = tokens[s]
          BY <2>0, <3>1 DEF TokenRow
    <3>3. Unrevoked' \subseteq Unrevoked
          BY <3>1, <3>2 DEF Unrevoked
    <3> QED  BY <1>1, <3>2, <3>3 DEF Fewer, Unrevoked
  <2>3. CASE PurgeDeadToken(t)
        BY <2>0, <2>3 DEF PurgeDeadToken, SetToken, Fewer, Unrevoked, NoToken
  <2> QED  BY <2>1, <2>2, <2>3 DEF Lapse
<1>3. OneHolder' /\ EvidenceHolds'
      BY <1>0, <1>1 DEF OneHolder, Holding, EvidenceHolds
<1> QED  BY <1>0, <1>1, <1>2, <1>3, FewerKeepsRows, FewerKeepsBuffers DEF SafetyInv

\* What a body buffers is right when it is buffered.  A buffer that mints leaves
\* the row alone; one that changes the row mints nothing.
LEMMA MintingHolds ==
    ASSUME SafetyInv, NEW o, NEW t \in Token, NEW row \in TokenRow,
           o \notin Bumping, o # "UpdatePassword", user.active,
           history.evicted <= row.since, row.since <= user.generation,
           row.kind = "session" => row.since = user.generation
    PROVE  BufferHolds(o, [Same EXCEPT !.mint = {t}, !.minted = row])
<1>1. /\ [Same EXCEPT !.mint = {t}, !.minted = row].user = user
      /\ [Same EXCEPT !.mint = {t}, !.minted = row].minted = row
      BY DEF Same
<1> QED  BY <1>1 DEF BufferHolds, Bumping, Rotating, Evicting

LEMMA KeepingHolds ==
    ASSUME SafetyInv, NEW o, NEW w, w.mint = {}, o \notin Bumping, o # "UpdatePassword",
           w.user.generation = user.generation, w.user.password = user.password,
           user.active => w.user.active
    PROVE  BufferHolds(o, w)
BY DEF BufferHolds, Bumping, Rotating, Evicting

LEMMA BodyBuffersWhatHolds ==
    ASSUME SafetyInv, NEW p \in Proc, Body(p)
    PROVE  \E w : Buffer(p, w) /\ BufferHolds(op[p], w)
<1>0. /\ TypeOK /\ RowsHold /\ EvidenceHolds
      /\ user \in UserRow /\ user.generation \in Nat /\ user.active \in BOOLEAN
      /\ history.evicted \in Nat
      /\ seen[p] \in Seen
      BY DEF SafetyInv, TypeOK, UserRow
<1>1. CASE CreateSession(p)
  <2>1. PICK row \in seen[p].row, t \in FreshToken :
           /\ row.generation = user.generation
           /\ Buffer(p, [Same EXCEPT !.mint = {t},
                           !.minted = [state |-> "live", kind |-> "session", since |-> row.generation]])
        BY <1>1 DEF CreateSession
  <2>2. op[p] = "Login"
        BY <1>1 DEF CreateSession, In
  <2>3. user.active
        BY <1>0, <2>1, <2>2 DEF EvidenceHolds
  <2> DEFINE minted == [state |-> "live", kind |-> "session", since |-> row.generation]
  <2>4. /\ minted \in TokenRow /\ t \in Token
        /\ minted.since = user.generation
        BY <1>0, <2>1 DEF TokenRow, FreshToken
  <2>5. Buffer(p, [Same EXCEPT !.mint = {t}, !.minted = minted])
        BY <2>1
  <2> HIDE DEF minted
  <2>6. history.evicted <= minted.since /\ minted.since <= user.generation
        BY <1>0, <2>4 DEF RowsHold, GenerationsInOrder
  <2>7. op[p] \notin Bumping /\ op[p] # "UpdatePassword"
        BY <2>2 DEF Bumping, Rotating, Reclaiming
  <2> QED  BY <2>3, <2>4, <2>5, <2>6, <2>7, MintingHolds
<1>2. CASE CreatePersonalToken(p)
  <2>1. PICK a \in seen[p].as, t \in FreshToken :
           /\ a \in Unrevoked
           /\ Buffer(p, [Same EXCEPT !.mint = {t},
                           !.minted = [state |-> "live", kind |-> "personal", since |-> tokens[a].since]])
        BY <1>2 DEF CreatePersonalToken
  <2>2. op[p] \notin Bumping /\ op[p] # "UpdatePassword"
        BY <1>2 DEF CreatePersonalToken, In, Bumping, Rotating, Reclaiming
  <2>3. user.active
        BY <1>0, <2>1 DEF RowsHold, InactiveHoldsNoToken
  <2> DEFINE minted == [state |-> "live", kind |-> "personal", since |-> tokens[a].since]
  <2>4. /\ minted \in TokenRow /\ t \in Token
        /\ minted.since = tokens[a].since /\ minted.kind # "session"
        BY <1>0, <2>1 DEF TokenRow, FreshToken, TypeOK, Unrevoked
  <2>5. Buffer(p, [Same EXCEPT !.mint = {t}, !.minted = minted])
        BY <2>1
  <2> HIDE DEF minted
  <2>6. history.evicted <= minted.since /\ minted.since <= user.generation
        BY <1>0, <2>1, <2>4 DEF RowsHold, GenerationsInOrder, NoCredentialOutlivesEviction
  <2> QED  BY <2>2, <2>3, <2>4, <2>5, <2>6, MintingHolds
<1>3. CASE IssueResetCode(p)
  <2>1. PICK S : Buffer(p, [Same EXCEPT !.resets = S])
        BY <1>3 DEF IssueResetCode
  <2>2. op[p] \notin Bumping /\ op[p] # "UpdatePassword"
        BY <1>3 DEF IssueResetCode, In, Bumping, Rotating, Reclaiming
  <2>3. [Same EXCEPT !.resets = S].user = user /\ [Same EXCEPT !.resets = S].mint = {}
        BY DEF Same
  <2> QED  BY <2>1, <2>2, <2>3, KeepingHolds
<1>4. CASE CompleteReset(p) \/ AdminChangePassword(p)
  <2>1. Reclaim(p, SetPassword(user)) /\ op[p] \in Reclaiming
        BY <1>4 DEF CompleteReset, AdminChangePassword, In, Reclaiming
  <2> DEFINE u == Bump(SetPassword(user))
             w == [Same EXCEPT !.user = u, !.resets = {}, !.changes = {}, !.sweep = Unrevoked]
  <2>2. SetPassword(user).generation = user.generation /\ SetPassword(user).password = user.generation + 1
        BY <1>0 DEF SetPassword, UserRow
  <2>3. SetPassword(user) \in UserRow
        BY <1>0, SetPasswordGivesARow
  <2>4. u.generation = user.generation + 1 /\ u.password = user.generation + 1
        BY <2>2, <2>3 DEF Bump, UserRow
  <2>5. w.user = u /\ w.mint = {} /\ w.sweep = Unrevoked
        BY DEF Same
  <2>6. Buffer(p, w)
        BY <2>1 DEF Reclaim
  <2> HIDE DEF u, w
  <2>7. BufferHolds(op[p], w)
        BY <2>1, <2>4, <2>5 DEF BufferHolds, Bumping, Rotating, Evicting, Reclaiming
  <2> QED  BY <2>6, <2>7
<1>5. CASE AdminDeactivate(p)
  <2> DEFINE v == [user EXCEPT !.active = FALSE]
             u == Bump(v)
             w == [Same EXCEPT !.user = u, !.sweep = Unrevoked]
  <2>1. v \in UserRow /\ v.generation = user.generation /\ v.password = user.password
        BY <1>0 DEF UserRow
  <2>2. Buffer(p, w) /\ op[p] = "AdminDeactivate"
        BY <1>5 DEF AdminDeactivate, In
  <2>3. w.user = u /\ w.mint = {} /\ w.sweep = Unrevoked
        BY DEF Same
  <2> HIDE DEF v, w
  <2>4. u.generation = user.generation + 1 /\ u.password = user.password
        BY <2>1 DEF Bump, UserRow
  <2> HIDE DEF u
  <2>5. BufferHolds(op[p], w)
        BY <2>2, <2>3, <2>4 DEF BufferHolds, Bumping, Rotating, Evicting, Reclaiming
  <2> QED  BY <2>2, <2>5
<1>6. CASE AdminActivate(p) \/ SaveProfile(p) \/ AdminChangeEmail(p)
  <2>1. PICK u : /\ Buffer(p, [Same EXCEPT !.user = u])
                 /\ u.generation = user.generation /\ u.password = user.password
                 /\ user.active => u.active
    <3>1. CASE AdminActivate(p)
      <4>1. /\ [user EXCEPT !.active = TRUE].generation = user.generation
            /\ [user EXCEPT !.active = TRUE].password = user.password
            /\ [user EXCEPT !.active = TRUE].active
            BY <1>0 DEF UserRow
      <4> QED  BY <3>1, <4>1 DEF AdminActivate
    <3>2. CASE SaveProfile(p)
          BY <3>2 DEF SaveProfile
    <3>3. CASE AdminChangeEmail(p)
      <4>1. PICK e \in Email : Buffer(p, [Same EXCEPT !.user = [user EXCEPT !.email = e]])
            BY <3>3 DEF AdminChangeEmail
      <4>2. /\ [user EXCEPT !.email = e].generation = user.generation
            /\ [user EXCEPT !.email = e].password = user.password
            /\ [user EXCEPT !.email = e].active = user.active
            BY <1>0 DEF UserRow
      <4> QED  BY <4>1, <4>2
    <3> QED  BY <1>6, <3>1, <3>2, <3>3
  <2>2. op[p] \notin Bumping /\ op[p] # "UpdatePassword"
        BY <1>6 DEF AdminActivate, SaveProfile, AdminChangeEmail, In, Bumping, Rotating, Reclaiming
  <2>3. [Same EXCEPT !.user = u].user = u /\ [Same EXCEPT !.user = u].mint = {}
        BY DEF Same
  <2> QED  BY <2>1, <2>2, <2>3, KeepingHolds
<1>7. CASE UpdatePassword(p)
  <2> DEFINE u == Bump(SetPassword(user))
             w == [Same EXCEPT !.user = u, !.resets = {}, !.changes = {}, !.sweep = Sessions \ seen[p].as]
  <2>1. Buffer(p, w) /\ op[p] = "UpdatePassword"
        BY <1>7 DEF UpdatePassword, In
  <2>2. /\ SetPassword(user).generation = user.generation
        /\ SetPassword(user).password = user.generation + 1
        /\ SetPassword(user).active = user.active
        BY <1>0 DEF SetPassword, UserRow
  <2>3. SetPassword(user) \in UserRow
        BY <1>0, SetPasswordGivesARow
  <2>4. /\ u.generation = user.generation + 1 /\ u.password = user.generation + 1
        /\ u.active = user.active
        BY <2>2, <2>3 DEF Bump, UserRow
  <2>5. w.user = u /\ w.mint = {} /\ w.sweep = Sessions \ seen[p].as
        BY DEF Same
  <2>6. \A s, t \in Sessions \ w.sweep : s = t
        BY <1>0, <2>5 DEF EvidenceHolds
  <2> HIDE DEF u, w
  <2>7. BufferHolds(op[p], w)
        BY <2>1, <2>4, <2>5, <2>6 DEF BufferHolds, Bumping, Rotating, Evicting, Reclaiming
  <2> QED  BY <2>1, <2>7
<1>8. CASE IssueEmailChangeCode(p)
  <2>1. PICK S : Buffer(p, [Same EXCEPT !.changes = S])
        BY <1>8 DEF IssueEmailChangeCode
  <2>2. op[p] \notin Bumping /\ op[p] # "UpdatePassword"
        BY <1>8 DEF IssueEmailChangeCode, Bumping, Rotating, Reclaiming
  <2>3. [Same EXCEPT !.changes = S].user = user /\ [Same EXCEPT !.changes = S].mint = {}
        BY DEF Same
  <2> QED  BY <2>1, <2>2, <2>3, KeepingHolds
<1>9. CASE ConfirmEmailChange(p)
  <2>1. PICK e, S : Buffer(p, [Same EXCEPT !.user = [user EXCEPT !.email = e], !.changes = S])
        BY <1>9 DEF ConfirmEmailChange
  <2>2. op[p] \notin Bumping /\ op[p] # "UpdatePassword"
        BY <1>9 DEF ConfirmEmailChange, In, Bumping, Rotating, Reclaiming
  <2> DEFINE w == [Same EXCEPT !.user = [user EXCEPT !.email = e], !.changes = S]
  <2>3. w.user = [user EXCEPT !.email = e] /\ w.mint = {}
        BY DEF Same
  <2>4. /\ [user EXCEPT !.email = e].generation = user.generation
        /\ [user EXCEPT !.email = e].password = user.password
        /\ [user EXCEPT !.email = e].active = user.active
        BY <1>0 DEF UserRow
  <2>5. Buffer(p, w)
        BY <2>1
  <2> HIDE DEF w
  <2> QED  BY <2>2, <2>3, <2>4, <2>5, KeepingHolds
<1> QED  BY <1>1, <1>2, <1>3, <1>4, <1>5, <1>6, <1>7, <1>8, <1>9 DEF Body

LEMMA BodyIsSafe ==
    ASSUME SafetyInv, TypeOK', NEW p \in Proc, Body(p)
    PROVE  SafetyInv'
<1>1. PICK w : Buffer(p, w) /\ BufferHolds(op[p], w)
      BY BodyBuffersWhatHolds
<1>2. TypeOK /\ OneHolder /\ EvidenceHolds /\ BuffersHold /\ RowsHold
      BY DEF SafetyInv
<1>3. pc[p] = "body"
      BY DEF Body, In, CreateSession, CreatePersonalToken, IssueResetCode, CompleteReset,
             AdminChangePassword, AdminDeactivate, AdminActivate, AdminChangeEmail, SaveProfile,
             UpdatePassword, IssueEmailChangeCode, ConfirmEmailChange
<1>4. /\ writes' = [writes EXCEPT ![p] = {w}] /\ pc' = [pc EXCEPT ![p] = "commit"]
      /\ UNCHANGED <<user, tokens, resets, changes, op, seen, history>>
      BY <1>1 DEF Buffer
<1>5. OneHolder'
      BY <1>2, <1>3, <1>4 DEF OneHolder, Holding, TypeOK
<1>6. EvidenceHolds' /\ RowsHold'
      BY <1>2, <1>4 DEF EvidenceHolds, RowsHold, GenerationsInOrder, NoCredentialOutlivesEviction,
            AtMostOneSurvivor, InactiveHoldsNoToken, PasswordIsTheLatestSet, Unrevoked, Sessions
<1>7. Unrevoked' = Unrevoked /\ Sessions' = Sessions
      BY <1>4 DEF Unrevoked, Sessions
<1>8. BuffersHold'
  <2> SUFFICES ASSUME NEW q \in Proc, NEW v \in writes'[q]
               PROVE  BufferHolds(op[q], v)
      BY <1>4, <1>7 DEF BuffersHold, BufferHolds
  <2>1. CASE q = p
        BY <1>1, <1>2, <1>4, <2>1 DEF TypeOK
  <2>2. CASE q # p
        BY <1>2, <1>4, <2>2 DEF TypeOK, BuffersHold
  <2> QED  BY <2>1, <2>2
<1> QED  BY <1>2, <1>5, <1>6, <1>8 DEF SafetyInv

\* Whatever became of the rows between a body and its commit, what it buffered
\* still holds, so committing it keeps the rows right and the evidence honest.
LEMMA CommitIsSafe ==
    ASSUME SafetyInv, TypeOK', NEW p \in Proc, Commit(p)
    PROVE  SafetyInv'
<1>1. PICK w \in writes[p] :
         /\ user' = w.user
         /\ tokens' = [t \in Token |->
                         IF t \in w.sweep THEN [tokens[t] EXCEPT !.state = "revoked"]
                         ELSE IF t \in w.mint THEN w.minted
                         ELSE tokens[t]]
         /\ history' = [rotated |-> IF op[p] \in Rotating THEN w.user.generation ELSE history.rotated,
                        evicted |-> IF op[p] \in Evicting THEN w.user.generation ELSE history.evicted]
      BY DEF Commit
<1>2. /\ TypeOK /\ OneHolder /\ EvidenceHolds /\ BuffersHold /\ RowsHold
      /\ user.generation \in Nat /\ history.evicted \in Nat /\ history.rotated \in Nat
      /\ tokens \in [Token -> TokenRow] /\ w \in WriteSet
      BY DEF SafetyInv, TypeOK, UserRow
<1>3. /\ pc[p] = "commit"
      /\ \A q \in Proc \ {p} : /\ writes'[q] = writes[q] /\ pc'[q] = pc[q]
                               /\ seen'[q] = seen[q] /\ op'[q] = op[q]
      /\ writes'[p] = {} /\ pc'[p] \in {"idle", "revoke"}
      /\ \/ seen'[p] = seen[p] /\ op'[p] = op[p]
         \/ seen'[p] = Nothing /\ op'[p] = "none"
      BY <1>2 DEF Commit, Finish, TypeOK
<1>4. BufferHolds(op[p], w)
      BY <1>2 DEF BuffersHold
<1>5. /\ \A q \in Proc : writes'[q] = {}
      /\ OneHolder'
      BY <1>2, <1>3 DEF OneHolder, Holding
<1>6. ASSUME NEW t \in Unrevoked'
      PROVE  \/ t \in Unrevoked \ w.sweep /\ tokens'[t] = tokens[t]
             \/ t \in w.mint /\ tokens'[t] = w.minted
  <2>1. t \in Token /\ t \notin w.sweep
        BY <1>1, <1>2 DEF Unrevoked, TokenRow
  <2> QED  BY <1>1, <2>1 DEF Unrevoked
<1>7. /\ history'.rotated = IF op[p] \in Rotating THEN user'.generation ELSE history.rotated
      /\ history'.evicted = IF op[p] \in Evicting THEN user'.generation ELSE history.evicted
      BY <1>1
<1>8. RowsHold'
  <2>1. PasswordIsTheLatestSet'
        BY <1>1, <1>2, <1>4, <1>7 DEF BufferHolds, PasswordIsTheLatestSet, RowsHold, Bumping
  <2>2. CASE op[p] \in Evicting
    <3>1. Unrevoked' = {}
          BY <1>4, <1>6, <2>2 DEF BufferHolds
    <3>2. Sessions' = {}
          BY <3>1 DEF Sessions
    <3>3. user'.generation \in Nat
          BY DEF TypeOK, UserRow
    <3> QED  BY <1>7, <2>1, <2>2, <3>1, <3>2, <3>3
             DEF RowsHold, GenerationsInOrder, NoCredentialOutlivesEviction,
                 AtMostOneSurvivor, InactiveHoldsNoToken
  <2>3. CASE op[p] \notin Evicting
    <3>1. /\ user.generation <= user'.generation
          /\ user.active => user'.active
          /\ history'.evicted = history.evicted
          BY <1>1, <1>2, <1>4, <1>7, <2>3 DEF BufferHolds
    <3>2. w.mint # {} => /\ user' = user /\ user.active
                         /\ history.evicted <= w.minted.since
                         /\ w.minted.since <= user.generation
                         /\ w.minted.kind = "session" => w.minted.since = user.generation
          BY <1>1, <1>4 DEF BufferHolds
    <3>3. /\ user'.generation \in Nat
          /\ \A t \in Unrevoked : tokens[t].since \in Nat
          BY <1>2 DEF TypeOK, UserRow, TokenRow, Unrevoked
    <3>4. GenerationsInOrder'
          BY <1>2, <1>6, <3>1, <3>2, <3>3 DEF RowsHold, GenerationsInOrder
    <3>5. NoCredentialOutlivesEviction'
          BY <1>2, <1>6, <3>1, <3>2 DEF RowsHold, NoCredentialOutlivesEviction
    <3>6. InactiveHoldsNoToken'
          BY <1>2, <1>6, <3>1, <3>2 DEF RowsHold, InactiveHoldsNoToken
    <3>7. AtMostOneSurvivor'
      <4> SUFFICES ASSUME NEW s \in Sessions', NEW t \in Sessions',
                          tokens'[s].since < user'.generation, tokens'[t].since < user'.generation
                   PROVE  s = t
          BY DEF AtMostOneSurvivor
      <4>1. /\ s \in Unrevoked' /\ t \in Unrevoked'
            /\ tokens'[s].kind = "session" /\ tokens'[t].kind = "session"
            BY DEF Sessions
      <4>2. s \notin w.mint \/ tokens'[s] # w.minted
            BY <1>2, <3>2, <4>1
      <4>3. t \notin w.mint \/ tokens'[t] # w.minted
            BY <1>2, <3>2, <4>1
      <4>4. /\ s \in Sessions \ w.sweep /\ tokens'[s] = tokens[s]
            /\ t \in Sessions \ w.sweep /\ tokens'[t] = tokens[t]
            BY <1>6, <4>1, <4>2, <4>3 DEF Sessions
      <4>5. CASE op[p] = "UpdatePassword"
            BY <1>4, <4>4, <4>5 DEF BufferHolds
      <4>6. CASE op[p] # "UpdatePassword"
        <5>1. user'.generation = user.generation
              BY <1>1, <1>4, <2>3, <4>6 DEF BufferHolds, Bumping, Rotating, Evicting
        <5> QED  BY <1>2, <4>4, <5>1 DEF RowsHold, AtMostOneSurvivor
      <4> QED  BY <4>5, <4>6
    <3> QED  BY <2>1, <3>4, <3>5, <3>6, <3>7 DEF RowsHold
  <2> QED  BY <2>2, <2>3
<1>9. EvidenceHolds'
  <2> SUFFICES ASSUME NEW q \in Proc
               PROVE  /\ \A row \in seen'[q].row :
                          /\ row.generation <= user'.generation
                          /\ row.generation = user'.generation =>
                               row.password = user'.password /\ (row.active => user'.active)
                          /\ op'[q] = "Login" => row.active
                      /\ \A s, t \in seen'[q].as : s = t
      BY DEF EvidenceHolds
  <2>1. CASE seen'[q] = Nothing
        BY <2>1 DEF Nothing
  <2>2. CASE seen'[q] = seen[q] /\ op'[q] = op[q]
    <3>1. ASSUME NEW row \in seen[q].row
          PROVE  /\ row.generation <= user'.generation
                 /\ row.generation = user'.generation =>
                      row.password = user'.password /\ (row.active => user'.active)
                 /\ op[q] = "Login" => row.active
      <4>1. /\ row.generation <= user.generation
            /\ row.generation = user.generation =>
                 row.password = user.password /\ (row.active => user.active)
            /\ op[q] = "Login" => row.active
            /\ row.generation \in Nat
            BY <1>2 DEF EvidenceHolds, TypeOK, Seen, UserRow
      <4>2. CASE op[p] \in Bumping
        <5>1. user'.generation = user.generation + 1
              BY <1>1, <1>4, <4>2 DEF BufferHolds
        <5> QED  BY <1>2, <4>1, <5>1
      <4>3. CASE op[p] \notin Bumping
        <5>1. /\ user'.generation = user.generation /\ user'.password = user.password
              /\ user.active => user'.active
              BY <1>1, <1>4, <4>3 DEF BufferHolds, Bumping, Rotating, Evicting
        <5> QED  BY <4>1, <5>1
      <4> QED  BY <4>2, <4>3
    <3> QED  BY <1>2, <2>2, <3>1 DEF EvidenceHolds
  <2> QED  BY <1>3, <2>1, <2>2
<1> QED  BY <1>5, <1>8, <1>9 DEF SafetyInv, BuffersHold

LEMMA NextIsSafe == SafetyInv /\ TypeOK' /\ [Next]_vars => SafetyInv'
<1> SUFFICES ASSUME SafetyInv, TypeOK', [Next]_vars
             PROVE  SafetyInv'
    OBVIOUS
<1>0. TypeOK /\ OneHolder /\ EvidenceHolds /\ BuffersHold /\ RowsHold
      BY DEF SafetyInv
<1>1. ASSUME NEW p \in Proc, Arrive(p) \/ Wait(p) \/ Evidence(p) \/ Body(p) \/ Commit(p)
      PROVE  SafetyInv'
      BY <1>1, ArriveIsSafe, WaitIsSafe, EvidenceIsSafe, BodyIsSafe, CommitIsSafe
<1>2. ASSUME NEW p \in Proc, Reject(p) \/ Crash(p)
      PROVE  SafetyInv'
  <2>1. Finish(p) /\ UNCHANGED <<user, tokens, history>>
        BY <1>2 DEF Reject, Crash
  <2>2. Fewer
        BY <2>1 DEF Fewer, Unrevoked
  <2> QED  BY <2>1, <2>2, FinishIsSafe
<1>3. ASSUME NEW t \in Token, Lapse(t)
      PROVE  SafetyInv'
      BY <1>3, LapseIsSafe
<1>4. ASSUME UNCHANGED <<user, tokens, pc, op, seen, writes, history>>
      PROVE  SafetyInv'
  <2>1. Fewer
        BY <1>4 DEF Fewer, Unrevoked
  <2>2. OneHolder' /\ EvidenceHolds'
        BY <1>0, <1>4 DEF OneHolder, Holding, EvidenceHolds
  <2> QED  BY <1>0, <1>4, <2>1, <2>2, FewerKeepsRows, FewerKeepsBuffers DEF SafetyInv
<1>5. ASSUME NEW c \in Code, ExpireCode(c)
      PROVE  SafetyInv'
      BY <1>4, <1>5 DEF ExpireCode
<1>6. CASE UNCHANGED vars
      BY <1>4, <1>6 DEF vars
<1> QED  BY <1>1, <1>2, <1>3, <1>5, <1>6 DEF Next, Run

LEMMA SafetyHolds == Spec => []SafetyInv
<1>1. SafetyInv /\ [Next]_vars => SafetyInv'
  <2>1. SafetyInv => TypeOK
        BY DEF SafetyInv
  <2> QED  BY <2>1, NextKeepsTypes, NextIsSafe
<1> QED  BY <1>1, InitIsSafe, PTL DEF Spec

\* No way in outlives a reset, an operator's password or a deactivation,
\* however sign-ins and token creations were interleaved with its sweep.
THEOREM NothingOutlivesAnEviction == Spec => []NoCredentialOutlivesEviction
<1>1. SafetyInv => NoCredentialOutlivesEviction
      BY DEF SafetyInv, RowsHold
<1> QED  BY <1>1, SafetyHolds, PTL

\* A password change by the owner leaves at most one earlier session.
THEOREM OneSessionSurvivesAPasswordChange == Spec => []AtMostOneSurvivor
<1>1. SafetyInv => AtMostOneSurvivor
      BY DEF SafetyInv, RowsHold
<1> QED  BY <1>1, SafetyHolds, PTL

\* A deactivated account has no token left that could still be accepted.
THEOREM ADeactivatedAccountIsShut == Spec => []InactiveHoldsNoToken
<1>1. SafetyInv => InactiveHoldsNoToken
      BY DEF SafetyInv, RowsHold
<1> QED  BY <1>1, SafetyHolds, PTL

\* No save and no rehash brings an earlier password back.
THEOREM NoOldPasswordReturns == Spec => []PasswordIsTheLatestSet
<1>1. SafetyInv => PasswordIsTheLatestSet
      BY DEF SafetyInv, RowsHold
<1> QED  BY <1>1, SafetyHolds, PTL

------------------------------------------------------------------------------
(***************************************************************************)
(* Outstanding requests.  A code's row says to which address it was        *)
(* mailed, wherever it has been read to; what a body has found in the      *)
(* pending rows is still there when it commits, because only transactions  *)
(* under the row lock write them; and a rotation writes none.              *)
(***************************************************************************)

\* The pending changes anybody knows of: committed, read, or about to be.
Known == {r \in RequestRow : \/ r \in changes
                             \/ \E p \in Proc : r \in seen[p].pending
                             \/ \E p \in Proc : \E w \in writes[p] : r \in w.changes}

AddressesAgree == \A r, s \in Known : r.id = s.id => r.to = s.to

WriteFounded(p, w) ==
    /\ op[p] \in Rotating => w.changes = {}
    /\ op[p] \notin Rotating =>
         \A r \in w.changes : r.by = "RequestEmailChange" => r.verified >= history.rotated
    /\ op[p] = "ResetPassword" =>
         /\ w.resets = {} /\ w.user.email = user.email
         /\ \E c \in seen[p].code, r \in resets : r.id = c.id
         /\ \A row \in seen[p].row : row.email = user.email
    /\ op[p] = "ConfirmEmailChange" =>
         \E cr \in seen[p].pending, r \in changes :
            r.id = cr.id /\ w.user.email = cr.to /\ \A s \in w.changes : s.id # cr.id

RequestInv ==
    /\ history.rotated <= user.generation
    /\ \A p \in Proc : pc[p] = "commit" => writes[p] # {}
    /\ \A p \in Proc : \A r, s \in seen[p].row : r = s
    /\ RequestedChangeIsFenced
    /\ AddressesAgree
    /\ \A p \in Proc : \A w \in writes[p] : WriteFounded(p, w)

\* A step beside the open transaction, if there is one: no request changes.
Aside ==
    /\ UNCHANGED <<resets, changes, history>>
    /\ user'.generation = user.generation /\ user'.email = user.email
    /\ \A q \in Proc : /\ \/ writes'[q] = {} /\ pc'[q] # "commit"
                          \/ /\ writes'[q] = writes[q] /\ op'[q] = op[q]
                             /\ seen'[q] = seen[q] /\ pc'[q] = pc[q]
                       /\ seen'[q].pending \subseteq seen[q].pending \cup changes
                       /\ \A r, s \in seen'[q].row : r = s

LEMMA InitIsFounded == Init => RequestInv
<1> SUFFICES ASSUME Init PROVE RequestInv
    OBVIOUS
<1>1. Known = {}
      BY DEF Init, Known, Nothing
<1>2. \A p \in Proc : writes[p] = {} /\ pc[p] = "idle" /\ seen[p].row = {}
      BY DEF Init, Nothing
<1>3. changes = {} /\ history.rotated = 0 /\ user.generation = 0
      BY DEF Init
<1> QED  BY <1>1, <1>2, <1>3 DEF RequestInv, AddressesAgree, RequestedChangeIsFenced

LEMMA AsideIsFounded ==
    ASSUME RequestInv, Aside
    PROVE  RequestInv'
<1>1. history'.rotated <= user'.generation /\ RequestedChangeIsFenced'
      BY DEF RequestInv, Aside, RequestedChangeIsFenced
<1>2. \A p \in Proc : /\ pc'[p] = "commit" => writes'[p] # {}
                      /\ \A r, s \in seen'[p].row : r = s
      BY DEF RequestInv, Aside
<1>3. Known' \subseteq Known
  <2> SUFFICES ASSUME NEW r \in Known' PROVE r \in Known
      OBVIOUS
  <2>0. r \in RequestRow
        BY DEF Known
  <2>1. CASE r \in changes'
        BY <2>0, <2>1 DEF Aside, Known
  <2>2. CASE \E p \in Proc : r \in seen'[p].pending
        BY <2>0, <2>2 DEF Aside, Known
  <2>3. CASE \E p \in Proc : \E w \in writes'[p] : r \in w.changes
        BY <2>0, <2>3 DEF Aside, Known
  <2> QED  BY <2>1, <2>2, <2>3 DEF Known
<1>4. AddressesAgree'
      BY <1>3 DEF RequestInv, AddressesAgree
<1>5. ASSUME NEW p \in Proc, NEW w \in writes'[p]
      PROVE  WriteFounded(p, w)'
  <2>1. WriteFounded(p, w) /\ op'[p] = op[p] /\ seen'[p] = seen[p]
        BY <1>5 DEF RequestInv, Aside
  <2> QED  BY <2>1 DEF WriteFounded, Aside
<1> QED  BY <1>1, <1>2, <1>4, <1>5 DEF RequestInv

\* What is needed to see that a step of p is one.
LEMMA OneStepsAside ==
    ASSUME SafetyInv, RequestInv, NEW p \in Proc, UNCHANGED <<resets, changes, history>>,
           user'.generation = user.generation, user'.email = user.email,
           \A q \in Proc \ {p} : /\ writes'[q] = writes[q] /\ op'[q] = op[q]
                                 /\ seen'[q] = seen[q] /\ pc'[q] = pc[q],
           writes'[p] = {}, pc'[p] # "commit",
           seen'[p].pending \subseteq seen[p].pending \cup changes,
           \A r, s \in seen'[p].row : r = s
    PROVE  RequestInv'
<1>1. Aside
      BY DEF RequestInv, Aside
<1> QED  BY <1>1, AsideIsFounded

LEMMA StartIsFounded ==
    ASSUME SafetyInv, RequestInv, NEW p \in Proc, NEW o, NEW where, where # "commit",
           NEW s, Start(p, o, where, s), s.pending = {}, \A a, b \in s.row : a = b
    PROVE  RequestInv'
<1>1. /\ UNCHANGED <<user, resets, changes, history>>
      /\ \A q \in Proc \ {p} : writes'[q] = writes[q] /\ op'[q] = op[q] /\ seen'[q] = seen[q] /\ pc'[q] = pc[q]
      /\ writes'[p] = {} /\ pc'[p] = where /\ seen'[p] = s
      BY DEF Start, SafetyInv, OneHolder, TypeOK
<1> QED  BY <1>1, OneStepsAside

LEMMA ArriveIsFounded ==
    ASSUME SafetyInv, RequestInv, NEW p \in Proc, Arrive(p)
    PROVE  RequestInv'
<1>1. CASE Login(p)
      BY <1>1, StartIsFounded DEF Login, Nothing
<1>2. CASE RemindPassword(p)
      BY <1>2, StartIsFounded DEF RemindPassword, Nothing
<1>3. CASE ResetPassword(p)
  <2>1. PICK r \in resets : Start(p, "ResetPassword", "lock", [Nothing EXCEPT !.row = {user}, !.code = {r}])
        BY <1>3 DEF ResetPassword
  <2> DEFINE s == [Nothing EXCEPT !.row = {user}, !.code = {r}]
  <2>2. s.pending = {} /\ s.row = {user}
        BY DEF Nothing
  <2>3. Start(p, "ResetPassword", "lock", s)
        BY <2>1
  <2> HIDE DEF s
  <2> QED  BY <2>2, <2>3, StartIsFounded
<1>4. CASE Mutate(p)
      BY <1>4, StartIsFounded DEF Mutate, Nothing
<1>5. CASE Authenticate(p)
      BY <1>5, StartIsFounded DEF Authenticate, Nothing
<1> QED  BY <1>1, <1>2, <1>3, <1>4, <1>5 DEF Arrive

LEMMA FinishIsFounded ==
    ASSUME SafetyInv, RequestInv, NEW p \in Proc, Finish(p), UNCHANGED <<user, resets, changes, history>>
    PROVE  RequestInv'
<1>1. /\ \A q \in Proc \ {p} : writes'[q] = writes[q] /\ op'[q] = op[q] /\ seen'[q] = seen[q] /\ pc'[q] = pc[q]
      /\ writes'[p] = {} /\ pc'[p] = "idle" /\ seen'[p].pending = {} /\ seen'[p].row = {}
      BY DEF Finish, SafetyInv, TypeOK, Nothing
<1> QED  BY <1>1, OneStepsAside

LEMMA ReadIsFounded ==
    ASSUME SafetyInv, RequestInv, NEW p \in Proc, NEW where, where # "commit", NEW s, Read(p, where, s),
           pc[p] # "commit", s.pending \subseteq seen[p].pending \cup changes,
           \A a, b \in s.row : a = b
    PROVE  RequestInv'
<1>1. /\ UNCHANGED <<user, resets, changes, history>>
      /\ \A q \in Proc \ {p} : writes'[q] = writes[q] /\ op'[q] = op[q] /\ seen'[q] = seen[q] /\ pc'[q] = pc[q]
      /\ writes'[p] = {} /\ pc'[p] = where /\ seen'[p] = s
      BY DEF Read, SafetyInv, OneHolder, TypeOK
<1> QED  BY <1>1, OneStepsAside

LEMMA EvidenceIsFounded ==
    ASSUME SafetyInv, RequestInv, NEW p \in Proc, Evidence(p)
    PROVE  RequestInv'
<1>0. seen[p] \in Seen /\ (\A a, b \in seen[p].row : a = b)
      BY DEF SafetyInv, TypeOK, RequestInv
<1>a. ASSUME NEW s, NEW where, where # "commit", Read(p, where, s), pc[p] # "commit",
             s.pending \subseteq seen[p].pending \cup changes, \A a, b \in s.row : a = b
      PROVE  RequestInv'
      BY <1>a, ReadIsFounded
<1>1. CASE CheckOldPassword(p) \/ RereadUser(p)
  <2>1. /\ [seen[p] EXCEPT !.row = {user}].pending = seen[p].pending
        /\ [seen[p] EXCEPT !.row = {user}].row = {user}
        BY <1>0 DEF Seen
  <2> QED  BY <1>1, <2>1, <1>a DEF CheckOldPassword, RereadUser
<1>2. CASE CheckEmailChange(p)
  <2>1. PICK e \in Email : Read(p, "lock", [seen[p] EXCEPT !.row = {user}, !.to = {e}])
        BY <1>2 DEF CheckEmailChange
  <2>2. /\ [seen[p] EXCEPT !.row = {user}, !.to = {e}].pending = seen[p].pending
        /\ [seen[p] EXCEPT !.row = {user}, !.to = {e}].row = {user}
        BY <1>0 DEF Seen
  <2>3. pc[p] # "commit"
        BY <1>2 DEF CheckEmailChange
  <2> QED  BY <2>1, <2>2, <2>3, <1>a
<1>3. CASE PreparePersonalToken(p)
      BY <1>0, <1>3, <1>a DEF PreparePersonalToken
<1>4. CASE MatchPendingChange(p)
  <2>1. PICK r \in changes : Read(p, "lock", [seen[p] EXCEPT !.pending = {r}])
        BY <1>4 DEF MatchPendingChange
  <2> DEFINE s == [seen[p] EXCEPT !.pending = {r}]
  <2>2. s.pending = {r} /\ s.row = seen[p].row
        BY <1>0 DEF Seen
  <2>3. pc[p] # "commit" /\ Read(p, "lock", s)
        BY <1>4, <2>1 DEF MatchPendingChange
  <2> HIDE DEF s
  <2>4. s.pending \subseteq seen[p].pending \cup changes /\ \A a, b \in s.row : a = b
        BY <1>0, <2>2
  <2> QED  BY <2>3, <2>4, ReadIsFounded
<1>5. CASE ReadPendingChange(p)
  <2>1. PICK r \in changes : Read(p, "reread", [seen[p] EXCEPT !.pending = {r}, !.to = {r.to}])
        BY <1>5 DEF ReadPendingChange
  <2> DEFINE s == [seen[p] EXCEPT !.pending = {r}, !.to = {r.to}]
  <2>2. s.pending = {r} /\ s.row = seen[p].row
        BY <1>0 DEF Seen
  <2>3. pc[p] # "commit" /\ Read(p, "reread", s)
        BY <1>5, <2>1 DEF ReadPendingChange
  <2> HIDE DEF s
  <2>4. s.pending \subseteq seen[p].pending \cup changes /\ \A a, b \in s.row : a = b
        BY <1>0, <2>2
  <2> QED  BY <2>3, <2>4, ReadIsFounded
<1> QED  BY <1>1, <1>2, <1>3, <1>4, <1>5 DEF Evidence

LEMMA WaitIsFounded ==
    ASSUME SafetyInv, RequestInv, NEW p \in Proc, Wait(p)
    PROVE  RequestInv'
<1>0. /\ TypeOK /\ user \in UserRow /\ seen[p] \in Seen /\ (\A a, b \in seen[p].row : a = b)
      /\ pc[p] # "commit" => writes[p] = {}
      BY DEF SafetyInv, TypeOK, RequestInv, OneHolder
<1>1. CASE LockRow(p)
  <2>1. /\ UNCHANGED <<user, resets, changes, history>>
        /\ \A q \in Proc \ {p} : writes'[q] = writes[q] /\ op'[q] = op[q] /\ seen'[q] = seen[q] /\ pc'[q] = pc[q]
        /\ writes'[p] = {} /\ pc'[p] = "body" /\ seen'[p] = seen[p]
        BY <1>0, <1>1 DEF LockRow, TypeOK
  <2> QED  BY <1>0, <2>1, OneStepsAside
<1>2. CASE RehashLegacyPassword(p)
  <2>1. PICK row \in seen[p].row :
           /\ user' = IF user.generation = row.generation
                      THEN [user EXCEPT !.password = row.password, !.legacy = FALSE]
                      ELSE user
           /\ seen' = [seen EXCEPT ![p].row = {[row EXCEPT !.legacy = FALSE]}]
        BY <1>2 DEF RehashLegacyPassword
  <2>2. user'.generation = user.generation /\ user'.email = user.email
        BY <1>0, <2>1 DEF UserRow
  <2>3. /\ \A q \in Proc \ {p} : seen'[q] = seen[q]
        /\ seen'[p].pending = seen[p].pending /\ seen'[p].row = {[row EXCEPT !.legacy = FALSE]}
        BY <1>0, <2>1 DEF TypeOK, Seen
  <2>4. /\ UNCHANGED <<tokens, resets, changes, pc, op, writes, history>>
        /\ writes[p] = {} /\ pc[p] = "lock"
        BY <1>0, <1>2 DEF RehashLegacyPassword
  <2> QED  BY <2>2, <2>3, <2>4, OneStepsAside
<1>3. CASE Touch(p)
  <2>1. CASE Finish(p)
        BY <1>3, <2>1, FinishIsFounded DEF Touch
  <2>2. CASE pc' = [pc EXCEPT ![p] = "authenticated"] /\ UNCHANGED <<op, seen, writes>>
    <3>1. /\ UNCHANGED <<user, resets, changes, history>> /\ pc[p] = "touch"
          BY <1>3 DEF Touch
    <3>2. /\ \A q \in Proc \ {p} : writes'[q] = writes[q] /\ op'[q] = op[q] /\ seen'[q] = seen[q] /\ pc'[q] = pc[q]
          /\ writes'[p] = {} /\ pc'[p] = "authenticated" /\ seen'[p] = seen[p]
          BY <1>0, <2>2, <3>1 DEF TypeOK
    <3> QED  BY <1>0, <3>1, <3>2, OneStepsAside
  <2> QED  BY <1>3, <2>1, <2>2 DEF Touch
<1>4. CASE RevokeSessions(p)
      BY <1>4, FinishIsFounded DEF RevokeSessions
<1> QED  BY <1>1, <1>2, <1>3, <1>4 DEF Wait

\* What a body buffers is founded on what it has just found.
LEMMA BodyIsFounded ==
    ASSUME SafetyInv, RequestInv, NEW p \in Proc, Body(p)
    PROVE  RequestInv'
<1>0. /\ TypeOK /\ user \in UserRow /\ user.generation \in Nat /\ history.rotated \in Nat
      /\ history.rotated <= user.generation /\ seen[p] \in Seen
      /\ RequestedChangeIsFenced /\ \A a, b \in seen[p].row : a = b
      BY DEF SafetyInv, TypeOK, UserRow, RequestInv
<1>1. pc[p] = "body" /\ writes[p] = {} /\ \A q \in Proc : writes[q] = {}
  <2>1. pc[p] = "body"
        BY DEF Body, In, CreateSession, CreatePersonalToken, IssueResetCode, CompleteReset,
               AdminChangePassword, AdminDeactivate, AdminActivate, AdminChangeEmail, SaveProfile,
               UpdatePassword, IssueEmailChangeCode, ConfirmEmailChange
  <2> QED  BY <2>1 DEF SafetyInv, OneHolder, Holding
\* A write set that keeps the pending rows, or drops some, or adds a fresh one.
<1>2. ASSUME NEW w \in WriteSet, Buffer(p, w), WriteFounded(p, w),
             \A r, s \in w.changes : r.id = s.id => r.to = s.to,
             \A r \in w.changes : \/ r \in changes
                                  \/ r.id \in FreshCode
      PROVE  RequestInv'
  <2>1. /\ UNCHANGED <<user, resets, changes, op, seen, history>>
        /\ writes'[p] = {w} /\ \A q \in Proc \ {p} : writes'[q] = {} /\ pc'[q] = pc[q]
        BY <1>0, <1>1, <1>2 DEF Buffer, TypeOK
  <2>2. \A r \in Known' : r \in Known \/ r \in w.changes
        BY <2>1 DEF Known
  <2>3. ASSUME NEW r \in Known, NEW s \in w.changes, r.id = s.id
        PROVE  r.to = s.to
    <3>1. r \in changes \/ \E q \in Proc : r \in seen[q].pending
          BY <1>1 DEF Known
    <3>2. s.id \notin FreshCode
          BY <2>3, <3>1 DEF FreshCode
    <3>3. s \in Known
          BY <1>0, <1>2, <3>2 DEF Known, TypeOK
    <3> QED  BY <2>3, <3>3 DEF RequestInv, AddressesAgree
  <2>4. AddressesAgree'
    <3> SUFFICES ASSUME NEW r \in Known', NEW s \in Known', r.id = s.id
                 PROVE  r.to = s.to
        BY DEF AddressesAgree
    <3>1. CASE r \in Known /\ s \in Known
          BY <3>1 DEF RequestInv, AddressesAgree
    <3>2. CASE r \in w.changes /\ s \in w.changes
          BY <1>2, <3>2
    <3>3. CASE r \in Known /\ s \in w.changes
          BY <2>3, <3>3
    <3>4. CASE r \in w.changes /\ s \in Known
          BY <2>3, <3>4
    <3> QED  BY <2>2, <3>1, <3>2, <3>3, <3>4
  <2>5. \A q \in Proc : \A v \in writes'[q] : WriteFounded(q, v)'
    <3>1. WriteFounded(p, w)'
          BY <1>2, <2>1 DEF WriteFounded
    <3> QED  BY <2>1, <3>1
  <2>6. RequestedChangeIsFenced'
        BY <1>0, <2>1 DEF RequestedChangeIsFenced
  <2>7. /\ history'.rotated <= user'.generation
        /\ \A q \in Proc : pc'[q] = "commit" => writes'[q] # {}
        /\ \A q \in Proc : \A r, s \in seen'[q].row : r = s
        BY <1>1, <2>1 DEF RequestInv, SafetyInv, OneHolder
  <2> QED  BY <2>4, <2>5, <2>6, <2>7 DEF RequestInv
<1>a. \A r, s \in changes : r.id = s.id => r.to = s.to
      BY <1>0 DEF RequestInv, AddressesAgree, Known, TypeOK
\* Most bodies keep the pending rows.
<1>3. ASSUME op[p] \notin Rotating \cup {"ConfirmEmailChange"}, NEW w \in WriteSet, Buffer(p, w),
             w.changes = changes
      PROVE  RequestInv'
  <2>1. WriteFounded(p, w)
        BY <1>0, <1>3 DEF WriteFounded, RequestedChangeIsFenced, Rotating, Reclaiming
  <2> QED  BY <1>2, <1>3, <1>a, <2>1
<1>4. CASE CreateSession(p) \/ CreatePersonalToken(p) \/ IssueResetCode(p) \/ AdminDeactivate(p)
           \/ AdminActivate(p) \/ AdminChangeEmail(p) \/ SaveProfile(p)
  <2>1. op[p] \notin Rotating \cup {"ConfirmEmailChange"}
        BY <1>4 DEF In, CreateSession, CreatePersonalToken, IssueResetCode, AdminDeactivate, AdminActivate,
                    AdminChangeEmail, SaveProfile, Rotating, Reclaiming
  <2>2. PICK w \in WriteSet : Buffer(p, w)
        BY <1>0, BodyBuffersAWriteSet
  <2>3. ASSUME NEW v, Buffer(p, v) PROVE v = w
        BY <1>0, <2>2, <2>3 DEF Buffer, TypeOK
  <2>4. w.changes = changes
        BY <1>4, <2>3 DEF CreateSession, CreatePersonalToken, IssueResetCode, AdminDeactivate, AdminActivate,
                    AdminChangeEmail, SaveProfile, Same
  <2> QED  BY <1>3, <2>1, <2>2, <2>4
\* A rotation drops them.
<1>5. ASSUME op[p] \in Rotating, NEW w \in WriteSet, Buffer(p, w), w.changes = {},
             op[p] = "ResetPassword" =>
                /\ w.resets = {} /\ w.user.email = user.email
                /\ \E c \in seen[p].code, r \in resets : r.id = c.id
                /\ \A row \in seen[p].row : row.email = user.email
      PROVE  RequestInv'
  <2>1. WriteFounded(p, w)
        BY <1>5 DEF WriteFounded, Rotating, Reclaiming
  <2> QED  BY <1>2, <1>5, <2>1
<1>6. CASE CompleteReset(p) \/ AdminChangePassword(p) \/ UpdatePassword(p)
  <2>1. op[p] \in Rotating
        BY <1>6 DEF In, CompleteReset, AdminChangePassword, UpdatePassword, Rotating, Reclaiming
  <2>2. PICK w \in WriteSet : Buffer(p, w)
        BY <1>0, BodyBuffersAWriteSet
  <2>3. ASSUME NEW v, Buffer(p, v) PROVE v = w
        BY <1>0, <2>2, <2>3 DEF Buffer, TypeOK
  <2>4. w.changes = {}
        BY <1>6, <2>3 DEF CompleteReset, AdminChangePassword, UpdatePassword, Reclaim, Same
  <2>5. CASE op[p] = "ResetPassword"
    <3>1. CompleteReset(p)
          BY <1>6, <2>5 DEF In, AdminChangePassword, UpdatePassword
    <3>2. w = [Same EXCEPT !.user = Bump(SetPassword(user)), !.resets = {}, !.changes = {}, !.sweep = Unrevoked]
          BY <2>3, <3>1 DEF CompleteReset, Reclaim
    <3>3. w.resets = {} /\ w.user = Bump(SetPassword(user))
          BY <3>2 DEF Same
    <3>4. w.user.email = user.email
          BY <1>0, <3>3 DEF Bump, SetPassword, UserRow
    <3>5. /\ \E c \in seen[p].code, r \in resets : r.id = c.id
          /\ \A row \in seen[p].row : row.email = user.email
          BY <1>0, <3>1 DEF CompleteReset
    <3> QED  BY <1>5, <2>1, <2>2, <2>4, <3>3, <3>4, <3>5
  <2>6. CASE op[p] # "ResetPassword"
        BY <1>5, <2>1, <2>2, <2>4, <2>6
  <2> QED  BY <2>5, <2>6
<1>7. CASE IssueEmailChangeCode(p)
  <2>1. PICK e \in seen[p].to, c \in FreshCode, row \in seen[p].row :
           \E g \in (IF op[p] = "RequestEmailChange" THEN {row.generation}
                     ELSE {r.verified : r \in seen[p].pending}) :
               Buffer(p, [Same EXCEPT !.changes =
                   {[id |-> c, to |-> e, fresh |-> TRUE, verified |-> g, by |-> op[p]]}])
        BY <1>7 DEF IssueEmailChangeCode
  <2>2. PICK g \in (IF op[p] = "RequestEmailChange" THEN {row.generation}
                    ELSE {r.verified : r \in seen[p].pending}) :
           Buffer(p, [Same EXCEPT !.changes =
               {[id |-> c, to |-> e, fresh |-> TRUE, verified |-> g, by |-> op[p]]}])
        BY <2>1
  <2> DEFINE new == [id |-> c, to |-> e, fresh |-> TRUE, verified |-> g, by |-> op[p]]
  <2>3. PICK w \in WriteSet : Buffer(p, w)
        BY <1>0, BodyBuffersAWriteSet
  <2>4. w = [Same EXCEPT !.changes = {new}]
        BY <1>0, <2>2, <2>3 DEF Buffer, TypeOK
  <2>5. w.changes = {new}
        BY <2>4 DEF Same
  <2>6. op[p] \in {"RequestEmailChange", "ResendEmailChangeCode"} /\ row.generation = user.generation
        BY <1>0, <1>7 DEF IssueEmailChangeCode, Fenced
  <2>7. new.by = op[p] /\ new.verified = g /\ new.id = c
        OBVIOUS
  <2> HIDE DEF new
  <2>8. new.by = "RequestEmailChange" => new.verified >= history.rotated
        BY <1>0, <2>2, <2>6, <2>7
  <2>9. WriteFounded(p, w)
        BY <2>5, <2>6, <2>8 DEF WriteFounded, Rotating, Reclaiming
  <2> QED  BY <1>2, <2>3, <2>5, <2>7, <2>9
<1>8. CASE ConfirmEmailChange(p)
  <2>1. PICK cr \in seen[p].pending :
           /\ \E r \in changes : r.id = cr.id
           /\ Buffer(p, [Same EXCEPT !.user = [user EXCEPT !.email = cr.to],
                           !.changes = {r \in changes : r.id # cr.id}])
        BY <1>8 DEF ConfirmEmailChange
  <2>2. PICK w \in WriteSet : Buffer(p, w)
        BY <1>0, BodyBuffersAWriteSet
  <2>a. ASSUME NEW v, Buffer(p, v) PROVE v = w
        BY <1>0, <2>2, <2>a DEF Buffer, TypeOK
  <2>3. w = [Same EXCEPT !.user = [user EXCEPT !.email = cr.to], !.changes = {r \in changes : r.id # cr.id}]
        BY <2>1, <2>a
  <2>4. w.user = [user EXCEPT !.email = cr.to] /\ w.changes = {r \in changes : r.id # cr.id}
        BY <2>3 DEF Same
  <2>5. w.user.email = cr.to
        BY <1>0, <2>4 DEF UserRow
  <2>6. op[p] = "ConfirmEmailChange"
        BY <1>8 DEF ConfirmEmailChange, In
  <2>7. \E d \in seen[p].pending, r \in changes :
            r.id = d.id /\ w.user.email = d.to /\ \A s \in w.changes : s.id # d.id
        BY <2>1, <2>4, <2>5
  <2>8. WriteFounded(p, w)
        BY <1>0, <2>4, <2>6, <2>7 DEF WriteFounded, Rotating, Reclaiming, RequestedChangeIsFenced
  <2> QED  BY <1>2, <1>a, <2>2, <2>4, <2>8
<1> QED  BY <1>4, <1>6, <1>7, <1>8 DEF Body

LEMMA CommitIsFounded ==
    ASSUME SafetyInv, TypeOK', RequestInv, NEW p \in Proc, Commit(p)
    PROVE  RequestInv'
<1>1. PICK w \in writes[p] :
         /\ user' = w.user /\ resets' = w.resets /\ changes' = w.changes
         /\ history' = [rotated |-> IF op[p] \in Rotating THEN w.user.generation ELSE history.rotated,
                        evicted |-> IF op[p] \in Evicting THEN w.user.generation ELSE history.evicted]
      BY DEF Commit
<1>2. /\ TypeOK /\ WriteFounded(p, w) /\ BufferHolds(op[p], w) /\ pc[p] = "commit"
      /\ user.generation \in Nat /\ history.rotated \in Nat /\ history.rotated <= user.generation
      BY DEF SafetyInv, BuffersHold, RequestInv, TypeOK, UserRow, Commit
<1>3. /\ \A q \in Proc : /\ writes'[q] = {} /\ pc'[q] # "commit"
                         /\ seen'[q] = seen[q] \/ seen'[q] = Nothing
  <2>1. \A q \in Proc \ {p} : writes'[q] = writes[q] /\ pc'[q] = pc[q] /\ seen'[q] = seen[q]
        BY <1>2 DEF Commit, Finish, TypeOK
  <2>2. \A q \in Proc \ {p} : pc[q] # "commit" /\ writes[q] = {}
        BY <1>2 DEF SafetyInv, OneHolder, Holding
  <2>3. writes'[p] = {} /\ pc'[p] # "commit" /\ (seen'[p] = seen[p] \/ seen'[p] = Nothing)
        BY <1>2 DEF Commit, Finish, TypeOK
  <2> QED  BY <2>1, <2>2, <2>3
<1>4. history'.rotated = IF op[p] \in Rotating THEN user'.generation ELSE history.rotated
      BY <1>1
<1>5. history'.rotated <= user'.generation
  <2>1. user'.generation \in Nat /\ user.generation <= user'.generation
        BY <1>1, <1>2 DEF BufferHolds, TypeOK, UserRow
  <2> QED  BY <1>2, <1>4, <2>1
<1>6. RequestedChangeIsFenced'
      BY <1>1, <1>2, <1>4 DEF RequestedChangeIsFenced, WriteFounded
<1>7. AddressesAgree'
  <2>1. \A r \in Known' : r \in Known
        BY <1>1, <1>3 DEF Known, Nothing
  <2> QED  BY <2>1 DEF RequestInv, AddressesAgree
<1>8. \A q \in Proc : \A r, s \in seen'[q].row : r = s
      BY <1>3 DEF RequestInv, Nothing
<1> QED  BY <1>3, <1>5, <1>6, <1>7, <1>8 DEF RequestInv

LEMMA ExpireCodeIsFounded ==
    ASSUME SafetyInv, RequestInv, NEW c \in Code, ExpireCode(c)
    PROVE  RequestInv'
<1>1. /\ \A q \in Proc : writes[q] = {} /\ pc[q] # "commit"
      /\ UNCHANGED <<user, pc, op, seen, writes, history>>
      BY DEF ExpireCode, RowLocked, Holding, SafetyInv, OneHolder
<1>2. changes' = {[r EXCEPT !.fresh = @ /\ r.id # c] : r \in changes}
      BY DEF ExpireCode
<1>3. ASSUME NEW s \in changes'
      PROVE  \E r \in changes : r.id = s.id /\ r.to = s.to /\ r.by = s.by /\ r.verified = s.verified
  <2>1. PICK r \in changes : s = [r EXCEPT !.fresh = @ /\ r.id # c]
        BY <1>2
  <2>2. r \in RequestRow
        BY DEF SafetyInv, TypeOK
  <2> QED  BY <2>1, <2>2 DEF RequestRow
<1>4. RequestedChangeIsFenced'
      BY <1>1, <1>3 DEF RequestInv, RequestedChangeIsFenced
<1>5. ASSUME NEW s \in Known'
      PROVE  \E r \in Known : r.id = s.id /\ r.to = s.to
  <2>1. CASE s \in changes'
    <3>1. PICK r \in changes : r.id = s.id /\ r.to = s.to
          BY <1>3, <2>1
    <3>2. r \in Known
          BY DEF Known, SafetyInv, TypeOK
    <3> QED  BY <3>1, <3>2
  <2>2. CASE s \notin changes'
    <3>1. s \in Known
          BY <1>1, <2>2 DEF Known
    <3> QED  BY <3>1
  <2> QED  BY <2>1, <2>2
<1>6. AddressesAgree'
  <2> SUFFICES ASSUME NEW s \in Known', NEW t \in Known', s.id = t.id
               PROVE  s.to = t.to
      BY DEF AddressesAgree
  <2>1. PICK r \in Known : r.id = s.id /\ r.to = s.to
        BY <1>5
  <2>2. PICK u \in Known : u.id = t.id /\ u.to = t.to
        BY <1>5
  <2> QED  BY <2>1, <2>2 DEF RequestInv, AddressesAgree
<1> QED  BY <1>1, <1>4, <1>6 DEF RequestInv

LEMMA NextIsFounded == SafetyInv /\ TypeOK' /\ RequestInv /\ [Next]_vars => RequestInv'
<1> SUFFICES ASSUME SafetyInv, TypeOK', RequestInv, [Next]_vars
             PROVE  RequestInv'
    OBVIOUS
<1>1. ASSUME NEW p \in Proc, Arrive(p) \/ Wait(p) \/ Evidence(p) \/ Body(p) \/ Commit(p)
      PROVE  RequestInv'
      BY <1>1, ArriveIsFounded, WaitIsFounded, EvidenceIsFounded, BodyIsFounded, CommitIsFounded
<1>2. ASSUME NEW p \in Proc, Reject(p) \/ Crash(p)
      PROVE  RequestInv'
      BY <1>2, FinishIsFounded DEF Reject, Crash
<1>3. ASSUME UNCHANGED <<user, resets, changes, pc, op, seen, writes, history>>
      PROVE  RequestInv'
  <2>1. Aside
        BY <1>3 DEF Aside, RequestInv
  <2> QED  BY <2>1, AsideIsFounded
<1>4. ASSUME NEW t \in Token, Lapse(t)
      PROVE  RequestInv'
      BY <1>3, <1>4 DEF Lapse, RevokeToken, Expire, PurgeDeadToken, SetToken
<1>5. CASE UNCHANGED vars
      BY <1>3, <1>5 DEF vars
<1> QED  BY <1>1, <1>2, <1>4, <1>5, ExpireCodeIsFounded DEF Next, Run

LEMMA FoundedHolds == Spec => [](SafetyInv /\ RequestInv)
<1>1. SafetyInv /\ RequestInv /\ [Next]_vars => RequestInv'
  <2>1. SafetyInv => TypeOK
        BY DEF SafetyInv
  <2> QED  BY <2>1, NextKeepsTypes, NextIsFounded
<1> QED  BY <1>1, InitIsFounded, SafetyHolds, PTL DEF Spec

\* A pending email change asked for under a password does not outlive it, however
\* the request, its lock and a rotation were interleaved.
THEOREM RequestsEndWithTheirPassword == Spec => []RequestedChangeIsFenced
<1>1. RequestInv => RequestedChangeIsFenced
      BY DEF RequestInv
<1> QED  BY <1>1, FoundedHolds, PTL

\* A reset that commits takes the code it presented, which nobody else has taken
\* or replaced, and resets the account at the address it was presented for.
THEOREM ResetsTakeTheirCode == Spec => ResetTakesItsCode
<1> DEFINE A == \A p \in Proc : Commits(p, "ResetPassword") =>
        /\ \E c \in seen[p].code : (\E r \in resets : r.id = c.id) /\ \A r \in resets' : r.id # c.id
        /\ \A row \in seen[p].row : row.email = user.email /\ user'.email = user.email
<1>1. ASSUME SafetyInv, RequestInv, [Next]_vars PROVE A
  <2> SUFFICES ASSUME NEW p \in Proc, Commits(p, "ResetPassword")
               PROVE  /\ \E c \in seen[p].code : (\E r \in resets : r.id = c.id)
                                                 /\ \A r \in resets' : r.id # c.id
                      /\ \A row \in seen[p].row : row.email = user.email /\ user'.email = user.email
      OBVIOUS
  <2>1. Commit(p) /\ op[p] = "ResetPassword"
        BY DEF Commits
  <2>2. PICK w \in writes[p] : user' = w.user /\ resets' = w.resets
        BY <2>1 DEF Commit
  <2>3. WriteFounded(p, w)
        BY <1>1 DEF RequestInv
  <2> QED  BY <2>1, <2>2, <2>3 DEF WriteFounded
<1>2. SafetyInv /\ RequestInv /\ [Next]_vars => [A]_vars
      BY <1>1
<1> QED  BY <1>2, FoundedHolds, PTL DEF Spec, ResetTakesItsCode

\* An address change that commits takes the pending row it was matched with, and
\* goes to the address that row's code was mailed to.
THEOREM ConfirmationsTakeTheirGrant == Spec => ConfirmTakesItsGrant
<1> DEFINE A == \A p \in Proc : Commits(p, "ConfirmEmailChange") =>
        \E cr \in seen[p].pending : /\ \E r \in changes : r.id = cr.id /\ r.to = user'.email
                                    /\ \A r \in changes' : r.id # cr.id
<1>1. ASSUME SafetyInv, RequestInv, [Next]_vars PROVE A
  <2> SUFFICES ASSUME NEW p \in Proc, Commits(p, "ConfirmEmailChange")
               PROVE  \E cr \in seen[p].pending :
                        /\ \E r \in changes : r.id = cr.id /\ r.to = user'.email
                        /\ \A r \in changes' : r.id # cr.id
      OBVIOUS
  <2>1. Commit(p) /\ op[p] = "ConfirmEmailChange"
        BY DEF Commits
  <2>2. PICK w \in writes[p] : user' = w.user /\ changes' = w.changes
        BY <2>1 DEF Commit
  <2>3. PICK cr \in seen[p].pending, r \in changes :
            r.id = cr.id /\ w.user.email = cr.to /\ \A s \in w.changes : s.id # cr.id
        BY <1>1, <2>1 DEF RequestInv, WriteFounded
  <2>4. r \in Known /\ cr \in Known
        BY <1>1 DEF Known, SafetyInv, TypeOK, Seen
  <2>5. r.to = cr.to
        BY <1>1, <2>3, <2>4 DEF RequestInv, AddressesAgree
  <2> QED  BY <2>2, <2>3, <2>5
<1>2. SafetyInv /\ RequestInv /\ [Next]_vars => [A]_vars
      BY <1>1
<1> QED  BY <1>2, FoundedHolds, PTL DEF Spec, ConfirmTakesItsGrant

------------------------------------------------------------------------------
(***************************************************************************)
(* The refinement.  A commit is the atomic step its body meant: whatever   *)
(* took no lock meanwhile has only withdrawn tokens.                       *)
(***************************************************************************)

BufferMeans(p, w) ==
    /\ op[p] \in Bumping => user.generation < MaxGeneration
    /\ op[p] \notin Bumping => w.sweep = {}
    /\ op[p] = "UpdatePassword" => Unrevoked \cap w.sweep \subseteq Sessions
    /\ w.mint # {} => \E t \in Token \ Unrevoked : w.mint = {t} /\ w.minted.state = "live"

MeaningInv == \A p \in Proc : \A w \in writes[p] : BufferMeans(p, w)

\* No generation moves and no token is granted.
Withdraws ==
    /\ user'.generation = user.generation /\ history' = history
    /\ Unrevoked' \subseteq Unrevoked
    /\ \A t \in Unrevoked' : tokens'[t].since = tokens[t].since /\ tokens'[t].kind = tokens[t].kind

LEMMA WithdrawsIsAFenceStep ==
    ASSUME Withdraws
    PROVE  Fence!FenceNext
<1> DEFINE S == Unrevoked \ Unrevoked'
<1>1. Unrevoked \subseteq Token /\ Unrevoked' \subseteq Token
      BY DEF Unrevoked
<1>2. S \in SUBSET Token /\ S \subseteq Unrevoked /\ Unrevoked' = Unrevoked \ S
      BY <1>1 DEF Withdraws
<1>3. Sessions' = Sessions \ S
      BY <1>1 DEF Withdraws, Sessions
<1>4. [t \in Token |-> IF t \in Unrevoked' THEN tokens'[t].since ELSE 0]
        = [t \in Token |-> IF t \in S THEN 0 ELSE [u \in Token |-> IF u \in Unrevoked THEN tokens[u].since ELSE 0][t]]
      BY <1>1 DEF Withdraws
<1>5. Fence!Withdraw(S)
      BY <1>2, <1>3, <1>4 DEF Fence!Withdraw, Fence!Forget, Withdraws
<1> HIDE DEF S
<1>6. \E T \in SUBSET Token : Fence!Withdraw(T)
      BY <1>2, <1>5 DEF Fence!Withdraw, Fence!Forget
<1> QED  BY <1>6 DEF Fence!FenceNext

LEMMA WithdrawsKeepsMeaning ==
    ASSUME MeaningInv, Withdraws,
           \A q \in Proc : writes'[q] = {} \/ (writes'[q] = writes[q] /\ op'[q] = op[q])
    PROVE  MeaningInv'
<1> SUFFICES ASSUME NEW q \in Proc, NEW w \in writes'[q]
             PROVE  BufferMeans(q, w)'
    BY DEF MeaningInv
<1>1. op'[q] = op[q] /\ BufferMeans(q, w)
      BY DEF MeaningInv
<1>2. \A t \in Sessions : t \in Unrevoked' => t \in Sessions'
      BY DEF Withdraws, Sessions
<1> QED  BY <1>1, <1>2 DEF BufferMeans, Withdraws

\* Rows unchanged, but for a rehash: nothing is withdrawn even.
LEMMA SameTokensWithdraw ==
    ASSUME user'.generation = user.generation, UNCHANGED <<tokens, history>>
    PROVE  Withdraws
BY DEF Withdraws, Unrevoked

LEMMA OthersWithdraw ==
    ASSUME SafetyInv, NEW p \in Proc, Arrive(p) \/ Wait(p) \/ Evidence(p) \/ Reject(p) \/ Crash(p)
    PROVE  /\ Withdraws
           /\ \A q \in Proc : writes'[q] = {} \/ (writes'[q] = writes[q] /\ op'[q] = op[q])
<1>0. /\ TypeOK /\ user \in UserRow /\ (pc[p] # "commit" => writes[p] = {})
      BY DEF SafetyInv, OneHolder, TypeOK
<1>f. ASSUME Finish(p)
      PROVE  \A q \in Proc : writes'[q] = {} \/ (writes'[q] = writes[q] /\ op'[q] = op[q])
      BY <1>0, <1>f DEF Finish, TypeOK
<1>1. ASSUME Arrive(p)
      PROVE  /\ UNCHANGED <<user, tokens, history>> /\ writes' = writes /\ writes[p] = {}
             /\ \A q \in Proc \ {p} : op'[q] = op[q]
  <2>1. \E o, where, s : Start(p, o, where, s)
        BY <1>1 DEF Arrive, Login, RemindPassword, ResetPassword, Mutate, Authenticate
  <2> QED  BY <1>0, <2>1 DEF Start, TypeOK
<1>2. ASSUME Evidence(p)
      PROVE  UNCHANGED <<user, tokens, history>> /\ writes' = writes /\ op' = op
      BY <1>2 DEF Evidence, CheckOldPassword, CheckEmailChange, PreparePersonalToken, MatchPendingChange,
                  ReadPendingChange, RereadUser, Read
<1>3. CASE Arrive(p) \/ Evidence(p)
      BY <1>1, <1>2, <1>3, SameTokensWithdraw
<1>4. CASE Reject(p) \/ Crash(p)
      BY <1>4, <1>f, SameTokensWithdraw DEF Reject, Crash
<1>5. CASE LockRow(p)
      BY <1>5, SameTokensWithdraw DEF LockRow
<1>6. CASE RehashLegacyPassword(p)
  <2>1. user'.generation = user.generation /\ UNCHANGED <<tokens, history, writes, op>>
        BY <1>0, <1>6 DEF RehashLegacyPassword, UserRow
  <2> QED  BY <2>1, SameTokensWithdraw
<1>7. CASE Touch(p)
  <2>1. UNCHANGED <<user, history>>
        BY <1>7 DEF Touch
  <2>2. \A q \in Proc : writes'[q] = {} \/ (writes'[q] = writes[q] /\ op'[q] = op[q])
        BY <1>7, <1>f DEF Touch
  <2>3. PICK t \in seen[p].as :
           tokens' = tokens \/ (t \in Unrevoked /\ tokens' = [tokens EXCEPT ![t].state = "live"])
        BY <1>7 DEF Touch
  <2>4. CASE tokens' = tokens
        BY <2>1, <2>2, <2>4, SameTokensWithdraw
  <2>5. CASE t \in Unrevoked /\ tokens' = [tokens EXCEPT ![t].state = "live"]
    <3>1. \A u \in Token : /\ u # t => tokens'[u] = tokens[u]
                           /\ tokens'[u].since = tokens[u].since /\ tokens'[u].kind = tokens[u].kind
          BY <1>0, <2>5 DEF TypeOK, TokenRow
    <3>2. Unrevoked' \subseteq Unrevoked
          BY <2>5, <3>1 DEF Unrevoked
    <3> QED  BY <2>1, <2>2, <3>1, <3>2 DEF Withdraws, Unrevoked
  <2> QED  BY <2>3, <2>4, <2>5
<1>8. CASE RevokeSessions(p)
  <2>1. /\ UNCHANGED <<user, history>> /\ Finish(p)
        /\ tokens' = [t \in Token |-> IF t \in Sessions \ seen[p].as
                                      THEN [tokens[t] EXCEPT !.state = "revoked"] ELSE tokens[t]]
        BY <1>8 DEF RevokeSessions
  <2>2. \A t \in Token : /\ tokens'[t].since = tokens[t].since /\ tokens'[t].kind = tokens[t].kind
                         /\ tokens'[t].state = "revoked" \/ tokens'[t] = tokens[t]
        BY <1>0, <2>1 DEF TypeOK, TokenRow
  <2> QED  BY <1>f, <2>1, <2>2 DEF Withdraws, Unrevoked
<1> QED  BY <1>3, <1>4, <1>5, <1>6, <1>7, <1>8 DEF Wait

LEMMA LapsesWithdraw ==
    ASSUME SafetyInv, NEW t \in Token, Lapse(t)
    PROVE  Withdraws
<1>0. tokens \in [Token -> TokenRow]
      BY DEF SafetyInv, TypeOK
<1>1. UNCHANGED <<user, history>>
      BY DEF Lapse, RevokeToken, Expire, PurgeDeadToken, SetToken
<1>2. PICK row : tokens' = [tokens EXCEPT ![t] = row]
                 /\ \/ row.state \notin {"live", "expired"}
                    \/ t \in Unrevoked /\ row.since = tokens[t].since /\ row.kind = tokens[t].kind
  <2>1. CASE RevokeToken(t)
    <3>1. tokens' = [tokens EXCEPT ![t] = [tokens[t] EXCEPT !.state = "revoked"]]
          BY <2>1 DEF RevokeToken, SetToken
    <3>2. [tokens[t] EXCEPT !.state = "revoked"].state = "revoked"
          BY <1>0 DEF TokenRow
    <3> QED  BY <3>1, <3>2
  <2>2. CASE Expire(t)
    <3>1. tokens' = [tokens EXCEPT ![t] = [tokens[t] EXCEPT !.state = "expired"]] /\ t \in Unrevoked
          BY <2>2 DEF Expire, SetToken, Unrevoked
    <3>2. /\ [tokens[t] EXCEPT !.state = "expired"].since = tokens[t].since
          /\ [tokens[t] EXCEPT !.state = "expired"].kind = tokens[t].kind
          BY <1>0 DEF TokenRow
    <3> QED  BY <3>1, <3>2
  <2>3. CASE PurgeDeadToken(t)
    <3>1. tokens' = [tokens EXCEPT ![t] = NoToken]
          BY <2>3 DEF PurgeDeadToken, SetToken
    <3>2. NoToken.state \notin {"live", "expired"}
          BY DEF NoToken
    <3> QED  BY <3>1, <3>2
  <2> QED  BY <2>1, <2>2, <2>3 DEF Lapse
<1>3. tokens'[t] = row /\ \A u \in Token \ {t} : tokens'[u] = tokens[u]
      BY <1>0, <1>2
<1> QED  BY <1>1, <1>2, <1>3 DEF Withdraws, Unrevoked

LEMMA BodyMeans ==
    ASSUME SafetyInv, MeaningInv, NEW p \in Proc, Body(p)
    PROVE  Withdraws /\ MeaningInv'
<1>0. TypeOK /\ user.generation \in Nat /\ tokens \in [Token -> TokenRow]
      BY DEF SafetyInv, TypeOK, UserRow
<1>1. PICK w \in WriteSet : Buffer(p, w)
      BY <1>0, BodyBuffersAWriteSet
<1>2. ASSUME NEW v, Buffer(p, v) PROVE v = w
      BY <1>0, <1>1, <1>2 DEF Buffer, TypeOK
<1>3. BufferMeans(p, w)
  <2>1. CASE CreateSession(p)
    <3>1. PICK row \in seen[p].row, t \in FreshToken :
             Buffer(p, [Same EXCEPT !.mint = {t},
                          !.minted = [state |-> "live", kind |-> "session", since |-> row.generation]])
          BY <2>1 DEF CreateSession
    <3>2. w = [Same EXCEPT !.mint = {t},
                 !.minted = [state |-> "live", kind |-> "session", since |-> row.generation]]
          BY <1>2, <3>1
    <3>3. w.mint = {t} /\ w.sweep = {} /\ w.minted.state = "live"
          BY <3>2 DEF Same
    <3>4. t \in Token \ Unrevoked
          BY DEF FreshToken, Unrevoked
    <3>5. op[p] = "Login"
          BY <2>1 DEF CreateSession, In
    <3> QED  BY <3>3, <3>4, <3>5 DEF BufferMeans, Bumping, Rotating, Reclaiming
  <2>2. CASE CreatePersonalToken(p)
    <3>1. PICK a \in seen[p].as, t \in FreshToken :
             Buffer(p, [Same EXCEPT !.mint = {t},
                          !.minted = [state |-> "live", kind |-> "personal", since |-> tokens[a].since]])
          BY <2>2 DEF CreatePersonalToken
    <3>2. w = [Same EXCEPT !.mint = {t},
                 !.minted = [state |-> "live", kind |-> "personal", since |-> tokens[a].since]]
          BY <1>2, <3>1
    <3>3. w.mint = {t} /\ w.sweep = {} /\ w.minted.state = "live"
          BY <3>2 DEF Same
    <3>4. t \in Token \ Unrevoked
          BY DEF FreshToken, Unrevoked
    <3>5. op[p] = "CreatePersonalToken"
          BY <2>2 DEF CreatePersonalToken, In
    <3> QED  BY <3>3, <3>4, <3>5 DEF BufferMeans, Bumping, Rotating, Reclaiming
  <2>3. CASE CompleteReset(p) \/ AdminChangePassword(p)
    <3>1. user.generation < MaxGeneration /\ op[p] \in Reclaiming /\ op[p] # "UpdatePassword"
          BY <2>3 DEF CompleteReset, AdminChangePassword, In, CanBump, Reclaiming
    <3>2. w.mint = {}
          BY <1>2, <2>3 DEF CompleteReset, AdminChangePassword, Reclaim, Same
    <3> QED  BY <3>1, <3>2 DEF BufferMeans, Bumping, Rotating
  <2>4. CASE AdminDeactivate(p)
    <3>1. user.generation < MaxGeneration /\ op[p] = "AdminDeactivate"
          BY <2>4 DEF AdminDeactivate, In, CanBump
    <3>2. w.mint = {}
          BY <1>2, <2>4 DEF AdminDeactivate, Same
    <3> QED  BY <3>1, <3>2 DEF BufferMeans, Bumping
  <2>5. CASE UpdatePassword(p)
    <3>1. user.generation < MaxGeneration /\ op[p] = "UpdatePassword"
          BY <2>5 DEF UpdatePassword, In, CanBump
    <3>2. w.mint = {} /\ w.sweep = Sessions \ seen[p].as
          BY <1>2, <2>5 DEF UpdatePassword, Same
    <3> QED  BY <3>1, <3>2 DEF BufferMeans, Bumping, Rotating
  <2>6. CASE IssueResetCode(p) \/ AdminActivate(p) \/ AdminChangeEmail(p) \/ SaveProfile(p)
             \/ IssueEmailChangeCode(p) \/ ConfirmEmailChange(p)
    <3>1. op[p] \notin Bumping /\ op[p] # "UpdatePassword"
          BY <2>6 DEF IssueResetCode, AdminActivate, AdminChangeEmail, SaveProfile, IssueEmailChangeCode,
                      ConfirmEmailChange, In, Bumping, Rotating, Reclaiming
    <3>2. w.mint = {} /\ w.sweep = {}
          BY <1>2, <2>6 DEF IssueResetCode, AdminActivate, AdminChangeEmail, SaveProfile, IssueEmailChangeCode,
                      ConfirmEmailChange, Same
    <3> QED  BY <3>1, <3>2 DEF BufferMeans
  <2> QED  BY <2>1, <2>2, <2>3, <2>4, <2>5, <2>6 DEF Body
<1>4. UNCHANGED <<user, tokens, history, op>> /\ writes' = [writes EXCEPT ![p] = {w}]
      BY <1>1 DEF Buffer
<1>5. Unrevoked' = Unrevoked /\ Sessions' = Sessions
      BY <1>4 DEF Unrevoked, Sessions
<1>6. MeaningInv'
  <2> SUFFICES ASSUME NEW q \in Proc, NEW v \in writes'[q]
               PROVE  BufferMeans(q, v)'
      BY DEF MeaningInv
  <2>1. BufferMeans(q, v)
        BY <1>0, <1>3, <1>4 DEF MeaningInv, TypeOK
  <2> QED  BY <2>1, <1>4, <1>5 DEF BufferMeans
<1> QED  BY <1>4, <1>6, SameTokensWithdraw

\* A commit is a grant, a rotation, an eviction, or changes no credential.
LEMMA CommitIsAFenceStep ==
    ASSUME SafetyInv, MeaningInv, NEW p \in Proc, Commit(p)
    PROVE  Fence!FenceNext /\ MeaningInv'
<1>1. PICK w \in writes[p] :
         /\ user' = w.user
         /\ tokens' = [t \in Token |->
                         IF t \in w.sweep THEN [tokens[t] EXCEPT !.state = "revoked"]
                         ELSE IF t \in w.mint THEN w.minted
                         ELSE tokens[t]]
         /\ history' = [rotated |-> IF op[p] \in Rotating THEN w.user.generation ELSE history.rotated,
                        evicted |-> IF op[p] \in Evicting THEN w.user.generation ELSE history.evicted]
      BY DEF Commit
<1>2. /\ TypeOK /\ BufferHolds(op[p], w) /\ BufferMeans(p, w) /\ RowsHold
      /\ user.generation \in Nat /\ history.evicted \in Nat /\ history.evicted <= user.generation
      /\ tokens \in [Token -> TokenRow] /\ w \in WriteSet
      BY DEF SafetyInv, TypeOK, UserRow, BuffersHold, MeaningInv, RowsHold, GenerationsInOrder
<1>3. MeaningInv'
  <2>1. \A q \in Proc : writes'[q] = {}
        BY <1>2 DEF Commit, Finish, TypeOK, SafetyInv, OneHolder, Holding
  <2> QED  BY <2>1 DEF MeaningInv
<1>4. /\ user'.generation = IF op[p] \in Bumping THEN user.generation + 1 ELSE user.generation
      /\ history'.evicted = IF op[p] \in Evicting THEN user'.generation ELSE history.evicted
      BY <1>1, <1>2 DEF BufferHolds
<1>5. Unrevoked \subseteq Token /\ Unrevoked' \subseteq Token
      BY DEF Unrevoked
<1>6. ASSUME NEW t \in Token, t \notin w.mint
      PROVE  /\ t \in Unrevoked' <=> t \in Unrevoked /\ t \notin w.sweep
             /\ tokens'[t].kind = tokens[t].kind /\ tokens'[t].since = tokens[t].since
      BY <1>1, <1>2, <1>6 DEF Unrevoked, TokenRow
<1>7. CASE op[p] \in Evicting
  <2>1. op[p] \in Bumping
        BY <1>7 DEF Evicting, Bumping, Rotating
  <2>2. Unrevoked' = {}
        BY <1>2, <1>5, <1>6, <1>7 DEF BufferHolds
  <2>3. Sessions' = {}
        BY <2>2 DEF Sessions
  <2>4. [t \in Token |-> IF t \in Unrevoked' THEN tokens'[t].since ELSE 0] = [t \in Token |-> 0]
        BY <2>2
  <2>5. Fence!Evict
        BY <1>2, <1>4, <1>7, <2>1, <2>2, <2>3, <2>4 DEF Fence!Evict, BufferMeans
  <2> QED  BY <1>3, <2>5 DEF Fence!FenceNext
<1>8. CASE op[p] = "UpdatePassword"
  <2> DEFINE keep == Sessions \ w.sweep
  <2>1. op[p] \in Bumping /\ op[p] \notin Evicting
        BY <1>8 DEF Evicting, Bumping, Rotating, Reclaiming
  <2>2. w.mint = {} /\ \A s, t \in keep : s = t
        BY <1>2, <1>8 DEF BufferHolds
  <2>3. keep \in SUBSET Token /\ Sessions \subseteq Unrevoked
        BY DEF Sessions, Unrevoked
  <2>4. \A t \in Token : t \in Unrevoked' <=> t \in Unrevoked /\ t \notin Sessions \ keep
        BY <1>2, <1>6, <1>8, <2>2, <2>3 DEF BufferMeans
  <2>5. Unrevoked' = Unrevoked \ (Sessions \ keep)
        BY <1>5, <2>4
  <2>6. Sessions' = Sessions \cap keep
        BY <1>5, <1>6, <2>2, <2>5 DEF Sessions
  <2>7. [t \in Token |-> IF t \in Unrevoked' THEN tokens'[t].since ELSE 0]
          = [t \in Token |-> IF t \in Sessions \ keep THEN 0
                             ELSE [u \in Token |-> IF u \in Unrevoked THEN tokens[u].since ELSE 0][t]]
        BY <1>6, <2>2, <2>4
  <2>8. Fence!Rotate(keep)
        BY <1>2, <1>4, <2>1, <2>2, <2>5, <2>6, <2>7 DEF Fence!Rotate, Fence!Forget, BufferMeans
  <2> HIDE DEF keep
  <2>9. \E K \in SUBSET Token : Fence!Rotate(K)
        BY <2>3, <2>8 DEF Fence!Rotate, Fence!Forget
  <2> QED  BY <1>3, <2>9 DEF Fence!FenceNext
<1>9. CASE op[p] \notin Evicting /\ op[p] # "UpdatePassword" /\ w.mint = {}
  <2>1. op[p] \notin Bumping /\ w.sweep = {}
        BY <1>2, <1>9 DEF Evicting, Bumping, Rotating, Reclaiming, BufferMeans
  <2>2. user'.generation = user.generation /\ tokens' = tokens
        BY <1>1, <1>2, <1>4, <1>9, <2>1
  <2>3. history' = history
        BY <1>1, <1>2, <1>9, <2>1 DEF TypeOK, Bumping
  <2> QED  BY <1>3, <2>2, <2>3, SameTokensWithdraw, WithdrawsIsAFenceStep
<1>10. CASE op[p] \notin Evicting /\ op[p] # "UpdatePassword" /\ w.mint # {}
  <2>1. op[p] \notin Bumping /\ w.sweep = {}
        BY <1>2, <1>10 DEF Evicting, Bumping, Rotating, Reclaiming, BufferMeans
  <2>2. PICK t \in Token \ Unrevoked : w.mint = {t} /\ w.minted.state = "live"
        BY <1>2, <1>10 DEF BufferMeans
  <2>3. /\ user'.generation = user.generation /\ history'.evicted = history.evicted
        /\ w.minted.since \in Nat /\ w.minted.kind \in {"session", "personal"}
        /\ history.evicted <= w.minted.since /\ w.minted.since <= user.generation
        /\ w.minted.kind = "session" => w.minted.since = user.generation
        BY <1>2, <1>4, <1>10, <2>1 DEF BufferHolds, WriteSet, TokenRow
  <2>4. tokens'[t] = w.minted /\ \A u \in Token \ {t} : tokens'[u] = tokens[u]
        BY <1>1, <1>2, <2>1, <2>2
  <2>5. Unrevoked' = Unrevoked \cup {t}
    <3>1. \A u \in Token : u \in Unrevoked' <=> u \in Unrevoked \/ u = t
          BY <2>2, <2>4 DEF Unrevoked
    <3> QED  BY <1>5, <3>1
  <2>6. [u \in Token |-> IF u \in Unrevoked' THEN tokens'[u].since ELSE 0]
          = [[u \in Token |-> IF u \in Unrevoked THEN tokens[u].since ELSE 0] EXCEPT ![t] = w.minted.since]
        BY <2>2, <2>4, <2>5
  <2>7. CASE w.minted.kind = "session"
    <3>1. Sessions' = Sessions \cup {t}
          BY <1>5, <2>2, <2>4, <2>5, <2>7 DEF Sessions
    <3>2. Fence!SignIn(t)
          BY <2>2, <2>3, <2>5, <2>6, <2>7, <3>1 DEF Fence!SignIn
    <3> QED  BY <1>3, <3>2 DEF Fence!FenceNext
  <2>8. CASE w.minted.kind = "personal"
    <3>1. Sessions' = Sessions
          BY <1>5, <2>2, <2>4, <2>5, <2>8 DEF Sessions
    <3>2. w.minted.since \in history.evicted .. user.generation
          BY <1>2, <2>3
    <3>3. Fence!Derive(t)
          BY <2>2, <2>3, <2>5, <2>6, <3>1, <3>2 DEF Fence!Derive
    <3> QED  BY <1>3, <3>3 DEF Fence!FenceNext
  <2> QED  BY <2>3, <2>7, <2>8
<1> QED  BY <1>7, <1>8, <1>9, <1>10

LEMMA StepIsAFenceStep ==
    ASSUME SafetyInv, MeaningInv, Next
    PROVE  Fence!FenceNext /\ MeaningInv'
<1>1. ASSUME NEW p \in Proc, Arrive(p) \/ Wait(p) \/ Evidence(p) \/ Reject(p) \/ Crash(p)
      PROVE  Fence!FenceNext /\ MeaningInv'
      BY <1>1, OthersWithdraw, WithdrawsIsAFenceStep, WithdrawsKeepsMeaning
<1>2. ASSUME NEW p \in Proc, Body(p)
      PROVE  Fence!FenceNext /\ MeaningInv'
      BY <1>2, BodyMeans, WithdrawsIsAFenceStep
<1>3. ASSUME NEW p \in Proc, Commit(p)
      PROVE  Fence!FenceNext /\ MeaningInv'
      BY <1>3, CommitIsAFenceStep
<1>4. ASSUME NEW t \in Token, Lapse(t)
      PROVE  Fence!FenceNext /\ MeaningInv'
  <2>1. UNCHANGED <<op, writes>>
        BY <1>4 DEF Lapse, RevokeToken, Expire, PurgeDeadToken, SetToken
  <2> QED  BY <1>4, <2>1, LapsesWithdraw, WithdrawsIsAFenceStep, WithdrawsKeepsMeaning
<1>5. ASSUME NEW c \in Code, ExpireCode(c)
      PROVE  Fence!FenceNext /\ MeaningInv'
  <2>1. UNCHANGED <<user, tokens, op, writes, history>>
        BY <1>5 DEF ExpireCode
  <2> QED  BY <2>1, SameTokensWithdraw, WithdrawsIsAFenceStep, WithdrawsKeepsMeaning
<1> QED  BY <1>1, <1>2, <1>3, <1>4, <1>5 DEF Next, Run

\* Every interleaving of an account's requests is, seen through its committed
\* rows, a sequence of atomic grants, withdrawals, rotations and evictions: row
\* lock and generation fence (internal/user/access_tokens.go) hide the rest.
THEOREM CredentialsAreFenced == Spec => AccountIsFenced
<1>1. Init => Fence!FenceInit /\ MeaningInv
  <2> SUFFICES ASSUME Init PROVE Fence!FenceInit /\ MeaningInv
      OBVIOUS
  <2>1. Unrevoked = {}
        BY DEF Init, Unrevoked, NoToken
  <2>2. Sessions = {}
        BY <2>1 DEF Sessions
  <2>3. user.generation = 0 /\ history.evicted = 0
        BY DEF Init
  <2>4. MeaningInv
        BY DEF Init, MeaningInv
  <2> QED  BY <2>1, <2>2, <2>3, <2>4 DEF Fence!FenceInit
<1>2. SafetyInv /\ MeaningInv /\ [Next]_vars =>
        MeaningInv' /\ [Fence!FenceNext]_(Fence!fenceVars)
  <2> SUFFICES ASSUME SafetyInv, MeaningInv, UNCHANGED vars
               PROVE  MeaningInv' /\ UNCHANGED Fence!fenceVars
      BY StepIsAFenceStep
  <2>1. UNCHANGED <<user, tokens, op, writes, history>>
        BY DEF vars
  <2>2. Unrevoked' = Unrevoked /\ Sessions' = Sessions
        BY <2>1 DEF Unrevoked, Sessions
  <2>3. MeaningInv'
        BY <2>1, SameTokensWithdraw, WithdrawsKeepsMeaning
  <2> QED  BY <2>1, <2>2, <2>3 DEF Fence!fenceVars
<1> QED  BY <1>1, <1>2, SafetyHolds, PTL DEF Spec, AccountIsFenced, Fence!FenceSpec
==============================================================================
