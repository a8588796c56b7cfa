----------------------------- MODULE Credentials -----------------------------
(***************************************************************************)
(* The credentials of ONE account of econumo (package internal/user): its  *)
(* users row, its access_tokens rows (sessions and personal tokens), its   *)
(* outstanding password-reset codes and its pending email change, as they  *)
(* are read and written by concurrent requests and operator commands on    *)
(* PostgreSQL at READ COMMITTED.                                           *)
(*                                                                         *)
(* A request reads its evidence outside any transaction (the row whose     *)
(* password it verified, the code it was sent), then runs one transaction  *)
(* that first takes the users-row lock, evaluates its fences on what is    *)
(* committed, buffers its writes, and commits them at once.  Statements    *)
(* that the code runs outside a transaction are single steps of their own. *)
(* SQLite has one writer at a time, so its behaviours are among these.     *)
(***************************************************************************)
EXTENDS Integers, FiniteSets

CONSTANTS
    Proc,           \* requests and operator commands in flight
    Token,          \* ids of access_tokens rows
    Code,           \* codes of reset and email-change requests
    Email,          \* normalized addresses this account may have
    Operations,     \* the entry points in use, a subset of AllOperations
    MaxGeneration   \* bound on credentials_generation

Reclaiming == {"ResetPassword", "AdminChangePassword"}
Rotating   == Reclaiming \cup {"UpdatePassword"}
Evicting   == Reclaiming \cup {"AdminDeactivate"}
Bumping    == Rotating \cup {"AdminDeactivate"}

\* Entry points that need an authenticated caller, and those that do not.
Authenticated == {"UpdatePassword", "CreatePersonalToken", "RequestEmailChange",
                  "ResendEmailChangeCode", "ConfirmEmailChange", "RevokeOtherSessions"}
Anonymous     == {"Login", "RemindPassword", "ResetPassword"}
Operator      == {"AdminChangePassword", "AdminDeactivate", "AdminActivate",
                  "AdminChangeEmail", "AdminSetAccess"}
AllOperations == Authenticated \cup Anonymous \cup Operator

ASSUME OperationsAssumption == Operations \subseteq AllOperations
ASSUME GenerationAssumption == MaxGeneration \in Nat

VARIABLES
    user,       \* the committed users row
    tokens,     \* the committed access_tokens rows
    resets,     \* the committed users_password_requests rows
    changes,    \* the committed users_email_change_requests rows
    pc,         \* where each request stands
    op,         \* the entry point it runs
    seen,       \* what it read outside its transaction
    writes,     \* what its open transaction will commit: {} or one write set
    history     \* generations of the latest rotation and the latest eviction

vars == <<user, tokens, resets, changes, pc, op, seen, writes, history>>

------------------------------------------------------------------------------
(* Rows *)

\* A password is identified by the generation it was set at: no two passwords
\* of the account share one.  The hash algorithm is kept only as far as the
\* code distinguishes a legacy hash from an argon2id one.
UserRow == [password : Nat, legacy : BOOLEAN, active : BOOLEAN,
            generation : Nat, email : Email]

\* since: the generation the row's authority goes back to (not a column).
TokenRow == [state : {"absent", "live", "expired", "revoked"},
             kind : {"session", "personal"}, since : Nat]

\* to: the address the code was mailed to.  verified: the generation at which
\* the caller who asked for it was last verified by password.  by: the handler
\* that wrote the row.  Neither is a column.
RequestRow == [id : Code, to : Email, fresh : BOOLEAN, verified : Nat,
               by : {"RemindPassword", "RequestEmailChange", "ResendEmailChangeCode"}]

\* as: the presenting token; row, code, pending: rows read before the lock;
\* to: the address a change asks for.  Each is {} when nothing was read.
Seen == [as : SUBSET Token, row : SUBSET UserRow, code : SUBSET RequestRow,
         pending : SUBSET RequestRow, to : SUBSET Email]

WriteSet == [user : UserRow, resets : SUBSET RequestRow, changes : SUBSET RequestRow,
             sweep : SUBSET Token, mint : SUBSET Token, minted : TokenRow]

Nothing  == [as |-> {}, row |-> {}, code |-> {}, pending |-> {}, to |-> {}]
NoToken  == [state |-> "absent", kind |-> "session", since |-> 0]

Unrevoked == {t \in Token : tokens[t].state \in {"live", "expired"}}
Sessions  == {t \in Unrevoked : tokens[t].kind = "session"}

\* Ids are drawn afresh by vo.NewId: never one a row or a request still holds.
FreshToken == {t \in Token : tokens[t].state = "absent" /\ \A q \in Proc : t \notin seen[q].as}
FreshCode  == {c \in Code : /\ \A r \in resets \cup changes : r.id # c
                            /\ \A q \in Proc : \A r \in seen[q].code \cup seen[q].pending : r.id # c}

------------------------------------------------------------------------------
(* The users-row lock and the transaction around it *)

Holding(q) == pc[q] \in {"body", "commit"}

RowLocked == \E q \in Proc : Holding(q)

\* Token rows an open transaction has updated stay locked until it commits.
Swept(t) == \E q \in Proc : \E w \in writes[q] : t \in w.sweep

\* Mutant: the transaction does not take the row lock first.
LockRowNotTaken(p) ==
    /\ pc[p] = "lock"
    /\ pc' = [pc EXCEPT ![p] = "body"]
    /\ UNCHANGED <<user, tokens, resets, changes, op, seen, writes, history>>

\* LockRow: waits for the transaction that holds the row, then owns it.
LockRow(p) ==
    /\ pc[p] = "lock"
    /\ ~RowLocked
    /\ pc' = [pc EXCEPT ![p] = "body"]
    /\ UNCHANGED <<user, tokens, resets, changes, op, seen, writes, history>>

Buffer(p, w) ==
    /\ writes' = [writes EXCEPT ![p] = {w}]
    /\ pc' = [pc EXCEPT ![p] = "commit"]
    /\ UNCHANGED <<user, tokens, resets, changes, op, seen, history>>

\* The write set that changes nothing; each body overrides what it writes.
Same == [user |-> user, resets |-> resets, changes |-> changes,
         sweep |-> {}, mint |-> {}, minted |-> NoToken]

\* The request is over; its transaction, if any, is closed.
Finish(p) ==
    /\ pc' = [pc EXCEPT ![p] = "idle"]
    /\ op' = [op EXCEPT ![p] = "none"]
    /\ seen' = [seen EXCEPT ![p] = Nothing]
    /\ writes' = [writes EXCEPT ![p] = {}]

\* A transaction's writes become visible together.  A confirmed email change
\* goes on to revoke sessions outside the transaction; everything else is done.
Commit(p) ==
    /\ pc[p] = "commit"
    /\ \E w \in writes[p] :
        /\ user' = w.user
        /\ resets' = w.resets
        /\ changes' = w.changes
        /\ tokens' = [t \in Token |->
                        IF t \in w.sweep THEN [tokens[t] EXCEPT !.state = "revoked"]
                        ELSE IF t \in w.mint THEN w.minted
                        ELSE tokens[t]]
        /\ history' = [rotated |-> IF op[p] \in Rotating THEN w.user.generation ELSE history.rotated,
                       evicted |-> IF op[p] \in Evicting THEN w.user.generation ELSE history.evicted]
    /\ IF op[p] = "ConfirmEmailChange"
       THEN /\ pc' = [pc EXCEPT ![p] = "revoke"]
            /\ writes' = [writes EXCEPT ![p] = {}]
            /\ UNCHANGED <<op, seen>>
       ELSE Finish(p)

\* The handler returns an error: a check failed, a fence matched no row, or a
\* statement did.  An open transaction is rolled back.
Reject(p) ==
    /\ pc[p] \in {"authenticated", "reread", "body"}
    /\ Finish(p)
    /\ UNCHANGED <<user, tokens, resets, changes, history>>

\* The server goes down or the client's context is cancelled, anywhere.
Crash(p) ==
    /\ pc[p] # "idle"
    /\ Finish(p)
    /\ UNCHANGED <<user, tokens, resets, changes, history>>

------------------------------------------------------------------------------
(* Before the transaction: evidence read on its own *)

Start(p, o, where, s) ==
    /\ pc[p] = "idle"
    /\ o \in Operations
    /\ pc' = [pc EXCEPT ![p] = where]
    /\ op' = [op EXCEPT ![p] = o]
    /\ seen' = [seen EXCEPT ![p] = s]
    /\ UNCHANGED <<user, tokens, resets, changes, writes, history>>

\* Login has read an active row and verified the password against it.
Login(p) ==
    /\ user.active
    /\ Start(p, "Login", "lock", [Nothing EXCEPT !.row = {user}])

\* Mutant: the rehash is not fenced on the generation.
RehashUnfenced(p) ==
    /\ pc[p] = "lock" /\ op[p] = "Login"
    /\ ~RowLocked
    /\ \E row \in seen[p].row :
        /\ row.legacy
        /\ user' = [user EXCEPT !.password = row.password, !.legacy = FALSE]
        /\ seen' = [seen EXCEPT ![p].row = {[row EXCEPT !.legacy = FALSE]}]
    /\ UNCHANGED <<tokens, resets, changes, pc, op, writes, history>>

\* rehashLegacyPassword: one UPDATE fenced on the generation that was read; it
\* waits for the row like any other UPDATE, and its failure is swallowed.
RehashLegacyPassword(p) ==
    /\ pc[p] = "lock" /\ op[p] = "Login"
    /\ ~RowLocked
    /\ \E row \in seen[p].row :
        /\ row.legacy
        /\ user' = IF user.generation = row.generation
                   THEN [user EXCEPT !.password = row.password, !.legacy = FALSE]
                   ELSE user
        /\ seen' = [seen EXCEPT ![p].row = {[row EXCEPT !.legacy = FALSE]}]
    /\ UNCHANGED <<tokens, resets, changes, pc, op, writes, history>>

\* The account was found by email; the code is written (and mailed) later.
RemindPassword(p) == Start(p, "RemindPassword", "lock", [Nothing EXCEPT !.row = {user}])

\* The account was found by email and holds the unexpired code presented.
ResetPassword(p) ==
    \E r \in resets :
        /\ r.fresh
        /\ Start(p, "ResetPassword", "lock", [Nothing EXCEPT !.row = {user}, !.code = {r}])

\* The operator's commands and mutate: the account was found by email or id.
Mutate(p) == \E o \in Operator : Start(p, o, "lock", [Nothing EXCEPT !.row = {user}])

\* Authenticate accepts a live token; a token not used for a while is touched.
Authenticate(p) ==
    \E t \in Token, o \in Authenticated, where \in {"touch", "authenticated"} :
        /\ tokens[t].state = "live"
        /\ Start(p, o, where, [Nothing EXCEPT !.as = {t}])

\* Mutant: a touch that matches no row is waited out instead of refused.
TouchUnanswered(p) ==
    /\ pc[p] = "touch"
    /\ \E t \in seen[p].as :
        /\ t \in Unrevoked
        /\ ~Swept(t)
        /\ tokens' = IF tokens[t].kind = "session"
                     THEN [tokens EXCEPT ![t].state = "live"] ELSE tokens
    /\ pc' = [pc EXCEPT ![p] = "authenticated"]
    /\ UNCHANGED <<user, resets, changes, op, seen, writes, history>>

\* Touch: slides a session's expiry; no unrevoked row to touch is a 401.
Touch(p) ==
    /\ pc[p] = "touch"
    /\ \E t \in seen[p].as :
        /\ ~Swept(t)
        /\ IF t \in Unrevoked
           THEN /\ pc' = [pc EXCEPT ![p] = "authenticated"]
                /\ tokens' = IF tokens[t].kind = "session"
                             THEN [tokens EXCEPT ![t].state = "live"] ELSE tokens
                /\ UNCHANGED <<op, seen, writes>>
           ELSE Finish(p) /\ UNCHANGED tokens
    /\ UNCHANGED <<user, resets, changes, history>>

Read(p, where, s) ==
    /\ seen' = [seen EXCEPT ![p] = s]
    /\ pc' = [pc EXCEPT ![p] = where]
    /\ UNCHANGED <<user, tokens, resets, changes, op, writes, history>>

\* UpdatePassword has read the row and verified the old password against it.
CheckOldPassword(p) ==
    /\ pc[p] = "authenticated" /\ op[p] = "UpdatePassword"
    /\ Read(p, "lock", [seen[p] EXCEPT !.row = {user}])

\* RequestEmailChange likewise, for a new address.
CheckEmailChange(p) ==
    /\ pc[p] = "authenticated" /\ op[p] = "RequestEmailChange"
    /\ \E e \in Email \ {user.email} :
        Read(p, "lock", [seen[p] EXCEPT !.row = {user}, !.to = {e}])

\* A personal token is fenced on the presenting token alone: nothing is read.
PreparePersonalToken(p) ==
    /\ pc[p] = "authenticated" /\ op[p] = "CreatePersonalToken"
    /\ Read(p, "lock", seen[p])

\* ConfirmEmailChange finds the pending row by user and matches the code.
MatchPendingChange(p) ==
    /\ pc[p] = "authenticated" /\ op[p] = "ConfirmEmailChange"
    /\ \E r \in changes : r.fresh /\ Read(p, "lock", [seen[p] EXCEPT !.pending = {r}])

\* ResendEmailChangeCode reads the pending row, and only then the users row.
ReadPendingChange(p) ==
    /\ pc[p] = "authenticated" /\ op[p] = "ResendEmailChangeCode"
    /\ \E r \in changes : Read(p, "reread", [seen[p] EXCEPT !.pending = {r}, !.to = {r.to}])

RereadUser(p) ==
    /\ pc[p] = "reread" /\ op[p] = "ResendEmailChangeCode"
    /\ Read(p, "lock", [seen[p] EXCEPT !.row = {user}])

------------------------------------------------------------------------------
(* Inside the transaction, under the row lock *)

In(p, o) == pc[p] = "body" /\ op[p] = o

Fenced(p) == \E row \in seen[p].row : row.generation = user.generation

Bump(u) == [u EXCEPT !.generation = @ + 1]

\* The new password is written and the generation moves past it at once.
SetPassword(u) == [u EXCEPT !.password = u.generation + 1, !.legacy = FALSE]

CanBump == user.generation < MaxGeneration

\* Mutant: the session insert is not fenced on the generation.
CreateSessionUnfenced(p) ==
    /\ In(p, "Login")
    /\ \E row \in seen[p].row, t \in FreshToken :
        Buffer(p, [Same EXCEPT !.mint = {t},
                     !.minted = [state |-> "live", kind |-> "session", since |-> row.generation]])

\* createSession: InsertIfGeneration under the generation the login read.
CreateSession(p) ==
    /\ In(p, "Login")
    /\ \E row \in seen[p].row, t \in FreshToken :
        /\ row.generation = user.generation
        /\ Buffer(p, [Same EXCEPT !.mint = {t},
                        !.minted = [state |-> "live", kind |-> "session", since |-> row.generation]])

\* Mutant: the presenting token is not looked at again.
CreatePersonalTokenUnfenced(p) ==
    /\ In(p, "CreatePersonalToken")
    /\ \E a \in seen[p].as, t \in FreshToken :
        Buffer(p, [Same EXCEPT !.mint = {t},
                     !.minted = [state |-> "live", kind |-> "personal", since |-> tokens[a].since]])

\* InsertIfPresenterLive: the presenting row must still be unrevoked.
CreatePersonalToken(p) ==
    /\ In(p, "CreatePersonalToken")
    /\ \E a \in seen[p].as, t \in FreshToken :
        /\ a \in Unrevoked
        /\ Buffer(p, [Same EXCEPT !.mint = {t},
                        !.minted = [state |-> "live", kind |-> "personal", since |-> tokens[a].since]])

\* A new code replaces every earlier one, and goes to the address read before.
IssueResetCode(p) ==
    /\ In(p, "RemindPassword")
    /\ \E row \in seen[p].row, c \in FreshCode :
        Buffer(p, [Same EXCEPT !.resets =
            {[id |-> c, to |-> row.email, fresh |-> TRUE, verified |-> row.generation,
              by |-> "RemindPassword"]}])

\* Mutant: only tokens that would still authenticate are swept.
ReclaimLiveOnly(p, u) ==
    Buffer(p, [Same EXCEPT !.user = Bump(u), !.resets = {}, !.changes = {},
                 !.sweep = {t \in Unrevoked : tokens[t].state = "live"}])

\* reclaimCredentials, after the caller has put the new password in u.
Reclaim(p, u) ==
    Buffer(p, [Same EXCEPT !.user = Bump(u), !.resets = {}, !.changes = {}, !.sweep = Unrevoked])

\* Mutant: the code read before the lock is trusted.
CompleteResetStale(p) ==
    /\ In(p, "ResetPassword")
    /\ CanBump
    /\ \E row \in seen[p].row : row.email = user.email
    /\ Reclaim(p, SetPassword(user))

\* The row and the code are read again: the address must be the one the code
\* was presented for, the code outstanding and unexpired.
CompleteReset(p) ==
    /\ In(p, "ResetPassword")
    /\ CanBump
    /\ \E row \in seen[p].row : row.email = user.email
    /\ \E c \in seen[p].code, held \in resets : held.id = c.id /\ held.fresh
    /\ Reclaim(p, SetPassword(user))

AdminChangePassword(p) ==
    /\ In(p, "AdminChangePassword")
    /\ CanBump
    /\ Reclaim(p, SetPassword(user))

\* Mutant: deactivation sweeps without moving the generation.
AdminDeactivateUnbumped(p) ==
    /\ In(p, "AdminDeactivate")
    /\ CanBump
    /\ Buffer(p, [Same EXCEPT !.user = [user EXCEPT !.active = FALSE], !.sweep = Unrevoked])

\* Every credential goes, outstanding requests stay: deactivation is reversible.
AdminDeactivate(p) ==
    /\ In(p, "AdminDeactivate")
    /\ CanBump
    /\ Buffer(p, [Same EXCEPT !.user = Bump([user EXCEPT !.active = FALSE]), !.sweep = Unrevoked])

\* Whole-aggregate saves of the row read under the lock.  A save that touches
\* no credential column stands for AdminSetAccess, AdminVerifyEmail and mutate.
AdminActivate(p) ==
    In(p, "AdminActivate") /\ Buffer(p, [Same EXCEPT !.user = [user EXCEPT !.active = TRUE]])

AdminChangeEmail(p) ==
    /\ In(p, "AdminChangeEmail")
    /\ \E e \in Email : Buffer(p, [Same EXCEPT !.user = [user EXCEPT !.email = e]])

\* Mutant: the aggregate saved is the one read before the lock.
SaveProfileStale(p) ==
    /\ In(p, "AdminSetAccess")
    /\ \E row \in seen[p].row :
        Buffer(p, [Same EXCEPT !.user = [row EXCEPT !.generation = user.generation]])

SaveProfile(p) ==
    In(p, "AdminSetAccess") /\ Buffer(p, [Same EXCEPT !.user = user])

\* UpdatePasswordIfGeneration, then everything that rests on the old password
\* goes, except the presenting session and the personal tokens.
UpdatePassword(p) ==
    /\ In(p, "UpdatePassword")
    /\ CanBump
    /\ Fenced(p)
    /\ Buffer(p, [Same EXCEPT !.user = Bump(SetPassword(user)), !.resets = {}, !.changes = {},
                    !.sweep = Sessions \ seen[p].as])

\* Mutant: the pending row is written whatever generation the caller read.
IssueEmailChangeCodeUnfenced(p) ==
    /\ pc[p] = "body" /\ op[p] \in {"RequestEmailChange", "ResendEmailChangeCode"}
    /\ \E e \in seen[p].to, c \in FreshCode, row \in seen[p].row :
        Buffer(p, [Same EXCEPT !.changes =
            {[id |-> c, to |-> e, fresh |-> TRUE, verified |-> row.generation, by |-> op[p]]}])

\* issueEmailChangeCode: replaces the pending row, fenced on the generation of
\* the row the caller read.  The evidence behind a resend is that of the row it
\* re-sends; behind a request it is the password just verified.
IssueEmailChangeCode(p) ==
    /\ pc[p] = "body" /\ op[p] \in {"RequestEmailChange", "ResendEmailChangeCode"}
    /\ Fenced(p)
    /\ \E e \in seen[p].to, c \in FreshCode, row \in seen[p].row :
        LET evidence == IF op[p] = "RequestEmailChange" THEN {row.generation}
                        ELSE {r.verified : r \in seen[p].pending}
        IN \E g \in evidence :
            Buffer(p, [Same EXCEPT !.changes =
                {[id |-> c, to |-> e, fresh |-> TRUE, verified |-> g, by |-> op[p]]}])

\* Mutant: the pending row is deleted but the count is not looked at.
ConfirmEmailChangeUncounted(p) ==
    /\ In(p, "ConfirmEmailChange")
    /\ \E cr \in seen[p].pending :
        Buffer(p, [Same EXCEPT !.user = [user EXCEPT !.email = cr.to],
                     !.changes = {r \in changes : r.id # cr.id}])

\* Consume, then ReplaceEmailIfGeneration under the generation just read: the
\* row consumed is the authority for the address written.
ConfirmEmailChange(p) ==
    /\ In(p, "ConfirmEmailChange")
    /\ \E cr \in seen[p].pending :
        /\ \E r \in changes : r.id = cr.id
        /\ Buffer(p, [Same EXCEPT !.user = [user EXCEPT !.email = cr.to],
                        !.changes = {r \in changes : r.id # cr.id}])

------------------------------------------------------------------------------
(* Statements of their own *)

\* revokeSessions: RevokeOtherSessions, and the end of ConfirmEmailChange.
RevokeSessions(p) ==
    /\ \/ pc[p] = "authenticated" /\ op[p] = "RevokeOtherSessions"
       \/ pc[p] = "revoke"
    /\ \A t \in Sessions \ seen[p].as : ~Swept(t)
    /\ tokens' = [t \in Token |-> IF t \in Sessions \ seen[p].as
                                  THEN [tokens[t] EXCEPT !.state = "revoked"] ELSE tokens[t]]
    /\ Finish(p)
    /\ UNCHANGED <<user, resets, changes, history>>

SetToken(t, row) ==
    /\ ~Swept(t)
    /\ tokens' = [tokens EXCEPT ![t] = row]
    /\ UNCHANGED <<user, resets, changes, pc, op, seen, writes, history>>

\* RevokeSession, RevokePersonalToken and Logout: one row, by its id.
RevokeToken(t) == t \in Unrevoked /\ SetToken(t, [tokens[t] EXCEPT !.state = "revoked"])

Expire(t) == tokens[t].state = "live" /\ SetToken(t, [tokens[t] EXCEPT !.state = "expired"])

\* purgeDeadTokens and PurgeDeadTokens: a dead row past its retention.
PurgeDeadToken(t) == tokens[t].state \in {"expired", "revoked"} /\ SetToken(t, NoToken)

\* A code lapses ten minutes after it was issued.  Its expiry is compared when
\* the row is read, so nothing is lost by letting it pass outside transactions.
ExpireCode(c) ==
    /\ \E r \in resets \cup changes : r.id = c /\ r.fresh
    /\ ~RowLocked
    /\ LET lapse(S) == {[r EXCEPT !.fresh = @ /\ r.id # c] : r \in S}
       IN resets' = lapse(resets) /\ changes' = lapse(changes)
    /\ UNCHANGED <<user, tokens, pc, op, seen, writes, history>>

------------------------------------------------------------------------------
(* The specification *)

Init ==
    /\ \E legacy \in BOOLEAN, email \in Email :
        user = [password |-> 0, legacy |-> legacy, active |-> TRUE,
                generation |-> 0, email |-> email]
    /\ tokens = [t \in Token |-> NoToken]
    /\ resets = {}
    /\ changes = {}
    /\ pc = [p \in Proc |-> "idle"]
    /\ op = [p \in Proc |-> "none"]
    /\ seen = [p \in Proc |-> Nothing]
    /\ writes = [p \in Proc |-> {}]
    /\ history = [rotated |-> 0, evicted |-> 0]

Arrive(p) == \/ Login(p) \/ RemindPassword(p) \/ ResetPassword(p) \/ Mutate(p) \/ Authenticate(p)

Evidence(p) == \/ CheckOldPassword(p) \/ CheckEmailChange(p) \/ PreparePersonalToken(p)
               \/ MatchPendingChange(p) \/ ReadPendingChange(p) \/ RereadUser(p)

Body(p) == \/ CreateSession(p) \/ CreatePersonalToken(p) \/ IssueResetCode(p)
           \/ CompleteReset(p) \/ AdminChangePassword(p) \/ AdminDeactivate(p)
           \/ AdminActivate(p) \/ AdminChangeEmail(p) \/ SaveProfile(p)
           \/ UpdatePassword(p) \/ IssueEmailChangeCode(p) \/ ConfirmEmailChange(p)

\* Steps that may have to wait for a row another transaction holds.
Wait(p) == LockRow(p) \/ RehashLegacyPassword(p) \/ Touch(p) \/ RevokeSessions(p)

Run(p) == \/ Evidence(p) \/ Body(p) \/ Commit(p) \/ Reject(p)

Lapse(t) == RevokeToken(t) \/ Expire(t) \/ PurgeDeadToken(t)

Next == \/ \E p \in Proc : Arrive(p) \/ Wait(p) \/ Run(p) \/ Crash(p)
        \/ \E t \in Token : Lapse(t)
        \/ \E c \in Code : ExpireCode(c)

Spec == Init /\ [][Next]_vars

\* The server schedules every running request, and PostgreSQL queues waiters
\* for a row, so one that keeps being woken gets it.  Nobody has to arrive,
\* and nothing has to crash.
Fairness == \A p \in Proc : WF_vars(Run(p)) /\ SF_vars(Wait(p))

FairSpec == Spec /\ Fairness

------------------------------------------------------------------------------
(* Properties *)

\* Every variable has its type.
TypeOK ==
    /\ user \in UserRow
    /\ tokens \in [Token -> TokenRow]
    /\ resets \subseteq RequestRow
    /\ changes \subseteq RequestRow
    /\ pc \in [Proc -> {"idle", "touch", "authenticated", "reread", "lock", "body", "commit", "revoke"}]
    /\ op \in [Proc -> AllOperations \cup {"none"}]
    /\ seen \in [Proc -> Seen]
    /\ writes \in [Proc -> SUBSET WriteSet]
    /\ history \in [rotated : Nat, evicted : Nat]

\* reclaimCredentials and AdminDeactivate leave no way in behind them: an
\* unrevoked token's authority never goes back past the latest of them, however
\* a login, a token creation or a touch was interleaved with its sweep.
NoCredentialOutlivesEviction ==
    \A t \in Unrevoked : tokens[t].since >= history.evicted

\* UpdatePassword signs out every session but the presenting one: of the
\* sessions minted before the current generation at most one is unrevoked,
\* those whose insert raced the change included.
AtMostOneSurvivor ==
    \A s, t \in Sessions :
        tokens[s].since < user.generation /\ tokens[t].since < user.generation => s = t

\* Requests are authenticated without looking at is_active (admin.go): a
\* deactivated account must simply have no unrevoked token left.
InactiveHoldsNoToken == ~user.active => Unrevoked = {}

\* The password in the row is the one set last: neither a whole-aggregate save
\* nor the login-time rehash brings an earlier one back.
PasswordIsTheLatestSet == user.password = history.rotated

\* A pending email change asked for under a password does not outlive that
\* password (issueEmailChangeCode's fence, and the deletes of each rotation).
RequestedChangeIsFenced ==
    \A r \in changes : r.by = "RequestEmailChange" => r.verified >= history.rotated

\* The same, of every pending row, whichever handler wrote it.
PendingChangeIsFenced == \A r \in changes : r.verified >= history.rotated

Commits(p, o) == op[p] = o /\ Commit(p)

\* A reset succeeds only by taking the very code it presented, still unreplaced
\* and untaken when it commits, and for the address it presented it for: two
\* resets cannot share a code and a newer remind defeats an older code.
ResetTakesItsCode ==
    [][\A p \in Proc : Commits(p, "ResetPassword") =>
        /\ \E c \in seen[p].code : (\E r \in resets : r.id = c.id) /\ \A r \in resets' : r.id # c.id
        /\ \A row \in seen[p].row : row.email = user.email /\ user'.email = user.email]_vars

\* The address moves only by taking the pending row that was matched, still
\* there at commit, and to that row's address.
ConfirmTakesItsGrant ==
    [][\A p \in Proc : Commits(p, "ConfirmEmailChange") =>
        \E cr \in seen[p].pending : /\ \E r \in changes : r.id = cr.id /\ r.to = user'.email
                                    /\ \A r \in changes' : r.id # cr.id]_vars

\* Every request ends: no wait for the row lock or for a swept token row is
\* for ever, and no handler is left without a way out.
EveryRequestEnds == \A p \in Proc : pc[p] # "idle" ~> pc[p] = "idle"

------------------------------------------------------------------------------
(* The promise kept: locks, fences and buffered writes hidden *)

Fence == INSTANCE CredentialFence WITH
    generation <- user.generation,
    evicted    <- history.evicted,
    valid      <- Unrevoked,
    session    <- Sessions,
    since      <- [t \in Token |-> IF t \in Unrevoked THEN tokens[t].since ELSE 0]

\* Seen through its committed rows alone, every interleaving of this account's
\* requests is a sequence of atomic grants, revocations, rotations and
\* evictions: what a body computed is still right when it commits.
AccountIsFenced == Fence!FenceSpec

==============================================================================
