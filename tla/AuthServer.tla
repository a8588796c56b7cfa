------------------------------ MODULE AuthServer ------------------------------
(***************************************************************************)
(* The authorization server through which MCP clients connect to ONE       *)
(* account (package internal/authserver): registered clients, one-time     *)
(* authorization codes, grants with rotating refresh tokens, and the       *)
(* access tokens issued for them, under concurrent requests and a reclaim. *)
(*                                                                         *)
(* Reads that precede a transaction, ConsumeCode and the purges are single *)
(* steps.  A transaction takes the users-row lock, evaluates its           *)
(* statements on what is committed, and makes its writes visible at once.  *)
(***************************************************************************)
EXTENDS Integers, FiniteSets

CONSTANTS
    Proc,           \* requests in flight
    Client,         \* ids of oauth_clients rows
    Code,           \* authorization codes
    Grant,          \* ids of oauth_grants rows
    Operations,     \* the entry points in use, a subset of AllOperations
    Grace,          \* RefreshGrace, in ticks
    MaxTime,        \* bound on the clock
    MaxIssued,      \* bound on the refresh tokens of a grant
    MaxGeneration   \* bound on credentials_generation

AllOperations == {"Approve", "Exchange", "Refresh", "Disconnect", "Reclaim"}

ASSUME OperationsAssumption == Operations \subseteq AllOperations
ASSUME BoundsAssumption == {Grace, MaxTime, MaxIssued, MaxGeneration} \subseteq Nat

VARIABLES
    account,    \* the generation, that of the latest reclaim, and the live sessions
    clients,    \* the committed oauth_clients rows
    codes,      \* the committed, unexpired oauth_authorization_codes rows
    grants,     \* the committed oauth_grants rows
    spent,      \* the committed oauth_refresh_tokens_spent rows
    access,     \* the access tokens neither revoked nor expired
    now,        \* the clock
    pc,         \* where each request stands
    op,         \* the entry point it runs
    seen,       \* what it read outside its transaction
    writes,     \* what its open transaction will commit: {} or one write set
    answered    \* grants one of whose stale refresh tokens was presented and answered

rows == <<account, clients, codes, grants, spent, access, now>>
vars == <<account, clients, codes, grants, spent, access, now, pc, op, seen, writes, answered>>

------------------------------------------------------------------------------
(* Rows *)

\* The n-th refresh token issued for a grant, and the access token beside it.
Token == Grant \X (0 .. MaxIssued)

\* A session is known by the generation it was minted at.
Account == [generation : Nat, evicted : Nat, sessions : SUBSET Nat]

\* since: the generation the approving session goes back to (not a column).
CodeRow == [id : Code, client : Client, generation : Nat, since : Nat]

\* idle: past its expiry.  gone: deleted.  rotatedAt is the clock the rotating
\* request read on arrival, turnedAt that of its commit.  code, since: the code
\* the grant was exchanged for, and the generation of its approving session;
\* last: the latest token issued.  The last four are not columns.
GrantRow == [state : {"absent", "live", "idle", "revoked", "gone"}, client : SUBSET Client,
             code : SUBSET Code, since : Nat, current : Nat, prev : SUBSET Nat,
             rotatedAt : Nat, turnedAt : Nat, last : Nat]

NoGrant == [state |-> "absent", client |-> {}, code |-> {}, since |-> 0,
            current |-> 0, prev |-> {}, rotatedAt |-> 0, turnedAt |-> 0, last |-> 0]

\* at: the clock when the request came in.  stale: the token it presented had
\* by then been rotated past, or rotated away for longer than the grace window;
\* valid: it was current.  Each set is {} when nothing was read.
Seen == [session : SUBSET Nat, client : SUBSET Client, code : SUBSET CodeRow,
         token : SUBSET Token, at : Nat, stale : BOOLEAN, valid : BOOLEAN]

Nothing == [session |-> {}, client |-> {}, code |-> {}, token |-> {}, at |-> 0,
            stale |-> FALSE, valid |-> FALSE]

\* A transaction inserts a code, a grant, or rotates a token away; revokes the
\* grants in close and the access tokens in sweep; moves the generation.
WriteSet == [code : SUBSET CodeRow, open : SUBSET (Grant \X GrantRow), turn : SUBSET Token,
             close : SUBSET Grant, sweep : SUBSET Token, reclaim : BOOLEAN]

Same == [code |-> {}, open |-> {}, turn |-> {}, close |-> {}, sweep |-> {}, reclaim |-> FALSE]

Unrevoked == {g \in Grant : grants[g].state \in {"live", "idle"}}

AccessOf(G) == {a \in access : a[1] \in G}

\* Ids and secrets are drawn afresh.
FreshCode == {c \in Code : /\ \A r \in codes : r.id # c
                           /\ \A g \in Grant : c \notin grants[g].code
                           /\ \A q \in Proc : \A r \in seen[q].code : r.id # c}
FreshGrant == {g \in Grant : grants[g].state = "absent"}

Elapsed(g, at) == IF at >= grants[g].rotatedAt THEN at - grants[g].rotatedAt
                  ELSE grants[g].rotatedAt - at

\* Mutant: a spent token inside the grace window is forgiven, whichever it is.
ForgivenAny(g, n, at) == Elapsed(g, at) <= Grace

\* Mutant: every spent token counts as reuse.
ForgivenNever(g, n, at) == FALSE

\* A retry or a concurrent refresh: the token rotated away most recently,
\* inside the grace window.
Forgiven(g, n, at) == n \in grants[g].prev /\ Elapsed(g, at) <= Grace

------------------------------------------------------------------------------
(* Requests *)

Holding(q) == pc[q] \in {"body", "commit"}

Start(p, o, where, s) ==
    /\ pc[p] = "idle"
    /\ o \in Operations
    /\ pc' = [pc EXCEPT ![p] = where]
    /\ op' = [op EXCEPT ![p] = o]
    /\ seen' = [seen EXCEPT ![p] = s]
    /\ UNCHANGED <<rows, writes, answered>>

Finish(p) ==
    /\ pc' = [pc EXCEPT ![p] = "idle"]
    /\ op' = [op EXCEPT ![p] = "none"]
    /\ seen' = [seen EXCEPT ![p] = Nothing]
    /\ writes' = [writes EXCEPT ![p] = {}]

\* A request that is answered, whatever the answer, has its stale token noted.
Answer(p) == answered' = answered \cup {t[1] : t \in {u \in seen[p].token : seen[p].stale}}

Go(p, where) ==
    /\ pc' = [pc EXCEPT ![p] = where]
    /\ UNCHANGED <<rows, op, seen, writes, answered>>

Refuse(p) == Finish(p) /\ Answer(p) /\ UNCHANGED rows

\* A statement or a check fails and rolls the transaction back, or the server
\* goes down: nobody is told anything.
Crash(p) == pc[p] # "idle" /\ Finish(p) /\ UNCHANGED <<rows, answered>>

\* ApproveAuthorization: the middleware accepted the session, validate found
\* the client.
Approve(p) ==
    \E s \in account.sessions, c \in Client :
        /\ clients[c] # "absent"
        /\ Start(p, "Approve", "lock", [Nothing EXCEPT !.session = {s}, !.client = {c}])

\* Mutant: the code is read and left for the transaction to delete.
ConsumeCodeLeft(p, r) == UNCHANGED codes

\* Single use: the DELETE is the read.
ConsumeCode(p, r) == codes' = codes \ {r}

\* exchange, up to its transaction.  The code burns whatever the checks say.
Exchange(p) ==
    /\ pc[p] = "idle" /\ "Exchange" \in Operations
    /\ \E r \in codes :
        /\ ConsumeCode(p, r)
        /\ pc' = [pc EXCEPT ![p] = "lock"]
        /\ op' = [op EXCEPT ![p] = "Exchange"]
        /\ seen' = [seen EXCEPT ![p] = [Nothing EXCEPT !.code = {r}]]
    /\ UNCHANGED <<account, clients, grants, spent, access, now, writes, answered>>

\* refresh: the client presents some token it was issued once.
Refresh(p) ==
    \E g \in Grant, n \in 0 .. MaxIssued :
        /\ g \in Unrevoked
        /\ n <= grants[g].last
        /\ Start(p, "Refresh", "find",
                 [Nothing EXCEPT !.token = {<<g, n>>}, !.at = now,
                    !.valid = n = grants[g].current,
                    !.stale = /\ n # grants[g].current
                              /\ n \in grants[g].prev => now - grants[g].turnedAt > Grace])

\* GetGrantByRefreshHash: a current token leads to the rotation, if its grant
\* is live; any other may be a spent one.
FindGrant(p) ==
    /\ pc[p] = "find"
    /\ \E t \in seen[p].token :
        \/ t[2] = grants[t[1]].current /\ grants[t[1]].state = "live" /\ Go(p, "lock")
        \/ t[2] = grants[t[1]].current /\ grants[t[1]].state # "live" /\ Refuse(p)
        \/ t[2] # grants[t[1]].current /\ Go(p, "findSpent")

\* handleRotatedRefresh, up to its transaction.
FindSpent(p) ==
    /\ pc[p] = "findSpent"
    /\ \E t \in seen[p].token :
        IF t \in spent /\ t[1] \in Unrevoked /\ ~Forgiven(t[1], t[2], seen[p].at)
        THEN /\ pc' = [pc EXCEPT ![p] = "lock"]
             /\ op' = [op EXCEPT ![p] = "Disconnect"]
             /\ UNCHANGED <<rows, seen, writes, answered>>
        ELSE Refuse(p)

\* RevokeConnectedApp has found an unrevoked grant of the user's.
Disconnect(p) ==
    \E g \in Unrevoked :
        Start(p, "Disconnect", "lock", [Nothing EXCEPT !.token = {<<g, grants[g].current>>}])

\* A reset, an operator's password or a deactivation.
Reclaim(p) == Start(p, "Reclaim", "lock", Nothing)

------------------------------------------------------------------------------
(* Transactions, under the users-row lock *)

\* Mutant: the users row is not locked.
LockForOAuthNotTaken(p) == pc[p] = "lock" /\ Go(p, "body")

LockForOAuth(p) == pc[p] = "lock" /\ (\A q \in Proc : ~Holding(q)) /\ Go(p, "body")

Buffer(p, w) ==
    /\ writes' = [writes EXCEPT ![p] = {w}]
    /\ pc' = [pc EXCEPT ![p] = "commit"]
    /\ UNCHANGED <<rows, op, seen, answered>>

In(p, o) == pc[p] = "body" /\ op[p] = o

\* Mutant: the session is not looked at again.
IssueCodeUnchecked(p) ==
    /\ In(p, "Approve")
    /\ \E c \in seen[p].client, s \in seen[p].session, id \in FreshCode :
        /\ clients[c] # "absent"
        /\ Buffer(p, [Same EXCEPT !.code = {[id |-> id, client |-> c, since |-> s,
                                            generation |-> account.generation]}])

\* The session must still be live, and the client's row still there for the
\* foreign key; MarkClientUsed goes with the code.
IssueCode(p) ==
    /\ In(p, "Approve")
    /\ seen[p].session \subseteq account.sessions
    /\ \E c \in seen[p].client, s \in seen[p].session, id \in FreshCode :
        /\ clients[c] # "absent"
        /\ Buffer(p, [Same EXCEPT !.code = {[id |-> id, client |-> c, since |-> s,
                                            generation |-> account.generation]}])

FirstToken(r) == [NoGrant EXCEPT !.state = "live", !.client = {r.client}, !.code = {r.id}, !.since = r.since]

Earlier(r) == {h \in Unrevoked : grants[h].client = {r.client}}

\* Mutant: the fence is the generation of the moment, not the code's.
OpenGrantUnfenced(p) ==
    /\ In(p, "Exchange")
    /\ \E r \in seen[p].code, g \in FreshGrant :
        Buffer(p, [Same EXCEPT !.open = {<<g, FirstToken(r)>>}, !.close = Earlier(r),
                     !.sweep = AccessOf(Earlier(r))])

\* InsertGrant and its first token, fenced on the generation of the approval;
\* earlier connections of the client, and their access tokens, are replaced.
OpenGrant(p) ==
    /\ In(p, "Exchange")
    /\ \E r \in seen[p].code, g \in FreshGrant :
        /\ r.generation = account.generation
        /\ Buffer(p, [Same EXCEPT !.open = {<<g, FirstToken(r)>>}, !.close = Earlier(r),
                        !.sweep = AccessOf(Earlier(r))])

\* Mutant: the rotation asks for the grant, not for the token it rotates away.
RotateGrantByIdOnly(p) ==
    /\ In(p, "Refresh")
    /\ \E t \in seen[p].token :
        /\ t[1] \in Unrevoked
        /\ grants[t[1]].last < MaxIssued
        /\ Buffer(p, [Same EXCEPT !.turn = {t}])

\* Mutant: the rotation does not ask whether the grant is revoked.
RotateGrantRevoked(p) ==
    /\ In(p, "Refresh")
    /\ \E t \in seen[p].token :
        /\ grants[t[1]].current = t[2]
        /\ grants[t[1]].last < MaxIssued
        /\ Buffer(p, [Same EXCEPT !.turn = {t}])

\* RotateGrant: the token must still be the current one of an unrevoked grant.
\* The row's expiry is not looked at again.
RotateGrant(p) ==
    /\ In(p, "Refresh")
    /\ \E t \in seen[p].token :
        /\ t[1] \in Unrevoked
        /\ grants[t[1]].current = t[2]
        /\ grants[t[1]].last < MaxIssued
        /\ Buffer(p, [Same EXCEPT !.turn = {t}])

\* revokeGrant, of a connected app or of a grant whose token was reused.
RevokeGrant(p) ==
    /\ In(p, "Disconnect")
    /\ \E t \in seen[p].token :
        Buffer(p, [Same EXCEPT !.close = Unrevoked \cap {t[1]}, !.sweep = AccessOf({t[1]})])

\* RevokeAllForUser beside the reclaim's own sweep of every access token.
RevokeAllForUser(p) ==
    /\ In(p, "Reclaim")
    /\ account.generation < MaxGeneration
    /\ Buffer(p, [Same EXCEPT !.close = Unrevoked, !.sweep = access, !.reclaim = TRUE])

\* The row a rotation leaves: a fresh current token, and a new expiry.
Turned(row, at) ==
    [row EXCEPT !.state = IF @ = "idle" THEN "live" ELSE @, !.current = row.last + 1,
       !.prev = {row.current}, !.rotatedAt = at, !.turnedAt = now, !.last = @ + 1]

Commit(p) ==
    /\ pc[p] = "commit"
    /\ \E w \in writes[p] :
        /\ account' = IF w.reclaim
                      THEN [generation |-> account.generation + 1, evicted |-> account.generation + 1,
                            sessions |-> {}]
                      ELSE account
        /\ clients' = [c \in Client |-> IF \E r \in w.code : r.client = c THEN "used" ELSE clients[c]]
        /\ codes' = codes \cup w.code
        /\ grants' = [g \in Grant |->
                        CASE \E x \in w.open : x[1] = g -> (CHOOSE x \in w.open : x[1] = g)[2]
                          [] \E t \in w.turn : t[1] = g -> Turned(grants[g], seen[p].at)
                          [] g \in w.close -> [grants[g] EXCEPT !.state = "revoked"]
                          [] OTHER -> grants[g]]
        /\ spent' = spent \cup w.turn
        /\ access' = (access \ w.sweep) \cup {<<x[1], 0>> : x \in w.open}
                                        \cup {<<t[1], grants[t[1]].last + 1>> : t \in w.turn}
    /\ Answer(p)
    /\ Finish(p)
    /\ UNCHANGED now

------------------------------------------------------------------------------
(* Statements of their own *)

\* InsertClient, at the end of Register.
InsertClient(c) ==
    /\ clients[c] = "absent"
    /\ \A q \in Proc : c \notin seen[q].client
    /\ clients' = [clients EXCEPT ![c] = "unused"]
    /\ UNCHANGED <<account, codes, grants, spent, access, now, pc, op, seen, writes, answered>>

\* Mutant: the purge goes by the row's age alone.
PurgeClientAnyway(c) ==
    /\ clients[c] # "absent"
    /\ clients' = [clients EXCEPT ![c] = "absent"]
    /\ codes' = {r \in codes : r.client # c}
    /\ grants' = [g \in Grant |-> IF grants[g].client = {c} THEN [grants[g] EXCEPT !.state = "gone"]
                                  ELSE grants[g]]
    /\ UNCHANGED <<account, spent, access, now, pc, op, seen, writes, answered>>

\* PurgeUnusedClients and PurgeExcessUnusedClients: an unused client, too old
\* or too many.  Its codes and grants would go with it (ON DELETE CASCADE); the
\* foreign key of a code being inserted makes the statement wait, then skip.
PurgeClient(c) ==
    /\ clients[c] = "unused"
    /\ \A q \in Proc : \A w \in writes[q] : \A r \in w.code : r.client # c
    /\ clients' = [clients EXCEPT ![c] = "absent"]
    /\ codes' = {r \in codes : r.client # c}
    /\ grants' = [g \in Grant |-> IF grants[g].client = {c} THEN [grants[g] EXCEPT !.state = "gone"]
                                  ELSE grants[g]]
    /\ UNCHANGED <<account, spent, access, now, pc, op, seen, writes, answered>>

\* A code lives two minutes; an expired one buys nothing and is purged.
ExpireCode(r) ==
    /\ codes' = codes \ {r}
    /\ UNCHANGED <<account, clients, grants, spent, access, now, pc, op, seen, writes, answered>>

\* A grant not refreshed for GrantIdleTTL; its access tokens are long expired.
ExpireGrant(g) ==
    /\ grants[g].state = "live"
    /\ ~\E q \in Proc : Holding(q)
    /\ grants' = [grants EXCEPT ![g].state = "idle"]
    /\ access' = access \ AccessOf({g})
    /\ UNCHANGED <<account, clients, codes, spent, now, pc, op, seen, writes, answered>>

\* housekeeping: a grant dead for DeadRetention goes, and its spent tokens with
\* it.  No request takes that long.
DeleteDeadGrant(g) ==
    /\ grants[g].state \in {"idle", "revoked"}
    /\ \A q \in Proc : \A t \in seen[q].token : t[1] # g
    /\ ~\E q \in Proc : Holding(q)
    /\ grants' = [grants EXCEPT ![g].state = "gone"]
    /\ spent' = {t \in spent : t[1] # g}
    /\ UNCHANGED <<account, clients, codes, access, now, pc, op, seen, writes, answered>>

\* The owner signs in again, or out.
Sign ==
    /\ ~\E q \in Proc : Holding(q)
    /\ account' \in {[account EXCEPT !.sessions = @ \cup {account.generation}],
                     [account EXCEPT !.sessions = {}]}
    /\ UNCHANGED <<clients, codes, grants, spent, access, now, pc, op, seen, writes, answered>>

Tick ==
    /\ now < MaxTime
    /\ now' = now + 1
    /\ UNCHANGED <<account, clients, codes, grants, spent, access, pc, op, seen, writes, answered>>

------------------------------------------------------------------------------
(* The specification *)

Init ==
    /\ account = [generation |-> 0, evicted |-> 0, sessions |-> {}]
    /\ clients = [c \in Client |-> "absent"]
    /\ codes = {} /\ spent = {} /\ access = {} /\ answered = {}
    /\ grants = [g \in Grant |-> NoGrant]
    /\ now = 0
    /\ pc = [p \in Proc |-> "idle"]
    /\ op = [p \in Proc |-> "none"]
    /\ seen = [p \in Proc |-> Nothing]
    /\ writes = [p \in Proc |-> {}]

Arrive(p) == Approve(p) \/ Exchange(p) \/ Refresh(p) \/ Disconnect(p) \/ Reclaim(p)

Body(p) == IssueCode(p) \/ OpenGrant(p) \/ RotateGrant(p) \/ RevokeGrant(p) \/ RevokeAllForUser(p)

\* A fence that matched no row is answered with an error and rolled back.
Reject(p) == pc[p] = "body" /\ op[p] \notin {"Disconnect", "Reclaim"} /\ Refuse(p)

Run(p) == FindGrant(p) \/ FindSpent(p) \/ LockForOAuth(p) \/ Body(p) \/ Commit(p) \/ Reject(p)

Purge == \/ \E c \in Client : InsertClient(c) \/ PurgeClient(c)
         \/ \E r \in codes : ExpireCode(r)
         \/ \E g \in Grant : ExpireGrant(g) \/ DeleteDeadGrant(g)

Next == \/ \E p \in Proc : Arrive(p) \/ Run(p) \/ Crash(p)
        \/ Purge \/ Sign \/ Tick

Spec == Init /\ [][Next]_vars

------------------------------------------------------------------------------
(* Properties *)

\* Every variable has its type.
TypeOK ==
    /\ account \in Account
    /\ clients \in [Client -> {"absent", "unused", "used"}]
    /\ codes \subseteq CodeRow
    /\ grants \in [Grant -> GrantRow]
    /\ spent \subseteq Token /\ access \subseteq Token
    /\ now \in Nat
    /\ pc \in [Proc -> {"idle", "find", "findSpent", "lock", "body", "commit"}]
    /\ op \in [Proc -> AllOperations \cup {"none"}]
    /\ seen \in [Proc -> Seen]
    /\ writes \in [Proc -> SUBSET WriteSet]
    /\ answered \subseteq Grant

\* An access token dies with its grant: no refresh in flight leaves one behind
\* a disconnect, a replacement, a reuse or a reclaim (revokeGrant, RevokeByGrant).
AccessDiesWithItsGrant == \A a \in access : a[1] \in Unrevoked

\* "Re-authorizing a client replaces the user's earlier connection to it":
\* two exchanges for one client do not leave two connections.
OneConnectionPerClient ==
    \A g, h \in Unrevoked : grants[g].client = grants[h].client => g = h

\* A reclaim ends every connection approved before it, and a code approved
\* before it never opens one afterwards.
NoGrantOutlivesReclaim == \A g \in Unrevoked : grants[g].since >= account.evicted

\* A code buys at most one grant, whoever presents it how often.
CodeBuysOneGrant ==
    \A g, h \in Grant : grants[g].code \cap grants[h].code # {} => g = h

\* A token that is not current and was issued for a connection still standing
\* is on record, so that its reuse will be told from an unknown token.
EveryIssuedTokenIsKnown ==
    \A g \in Unrevoked : \A n \in 0 .. grants[g].last :
        n = grants[g].current \/ <<g, n>> \in spent

\* Reuse is punished (handleRotatedRefresh): once a token that was stale when it
\* was presented has been answered, the connection is over, whatever rotated,
\* purged or was refused meanwhile.
ReuseEndsTheGrant == \A g \in answered : g \notin Unrevoked

\* A client that presents its current token keeps its connection, however many
\* of its processes do so at once, unless the token has been rotated past since,
\* or this request or the one that rotated it took longer than the grace window.
OnlyReuseEndsTheGrant ==
    [][\A p \in Proc : pc[p] = "findSpent" /\ pc'[p] = "lock" /\ seen[p].valid =>
        \E t \in seen[p].token : \/ t[2] \notin grants[t[1]].prev
                                 \/ now - seen[p].at > Grace
                                 \/ grants[t[1]].turnedAt - grants[t[1]].rotatedAt > Grace]_vars

\* The clients of codes and connections stay registered: the purge of unused
\* clients, which would cascade, never reaches one being approved.
ConnectedClientsStay ==
    /\ \A r \in codes : clients[r.client] = "used"
    /\ \A g \in Unrevoked : \A c \in grants[g].client : clients[c] = "used"

==============================================================================
