--------------------------- MODULE TransactionSync ---------------------------
(***************************************************************************)
(* How a web client keeps its copy of the transactions.  The server moves  *)
(* accounts.transactions_revision once per account and per database        *)
(* transaction (internal/infra/txrevision); the client downloads again the *)
(* accounts whose revision differs from the one it holds, and skips the    *)
(* download when a write of its own moved it by one                        *)
(* (web/src/features/transactions/revisionTracking.ts, sync.ts).           *)
(*                                                                         *)
(* One client, whose list has been synced once, against the writes of any  *)
(* other device.  The accounts it may see do not change.                   *)
(***************************************************************************)
EXTENDS Integers, FiniteSets

CONSTANTS
    Account,        \* ids of accounts, in the order of the accounts list
    Txn,            \* ids of transactions
    Own,            \* requests of this client that may be in flight at once
    Other,          \* requests of other devices that may be in flight at once
    Mixes,          \* the sets of those requests that may be made, one of them for good
    Shapes,         \* the sets of accounts a row may sit on; two for a transfer
    MayMove,        \* whether an update may put a row on other accounts
    Engine,         \* "sqlite": one connection, transactions one at a time; "postgresql"
    MaxWrites       \* bound on the writes committed

Request == Own \cup Other

ASSUME AccountAssumption == Account \subseteq Nat /\ IsFiniteSet(Account)
ASSUME ShapesAssumption == Shapes \subseteq (SUBSET Account) \ {{}}
ASSUME EngineAssumption == Engine \in {"sqlite", "postgresql"}
ASSUME RequestAssumption ==
    Own \cap Other = {} /\ IsFiniteSet(Request) /\ Mixes \subseteq SUBSET Request
ASSUME BoundsAssumption == MaxWrites \in Nat /\ MayMove \in BOOLEAN

VARIABLES
    active,     \* the requests that are made at all: who writes
    rows,       \* the committed transactions rows
    revision,   \* accounts.transactions_revision
    writes,     \* how many writes have been committed
    pc,         \* where each request stands
    req,        \* what it writes, and what it knows
    known,      \* the client: the revision of the bucket it holds of each account
    list,       \* the client: the cached list, rows with their ids
    cache,      \* the client: the revisions in its accounts list
    sync        \* the client: the run of transactionsQueryFn

server == <<active, rows, revision, writes, pc, req>>
client == <<known, list, cache, sync>>
vars == <<active, rows, revision, writes, pc, req, known, list, cache, sync>>

------------------------------------------------------------------------------
(* Rows *)

\* on: the account and the recipient, {} when there is no such row.  v tells
\* the versions of a row apart; 0 is what was there at the start.
Row == [on : SUBSET Account, v : 0 .. MaxWrites]
Item == Txn \X Row

Absent == [on |-> {}, v |-> 0]

Fresh(t) == rows[t] = Absent /\ \A q \in Request : pc[q] # "idle" => req[q].txn # t

Stored == {i \in Item : rows[i[1]] = i[2] /\ i[2].on # {}}

\* groupByAccount: a transfer sits in both its accounts' buckets.
Bucket(items, a) == {i \in items : a \in i[2].on}

\* assemble: a row that sits in two buckets comes from the first of them.  Two
\* versions in one bucket are an answer put in front of a row already synced:
\* the one in front, the older, stays.
Assemble(buckets) ==
    {i \in Item : \E a \in Account :
        /\ i \in buckets[a]
        /\ \A b \in Account : \A j \in buckets[b] : j[1] = i[1] =>
            \/ a < b
            \/ a = b /\ i[2].v <= j[2].v}

------------------------------------------------------------------------------
(* Writes *)

\* old: the row as it was read.  touched: the accounts it sat on then.  revs:
\* the revisions in the accounts list of the answer.
NoRequest == [mode |-> "none", txn |-> CHOOSE t \in Txn : TRUE, on |-> {}, old |-> Absent,
              new |-> Absent, touched |-> {}, revs |-> [a \in Account |-> 0]]

\* On SQLite no other transaction is open.  (Reads wait for it too; one in the
\* model that does not sees what it would have seen before.)
MayBegin == Engine = "sqlite" => \A q \in Request : pc[q] # "open"

\* The request opens its transaction and reads the row and the accounts it sits
\* on (GetByID, BumpWhere).  A row that is gone ends it with nothing written.
Begin(p, mode, t, on) ==
    /\ p \in active
    /\ pc[p] = "idle"
    /\ MayBegin
    /\ Cardinality({q \in Request : pc[q] = "open"}) + writes < MaxWrites
    /\ pc' = [pc EXCEPT ![p] = "open"]
    /\ req' = [req EXCEPT ![p] = [NoRequest EXCEPT !.mode = mode, !.txn = t, !.on = on,
                                    !.old = rows[t], !.touched = rows[t].on]]
    /\ UNCHANGED <<active, rows, revision, writes, client>>

Add(p) == \E t \in Txn, on \in Shapes : Fresh(t) /\ Begin(p, "add", t, on)

\* A client edits what it has listed.
Editable(p) == {t \in Txn : rows[t].on # {} /\ (p \in Own => \E i \in list : i[1] = t)}

Update(p) ==
    \E t \in Editable(p), on \in Shapes :
        (MayMove \/ on = rows[t].on) /\ Begin(p, "update", t, on)

Delete(p) == \E t \in Editable(p) : Begin(p, "delete", t, {})

\* Mutant: the accounts the row sat on are not bumped.
BumpedNewOnly(p) == req[p].on

\* The accounts queued for the bump: those the row sat on when BumpWhere read
\* them and those it is written to.
Bumped(p) == req[p].touched \cup req[p].on

\* Save is an upsert, and a delete of a row that is gone writes nothing.
Written(p) ==
    IF req[p].on = {} /\ rows[req[p].txn].on = {} THEN rows[req[p].txn]
    ELSE [on |-> req[p].on, v |-> writes + 1]

\* The write, the flush of the bumps and the COMMIT, visible together.  Row
\* locks order two writers of one row, and two bumps of one account.
Commit(p) ==
    /\ pc[p] = "open"
    /\ rows' = [rows EXCEPT ![req[p].txn] = Written(p)]
    /\ revision' = [a \in Account |-> revision[a] + (IF a \in Bumped(p) THEN 1 ELSE 0)]
    /\ writes' = writes + 1
    /\ IF p \in Own
       THEN /\ pc' = [pc EXCEPT ![p] = "committed"]
            /\ req' = [req EXCEPT ![p].new = Written(p)]
       ELSE /\ pc' = [pc EXCEPT ![p] = "idle"]
            /\ req' = [req EXCEPT ![p] = NoRequest]
    /\ UNCHANGED <<active, client>>

\* accountListEmbed, after the transaction: what the answer says of revisions.
Embed(p) ==
    /\ pc[p] = "committed"
    /\ pc' = [pc EXCEPT ![p] = "answered"]
    /\ req' = [req EXCEPT ![p].revs = revision]
    /\ UNCHANGED <<active, rows, revision, writes, client>>

Done(p) ==
    /\ pc' = [pc EXCEPT ![p] = "idle"]
    /\ req' = [req EXCEPT ![p] = NoRequest]
    /\ UNCHANGED <<active, rows, revision, writes>>

\* The answer does not arrive.
Lose(p) == pc[p] = "answered" /\ Done(p) /\ UNCHANGED client

------------------------------------------------------------------------------
(* The client *)

Idle == [stage |-> "idle", accounts |-> [a \in Account |-> 0], stale |-> {},
         revs |-> [a \in Account |-> 0]]

Due == [Idle EXCEPT !.stage = "due"]

\* Mutant: any later revision is taken for the client's own edit.
WholeIfLater(a, next) == next > known[a]

\* noteOwnWrite: "stored + 1 means the local patch is the whole change".
Whole(a, next) == next = known[a] + 1

\* The accounts of the row in the answer, and of the row it replaces.
Touched(p) ==
    (IF req[p].mode = "delete" THEN req[p].old.on ELSE req[p].new.on)
        \cup UNION {i[2].on : i \in {j \in list : j[1] = req[p].txn}}

\* useApplyTransactionItem: an add is put in front, an update replaces what is
\* listed, a delete drops it.
Patched(p) ==
    LET others == {i \in list : i[1] # req[p].txn}
    IN  CASE req[p].mode = "add" -> list \cup {<<req[p].txn, req[p].new>>}
          [] req[p].mode = "update" ->
                others \cup (IF others = list THEN {} ELSE {<<req[p].txn, req[p].new>>})
          [] OTHER -> others

\* The answer arrives: a sync in flight is cancelled, the revisions one ahead
\* are taken over, the accounts list is replaced and followed, the list patched.
Receive(p) ==
    /\ pc[p] = "answered"
    /\ known' = [a \in Account |->
                    IF a \in Touched(p) /\ Whole(a, req[p].revs[a]) THEN req[p].revs[a] ELSE known[a]]
    /\ cache' = req[p].revs
    /\ list' = Patched(p)
    /\ sync' = IF known' # cache' THEN Due ELSE Idle
    /\ Done(p)

\* Mutant: only the number of accounts is compared.
DiffersByCount(accounts) == FALSE

\* followAccounts: some account's revision is not the one held.
Differs(accounts) == accounts # known

\* The accounts list is fetched again (focus, a tap on sync, its stale time).
Refetch ==
    /\ cache' = revision
    /\ sync' = IF Differs(cache') THEN Due ELSE sync
    /\ UNCHANGED <<server, known, list>>

\* The list is invalidated by something else.
Invalidate ==
    /\ sync.stage = "idle"
    /\ sync' = Due
    /\ UNCHANGED <<server, known, list, cache>>

\* A run starts: it picks the accounts that differ and the server answers with
\* their revisions (GetAccountTransactionList reads them first).
Download ==
    /\ sync.stage = "due"
    /\ sync' = [stage |-> "reading", accounts |-> cache,
                stale |-> {a \in Account : cache[a] # known[a]}, revs |-> revision]
    /\ UNCHANGED <<server, known, list, cache>>

\* The revision a downloaded bucket is stored under.
Label(a) == sync.revs[a]

\* The rows are read, and the run lands: downloaded buckets beside those the
\* page already held, regrouped from its list (bucketsInMemory, syncBuckets,
\* assemble).  The accounts list may have moved meanwhile.
Land ==
    /\ sync.stage = "reading"
    /\ list' = Assemble([a \in Account |-> Bucket(IF a \in sync.stale THEN Stored ELSE list, a)])
    /\ known' = [a \in Account |-> IF a \in sync.stale THEN Label(a) ELSE known[a]]
    /\ sync' = IF cache # sync.accounts /\ cache # known' THEN Due ELSE Idle
    /\ UNCHANGED <<server, cache>>

\* The download fails for good.
Fail == sync.stage = "reading" /\ sync' = Idle /\ UNCHANGED <<server, known, list, cache>>

------------------------------------------------------------------------------
(* The specification *)

Init ==
    /\ active \in Mixes
    /\ rows \in [Txn -> {Absent} \cup {[on |-> s, v |-> 0] : s \in Shapes}]
    /\ revision = [a \in Account |-> 0]
    /\ writes = 0
    /\ pc = [p \in Request |-> "idle"]
    /\ req = [p \in Request |-> NoRequest]
    /\ known = revision
    /\ cache = revision
    /\ list = Stored
    /\ sync = Idle

Serve(p) == Commit(p) \/ Embed(p)

Answer(p) == p \in Own /\ (Receive(p) \/ Lose(p))

Next ==
    \/ \E p \in Request : Add(p) \/ Update(p) \/ Delete(p) \/ Serve(p) \/ Answer(p)
    \/ Refetch \/ Invalidate \/ Download \/ Land \/ Fail

Spec == Init /\ [][Next]_vars

\* Requests are served and answered or lost, the accounts list is fetched again
\* for ever (a page in use), a sync that is due starts, and one that is tried
\* for ever does not fail every time.
Fairness ==
    /\ \A p \in Request : WF_vars(Serve(p)) /\ WF_vars(Answer(p))
    /\ WF_vars(Refetch) /\ WF_vars(Download) /\ SF_vars(Land)

FairSpec == Spec /\ Fairness

------------------------------------------------------------------------------
(* Properties *)

\* Every variable has its type.
TypeOK ==
    /\ active \in Mixes
    /\ rows \in [Txn -> Row]
    /\ revision \in [Account -> Nat] /\ known \in [Account -> Nat] /\ cache \in [Account -> Nat]
    /\ writes \in 0 .. MaxWrites
    /\ pc \in [Request -> {"idle", "open", "committed", "answered"}]
    /\ req \in [Request -> [mode : {"none", "add", "update", "delete"}, txn : Txn, on : SUBSET Account,
                            old : Row, new : Row, touched : SUBSET Account, revs : [Account -> Nat]]]
    /\ list \subseteq Item
    /\ sync \in [stage : {"idle", "due", "reading"}, accounts : [Account -> Nat],
                 stale : SUBSET Account, revs : [Account -> Nat]]

\* "Never a stale cache": once nothing is being synced and every revision the
\* client holds is the server's, its list is the server's.
UpToDateIsTrue == sync.stage = "idle" /\ known = revision => list = Stored

\* "A repository method that changes what get-account-transaction-list would
\* return for an account bumps that account", by exactly one a transaction.
ChangedAccountsMove ==
    [][\A a \in Account :
        /\ Bucket(Stored', a) # Bucket(Stored, a) => revision'[a] # revision[a]
        /\ revision'[a] - revision[a] \in {0, 1}]_vars

\* When the writing stops, the client ends up with the server's list.
Converges == <>[][writes' = writes]_vars => <>[](list = Stored)

==============================================================================
