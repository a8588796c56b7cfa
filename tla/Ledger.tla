-------------------------------- MODULE Ledger --------------------------------
(***************************************************************************)
(* Accounts and the transactions on them.  A balance is never stored: it   *)
(* is the sum of the account's transactions.  Deleting an account is soft, *)
(* and pins its balance at zero: a balance correction is written when it   *)
(* is deleted (internal/account/delete.go, zero.go), and again by every    *)
(* later write that moves a deleted account's flow                         *)
(* (internal/transaction/update.go, delete.go).                            *)
(*                                                                         *)
(* One owner's accounts; who may write to them is not modelled.            *)
(***************************************************************************)
EXTENDS Integers, FiniteSets, FiniteSetsExt, Functions

CONSTANTS
    Account,        \* ids of accounts, in their order
    Amount,         \* the amounts of a transaction
    Day,            \* calendar days, in their order
    Today,          \* the last day that a current balance includes
    Request,        \* requests that may be in flight at once
    Operation,      \* the operations the requests perform
    Legacy,         \* accounts that a version that did not zero them may have deleted
    Engine,         \* "sqlite": one connection, transactions one at a time; "postgresql"
    MaxWrites,      \* bound on the edits users have begun, deletions of accounts aside
    MaxRows         \* bound on the rows ever written, corrections included

ASSUME AccountAssumption == Account \subseteq Nat /\ IsFiniteSet(Account) /\ Legacy \subseteq Account
ASSUME AmountAssumption == Amount \subseteq Nat \ {0}
ASSUME DayAssumption == Day \subseteq Nat /\ Today \in Day
ASSUME EngineAssumption == Engine \in {"sqlite", "postgresql"}
ASSUME BoundsAssumption == MaxWrites \in Nat /\ MaxRows \in Nat

VARIABLES
    rows,       \* the committed transactions
    deleted,    \* accounts.is_deleted
    minted,     \* how many row ids have been handed out
    writes,     \* how many edits users have begun
    pc,         \* where each request stands
    req,        \* what it does, what it has read, and what its transaction wrote
    unpinned    \* history: the deleted accounts to which a legacy deletion, or an edit of
                \* the account itself, left a balance that no write has zeroed yet

vars == <<rows, deleted, minted, writes, pc, req, unpinned>>

------------------------------------------------------------------------------
(* Rows and balances *)

Id == 1 .. MaxRows

\* flow: what the row adds to each account it is on, the account of an expense
\* or income, the two of a transfer.  A transfer between currencies moves two
\* amounts.
SimpleFlows == {[a \in {b} |-> s * m] : b \in Account, s \in {-1, 1}, m \in Amount}

TransferFlows ==
    {[a \in {p[1], p[2]} |-> IF a = p[1] THEN -m ELSE n] :
        p \in {q \in Account \X Account : q[1] # q[2]}, m \in Amount, n \in Amount}

Flows == SimpleFlows \cup TransferFlows

Entry == [flow : Flows, day : Day]

Absent == [flow |-> [a \in {} |-> 0], day |-> Today]

Parties(row) == DOMAIN row.flow

Flow(row, a) == IF a \in Parties(row) THEN row.flow[a] ELSE 0

\* GetAccountBalance: the sum over the rows spent before a bound.
Balance(table, a, days) ==
    LET Spent(t) == IF table[t].day \in days THEN Flow(table[t], a) ELSE 0
    IN  MapThenSumSet(Spent, Id)

AllTime == Day

Current == {d \in Day : d <= Today}

Correction(a, amount, day) == [flow |-> [b \in {a} |-> amount], day |-> day]

------------------------------------------------------------------------------
(* Requests and their transactions *)

\* old, new: the row as it was read and as it is to be.  on, gone: the account,
\* and its is_deleted as it was read.  target, day: the balance an update of the
\* account asks for, and the date of the correction.  wrote: the rows the
\* transaction has written, over the committed ones.  saved: the accounts whose
\* whole row it has written.
NoRequest == [op |-> "none", id |-> 0, old |-> Absent, new |-> Absent, on |-> {}, gone |-> FALSE,
              target |-> 0, day |-> Today, wrote |-> [t \in {} |-> Absent], saved |-> {}]

\* On SQLite no other transaction is open.
MayOpen(p) == Engine = "sqlite" => \A q \in Request \ {p} : pc[q] \notin {"open", "written"}

Start(p, stage, r) ==
    /\ pc[p] = "idle"
    /\ r.op \in Operation
    /\ stage = "open" => MayOpen(p)
    /\ pc' = [pc EXCEPT ![p] = stage]
    /\ req' = [req EXCEPT ![p] = r]
    /\ UNCHANGED <<rows, deleted, minted, unpinned>>

Count == writes < MaxWrites /\ writes' = writes + 1

\* rejectDeletedParties
MayJoin(parties) == \A a \in parties : ~deleted[a]

\* CreateTransaction, a posted recurring transaction, an imported row.  A transfer
\* from an account to itself adds nothing to it and is left out.
Create(p) ==
    \E new \in Entry :
        /\ MayJoin(Parties(new))
        /\ Start(p, "open", [NoRequest EXCEPT !.op = "create", !.new = new])
        /\ Count

\* UpdateTransaction, and MoveTransaction to another day: only the accounts
\* that join the row are checked.
Update(p) ==
    \E t \in Id, new \in Entry :
        /\ rows[t] # Absent
        /\ MayJoin(Parties(new) \ Parties(rows[t]))
        /\ Start(p, "open", [NoRequest EXCEPT !.op = "update", !.id = t, !.old = rows[t], !.new = new])
        /\ Count

Delete(p) ==
    \E t \in Id :
        /\ rows[t] # Absent
        /\ Start(p, "open", [NoRequest EXCEPT !.op = "delete", !.id = t, !.old = rows[t]])
        /\ Count

\* The account is read before the transaction opens.
DeleteAccount(p) ==
    \E a \in Account :
        /\ Start(p, "read", [NoRequest EXCEPT !.op = "deleteAccount", !.on = {a}, !.gone = deleted[a]])
        /\ UNCHANGED writes

\* UpdateAccount asks for a balance; a deleted account is not refused.
UpdateAccount(p) ==
    \E a \in Account, day \in Day, n \in {0} \cup Amount :
        /\ Start(p, "open", [NoRequest EXCEPT !.op = "updateAccount", !.on = {a}, !.gone = deleted[a],
                                !.target = n, !.day = day])
        /\ Count

\* migration:zero-deleted-accounts lists the accounts first.
ZeroDeletedAccounts(p) ==
    \E a \in Account :
        /\ deleted[a]
        /\ Start(p, "read", [NoRequest EXCEPT !.op = "zeroDeleted", !.on = {a}, !.gone = TRUE])
        /\ UNCHANGED writes

------------------------------------------------------------------------------
(* What the transaction writes *)

Seen(p) == [t \in Id |-> IF t \in DOMAIN req[p].wrote THEN req[p].wrote[t] ELSE rows[t]]

\* The row itself; the id of a new one is the next.
Put(p) ==
    CASE req[p].op = "create" -> [t \in {minted + 1} |-> req[p].new]
      [] req[p].op \in {"update", "delete"} -> [t \in {req[p].id} |-> req[p].new]
      [] OTHER -> [t \in {} |-> Absent]

Over(table, put) == [t \in Id |-> IF t \in DOMAIN put THEN put[t] ELSE table[t]]

\* Mutant: the account the edit took out of the row is left as it is.
MovedKept(p) == Parties(req[p].new)

\* The accounts a write of an existing row may have moved.
Moved(p) == Parties(req[p].old) \cup Parties(req[p].new)

\* Mutant: the offset is dated today.
OffsetToday(p, a) == Today

\* "the offsetting correction lands in the month the removed flow left"
OffsetDay(p, a) == IF a \in Parties(req[p].new) THEN req[p].new.day ELSE req[p].old.day

\* Mutant: zeroed as of today.
ZeroingAsOfToday(table, a, day) == Correction(a, -Balance(table, a, Current), day)

\* zeroBalance: one correction of the all-time balance.
Zeroing(table, a, day) == Correction(a, -Balance(table, a, AllTime), day)

\* UpdateAccount: the difference from the balance as of today.
Reconciling(table, a, target, day) == Correction(a, target - Balance(table, a, Current), day)

\* The corrections the transaction adds, at most one for each account.
Corrections(p) ==
    LET table == Over(rows, Put(p))
        fixes ==
            CASE req[p].op \in {"update", "delete"} ->
                    {Zeroing(table, a, OffsetDay(p, a)) : a \in {b \in Moved(p) : deleted[b]}}
              [] req[p].op \in {"deleteAccount", "zeroDeleted"} ->
                    {Zeroing(table, a, req[p].day) : a \in req[p].on}
              [] req[p].op = "updateAccount" ->
                    {Reconciling(table, a, req[p].target, req[p].day) : a \in req[p].on}
              [] OTHER -> {}
    IN  {c \in fixes : \A a \in Parties(c) : Flow(c, a) # 0}

\* The rows, with fresh ids for what is new.
Written(p) ==
    LET fixes == Corrections(p)
        put == Put(p)
        first == minted + Cardinality(DOMAIN put \ 1 .. minted)
        Rank(c) == Cardinality({e \in fixes : Min(Parties(e)) <= Min(Parties(c))})
    IN  [t \in DOMAIN put \cup {first + Rank(c) : c \in fixes} |->
            IF t \in DOMAIN put THEN put[t] ELSE CHOOSE c \in fixes : first + Rank(c) = t]

SavesAccount(p) == req[p].op \in {"deleteAccount", "updateAccount"}

\* A row, and an accounts row, that another open transaction has written is
\* locked.
Unlocked(p) ==
    \A q \in Request \ {p} : pc[q] = "written" =>
        /\ req[p].id \notin DOMAIN req[q].wrote
        /\ SavesAccount(p) => req[p].on \cap req[q].saved = {}

\* The statements of the transaction; DeleteAccount and the zeroing command
\* open theirs here.
Write(p) ==
    /\ pc[p] = "open" \/ (pc[p] = "read" /\ MayOpen(p))
    /\ Unlocked(p)
    /\ LET wrote == Written(p)
           fresh == DOMAIN wrote \ 1 .. minted
       IN  /\ fresh \subseteq Id
           /\ minted' = minted + Cardinality(fresh)
           /\ req' = [req EXCEPT ![p].wrote = wrote,
                                 ![p].saved = IF SavesAccount(p) THEN req[p].on ELSE {}]
    /\ pc' = [pc EXCEPT ![p] = "written"]
    /\ UNCHANGED <<rows, deleted, writes, unpinned>>

\* Mutant: an update saves the account as a live one.
SavedLive(p) == req[p].op = "deleteAccount"

\* is_deleted in the row that is saved whole: as it was read, set by a deletion.
SavedDeleted(p) == req[p].gone \/ req[p].op = "deleteAccount"

\* The accounts that the flush of the revision bumps updates.
Bumped(p) == UNION {Parties(Seen(p)[t]) \cup Parties(rows[t]) : t \in DOMAIN req[p].wrote}

Commit(p) ==
    /\ pc[p] = "written"
    /\ \A q \in Request \ {p} : pc[q] = "written" => Bumped(p) \cap req[q].saved = {}
    /\ rows' = Seen(p)
    /\ deleted' = [a \in Account |-> IF a \in req[p].saved THEN SavedDeleted(p) ELSE deleted[a]]
    /\ pc' = [pc EXCEPT ![p] = "idle"]
    /\ req' = [req EXCEPT ![p] = NoRequest]
    /\ unpinned' = CASE req[p].op = "updateAccount" -> unpinned \cup {a \in req[p].on : deleted'[a]}
                     [] req[p].op \in {"update", "delete"} -> unpinned \ Moved(p)
                     [] OTHER -> unpinned \ req[p].on
    /\ UNCHANGED <<minted, writes>>

\* The request fails and its transaction is rolled back.
Fail(p) ==
    /\ pc[p] # "idle"
    /\ pc' = [pc EXCEPT ![p] = "idle"]
    /\ req' = [req EXCEPT ![p] = NoRequest]
    /\ UNCHANGED <<rows, deleted, minted, writes, unpinned>>

------------------------------------------------------------------------------
(* The specification *)

\* A legacy account still holds what it held when it was deleted.
Init ==
    \E old \in SUBSET Legacy, amount \in Amount :
        /\ deleted = [a \in Account |-> a \in old]
        /\ minted = Cardinality(old)
        /\ \E owner \in Bijection(1 .. minted, old) :
            rows = [t \in Id |-> IF t <= minted THEN Correction(owner[t], amount, Today) ELSE Absent]
        /\ unpinned = old
    /\ writes = 0
    /\ pc = [p \in Request |-> "idle"]
    /\ req = [p \in Request |-> NoRequest]

Next ==
    \E p \in Request :
        \/ Create(p) \/ Update(p) \/ Delete(p)
        \/ DeleteAccount(p) \/ UpdateAccount(p) \/ ZeroDeletedAccounts(p)
        \/ Write(p) \/ Commit(p) \/ Fail(p)

Spec == Init /\ [][Next]_vars

------------------------------------------------------------------------------
(* Properties *)

\* Every variable has its type.
TypeOK ==
    /\ \A t \in Id : Parties(rows[t]) \subseteq Account /\ rows[t].day \in Day
    /\ DOMAIN rows = Id
    /\ deleted \in [Account -> BOOLEAN]
    /\ minted \in 0 .. MaxRows
    /\ \A t \in Id : t > minted => rows[t] = Absent
    /\ writes \in 0 .. MaxWrites
    /\ pc \in [Request -> {"idle", "read", "open", "written"}]
    /\ unpinned \subseteq Account

\* A deleted account has zero balance, future-dated transactions included,
\* whatever is done to its transactions after its deletion.
PinnedAtZero == \A a \in Account : deleted[a] /\ a \notin unpinned => Balance(rows, a, AllTime) = 0

\* A deleted account is never shown again.
StaysDeleted == [][\A a \in Account : deleted[a] => deleted'[a]]_vars

\* Taking a flow off a deleted account, by deleting the transaction or by
\* editing the account out of it, leaves the account's sum of every day as it
\* was: the offset is dated where the flow was.
RemovedFlowIsOffsetOnItsDay ==
    [][\A a \in Account :
        (/\ deleted[a] /\ a \notin unpinned
         /\ \E t \in Id : a \in Parties(rows[t]) /\ a \notin Parties(rows'[t]))
        => \A d \in Day : Balance(rows', a, {d}) = Balance(rows, a, {d})]_vars

==============================================================================
