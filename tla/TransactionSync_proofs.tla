------------------------ MODULE TransactionSync_proofs ------------------------
(***************************************************************************)
(* Proofs about TransactionSync.  On SQLite a transaction that is open is  *)
(* alone, so the accounts that BumpWhere read are still those the row sits *)
(* on when the write commits: whatever the accounts, the rows, transfers   *)
(* and moves included, and however many devices write.                     *)
(*                                                                         *)
(* And on either engine a page is never stale without knowing it, as long  *)
(* as a row stays on its one account and the page does not write beside    *)
(* somebody else.  TLC refutes this without any one of those hypotheses.   *)
(***************************************************************************)
EXTENDS TransactionSync, FiniteSetTheorems, TLAPS

\* What an open transaction knows of its row is still so, and it is alone.
OpenKnowsItsRow ==
    /\ DOMAIN rows = Txn
    /\ revision \in [Account -> Nat]
    /\ DOMAIN pc = Request /\ DOMAIN req = Request
    /\ \A p \in Request : pc[p] = "open" =>
        req[p].txn \in Txn /\ req[p].touched = rows[req[p].txn].on
    /\ \A p, q \in Request : pc[p] = "open" /\ pc[q] = "open" => p = q

\* What the steps of the page leave alone.
LEMMA ClientKeepsTheServer ==
    ASSUME \/ Refetch \/ Invalidate \/ Download \/ Land \/ Fail
    PROVE  UNCHANGED server
BY DEF Refetch, Invalidate, Download, Land, Fail, server

\* A new transaction finds no other one open.
LEMMA BeginIsAlone ==
    ASSUME Engine = "sqlite", OpenKnowsItsRow,
           NEW p \in Request, NEW mode, NEW t \in Txn, NEW on, Begin(p, mode, t, on)
    PROVE  OpenKnowsItsRow' /\ UNCHANGED <<rows, revision>>
<1>1. /\ \A q \in Request : pc[q] # "open"
      /\ pc' = [pc EXCEPT ![p] = "open"]
      /\ req' = [req EXCEPT ![p] = [NoRequest EXCEPT !.mode = mode, !.txn = t, !.on = on,
                                        !.old = rows[t], !.touched = rows[t].on]]
      /\ UNCHANGED <<rows, revision>>
  BY DEF Begin, MayBegin
<1>2. req'[p].txn = t /\ req'[p].touched = rows[t].on
  BY <1>1 DEF OpenKnowsItsRow, NoRequest
<1>3. \A q \in Request : pc'[q] = "open" => q = p
  BY <1>1 DEF OpenKnowsItsRow
<1> QED
  BY <1>1, <1>2, <1>3 DEF OpenKnowsItsRow

\* The accounts that a commit does not bump keep their buckets.
LEMMA UnbumpedKeepTheirBucket ==
    ASSUME OpenKnowsItsRow, NEW p \in Request, Commit(p),
           NEW a \in Account, a \notin Bumped(p)
    PROVE  Bucket(Stored', a) = Bucket(Stored, a)
<1> DEFINE t == req[p].txn
<1>1. /\ pc[p] = "open" /\ t \in Txn /\ req[p].touched = rows[t].on
      /\ rows' = [rows EXCEPT ![t] = Written(p)] /\ DOMAIN rows = Txn
  BY DEF Commit, OpenKnowsItsRow
<1>2. a \notin rows[t].on /\ a \notin req[p].on
  BY <1>1 DEF Bumped
<1>3. a \notin Written(p).on
  BY <1>2 DEF Written
<1>4. ASSUME NEW i \in Item, a \in i[2].on
      PROVE  rows'[i[1]] = i[2] <=> rows[i[1]] = i[2]
  <2>1. i[1] \in Txn
    BY DEF Item
  <2>2. CASE i[1] = t
    <3>1. rows'[i[1]] = Written(p)
      BY <1>1, <2>1, <2>2
    <3> QED
      BY <1>2, <1>3, <1>4, <2>2, <3>1
  <2>3. CASE i[1] # t
    BY <1>1, <2>1, <2>3
  <2> QED
    BY <2>2, <2>3
<1> QED
  BY <1>4 DEF Bucket, Stored

\* A commit ends the transaction, and there was no other one.
LEMMA CommitLeavesNoneOpen ==
    ASSUME OpenKnowsItsRow, NEW p \in Request, Commit(p)
    PROVE  OpenKnowsItsRow'
<1>1. /\ pc[p] = "open" /\ req[p].txn \in Txn
      /\ rows' = [rows EXCEPT ![req[p].txn] = Written(p)]
      /\ revision' = [a \in Account |-> revision[a] + (IF a \in Bumped(p) THEN 1 ELSE 0)]
  BY DEF Commit, OpenKnowsItsRow
<1>2. \E s \in {"committed", "idle"} : pc' = [pc EXCEPT ![p] = s]
  BY DEF Commit
<1>3. DOMAIN req' = Request
  BY DEF Commit, OpenKnowsItsRow
<1>4. \A q \in Request : pc'[q] # "open"
  BY <1>1, <1>2 DEF OpenKnowsItsRow
<1>5. revision' \in [Account -> Nat]
  BY <1>1 DEF OpenKnowsItsRow
<1> QED
  BY <1>1, <1>2, <1>3, <1>4, <1>5 DEF OpenKnowsItsRow

\* The answers leave the rows and the revisions alone, and no transaction open.
LEMMA AnswersKeepTheRows ==
    ASSUME OpenKnowsItsRow, NEW p \in Request, Embed(p) \/ Answer(p)
    PROVE  OpenKnowsItsRow' /\ UNCHANGED <<rows, revision>>
<1>1. /\ \E s \in {"answered", "idle"} : pc' = [pc EXCEPT ![p] = s]
      /\ \E r : req' = [req EXCEPT ![p] = r]
      /\ UNCHANGED <<rows, revision>>
  <2>1. CASE Embed(p)
    BY <2>1 DEF Embed
  <2>2. CASE Answer(p)
    BY <2>2 DEF Answer, Receive, Lose, Done
  <2> QED
    BY <2>1, <2>2
<1>2. /\ DOMAIN pc' = Request /\ DOMAIN req' = Request
      /\ \A q \in Request : pc'[q] = "open" => q # p /\ pc[q] = "open" /\ req'[q] = req[q]
  BY <1>1 DEF OpenKnowsItsRow
<1> QED
  BY <1>1, <1>2 DEF OpenKnowsItsRow

\* Every step, on SQLite, keeps what an open transaction knows, and moves the
\* accounts whose rows it changes.
LEMMA StepMovesWhatItChanges ==
    ASSUME Engine = "sqlite", OpenKnowsItsRow, [Next]_vars
    PROVE  /\ OpenKnowsItsRow'
           /\ \A a \in Account :
                /\ Bucket(Stored', a) # Bucket(Stored, a) => revision'[a] # revision[a]
                /\ revision'[a] - revision[a] \in {0, 1}
<1>1. ASSUME OpenKnowsItsRow', UNCHANGED <<rows, revision>>
      PROVE  \A a \in Account :
                /\ Bucket(Stored', a) # Bucket(Stored, a) => revision'[a] # revision[a]
                /\ revision'[a] - revision[a] \in {0, 1}
  <2>1. Stored' = Stored
    BY <1>1 DEF Stored
  <2> QED
    BY <1>1, <2>1 DEF OpenKnowsItsRow
<1>2. ASSUME NEW p \in Request, Add(p) \/ Update(p) \/ Delete(p)
      PROVE  OpenKnowsItsRow' /\ UNCHANGED <<rows, revision>>
  <2>1. CASE Add(p)
    <3>1. PICK t \in Txn, on \in Shapes : Begin(p, "add", t, on)
      BY <2>1 DEF Add
    <3> QED
      BY <3>1, BeginIsAlone
  <2>2. CASE Update(p)
    <3>1. PICK t \in Txn, on \in Shapes : Begin(p, "update", t, on)
      BY <2>2 DEF Update, Editable
    <3> QED
      BY <3>1, BeginIsAlone
  <2>3. CASE Delete(p)
    <3>1. PICK t \in Txn : Begin(p, "delete", t, {})
      BY <2>3 DEF Delete, Editable
    <3> QED
      BY <3>1, BeginIsAlone
  <2> QED
    BY <1>2, <2>1, <2>2, <2>3
<1>3. ASSUME NEW p \in Request, Commit(p)
      PROVE  /\ OpenKnowsItsRow'
             /\ \A a \in Account :
                /\ Bucket(Stored', a) # Bucket(Stored, a) => revision'[a] # revision[a]
                /\ revision'[a] - revision[a] \in {0, 1}
  <2>1. \A a \in Account : revision'[a] = revision[a] + (IF a \in Bumped(p) THEN 1 ELSE 0)
    BY <1>3 DEF Commit
  <2>2. \A a \in Account : revision[a] \in Nat
    BY DEF OpenKnowsItsRow
  <2> QED
    BY <1>3, <2>1, <2>2, UnbumpedKeepTheirBucket, CommitLeavesNoneOpen
<1>4. ASSUME UNCHANGED server
      PROVE  OpenKnowsItsRow' /\ UNCHANGED <<rows, revision>>
  BY <1>4 DEF server, OpenKnowsItsRow
<1>5. CASE UNCHANGED vars
  BY <1>1, <1>4, <1>5 DEF vars, server
<1>6. CASE \E p \in Request : Add(p) \/ Update(p) \/ Delete(p) \/ Serve(p) \/ Answer(p)
  <2>1. PICK p \in Request : Add(p) \/ Update(p) \/ Delete(p) \/ Serve(p) \/ Answer(p)
    BY <1>6
  <2>2. CASE Add(p) \/ Update(p) \/ Delete(p)
    BY <1>1, <1>2, <2>2
  <2>3. CASE Commit(p)
    BY <1>3, <2>3
  <2>4. CASE Embed(p) \/ Answer(p)
    BY <1>1, <2>4, AnswersKeepTheRows
  <2> QED
    BY <2>1, <2>2, <2>3, <2>4 DEF Serve
<1>7. CASE Refetch \/ Invalidate \/ Download \/ Land \/ Fail
  BY <1>1, <1>4, <1>7, ClientKeepsTheServer
<1> QED
  BY <1>5, <1>6, <1>7 DEF Next

\* At the start no transaction is open.
LEMMA InitOpensNone == Init => OpenKnowsItsRow
<1> SUFFICES ASSUME Init PROVE OpenKnowsItsRow
  OBVIOUS
<1>1. /\ DOMAIN rows = Txn /\ DOMAIN pc = Request /\ DOMAIN req = Request
      /\ \A p \in Request : pc[p] = "idle"
      /\ revision \in [Account -> Nat]
  BY DEF Init
<1> QED
  BY <1>1 DEF OpenKnowsItsRow

\* On SQLite, with transfers and moves between accounts and any number of
\* devices: every account whose rows a commit changes moves, by exactly one
\* (internal/infra/txrevision, internal/transaction/repo/repo.go).
THEOREM EveryChangeMovesItsAccounts ==
    ASSUME Engine = "sqlite"
    PROVE  Spec => ChangedAccountsMove
<1>1. Init => OpenKnowsItsRow
  BY InitOpensNone
<1>2. OpenKnowsItsRow /\ [Next]_vars => OpenKnowsItsRow'
  BY StepMovesWhatItChanges
<1>3. OpenKnowsItsRow /\ [Next]_vars =>
        [\A a \in Account :
            /\ Bucket(Stored', a) # Bucket(Stored, a) => revision'[a] # revision[a]
            /\ revision'[a] - revision[a] \in {0, 1}]_vars
  BY StepMovesWhatItChanges
<1> QED
  BY <1>1, <1>2, <1>3, PTL DEF Spec, ChangedAccountsMove

------------------------------------------------------------------------------
(* Lists and their buckets *)

\* Patched, of any list.
Patch(r, items) ==
    LET others == {i \in items : i[1] # r.txn}
    IN  CASE r.mode = "add" -> items \cup {<<r.txn, r.new>>}
          [] r.mode = "update" ->
                others \cup (IF others = items THEN {} ELSE {<<r.txn, r.new>>})
          [] OTHER -> others

\* The patch of the page is that of its list.
LEMMA PatchedIsPatch == \A p : Patched(p) = Patch(req[p], list)
BY DEF Patched, Patch

\* The accounts a patch may change in a list whose versions of its transaction
\* all sit on H: elsewhere it changes nothing, and there it goes by the bucket.
LEMMA PatchGoesByBuckets ==
    ASSUME NEW r, NEW L, NEW M, NEW H, NEW a,
           \A i \in L \cup M : i[1] = r.txn => i[2].on = H,
           r.new.on \subseteq H, r.mode \in {"add", "update", "delete"},
           Bucket(L, a) = Bucket(M, a)
    PROVE  Bucket(Patch(r, L), a) = Bucket(Patch(r, M), a)
<1> DEFINE t == r.txn
           it == <<t, r.new>>
           rest(N) == {i \in N : i[1] # t}
<1>1. it[1] = t /\ it[2] = r.new
  OBVIOUS
<1>2. \A i : i \in Bucket(L, a) <=> i \in L /\ a \in i[2].on
  BY DEF Bucket
<1>3. \A i : i \in Bucket(M, a) <=> i \in M /\ a \in i[2].on
  BY DEF Bucket
<1>4. \A i : (i \in L /\ a \in i[2].on) <=> (i \in M /\ a \in i[2].on)
  BY <1>2, <1>3
<1>5. \A N : rest(N) = N <=> \A i \in N : i[1] # t
  OBVIOUS
<1> HIDE DEF it, t
<1>6. CASE r.mode = "add"
  <2>1. Patch(r, L) = L \cup {it} /\ Patch(r, M) = M \cup {it}
    BY <1>6 DEF Patch, it, t
  <2> QED
    BY <1>4, <2>1 DEF Bucket
<1>7. CASE r.mode = "update"
  <2>1. /\ Patch(r, L) = rest(L) \cup (IF rest(L) = L THEN {} ELSE {it})
        /\ Patch(r, M) = rest(M) \cup (IF rest(M) = M THEN {} ELSE {it})
    BY <1>7 DEF Patch, it, t
  <2>2. CASE a \in H
    <3>1. (\E i \in L : i[1] = t) <=> (\E i \in M : i[1] = t)
      BY <1>4, <2>2 DEF t
    <3>2. rest(L) = L <=> rest(M) = M
      BY <1>5, <3>1
    <3> QED
      BY <1>4, <2>1, <3>2 DEF Bucket
  <2>3. CASE a \notin H
    <3>1. a \notin it[2].on
      BY <1>1, <2>3
    <3> QED
      BY <1>4, <2>1, <3>1 DEF Bucket
  <2> QED
    BY <2>2, <2>3
<1>8. CASE r.mode = "delete"
  <2>1. Patch(r, L) = rest(L) /\ Patch(r, M) = rest(M)
    BY <1>8 DEF Patch, t
  <2> QED
    BY <1>4, <2>1 DEF Bucket
<1> QED
  BY <1>6, <1>7, <1>8

\* The rows that are there.
StoredOf(table) == {i \in Item : table[i[1]] = i[2] /\ i[2].on # {}}

\* What is stored is the rows that are there, before a step and after it.
LEMMA StoredIsStoredOf == Stored = StoredOf(rows) /\ Stored' = StoredOf(rows')
BY DEF Stored, StoredOf

\* An item is a transaction and its row.
LEMMA ItemParts == \A i \in Item : i[1] \in Txn /\ i[2] \in Row /\ i = <<i[1], i[2]>>
BY DEF Item

\* The patch of a write turns the rows before it into the rows after it, and
\* leaves those alone.
LEMMA PatchIsTheWrite ==
    ASSUME NEW r, r.txn \in Txn, r.new \in Row, r.mode \in {"add", "update", "delete"},
           NEW before, NEW after,
           \A t \in Txn : t # r.txn => after[t] = before[t],
           after[r.txn] = r.new,
           r.mode = "delete" <=> r.new.on = {},
           \/ r.mode = "delete"
           \/ r.mode = "add" /\ before[r.txn].on = {}
           \/ r.mode = "update" /\ before[r.txn] \in Row /\ before[r.txn].on # {}
           \/ before[r.txn] = r.new
    PROVE  Patch(r, StoredOf(before)) = StoredOf(after)
<1> DEFINE t == r.txn
           it == <<t, r.new>>
           S == StoredOf(before)
           N == StoredOf(after)
           rest == {i \in S : i[1] # t}
<1>1. it[1] = t /\ it[2] = r.new /\ it \in Item
  BY DEF Item
<1>2. \A i \in Item : i[1] # t => (i \in S <=> i \in N)
  BY ItemParts DEF StoredOf
<1>3. \A i \in Item : i[1] = t => (i \in N <=> i = it /\ r.new.on # {})
  <2> TAKE i \in Item
  <2>1. i[1] = t => (i \in N <=> i[2] = r.new /\ i[2].on # {})
    BY DEF StoredOf
  <2>2. i = <<i[1], i[2]>>
    BY ItemParts
  <2>3. i[1] = t => (i[2] = r.new <=> i = it)
    BY <2>2
  <2> QED
    BY <2>1, <2>3
<1>4. S \subseteq Item /\ N \subseteq Item
  BY DEF StoredOf
<1>5. before[t].on = {} => \A i \in S : i[1] # t
  BY DEF StoredOf
<1>6. before[t] = r.new /\ r.new.on # {} => it \in S /\ \A i \in S : i[1] = t => i = it
  <2> SUFFICES ASSUME before[t] = r.new, r.new.on # {}
               PROVE  it \in S /\ \A i \in S : i[1] = t => i = it
    OBVIOUS
  <2>1. it \in S
    BY <1>1 DEF StoredOf
  <2>2. ASSUME NEW i \in S, i[1] = t PROVE i = it
    <3>1. i[2] = r.new /\ i \in Item
      BY <2>2 DEF StoredOf
    <3> QED
      BY <2>2, <3>1, ItemParts
  <2> QED
    BY <2>1, <2>2
<1>7. before[t] \in Row /\ before[t].on # {} => \E i \in S : i[1] = t
  <2> SUFFICES ASSUME before[t] \in Row, before[t].on # {} PROVE \E i \in S : i[1] = t
    OBVIOUS
  <2>1. <<t, before[t]>> \in S
    BY DEF StoredOf, Item
  <2> QED
    BY <2>1
<1>8. Patch(r, S) = CASE r.mode = "add" -> S \cup {it}
                      [] r.mode = "update" -> rest \cup (IF rest = S THEN {} ELSE {it})
                      [] OTHER -> rest
  BY DEF Patch
<1>9. rest = S <=> \A i \in S : i[1] # t
  OBVIOUS
<1> HIDE DEF t, it, S, N
<1>10. CASE r.mode = "add"
  <2>1. Patch(r, S) = S \cup {it}
    BY <1>8, <1>10
  <2>2. \A i \in S : i[1] = t => i = it
    BY <1>5, <1>6, <1>10 DEF t
  <2>3. \A i \in Item : i \in S \cup {it} <=> i \in N
    BY <1>1, <1>2, <1>3, <1>10, <2>2
  <2> QED
    BY <1>1, <1>4, <2>1, <2>3 DEF S, N
<1>11. CASE r.mode = "update"
  <2>1. \E i \in S : i[1] = t
    BY <1>1, <1>6, <1>7, <1>11 DEF t
  <2>2. Patch(r, S) = rest \cup {it}
    BY <1>8, <1>9, <1>11, <2>1
  <2>3. \A i \in Item : i \in rest \cup {it} <=> i \in N
    BY <1>1, <1>2, <1>3, <1>11
  <2> QED
    BY <1>1, <1>4, <2>2, <2>3 DEF S, N
<1>12. CASE r.mode = "delete"
  <2>1. Patch(r, S) = rest
    BY <1>8, <1>12
  <2>2. \A i \in Item : i \in rest <=> i \in N
    BY <1>2, <1>3, <1>12
  <2> QED
    BY <1>4, <2>1, <2>2 DEF S, N
<1> QED
  BY <1>10, <1>11, <1>12

\* Buckets of which no two share a transaction are put together as they are.
LEMMA AssembleKeepsBuckets ==
    ASSUME NEW buckets,
           \A a \in Account : buckets[a] \subseteq Item,
           \A a, b \in Account : \A i \in buckets[a] : b \in i[2].on <=> a = b,
           \A a, b \in Account : \A i \in buckets[a] : \A j \in buckets[b] : i[1] = j[1] => i = j
    PROVE  /\ \A i : i \in Assemble(buckets) <=> \E a \in Account : i \in buckets[a]
           /\ \A a \in Account : Bucket(Assemble(buckets), a) = buckets[a]
<1>1. ASSUME NEW a \in Account, NEW i \in buckets[a]
      PROVE  i \in Assemble(buckets)
  <2>1. i \in Item /\ i[2].v \in Int
    BY ItemParts, BoundsAssumption DEF Row
  <2>2. ASSUME NEW b \in Account, NEW j \in buckets[b], j[1] = i[1]
        PROVE  a = b /\ i = j
    <3>1. i = j
      BY <2>2
    <3> QED
      BY <3>1
  <2>3. \A b \in Account : \A j \in buckets[b] : j[1] = i[1] => a < b \/ (a = b /\ i[2].v <= j[2].v)
    BY <2>1, <2>2
  <2> QED
    BY <2>1, <2>3 DEF Assemble
<1>2. \A i \in Assemble(buckets) : \E a \in Account : i \in buckets[a]
  BY DEF Assemble
<1>3. ASSUME NEW a \in Account
      PROVE  Bucket(Assemble(buckets), a) = buckets[a]
  <2>1. ASSUME NEW i, i \in Bucket(Assemble(buckets), a) PROVE i \in buckets[a]
    <3>1. i \in Assemble(buckets) /\ a \in i[2].on
      BY <2>1 DEF Bucket
    <3>2. PICK b \in Account : i \in buckets[b]
      BY <1>2, <3>1
    <3> QED
      BY <3>1, <3>2
  <2>2. ASSUME NEW i \in buckets[a] PROVE i \in Bucket(Assemble(buckets), a)
    BY <1>1 DEF Bucket
  <2> QED
    BY <2>1, <2>2
<1> QED
  BY <1>1, <1>2, <1>3

------------------------------------------------------------------------------
(* The page and the server it follows *)

\* No transfers, and writers that are either the other devices or one request
\* of this client: what the run sync_alone checks.
NoTransfers == \A s \in Shapes : \A a, b \in s : a = b
OneWriter == \A m \in Mixes : m \subseteq Other \/ \E w \in Own : m = {w}

InFlight(p) == pc[p] # "idle"

\* A request that has begun.
Begun == [mode : {"add", "update", "delete"}, txn : Txn, on : SUBSET Account,
          old : Row, new : Row, touched : SUBSET Account, revs : [Account -> Nat]]

\* The accounts it has to do with.
Sat(p) == req[p].on \cup req[p].touched \cup req[p].old.on

\* A transaction sits on an account: on the server, in the list, or in a request.
Sits(t, a) ==
    \/ a \in rows[t].on
    \/ \E i \in list : i[1] = t /\ a \in i[2].on
    \/ \E p \in Request : InFlight(p) /\ req[p].txn = t /\ a \in Sat(p)

Homes(t) == {a \in Account : Sits(t, a)}

OpenNow == {q \in Request : pc[q] = "open"}

\* The list holds rows that are or were there, one version of each.
Listed ==
    /\ rows \in [Txn -> Row]
    /\ list \subseteq Item
    /\ \A i \in list : i[2].on # {} /\ rows[i[1]] # Absent
    /\ \A i, j \in list : i[1] = j[1] => i = j

\* Each transaction that is open may still commit within the bound.
Requested ==
    /\ pc \in [Request -> {"idle", "open", "committed", "answered"}]
    /\ DOMAIN req = Request
    /\ writes \in Nat
    /\ Cardinality(OpenNow) + writes <= MaxWrites

\* The client holds no revision the server has not reached.
Revised ==
    /\ revision \in [Account -> Nat] /\ known \in [Account -> Nat]
    /\ \A a \in Account : known[a] <= revision[a]
    /\ sync.stage = "reading" =>
        \A a \in Account : sync.revs[a] \in Nat /\ sync.revs[a] <= revision[a]

\* Who writes; only this client waits for an answer.
Writers ==
    /\ active \subseteq Other \/ \E w \in Own : active = {w}
    /\ \A p \in Request : InFlight(p) => p \in active /\ (pc[p] # "open" => p \in Own)

\* A transaction sits on one account for good.
OneHome == \A t \in Txn : \A a, b \in Account : Sits(t, a) /\ Sits(t, b) => a = b

\* What a request in flight asks for.
Asked(p) == InFlight(p) =>
    /\ req[p] \in Begun
    /\ Bumped(p) # {}
    /\ req[p].mode = "delete" <=> req[p].on = {}
    /\ req[p].mode # "add" => rows[req[p].txn] # Absent

\* The client's own request knows its row: nobody else writes.
OwnKnows(p) == p \in Own /\ InFlight(p) =>
    /\ pc[p] = "open" => IF req[p].mode = "add" THEN rows[req[p].txn] = Absent
                                                ELSE rows[req[p].txn].on # {}
    /\ pc[p] # "open" =>
        /\ req[p].new = rows[req[p].txn] /\ rows[req[p].txn] # Absent
        /\ req[p].new.on = req[p].on
        /\ req[p].mode = "add" => \A i \in list : i[1] = req[p].txn => i[2] = req[p].new
    /\ pc[p] = "answered" => req[p].revs = revision

\* A bucket held at the server's revision is the server's.
Current(a) == known[a] = revision[a] => Bucket(list, a) = Bucket(Stored, a)

\* The answer under way makes the bucket the server's, where the page is up to
\* date or only that write behind.
Promise(p) == p \in Own /\ pc[p] \in {"committed", "answered"} =>
    \A a \in Account :
        known[a] = revision[a] \/ (a \in Bumped(p) /\ known[a] + 1 = revision[a])
            => Bucket(Patched(p), a) = Bucket(Stored, a)

PageFollows ==
    /\ Listed /\ Requested /\ Revised /\ Writers /\ OneHome
    /\ \A p \in Request : Asked(p) /\ OwnKnows(p) /\ Promise(p)
    /\ \A a \in Account : Current(a)

\* The client's own request is the only one in flight.
LEMMA OwnIsAlone ==
    ASSUME Writers, NEW p \in Request, NEW q \in Request, p \in Own, InFlight(p), InFlight(q)
    PROVE  p = q
BY RequestAssumption DEF Writers

\* All the rows of a transaction, listed or stored, sit on its home.
LEMMA RowsSitAtHome ==
    ASSUME Listed, OneHome, NEW i \in list \cup Stored
    PROVE  /\ i \in Item /\ i[1] \in Txn /\ i[2] \in Row /\ i[2].on # {}
           /\ i[2].on = Homes(i[1])
           /\ \E a \in Account : i[2].on = {a}
<1>1. i \in Item /\ i[2].on # {}
  BY DEF Stored, Listed
<1>2. i[1] \in Txn /\ i[2] \in Row /\ i[2].on \subseteq Account
  BY <1>1, ItemParts DEF Row
<1>3. \A a \in i[2].on : Sits(i[1], a)
  <2>1. CASE i \in list
    BY <2>1 DEF Sits
  <2>2. CASE i \in Stored
    BY <2>2 DEF Stored, Sits
  <2> QED
    BY <2>1, <2>2
<1>4. PICK a \in i[2].on : TRUE
  BY <1>1
<1>5. \A b \in Account : Sits(i[1], b) => b = a
  BY <1>2, <1>3, <1>4 DEF OneHome
<1>6. i[2].on = Homes(i[1])
  BY <1>2, <1>3, <1>4, <1>5 DEF Homes
<1>7. i[2].on = {a}
  BY <1>2, <1>3, <1>4, <1>5
<1> QED
  BY <1>1, <1>2, <1>4, <1>6, <1>7

\* What the step of a page must leave so that no transaction gets a second home.
LEMMA HomesAreKept ==
    ASSUME OneHome, \A t \in Txn : \A a \in Account : Sits(t, a)' => Sits(t, a)
    PROVE  OneHome'
BY DEF OneHome

\* The transactions open at once can be counted.
LEMMA OpenIsFinite == IsFiniteSet(OpenNow) /\ Cardinality(OpenNow) \in Nat
<1>1. IsFiniteSet(OpenNow)
  BY RequestAssumption, FS_Subset DEF OpenNow
<1> QED
  BY <1>1, FS_CardinalityType

\* The accounts a row leaves alone keep their buckets.
LEMMA OtherBucketsAreKept ==
    ASSUME NEW t \in Txn, NEW a, \A u \in Txn : u # t => rows'[u] = rows[u],
           a \notin rows[t].on, a \notin rows'[t].on
    PROVE  Bucket(Stored', a) = Bucket(Stored, a)
<1>1. ASSUME NEW i \in Item, a \in i[2].on
      PROVE  rows'[i[1]] = i[2] <=> rows[i[1]] = i[2]
  <2>1. i[1] \in Txn
    BY ItemParts
  <2> QED
    BY <1>1, <2>1
<1> QED
  BY <1>1 DEF Bucket, Stored

\* A request begins: a row that is added is new to everybody, and a row that is
\* edited is there and stays where it is.
LEMMA BeginIsFollowed ==
    ASSUME NoTransfers, PageFollows,
           NEW p \in Request, NEW mode, NEW t \in Txn, NEW on, Begin(p, mode, t, on),
           \/ mode = "add" /\ on \in Shapes /\ Fresh(t)
           \/ mode = "update" /\ on = rows[t].on /\ rows[t].on # {}
           \/ mode = "delete" /\ on = {} /\ rows[t].on # {}
    PROVE  PageFollows'
<1> DEFINE r == [NoRequest EXCEPT !.mode = mode, !.txn = t, !.on = on,
                                  !.old = rows[t], !.touched = rows[t].on]
<1>1. /\ p \in active /\ pc[p] = "idle"
      /\ Cardinality(OpenNow) + writes < MaxWrites
      /\ pc' = [pc EXCEPT ![p] = "open"]
      /\ req' = [req EXCEPT ![p] = r]
      /\ UNCHANGED <<active, rows, revision, writes, known, list, cache, sync>>
  BY DEF Begin, OpenNow, client
<1>2. /\ Listed /\ Requested /\ Revised /\ Writers /\ OneHome
      /\ \A q \in Request : Asked(q) /\ OwnKnows(q) /\ Promise(q)
      /\ \A a \in Account : Current(a)
  BY DEF PageFollows
<1>3. rows[t] \in Row /\ rows[t].on \subseteq Account
  BY <1>2 DEF Listed, Row
<1>4. /\ Absent \in Row /\ Absent.on = {}
      /\ [a \in Account |-> 0] \in [Account -> Nat]
  BY BoundsAssumption DEF Absent, Row
<1>5. on \subseteq Account
  BY <1>3, ShapesAssumption
<1>6. /\ r.mode = mode /\ r.txn = t /\ r.on = on
      /\ r.old = rows[t] /\ r.touched = rows[t].on
      /\ r \in Begun
  BY <1>3, <1>4, <1>5 DEF Begun, NoRequest
<1> HIDE DEF r
<1>7. /\ req'[p] = r /\ pc'[p] = "open"
      /\ \A q \in Request : q # p => req'[q] = req[q] /\ pc'[q] = pc[q]
  BY <1>1, <1>2 DEF Requested
<1>8. Listed'
  BY <1>1, <1>2 DEF Listed
<1>9. Requested'
  <2>1. OpenNow' = OpenNow \cup {p} /\ p \notin OpenNow
    BY <1>1, <1>7 DEF OpenNow
  <2>2. Cardinality(OpenNow') = Cardinality(OpenNow) + 1
    BY <2>1, OpenIsFinite, FS_AddElement
  <2>3. Cardinality(OpenNow)' + writes' <= MaxWrites
    BY <1>1, <1>2, <2>2, OpenIsFinite, BoundsAssumption DEF Requested
  <2>4. DOMAIN req' = Request /\ pc' \in [Request -> {"idle", "open", "committed", "answered"}]
    BY <1>1, <1>2 DEF Requested
  <2> QED
    BY <1>1, <1>2, <2>3, <2>4 DEF Requested
<1>10. Revised'
  BY <1>1, <1>2 DEF Revised
<1>11. Writers'
  BY <1>1, <1>2, <1>7 DEF Writers, InFlight
<1>12. ASSUME NEW u \in Txn, NEW a \in Account, Sits(u, a)'
       PROVE  Sits(u, a) \/ (mode = "add" /\ u = t /\ a \in on)
  <2>1. CASE a \in rows[u].on \/ \E i \in list : i[1] = u /\ a \in i[2].on
    BY <2>1 DEF Sits
  <2>2. CASE \E q \in Request : InFlight(q)' /\ req'[q].txn = u /\ a \in Sat(q)'
    <3>1. PICK q \in Request : InFlight(q)' /\ req'[q].txn = u /\ a \in Sat(q)'
      BY <2>2
    <3>2. CASE q = p
      <4>1. u = t /\ a \in on \cup rows[t].on
        BY <1>6, <1>7, <3>1, <3>2 DEF Sat
      <4> QED
        BY <4>1 DEF Sits
    <3>3. CASE q # p
      BY <1>7, <3>1, <3>3 DEF Sits, Sat, InFlight
    <3> QED
      BY <3>2, <3>3
  <2> QED
    BY <1>1, <1>12, <2>1, <2>2 DEF Sits
<1>13. ASSUME mode = "add"
       PROVE  (\A a : ~Sits(t, a)) /\ \A a, b \in on : a = b
  <2>1. on \in Shapes /\ Fresh(t)
    BY <1>13
  <2>2. rows[t] = Absent /\ \A q \in Request : InFlight(q) => req[q].txn # t
    BY <2>1 DEF Fresh, InFlight
  <2> QED
    BY <1>2, <1>4, <2>1, <2>2 DEF Sits, Listed, NoTransfers
<1>14. OneHome'
  BY <1>2, <1>12, <1>13 DEF OneHome
<1>15. ASSUME NEW q \in Request PROVE (Asked(q) /\ OwnKnows(q) /\ Promise(q))'
  <2>1. CASE q = p
    <3>1. r.on \cup r.touched # {}
      BY <1>6, ShapesAssumption
    <3>2. r.mode = "delete" <=> r.on = {}
      BY <1>6, ShapesAssumption
    <3>3. IF r.mode = "add" THEN rows[r.txn] = Absent ELSE rows[r.txn].on # {}
      BY <1>6 DEF Fresh
    <3>4. Asked(q)'
      BY <1>1, <1>4, <1>6, <1>7, <2>1, <3>1, <3>2, <3>3 DEF Asked, Bumped
    <3>5. OwnKnows(q)' /\ Promise(q)'
      BY <1>1, <1>7, <2>1, <3>3 DEF OwnKnows, Promise
    <3> QED
      BY <3>4, <3>5
  <2>2. CASE q # p
    <3>1. req'[q] = req[q] /\ pc'[q] = pc[q]
      BY <1>7, <2>2
    <3>2. Asked(q) /\ OwnKnows(q) /\ Promise(q)
      BY <1>2
    <3>3. Asked(q)' /\ OwnKnows(q)'
      BY <1>1, <3>1, <3>2 DEF Asked, OwnKnows, Bumped, InFlight
    <3>4. Promise(q)'
      BY <1>1, <3>1, <3>2 DEF Promise, Bumped, Patched, Stored, Bucket
    <3> QED
      BY <3>3, <3>4
  <2> QED
    BY <2>1, <2>2
<1>16. \A a \in Account : Current(a)'
  BY <1>1, <1>2 DEF Current, Stored, Bucket
<1> QED
  BY <1>8, <1>9, <1>10, <1>11, <1>14, <1>15, <1>16 DEF PageFollows

\* A write commits: the accounts it bumps fall behind, the others keep their
\* bucket, and this client's own write is the patch its answer promises.
LEMMA CommitIsFollowed ==
    ASSUME PageFollows, NEW p \in Request, Commit(p)
    PROVE  PageFollows'
<1> DEFINE t == req[p].txn
           w == Written(p)
<1>1. /\ Listed /\ Requested /\ Revised /\ Writers /\ OneHome
      /\ \A q \in Request : Asked(q) /\ OwnKnows(q) /\ Promise(q)
      /\ \A a \in Account : Current(a)
  BY DEF PageFollows
<1>2. /\ pc[p] = "open" /\ InFlight(p)
      /\ rows' = [rows EXCEPT ![t] = w]
      /\ revision' = [a \in Account |-> revision[a] + (IF a \in Bumped(p) THEN 1 ELSE 0)]
      /\ writes' = writes + 1
      /\ UNCHANGED <<active, known, list, cache, sync>>
  BY DEF Commit, client, InFlight
<1>3. /\ req[p] \in Begun /\ Bumped(p) # {}
      /\ req[p].mode = "delete" <=> req[p].on = {}
      /\ req[p].mode # "add" => rows[t] # Absent
  BY <1>1, <1>2 DEF Asked
<1>4. /\ t \in Txn /\ req[p].on \subseteq Account /\ req[p].mode \in {"add", "update", "delete"}
      /\ rows[t] \in Row
  BY <1>1, <1>3 DEF Begun, Listed
<1>5. /\ OpenNow' = OpenNow \ {p}
      /\ Cardinality(OpenNow') = Cardinality(OpenNow) - 1
      /\ Cardinality(OpenNow) >= 1
  <2>1. p \in OpenNow
    BY <1>2 DEF OpenNow
  <2>2. OpenNow' = OpenNow \ {p}
    BY <1>1, <1>2 DEF OpenNow, Commit, Requested
  <2>3. Cardinality(OpenNow \ {p}) = Cardinality(OpenNow) - 1
    BY <2>1, OpenIsFinite, FS_RemoveElement
  <2>4. Cardinality(OpenNow \ {p}) \in Nat
    BY OpenIsFinite, FS_RemoveElement, FS_CardinalityType
  <2> QED
    BY <2>2, <2>3, <2>4, OpenIsFinite
<1>6. writes \in Nat /\ writes + 1 <= MaxWrites
  BY <1>1, <1>5, OpenIsFinite, BoundsAssumption DEF Requested
<1>7. \/ req[p].on = {} /\ rows[t].on = {} /\ w = rows[t]
      \/ w = [on |-> req[p].on, v |-> writes + 1]
  BY DEF Written
<1>8. w \in Row /\ w.on \subseteq req[p].on \cup rows[t].on
  BY <1>4, <1>6, <1>7, BoundsAssumption DEF Row
<1>9. w # Absent
  <2>1. CASE w = rows[t] /\ req[p].on = {}
    BY <1>3, <2>1
  <2>2. CASE w = [on |-> req[p].on, v |-> writes + 1]
    BY <1>6, <2>2 DEF Absent
  <2> QED
    BY <1>7, <2>1, <2>2
<1> HIDE DEF w
<1>10. /\ rows' \in [Txn -> Row] /\ rows'[t] = w
       /\ \A u \in Txn : u # t => rows'[u] = rows[u]
  BY <1>1, <1>2, <1>4, <1>8 DEF Listed
<1>11. \A q \in Request : q # p => req'[q] = req[q] /\ pc'[q] = pc[q]
  BY <1>1 DEF Commit, Requested
<1>12. /\ DOMAIN req' = Request
       /\ pc' \in [Request -> {"idle", "open", "committed", "answered"}]
       /\ p \notin Own => pc'[p] = "idle"
       /\ p \in Own =>
            /\ pc'[p] = "committed"
            /\ req'[p] \in Begun /\ req'[p].new = w
            /\ req'[p].mode = req[p].mode /\ req'[p].txn = t /\ req'[p].on = req[p].on
            /\ req'[p].old = req[p].old /\ req'[p].touched = req[p].touched
  <2>1. CASE p \in Own
    <3>1. /\ pc' = [pc EXCEPT ![p] = "committed"]
          /\ req' = [req EXCEPT ![p].new = w]
      BY <2>1 DEF Commit, w
    <3>2. req'[p] = [req[p] EXCEPT !.new = w] /\ DOMAIN req' = Request
      BY <1>1, <3>1 DEF Requested
    <3>3. /\ req'[p] \in Begun /\ req'[p].new = w
          /\ req'[p].mode = req[p].mode /\ req'[p].txn = t /\ req'[p].on = req[p].on
          /\ req'[p].old = req[p].old /\ req'[p].touched = req[p].touched
      BY <1>3, <1>8, <3>2 DEF Begun
    <3> QED
      BY <1>1, <2>1, <3>1, <3>2, <3>3 DEF Requested
  <2>2. CASE p \notin Own
    BY <1>1, <2>2 DEF Commit, Requested
  <2> QED
    BY <2>1, <2>2
<1>13. Listed'
  <2>1. \A i \in list : i[1] \in Txn
    BY <1>1, ItemParts DEF Listed
  <2> QED
    BY <1>1, <1>2, <1>9, <1>10, <2>1 DEF Listed
<1>14. Requested'
  <2>1. Cardinality(OpenNow)' + writes' <= MaxWrites
    BY <1>1, <1>2, <1>5, OpenIsFinite DEF Requested
  <2> QED
    BY <1>2, <1>6, <1>12, <2>1 DEF Requested
<1>15. /\ Revised'
       /\ \A a \in Account : revision'[a] = revision[a] + (IF a \in Bumped(p) THEN 1 ELSE 0)
  BY <1>1, <1>2 DEF Revised
<1>16. Writers'
  BY <1>1, <1>2, <1>11, <1>12 DEF Writers, InFlight
<1>17. \A a : a \in Sat(p) => Sits(t, a)
  BY <1>2 DEF Sits
<1>18. OneHome'
  <2>1. ASSUME NEW u \in Txn, NEW a \in Account, Sits(u, a)' PROVE Sits(u, a)
    <3>1. CASE a \in rows'[u].on
      <4>1. CASE u = t
        BY <1>8, <1>10, <1>17, <3>1, <4>1 DEF Sits, Sat
      <4>2. CASE u # t
        BY <1>10, <3>1, <4>2 DEF Sits
      <4> QED
        BY <4>1, <4>2
    <3>2. CASE \E i \in list : i[1] = u /\ a \in i[2].on
      BY <3>2 DEF Sits
    <3>3. CASE \E q \in Request : InFlight(q)' /\ req'[q].txn = u /\ a \in Sat(q)'
      <4>1. PICK q \in Request : InFlight(q)' /\ req'[q].txn = u /\ a \in Sat(q)'
        BY <3>3
      <4>2. InFlight(q) /\ req[q].txn = u /\ a \in Sat(q)
        BY <1>2, <1>11, <1>12, <4>1 DEF InFlight, Sat
      <4> QED
        BY <4>2 DEF Sits
    <3> QED
      BY <1>2, <2>1, <3>1, <3>2, <3>3 DEF Sits
  <2> QED
    BY <1>1, <2>1, HomesAreKept
<1>19. \A a \in Account : a \notin Bumped(p) => Bucket(Stored', a) = Bucket(Stored, a)
  <2>1. Bumped(p) \subseteq Account /\ \A a \in Bumped(p) : Sits(t, a)
    BY <1>3, <1>17 DEF Bumped, Sat, Begun
  <2> TAKE a \in Account
  <2> HAVE a \notin Bumped(p)
  <2>2. ~Sits(t, a) \/ a \notin rows[t].on
    BY <1>1, <1>3, <1>4, <2>1 DEF OneHome
  <2>3. a \notin rows[t].on /\ a \notin req[p].on
    BY <2>2 DEF Sits, Bumped
  <2>4. a \notin rows'[t].on
    BY <1>8, <1>10, <2>3
  <2> QED
    BY <1>4, <1>10, <2>3, <2>4, OtherBucketsAreKept
<1>20. \A a \in Account : Current(a)'
  <2> TAKE a \in Account
  <2> SUFFICES ASSUME known[a] = revision'[a]
               PROVE  Bucket(list, a) = Bucket(Stored', a)
    BY <1>2 DEF Current, Bucket
  <2>1. a \notin Bumped(p) /\ known[a] = revision[a]
    BY <1>1, <1>15 DEF Revised
  <2> QED
    BY <1>1, <1>19, <2>1 DEF Current
<1>21. ASSUME NEW q \in Request, q # p PROVE (Asked(q) /\ OwnKnows(q) /\ Promise(q))'
  <2>1. req'[q] = req[q] /\ pc'[q] = pc[q]
    BY <1>11, <1>21
  <2>2. ~(q \in Own /\ InFlight(q))
    BY <1>1, <1>2, <1>21, OwnIsAlone
  <2>3. req[q] \in Begun /\ rows[req[q].txn] # Absent => rows'[req[q].txn] # Absent
    BY <1>9, <1>10 DEF Begun
  <2>4. Asked(q)'
    BY <1>1, <2>1, <2>3 DEF Asked, Bumped, InFlight
  <2>5. OwnKnows(q)' /\ Promise(q)'
    BY <2>1, <2>2 DEF OwnKnows, Promise, InFlight
  <2> QED
    BY <2>4, <2>5
<1>22. CASE p \notin Own
  <2>1. (Asked(p) /\ OwnKnows(p) /\ Promise(p))'
    BY <1>12, <1>22 DEF Asked, OwnKnows, Promise, InFlight
  <2> QED
    BY <1>13, <1>14, <1>15, <1>16, <1>18, <1>20, <1>21, <2>1 DEF PageFollows
<1>23. CASE p \in Own
  <2>1. IF req[p].mode = "add" THEN rows[t] = Absent ELSE rows[t].on # {}
    BY <1>1, <1>2, <1>23 DEF OwnKnows
  <2>2. w = [on |-> req[p].on, v |-> writes + 1]
    BY <1>3, <1>7, <2>1
  <2>3. Asked(p)'
    BY <1>3, <1>9, <1>10, <1>12, <1>23 DEF Asked, Bumped
  <2>4. OwnKnows(p)'
    <3>1. req[p].mode = "add" => \A i \in list : i[1] # t
      BY <1>1, <2>1 DEF Listed
    <3> QED
      BY <1>2, <1>9, <1>10, <1>12, <1>23, <2>2, <3>1 DEF OwnKnows
  <2>5. \A i \in list \cup Stored : i[1] = t => i[2].on = Homes(t)
    BY <1>1, RowsSitAtHome
  <2>6. req'[p].new.on \subseteq Homes(t)
    BY <1>4, <1>12, <1>17, <1>23, <2>2 DEF Homes, Sat
  <2>7. Patch(req'[p], Stored) = Stored'
    <3>1. Patch(req'[p], StoredOf(rows)) = StoredOf(rows')
      <4>1. req'[p].new.on = req[p].on
        BY <1>12, <1>23, <2>2
      <4>2. rows[t].on = {} <=> req[p].mode = "add"
        BY <2>1 DEF Absent
      <4> QED
        BY <1>3, <1>4, <1>8, <1>10, <1>12, <1>23, <4>1, <4>2, PatchIsTheWrite
    <3> QED
      BY <3>1, StoredIsStoredOf
  <2>8. ASSUME NEW a \in Account, known[a] = revision[a]
        PROVE  Bucket(Patch(req'[p], list), a) = Bucket(Stored', a)
    <3>1. Bucket(list, a) = Bucket(Stored, a)
      BY <1>1, <2>8 DEF Current
    <3>2. Bucket(Patch(req'[p], list), a) = Bucket(Patch(req'[p], Stored), a)
      BY <1>4, <1>12, <1>23, <2>5, <2>6, <3>1, PatchGoesByBuckets
    <3> QED
      BY <2>7, <3>2
  <2>9. Promise(p)'
    <3>1. Patched(p)' = Patch(req'[p], list)
      BY <1>2 DEF Patched, Patch
    <3>2. Bumped(p)' = Bumped(p)
      BY <1>12, <1>23 DEF Bumped
    <3>3. ASSUME NEW a \in Account,
                 known[a] = revision'[a] \/ (a \in Bumped(p) /\ known[a] + 1 = revision'[a])
          PROVE  known[a] = revision[a]
      BY <1>1, <1>15, <3>3 DEF Revised
    <3>4. \A a \in Account :
            known[a] = revision'[a] \/ (a \in Bumped(p) /\ known[a] + 1 = revision'[a])
                => Bucket(Patch(req'[p], list), a) = Bucket(Stored', a)
      BY <2>8, <3>3
    <3>5. (\A a \in Account :
            known[a] = revision[a] \/ (a \in Bumped(p) /\ known[a] + 1 = revision[a])
                => Bucket(Patched(p), a) = Bucket(Stored, a))'
      BY <1>2, <3>1, <3>2, <3>4 DEF Bucket
    <3> QED
      BY <3>5 DEF Promise
  <2> QED
    BY <1>13, <1>14, <1>15, <1>16, <1>18, <1>20, <1>21, <2>3, <2>4, <2>9 DEF PageFollows
<1> QED
  BY <1>22, <1>23

\* Steps that touch neither the server, nor the list, nor the revisions held.
LEMMA QuietIsFollowed ==
    ASSUME PageFollows, UNCHANGED <<server, known, list>>,
           sync'.stage = "reading" => sync'.revs = revision \/ sync' = sync
    PROVE  PageFollows'
<1>1. /\ Listed /\ Requested /\ Revised /\ Writers /\ OneHome
      /\ \A q \in Request : Asked(q) /\ OwnKnows(q) /\ Promise(q)
      /\ \A a \in Account : Current(a)
      /\ UNCHANGED <<active, rows, revision, writes, pc, req, known, list>>
  BY DEF PageFollows, server
<1>2. Listed' /\ Requested' /\ Writers' /\ OneHome'
  BY <1>1 DEF Listed, Requested, Writers, OneHome, OpenNow, InFlight, Sits, Sat
<1>3. Revised'
  BY <1>1 DEF Revised
<1>4. ASSUME NEW q \in Request PROVE (Asked(q) /\ OwnKnows(q) /\ Promise(q))'
  <2>1. Asked(q) /\ OwnKnows(q) /\ Promise(q)
    BY <1>1
  <2>2. Asked(q)' /\ OwnKnows(q)'
    BY <1>1, <2>1 DEF Asked, OwnKnows, Bumped, InFlight
  <2>3. Promise(q)'
    BY <1>1, <2>1 DEF Promise, Bumped, Patched, Stored, Bucket
  <2> QED
    BY <2>2, <2>3
<1>5. \A a \in Account : Current(a)'
  BY <1>1 DEF Current, Stored, Bucket
<1> QED
  BY <1>1, <1>2, <1>3, <1>4, <1>5 DEF PageFollows

\* The answer reads the revisions: nobody has written since.
LEMMA EmbedIsFollowed ==
    ASSUME PageFollows, NEW p \in Request, Embed(p)
    PROVE  PageFollows'
<1>1. /\ Listed /\ Requested /\ Revised /\ Writers /\ OneHome
      /\ \A q \in Request : Asked(q) /\ OwnKnows(q) /\ Promise(q)
      /\ \A a \in Account : Current(a)
  BY DEF PageFollows
<1>2. /\ pc[p] = "committed" /\ pc' = [pc EXCEPT ![p] = "answered"]
      /\ req' = [req EXCEPT ![p].revs = revision]
      /\ UNCHANGED <<active, rows, revision, writes, known, list, cache, sync>>
  BY DEF Embed, client
<1>3. InFlight(p) /\ p \in Own /\ req[p] \in Begun
  BY <1>1, <1>2 DEF InFlight, Writers, Asked
<1>4. req'[p] = [req[p] EXCEPT !.revs = revision] /\ DOMAIN req' = Request
  BY <1>1, <1>2 DEF Requested
<1>5. /\ req'[p] \in Begun /\ req'[p].revs = revision
      /\ req'[p].mode = req[p].mode /\ req'[p].txn = req[p].txn /\ req'[p].on = req[p].on
      /\ req'[p].old = req[p].old /\ req'[p].touched = req[p].touched
      /\ req'[p].new = req[p].new
  BY <1>1, <1>3, <1>4 DEF Begun, Revised
<1>6. \A q \in Request : q # p => req'[q] = req[q] /\ pc'[q] = pc[q]
  BY <1>1, <1>2 DEF Requested
<1>7. pc'[p] = "answered"
  BY <1>1, <1>2 DEF Requested
<1>8. Listed' /\ Revised' /\ Writers'
  BY <1>1, <1>2, <1>3, <1>6, <1>7 DEF Listed, Revised, Writers, InFlight
<1>9. Requested'
  <2>1. OpenNow' = OpenNow
    BY <1>2, <1>6, <1>7 DEF OpenNow
  <2> QED
    BY <1>1, <1>2, <1>4, <2>1 DEF Requested
<1>10. OneHome'
  <2>1. \A q \in Request : /\ InFlight(q)' <=> InFlight(q)
                           /\ req'[q].txn = req[q].txn /\ Sat(q)' = Sat(q)
    BY <1>2, <1>5, <1>6, <1>7 DEF InFlight, Sat
  <2>2. \A t \in Txn : \A a \in Account : Sits(t, a)' => Sits(t, a)
    BY <1>2, <2>1 DEF Sits
  <2> QED
    BY <1>1, <2>2, HomesAreKept
<1>11. ASSUME NEW q \in Request PROVE (Asked(q) /\ OwnKnows(q) /\ Promise(q))'
  <2>1. Asked(q) /\ OwnKnows(q) /\ Promise(q)
    BY <1>1
  <2>2. Asked(q)' /\ OwnKnows(q)'
    BY <1>2, <1>3, <1>5, <1>6, <1>7, <2>1 DEF Asked, OwnKnows, Bumped, InFlight
  <2>3. Patched(q)' = Patched(q) /\ Bumped(q)' = Bumped(q)
    <3>1. /\ req'[q].mode = req[q].mode /\ req'[q].txn = req[q].txn
          /\ req'[q].new = req[q].new
          /\ req'[q].touched = req[q].touched /\ req'[q].on = req[q].on
      BY <1>5, <1>6
    <3> QED
      BY <1>2, <3>1, Zenon DEF Patched, Bumped
  <2>4. Stored' = Stored
    BY <1>2 DEF Stored
  <2>5. Promise(q)'
    BY <1>2, <1>6, <1>7, <2>1, <2>3, <2>4 DEF Promise, Bucket
  <2> QED
    BY <2>2, <2>5
<1>12. \A a \in Account : Current(a)'
  BY <1>1, <1>2 DEF Current, Stored, Bucket
<1> QED
  BY <1>8, <1>9, <1>10, <1>11, <1>12 DEF PageFollows

\* The one request in flight is over: nothing is asked any more.
LEMMA DoneLeavesNothing ==
    ASSUME Requested, Writers, NEW p \in Own, p \in Request, pc[p] = "answered", Done(p)
    PROVE  /\ Requested' /\ Writers'
           /\ \A q \in Request : ~InFlight(q)' /\ (Asked(q) /\ OwnKnows(q) /\ Promise(q))'
           /\ UNCHANGED <<active, rows, revision, writes>>
<1>1. /\ pc' = [pc EXCEPT ![p] = "idle"] /\ DOMAIN req' = Request
      /\ UNCHANGED <<active, rows, revision, writes>>
  BY DEF Done, Requested
<1>2. \A q \in Request : pc'[q] = "idle"
  BY <1>1, OwnIsAlone DEF Requested, InFlight
<1>3. OpenNow' = OpenNow
  BY <1>1, <1>2 DEF OpenNow, Requested
<1>4. Requested'
  BY <1>1, <1>3 DEF Requested
<1> QED
  BY <1>1, <1>2, <1>4 DEF Writers, InFlight, Asked, OwnKnows, Promise

\* The answer is lost: the page stays behind on what it wrote.
LEMMA LoseIsFollowed ==
    ASSUME PageFollows, NEW p \in Request, p \in Own, Lose(p)
    PROVE  PageFollows'
<1>1. /\ Listed /\ Requested /\ Revised /\ Writers /\ OneHome
      /\ \A a \in Account : Current(a)
      /\ pc[p] = "answered" /\ Done(p) /\ UNCHANGED <<known, list, cache, sync>>
  BY DEF PageFollows, Lose, client
<1>2. /\ Requested' /\ Writers'
      /\ \A q \in Request : ~InFlight(q)' /\ (Asked(q) /\ OwnKnows(q) /\ Promise(q))'
      /\ UNCHANGED <<active, rows, revision, writes>>
  BY <1>1, DoneLeavesNothing
<1>3. Listed' /\ Revised'
  BY <1>1, <1>2 DEF Listed, Revised
<1>4. \A t \in Txn : \A a \in Account : Sits(t, a)' => Sits(t, a)
  BY <1>1, <1>2 DEF Sits
<1>5. \A a \in Account : Current(a)'
  BY <1>1, <1>2 DEF Current, Stored, Bucket
<1> QED
  BY <1>1, <1>2, <1>3, <1>4, <1>5, HomesAreKept DEF PageFollows

\* The answer arrives: where it is one ahead it makes the bucket the server's,
\* because all that it touches is what the write bumped.
LEMMA ReceiveIsFollowed ==
    ASSUME PageFollows, NEW p \in Request, p \in Own, Receive(p)
    PROVE  PageFollows'
<1> DEFINE t == req[p].txn
           r == req[p]
<1>1. /\ Listed /\ Requested /\ Revised /\ Writers /\ OneHome
      /\ \A q \in Request : Asked(q) /\ OwnKnows(q) /\ Promise(q)
      /\ \A a \in Account : Current(a)
  BY DEF PageFollows
<1>2. /\ pc[p] = "answered" /\ Done(p) /\ InFlight(p)
      /\ known' = [a \in Account |->
                    IF a \in Touched(p) /\ Whole(a, r.revs[a]) THEN r.revs[a] ELSE known[a]]
      /\ list' = Patch(r, list)
      /\ sync'.stage # "reading"
  BY PatchedIsPatch DEF Receive, InFlight, Due, Idle
<1>3. /\ Requested' /\ Writers'
      /\ \A q \in Request : ~InFlight(q)' /\ (Asked(q) /\ OwnKnows(q) /\ Promise(q))'
      /\ UNCHANGED <<active, rows, revision, writes>>
  BY <1>1, <1>2, DoneLeavesNothing
<1>4. /\ r \in Begun /\ Bumped(p) # {}
      /\ r.mode = "delete" <=> r.on = {}
      /\ r.new = rows[t] /\ rows[t] # Absent /\ r.new.on = r.on /\ r.revs = revision
      /\ r.mode = "add" => \A i \in list : i[1] = t => i[2] = r.new
  BY <1>1, <1>2 DEF Asked, OwnKnows
<1>5. \A a : a \in Sat(p) => Sits(t, a)
  BY <1>2 DEF Sits
<1>6. \A i \in list' : \/ i \in list /\ (i[1] = t => r.mode = "add")
                       \/ i = <<t, r.new>> /\ r.mode # "delete"
  BY <1>2, <1>4 DEF Patch, Begun
<1>7. <<t, r.new>> \in Item /\ <<t, r.new>>[1] = t /\ <<t, r.new>>[2] = r.new
  BY <1>4 DEF Begun, Item
<1>8. Listed'
  <2>1. list' \subseteq Item /\ \A i \in list' : i[2].on # {} /\ rows[i[1]] # Absent
    BY <1>1, <1>4, <1>6, <1>7 DEF Listed
  <2>2. ASSUME NEW i \in list', NEW j \in list', i[1] = j[1] PROVE i = j
    <3>1. i \in Item /\ j \in Item
      BY <2>1
    <3>2. CASE i[1] = t
      <4>1. i[2] = r.new /\ j[2] = r.new
        BY <1>4, <1>6, <1>7, <2>2, <3>2
      <4> QED
        BY <2>2, <3>1, <4>1, ItemParts
    <3>3. CASE i[1] # t
      BY <1>1, <1>6, <1>7, <2>2, <3>3 DEF Listed
    <3> QED
      BY <3>2, <3>3
  <2> QED
    BY <1>1, <1>3, <2>1, <2>2 DEF Listed
<1>9. \A a \in Account : known'[a] = known[a]
            \/ (a \in Touched(p) /\ known[a] + 1 = revision[a] /\ known'[a] = revision[a])
  BY <1>2, <1>4 DEF Whole
<1>10. Revised'
  <2>1. known' \in [Account -> Nat]
    BY <1>1, <1>2, <1>4 DEF Revised
  <2>2. \A a \in Account : known'[a] <= revision[a]
    BY <1>1, <1>9 DEF Revised
  <2> QED
    BY <1>1, <1>2, <1>3, <2>1, <2>2 DEF Revised
<1>11. OneHome'
  <2>1. ASSUME NEW u \in Txn, NEW a \in Account, Sits(u, a)' PROVE Sits(u, a)
    <3>1. CASE a \in rows[u].on
      BY <3>1 DEF Sits
    <3>2. CASE \E i \in list' : i[1] = u /\ a \in i[2].on
      BY <1>4, <1>5, <1>6, <1>7, <3>2 DEF Sits, Sat
    <3> QED
      BY <1>3, <2>1, <3>1, <3>2 DEF Sits
  <2> QED
    BY <1>1, <2>1, HomesAreKept
<1>12. \A a \in Account : a \in Touched(p) => a \in Bumped(p)
  <2> TAKE a \in Account
  <2> HAVE a \in Touched(p)
  <2>1. a \in r.old.on \/ a \in r.new.on \/ \E i \in list : i[1] = t /\ a \in i[2].on
    BY DEF Touched
  <2>2. Sits(t, a)
    BY <1>4, <1>5, <2>1 DEF Sits, Sat
  <2>3. PICK b \in Bumped(p) : TRUE
    BY <1>4
  <2>4. b \in Account /\ t \in Txn /\ Sits(t, b)
    BY <1>4, <1>5, <2>3 DEF Bumped, Begun, Sat
  <2> QED
    BY <1>1, <2>2, <2>3, <2>4 DEF OneHome
<1>13. \A a \in Account : Current(a)'
  <2> TAKE a \in Account
  <2>1. Stored' = Stored
    BY <1>3 DEF Stored
  <2>2. known'[a] = revision[a]
            => known[a] = revision[a] \/ (a \in Bumped(p) /\ known[a] + 1 = revision[a])
    BY <1>9, <1>12
  <2>3. known'[a] = revision[a] => Bucket(Patch(r, list), a) = Bucket(Stored, a)
    BY <1>1, <1>2, <2>2, PatchedIsPatch DEF Promise
  <2> QED
    BY <1>2, <1>3, <2>1, <2>3 DEF Current, Bucket
<1> QED
  BY <1>3, <1>8, <1>10, <1>11, <1>13 DEF PageFollows

\* A sync lands: what it downloaded is the server's now, what it kept is as
\* true as it was, and an answer still under way is as good for either.
LEMMA LandIsFollowed ==
    ASSUME PageFollows, Land
    PROVE  PageFollows'
<1> DEFINE buckets == [a \in Account |-> Bucket(IF a \in sync.stale THEN Stored ELSE list, a)]
<1>1. /\ Listed /\ Requested /\ Revised /\ Writers /\ OneHome
      /\ \A q \in Request : Asked(q) /\ OwnKnows(q) /\ Promise(q)
      /\ \A a \in Account : Current(a)
  BY DEF PageFollows
<1>2. /\ sync.stage = "reading"
      /\ list' = Assemble(buckets)
      /\ known' = [a \in Account |-> IF a \in sync.stale THEN sync.revs[a] ELSE known[a]]
      /\ sync'.stage # "reading"
      /\ UNCHANGED <<active, rows, revision, writes, pc, req, cache>>
  BY DEF Land, Label, Due, Idle, server
<1>3. \A a \in Account : /\ a \in sync.stale => buckets[a] = Bucket(Stored, a)
                         /\ a \notin sync.stale => buckets[a] = Bucket(list, a)
  OBVIOUS
<1> HIDE DEF buckets
<1>4. \A a \in Account : \A i \in buckets[a] : i \in list \cup Stored /\ a \in i[2].on
  BY <1>3 DEF Bucket
<1>5. \A i \in list \cup Stored : /\ i \in Item /\ i[1] \in Txn /\ i[2].on # {}
                                  /\ i[2].on = Homes(i[1])
                                  /\ \E a \in Account : i[2].on = {a}
  BY <1>1, RowsSitAtHome
<1>6. \A i, j \in Stored : i[1] = j[1] => i = j
  BY ItemParts DEF Stored
<1>7. /\ \A i : i \in list' <=> \E a \in Account : i \in buckets[a]
      /\ \A a \in Account : Bucket(list', a) = buckets[a]
  <2>1. \A a \in Account : buckets[a] \subseteq Item
    BY <1>4, <1>5
  <2>2. \A a, b \in Account : \A i \in buckets[a] : b \in i[2].on <=> a = b
    BY <1>4, <1>5
  <2>3. ASSUME NEW a \in Account, NEW b \in Account,
               NEW i \in buckets[a], NEW j \in buckets[b], i[1] = j[1]
        PROVE  i = j
    <3>1. i[2].on = j[2].on
      BY <1>4, <1>5, <2>3
    <3>2. a = b
      BY <1>4, <2>2, <3>1
    <3> QED
      BY <1>1, <1>3, <1>6, <2>3, <3>2 DEF Listed, Bucket
  <2> QED
    BY <1>2, <2>1, <2>2, <2>3, AssembleKeepsBuckets
<1>8. list' \subseteq list \cup Stored
  BY <1>4, <1>7
<1>9. \A i \in Stored : i[2] = rows[i[1]] /\ rows[i[1]] # Absent
  BY DEF Stored, Absent
<1>10. Listed'
  <2>1. list' \subseteq Item /\ \A i \in list' : i[2].on # {} /\ rows[i[1]] # Absent
    BY <1>1, <1>5, <1>8, <1>9 DEF Listed
  <2>2. ASSUME NEW i \in list', NEW j \in list', i[1] = j[1] PROVE i = j
    <3>1. PICK a \in Account : i \in buckets[a]
      BY <1>7
    <3>2. PICK b \in Account : j \in buckets[b]
      BY <1>7
    <3>3. i[2].on = j[2].on /\ a \in i[2].on /\ b \in j[2].on
      BY <1>4, <1>5, <2>2, <3>1, <3>2
    <3>4. a = b
      BY <1>4, <1>5, <3>1, <3>3
    <3> QED
      BY <1>1, <1>3, <1>6, <2>2, <3>1, <3>2, <3>4 DEF Listed, Bucket
  <2> QED
    BY <1>1, <1>2, <2>1, <2>2 DEF Listed
<1>11. Requested' /\ Writers'
  BY <1>1, <1>2 DEF Requested, Writers, OpenNow, InFlight
<1>12. Revised'
  BY <1>1, <1>2 DEF Revised
<1>13. \A t \in Txn : \A a \in Account : Sits(t, a)' => Sits(t, a)
  <2>1. \A i \in list' : \A a \in i[2].on : Sits(i[1], a)
    BY <1>5, <1>8 DEF Homes
  <2> QED
    BY <1>2, <2>1 DEF Sits, InFlight, Sat
<1>14. OneHome'
  BY <1>1, <1>13, HomesAreKept
<1>15. \A a \in Account : Current(a)'
  <2> TAKE a \in Account
  <2> SUFFICES ASSUME known'[a] = revision[a] PROVE buckets[a] = Bucket(Stored, a)
    BY <1>2, <1>7 DEF Current, Bucket, Stored
  <2> QED
    BY <1>1, <1>2, <1>3 DEF Current
<1>16. ASSUME NEW q \in Request PROVE (Asked(q) /\ OwnKnows(q) /\ Promise(q))'
  <2> DEFINE r == req[q]
             t == req[q].txn
  <2>1. Asked(q) /\ OwnKnows(q) /\ Promise(q)
    BY <1>1
  <2>2. Asked(q)'
    BY <1>2, <2>1 DEF Asked, Bumped, InFlight
  <2>3. OwnKnows(q)'
    <3>1. ASSUME q \in Own, InFlight(q), pc[q] # "open", r.mode = "add",
                 NEW i \in list', i[1] = t
          PROVE  i[2] = r.new
      <4>1. CASE i \in list
        BY <2>1, <3>1, <4>1 DEF OwnKnows
      <4>2. CASE i \in Stored
        BY <1>9, <2>1, <3>1, <4>2 DEF OwnKnows
      <4> QED
        BY <1>8, <4>1, <4>2
    <3> QED
      BY <1>2, <2>1, <3>1 DEF OwnKnows, InFlight
  <2>4. Promise(q)'
    <3>1. Patched(q)' = Patch(r, list') /\ Bumped(q)' = Bumped(q) /\ Stored' = Stored
      BY <1>2 DEF Patched, Patch, Bumped, Stored
    <3>2. ASSUME q \in Own, pc[q] \in {"committed", "answered"}, NEW a \in Account,
                 known'[a] = revision[a] \/ (a \in Bumped(q) /\ known'[a] + 1 = revision[a])
          PROVE  Bucket(Patch(r, list'), a) = Bucket(Stored, a)
      <4>1. /\ r \in Begun /\ InFlight(q)
            /\ r.mode = "delete" <=> r.on = {}
            /\ r.new = rows[t] /\ r.new.on = r.on
        BY <2>1, <3>2 DEF Asked, OwnKnows, InFlight
      <4>2. t \in Txn /\ r.new \in Row /\ r.mode \in {"add", "update", "delete"}
        BY <4>1 DEF Begun
      <4>3. r.new.on \subseteq Homes(t)
        <5>1. r.on \subseteq Account /\ \A b \in r.on : Sits(t, b)
          BY <4>1 DEF Begun, Sits, Sat
        <5> QED
          BY <4>1, <5>1 DEF Homes
      <4>4. \A i \in list \cup Stored \cup list' : i[1] = t => i[2].on = Homes(t)
        BY <1>5, <1>8
      <4>5. CASE a \in sync.stale
        <5>1. Bucket(list', a) = Bucket(Stored, a)
          BY <1>3, <1>7, <4>5
        <5>2. Bucket(Patch(r, list'), a) = Bucket(Patch(r, Stored), a)
          <6>1. \A i \in list' \cup Stored : i[1] = r.txn => i[2].on = Homes(t)
            BY <4>4
          <6> HIDE DEF r
          <6> QED
            BY <4>2, <4>3, <5>1, <6>1, PatchGoesByBuckets
        <5>3. Patch(r, StoredOf(rows)) = StoredOf(rows)
          BY <4>1, <4>2, PatchIsTheWrite
        <5> QED
          BY <5>2, <5>3, StoredIsStoredOf
      <4>6. CASE a \notin sync.stale
        <5>1. Bucket(list', a) = Bucket(list, a)
          BY <1>3, <1>7, <4>6
        <5>2. Bucket(Patch(r, list'), a) = Bucket(Patch(r, list), a)
          <6>1. \A i \in list' \cup list : i[1] = r.txn => i[2].on = Homes(t)
            BY <4>4
          <6> HIDE DEF r
          <6> QED
            BY <4>2, <4>3, <5>1, <6>1, PatchGoesByBuckets
        <5>3. Bucket(Patch(r, list), a) = Bucket(Stored, a)
          BY <1>2, <2>1, <3>2, <4>6, PatchedIsPatch DEF Promise
        <5> QED
          BY <5>2, <5>3
      <4> QED
        BY <4>5, <4>6
    <3>3. (q \in Own /\ pc[q] \in {"committed", "answered"} =>
            \A a \in Account :
                known[a] = revision[a] \/ (a \in Bumped(q) /\ known[a] + 1 = revision[a])
                    => Bucket(Patched(q), a) = Bucket(Stored, a))'
      BY <1>2, <3>1, <3>2 DEF Bucket
    <3> QED
      BY <3>3 DEF Promise
  <2> QED
    BY <2>2, <2>3, <2>4
<1> QED
  BY <1>10, <1>11, <1>12, <1>14, <1>15, <1>16 DEF PageFollows

\* At the start the list is the server's and nobody writes.
LEMMA InitFollows ==
    ASSUME NoTransfers, OneWriter, Init
    PROVE  PageFollows
<1>1. /\ active \in Mixes
      /\ rows \in [Txn -> {Absent} \cup {[on |-> s, v |-> 0] : s \in Shapes}]
      /\ revision = [a \in Account |-> 0] /\ known = revision /\ writes = 0
      /\ pc = [p \in Request |-> "idle"] /\ DOMAIN req = Request
      /\ list = Stored /\ sync.stage = "idle"
  BY DEF Init, Idle
<1>2. Listed
  <2>1. \A u \in {Absent} \cup {[on |-> s, v |-> 0] : s \in Shapes} : u \in Row
    BY ShapesAssumption, BoundsAssumption DEF Absent, Row
  <2>2. rows \in [Txn -> Row]
    BY <1>1, <2>1
  <2>3. \A i \in list : i \in Item /\ i[2] = rows[i[1]] /\ i[2].on # {} /\ rows[i[1]] # Absent
    BY <1>1 DEF Stored, Absent
  <2> QED
    BY <2>2, <2>3, ItemParts DEF Listed
<1>3. Requested
  <2>1. OpenNow = {}
    BY <1>1 DEF OpenNow
  <2>2. Cardinality(OpenNow) = 0
    BY <2>1, FS_EmptySet
  <2> QED
    BY <1>1, <2>2, BoundsAssumption DEF Requested
<1>4. Revised
  BY <1>1 DEF Revised
<1>5. \A p \in Request : ~InFlight(p) /\ pc[p] = "idle"
  BY <1>1 DEF InFlight
<1>6. Writers
  BY <1>1, <1>5 DEF Writers, OneWriter
<1>7. OneHome
  <2>1. ASSUME NEW t \in Txn, NEW a \in Account, Sits(t, a) PROVE a \in rows[t].on
    BY <1>1, <1>5, <2>1 DEF Sits, Stored
  <2>2. \A t \in Txn : \A a, b \in rows[t].on : a = b
    <3> TAKE t \in Txn
    <3>1. rows[t].on = {} \/ rows[t].on \in Shapes
      BY <1>1 DEF Absent
    <3> QED
      BY <3>1 DEF NoTransfers
  <2> QED
    BY <2>1, <2>2 DEF OneHome
<1>8. \A p \in Request : Asked(p) /\ OwnKnows(p) /\ Promise(p)
  BY <1>5 DEF Asked, OwnKnows, Promise
<1>9. \A a \in Account : Current(a)
  BY <1>1 DEF Current
<1> QED
  BY <1>2, <1>3, <1>4, <1>6, <1>7, <1>8, <1>9 DEF PageFollows

\* Every step of the server and of the page keeps the page following.
LEMMA StepFollows ==
    ASSUME MayMove = FALSE, NoTransfers, PageFollows, [Next]_vars
    PROVE  PageFollows'
<1>1. ASSUME NEW p \in Request, Add(p) PROVE PageFollows'
  <2>1. PICK t \in Txn, on \in Shapes : Fresh(t) /\ Begin(p, "add", t, on)
    BY <1>1 DEF Add
  <2> QED
    BY <2>1, BeginIsFollowed
<1>2. ASSUME NEW p \in Request, Update(p) PROVE PageFollows'
  <2>1. PICK t \in Txn, on \in Shapes :
            rows[t].on # {} /\ on = rows[t].on /\ Begin(p, "update", t, on)
    BY <1>2 DEF Update, Editable
  <2> QED
    BY <2>1, BeginIsFollowed
<1>3. ASSUME NEW p \in Request, Delete(p) PROVE PageFollows'
  <2>1. PICK t \in Txn : rows[t].on # {} /\ Begin(p, "delete", t, {})
    BY <1>3 DEF Delete, Editable
  <2> QED
    BY <2>1, BeginIsFollowed
<1>4. ASSUME NEW p \in Request, Serve(p) PROVE PageFollows'
  BY <1>4, CommitIsFollowed, EmbedIsFollowed DEF Serve
<1>5. ASSUME NEW p \in Request, Answer(p) PROVE PageFollows'
  BY <1>5, ReceiveIsFollowed, LoseIsFollowed DEF Answer
<1>6. CASE Refetch \/ Invalidate \/ Download \/ Fail \/ UNCHANGED vars
  <2>1. UNCHANGED <<server, known, list>>
    BY <1>6 DEF Refetch, Invalidate, Download, Fail, vars, server
  <2>2. sync'.stage = "reading" => sync'.revs = revision \/ sync' = sync
    BY <1>6 DEF Refetch, Invalidate, Download, Fail, vars, Due, Idle
  <2> QED
    BY <2>1, <2>2, QuietIsFollowed
<1>7. CASE Land
  BY <1>7, LandIsFollowed
<1> QED
  BY <1>1, <1>2, <1>3, <1>4, <1>5, <1>6, <1>7 DEF Next

\* What the page holds on every account is what it holds.
LEMMA FollowingIsTrue == PageFollows => UpToDateIsTrue
<1> SUFFICES ASSUME PageFollows, known = revision PROVE list = Stored
  BY DEF UpToDateIsTrue
<1>1. Listed /\ OneHome /\ \A a \in Account : Bucket(list, a) = Bucket(Stored, a)
  BY DEF PageFollows, Current
<1>2. ASSUME NEW i \in list \cup Stored PROVE i \in list /\ i \in Stored
  <2>1. PICK a \in Account : a \in i[2].on
    BY <1>1, RowsSitAtHome
  <2> QED
    BY <1>1, <2>1 DEF Bucket
<1> QED
  BY <1>2

\* "Never a stale cache": a page whose account is written to by other devices
\* only, or by itself one write at a time, holds the server's list whenever the
\* revisions say so, on either engine and for any accounts and transactions, as
\* long as no row is a transfer or moves to another account.
THEOREM ThePageIsTrueAlone ==
    ASSUME MayMove = FALSE, NoTransfers, OneWriter
    PROVE  Spec => []UpToDateIsTrue
<1>1. Init => PageFollows
  BY InitFollows
<1>2. PageFollows /\ [Next]_vars => PageFollows'
  BY StepFollows
<1> QED
  BY <1>1, <1>2, FollowingIsTrue, PTL DEF Spec

------------------------------------------------------------------------------
(* Types *)

\* Every variable has its type, and each transaction that is open may still
\* commit within the bound.
TypeInv == TypeOK /\ Cardinality(OpenNow) + writes <= MaxWrites

Requests == [mode : {"none", "add", "update", "delete"}, txn : Txn, on : SUBSET Account,
             old : Row, new : Row, touched : SUBSET Account, revs : [Account -> Nat]]

\* What is asked has its type.
LEMMA RequestsHaveTypes == TypeOK => req \in [Request -> Requests]
BY DEF TypeOK, Requests

\* The records at rest.
LEMMA ConstantsHaveTypes ==
    ASSUME Txn # {}
    PROVE  /\ Absent \in Row /\ Absent.on = {}
           /\ [a \in Account |-> 0] \in [Account -> Nat]
           /\ NoRequest \in Requests
           /\ {Idle, Due} \subseteq [stage : {"idle", "due", "reading"}, accounts : [Account -> Nat],
                                     stale : SUBSET Account, revs : [Account -> Nat]]
<1>1. Absent \in Row /\ Absent.on = {}
  BY BoundsAssumption DEF Absent, Row
<1>2. (CHOOSE t \in Txn : TRUE) \in Txn
  OBVIOUS
<1> QED
  BY <1>1, <1>2 DEF NoRequest, Idle, Due, Requests

\* A request that begins takes one of the writes that are left.
LEMMA BeginHasTypes ==
    ASSUME Txn # {}, TypeInv, NEW p \in Request, NEW mode \in {"add", "update", "delete"},
           NEW t \in Txn, NEW on \in SUBSET Account, Begin(p, mode, t, on)
    PROVE  TypeInv'
<1> DEFINE r == [NoRequest EXCEPT !.mode = mode, !.txn = t, !.on = on,
                                  !.old = rows[t], !.touched = rows[t].on]
<1>1. /\ pc[p] = "idle" /\ Cardinality(OpenNow) + writes < MaxWrites
      /\ pc' = [pc EXCEPT ![p] = "open"] /\ req' = [req EXCEPT ![p] = r]
      /\ UNCHANGED <<active, rows, revision, writes, known, list, cache, sync>>
  BY DEF Begin, OpenNow, client
<1>2. rows[t] \in Row /\ rows[t].on \subseteq Account
  BY DEF TypeInv, TypeOK, Row
<1>3. r \in Requests
  BY <1>2, ConstantsHaveTypes DEF Requests
<1> HIDE DEF r
<1>4. TypeOK'
  BY <1>1, <1>3 DEF TypeInv, TypeOK, Requests
<1>5. OpenNow' = OpenNow \cup {p} /\ p \notin OpenNow
  BY <1>1 DEF OpenNow, TypeInv, TypeOK
<1>6. Cardinality(OpenNow') = Cardinality(OpenNow) + 1
  BY <1>5, OpenIsFinite, FS_AddElement
<1>7. Cardinality(OpenNow)' + writes' <= MaxWrites
  BY <1>1, <1>6, OpenIsFinite, BoundsAssumption DEF TypeInv, TypeOK
<1> QED
  BY <1>4, <1>7 DEF TypeInv

\* A commit writes a version within the bound.
LEMMA CommitHasTypes ==
    ASSUME Txn # {}, TypeInv, NEW p \in Request, Commit(p)
    PROVE  TypeInv'
<1> DEFINE w == Written(p)
           t == req[p].txn
<1>1. /\ pc[p] = "open" /\ rows' = [rows EXCEPT ![t] = w] /\ writes' = writes + 1
      /\ revision' = [a \in Account |-> revision[a] + (IF a \in Bumped(p) THEN 1 ELSE 0)]
      /\ UNCHANGED <<active, known, list, cache, sync>>
  BY DEF Commit, client
<1>2. /\ t \in Txn /\ req[p].on \subseteq Account /\ rows[t] \in Row
      /\ writes \in Nat
  BY DEF TypeInv, TypeOK
<1>3. /\ OpenNow' = OpenNow \ {p}
      /\ Cardinality(OpenNow') = Cardinality(OpenNow) - 1
      /\ Cardinality(OpenNow) >= 1
  <2>1. p \in OpenNow
    BY <1>1 DEF OpenNow
  <2>2. OpenNow' = OpenNow \ {p}
    BY DEF OpenNow, Commit, TypeInv, TypeOK
  <2>3. Cardinality(OpenNow \ {p}) = Cardinality(OpenNow) - 1
    BY <2>1, OpenIsFinite, FS_RemoveElement
  <2>4. Cardinality(OpenNow \ {p}) \in Nat
    BY OpenIsFinite, FS_RemoveElement, FS_CardinalityType
  <2> QED
    BY <2>2, <2>3, <2>4, OpenIsFinite
<1>4. writes + 1 <= MaxWrites /\ Cardinality(OpenNow)' + writes' <= MaxWrites
  BY <1>1, <1>2, <1>3, OpenIsFinite, BoundsAssumption DEF TypeInv
<1>5. w \in Row
  BY <1>2, <1>4, BoundsAssumption DEF Written, Row
<1> HIDE DEF w
<1>6. rows' \in [Txn -> Row] /\ revision' \in [Account -> Nat] /\ writes' \in 0 .. MaxWrites
  BY <1>1, <1>2, <1>4, <1>5, BoundsAssumption DEF TypeInv, TypeOK
<1>7. /\ pc' \in [Request -> {"idle", "open", "committed", "answered"}]
      /\ req' \in [Request -> Requests]
  <2>1. CASE p \in Own
    <3>1. pc' = [pc EXCEPT ![p] = "committed"] /\ req' = [req EXCEPT ![p].new = w]
      BY <2>1 DEF Commit, w
    <3>2. [req[p] EXCEPT !.new = w] \in Requests
      BY <1>5, RequestsHaveTypes DEF TypeInv, Requests
    <3> QED
      BY <3>1, <3>2, RequestsHaveTypes DEF TypeInv, TypeOK
  <2>2. CASE p \notin Own
    BY <2>2, ConstantsHaveTypes, RequestsHaveTypes DEF Commit, TypeInv, TypeOK
  <2> QED
    BY <2>1, <2>2
<1> QED
  BY <1>1, <1>4, <1>6, <1>7 DEF TypeInv, TypeOK, Requests

\* The answers patch the list with rows.
LEMMA AnswersHaveTypes ==
    ASSUME Txn # {}, TypeInv, NEW p \in Request, Embed(p) \/ Answer(p)
    PROVE  TypeInv'
<1>1. /\ pc[p] \in {"committed", "answered"}
      /\ \E s \in {"answered", "idle"} : pc' = [pc EXCEPT ![p] = s]
      /\ UNCHANGED <<active, rows, revision, writes>>
  BY DEF Embed, Answer, Receive, Lose, Done
<1>2. OpenNow' = OpenNow
  BY <1>1 DEF OpenNow, TypeInv, TypeOK
<1>3. req' \in [Request -> Requests]
  <2>1. CASE Embed(p)
    <3>1. [req[p] EXCEPT !.revs = revision] \in Requests
      <4>1. req[p] \in Requests /\ revision \in [Account -> Nat]
        BY RequestsHaveTypes DEF TypeInv, TypeOK
      <4> QED
        BY <4>1 DEF Requests
    <3> QED
      BY <2>1, <3>1, RequestsHaveTypes DEF Embed, TypeInv
  <2>2. CASE Answer(p)
    BY <2>2, ConstantsHaveTypes, RequestsHaveTypes DEF Answer, Receive, Lose, Done, TypeInv
  <2> QED
    BY <2>1, <2>2
<1>4. /\ known' \in [Account -> Nat] /\ cache' \in [Account -> Nat]
      /\ list' \subseteq Item
      /\ sync' \in [stage : {"idle", "due", "reading"}, accounts : [Account -> Nat],
                    stale : SUBSET Account, revs : [Account -> Nat]]
  <2>1. CASE Embed(p) \/ (p \in Own /\ Lose(p))
    BY <2>1 DEF Embed, Lose, client, TypeInv, TypeOK
  <2>2. CASE Receive(p)
    <3>1. req[p].revs \in [Account -> Nat] /\ <<req[p].txn, req[p].new>> \in Item
      BY DEF TypeInv, TypeOK, Item
    <3>2. known' \in [Account -> Nat] /\ cache' \in [Account -> Nat]
      BY <2>2, <3>1 DEF Receive, TypeInv, TypeOK
    <3>3. list' \subseteq list \cup {<<req[p].txn, req[p].new>>}
      BY <2>2, PatchedIsPatch DEF Receive, Patch
    <3>4. sync' \in {Idle, Due}
      BY <2>2 DEF Receive
    <3> QED
      BY <3>1, <3>2, <3>3, <3>4, ConstantsHaveTypes DEF TypeInv, TypeOK
  <2> QED
    BY <2>1, <2>2 DEF Answer
<1>5. TypeOK'
  BY <1>1, <1>3, <1>4 DEF TypeInv, TypeOK, Requests
<1> QED
  BY <1>1, <1>2, <1>5 DEF TypeInv

\* The page takes what the server has and what it has itself.
LEMMA PageHasTypes ==
    ASSUME Txn # {}, TypeInv, Refetch \/ Invalidate \/ Download \/ Land \/ Fail
    PROVE  TypeInv'
<1>1. UNCHANGED <<active, rows, revision, writes, pc, req>>
  BY ClientKeepsTheServer DEF server
<1>2. known' \in [Account -> Nat] /\ cache' \in [Account -> Nat]
  BY DEF Refetch, Invalidate, Download, Land, Fail, Label, TypeInv, TypeOK
<1>3. list' \subseteq Item
  BY DEF Refetch, Invalidate, Download, Land, Fail, Assemble, TypeInv, TypeOK
<1>4. sync' \in [stage : {"idle", "due", "reading"}, accounts : [Account -> Nat],
                 stale : SUBSET Account, revs : [Account -> Nat]]
  <2>1. CASE Download
    BY <2>1 DEF Download, TypeInv, TypeOK
  <2>2. CASE ~Download
    <3>1. sync' \in {sync, Idle, Due}
      BY <2>2 DEF Refetch, Invalidate, Land, Fail
    <3> QED
      BY <3>1, ConstantsHaveTypes DEF TypeInv, TypeOK
  <2> QED
    BY <2>1, <2>2
<1>5. TypeOK'
  BY <1>1, <1>2, <1>3, <1>4 DEF TypeInv, TypeOK
<1> QED
  BY <1>1, <1>5 DEF TypeInv, OpenNow

\* On either engine, with transfers and moves, for any number of writers: every
\* variable has its type, and so no version of a row is beyond the bound, which
\* would drop it from the stored rows unseen.
THEOREM TypesHold ==
    ASSUME Txn # {}
    PROVE  Spec => []TypeOK
<1>1. Init => TypeInv
  <2> SUFFICES ASSUME Init PROVE TypeInv
    OBVIOUS
  <2>1. rows \in [Txn -> Row]
    <3>1. \A u \in {Absent} \cup {[on |-> s, v |-> 0] : s \in Shapes} : u \in Row
      BY ShapesAssumption, BoundsAssumption DEF Absent, Row
    <3> QED
      BY <3>1 DEF Init
  <2>2. OpenNow = {}
    BY DEF Init, OpenNow
  <2>3. Cardinality(OpenNow) = 0
    BY <2>2, FS_EmptySet
  <2>4. TypeOK
    BY <2>1, ConstantsHaveTypes, BoundsAssumption DEF Init, TypeOK, Stored, Requests
  <2> QED
    BY <2>3, <2>4, BoundsAssumption DEF Init, TypeInv
<1>2. TypeInv /\ [Next]_vars => TypeInv'
  <2> SUFFICES ASSUME TypeInv, [Next]_vars PROVE TypeInv'
    OBVIOUS
  <2>1. ASSUME NEW p \in Request, Add(p) PROVE TypeInv'
    BY <2>1, BeginHasTypes, ShapesAssumption DEF Add
  <2>2. ASSUME NEW p \in Request, Update(p) PROVE TypeInv'
    BY <2>2, BeginHasTypes, ShapesAssumption DEF Update, Editable
  <2>3. ASSUME NEW p \in Request, Delete(p) PROVE TypeInv'
    BY <2>3, BeginHasTypes DEF Delete, Editable
  <2>4. ASSUME NEW p \in Request, Serve(p) \/ Answer(p) PROVE TypeInv'
    BY <2>4, CommitHasTypes, AnswersHaveTypes DEF Serve
  <2>5. CASE UNCHANGED vars
    BY <2>5 DEF vars, TypeInv, TypeOK, OpenNow
  <2> QED
    BY <2>1, <2>2, <2>3, <2>4, <2>5, PageHasTypes DEF Next
<1> QED
  BY <1>1, <1>2, PTL DEF Spec, TypeInv

==============================================================================
