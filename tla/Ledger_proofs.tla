----------------------------- MODULE Ledger_proofs -----------------------------
(***************************************************************************)
(* Proofs about Ledger, all but the last on SQLite, where one transaction  *)
(* is open at a time and no other writes between its statements and its    *)
(* commit.                                                                 *)
(*                                                                         *)
(* A deleted account stays deleted, though DeleteAccount and UpdateAccount *)
(* save the whole accounts row as it was read, one of them before its      *)
(* transaction: a row that is saved live was read inside the only          *)
(* transaction that was open.                                              *)
(*                                                                         *)
(* A deleted account is pinned at zero because every transaction that      *)
(* moves its flow writes the offset with it.  Balances are sums over the   *)
(* rows, of which the proofs need two facts: a sum changes by what one row *)
(* changes, and not when no row's share does.                              *)
(*                                                                         *)
(* The types hold on either engine, where transactions may cross.          *)
(***************************************************************************)
EXTENDS Ledger, FiniteSetTheorems, WellFoundedInduction, TLAPS

------------------------------------------------------------------------------
(* Deletion *)

InTransaction(p) == pc[p] \in {"open", "written"}

\* A record with the fields these proofs speak of.
IsRequest(r) == {"op", "on", "gone", "wrote", "saved"} \subseteq DOMAIN r

\* What the whole row to be saved says is not older than the deletion of the
\* account.
SavesWhatIsSo(p) ==
    /\ IsRequest(req[p])
    /\ pc[p] = "read" => req[p].op # "updateAccount"
    /\ InTransaction(p) /\ req[p].op = "updateAccount" =>
        \A a \in req[p].on : deleted[a] => req[p].gone
    /\ pc[p] = "written" => req[p].saved \subseteq req[p].on
    /\ pc[p] = "written" /\ req[p].saved # {} => req[p].op \in {"deleteAccount", "updateAccount"}

\* One transaction at a time, and each saves what is so.
RowsAreSavedAsTheyAre ==
    /\ deleted \in [Account -> BOOLEAN]
    /\ DOMAIN pc = Request /\ DOMAIN req = Request
    /\ \A p, q \in Request : InTransaction(p) /\ InTransaction(q) => p = q
    /\ \A p \in Request : SavesWhatIsSo(p)

\* A record with nothing in it has the fields.
LEMMA NoRequestIsOne == IsRequest(NoRequest)
BY DEF IsRequest, NoRequest

\* A request that starts, inside a transaction only if none is open.
LEMMA StartKeeps ==
    ASSUME Engine = "sqlite", RowsAreSavedAsTheyAre, NEW p \in Request,
           NEW stage \in {"read", "open"}, NEW r, Start(p, stage, r), IsRequest(r),
           r.op = "updateAccount" => stage = "open" /\ \A a \in r.on : deleted[a] => r.gone
    PROVE  RowsAreSavedAsTheyAre' /\ UNCHANGED deleted
<1>1. /\ pc' = [pc EXCEPT ![p] = stage] /\ req' = [req EXCEPT ![p] = r]
      /\ UNCHANGED deleted
      /\ stage = "open" => \A q \in Request \ {p} : ~InTransaction(q)
  BY DEF Start, MayOpen, InTransaction
<1>2. pc'[p] = stage /\ req'[p] = r
  BY <1>1 DEF RowsAreSavedAsTheyAre
<1>3. \A q \in Request \ {p} : pc'[q] = pc[q] /\ req'[q] = req[q]
  BY <1>1 DEF RowsAreSavedAsTheyAre
<1>4. SavesWhatIsSo(p)'
  BY <1>1, <1>2 DEF SavesWhatIsSo, InTransaction
<1>5. \A q \in Request \ {p} : SavesWhatIsSo(q)'
  BY <1>1, <1>3 DEF RowsAreSavedAsTheyAre, SavesWhatIsSo, InTransaction
<1>6. \A q, s \in Request : InTransaction(q)' /\ InTransaction(s)' => q = s
  BY <1>1, <1>2, <1>3 DEF RowsAreSavedAsTheyAre, InTransaction
<1>7. DOMAIN pc' = Request /\ DOMAIN req' = Request
  BY <1>1 DEF RowsAreSavedAsTheyAre
<1> QED
  BY <1>1, <1>4, <1>5, <1>6, <1>7 DEF RowsAreSavedAsTheyAre

\* The operations start as StartKeeps wants them.
LEMMA ArrivalsKeep ==
    ASSUME Engine = "sqlite", RowsAreSavedAsTheyAre, NEW p \in Request,
           \/ Create(p) \/ Update(p) \/ Delete(p)
           \/ DeleteAccount(p) \/ UpdateAccount(p) \/ ZeroDeletedAccounts(p)
    PROVE  RowsAreSavedAsTheyAre' /\ UNCHANGED deleted
<1>1. CASE Create(p)
  <2>1. PICK new \in Entry :
            Start(p, "open", [NoRequest EXCEPT !.op = "create", !.new = new])
    BY <1>1 DEF Create
  <2> DEFINE r == [NoRequest EXCEPT !.op = "create", !.new = new]
  <2>2. IsRequest(r) /\ r.op # "updateAccount"
    BY DEF IsRequest, NoRequest
  <2>3. Start(p, "open", r)
    BY <2>1
  <2> HIDE DEF r
  <2> QED
    BY <2>2, <2>3, StartKeeps
<1>2. CASE Update(p)
  <2>1. PICK t \in Id, new \in Entry :
            Start(p, "open", [NoRequest EXCEPT !.op = "update", !.id = t, !.old = rows[t], !.new = new])
    BY <1>2 DEF Update
  <2> DEFINE r == [NoRequest EXCEPT !.op = "update", !.id = t, !.old = rows[t], !.new = new]
  <2>2. IsRequest(r) /\ r.op # "updateAccount"
    BY DEF IsRequest, NoRequest
  <2>3. Start(p, "open", r)
    BY <2>1
  <2> HIDE DEF r
  <2> QED
    BY <2>2, <2>3, StartKeeps
<1>3. CASE Delete(p)
  <2>1. PICK t \in Id :
            Start(p, "open", [NoRequest EXCEPT !.op = "delete", !.id = t, !.old = rows[t]])
    BY <1>3 DEF Delete
  <2> DEFINE r == [NoRequest EXCEPT !.op = "delete", !.id = t, !.old = rows[t]]
  <2>2. IsRequest(r) /\ r.op # "updateAccount"
    BY DEF IsRequest, NoRequest
  <2>3. Start(p, "open", r)
    BY <2>1
  <2> HIDE DEF r
  <2> QED
    BY <2>2, <2>3, StartKeeps
<1>4. CASE DeleteAccount(p)
  <2>1. PICK a \in Account :
            Start(p, "read", [NoRequest EXCEPT !.op = "deleteAccount", !.on = {a}, !.gone = deleted[a]])
    BY <1>4 DEF DeleteAccount
  <2> DEFINE r == [NoRequest EXCEPT !.op = "deleteAccount", !.on = {a}, !.gone = deleted[a]]
  <2>2. IsRequest(r) /\ r.op # "updateAccount"
    BY DEF IsRequest, NoRequest
  <2>3. Start(p, "read", r)
    BY <2>1
  <2> HIDE DEF r
  <2> QED
    BY <2>2, <2>3, StartKeeps
<1>5. CASE UpdateAccount(p)
  <2>1. PICK a \in Account, day \in Day, n \in {0} \cup Amount :
            Start(p, "open", [NoRequest EXCEPT !.op = "updateAccount", !.on = {a}, !.gone = deleted[a],
                                    !.target = n, !.day = day])
    BY <1>5 DEF UpdateAccount
  <2> DEFINE r == [NoRequest EXCEPT !.op = "updateAccount", !.on = {a}, !.gone = deleted[a],
                                    !.target = n, !.day = day]
  <2>2. IsRequest(r) /\ r.on = {a} /\ r.gone = deleted[a]
    BY DEF IsRequest, NoRequest
  <2>3. Start(p, "open", r)
    BY <2>1
  <2> HIDE DEF r
  <2> QED
    BY <2>2, <2>3, StartKeeps
<1>6. CASE ZeroDeletedAccounts(p)
  <2>1. PICK a \in Account :
            Start(p, "read", [NoRequest EXCEPT !.op = "zeroDeleted", !.on = {a}, !.gone = TRUE])
    BY <1>6 DEF ZeroDeletedAccounts
  <2> DEFINE r == [NoRequest EXCEPT !.op = "zeroDeleted", !.on = {a}, !.gone = TRUE]
  <2>2. IsRequest(r) /\ r.op # "updateAccount"
    BY DEF IsRequest, NoRequest
  <2>3. Start(p, "read", r)
    BY <2>1
  <2> HIDE DEF r
  <2> QED
    BY <2>2, <2>3, StartKeeps
<1> QED
  BY <1>1, <1>2, <1>3, <1>4, <1>5, <1>6

\* The statements of a transaction.
LEMMA WriteKeeps ==
    ASSUME Engine = "sqlite", RowsAreSavedAsTheyAre, NEW p \in Request, Write(p)
    PROVE  RowsAreSavedAsTheyAre' /\ UNCHANGED deleted
<1>1. PICK w : req' = [req EXCEPT ![p].wrote = w,
                                  ![p].saved = IF SavesAccount(p) THEN req[p].on ELSE {}]
  BY DEF Write
<1>2. /\ pc' = [pc EXCEPT ![p] = "written"] /\ UNCHANGED deleted
      /\ pc[p] = "open" \/ (pc[p] = "read" /\ \A q \in Request \ {p} : ~InTransaction(q))
  BY DEF Write, MayOpen, InTransaction
<1> DEFINE s == IF SavesAccount(p) THEN req[p].on ELSE {}
           x == [req[p] EXCEPT !.wrote = w, !.saved = s]
<1>3. pc'[p] = "written" /\ req'[p] = x
  BY <1>1, <1>2 DEF RowsAreSavedAsTheyAre
<1>4. \A q \in Request \ {p} : pc'[q] = pc[q] /\ req'[q] = req[q]
  BY <1>1, <1>2 DEF RowsAreSavedAsTheyAre
<1>5. IsRequest(req[p])
  BY DEF RowsAreSavedAsTheyAre, SavesWhatIsSo
<1>6. /\ IsRequest(x) /\ x.op = req[p].op /\ x.on = req[p].on /\ x.gone = req[p].gone /\ x.saved = s
  BY <1>5 DEF IsRequest
<1>7. /\ s \subseteq req[p].on
      /\ s # {} => req[p].op \in {"deleteAccount", "updateAccount"}
  BY DEF SavesAccount
<1>8. req[p].op = "updateAccount" => \A a \in req[p].on : deleted[a] => req[p].gone
  BY <1>2 DEF RowsAreSavedAsTheyAre, SavesWhatIsSo, InTransaction
<1>9. SavesWhatIsSo(p)'
  <2> HIDE DEF x, s
  <2> QED
    BY <1>2, <1>3, <1>6, <1>7, <1>8 DEF SavesWhatIsSo, InTransaction
<1>10. \A q \in Request \ {p} : SavesWhatIsSo(q)'
  BY <1>2, <1>4 DEF RowsAreSavedAsTheyAre, SavesWhatIsSo, InTransaction
<1>11. \A q, t \in Request : InTransaction(q)' /\ InTransaction(t)' => q = t
  BY <1>2, <1>3, <1>4 DEF RowsAreSavedAsTheyAre, InTransaction
<1>12. DOMAIN pc' = Request /\ DOMAIN req' = Request
  BY <1>1, <1>2 DEF RowsAreSavedAsTheyAre
<1> QED
  BY <1>2, <1>9, <1>10, <1>11, <1>12 DEF RowsAreSavedAsTheyAre

\* A request that ends leaves no transaction of its own.
LEMMA EndKeeps ==
    ASSUME RowsAreSavedAsTheyAre, NEW p \in Request,
           pc' = [pc EXCEPT ![p] = "idle"], req' = [req EXCEPT ![p] = NoRequest],
           deleted' \in [Account -> BOOLEAN],
           deleted' = deleted \/ InTransaction(p)
    PROVE  RowsAreSavedAsTheyAre'
<1>1. pc'[p] = "idle" /\ req'[p] = NoRequest
  BY DEF RowsAreSavedAsTheyAre
<1>2. \A q \in Request \ {p} : pc'[q] = pc[q] /\ req'[q] = req[q]
  BY DEF RowsAreSavedAsTheyAre
<1>3. SavesWhatIsSo(p)'
  BY <1>1, NoRequestIsOne DEF SavesWhatIsSo, InTransaction
<1>4. \A q \in Request \ {p} : SavesWhatIsSo(q)'
  BY <1>2 DEF RowsAreSavedAsTheyAre, SavesWhatIsSo, InTransaction
<1>5. \A q, s \in Request : InTransaction(q)' /\ InTransaction(s)' => q = s
  BY <1>1, <1>2 DEF RowsAreSavedAsTheyAre, InTransaction
<1> QED
  BY <1>3, <1>4, <1>5 DEF RowsAreSavedAsTheyAre

\* A commit that saves an account that is deleted saves it deleted.
LEMMA CommitKeepsTheDeleted ==
    ASSUME RowsAreSavedAsTheyAre, NEW p \in Request, Commit(p)
    PROVE  RowsAreSavedAsTheyAre' /\ \A a \in Account : deleted[a] => deleted'[a]
<1>1. /\ pc[p] = "written"
      /\ deleted' = [a \in Account |-> IF a \in req[p].saved THEN SavedDeleted(p) ELSE deleted[a]]
      /\ pc' = [pc EXCEPT ![p] = "idle"] /\ req' = [req EXCEPT ![p] = NoRequest]
  BY DEF Commit
<1>2. ASSUME NEW a \in Account, deleted[a], a \in req[p].saved
      PROVE  SavedDeleted(p) = TRUE
  <2>1. a \in req[p].on /\ req[p].op \in {"deleteAccount", "updateAccount"}
    BY <1>1, <1>2 DEF RowsAreSavedAsTheyAre, SavesWhatIsSo
  <2>2. req[p].op = "updateAccount" => req[p].gone
    BY <1>1, <1>2, <2>1 DEF RowsAreSavedAsTheyAre, SavesWhatIsSo, InTransaction
  <2> QED
    BY <2>1, <2>2 DEF SavedDeleted
<1>3. \A a \in Account : deleted[a] => deleted'[a]
  BY <1>1, <1>2
<1>4. SavedDeleted(p) \in BOOLEAN
  BY DEF SavedDeleted
<1>5. deleted' \in [Account -> BOOLEAN]
  BY <1>1, <1>4 DEF RowsAreSavedAsTheyAre
<1>6. InTransaction(p)
  BY <1>1 DEF InTransaction
<1> QED
  BY <1>1, <1>3, <1>5, <1>6, EndKeeps

\* Every step.
LEMMA StepKeepsTheDeleted ==
    ASSUME Engine = "sqlite", RowsAreSavedAsTheyAre, [Next]_vars
    PROVE  RowsAreSavedAsTheyAre' /\ \A a \in Account : deleted[a] => deleted'[a]
<1>1. CASE UNCHANGED vars
  <2>1. UNCHANGED <<deleted, pc, req>>
    BY <1>1 DEF vars
  <2> QED
    BY <2>1 DEF RowsAreSavedAsTheyAre, SavesWhatIsSo, InTransaction
<1>2. ASSUME NEW p \in Request,
             \/ Create(p) \/ Update(p) \/ Delete(p)
             \/ DeleteAccount(p) \/ UpdateAccount(p) \/ ZeroDeletedAccounts(p)
      PROVE  RowsAreSavedAsTheyAre' /\ UNCHANGED deleted
  BY <1>2, ArrivalsKeep
<1>3. ASSUME NEW p \in Request, Fail(p)
      PROVE  RowsAreSavedAsTheyAre' /\ UNCHANGED deleted
  <2>1. /\ pc' = [pc EXCEPT ![p] = "idle"] /\ req' = [req EXCEPT ![p] = NoRequest]
        /\ deleted' = deleted
    BY <1>3 DEF Fail
  <2> QED
    BY <2>1, EndKeeps DEF RowsAreSavedAsTheyAre
<1>4. CASE Next
  <2>1. PICK p \in Request :
            \/ Create(p) \/ Update(p) \/ Delete(p)
            \/ DeleteAccount(p) \/ UpdateAccount(p) \/ ZeroDeletedAccounts(p)
            \/ Write(p) \/ Commit(p) \/ Fail(p)
    BY <1>4 DEF Next
  <2> QED
    BY <2>1, <1>2, <1>3, WriteKeeps, CommitKeepsTheDeleted
<1> QED
  BY <1>1, <1>4

\* At the start nothing is in flight.
LEMMA InitSavesNothing == Init => RowsAreSavedAsTheyAre
<1> SUFFICES ASSUME Init PROVE RowsAreSavedAsTheyAre
  OBVIOUS
<1>1. /\ deleted \in [Account -> BOOLEAN]
      /\ pc = [p \in Request |-> "idle"]
      /\ req = [p \in Request |-> NoRequest]
  BY DEF Init
<1> QED
  BY <1>1, NoRequestIsOne DEF RowsAreSavedAsTheyAre, SavesWhatIsSo, InTransaction

\* On SQLite, for any accounts, rows and requests in flight: an account that is
\* deleted is never shown again (internal/account/delete.go, update.go).
THEOREM DeletedAccountsStayDeleted ==
    ASSUME Engine = "sqlite"
    PROVE  Spec => StaysDeleted
<1>1. Init => RowsAreSavedAsTheyAre
  BY InitSavesNothing
<1>2. RowsAreSavedAsTheyAre /\ [Next]_vars => RowsAreSavedAsTheyAre'
  BY StepKeepsTheDeleted
<1>3. RowsAreSavedAsTheyAre /\ [Next]_vars => [\A a \in Account : deleted[a] => deleted'[a]]_vars
  BY StepKeepsTheDeleted
<1> QED
  BY <1>1, <1>2, <1>3, PTL DEF Spec, StaysDeleted

------------------------------------------------------------------------------
(* Sums *)

\* What the sum takes next from a set.
Pick(s) == CHOOSE x \in s : TRUE

\* The sums of f over the subsets of S, from smaller ones.
Sums(f, S, sum) ==
    [s \in SUBSET S |-> IF s = {} THEN 0 ELSE f[Pick(s)] + sum[s \ {Pick(s)}]]

Summed(f, S) == CHOOSE sum : sum = Sums(f, S, sum)

\* What one row adds to the balance of an account.
SpentBy(table, a, days) == [t \in Id |-> IF table[t].day \in days THEN Flow(table[t], a) ELSE 0]

\* A balance is a sum over the rows.
LEMMA BalanceIsASum ==
    ASSUME NEW table, NEW a, NEW days
    PROVE  Balance(table, a, days) = Summed(SpentBy(table, a, days), Id)[Id]
<1> DEFINE Spent(t) == IF table[t].day \in days THEN Flow(table[t], a) ELSE 0
           f == SpentBy(table, a, days)
           Other(sum) == [s \in SUBSET Id |-> IF s = {} THEN 0 ELSE Spent(Pick(s)) + sum[s \ {Pick(s)}]]
<1>1. ASSUME NEW s \in SUBSET Id, s # {}
      PROVE  f[Pick(s)] = Spent(Pick(s))
  <2>1. Pick(s) \in Id
    BY <1>1 DEF Pick
  <2> QED
    BY <2>1 DEF SpentBy
<1>2. ASSUME NEW sum PROVE Sums(f, Id, sum) = Other(sum)
  BY <1>1 DEF Sums
<1>3. Balance(table, a, days) = (CHOOSE sum : sum = Other(sum))[Id]
  BY DEF Balance, MapThenSumSet, MapThenFoldSet, Pick
<1> HIDE DEF f, Spent, Other
<1>4. \A sum : sum = Sums(f, Id, sum) <=> sum = Other(sum)
  BY <1>2
<1>5. (CHOOSE sum : sum = Sums(f, Id, sum)) = (CHOOSE sum : sum = Other(sum))
  BY <1>4, Zenon
<1> QED
  BY <1>3, <1>5 DEF Summed, f

\* A set of naturals that is not empty has a least element.
LEMMA LeastOf ==
    ASSUME NEW S \in SUBSET Nat, S # {}
    PROVE  \E n \in S : \A m \in S : n <= m
<1> DEFINE R == {ss \in Nat \X Nat : ss[1] < ss[2]}
<1>1. IsWellFoundedOn(R, Nat)
  BY NatLessThanWellFounded DEF OpToRel
<1>2. \A m, n \in Nat : m < n => <<m, n>> \in R
  OBVIOUS
<1> HIDE DEF R
<1>3. PICK n \in S : \A m \in S : ~ (<<m, n>> \in R)
  BY <1>1, WFMin
<1>4. \A m \in S : ~ (m < n)
  BY <1>2, <1>3
<1> QED
  BY <1>4

\* The subsets of S with at most n elements.
Small(S, n) == {s \in SUBSET S : Cardinality(s) <= n}

\* Taking an element away makes a set smaller.
LEMMA RestIsSmaller ==
    ASSUME NEW S, IsFiniteSet(S), NEW s \in SUBSET S
    PROVE  /\ IsFiniteSet(s) /\ Cardinality(s) \in Nat
           /\ Cardinality(s) = 0 <=> s = {}
           /\ s # {} => /\ Pick(s) \in s /\ Pick(s) \in S /\ s \ {Pick(s)} \in SUBSET S
                        /\ Cardinality(s \ {Pick(s)}) = Cardinality(s) - 1
<1>1. IsFiniteSet(s)
  BY FS_Subset
<1>2. Cardinality(s) \in Nat /\ (Cardinality(s) = 0 <=> s = {})
  BY <1>1, FS_CardinalityType, FS_EmptySet
<1>3. ASSUME s # {}
      PROVE  Pick(s) \in s /\ Cardinality(s \ {Pick(s)}) = Cardinality(s) - 1
  <2>1. Pick(s) \in s
    BY <1>3 DEF Pick
  <2> QED
    BY <1>1, <2>1, FS_RemoveElement
<1> QED
  BY <1>1, <1>2, <1>3

\* The sums over small sets, and so over all subsets of a finite set, exist.
LEMMA SumsExist ==
    ASSUME NEW S, IsFiniteSet(S), NEW f
    PROVE  Summed(f, S) = Sums(f, S, Summed(f, S))
<1> DEFINE Upto(n, sum) ==
              [s \in Small(S, n) |-> IF s = {} THEN 0 ELSE f[Pick(s)] + sum[s \ {Pick(s)}]]
           Bad == {n \in Nat : ~ \E sum : sum = Upto(n, sum)}
<1>1. 0 \notin Bad
  <2> DEFINE none == [s \in Small(S, 0) |-> 0]
  <2>1. ASSUME NEW s \in Small(S, 0) PROVE s = {}
    <3>1. s \in SUBSET S /\ Cardinality(s) <= 0
      BY DEF Small
    <3>2. Cardinality(s) \in Nat /\ (Cardinality(s) = 0 <=> s = {})
      BY <3>1, RestIsSmaller
    <3> QED
      BY <3>1, <3>2
  <2>2. \A s \in Small(S, 0) :
            none[s] = IF s = {} THEN 0 ELSE f[Pick(s)] + none[s \ {Pick(s)}]
    BY <2>1
  <2>3. none = [s \in Small(S, 0) |-> none[s]]
    OBVIOUS
  <2>4. none = Upto(0, none)
    <3> HIDE DEF none
    <3> QED
      BY <2>2, <2>3
  <2> QED
    BY <2>4
<1>2. ASSUME NEW n \in Nat, n \notin Bad
      PROVE  n + 1 \notin Bad
  <2>1. PICK sum : sum = Upto(n, sum)
    BY <1>2
  <2> DEFINE more == Upto(n + 1, sum)
  <2>2. ASSUME NEW s \in Small(S, n + 1), s # {}
        PROVE  more[s \ {Pick(s)}] = sum[s \ {Pick(s)}]
    <3> DEFINE r == s \ {Pick(s)}
    <3>1. s \in SUBSET S /\ Cardinality(s) <= n + 1
      BY DEF Small
    <3>2. r \in SUBSET S /\ Cardinality(r) = Cardinality(s) - 1 /\ Cardinality(s) \in Nat
      BY <2>2, <3>1, RestIsSmaller
    <3>3. r \in Small(S, n) /\ r \in Small(S, n + 1)
      BY <3>1, <3>2 DEF Small
    <3> HIDE DEF r
    <3>4. more[r] = IF r = {} THEN 0 ELSE f[Pick(r)] + sum[r \ {Pick(r)}]
      BY <3>3
    <3>5. sum[r] = IF r = {} THEN 0 ELSE f[Pick(r)] + sum[r \ {Pick(r)}]
      BY <2>1, <3>3
    <3> QED
      BY <3>4, <3>5 DEF r
  <2>3. more = Upto(n + 1, more)
    <3>1. \A s \in Small(S, n + 1) : more[s] =
              IF s = {} THEN 0 ELSE f[Pick(s)] + more[s \ {Pick(s)}]
      BY <2>2
    <3>2. more = [s \in Small(S, n + 1) |-> more[s]]
      OBVIOUS
    <3> HIDE DEF more
    <3> QED
      BY <3>1, <3>2
  <2> QED
    BY <2>3
<1>3. Bad = {}
  <2> SUFFICES ASSUME Bad # {} PROVE FALSE
    OBVIOUS
  <2> HIDE DEF Upto
  <2>1. PICK n \in Bad : \A m \in Bad : n <= m
    <3>1. Bad \in SUBSET Nat
      OBVIOUS
    <3> HIDE DEF Bad
    <3> QED
      BY <3>1, LeastOf
  <2>2. n \in Nat /\ n # 0
    BY <1>1
  <2>3. n - 1 \in Nat /\ n - 1 \notin Bad /\ (n - 1) + 1 = n
    BY <2>1, <2>2
  <2> HIDE DEF Bad
  <2> QED
    BY <1>2, <2>1, <2>3
<1>4. Small(S, Cardinality(S)) = SUBSET S /\ Cardinality(S) \in Nat
  <2>1. \A s \in SUBSET S : Cardinality(s) <= Cardinality(S)
    BY FS_Subset
  <2> QED
    BY <2>1, FS_CardinalityType DEF Small
<1>5. \E sum : sum = Upto(Cardinality(S), sum)
  BY <1>3, <1>4
<1>6. \E sum : sum = Sums(f, S, sum)
  BY <1>4, <1>5 DEF Sums
<1> QED
  BY <1>6 DEF Summed

\* A sum over a set is one element and the sum over the rest.
LEMMA SumUnfolds ==
    ASSUME NEW S, IsFiniteSet(S), NEW f, NEW s \in SUBSET S
    PROVE  Summed(f, S)[s] = IF s = {} THEN 0 ELSE f[Pick(s)] + Summed(f, S)[s \ {Pick(s)}]
<1> DEFINE sum == Summed(f, S)
<1>1. sum = Sums(f, S, sum)
  BY SumsExist
<1> HIDE DEF sum
<1>2. sum[s] = IF s = {} THEN 0 ELSE f[Pick(s)] + sum[s \ {Pick(s)}]
  BY <1>1 DEF Sums
<1> QED
  BY <1>2 DEF sum

\* Changing f at one element changes the sums of the sets that have it by as
\* much, and no others.
LEMMA SumFollowsItsElement ==
    ASSUME NEW S, IsFiniteSet(S), NEW f, NEW g, NEW x \in S,
           \A y \in S : f[y] \in Int /\ g[y] \in Int /\ (y # x => f[y] = g[y])
    PROVE  /\ Summed(f, S)[S] \in Int /\ Summed(g, S)[S] \in Int
           /\ Summed(f, S)[S] = Summed(g, S)[S] + f[x] - g[x]
<1> DEFINE F == Summed(f, S)
           G == Summed(g, S)
           Good(s) == /\ F[s] \in Int /\ G[s] \in Int
                      /\ F[s] = G[s] + (IF x \in s THEN f[x] - g[x] ELSE 0)
           Bad == {n \in Nat : \E s \in SUBSET S : Cardinality(s) = n /\ ~Good(s)}
<1>1. ASSUME NEW s \in SUBSET S
      PROVE  /\ F[s] = IF s = {} THEN 0 ELSE f[Pick(s)] + F[s \ {Pick(s)}]
             /\ G[s] = IF s = {} THEN 0 ELSE g[Pick(s)] + G[s \ {Pick(s)}]
  BY SumUnfolds
<1> HIDE DEF F, G
<1>6. f[x] \in Int /\ g[x] \in Int
  OBVIOUS
<1>2. ASSUME NEW s \in SUBSET S, s # {}, Good(s \ {Pick(s)})
      PROVE  Good(s)
  <2> DEFINE r == s \ {Pick(s)}
             y == Pick(s)
  <2>1. y \in s /\ y \in S /\ (x \in s <=> x \in r \/ x = y) /\ y \notin r
    BY <1>2, RestIsSmaller
  <2>2. F[s] = f[y] + F[r] /\ G[s] = g[y] + G[r]
    BY <1>1, <1>2
  <2>3. Good(r)
    BY <1>2
  <2> HIDE DEF r, y
  <2>4. CASE x = y
    BY <1>6, <2>1, <2>2, <2>3, <2>4
  <2>5. CASE x # y
    BY <2>1, <2>2, <2>3, <2>5
  <2> QED
    BY <2>4, <2>5
<1>3. Good({})
  <2>1. {} \in SUBSET S /\ x \notin {}
    OBVIOUS
  <2>2. F[{}] = 0 /\ G[{}] = 0
    BY <1>1, <2>1
  <2> QED
    BY <2>1, <2>2
<1>4. Bad = {}
  <2> SUFFICES ASSUME Bad # {} PROVE FALSE
    OBVIOUS
  <2> HIDE DEF Good
  <2>1. PICK n \in Bad : \A m \in Bad : n <= m
    <3>1. Bad \in SUBSET Nat
      OBVIOUS
    <3> HIDE DEF Bad
    <3> QED
      BY <3>1, LeastOf
  <2>2. PICK s \in SUBSET S : Cardinality(s) = n /\ ~Good(s)
    OBVIOUS
  <2>3. s # {}
    BY <1>3, <2>2
  <2> DEFINE r == s \ {Pick(s)}
  <2>4. r \in SUBSET S /\ Cardinality(r) = n - 1 /\ Cardinality(r) \in Nat /\ n \in Nat
    BY <2>2, <2>3, RestIsSmaller
  <2>5. ~Good(r)
    BY <1>2, <2>2, <2>3
  <2> HIDE DEF r
  <2>6. n - 1 \in Bad
    BY <2>4, <2>5
  <2> QED
    BY <2>1, <2>4, <2>6
<1>5. Good(S)
  <2>1. Cardinality(S) \in Nat
    BY FS_CardinalityType
  <2> HIDE DEF Good
  <2> QED
    BY <1>4, <2>1
<1>7. F[S] \in Int /\ G[S] \in Int /\ F[S] = G[S] + (f[x] - g[x])
  BY <1>5
<1> QED
  BY <1>6, <1>7 DEF F, G

\* A row of accounts, with whole amounts, on a day.
Flowing(row) ==
    Parties(row) \subseteq Account /\ row.day \in Day /\ \A a \in Parties(row) : row.flow[a] \in Int

Table(table) == \A t \in Id : Flowing(table[t])

\* What a row adds to an account on some days.
Share(row, a, days) == IF row.day \in days THEN Flow(row, a) ELSE 0

\* There are finitely many rows.
LEMMA IdsAreFinite == IsFiniteSet(Id)
BY BoundsAssumption, FS_Interval DEF Id

\* A row that is well formed adds a whole amount.
LEMMA SharesAreInts ==
    ASSUME NEW row, Flowing(row), NEW a, NEW days
    PROVE  Share(row, a, days) \in Int /\ Flow(row, a) \in Int
BY DEF Flowing, Share, Flow

\* A balance changes by what the share of one row changes.
LEMMA BalanceFollowsItsRow ==
    ASSUME NEW T, NEW U, Table(T), Table(U), NEW a, NEW days, NEW x \in Id,
           \A t \in Id : t # x => Share(T[t], a, days) = Share(U[t], a, days)
    PROVE  /\ Balance(T, a, days) \in Int /\ Balance(U, a, days) \in Int
           /\ Balance(T, a, days) =
                Balance(U, a, days) + Share(T[x], a, days) - Share(U[x], a, days)
<1> DEFINE f == SpentBy(T, a, days)
           g == SpentBy(U, a, days)
<1>1. \A t \in Id : /\ f[t] = Share(T[t], a, days) /\ g[t] = Share(U[t], a, days)
                    /\ Share(T[t], a, days) \in Int /\ Share(U[t], a, days) \in Int
  <2>1. \A t \in Id : f[t] = Share(T[t], a, days) /\ g[t] = Share(U[t], a, days)
    BY DEF SpentBy, Share
  <2>2. \A t \in Id : Share(T[t], a, days) \in Int /\ Share(U[t], a, days) \in Int
    BY SharesAreInts DEF Table
  <2> QED
    BY <2>1, <2>2
<1> HIDE DEF f, g
<1>2. \A y \in Id : f[y] \in Int /\ g[y] \in Int /\ (y # x => f[y] = g[y])
  BY <1>1
<1>3. /\ Summed(f, Id)[Id] \in Int /\ Summed(g, Id)[Id] \in Int
      /\ Summed(f, Id)[Id] = Summed(g, Id)[Id] + f[x] - g[x]
  BY <1>2, IdsAreFinite, SumFollowsItsElement
<1>4. Balance(T, a, days) = Summed(f, Id)[Id] /\ Balance(U, a, days) = Summed(g, Id)[Id]
  BY BalanceIsASum DEF f, g
<1> QED
  BY <1>1, <1>3, <1>4

\* Tables whose rows add the same have the same balance.
LEMMA BalanceFollowsShares ==
    ASSUME NEW T, NEW U, Table(T), Table(U), NEW a, NEW days,
           \A t \in Id : Share(T[t], a, days) = Share(U[t], a, days)
    PROVE  Balance(T, a, days) \in Int /\ Balance(T, a, days) = Balance(U, a, days)
<1>1. CASE Id = {}
  <2> DEFINE f == SpentBy(T, a, days)
             g == SpentBy(U, a, days)
  <2>1. Summed(f, Id)[Id] = 0 /\ Summed(g, Id)[Id] = 0
    <3> HIDE DEF f, g
    <3> QED
      BY <1>1, IdsAreFinite, SumUnfolds
  <2> QED
    BY <2>1, BalanceIsASum
<1>2. CASE Id # {}
  <2>1. PICK x \in Id : TRUE
    BY <1>2
  <2>2. /\ Balance(T, a, days) \in Int /\ Balance(U, a, days) \in Int
        /\ Balance(T, a, days) =
             Balance(U, a, days) + Share(T[x], a, days) - Share(U[x], a, days)
    BY BalanceFollowsItsRow
  <2>3. Share(T[x], a, days) = Share(U[x], a, days) /\ Share(U[x], a, days) \in Int
    BY SharesAreInts DEF Table
  <2> QED
    BY <2>2, <2>3
<1> QED
  BY <1>1, <1>2

\* Balances are whole.
LEMMA BalanceIsInt ==
    ASSUME NEW T, Table(T), NEW a, NEW days
    PROVE  Balance(T, a, days) \in Int
BY BalanceFollowsShares

------------------------------------------------------------------------------
(* What a transaction writes *)

Rank(fixes, c) == Cardinality({e \in fixes : Min(Parties(e)) <= Min(Parties(c))})

\* Corrections of one account each, one for an account.
OnePerAccount(fixes) ==
    /\ \A c \in fixes : \E a \in Account : Parties(c) = {a}
    /\ \A c, e \in fixes : Parties(c) = Parties(e) => c = e

\* The least account of one.
LEMMA MinOfOne == ASSUME NEW a \in Int PROVE Min({a}) = a
BY DEF Min

\* The ranks of the corrections number them from 1 on.
LEMMA RanksNumber ==
    ASSUME NEW fixes, OnePerAccount(fixes)
    PROVE  /\ IsFiniteSet(fixes) /\ Cardinality(fixes) \in Nat
           /\ \A c \in fixes : Rank(fixes, c) \in 1 .. Cardinality(fixes)
           /\ \A c, e \in fixes : Rank(fixes, c) = Rank(fixes, e) => c = e
<1> DEFINE key(c) == Min(Parties(c))
           R(c) == {e \in fixes : key(e) <= key(c)}
           f == [c \in fixes |-> key(c)]
<1>1. ASSUME NEW c \in fixes PROVE key(c) \in Account /\ key(c) \in Int /\ Parties(c) = {key(c)}
  <2>1. PICK a \in Account : Parties(c) = {a}
    BY DEF OnePerAccount
  <2>2. a \in Int
    BY AccountAssumption
  <2> QED
    BY <2>1, <2>2, MinOfOne
<1> HIDE DEF key
<1>2. \A c, e \in fixes : key(c) = key(e) => c = e
  <2> SUFFICES ASSUME NEW c \in fixes, NEW e \in fixes, key(c) = key(e) PROVE c = e
    OBVIOUS
  <2>1. Parties(c) = Parties(e)
    BY <1>1
  <2> QED
    BY <2>1 DEF OnePerAccount
<1>3. f \in Injection(fixes, Account)
  BY <1>1, <1>2 DEF Injection, IsInjective
<1>4. IsFiniteSet(fixes) /\ Cardinality(fixes) \in Nat
  <2> HIDE DEF f
  <2> QED
    BY <1>3, AccountAssumption, FS_Injection, FS_CardinalityType
<1>5. ASSUME NEW c \in fixes
      PROVE  /\ R(c) \in SUBSET fixes /\ IsFiniteSet(R(c)) /\ c \in R(c)
             /\ Cardinality(R(c)) \in 1 .. Cardinality(fixes)
  <2>1. R(c) \in SUBSET fixes /\ c \in R(c)
    BY <1>1
  <2> HIDE DEF R
  <2>2. IsFiniteSet(R(c)) /\ Cardinality(R(c)) <= Cardinality(fixes)
    BY <1>4, <2>1, FS_Subset
  <2>3. Cardinality(R(c)) \in Nat /\ Cardinality(R(c)) # 0
    BY <2>1, <2>2, FS_CardinalityType, FS_EmptySet
  <2> QED
    BY <1>4, <2>1, <2>2, <2>3
<1>6. ASSUME NEW c \in fixes, NEW e \in fixes, key(c) < key(e)
      PROVE  Cardinality(R(c)) # Cardinality(R(e))
  <2>1. R(c) \in SUBSET R(e) /\ e \notin R(c)
    BY <1>1, <1>6
  <2> HIDE DEF R
  <2>2. IsFiniteSet(R(e)) /\ e \in R(e)
    BY <1>5
  <2>3. Cardinality(R(e)) = Cardinality(R(c)) => R(c) = R(e)
    BY <2>1, <2>2, FS_Subset
  <2> QED
    BY <2>1, <2>2, <2>3
<1>7. \A c, e \in fixes : Cardinality(R(c)) = Cardinality(R(e)) => c = e
  <2> SUFFICES ASSUME NEW c \in fixes, NEW e \in fixes, Cardinality(R(c)) = Cardinality(R(e))
               PROVE  c = e
    OBVIOUS
  <2> HIDE DEF R
  <2>1. ~ (key(c) < key(e)) /\ ~ (key(e) < key(c))
    BY <1>6
  <2>2. key(c) = key(e)
    BY <1>1, <2>1
  <2> QED
    BY <1>2, <2>2
<1>8. \A c : Rank(fixes, c) = Cardinality(R(c))
  BY DEF Rank, key
<1> HIDE DEF R
<1> QED
  BY <1>4, <1>5, <1>7, <1>8

\* What Put leaves free: the ids from the next one on when anything is to be
\* corrected.
PutShape(p) ==
    \/ Corrections(p) = {} /\ DOMAIN Put(p) = {minted + 1}
    \/ DOMAIN Put(p) \subseteq 1 .. minted

\* The id of a correction.
Slot(p, c) == minted + Rank(Corrections(p), c)

\* The rows of the transaction: what it puts, and each correction under a fresh
\* id of its own; all ids stay within what is handed out.
LEMMA WrittenRows ==
    ASSUME NEW p, minted \in Nat, OnePerAccount(Corrections(p)), PutShape(p),
           DOMAIN Written(p) \ 1 .. minted \subseteq Id
    PROVE  /\ DOMAIN Written(p) = DOMAIN Put(p) \cup {Slot(p, c) : c \in Corrections(p)}
           /\ \A t \in DOMAIN Put(p) : Written(p)[t] = Put(p)[t]
           /\ \A c \in Corrections(p) :
                /\ Slot(p, c) \in Id /\ Slot(p, c) > minted /\ Slot(p, c) \notin DOMAIN Put(p)
                /\ Written(p)[Slot(p, c)] = c
           /\ minted + Cardinality(DOMAIN Written(p) \ 1 .. minted) \in Nat
           /\ \A t \in DOMAIN Written(p) :
                t <= minted + Cardinality(DOMAIN Written(p) \ 1 .. minted)
<1> DEFINE fixes == Corrections(p)
           put == Put(p)
           W == Written(p)
           first == minted + Cardinality(DOMAIN put \ 1 .. minted)
           fresh == DOMAIN W \ 1 .. minted
           S(c) == first + Rank(fixes, c)
           Chosen(t) == CHOOSE c \in fixes : S(c) = t
<1>1. W = [t \in DOMAIN put \cup {S(c) : c \in fixes} |->
              IF t \in DOMAIN put THEN put[t] ELSE Chosen(t)]
  BY DEF Written, Rank
<1>2. fixes # {} => first = minted
  <2> SUFFICES ASSUME fixes # {} PROVE first = minted
    OBVIOUS
  <2>1. DOMAIN put \ 1 .. minted = {}
    BY DEF PutShape
  <2> QED
    BY <2>1, FS_EmptySet
<1>3. /\ IsFiniteSet(fixes) /\ Cardinality(fixes) \in Nat
      /\ \A c \in fixes : Rank(fixes, c) \in 1 .. Cardinality(fixes)
      /\ \A c, e \in fixes : Rank(fixes, c) = Rank(fixes, e) => c = e
  <2> HIDE DEF fixes
  <2> QED
    BY RanksNumber DEF fixes
<1>4. \A c \in fixes : S(c) = Slot(p, c)
  BY <1>2 DEF Slot
<1>5. /\ DOMAIN W = DOMAIN put \cup {Slot(p, c) : c \in fixes}
      /\ \A t \in DOMAIN put : W[t] = put[t]
  <2> HIDE DEF W, S, Chosen, put, fixes
  <2>1. DOMAIN W = DOMAIN put \cup {S(c) : c \in fixes} /\ \A t \in DOMAIN put : W[t] = put[t]
    BY <1>1
  <2> QED
    BY <1>4, <2>1
<1>6. \A c \in fixes : Slot(p, c) = minted + Rank(fixes, c) /\ Slot(p, c) > minted
  BY <1>3 DEF Slot
<1>7. ASSUME NEW c \in fixes
      PROVE  Slot(p, c) \in Id /\ Slot(p, c) \notin DOMAIN put /\ W[Slot(p, c)] = c
  <2>1. Slot(p, c) \notin 1 .. minted
    BY <1>6
  <2>2. Slot(p, c) \in fresh
    BY <1>5, <2>1
  <2>3. Slot(p, c) \notin DOMAIN put
    BY <2>1 DEF PutShape
  <2>4. \A e \in fixes : S(e) = Slot(p, c) => e = c
    <3> TAKE e \in fixes
    <3>1. S(e) = minted + Rank(fixes, e) /\ Slot(p, c) = minted + Rank(fixes, c)
      BY <1>2, <1>6
    <3>2. Rank(fixes, e) \in Int /\ Rank(fixes, c) \in Int
      BY <1>3
    <3> HIDE DEF fixes, S
    <3> QED
      BY <1>3, <3>1, <3>2
  <2>5. Chosen(Slot(p, c)) = c
    <3> HIDE DEF S, fixes
    <3> QED
      BY <1>4, <2>4
  <2>6. Slot(p, c) \in {S(e) : e \in fixes}
    BY <1>4
  <2> HIDE DEF W, Chosen, S
  <2>7. W[Slot(p, c)] = Chosen(Slot(p, c))
    BY <1>1, <2>3, <2>6
  <2> QED
    BY <2>2, <2>3, <2>5, <2>7 DEF W
<1>8. IsFiniteSet(fresh) /\ Cardinality(fresh) \in Nat
  BY IdsAreFinite, FS_Subset, FS_CardinalityType
<1>9. ASSUME NEW t \in DOMAIN W
      PROVE  t <= minted + Cardinality(fresh)
  <2>1. CASE fixes = {} /\ DOMAIN put = {minted + 1}
    <3>1. t = minted + 1 /\ fresh = {minted + 1}
      BY <1>5, <2>1
    <3>2. Cardinality(fresh) = 1
      BY <3>1, FS_Singleton
    <3> QED
      BY <3>1, <3>2
  <2>2. CASE DOMAIN put \subseteq 1 .. minted
    <3>1. CASE t \in DOMAIN put
      <4>1. t \in 1 .. minted
        BY <2>2, <3>1
      <4> HIDE DEF fresh
      <4> QED
        BY <1>8, <4>1
    <3>2. CASE t \notin DOMAIN put
      <4>1. PICK c \in fixes : t = Slot(p, c)
        BY <1>5, <3>2
      <4> DEFINE g == [e \in fixes |-> Slot(p, e)]
      <4>2. \A e \in fixes : Slot(p, e) \in fresh
        BY <1>5, <1>6
      <4>3. \A e, h \in fixes : Slot(p, e) = Slot(p, h) => e = h
        <5> TAKE e, h \in fixes
        <5> QED
          BY <1>3, <1>6
      <4>4. g \in Injection(fixes, fresh)
        <5> HIDE DEF fixes, fresh
        <5> QED
          BY <4>2, <4>3 DEF Injection, IsInjective
      <4>5. Cardinality(fixes) <= Cardinality(fresh)
        <5> HIDE DEF g, fixes, fresh
        <5> QED
          BY <1>8, <4>4, FS_Injection
      <4>6. t = minted + Rank(fixes, c) /\ Rank(fixes, c) \in 1 .. Cardinality(fixes)
        BY <1>3, <1>6, <4>1
      <4> HIDE DEF fresh, fixes
      <4> QED
        BY <1>3, <1>8, <4>5, <4>6
    <3> QED
      BY <3>1, <3>2
  <2> QED
    BY <2>1, <2>2 DEF PutShape
<1>10. minted + Cardinality(fresh) \in Nat
  <2> HIDE DEF fresh
  <2> QED
    BY <1>8
<1> QED
  BY <1>5, <1>6, <1>7, <1>9, <1>10

\* What is saved of the request: the accounts it corrects, and each correction.
Fixed(p) ==
    CASE req[p].op \in {"update", "delete"} -> {a \in Moved(p) : deleted[a]}
      [] req[p].op \in {"deleteAccount", "zeroDeleted", "updateAccount"} -> req[p].on
      [] OTHER -> {}

After(p) == Over(rows, Put(p))

FixDay(p, a) == IF req[p].op \in {"update", "delete"} THEN OffsetDay(p, a) ELSE req[p].day

Offset(p, a) ==
    IF req[p].op = "updateAccount" THEN req[p].target - Balance(After(p), a, Current)
    ELSE -Balance(After(p), a, AllTime)

\* The corrections are the offsets that are not zero.
LEMMA CorrectionsAreOffsets ==
    ASSUME NEW p
    PROVE  Corrections(p) =
            {Correction(a, Offset(p, a), FixDay(p, a)) : a \in {b \in Fixed(p) : Offset(p, b) # 0}}
<1> DEFINE C(a) == Correction(a, Offset(p, a), FixDay(p, a))
           fixes ==
            CASE req[p].op \in {"update", "delete"} ->
                    {Zeroing(After(p), a, OffsetDay(p, a)) : a \in {b \in Moved(p) : deleted[b]}}
              [] req[p].op \in {"deleteAccount", "zeroDeleted"} ->
                    {Zeroing(After(p), a, req[p].day) : a \in req[p].on}
              [] req[p].op = "updateAccount" ->
                    {Reconciling(After(p), a, req[p].target, req[p].day) : a \in req[p].on}
              [] OTHER -> {}
<1>1. Corrections(p) = {c \in fixes : \A a \in Parties(c) : Flow(c, a) # 0}
  BY DEF Corrections, After
<1>2. fixes = {C(a) : a \in Fixed(p)}
  <2>1. CASE req[p].op \in {"update", "delete"}
    BY <2>1 DEF Fixed, FixDay, Offset, Zeroing
  <2>2. CASE req[p].op \in {"deleteAccount", "zeroDeleted"}
    BY <2>2 DEF Fixed, FixDay, Offset, Zeroing
  <2>3. CASE req[p].op = "updateAccount"
    BY <2>3 DEF Fixed, FixDay, Offset, Reconciling
  <2>4. CASE req[p].op \notin {"update", "delete", "deleteAccount", "zeroDeleted", "updateAccount"}
    BY <2>4 DEF Fixed
  <2> QED
    BY <2>1, <2>2, <2>3, <2>4
<1>3. \A a : Parties(C(a)) = {a} /\ Flow(C(a), a) = Offset(p, a)
  BY DEF Correction, Parties, Flow
<1>4. \A a : (\A b \in Parties(C(a)) : Flow(C(a), b) # 0) <=> Offset(p, a) # 0
  BY <1>3
<1> HIDE DEF C, fixes
<1>5. Corrections(p) = {C(a) : a \in {b \in Fixed(p) : Offset(p, b) # 0}}
  BY <1>1, <1>2, <1>4
<1> QED
  BY <1>5 DEF C

\* A row that is not there adds nothing.
LEMMA AbsentFlows == Flowing(Absent) /\ \A a, days : Flow(Absent, a) = 0 /\ Share(Absent, a, days) = 0
BY DayAssumption DEF Flowing, Absent, Flow, Share, Parties

\* What a request that may write is like.
Writable(p) ==
    /\ Table(rows) /\ Table(After(p))
    /\ minted \in Nat /\ \A t \in Id : t > minted => rows[t] = Absent
    /\ Fixed(p) \subseteq Account
    /\ \A a \in Fixed(p) : FixDay(p, a) \in Day
    /\ req[p].op = "updateAccount" => req[p].target \in Int
    /\ PutShape(p)
    /\ DOMAIN Written(p) \ 1 .. minted \subseteq Id

\* The corrections of such a request are rows of one account each.
LEMMA CorrectionsAreRows ==
    ASSUME NEW p, Writable(p)
    PROVE  /\ OnePerAccount(Corrections(p))
           /\ \A a \in Account : Offset(p, a) \in Int
           /\ \A c \in Corrections(p) :
                \E a \in Fixed(p) : /\ c = Correction(a, Offset(p, a), FixDay(p, a))
                                    /\ Offset(p, a) # 0
           /\ \A a \in Fixed(p) : Offset(p, a) # 0 =>
                Correction(a, Offset(p, a), FixDay(p, a)) \in Corrections(p)
           /\ \A c \in Corrections(p) : Flowing(c)
<1>1. \A a \in Account : Offset(p, a) \in Int
  <2>1. \A a, days : Balance(After(p), a, days) \in Int
    BY BalanceIsInt DEF Writable
  <2> QED
    BY <2>1 DEF Offset, Writable
<1>2. /\ \A c \in Corrections(p) :
                \E a \in Fixed(p) : /\ c = Correction(a, Offset(p, a), FixDay(p, a))
                                    /\ Offset(p, a) # 0
      /\ \A a \in Fixed(p) : Offset(p, a) # 0 =>
            Correction(a, Offset(p, a), FixDay(p, a)) \in Corrections(p)
  BY CorrectionsAreOffsets
<1>3. \A a, n, day : /\ Parties(Correction(a, n, day)) = {a}
                     /\ Correction(a, n, day).day = day
                     /\ Correction(a, n, day).flow[a] = n
  BY DEF Correction, Parties
<1>4. \A c \in Corrections(p) : Flowing(c)
  <2> TAKE c \in Corrections(p)
  <2>1. PICK a \in Fixed(p) : c = Correction(a, Offset(p, a), FixDay(p, a))
    BY <1>2
  <2>2. a \in Account /\ FixDay(p, a) \in Day /\ Offset(p, a) \in Int
    BY <1>1 DEF Writable
  <2> QED
    BY <1>3, <2>1, <2>2 DEF Flowing
<1>5. OnePerAccount(Corrections(p))
  <2>1. \A c \in Corrections(p) : \E a \in Account : Parties(c) = {a}
    BY <1>2, <1>3 DEF Writable
  <2>2. ASSUME NEW c \in Corrections(p), NEW e \in Corrections(p), Parties(c) = Parties(e)
        PROVE  c = e
    <3>1. PICK a \in Fixed(p) : c = Correction(a, Offset(p, a), FixDay(p, a))
      BY <1>2
    <3>2. PICK b \in Fixed(p) : e = Correction(b, Offset(p, b), FixDay(p, b))
      BY <1>2
    <3>3. a = b
      <4>1. Parties(c) = {a} /\ Parties(e) = {b}
        BY <1>3, <3>1, <3>2
      <4> QED
        BY <2>2, <4>1
    <3> QED
      BY <3>1, <3>2, <3>3
  <2> QED
    BY <2>1, <2>2 DEF OnePerAccount
<1> QED
  BY <1>1, <1>2, <1>4, <1>5

\* What the transaction leaves: at its own row what it put, at fresh ids the
\* corrections, and the rest as it is.
Outcome(p) == Over(rows, Written(p))

\* It leaves a table with corrections where nothing was.
LEMMA OutcomeRows ==
    ASSUME NEW p, Writable(p)
    PROVE  /\ \A t \in Id : Outcome(p)[t] # After(p)[t] =>
                \E c \in Corrections(p) : t = Slot(p, c)
           /\ \A c \in Corrections(p) :
                /\ Slot(p, c) \in Id
                /\ Outcome(p)[Slot(p, c)] = c
                /\ After(p)[Slot(p, c)] = Absent /\ rows[Slot(p, c)] = Absent
           /\ Table(Outcome(p))
           /\ \A t \in Id : t > minted + Cardinality(DOMAIN Written(p) \ 1 .. minted) =>
                Outcome(p)[t] = Absent
<1>1. /\ DOMAIN Written(p) = DOMAIN Put(p) \cup {Slot(p, c) : c \in Corrections(p)}
      /\ \A t \in DOMAIN Put(p) : Written(p)[t] = Put(p)[t]
      /\ \A c \in Corrections(p) :
            /\ Slot(p, c) \in Id /\ Slot(p, c) > minted /\ Slot(p, c) \notin DOMAIN Put(p)
            /\ Written(p)[Slot(p, c)] = c
      /\ minted + Cardinality(DOMAIN Written(p) \ 1 .. minted) \in Nat
      /\ \A t \in DOMAIN Written(p) :
            t <= minted + Cardinality(DOMAIN Written(p) \ 1 .. minted)
  <2>1. OnePerAccount(Corrections(p)) /\ PutShape(p) /\ minted \in Nat
        /\ DOMAIN Written(p) \ 1 .. minted \subseteq Id
    BY CorrectionsAreRows DEF Writable
  <2> QED
    BY <2>1, WrittenRows
<1>2. \A t \in Id : /\ t \in DOMAIN Written(p) => Outcome(p)[t] = Written(p)[t]
                    /\ t \notin DOMAIN Written(p) => Outcome(p)[t] = rows[t]
                    /\ t \in DOMAIN Put(p) => After(p)[t] = Put(p)[t]
                    /\ t \notin DOMAIN Put(p) => After(p)[t] = rows[t]
  BY DEF Outcome, After, Over
<1>3. \A t \in Id : Outcome(p)[t] # After(p)[t] => \E c \in Corrections(p) : t = Slot(p, c)
  BY <1>1, <1>2
<1>4. \A c \in Corrections(p) :
                /\ Slot(p, c) \in Id
                /\ Outcome(p)[Slot(p, c)] = c
                /\ After(p)[Slot(p, c)] = Absent /\ rows[Slot(p, c)] = Absent
  BY <1>1, <1>2 DEF Writable
<1>5. Table(Outcome(p))
  <2> SUFFICES ASSUME NEW t \in Id PROVE Flowing(Outcome(p)[t])
    BY DEF Table
  <2>1. CASE Outcome(p)[t] = After(p)[t]
    BY <2>1 DEF Writable, Table
  <2>2. CASE Outcome(p)[t] # After(p)[t]
    BY <1>3, <1>4, <2>2, CorrectionsAreRows
  <2> QED
    BY <2>1, <2>2
<1>6. ASSUME NEW t \in Id, t > minted + Cardinality(DOMAIN Written(p) \ 1 .. minted)
      PROVE  Outcome(p)[t] = Absent
  <2>1. t \in Int /\ minted \in Nat /\ \A u \in Id : u > minted => rows[u] = Absent
    BY BoundsAssumption DEF Id, Writable
  <2>2. t \notin DOMAIN Written(p)
    <3> DEFINE top == minted + Cardinality(DOMAIN Written(p) \ 1 .. minted)
    <3>1. top \in Nat /\ t > top /\ \A u \in DOMAIN Written(p) : u <= top
      BY <1>1, <1>6
    <3> HIDE DEF top
    <3>2. ~ (t <= top)
      BY <2>1, <3>1
    <3> QED
      BY <3>1, <3>2
  <2>3. t > minted
    <3> DEFINE fresh == DOMAIN Written(p) \ 1 .. minted
    <3>1. IsFiniteSet(fresh)
      BY IdsAreFinite, FS_Subset DEF Writable
    <3> HIDE DEF fresh
    <3>2. Cardinality(fresh) \in Nat
      BY <3>1, FS_CardinalityType
    <3>3. t > minted + Cardinality(fresh)
      BY <1>6 DEF fresh
    <3> QED
      BY <2>1, <3>2, <3>3
  <2> QED
    BY <1>2, <2>1, <2>2, <2>3
<1> QED
  BY <1>3, <1>4, <1>5, <1>6

\* What the transaction leaves an account: the balance after its own row, and
\* the offset.
LEMMA OutcomeBalance ==
    ASSUME NEW p, Writable(p), NEW a \in Account, NEW days
    PROVE  /\ Balance(After(p), a, days) \in Int /\ Offset(p, a) \in Int
           /\ Balance(Outcome(p), a, days) = Balance(After(p), a, days) +
                (IF a \in Fixed(p) /\ FixDay(p, a) \in days THEN Offset(p, a) ELSE 0)
<1> DEFINE c == Correction(a, Offset(p, a), FixDay(p, a))
           T == After(p)
           S == Outcome(p)
<1>1. Table(T) /\ Table(S)
  BY OutcomeRows DEF Writable
<1>2. Balance(T, a, days) \in Int /\ Offset(p, a) \in Int
  <2>1. Offset(p, a) \in Int
    BY CorrectionsAreRows
  <2> QED
    BY <1>1, <2>1, BalanceIsInt
<1>3. \A b, n, day, ds : Share(Correction(b, n, day), a, ds) =
                            IF a = b /\ day \in ds THEN n ELSE 0
  BY DEF Correction, Share, Flow, Parties
<1>4. ASSUME NEW e \in Corrections(p), e # c
      PROVE  Share(e, a, days) = 0
  <2>1. PICK b \in Fixed(p) : e = Correction(b, Offset(p, b), FixDay(p, b))
    BY CorrectionsAreRows
  <2>2. b # a
    BY <1>4, <2>1
  <2> QED
    BY <1>3, <2>1, <2>2
<1>5. /\ \A t \in Id : S[t] # T[t] => \E e \in Corrections(p) : t = Slot(p, e)
      /\ \A e \in Corrections(p) : Slot(p, e) \in Id /\ S[Slot(p, e)] = e /\ T[Slot(p, e)] = Absent
  BY OutcomeRows
<1>6. Share(Absent, a, days) = 0
  BY AbsentFlows
<1>7. c \in Corrections(p) => a \in Fixed(p) /\ Offset(p, a) # 0
  <2> SUFFICES ASSUME c \in Corrections(p) PROVE a \in Fixed(p) /\ Offset(p, a) # 0
    OBVIOUS
  <2>1. PICK b \in Fixed(p) : c = Correction(b, Offset(p, b), FixDay(p, b)) /\ Offset(p, b) # 0
    BY CorrectionsAreRows
  <2>2. Parties(c) = {a} /\ Parties(Correction(b, Offset(p, b), FixDay(p, b))) = {b}
    BY DEF Correction, Parties
  <2>3. b = a
    BY <2>1, <2>2
  <2> QED
    BY <2>1, <2>3
<1>8. a \in Fixed(p) /\ Offset(p, a) # 0 => c \in Corrections(p)
  BY CorrectionsAreRows
<1>9. Share(c, a, days) = IF FixDay(p, a) \in days THEN Offset(p, a) ELSE 0
  BY <1>3
<1> HIDE DEF c, S, T
<1>10. CASE c \in Corrections(p)
  <2> DEFINE x == Slot(p, c)
  <2>1. x \in Id /\ S[x] = c /\ T[x] = Absent
    BY <1>5, <1>10
  <2>2. \A t \in Id : t # x => Share(S[t], a, days) = Share(T[t], a, days)
    BY <1>4, <1>5, <1>6
  <2> HIDE DEF x
  <2>3. Balance(S, a, days) = Balance(T, a, days) + Share(S[x], a, days) - Share(T[x], a, days)
    BY <1>1, <2>1, <2>2, BalanceFollowsItsRow
  <2>4. Balance(S, a, days) = Balance(T, a, days) + Share(c, a, days) - 0
    BY <1>6, <2>1, <2>3
  <2>5. Balance(S, a, days) = Balance(T, a, days) +
            (IF a \in Fixed(p) /\ FixDay(p, a) \in days THEN Offset(p, a) ELSE 0)
    BY <1>2, <1>7, <1>9, <1>10, <2>4
  <2> QED
    BY <1>2, <2>5 DEF S, T
<1>11. CASE c \notin Corrections(p)
  <2>1. \A t \in Id : Share(S[t], a, days) = Share(T[t], a, days)
    BY <1>4, <1>5, <1>6, <1>11
  <2>2. Balance(S, a, days) = Balance(T, a, days)
    BY <1>1, <2>1, BalanceFollowsShares
  <2>3. Balance(S, a, days) = Balance(T, a, days) +
            (IF a \in Fixed(p) /\ FixDay(p, a) \in days THEN Offset(p, a) ELSE 0)
    BY <1>2, <1>8, <1>11, <2>2
  <2> QED
    BY <1>2, <2>3 DEF S, T
<1> QED
  BY <1>10, <1>11

------------------------------------------------------------------------------
(* What requests ask for and do *)

Fields == {"op", "id", "old", "new", "on", "gone", "target", "day", "wrote", "saved"}

\* What a request that is under way asks for: accounts that join a row are not
\* deleted, the row to be changed is there as it was read.
Asked(p) ==
    pc[p] # "idle" =>
        /\ Fields \subseteq DOMAIN req[p]
        /\ \/ /\ req[p].op = "create" /\ InTransaction(p) /\ req[p].on = {}
              /\ Flowing(req[p].new) /\ \A a \in Parties(req[p].new) : ~deleted[a]
           \/ /\ req[p].op \in {"update", "delete"} /\ InTransaction(p)
              /\ req[p].id \in Id /\ req[p].id \in 1 .. minted
              /\ req[p].old = rows[req[p].id] /\ Flowing(req[p].new)
           \/ /\ req[p].op \in {"deleteAccount", "zeroDeleted", "updateAccount"}
              /\ \E a \in Account : req[p].on = {a}
              /\ req[p].day \in Day /\ req[p].target \in Int

RowsSound ==
    /\ Table(rows) /\ minted \in Nat
    /\ \A t \in Id : t > minted => rows[t] = Absent

\* What it asks for is rows, whether or not they are still as it read them.
Sensible(p) ==
    \/ req[p].op = "create" /\ Flowing(req[p].new)
    \/ /\ req[p].op \in {"update", "delete"} /\ req[p].id \in Id /\ req[p].id \in 1 .. minted
       /\ Flowing(req[p].old) /\ Flowing(req[p].new)
    \/ /\ req[p].op \in {"deleteAccount", "zeroDeleted", "updateAccount"}
       /\ \E a \in Account : req[p].on = {a}
       /\ req[p].day \in Day /\ req[p].target \in Int

\* A request that asks for rows may write.
LEMMA SensibleIsWritable ==
    ASSUME RowsSound, NEW p, Sensible(p), DOMAIN Written(p) \ 1 .. minted \subseteq Id
    PROVE  Writable(p)
<1>1. \A t \in Id : /\ t \in DOMAIN Put(p) => After(p)[t] = Put(p)[t]
                    /\ t \notin DOMAIN Put(p) => After(p)[t] = rows[t]
  BY DEF After, Over
<1>2. CASE req[p].op = "create" /\ Flowing(req[p].new)
  <2>1. Put(p) = [t \in {minted + 1} |-> req[p].new] /\ Fixed(p) = {}
    BY <1>2 DEF Put, Fixed
  <2>2. DOMAIN Put(p) = {minted + 1} /\ \A t \in DOMAIN Put(p) : Put(p)[t] = req[p].new
    BY <2>1
  <2>3. Corrections(p) = {}
    BY <2>1, CorrectionsAreOffsets
  <2>4. Table(After(p))
    BY <1>1, <1>2, <2>2 DEF Table, RowsSound
  <2>5. PutShape(p)
    BY <2>2, <2>3 DEF PutShape
  <2> QED
    BY <1>2, <2>1, <2>4, <2>5 DEF Writable, RowsSound
<1>3. CASE /\ req[p].op \in {"update", "delete"} /\ req[p].id \in Id /\ req[p].id \in 1 .. minted
           /\ Flowing(req[p].old) /\ Flowing(req[p].new)
  <2>1. Put(p) = [t \in {req[p].id} |-> req[p].new] /\ Fixed(p) \subseteq Moved(p)
    BY <1>3 DEF Put, Fixed
  <2>2. DOMAIN Put(p) = {req[p].id} /\ \A t \in DOMAIN Put(p) : Put(p)[t] = req[p].new
    BY <2>1
  <2>3. Table(After(p))
    BY <1>1, <1>3, <2>2 DEF Table, RowsSound
  <2>4. PutShape(p)
    BY <1>3, <2>2 DEF PutShape
  <2>5. Fixed(p) \subseteq Account
    BY <1>3, <2>1 DEF Moved, Flowing
  <2>6. \A a : FixDay(p, a) \in Day
    BY <1>3 DEF FixDay, OffsetDay, Flowing
  <2> QED
    BY <1>3, <2>3, <2>4, <2>5, <2>6 DEF Writable, RowsSound
<1>4. CASE /\ req[p].op \in {"deleteAccount", "zeroDeleted", "updateAccount"}
           /\ \E a \in Account : req[p].on = {a}
           /\ req[p].day \in Day /\ req[p].target \in Int
  <2>1. Put(p) = [t \in {} |-> Absent] /\ Fixed(p) = req[p].on
    BY <1>4 DEF Put, Fixed
  <2>2. DOMAIN Put(p) = {}
    BY <2>1
  <2>3. Table(After(p))
    BY <1>1, <2>2 DEF Table, RowsSound
  <2>4. PutShape(p)
    BY <2>2 DEF PutShape
  <2>5. \A a : FixDay(p, a) \in Day
    BY <1>4 DEF FixDay
  <2> QED
    BY <1>4, <2>1, <2>3, <2>4, <2>5 DEF Writable, RowsSound
<1> QED
  BY <1>2, <1>3, <1>4 DEF Sensible

\* So may one that is under way, whose row is as it read it.
LEMMA AskedIsWritable ==
    ASSUME RowsSound, NEW p, Asked(p), pc[p] # "idle"
    PROVE  /\ Sensible(p)
           /\ DOMAIN Written(p) \ 1 .. minted \subseteq Id => Writable(p)
<1>1. Sensible(p)
  BY DEF Asked, Sensible, RowsSound, Table
<1> QED
  BY <1>1, SensibleIsWritable

\* The accounts whose balance the request may change, and those it zeroes.
Touched(p) == IF req[p].op \in {"update", "delete"} THEN Moved(p) ELSE req[p].on

Zeroed(p) ==
    CASE req[p].op \in {"update", "delete"} -> {a \in Moved(p) : deleted[a]}
      [] req[p].op \in {"deleteAccount", "zeroDeleted"} -> req[p].on
      [] OTHER -> {}

\* Leaves the deleted accounts it does not touch.
LEMMA OthersKeepTheirBalance ==
    ASSUME RowsSound, NEW p, Asked(p), pc[p] # "idle", Writable(p),
           NEW a \in Account, deleted[a], a \notin Touched(p), NEW days
    PROVE  Balance(Outcome(p), a, days) = Balance(rows, a, days)
<1>1. \A t \in Id : /\ t \in DOMAIN Put(p) => After(p)[t] = Put(p)[t]
                    /\ t \notin DOMAIN Put(p) => After(p)[t] = rows[t]
  BY DEF After, Over
<1>2. a \notin Fixed(p)
  BY DEF Touched, Fixed
<1>3. \A t \in DOMAIN Put(p) : t \in Id => a \notin Parties(Put(p)[t]) /\ a \notin Parties(rows[t])
  <2>1. CASE /\ req[p].op = "create" /\ InTransaction(p) /\ req[p].on = {}
             /\ Flowing(req[p].new) /\ \A b \in Parties(req[p].new) : ~deleted[b]
    <3>1. Put(p) = [t \in {minted + 1} |-> req[p].new]
      BY <2>1 DEF Put
    <3>2. a \notin Parties(req[p].new)
      BY <2>1
    <3>3. minted + 1 \in Id => rows[minted + 1] = Absent
      BY DEF RowsSound
    <3>4. a \notin Parties(Absent)
      BY DEF Absent, Parties
    <3> QED
      BY <3>1, <3>2, <3>3, <3>4
  <2>2. CASE /\ req[p].op \in {"update", "delete"} /\ InTransaction(p)
             /\ req[p].id \in Id /\ req[p].id \in 1 .. minted
             /\ req[p].old = rows[req[p].id] /\ Flowing(req[p].new)
    <3>1. Put(p) = [t \in {req[p].id} |-> req[p].new]
      BY <2>2 DEF Put
    <3>2. a \notin Parties(req[p].new) /\ a \notin Parties(rows[req[p].id])
      BY <2>2 DEF Touched, Moved
    <3> QED
      BY <3>1, <3>2
  <2>3. CASE /\ req[p].op \in {"deleteAccount", "zeroDeleted", "updateAccount"}
             /\ \E b \in Account : req[p].on = {b}
             /\ req[p].day \in Day /\ req[p].target \in Int
    <3>1. Put(p) = [t \in {} |-> Absent]
      BY <2>3 DEF Put
    <3> QED
      BY <3>1
  <2> QED
    BY <2>1, <2>2, <2>3 DEF Asked
<1>4. \A t \in Id : Share(After(p)[t], a, days) = Share(rows[t], a, days)
  BY <1>1, <1>3 DEF Share, Flow
<1>5. Balance(After(p), a, days) = Balance(rows, a, days)
  BY <1>4, BalanceFollowsShares DEF Writable
<1>6. /\ Balance(After(p), a, days) \in Int
      /\ Balance(Outcome(p), a, days) = Balance(After(p), a, days) + 0
  BY <1>2, OutcomeBalance
<1> QED
  BY <1>5, <1>6

\* Zeroes what it is to zero, whatever the days of its rows.
LEMMA ZeroedAreZero ==
    ASSUME NEW p, Writable(p), NEW a \in Zeroed(p)
    PROVE  Balance(Outcome(p), a, AllTime) = 0
<1>1. a \in Fixed(p) /\ req[p].op # "updateAccount"
  BY DEF Fixed, Zeroed
<1>2. a \in Account /\ FixDay(p, a) \in AllTime
  BY <1>1 DEF Writable, AllTime
<1>3. /\ Balance(After(p), a, AllTime) \in Int
      /\ Balance(Outcome(p), a, AllTime) = Balance(After(p), a, AllTime) + Offset(p, a)
  BY <1>1, <1>2, OutcomeBalance
<1>4. Offset(p, a) = -Balance(After(p), a, AllTime)
  BY <1>1 DEF Offset
<1> QED
  BY <1>3, <1>4

\* Offsets on its day a flow that it takes off a deleted account.
LEMMA RemovedIsOffset ==
    ASSUME RowsSound, NEW p, Asked(p), pc[p] # "idle", Writable(p),
           NEW a \in Account, deleted[a], Balance(rows, a, AllTime) = 0,
           NEW t \in Id, a \in Parties(rows[t]), a \notin Parties(Outcome(p)[t]), NEW d \in Day
    PROVE  Balance(Outcome(p), a, {d}) = Balance(rows, a, {d})
<1>1. \A u \in Id : /\ u \in DOMAIN Put(p) => After(p)[u] = Put(p)[u]
                    /\ u \notin DOMAIN Put(p) => After(p)[u] = rows[u]
  BY DEF After, Over
<1>2. \A c \in Corrections(p) : t # Slot(p, c)
  <2> TAKE c \in Corrections(p)
  <2>1. rows[Slot(p, c)] = Absent
    BY OutcomeRows
  <2>2. a \notin Parties(Absent)
    BY DEF Absent, Parties
  <2> QED
    BY <2>1, <2>2
<1>3. Outcome(p)[t] = After(p)[t]
  BY <1>2, OutcomeRows
<1>4. t \in DOMAIN Put(p)
  BY <1>1, <1>3
<1>5. req[p].op \in {"update", "delete"} /\ t = req[p].id /\ req[p].old = rows[t]
      /\ Put(p) = [u \in {t} |-> req[p].new]
  <2>1. CASE /\ req[p].op = "create" /\ InTransaction(p) /\ req[p].on = {}
             /\ Flowing(req[p].new) /\ \A b \in Parties(req[p].new) : ~deleted[b]
    <3>1. Put(p) = [u \in {minted + 1} |-> req[p].new]
      BY <2>1 DEF Put
    <3>2. t = minted + 1
      BY <1>4, <3>1
    <3>3. rows[t] = Absent
      BY <3>2 DEF RowsSound
    <3> QED
      BY <3>3 DEF Absent, Parties
  <2>2. CASE /\ req[p].op \in {"update", "delete"} /\ InTransaction(p)
             /\ req[p].id \in Id /\ req[p].id \in 1 .. minted
             /\ req[p].old = rows[req[p].id] /\ Flowing(req[p].new)
    <3>1. Put(p) = [u \in {req[p].id} |-> req[p].new]
      BY <2>2 DEF Put
    <3>2. t = req[p].id
      BY <1>4, <3>1
    <3> QED
      BY <2>2, <3>1, <3>2
  <2>3. CASE /\ req[p].op \in {"deleteAccount", "zeroDeleted", "updateAccount"}
             /\ \E b \in Account : req[p].on = {b}
             /\ req[p].day \in Day /\ req[p].target \in Int
    <3>1. Put(p) = [u \in {} |-> Absent]
      BY <2>3 DEF Put
    <3> QED
      BY <1>4, <3>1
  <2> QED
    BY <2>1, <2>2, <2>3 DEF Asked
<1> DEFINE old == rows[t]
           new == req[p].new
           x == Flow(old, a)
<1>6. a \in Parties(old) /\ a \notin Parties(new)
  BY <1>1, <1>3, <1>4, <1>5
<1>7. a \in Fixed(p) /\ FixDay(p, a) = old.day /\ old.day \in Day
  <2>1. a \in Moved(p)
    BY <1>5, <1>6 DEF Moved
  <2>2. Flowing(old)
    BY DEF RowsSound, Table
  <2> QED
    BY <1>5, <1>6, <2>1, <2>2 DEF Fixed, FixDay, OffsetDay, Flowing
<1>8. x \in Int /\ \A ds : /\ Share(old, a, ds) = IF old.day \in ds THEN x ELSE 0
                           /\ Share(new, a, ds) = 0
  <2>1. x \in Int
    BY SharesAreInts DEF RowsSound, Table
  <2> QED
    BY <1>6, <2>1 DEF Share, Flow
<1>9. ASSUME NEW ds
      PROVE  /\ Balance(After(p), a, ds) \in Int /\ Balance(rows, a, ds) \in Int
             /\ Balance(After(p), a, ds) = Balance(rows, a, ds) - (IF old.day \in ds THEN x ELSE 0)
  <2>1. \A u \in Id : u # t => After(p)[u] = rows[u]
    BY <1>1, <1>5
  <2>2. After(p)[t] = new
    BY <1>1, <1>4, <1>5
  <2>3. Table(After(p)) /\ Table(rows)
    BY DEF Writable
  <2>4. /\ Balance(After(p), a, ds) \in Int /\ Balance(rows, a, ds) \in Int
        /\ Balance(After(p), a, ds) =
              Balance(rows, a, ds) + Share(After(p)[t], a, ds) - Share(rows[t], a, ds)
    BY <2>1, <2>3, BalanceFollowsItsRow
  <2>5. Share(After(p)[t], a, ds) = 0 /\ Share(rows[t], a, ds) = IF old.day \in ds THEN x ELSE 0
    BY <1>8, <2>2
  <2> HIDE DEF x
  <2> QED
    BY <1>8, <2>4, <2>5
<1> HIDE DEF x, old, new
<1>10. Offset(p, a) = x
  <2>1. Offset(p, a) = -Balance(After(p), a, AllTime)
    BY <1>5 DEF Offset
  <2>2. Balance(After(p), a, AllTime) = 0 - x
    BY <1>7, <1>8, <1>9 DEF AllTime
  <2> QED
    BY <1>8, <2>1, <2>2
<1>11. Balance(Outcome(p), a, {d}) =
          Balance(After(p), a, {d}) + (IF old.day = d THEN x ELSE 0)
  <2>1. Balance(Outcome(p), a, {d}) = Balance(After(p), a, {d}) +
            (IF a \in Fixed(p) /\ FixDay(p, a) \in {d} THEN Offset(p, a) ELSE 0)
    BY OutcomeBalance
  <2> QED
    BY <1>7, <1>10, <2>1
<1>12. /\ Balance(After(p), a, {d}) \in Int /\ Balance(rows, a, {d}) \in Int
       /\ Balance(After(p), a, {d}) = Balance(rows, a, {d}) - (IF old.day = d THEN x ELSE 0)
  BY <1>9
<1> QED
  BY <1>8, <1>11, <1>12

------------------------------------------------------------------------------
(* The invariant *)

\* What an open transaction has written keeps the promises to deleted accounts
\* once it commits.
Promise(p) ==
    /\ Table(Seen(p)) /\ \A t \in Id : t > minted => Seen(p)[t] = Absent
    /\ \A a \in Account : deleted[a] /\ a \notin Touched(p) =>
            Balance(Seen(p), a, AllTime) = Balance(rows, a, AllTime)
    /\ \A a \in Zeroed(p) : Balance(Seen(p), a, AllTime) = 0
    /\ \A a \in Account : deleted[a] /\ a \notin unpinned =>
        \A t \in Id : a \in Parties(rows[t]) /\ a \notin Parties(Seen(p)[t]) =>
            \A d \in Day : Balance(Seen(p), a, {d}) = Balance(rows, a, {d})

BooksInv ==
    /\ RowsAreSavedAsTheyAre
    /\ RowsSound
    /\ PinnedAtZero
    /\ \A p \in Request : Asked(p) /\ (pc[p] = "written" => Promise(p))

\* A request that is not in a transaction and stands where it did asks for what
\* it did, whatever another one writes.
LEMMA WaitingStaysAsked ==
    ASSUME NEW p, Asked(p), ~InTransaction(p), pc'[p] = pc[p], req'[p] = req[p]
    PROVE  Asked(p)' /\ pc'[p] # "written"
<1>1. CASE pc[p] = "idle"
  BY <1>1 DEF Asked
<1>2. CASE pc[p] # "idle"
  <2>1. /\ Fields \subseteq DOMAIN req[p]
        /\ req[p].op \in {"deleteAccount", "zeroDeleted", "updateAccount"}
        /\ \E a \in Account : req[p].on = {a}
        /\ req[p].day \in Day /\ req[p].target \in Int
    BY <1>2 DEF Asked
  <2> QED
    BY <2>1 DEF Asked, InTransaction
<1> QED
  BY <1>1, <1>2

\* Nothing changes for a request while the rows and its own record stay.
LEMMA OthersAreUndisturbed ==
    ASSUME NEW p, Asked(p), pc[p] = "written" => Promise(p), pc'[p] = pc[p], req'[p] = req[p],
           UNCHANGED <<rows, deleted, minted, unpinned>>
    PROVE  Asked(p)' /\ (pc'[p] = "written" => Promise(p)')
<1>1. Asked(p)'
  BY DEF Asked, InTransaction
<1>2. Seen(p)' = Seen(p) /\ Touched(p)' = Touched(p) /\ Zeroed(p)' = Zeroed(p)
  BY DEF Seen, Touched, Zeroed, Moved
<1>3. ASSUME pc[p] = "written" PROVE Promise(p)'
  BY <1>2, <1>3 DEF Promise
<1> QED
  BY <1>1, <1>3

\* A start.
LEMMA StartKeepsBooks ==
    ASSUME BooksInv, NEW p \in Request, NEW stage \in {"read", "open"}, NEW r, Start(p, stage, r),
           RowsAreSavedAsTheyAre', Asked(p)'
    PROVE  BooksInv'
<1>1. /\ pc' = [pc EXCEPT ![p] = stage] /\ req' = [req EXCEPT ![p] = r]
      /\ UNCHANGED <<rows, deleted, minted, unpinned>>
  BY DEF Start
<1>2. DOMAIN pc = Request /\ DOMAIN req = Request
  BY DEF BooksInv, RowsAreSavedAsTheyAre
<1>3. pc'[p] # "written"
  BY <1>1, <1>2
<1>4. ASSUME NEW q \in Request, q # p
      PROVE  Asked(q)' /\ (pc'[q] = "written" => Promise(q)')
  <2>1. pc'[q] = pc[q] /\ req'[q] = req[q]
    BY <1>1, <1>2, <1>4
  <2>2. Asked(q) /\ (pc[q] = "written" => Promise(q))
    BY DEF BooksInv
  <2> QED
    BY <1>1, <2>1, <2>2, OthersAreUndisturbed
<1>5. RowsSound' /\ PinnedAtZero'
  BY <1>1 DEF BooksInv, RowsSound, PinnedAtZero
<1>6. \A q \in Request : Asked(q)' /\ (pc'[q] = "written" => Promise(q)')
  BY <1>3, <1>4
<1> QED
  BY <1>5, <1>6 DEF BooksInv

\* Expenses and incomes have whole amounts,
LEMMA SimpleFlowsFlow ==
    ASSUME NEW f \in SimpleFlows
    PROVE  DOMAIN f \subseteq Account /\ \A a \in DOMAIN f : f[a] \in Int
<1>1. PICK b \in Account, s \in {-1, 1}, m \in Amount : DOMAIN f = {b} /\ f[b] = s * m
  BY DEF SimpleFlows
<1>2. s * m \in Int
  BY AmountAssumption
<1> QED
  BY <1>1, <1>2

\* and so have transfers,
LEMMA TransferFlowsFlow ==
    ASSUME NEW f \in TransferFlows
    PROVE  DOMAIN f \subseteq Account /\ \A a \in DOMAIN f : f[a] \in Int
<1>1. PICK p \in Account \X Account, m \in Amount, n \in Amount :
        DOMAIN f = {p[1], p[2]} /\ \A a \in DOMAIN f : f[a] = IF a = p[1] THEN -m ELSE n
  BY DEF TransferFlows
<1>2. -m \in Int /\ n \in Int /\ p[1] \in Account /\ p[2] \in Account
  BY AmountAssumption
<1> QED
  BY <1>1, <1>2

\* so that users enter rows that are well formed.
LEMMA EntriesFlow == ASSUME NEW new \in Entry PROVE Flowing(new)
<1>1. new.flow \in Flows /\ new.day \in Day
  BY DEF Entry
<1>2. DOMAIN new.flow \subseteq Account /\ \A a \in DOMAIN new.flow : new.flow[a] \in Int
  BY <1>1, SimpleFlowsFlow, TransferFlowsFlow DEF Flows
<1> QED
  BY <1>1, <1>2 DEF Flowing, Parties

\* A row that is there has an id that was handed out.
LEMMA AbsentOutsideIsFree ==
    ASSUME RowsSound, NEW t \in Id, rows[t] # Absent
    PROVE  t \in 1 .. minted
BY BoundsAssumption DEF RowsSound, Id

\* What each operation asks for when it starts.
LEMMA ArrivalsAsk ==
    ASSUME RowsSound, DOMAIN pc = Request, DOMAIN req = Request, NEW p \in Request,
           \/ Create(p) \/ Update(p) \/ Delete(p)
           \/ DeleteAccount(p) \/ UpdateAccount(p) \/ ZeroDeletedAccounts(p)
    PROVE  \E stage \in {"read", "open"} : \E r : Start(p, stage, r) /\ Asked(p)'
<1>1. ASSUME NEW stage, NEW r, Start(p, stage, r)
      PROVE  /\ pc'[p] = stage /\ req'[p] = r
             /\ UNCHANGED <<rows, deleted, minted>>
             /\ stage = "open" => InTransaction(p)'
  BY <1>1 DEF Start, InTransaction
<1>2. Today \in Day
  BY DayAssumption
<1>3. CASE Create(p)
  <2>1. PICK new \in Entry :
            /\ MayJoin(Parties(new))
            /\ Start(p, "open", [NoRequest EXCEPT !.op = "create", !.new = new])
    BY <1>3 DEF Create
  <2> DEFINE r == [NoRequest EXCEPT !.op = "create", !.new = new]
  <2>2. Fields \subseteq DOMAIN r /\ r.op = "create" /\ r.new = new /\ r.on = {}
    BY DEF Fields, NoRequest
  <2>3. Start(p, "open", r) /\ Flowing(new) /\ \A a \in Parties(new) : ~deleted[a]
    BY <2>1, EntriesFlow DEF MayJoin
  <2> HIDE DEF r
  <2>4. Asked(p)'
    BY <1>1, <2>2, <2>3 DEF Asked
  <2> QED
    BY <2>3, <2>4
<1>4. CASE Update(p)
  <2>1. PICK t \in Id, new \in Entry :
            /\ rows[t] # Absent
            /\ Start(p, "open", [NoRequest EXCEPT !.op = "update", !.id = t, !.old = rows[t], !.new = new])
    BY <1>4 DEF Update
  <2> DEFINE r == [NoRequest EXCEPT !.op = "update", !.id = t, !.old = rows[t], !.new = new]
  <2>2. Fields \subseteq DOMAIN r /\ r.op = "update" /\ r.id = t /\ r.old = rows[t] /\ r.new = new
    BY DEF Fields, NoRequest
  <2>3. Start(p, "open", r) /\ Flowing(new) /\ t \in 1 .. minted
    BY <2>1, EntriesFlow, AbsentOutsideIsFree
  <2> HIDE DEF r
  <2>4. Asked(p)'
    BY <1>1, <2>2, <2>3 DEF Asked
  <2> QED
    BY <2>3, <2>4
<1>5. CASE Delete(p)
  <2>1. PICK t \in Id :
            /\ rows[t] # Absent
            /\ Start(p, "open", [NoRequest EXCEPT !.op = "delete", !.id = t, !.old = rows[t]])
    BY <1>5 DEF Delete
  <2> DEFINE r == [NoRequest EXCEPT !.op = "delete", !.id = t, !.old = rows[t]]
  <2>2. Fields \subseteq DOMAIN r /\ r.op = "delete" /\ r.id = t /\ r.old = rows[t] /\ r.new = Absent
    BY DEF Fields, NoRequest
  <2>3. Start(p, "open", r) /\ Flowing(Absent) /\ t \in 1 .. minted
    BY <2>1, AbsentFlows, AbsentOutsideIsFree
  <2> HIDE DEF r
  <2>4. Asked(p)'
    BY <1>1, <2>2, <2>3 DEF Asked
  <2> QED
    BY <2>3, <2>4
<1>6. CASE DeleteAccount(p)
  <2>1. PICK a \in Account :
            Start(p, "read", [NoRequest EXCEPT !.op = "deleteAccount", !.on = {a}, !.gone = deleted[a]])
    BY <1>6 DEF DeleteAccount
  <2> DEFINE r == [NoRequest EXCEPT !.op = "deleteAccount", !.on = {a}, !.gone = deleted[a]]
  <2>2. Fields \subseteq DOMAIN r /\ r.op = "deleteAccount" /\ r.on = {a} /\ r.day = Today /\ r.target = 0
    BY DEF Fields, NoRequest
  <2>3. Start(p, "read", r)
    BY <2>1
  <2> HIDE DEF r
  <2>4. Asked(p)'
    BY <1>1, <1>2, <2>2, <2>3 DEF Asked
  <2> QED
    BY <2>3, <2>4
<1>7. CASE UpdateAccount(p)
  <2>1. PICK a \in Account, day \in Day, n \in {0} \cup Amount :
            Start(p, "open", [NoRequest EXCEPT !.op = "updateAccount", !.on = {a}, !.gone = deleted[a],
                                    !.target = n, !.day = day])
    BY <1>7 DEF UpdateAccount
  <2> DEFINE r == [NoRequest EXCEPT !.op = "updateAccount", !.on = {a}, !.gone = deleted[a],
                                    !.target = n, !.day = day]
  <2>2. Fields \subseteq DOMAIN r /\ r.op = "updateAccount" /\ r.on = {a} /\ r.day = day /\ r.target = n
    BY DEF Fields, NoRequest
  <2>3. Start(p, "open", r) /\ n \in Int
    BY <2>1, AmountAssumption
  <2> HIDE DEF r
  <2>4. Asked(p)'
    BY <1>1, <2>2, <2>3 DEF Asked
  <2> QED
    BY <2>3, <2>4
<1>8. CASE ZeroDeletedAccounts(p)
  <2>1. PICK a \in Account :
            Start(p, "read", [NoRequest EXCEPT !.op = "zeroDeleted", !.on = {a}, !.gone = TRUE])
    BY <1>8 DEF ZeroDeletedAccounts
  <2> DEFINE r == [NoRequest EXCEPT !.op = "zeroDeleted", !.on = {a}, !.gone = TRUE]
  <2>2. Fields \subseteq DOMAIN r /\ r.op = "zeroDeleted" /\ r.on = {a} /\ r.day = Today /\ r.target = 0
    BY DEF Fields, NoRequest
  <2>3. Start(p, "read", r)
    BY <2>1
  <2> HIDE DEF r
  <2>4. Asked(p)'
    BY <1>1, <1>2, <2>2, <2>3 DEF Asked
  <2> QED
    BY <2>3, <2>4
<1> QED
  BY <1>3, <1>4, <1>5, <1>6, <1>7, <1>8

\* The statements of a transaction: what they write keeps the promises.
LEMMA WriteKeepsBooks ==
    ASSUME Engine = "sqlite", BooksInv, NEW p \in Request, Write(p)
    PROVE  BooksInv'
<1> DEFINE W == Written(p)
           fresh == DOMAIN W \ 1 .. minted
           s == IF SavesAccount(p) THEN req[p].on ELSE {}
           x == [req[p] EXCEPT !.wrote = W, !.saved = s]
<1>1. /\ pc[p] = "open" \/ (pc[p] = "read" /\ MayOpen(p))
      /\ fresh \subseteq Id /\ minted' = minted + Cardinality(fresh)
      /\ req' = [req EXCEPT ![p].wrote = W, ![p].saved = s]
      /\ pc' = [pc EXCEPT ![p] = "written"]
      /\ UNCHANGED <<rows, deleted, unpinned>>
  BY DEF Write
<1>2. RowsAreSavedAsTheyAre'
  BY WriteKeeps DEF BooksInv
<1>3. /\ RowsAreSavedAsTheyAre /\ RowsSound /\ PinnedAtZero /\ Asked(p) /\ pc[p] # "idle"
      /\ DOMAIN pc = Request /\ DOMAIN req = Request
  BY <1>1 DEF BooksInv, RowsAreSavedAsTheyAre
<1>4. Writable(p)
  BY <1>1, <1>3, AskedIsWritable
<1>5. pc'[p] = "written" /\ req'[p] = x
  BY <1>1, <1>3
<1>6. /\ Fields \subseteq DOMAIN x /\ x.wrote = W
      /\ x.op = req[p].op /\ x.id = req[p].id /\ x.old = req[p].old /\ x.new = req[p].new
      /\ x.on = req[p].on /\ x.day = req[p].day /\ x.target = req[p].target
  BY <1>3 DEF Asked, Fields
<1>7. minted' \in Nat /\ minted <= minted'
  <2>1. Cardinality(fresh) \in Nat
    BY <1>1, IdsAreFinite, FS_Subset, FS_CardinalityType
  <2> HIDE DEF fresh
  <2> QED
    BY <1>1, <1>3, <2>1 DEF RowsSound
<1>8. RowsSound' /\ PinnedAtZero'
  <2>1. ASSUME NEW t \in Id, t > minted' PROVE rows[t] = Absent
    <3>1. t \in Int /\ minted \in Int
      BY <1>3, BoundsAssumption DEF Id, RowsSound
    <3>2. t > minted
      BY <1>7, <2>1, <3>1
    <3> QED
      BY <1>3, <3>2 DEF RowsSound
  <2> QED
    BY <1>1, <1>3, <1>7, <2>1 DEF RowsSound, PinnedAtZero
<1> HIDE DEF x, s
<1>9. Asked(p)'
  <2>1. InTransaction(p)'
    BY <1>5 DEF InTransaction
  <2>2. req[p].id \in 1 .. minted => req[p].id \in 1 .. minted'
    BY <1>3, <1>7 DEF RowsSound
  <2> HIDE DEF W, fresh
  <2> QED
    BY <1>1, <1>3, <1>5, <1>6, <2>1, <2>2 DEF Asked
<1>10. /\ Seen(p)' = Outcome(p) /\ Touched(p)' = Touched(p) /\ Zeroed(p)' = Zeroed(p)
       /\ minted' = minted + Cardinality(DOMAIN Written(p) \ 1 .. minted)
  <2>1. Seen(p)' = Outcome(p)
    <3> HIDE DEF W
    <3>1. Seen(p)' = [t \in Id |-> IF t \in DOMAIN W THEN W[t] ELSE rows[t]]
      BY <1>1, <1>5, <1>6 DEF Seen
    <3> QED
      BY <3>1 DEF Outcome, Over, W
  <2>2. Touched(p)' = Touched(p) /\ Zeroed(p)' = Zeroed(p)
    <3> HIDE DEF W
    <3> QED
      BY <1>1, <1>5, <1>6 DEF Touched, Zeroed, Moved
  <2> QED
    BY <1>1, <2>1, <2>2
<1> HIDE DEF W, fresh
<1>11. /\ Table(Outcome(p)) /\ \A t \in Id : t > minted' => Outcome(p)[t] = Absent
       /\ \A a \in Account : deleted[a] /\ a \notin Touched(p) =>
            Balance(Outcome(p), a, AllTime) = Balance(rows, a, AllTime)
       /\ \A a \in Zeroed(p) : Balance(Outcome(p), a, AllTime) = 0
  <2>1. /\ Table(Outcome(p))
        /\ \A t \in Id : t > minted + Cardinality(DOMAIN Written(p) \ 1 .. minted) =>
                Outcome(p)[t] = Absent
    BY <1>4, OutcomeRows
  <2>2. \A a \in Account : deleted[a] /\ a \notin Touched(p) =>
            Balance(Outcome(p), a, AllTime) = Balance(rows, a, AllTime)
    BY <1>3, <1>4, OthersKeepTheirBalance
  <2>3. \A a \in Zeroed(p) : Balance(Outcome(p), a, AllTime) = 0
    BY <1>4, ZeroedAreZero
  <2> QED
    BY <1>10, <2>1, <2>2, <2>3
<1>12. \A a \in Account : deleted[a] /\ a \notin unpinned =>
        \A t \in Id : a \in Parties(rows[t]) /\ a \notin Parties(Outcome(p)[t]) =>
            \A d \in Day : Balance(Outcome(p), a, {d}) = Balance(rows, a, {d})
  <2> SUFFICES ASSUME NEW a \in Account, deleted[a], a \notin unpinned, NEW t \in Id,
                      a \in Parties(rows[t]), a \notin Parties(Outcome(p)[t]), NEW d \in Day
               PROVE  Balance(Outcome(p), a, {d}) = Balance(rows, a, {d})
    OBVIOUS
  <2>1. Balance(rows, a, AllTime) = 0
    BY <1>3 DEF PinnedAtZero
  <2> QED
    BY <1>3, <1>4, <2>1, RemovedIsOffset
<1>13. Promise(p)'
  BY <1>1, <1>10, <1>11, <1>12 DEF Promise
<1>14. ASSUME NEW q \in Request, q # p
       PROVE  Asked(q)' /\ (pc'[q] = "written" => Promise(q)')
  <2>1. pc'[q] = pc[q] /\ req'[q] = req[q]
    BY <1>1, <1>3, <1>14
  <2>2. ~InTransaction(q)
    BY <1>1, <1>3, <1>14 DEF RowsAreSavedAsTheyAre, InTransaction, MayOpen
  <2>3. Asked(q)
    BY DEF BooksInv
  <2> QED
    BY <2>1, <2>2, <2>3, WaitingStaysAsked
<1>15. \A q \in Request : Asked(q)' /\ (pc'[q] = "written" => Promise(q)')
  BY <1>9, <1>13, <1>14
<1> QED
  BY <1>2, <1>8, <1>15 DEF BooksInv

\* A commit keeps the promises that were made.
LEMMA CommitKeepsBooks ==
    ASSUME BooksInv, NEW p \in Request, Commit(p)
    PROVE  /\ BooksInv'
           /\ \A a \in Account : deleted[a] /\ a \notin unpinned =>
                \A t \in Id : a \in Parties(rows[t]) /\ a \notin Parties(rows'[t]) =>
                    \A d \in Day : Balance(rows', a, {d}) = Balance(rows, a, {d})
<1>1. /\ pc[p] = "written" /\ rows' = Seen(p)
      /\ deleted' = [a \in Account |-> IF a \in req[p].saved THEN SavedDeleted(p) ELSE deleted[a]]
      /\ pc' = [pc EXCEPT ![p] = "idle"] /\ req' = [req EXCEPT ![p] = NoRequest]
      /\ minted' = minted
  BY DEF Commit
<1>2. RowsAreSavedAsTheyAre'
  BY CommitKeepsTheDeleted DEF BooksInv
<1>3. /\ RowsAreSavedAsTheyAre /\ RowsSound /\ PinnedAtZero /\ Asked(p) /\ Promise(p)
      /\ DOMAIN pc = Request /\ DOMAIN req = Request
  BY <1>1 DEF BooksInv, RowsAreSavedAsTheyAre
<1>4. RowsSound'
  BY <1>1, <1>3 DEF Promise, RowsSound
<1>5. pc'[p] = "idle"
  BY <1>1, <1>3
<1>6. ASSUME NEW q \in Request, q # p
      PROVE  Asked(q)' /\ pc'[q] # "written"
  <2>1. pc'[q] = pc[q] /\ req'[q] = req[q]
    BY <1>1, <1>3, <1>6
  <2>2. ~InTransaction(q)
    BY <1>1, <1>3, <1>6 DEF RowsAreSavedAsTheyAre, InTransaction
  <2>3. Asked(q)
    BY DEF BooksInv
  <2> QED
    BY <2>1, <2>2, <2>3, WaitingStaysAsked
<1>7. \A q \in Request : Asked(q)' /\ (pc'[q] = "written" => Promise(q)')
  BY <1>5, <1>6 DEF Asked
<1>8. ASSUME NEW a \in Account, deleted'[a], a \notin unpinned'
      PROVE  Balance(rows', a, AllTime) = 0
  <2>1. /\ req[p].saved \subseteq req[p].on
        /\ req[p].saved # {} => req[p].op \in {"deleteAccount", "updateAccount"}
    BY <1>1, <1>3 DEF RowsAreSavedAsTheyAre, SavesWhatIsSo
  <2>2. a \notin req[p].saved => deleted[a]
    BY <1>1, <1>8
  <2>3. unpinned' = CASE req[p].op = "updateAccount" -> unpinned \cup {b \in req[p].on : deleted'[b]}
                      [] req[p].op \in {"update", "delete"} -> unpinned \ Moved(p)
                      [] OTHER -> unpinned \ req[p].on
    BY DEF Commit
  <2>4. CASE a \in Zeroed(p)
    BY <1>1, <1>3, <2>4 DEF Promise
  <2>5. ASSUME a \notin Zeroed(p)
        PROVE  deleted[a] /\ a \notin Touched(p) /\ a \notin unpinned
    <3>1. CASE req[p].op \in {"update", "delete"}
      <4>1. deleted[a] /\ unpinned' = unpinned \ Moved(p)
        BY <2>1, <2>2, <2>3, <3>1
      <4> QED
        BY <1>8, <2>5, <3>1, <4>1 DEF Zeroed, Touched
    <3>2. CASE req[p].op \in {"deleteAccount", "zeroDeleted"}
      <4>1. a \notin req[p].on /\ unpinned' = unpinned \ req[p].on
        BY <2>3, <2>5, <3>2 DEF Zeroed
      <4> QED
        BY <1>8, <2>1, <2>2, <3>2, <4>1 DEF Touched
    <3>3. CASE req[p].op = "updateAccount"
      <4>1. unpinned' = unpinned \cup {b \in req[p].on : deleted'[b]}
        BY <2>3, <3>3
      <4>2. a \notin req[p].on
        BY <1>8, <4>1
      <4> QED
        BY <1>8, <2>1, <2>2, <3>3, <4>1, <4>2 DEF Touched
    <3>4. CASE req[p].op = "create"
      <4>1. req[p].on = {}
        BY <1>1, <1>3, <3>4 DEF Asked
      <4>2. unpinned' = unpinned \ req[p].on
        BY <2>3, <3>4
      <4> QED
        BY <1>8, <2>1, <2>2, <3>4, <4>1, <4>2 DEF Touched
    <3> QED
      BY <1>1, <1>3, <3>1, <3>2, <3>3, <3>4 DEF Asked
  <2>6. CASE a \notin Zeroed(p)
    <3>1. Balance(Seen(p), a, AllTime) = Balance(rows, a, AllTime)
      BY <1>3, <2>5, <2>6 DEF Promise
    <3>2. Balance(rows, a, AllTime) = 0
      BY <1>3, <2>5, <2>6 DEF PinnedAtZero
    <3> QED
      BY <1>1, <3>1, <3>2
  <2> QED
    BY <2>4, <2>6
<1>9. PinnedAtZero'
  BY <1>8 DEF PinnedAtZero
<1>10. \A a \in Account : deleted[a] /\ a \notin unpinned =>
                \A t \in Id : a \in Parties(rows[t]) /\ a \notin Parties(rows'[t]) =>
                    \A d \in Day : Balance(rows', a, {d}) = Balance(rows, a, {d})
  BY <1>1, <1>3 DEF Promise
<1> QED
  BY <1>2, <1>4, <1>7, <1>9, <1>10 DEF BooksInv

\* At the start only legacy deletions have left something.
LEMMA InitKeepsBooks == Init => BooksInv
<1> SUFFICES ASSUME Init PROVE BooksInv
  OBVIOUS
<1>1. PICK old \in SUBSET Legacy, amount \in Amount :
        /\ deleted = [a \in Account |-> a \in old]
        /\ minted = Cardinality(old)
        /\ \E owner \in Bijection(1 .. minted, old) :
            rows = [t \in Id |-> IF t <= minted THEN Correction(owner[t], amount, Today) ELSE Absent]
        /\ unpinned = old
  BY DEF Init
<1>2. PICK owner \in Bijection(1 .. minted, old) :
        rows = [t \in Id |-> IF t <= minted THEN Correction(owner[t], amount, Today) ELSE Absent]
  BY <1>1
<1>3. old \subseteq Account /\ minted \in Nat
  <2>1. old \subseteq Account /\ IsFiniteSet(Account)
    BY <1>1, AccountAssumption
  <2> QED
    BY <1>1, <2>1, FS_Subset, FS_CardinalityType
<1>4. \A t \in 1 .. minted : owner[t] \in old
  BY <1>2 DEF Bijection, Injection
<1>5. amount \in Int /\ Today \in Day
  BY <1>1, AmountAssumption, DayAssumption
<1>6. \A t \in Id : /\ t <= minted => t \in 1 .. minted /\ rows[t] = Correction(owner[t], amount, Today)
                    /\ ~ (t <= minted) => rows[t] = Absent
  BY <1>2, <1>3, BoundsAssumption DEF Id
<1>7. \A a \in Account : Flowing(Correction(a, amount, Today))
  BY <1>5 DEF Correction, Flowing, Parties
<1>8. Table(rows)
  BY <1>3, <1>4, <1>6, <1>7, AbsentFlows DEF Table
<1>9. \A t \in Id : t > minted => rows[t] = Absent
  BY <1>3, <1>6, BoundsAssumption DEF Id
<1>10. PinnedAtZero
  BY <1>1 DEF PinnedAtZero
<1>11. \A p \in Request : pc[p] = "idle"
  BY DEF Init
<1> QED
  BY <1>3, <1>8, <1>9, <1>10, <1>11, InitSavesNothing DEF BooksInv, RowsSound, Asked

\* Every step; only a commit changes rows.
LEMMA StepKeepsBooks ==
    ASSUME Engine = "sqlite", BooksInv, [Next]_vars
    PROVE  /\ BooksInv'
           /\ \A a \in Account : deleted[a] /\ a \notin unpinned =>
                \A t \in Id : a \in Parties(rows[t]) /\ a \notin Parties(rows'[t]) =>
                    \A d \in Day : Balance(rows', a, {d}) = Balance(rows, a, {d})
<1>1. RowsAreSavedAsTheyAre'
  BY StepKeepsTheDeleted DEF BooksInv
<1>2. CASE UNCHANGED vars
  <2>1. UNCHANGED <<rows, deleted, minted, pc, req, unpinned>>
    BY <1>2 DEF vars
  <2>2. \A q \in Request : Asked(q)' /\ (pc'[q] = "written" => Promise(q)')
    <3> TAKE q \in Request
    <3>1. Asked(q) /\ (pc[q] = "written" => Promise(q)) /\ pc'[q] = pc[q] /\ req'[q] = req[q]
      BY <2>1 DEF BooksInv
    <3> QED
      BY <2>1, <3>1, OthersAreUndisturbed
  <2>3. RowsSound' /\ PinnedAtZero'
    BY <2>1 DEF BooksInv, RowsSound, PinnedAtZero
  <2> QED
    BY <1>1, <2>1, <2>2, <2>3 DEF BooksInv
<1>3. ASSUME NEW p \in Request,
             \/ Create(p) \/ Update(p) \/ Delete(p)
             \/ DeleteAccount(p) \/ UpdateAccount(p) \/ ZeroDeletedAccounts(p)
      PROVE  BooksInv' /\ UNCHANGED rows
  <2>1. PICK stage \in {"read", "open"} : \E r : Start(p, stage, r) /\ Asked(p)'
    <3>1. RowsSound /\ DOMAIN pc = Request /\ DOMAIN req = Request
      BY DEF BooksInv, RowsAreSavedAsTheyAre
    <3> QED
      BY <1>3, <3>1, ArrivalsAsk
  <2>2. PICK r : Start(p, stage, r) /\ Asked(p)'
    BY <2>1
  <2>3. BooksInv'
    BY <1>1, <2>2, StartKeepsBooks
  <2> QED
    BY <2>2, <2>3 DEF Start
<1>4. ASSUME NEW p \in Request, Write(p)
      PROVE  BooksInv' /\ UNCHANGED rows
  <2>1. BooksInv'
    BY <1>4, WriteKeepsBooks
  <2> QED
    BY <1>4, <2>1 DEF Write
<1>5. ASSUME NEW p \in Request, Fail(p)
      PROVE  BooksInv' /\ UNCHANGED rows
  <2>1. /\ pc' = [pc EXCEPT ![p] = "idle"] /\ req' = [req EXCEPT ![p] = NoRequest]
        /\ UNCHANGED <<rows, deleted, minted, unpinned>>
    BY <1>5 DEF Fail
  <2>2. DOMAIN pc = Request /\ DOMAIN req = Request
    BY DEF BooksInv, RowsAreSavedAsTheyAre
  <2>3. pc'[p] = "idle"
    BY <2>1, <2>2
  <2>4. ASSUME NEW q \in Request, q # p
        PROVE  Asked(q)' /\ (pc'[q] = "written" => Promise(q)')
    <3>1. Asked(q) /\ (pc[q] = "written" => Promise(q)) /\ pc'[q] = pc[q] /\ req'[q] = req[q]
      BY <2>1, <2>2, <2>4 DEF BooksInv
    <3> QED
      BY <2>1, <3>1, OthersAreUndisturbed
  <2>5. \A q \in Request : Asked(q)' /\ (pc'[q] = "written" => Promise(q)')
    BY <2>3, <2>4 DEF Asked
  <2>6. RowsSound' /\ PinnedAtZero'
    BY <2>1 DEF BooksInv, RowsSound, PinnedAtZero
  <2> QED
    BY <1>1, <2>1, <2>5, <2>6 DEF BooksInv
<1>6. CASE Next
  <2>1. PICK p \in Request :
            \/ Create(p) \/ Update(p) \/ Delete(p)
            \/ DeleteAccount(p) \/ UpdateAccount(p) \/ ZeroDeletedAccounts(p)
            \/ Write(p) \/ Commit(p) \/ Fail(p)
    BY <1>6 DEF Next
  <2>2. CASE Commit(p)
    BY <2>2, CommitKeepsBooks
  <2>3. CASE ~Commit(p)
    <3>1. BooksInv' /\ UNCHANGED rows
      BY <1>3, <1>4, <1>5, <2>1, <2>3
    <3> QED
      BY <3>1
  <2> QED
    BY <2>2, <2>3
<1>7. UNCHANGED vars => UNCHANGED rows
  BY DEF vars
<1> QED
  BY <1>2, <1>6, <1>7

\* On SQLite, for any accounts, amounts, days and requests in flight: a deleted
\* account has zero balance, future-dated transactions included, whatever is
\* done to its transactions after its deletion (internal/account/zero.go,
\* internal/transaction/update.go, delete.go).
THEOREM DeletedAccountsArePinned ==
    ASSUME Engine = "sqlite"
    PROVE  Spec => []PinnedAtZero
<1>1. Init => BooksInv
  BY InitKeepsBooks
<1>2. BooksInv /\ [Next]_vars => BooksInv'
  BY StepKeepsBooks
<1>3. BooksInv => PinnedAtZero
  BY DEF BooksInv
<1> QED
  BY <1>1, <1>2, <1>3, PTL DEF Spec

\* On SQLite: taking a flow off a deleted account, by deleting the transaction
\* or by editing the account out of it, leaves the account's sum of every day as
\* it was (internal/transaction/update.go, delete.go).
THEOREM RemovedFlowsAreOffset ==
    ASSUME Engine = "sqlite"
    PROVE  Spec => RemovedFlowIsOffsetOnItsDay
<1>1. Init => BooksInv
  BY InitKeepsBooks
<1>2. BooksInv /\ [Next]_vars => BooksInv'
  BY StepKeepsBooks
<1>3. BooksInv /\ [Next]_vars =>
        [\A a \in Account :
            (/\ deleted[a] /\ a \notin unpinned
             /\ \E t \in Id : a \in Parties(rows[t]) /\ a \notin Parties(rows'[t]))
            => \A d \in Day : Balance(rows', a, {d}) = Balance(rows, a, {d})]_vars
  BY StepKeepsBooks
<1> QED
  BY <1>1, <1>2, <1>3, PTL DEF Spec, RemovedFlowIsOffsetOnItsDay

------------------------------------------------------------------------------
(* Types, on either engine *)

\* What a request that is under way asks for, and has written, is rows.
Formed(p) ==
    pc[p] # "idle" =>
        /\ Fields \subseteq DOMAIN req[p] /\ Sensible(p)
        /\ pc[p] = "written" =>
            \A t \in Id : t \in DOMAIN req[p].wrote => t <= minted /\ Flowing(req[p].wrote[t])

TypeInv ==
    /\ TypeOK
    /\ Table(rows) /\ DOMAIN req = Request
    /\ \A p \in Request : Formed(p)

\* What TypeOK says of rows.
LEMMA TypedRows == TypeInv => RowsSound /\ DOMAIN pc = Request /\ DOMAIN req = Request
BY BoundsAssumption DEF TypeInv, TypeOK, RowsSound

\* Requests that stay as they are stay formed while more ids are handed out.
LEMMA OthersStayFormed ==
    ASSUME NEW p, Formed(p), pc'[p] = pc[p], req'[p] = req[p],
           minted \in Nat, minted' \in Nat, minted <= minted'
    PROVE  Formed(p)'
<1>1. Sensible(p) => Sensible(p)'
  BY DEF Sensible
<1>2. \A t \in Id : t <= minted => t <= minted'
  BY BoundsAssumption DEF Id
<1> QED
  BY <1>1, <1>2 DEF Formed

\* Of the requests that arrive, each asks for rows.
LEMMA ArrivalsHaveTypes ==
    ASSUME TypeInv, NEW p \in Request,
           \/ Create(p) \/ Update(p) \/ Delete(p)
           \/ DeleteAccount(p) \/ UpdateAccount(p) \/ ZeroDeletedAccounts(p)
    PROVE  TypeInv'
<1>1. RowsSound /\ DOMAIN pc = Request /\ DOMAIN req = Request
  BY TypedRows
<1>2. PICK stage \in {"read", "open"} : \E r : Start(p, stage, r) /\ Asked(p)'
  BY <1>1, ArrivalsAsk
<1>3. PICK r : Start(p, stage, r) /\ Asked(p)'
  BY <1>2
<1>4. /\ pc' = [pc EXCEPT ![p] = stage] /\ req' = [req EXCEPT ![p] = r]
      /\ UNCHANGED <<rows, deleted, minted, unpinned>>
  BY <1>3 DEF Start
<1>5. writes' \in 0 .. MaxWrites
  <2>1. Count \/ UNCHANGED writes
    BY DEF Create, Update, Delete, DeleteAccount, UpdateAccount, ZeroDeletedAccounts
  <2> QED
    BY <2>1, BoundsAssumption DEF Count, TypeInv, TypeOK
<1>6. TypeOK' /\ Table(rows)' /\ DOMAIN req' = Request
  BY <1>4, <1>5 DEF TypeInv, TypeOK, Table
<1>7. Formed(p)'
  <2>1. pc'[p] = stage /\ RowsSound'
    BY <1>1, <1>4 DEF RowsSound
  <2>2. Sensible(p)'
    BY <1>3, <2>1 DEF Asked, Sensible, RowsSound, Table
  <2> QED
    BY <1>3, <2>1, <2>2 DEF Asked, Formed
<1>8. ASSUME NEW q \in Request, q # p PROVE Formed(q)'
  <2>1. pc'[q] = pc[q] /\ req'[q] = req[q] /\ Formed(q)
    BY <1>1, <1>4, <1>8 DEF TypeInv
  <2> QED
    BY <1>1, <1>4, <2>1, OthersStayFormed DEF RowsSound
<1> QED
  BY <1>6, <1>7, <1>8 DEF TypeInv

\* The statements of a transaction take ids that are left, each one its own.
LEMMA WriteHasTypes ==
    ASSUME TypeInv, NEW p \in Request, Write(p)
    PROVE  TypeInv'
<1> DEFINE W == Written(p)
           fresh == DOMAIN W \ 1 .. minted
           s == IF SavesAccount(p) THEN req[p].on ELSE {}
           x == [req[p] EXCEPT !.wrote = W, !.saved = s]
<1>1. /\ pc[p] \in {"open", "read"}
      /\ fresh \subseteq Id /\ minted' = minted + Cardinality(fresh)
      /\ req' = [req EXCEPT ![p].wrote = W, ![p].saved = s]
      /\ pc' = [pc EXCEPT ![p] = "written"]
      /\ UNCHANGED <<rows, deleted, writes, unpinned>>
  BY DEF Write
<1>2. /\ RowsSound /\ DOMAIN pc = Request /\ DOMAIN req = Request
      /\ minted \in 0 .. MaxRows /\ Fields \subseteq DOMAIN req[p] /\ Sensible(p)
  BY <1>1, TypedRows DEF TypeInv, TypeOK, Formed
<1>3. Writable(p)
  BY <1>1, <1>2, SensibleIsWritable
<1>4. /\ pc'[p] = "written" /\ req'[p] = x /\ DOMAIN req' = Request
      /\ Fields \subseteq DOMAIN x /\ x.wrote = W
      /\ x.op = req[p].op /\ x.id = req[p].id /\ x.old = req[p].old /\ x.new = req[p].new
      /\ x.on = req[p].on /\ x.day = req[p].day /\ x.target = req[p].target
  BY <1>1, <1>2 DEF Fields
<1>5. minted' \in 0 .. MaxRows /\ minted <= minted'
  <2>1. fresh \subseteq (minted + 1) .. MaxRows
    BY <1>1, <1>2, BoundsAssumption DEF Id
  <2>2. /\ IsFiniteSet((minted + 1) .. MaxRows)
        /\ Cardinality((minted + 1) .. MaxRows) = MaxRows - minted
    <3> DEFINE lo == minted + 1
    <3>1. lo \in Int /\ MaxRows \in Int /\ lo <= MaxRows + 1 /\ MaxRows - lo + 1 = MaxRows - minted
      BY <1>2, BoundsAssumption
    <3>2. /\ IsFiniteSet(lo .. MaxRows)
          /\ Cardinality(lo .. MaxRows) = IF lo > MaxRows THEN 0 ELSE MaxRows - lo + 1
      <4> HIDE DEF lo
      <4> QED
        BY <3>1, FS_Interval
    <3> QED
      BY <1>2, <3>1, <3>2, BoundsAssumption
  <2>3. Cardinality(fresh) \in Nat /\ Cardinality(fresh) <= MaxRows - minted
    BY <2>1, <2>2, FS_Subset, FS_CardinalityType
  <2> HIDE DEF fresh
  <2> QED
    BY <1>1, <1>2, <2>3, BoundsAssumption
<1> HIDE DEF x, s
<1>6. TypeOK'
  <2>1. \A t \in Id : t > minted' => t > minted
    BY <1>2, <1>5, BoundsAssumption DEF Id
  <2> HIDE DEF W, fresh
  <2> QED
    BY <1>1, <1>5, <2>1 DEF TypeInv, TypeOK
<1>7. Table(rows)'
  BY <1>1 DEF TypeInv, Table
<1>8. Formed(p)'
  <2>1. Sensible(p)'
    <3> HIDE DEF W, fresh
    <3> QED
      BY <1>2, <1>4, <1>5 DEF Sensible
  <2>2. ASSUME NEW t \in Id, t \in DOMAIN W PROVE t <= minted' /\ Flowing(W[t])
    <3>1. \A u \in DOMAIN W : u <= minted'
      <4>1. OnePerAccount(Corrections(p)) /\ PutShape(p) /\ minted \in Nat
        BY <1>2, <1>3, CorrectionsAreRows DEF Writable
      <4> QED
        BY <1>1, <4>1, WrittenRows
    <3>2. Table(Outcome(p)) /\ Outcome(p)[t] = W[t]
      BY <1>3, <2>2, OutcomeRows DEF Outcome, Over
    <3> QED
      BY <2>2, <3>1, <3>2 DEF Table
  <2> HIDE DEF W, fresh
  <2> QED
    BY <1>4, <2>1, <2>2 DEF Formed
<1>9. ASSUME NEW q \in Request, q # p PROVE Formed(q)'
  <2>1. pc'[q] = pc[q] /\ req'[q] = req[q] /\ Formed(q)
    BY <1>1, <1>2, <1>9 DEF TypeInv
  <2>2. minted \in Nat /\ minted' \in Nat
    BY <1>2, <1>5
  <2> QED
    BY <1>5, <2>1, <2>2, OthersStayFormed
<1> QED
  BY <1>4, <1>6, <1>7, <1>8, <1>9 DEF TypeInv

\* A request that ends leaves rows, whether it commits or not.
LEMMA EndHasTypes ==
    ASSUME TypeInv, NEW p \in Request, Commit(p) \/ Fail(p)
    PROVE  TypeInv'
<1>1. /\ pc[p] # "idle" /\ UNCHANGED <<minted, writes>>
      /\ pc' = [pc EXCEPT ![p] = "idle"] /\ req' = [req EXCEPT ![p] = NoRequest]
  BY DEF Commit, Fail
<1>2. /\ RowsSound /\ DOMAIN pc = Request /\ DOMAIN req = Request
      /\ Formed(p) /\ TypeOK
  BY TypedRows DEF TypeInv
<1>3. \A q \in Request : Formed(q)'
  <2>1. Formed(p)'
    BY <1>1, <1>2 DEF Formed
  <2>2. ASSUME NEW q \in Request, q # p PROVE Formed(q)'
    <3>1. pc'[q] = pc[q] /\ req'[q] = req[q] /\ Formed(q)
      BY <1>1, <1>2, <2>2 DEF TypeInv
    <3> QED
      BY <1>1, <1>2, <3>1, OthersStayFormed DEF RowsSound
  <2> QED
    BY <2>1, <2>2
<1>4. /\ Table(rows)' /\ DOMAIN rows' = Id
      /\ \A t \in Id : t > minted' => rows'[t] = Absent
  <2>1. CASE Commit(p)
    <3>1. /\ rows' = [t \in Id |-> IF t \in DOMAIN req[p].wrote THEN req[p].wrote[t] ELSE rows[t]]
          /\ pc[p] = "written"
      BY <2>1 DEF Commit, Seen
    <3>2. \A t \in Id : t \in DOMAIN req[p].wrote => t <= minted /\ Flowing(req[p].wrote[t])
      BY <1>2, <3>1 DEF Formed
    <3>3. \A t \in Id : t > minted => ~(t <= minted)
      BY <1>2, BoundsAssumption DEF Id, RowsSound
    <3> QED
      BY <1>1, <1>2, <3>1, <3>2, <3>3 DEF Table, RowsSound
  <2>2. CASE Fail(p)
    BY <1>1, <1>2, <2>2 DEF Fail, RowsSound, Table, TypeOK
  <2> QED
    BY <2>1, <2>2
<1>5. deleted' \in [Account -> BOOLEAN]
  BY <1>2 DEF Commit, Fail, TypeOK, SavedDeleted
<1>6. unpinned' \subseteq Account
  <2>1. CASE Commit(p)
    <3>1. req[p].op = "updateAccount" => req[p].on \subseteq Account
      BY <1>1, <1>2 DEF Formed, Sensible
    <3>2. unpinned' \subseteq unpinned
            \cup (IF req[p].op = "updateAccount" THEN req[p].on ELSE {})
      BY <2>1 DEF Commit
    <3> QED
      BY <1>2, <3>1, <3>2 DEF TypeOK
  <2>2. CASE Fail(p)
    BY <1>2, <2>2 DEF Fail, TypeOK
  <2> QED
    BY <2>1, <2>2
<1>7. TypeOK'
  BY <1>1, <1>2, <1>4, <1>5, <1>6 DEF TypeOK, Table, Flowing
<1>8. DOMAIN req' = Request
  BY <1>1, <1>2
<1> QED
  BY <1>3, <1>4, <1>7, <1>8 DEF TypeInv

\* On either engine, however the transactions cross: every variable has its
\* type, every row is of accounts, and no id is used that was not handed out.
THEOREM TypesHold ==
    ASSUME Cardinality(Legacy) <= MaxRows
    PROVE  Spec => []TypeOK
<1>1. Init => TypeInv
  <2> SUFFICES ASSUME Init PROVE TypeInv
    OBVIOUS
  <2>1. RowsSound
    BY InitKeepsBooks DEF BooksInv
  <2>2. PICK old \in SUBSET Legacy, amount \in Amount :
            /\ deleted = [a \in Account |-> a \in old]
            /\ minted = Cardinality(old) /\ unpinned = old
            /\ \E owner \in Bijection(1 .. minted, old) :
                rows = [t \in Id |-> IF t <= minted THEN Correction(owner[t], amount, Today) ELSE Absent]
    BY DEF Init
  <2>3. minted \in 0 .. MaxRows /\ unpinned \subseteq Account
    <3>1. IsFiniteSet(Legacy) /\ Legacy \subseteq Account
      BY AccountAssumption, FS_Subset
    <3>2. Cardinality(old) \in Nat /\ Cardinality(Legacy) \in Nat
            /\ Cardinality(old) <= Cardinality(Legacy)
      BY <2>2, <3>1, FS_Subset, FS_CardinalityType
    <3> QED
      BY <2>2, <3>1, <3>2, BoundsAssumption
  <2>4. DOMAIN rows = Id
    BY <2>2
  <2>5. deleted \in [Account -> BOOLEAN]
    BY <2>2
  <2>6. /\ pc = [p \in Request |-> "idle"] /\ writes \in 0 .. MaxWrites
        /\ DOMAIN req = Request
    BY BoundsAssumption DEF Init
  <2>7. TypeOK
    BY <2>1, <2>3, <2>4, <2>5, <2>6 DEF TypeOK, RowsSound, Table, Flowing
  <2> QED
    BY <2>1, <2>6, <2>7 DEF TypeInv, RowsSound, Formed
<1>2. TypeInv /\ [Next]_vars => TypeInv'
  <2>1. ASSUME TypeInv, UNCHANGED vars PROVE TypeInv'
    BY <2>1 DEF vars, TypeInv, TypeOK, Table, Formed, Sensible
  <2> QED
    BY <2>1, ArrivalsHaveTypes, WriteHasTypes, EndHasTypes DEF Next
<1> QED
  BY <1>1, <1>2, PTL DEF Spec, TypeInv

==============================================================================
