--------------------------- MODULE Postings_proofs ---------------------------
(***************************************************************************)
(* Proofs about Postings, for any sources, payments, wordings, accounts    *)
(* and requests in flight.  On either database: the variables have their   *)
(* types, no payment or request is turned into two transactions (IInv),    *)
(* and no payment is forgotten but by unlinking (Memory).  On SQLite,      *)
(* where a transaction runs alone, what it was prepared from still holds   *)
(* when it commits (Serial): links, posts and corrections follow.          *)
(***************************************************************************)
EXTENDS Postings, TLAPS

\* What a request has read and will write.
WriteSet == [op : {"none", "ingest", "retry", "sync", "post", "backfill"},
             events : SUBSET Payload, failed : SUBSET Payload,
             rows : SUBSET (Key \X LedgerRow), made : SUBSET (Txn \X TransactionRow),
             amounts : SUBSET (Txn \X Amount), claim : SUBSET Operation,
             template : SUBSET TemplateRow]

Types ==
    /\ transactions \in [Txn -> TransactionRow]
    /\ inbox \in [Payload -> {"none", "failed", "processed"}]
    /\ cards \in [Source -> {"unmapped", "ignored"} \cup Account]
    /\ ledger \in [Key -> LedgerRow]
    /\ handled \in SUBSET Operation
    /\ template \in TemplateRow
    /\ open \in [Request -> WriteSet]
    /\ \A r \in Request : open[r].failed \subseteq open[r].events
    /\ <<engine, kinds>> \in Mixes

\* What a transaction may have been made for: a request that is handled, a
\* payment whose row is linked.
Counted(x) == x \in handled \/ (x \in Key /\ ledger[x].status = "linked")

Accounted == \A t \in Txn : \A x \in transactions[t].for : Counted(x)

\* What a transaction is made for is written with it, and once.
Linking(rows, x) == x \in Key /\ (\E p \in rows : p[1] = x)
                              /\ \A p \in rows : p[1] = x => p[2].status = "linked"
Sound(made, rows, claim) ==
    /\ \A m \in made : \A x \in m[2].for : x \in claim \/ Linking(rows, x)
    /\ \A m, n \in made : m # n => m[2].for \cap n[2].for = {}

OpenSound == \A r \in Request : open[r].op # "backfill" =>
                Sound(open[r].made, open[r].rows, open[r].claim)

IInv == Types /\ Accounted /\ OpenSound /\ MadeOnce

------------------------------------------------------------------------------
(* The helpers *)

\* Lookup returns what a pair says of x, or the old value.
LEMMA LookupCases ==
    ASSUME NEW pairs, NEW x, NEW old
    PROVE  \/ \E p \in pairs : p[1] = x /\ Lookup(pairs, x, old) = p[2]
           \/ (\A p \in pairs : p[1] # x) /\ Lookup(pairs, x, old) = old
<1>1. CASE \E p \in pairs : p[1] = x
    <2>1. /\ (CHOOSE p \in pairs : p[1] = x) \in pairs
          /\ (CHOOSE p \in pairs : p[1] = x)[1] = x
        BY <1>1
    <2> QED BY <1>1, <2>1 DEF Lookup
<1>2. CASE ~\E p \in pairs : p[1] = x
    BY <1>2 DEF Lookup
<1> QED BY <1>1, <1>2

\* A row written for what was decided of a payment has its type.
LEMMA RowType ==
    ASSUME NEW v \in {"queued", "skipped"} \cup Txn, NEW event \in SUBSET Payload
    PROVE  Row(v, event) \in LedgerRow
BY IdsAssumption DEF Row, LedgerRow

\* A created transaction has its type.
LEMMA CreatedType ==
    ASSUME NEW t \in Txn, NEW a \in Account, NEW n \in Amount,
           NEW what \in SUBSET (Key \cup Operation)
    PROVE  Created(t, a, n, what) \in Txn \X TransactionRow
BY DEF Created, TransactionRow

\* The outcomes of the payments K: each a decision or a transaction of its
\* own, and a transaction only of a card that goes to an account.
LEMMA OutcomesType ==
    ASSUME NEW K, NEW c, NEW f \in Outcomes(K, c)
    PROVE  /\ f \in [K -> {"queued", "skipped"} \cup Txn]
           /\ \A k \in K : f[k] \in Txn => c \in Account
           /\ \A j, k \in K : f[j] = f[k] /\ f[j] \in Txn => j = k
BY IdsAssumption DEF Outcomes

\* What outcomes create has its type.
LEMMA MakesType ==
    ASSUME NEW K \in SUBSET Key, NEW c, NEW f \in Outcomes(K, c)
    PROVE  Makes(f, c) \in SUBSET (Txn \X TransactionRow)
<1>a. DOMAIN f = K BY OutcomesType
<1>1. SUFFICES ASSUME NEW k \in K, f[k] \in FreshTxn
               PROVE  Created(f[k], c, Says[k], {k}) \in Txn \X TransactionRow
    BY <1>a DEF Makes
<1>2. f[k] \in Txn BY <1>1 DEF FreshTxn
<1>3. c \in Account BY <1>1, <1>2, OutcomesType
<1>4. Says[k] \in Amount BY SaysAssumption
<1> QED BY <1>2, <1>3, <1>4, CreatedType

------------------------------------------------------------------------------
(* Writes *)

\* What a write leaves, of transactions, ledger and handled.
Written(made, rows, claim) ==
    /\ \A t \in Txn : transactions'[t].for = Lookup(made, t, transactions[t]).for
    /\ \A k \in Key : ledger'[k] = Lookup(rows, k, ledger[k])
    /\ handled' = handled \cup claim

\* A sound write to payments that are not linked, under request ids that are
\* not handled, keeps every payment and request to one transaction.
LEMMA WriteKeepsOnce ==
    ASSUME Types, Accounted, MadeOnce,
           NEW made, NEW rows, NEW claim \in SUBSET Operation,
           Sound(made, rows, claim), claim \cap handled = {},
           \A p \in rows : p[1] \in Key => ledger[p[1]].status # "linked",
           Written(made, rows, claim)
    PROVE  Accounted' /\ MadeOnce'
<1>1. ASSUME NEW x, Counted(x) PROVE Counted(x)'
    <2>1. CASE x \in handled BY <2>1 DEF Written, Counted
    <2>2. CASE x \in Key /\ ledger[x].status = "linked"
        <3>1. ledger'[x] = ledger[x] BY <2>2, LookupCases DEF Written
        <3> QED BY <2>2, <3>1 DEF Counted
    <2> QED BY <1>1, <2>1, <2>2 DEF Counted
<1>2. ASSUME NEW m \in made, NEW x \in m[2].for PROVE Counted(x)' /\ ~Counted(x)
    <2>1. CASE x \in claim
        <3>1. x \notin Key /\ x \notin handled BY <2>1, IdsAssumption
        <3> QED BY <2>1, <3>1 DEF Written, Counted
    <2>2. CASE Linking(rows, x)
        <3>1. PICK p \in rows : p[1] = x BY <2>2 DEF Linking
        <3>2. x \in Key /\ ledger[x].status # "linked" BY <2>2, <3>1 DEF Linking
        <3>3. x \notin handled BY <3>2, IdsAssumption DEF Types
        <3>4. ledger'[x] = Lookup(rows, x, ledger[x]) BY <3>2 DEF Written
        <3>5. PICK q \in rows : q[1] = x /\ Lookup(rows, x, ledger[x]) = q[2]
            BY <3>1, LookupCases
        <3>6. q[2].status = "linked" BY <2>2, <3>5 DEF Linking
        <3> QED BY <3>2, <3>3, <3>4, <3>5, <3>6 DEF Counted
    <2> QED BY <2>1, <2>2 DEF Sound
<1>3. ASSUME NEW t \in Txn
      PROVE  \/ \E m \in made : m[1] = t /\ transactions'[t].for = m[2].for
             \/ transactions'[t].for = transactions[t].for
    <2>1. transactions'[t].for = Lookup(made, t, transactions[t]).for BY DEF Written
    <2> QED BY <2>1, LookupCases
<1>4. Accounted'
    BY <1>1, <1>2, <1>3 DEF Accounted
<1>5. ASSUME NEW s \in Txn, NEW t \in Txn, s # t
      PROVE  transactions'[s].for \cap transactions'[t].for = {}
    <2>1. CASE /\ transactions'[s].for = transactions[s].for
               /\ transactions'[t].for = transactions[t].for
        BY <2>1, <1>5 DEF MadeOnce
    <2>2. CASE \E m, n \in made : /\ m[1] = s /\ transactions'[s].for = m[2].for
                                  /\ n[1] = t /\ transactions'[t].for = n[2].for
        BY <2>2, <1>5 DEF Sound
    <2>3. CASE /\ \E m \in made : transactions'[s].for = m[2].for
               /\ transactions'[t].for = transactions[t].for
        BY <2>3, <1>2 DEF Accounted
    <2>4. CASE /\ \E m \in made : transactions'[t].for = m[2].for
               /\ transactions'[s].for = transactions[s].for
        BY <2>4, <1>2 DEF Accounted
    <2> QED BY <1>3, <2>1, <2>2, <2>3, <2>4
<1> QED BY <1>4, <1>5 DEF MadeOnce

\* What the outcomes of payments create is written with their linked rows.
LEMMA MakesSound ==
    ASSUME NEW K \in SUBSET Key, NEW c, NEW f \in Outcomes(K, c), NEW from
    PROVE  Sound(Makes(f, c), {<<k, Row(f[k], from[k])>> : k \in K}, {})
<1> DEFINE rows == {<<k, Row(f[k], from[k])>> : k \in K}
<1>0. DOMAIN f = K BY OutcomesType
<1>1. ASSUME NEW m \in Makes(f, c)
      PROVE  \E k \in K : f[k] \in FreshTxn /\ m = Created(f[k], c, Says[k], {k})
    BY <1>0 DEF Makes
<1>2. ASSUME NEW k \in K, f[k] \in FreshTxn PROVE Linking(rows, k)
    <2>1. f[k] \in Txn BY <1>2 DEF FreshTxn
    <2>2. Row(f[k], from[k]).status = "linked" BY <2>1 DEF Row
    <2>3. \A p \in rows : p[1] = k => p[2].status = "linked" BY <2>2
    <2>a. <<k, Row(f[k], from[k])>> \in rows OBVIOUS
    <2>b. <<k, Row(f[k], from[k])>>[1] = k OBVIOUS
    <2>4. \E p \in rows : p[1] = k BY <2>a, <2>b
    <2> QED BY <2>3, <2>4 DEF Linking
<1>3. \A k \in K : Created(f[k], c, Says[k], {k})[2].for = {k} BY DEF Created
<1>4. ASSUME NEW m \in Makes(f, c), NEW x \in m[2].for PROVE Linking(rows, x)
    <2>1. PICK k \in K : f[k] \in FreshTxn /\ m = Created(f[k], c, Says[k], {k}) BY <1>1
    <2>2. x = k BY <2>1, <1>3
    <2> QED BY <2>1, <2>2, <1>2
<1>5. ASSUME NEW m \in Makes(f, c), NEW n \in Makes(f, c), m # n
      PROVE  m[2].for \cap n[2].for = {}
    <2>1. PICK j \in K : m = Created(f[j], c, Says[j], {j}) BY <1>1
    <2>2. PICK k \in K : n = Created(f[k], c, Says[k], {k}) BY <1>1
    <2>3. j # k BY <2>1, <2>2, <1>5
    <2>4. m[2].for = {j} /\ n[2].for = {k} BY <2>1, <2>2, <1>3
    <2> QED BY <2>3, <2>4
<1> HIDE DEF rows
<1>6. Sound(Makes(f, c), rows, {}) BY <1>4, <1>5 DEF Sound
<1> QED BY <1>6 DEF rows

\* The rows of outcomes have their type.
LEMMA OutcomeRowsType ==
    ASSUME NEW K \in SUBSET Key, NEW c, NEW f \in Outcomes(K, c),
           NEW from \in [K -> SUBSET Payload]
    PROVE  {<<k, Row(f[k], from[k])>> : k \in K} \in SUBSET (Key \X LedgerRow)
<1>1. ASSUME NEW k \in K PROVE Row(f[k], from[k]) \in LedgerRow
    <2>1. f[k] \in {"queued", "skipped"} \cup Txn BY OutcomesType
    <2> QED BY <2>1, RowType
<1>2. ASSUME NEW p \in {<<k, Row(f[k], from[k])>> : k \in K} PROVE p \in Key \X LedgerRow
    <2>1. PICK k \in K : p = <<k, Row(f[k], from[k])>> BY <1>2
    <2> QED BY <2>1, <1>1
<1> QED BY <1>2

LEMMA MakeType ==
    ASSUME Types, NEW made \in SUBSET (Txn \X TransactionRow), Make(made)
    PROVE  transactions' \in [Txn -> TransactionRow]
<1>1. ASSUME NEW t \in Txn PROVE Lookup(made, t, transactions[t]) \in TransactionRow
    BY LookupCases DEF Types
<1> QED BY <1>1 DEF Make

LEMMA WriteRowsType ==
    ASSUME Types, NEW rows \in SUBSET (Key \X LedgerRow), WriteRows(rows)
    PROVE  ledger' \in [Key -> LedgerRow]
<1>1. ASSUME NEW k \in Key PROVE Lookup(rows, k, ledger[k]) \in LedgerRow
    BY LookupCases DEF Types
<1> QED BY <1>1 DEF WriteRows

------------------------------------------------------------------------------
(* Requests: one opens, commits or is rolled back *)

LEMMA InitInv == Init => IInv
<1> SUFFICES ASSUME Init PROVE IInv OBVIOUS
<1>1. NoTransaction \in TransactionRow BY DEF NoTransaction, TransactionRow
<1>2. NoRow \in LedgerRow BY DEF NoRow, LedgerRow
<1>3. NoTemplate \in TemplateRow /\ [NoTemplate EXCEPT !.live = TRUE] \in TemplateRow
    <2>1. 0 \in 0 .. MaxNext BY BoundAssumption
    <2> QED BY <2>1 DEF NoTemplate, TemplateRow
<1>4. Closed \in WriteSet BY DEF Closed, WriteSet
<1>5. <<engine, kinds>> \in Mixes
    <2>1. PICK mix \in Mixes : engine = mix[1] /\ kinds = mix[2] BY DEF Init
    <2>2. mix = <<mix[1], mix[2]>> BY MixesAssumption
    <2> QED BY <2>1, <2>2
<1>6. Types
    BY <1>1, <1>2, <1>3, <1>4, <1>5 DEF Init, Types, Closed
<1>7. Accounted /\ MadeOnce
    BY DEF Init, Accounted, MadeOnce, NoTransaction
<1>8. OpenSound
    BY DEF Init, OpenSound, Sound, Closed
<1> QED BY <1>6, <1>7, <1>8 DEF IInv

LEMMA OpenInv ==
    ASSUME IInv, NEW r \in Request, NEW w \in WriteSet, Open(r, w),
           w.failed \subseteq w.events, Sound(w.made, w.rows, w.claim)
    PROVE  IInv'
<1>1. \A q \in Request : open'[q] = IF q = r THEN w ELSE open[q]
    BY DEF Open, IInv, Types
<1>2. Types'
    BY <1>1 DEF Open, IInv, Types, site, stored
<1>3. OpenSound'
    BY <1>1 DEF IInv, OpenSound, Sound, Linking
<1>4. Accounted' /\ MadeOnce'
    BY DEF Open, IInv, Accounted, Counted, MadeOnce, stored
<1> QED BY <1>2, <1>3, <1>4 DEF IInv

LEMMA ApplyInv ==
    ASSUME IInv, NEW r \in Request, NEW op \in {"ingest", "retry", "sync"}, NEW s,
           NEW P \in SUBSET Payload, NEW failed \in SUBSET P, Apply(r, op, s, P, failed)
    PROVE  IInv'
<1> DEFINE K == NewKeys(P \ failed)
<1>1. PICK f \in Outcomes(K, cards[s]), from \in [K -> P \ failed] :
        Open(r, [Closed EXCEPT
                !.op = op, !.events = P, !.failed = failed,
                !.rows = {<<k, Row(f[k], {from[k]})>> : k \in DOMAIN f},
                !.made = Makes(f, cards[s]),
                !.amounts = IF op # "sync" THEN {}
                            ELSE {<<f[k], Says[k]>> :
                                    k \in {j \in DOMAIN f : f[j] \in Txn /\ Corrects(j, f[j])}}])
    BY DEF Apply
<1>2. K \in SUBSET Key BY DEF NewKeys
<1> HIDE DEF K
<1>3. DOMAIN f = K BY OutcomesType
<1> DEFINE ev == [k \in K |-> {from[k]}]
           rows == {<<k, Row(f[k], ev[k])>> : k \in K}
           made == Makes(f, cards[s])
           amounts == IF op # "sync" THEN {}
                      ELSE {<<f[k], Says[k]>> :
                              k \in {j \in DOMAIN f : f[j] \in Txn /\ Corrects(j, f[j])}}
           w == [Closed EXCEPT !.op = op, !.events = P, !.failed = failed, !.rows = rows,
                               !.made = made, !.amounts = amounts]
<1>4. rows = {<<k, Row(f[k], {from[k]})>> : k \in DOMAIN f}
    BY <1>3
<1>5. Open(r, w)
    BY <1>1, <1>4
<1>6. Sound(made, rows, {})
    BY <1>2, MakesSound
<1>7. rows \in SUBSET (Key \X LedgerRow)
    <2>1. ev \in [K -> SUBSET Payload] OBVIOUS
    <2> HIDE DEF ev
    <2> QED BY <1>2, <2>1, OutcomeRowsType
<1>8. made \in SUBSET (Txn \X TransactionRow)
    BY <1>2, MakesType
<1>9. amounts \in SUBSET (Txn \X Amount)
    BY <1>2, <1>3, SaysAssumption
<1> HIDE DEF rows, made, amounts
<1>10. w \in WriteSet
    BY <1>7, <1>8, <1>9 DEF WriteSet, Closed
<1>11. w.failed \subseteq w.events /\ w.made = made /\ w.rows = rows /\ w.claim = {}
    BY DEF Closed
<1> HIDE DEF w
<1> QED BY <1>5, <1>6, <1>10, <1>11, OpenInv

LEMMA PostInv ==
    ASSUME IInv, NEW r \in Request, PostRecurring(r)
    PROVE  IInv'
<1>1. PICK o \in Operation \ handled, t \in FreshTxn, a \in Account, n \in Amount :
        Open(r, [Closed EXCEPT !.op = "post", !.claim = {o}, !.made = {Created(t, a, n, {o})},
                    !.template = {Advance(template)}])
    BY DEF PostRecurring
<1> DEFINE made == {Created(t, a, n, {o})}
           w == [Closed EXCEPT !.op = "post", !.claim = {o}, !.made = made,
                    !.template = {Advance(template)}]
<1>2. Advance(template) \in TemplateRow
    BY BoundAssumption DEF PostRecurring, Advance, IInv, Types, TemplateRow
<1>3. made \in SUBSET (Txn \X TransactionRow)
    BY CreatedType DEF FreshTxn
<1>4. Sound(made, {}, {o})
    BY DEF Sound, Created
<1> HIDE DEF made
<1>5. w \in WriteSet BY <1>2, <1>3 DEF WriteSet, Closed
<1>6. w.failed \subseteq w.events /\ w.made = made /\ w.rows = {} /\ w.claim = {o}
    BY DEF Closed
<1>7. Open(r, w) BY <1>1 DEF made
<1> HIDE DEF w
<1> QED BY <1>4, <1>5, <1>6, <1>7, OpenInv

\* A backfill holds the row of an existing transaction: it makes none.
LEMMA ReadForRuleInv ==
    ASSUME IInv, NEW r \in Request, ReadForRule(r)
    PROVE  IInv'
<1>1. PICK k \in Key : \E t \in ledger[k].transaction :
        open' = [open EXCEPT ![r] = [Closed EXCEPT !.op = "backfill", !.made = {<<t, transactions[t]>>}]]
    BY DEF ReadForRule
<1>2. PICK t \in ledger[k].transaction :
        open' = [open EXCEPT ![r] = [Closed EXCEPT !.op = "backfill", !.made = {<<t, transactions[t]>>}]]
    BY <1>1
<1>3. t \in Txn BY DEF IInv, Types, LedgerRow
<1> DEFINE made == {<<t, transactions[t]>>}
           w == [Closed EXCEPT !.op = "backfill", !.made = made]
<1>4. made \in SUBSET (Txn \X TransactionRow) BY <1>3 DEF IInv, Types
<1>5. open' = [open EXCEPT ![r] = w] BY <1>2
<1> HIDE DEF made
<1>6. w \in WriteSet /\ w.failed \subseteq w.events /\ w.op = "backfill"
    BY <1>4 DEF WriteSet, Closed
<1> HIDE DEF w
<1>7. \A q \in Request : open'[q] = IF q = r THEN w ELSE open[q]
    BY <1>5 DEF IInv, Types
<1>8. Types' BY <1>5, <1>6, <1>7 DEF ReadForRule, IInv, Types, site, stored
<1>9. OpenSound' BY <1>6, <1>7 DEF IInv, OpenSound, Sound, Linking
<1>10. Accounted' /\ MadeOnce'
    BY DEF ReadForRule, IInv, Accounted, Counted, MadeOnce, stored
<1> QED BY <1>8, <1>9, <1>10 DEF IInv

\* A request that is done holds nothing.
LEMMA ClosedSound ==
    ASSUME IInv, NEW r \in Request, open' = [open EXCEPT ![r] = Closed]
    PROVE  /\ open' \in [Request -> WriteSet]
           /\ \A q \in Request : open'[q].failed \subseteq open'[q].events
           /\ OpenSound'
<1>1. /\ Closed \in WriteSet /\ Closed.failed \subseteq Closed.events
      /\ Sound(Closed.made, Closed.rows, Closed.claim)
    BY DEF Closed, WriteSet, Sound
<1>2. \A q \in Request : open'[q] = IF q = r THEN Closed ELSE open[q]
    BY DEF IInv, Types
<1>3. OpenSound' BY <1>1, <1>2 DEF IInv, OpenSound, Sound, Linking
<1> QED BY <1>1, <1>2, <1>3 DEF IInv, Types

LEMMA RollbackInv ==
    ASSUME IInv, NEW r \in Request, Rollback(r)
    PROVE  IInv'
<1>1. Types' BY ClosedSound DEF Rollback, IInv, Types, site, stored
<1>2. OpenSound' BY ClosedSound DEF Rollback
<1>3. Accounted' /\ MadeOnce'
    BY DEF Rollback, IInv, Accounted, Counted, MadeOnce, stored
<1> QED BY <1>1, <1>2, <1>3 DEF IInv

LEMMA CommitInv ==
    ASSUME IInv, NEW r \in Request, Commit(r)
    PROVE  IInv'
<1> DEFINE w == open[r]
<1>1. w \in WriteSet BY DEF IInv, Types
<1>2. /\ w.op # "backfill"
      /\ \A p \in w.rows : ledger[p[1]].status = "none"
      /\ w.claim \cap handled = {}
      /\ handled' = handled \cup w.claim
      /\ inbox' = [e \in Payload |-> IF e \in w.failed THEN "failed"
                                     ELSE IF e \in w.events THEN "processed" ELSE inbox[e]]
      /\ ledger' = [k \in Key |-> Lookup(w.rows, k, ledger[k])]
      /\ transactions' = [t \in Txn |-> Corrected(w, t, Lookup(w.made, t, transactions[t]))]
      /\ template' = IF w.template = {} THEN template ELSE CHOOSE tpl \in w.template : TRUE
      /\ open' = [open EXCEPT ![r] = Closed]
      /\ UNCHANGED <<site, cards>>
    BY DEF Commit, InTransaction, KeysFree
<1>3. Sound(w.made, w.rows, w.claim) BY <1>2 DEF IInv, OpenSound
<1>4. /\ w.made \in SUBSET (Txn \X TransactionRow) /\ w.rows \in SUBSET (Key \X LedgerRow)
      /\ w.amounts \in SUBSET (Txn \X Amount) /\ w.claim \in SUBSET Operation
      /\ w.template \in SUBSET TemplateRow
    BY <1>1 DEF WriteSet
<1> HIDE DEF w
<1>5. ASSUME NEW t \in Txn, NEW row \in TransactionRow
      PROVE  Corrected(w, t, row) \in TransactionRow /\ Corrected(w, t, row).for = row.for
    <2>1. row.amount \in Amount \cup {0} BY DEF TransactionRow
    <2>2. Lookup(w.amounts, t, row.amount) \in Amount \cup {0}
        BY <1>4, <2>1, LookupCases
    <2> QED BY <2>2 DEF Corrected, TransactionRow
<1>6. ASSUME NEW t \in Txn PROVE Lookup(w.made, t, transactions[t]) \in TransactionRow
    BY <1>4, LookupCases DEF IInv, Types
<1>7. ASSUME NEW k \in Key PROVE Lookup(w.rows, k, ledger[k]) \in LedgerRow
    BY <1>4, LookupCases DEF IInv, Types
<1>8. Types'
    <2>1. transactions' \in [Txn -> TransactionRow] BY <1>2, <1>5, <1>6
    <2>2. ledger' \in [Key -> LedgerRow] BY <1>2, <1>7
    <2>3. template' \in TemplateRow BY <1>2, <1>4 DEF IInv, Types
    <2>4. inbox' \in [Payload -> {"none", "failed", "processed"}] BY <1>2 DEF IInv, Types
    <2>5. handled' \in SUBSET Operation BY <1>2, <1>4 DEF IInv, Types
    <2>6. <<engine', kinds'>> \in Mixes /\ cards' \in [Source -> {"unmapped", "ignored"} \cup Account]
        BY <1>2 DEF IInv, Types, site
    <2> QED BY <1>2, <2>1, <2>2, <2>3, <2>4, <2>5, <2>6, ClosedSound DEF Types
<1>9. OpenSound' BY <1>2, ClosedSound
<1>10. Written(w.made, w.rows, w.claim)
    <2>1. \A t \in Txn : transactions'[t].for = Lookup(w.made, t, transactions[t]).for
        BY <1>2, <1>5, <1>6
    <2> QED BY <1>2, <2>1 DEF Written
<1>11. \A p \in w.rows : p[1] \in Key => ledger[p[1]].status # "linked"
    BY <1>2
<1>12. Accounted' /\ MadeOnce'
    BY <1>2, <1>3, <1>4, <1>10, <1>11, WriteKeepsOnce DEF IInv
<1> QED BY <1>8, <1>9, <1>12 DEF IInv

------------------------------------------------------------------------------
(* The queue, the settings, the templates and what the user does *)

\* Requests that were in flight stay as they were.
LEMMA OpenStays ==
    ASSUME IInv, UNCHANGED open
    PROVE  /\ open' \in [Request -> WriteSet]
           /\ \A r \in Request : open'[r].failed \subseteq open'[r].events
           /\ OpenSound'
BY DEF IInv, Types, OpenSound, Sound, Linking

\* A handler that is one transaction: it makes transactions and writes rows,
\* soundly, to payments that are not linked.
LEMMA HandlerInv ==
    ASSUME IInv, UNCHANGED <<site, open>>,
           NEW made \in SUBSET (Txn \X TransactionRow), NEW rows \in SUBSET (Key \X LedgerRow),
           NEW claim \in SUBSET Operation,
           Make(made), WriteRows(rows), handled' = handled \cup claim,
           Sound(made, rows, claim), claim \cap handled = {},
           \A p \in rows : ledger[p[1]].status # "linked",
           inbox' \in [Payload -> {"none", "failed", "processed"}],
           cards' \in [Source -> {"unmapped", "ignored"} \cup Account],
           template' \in TemplateRow
    PROVE  IInv'
<1>1. transactions' \in [Txn -> TransactionRow] /\ ledger' \in [Key -> LedgerRow]
    BY MakeType, WriteRowsType DEF IInv
<1>2. Types'
    BY <1>1, OpenStays DEF IInv, Types, site
<1>3. Written(made, rows, claim)
    BY DEF Written, Make, WriteRows
<1>4. Accounted' /\ MadeOnce'
    BY <1>3, WriteKeepsOnce DEF IInv
<1> QED BY <1>2, <1>4, OpenStays DEF IInv

\* Writing nothing.
LEMMA MakeNothing ==
    ASSUME Types, UNCHANGED transactions PROVE Make({})
BY DEF Make, Lookup, Types

LEMMA WriteNoRows ==
    ASSUME Types, UNCHANGED ledger PROVE WriteRows({})
BY DEF WriteRows, Lookup, Types

LEMMA NothingSound ==
    ASSUME NEW rows, NEW claim PROVE Sound({}, rows, claim)
BY DEF Sound

LEMMA CreateRecurringInv == ASSUME IInv, CreateRecurring PROVE IInv'
<1>1. PICK o \in Operation \ handled :
        handled' = handled \cup {o} /\ template' = [NoTemplate EXCEPT !.live = TRUE]
    BY DEF CreateRecurring
<1>2. [NoTemplate EXCEPT !.live = TRUE] \in TemplateRow
    <2>1. 0 \in 0 .. MaxNext BY BoundAssumption
    <2> QED BY <2>1 DEF NoTemplate, TemplateRow
<1>3. Make({}) /\ WriteRows({}) /\ Sound({}, {}, {o})
    BY MakeNothing, WriteNoRows, NothingSound DEF CreateRecurring, IInv
<1>4. /\ inbox' \in [Payload -> {"none", "failed", "processed"}]
      /\ cards' \in [Source -> {"unmapped", "ignored"} \cup Account]
      /\ template' \in TemplateRow
    BY <1>1, <1>2 DEF CreateRecurring, IInv, Types
<1>5. UNCHANGED <<site, open>> BY DEF CreateRecurring
<1>6. {o} \in SUBSET Operation /\ {o} \cap handled = {} /\ handled' = handled \cup {o} BY <1>1
<1> QED BY <1>3, <1>4, <1>5, <1>6, HandlerInv

LEMMA SetTemplateInv ==
    ASSUME IInv, NEW new \in TemplateRow, SetTemplate(new) PROVE IInv'
<1>1. Make({}) /\ WriteRows({}) /\ Sound({}, {}, {})
    BY MakeNothing, WriteNoRows, NothingSound DEF SetTemplate, IInv
<1> QED BY <1>1, HandlerInv DEF SetTemplate, IInv, Types, site

LEMMA RecurringInv == ASSUME IInv, Recurring PROVE IInv'
<1>1. NoTemplate \in TemplateRow /\ [NoTemplate EXCEPT !.live = TRUE] \in TemplateRow
    <2>1. 0 \in 0 .. MaxNext BY BoundAssumption
    <2> QED BY <2>1 DEF NoTemplate, TemplateRow
<1>2. CASE CreateRecurring BY <1>2, CreateRecurringInv
<1>3. CASE SkipRecurring
    <2>1. Advance(template) \in TemplateRow
        BY <1>3, BoundAssumption DEF SkipRecurring, Advance, IInv, Types, TemplateRow
    <2> QED BY <1>3, <2>1, SetTemplateInv DEF SkipRecurring
<1>4. CASE UpdateRecurring BY <1>1, <1>4, SetTemplateInv DEF UpdateRecurring
<1>5. CASE DeleteRecurring BY <1>1, <1>5, SetTemplateInv DEF DeleteRecurring
<1> QED BY <1>2, <1>3, <1>4, <1>5 DEF Recurring

LEMMA ImportQueuedInv == ASSUME IInv, ImportQueuedEvent PROVE IInv'
<1>1. PICK k \in Key, o \in Operation \ handled, t \in FreshTxn, a \in Account, n \in Amount :
        /\ Importable(k)
        /\ handled' = handled \cup {o}
        /\ Make({Created(t, a, n, {k, o})})
        /\ WriteRows({<<k, Row(t, ledger[k].event)>>})
    BY DEF ImportQueuedEvent
<1> DEFINE made == {Created(t, a, n, {k, o})}
           rows == {<<k, Row(t, ledger[k].event)>>}
<1>2. t \in Txn BY DEF FreshTxn
<1>3. made \in SUBSET (Txn \X TransactionRow) BY <1>2, CreatedType
<1>4. rows \in SUBSET (Key \X LedgerRow)
    <2>1. ledger[k].event \in SUBSET Payload BY DEF IInv, Types, LedgerRow
    <2>2. Row(t, ledger[k].event) \in LedgerRow BY <1>2, <2>1, RowType
    <2> QED BY <2>2
<1>5. Linking(rows, k)
    <2>1. Row(t, ledger[k].event).status = "linked" BY <1>2 DEF Row
    <2>2. <<k, Row(t, ledger[k].event)>> \in rows OBVIOUS
    <2>3. \A p \in rows : p[1] = k /\ p[2].status = "linked" BY <2>1
    <2> QED BY <2>2, <2>3 DEF Linking
<1>6. Sound(made, rows, {o})
    <2>1. \A m \in made : m[2].for = {k, o} BY DEF Created
    <2>2. \A m, n1 \in made : m = n1 OBVIOUS
    <2> QED BY <1>5, <2>1, <2>2 DEF Sound
<1>7. \A p \in rows : ledger[p[1]].status # "linked" BY <1>1 DEF Importable
<1>8. Make(made) /\ WriteRows(rows) /\ handled' = handled \cup {o} BY <1>1
<1> HIDE DEF made, rows
<1> QED BY <1>3, <1>4, <1>6, <1>7, <1>8, HandlerInv DEF ImportQueuedEvent, IInv, Types

LEMMA FlipInv ==
    ASSUME IInv, NEW k \in Key, NEW from \in {"queued", "skipped"},
           NEW to \in {"queued", "skipped"}, Flip(k, from, to)
    PROVE  IInv'
<1> DEFINE rows == {<<k, [ledger[k] EXCEPT !.status = to]>>}
<1>1. rows \in SUBSET (Key \X LedgerRow) BY DEF IInv, Types, LedgerRow
<1>2. \A p \in rows : ledger[p[1]].status # "linked" BY DEF Flip
<1>3. WriteRows(rows) BY DEF Flip
<1> HIDE DEF rows
<1>4. Make({}) /\ Sound({}, rows, {})
    BY MakeNothing, NothingSound DEF Flip, IInv
<1> QED BY <1>1, <1>2, <1>3, <1>4, HandlerInv DEF Flip, IInv, Types

LEMMA DiscardInv == ASSUME IInv, DiscardEvent PROVE IInv'
<1>1. Make({}) /\ WriteRows({}) /\ Sound({}, {}, {})
    BY MakeNothing, WriteNoRows, NothingSound DEF DiscardEvent, IInv
<1>2. inbox' \in [Payload -> {"none", "failed", "processed"}]
    BY DEF DiscardEvent, IInv, Types
<1> QED BY <1>1, <1>2, HandlerInv DEF DiscardEvent, IInv, Types, site

LEMMA LinkAccountInv == ASSUME IInv, LinkAccount PROVE IInv'
<1>1. PICK s \in Source, a \in Account :
        /\ cards' = [cards EXCEPT ![s] = a]
        /\ \E f \in Outcomes({k \in Queued(s) : Convertible(k)}, a) :
            /\ WriteRows({<<k, Row(f[k], ledger[k].event)>> : k \in DOMAIN f})
            /\ Make(Makes(f, a))
    BY DEF LinkAccount
<1> DEFINE K == {k \in Queued(s) : Convertible(k)}
<1>2. K \in SUBSET Key /\ \A k \in K : ledger[k].status = "queued" BY DEF Queued
<1>3. PICK f \in Outcomes(K, a) :
        /\ WriteRows({<<k, Row(f[k], ledger[k].event)>> : k \in DOMAIN f})
        /\ Make(Makes(f, a))
    BY <1>1
<1> HIDE DEF K
<1>4. DOMAIN f = K BY OutcomesType
<1> DEFINE ev == [k \in K |-> ledger[k].event]
           rows == {<<k, Row(f[k], ev[k])>> : k \in K}
           made == Makes(f, a)
<1>5. rows = {<<k, Row(f[k], ledger[k].event)>> : k \in DOMAIN f} BY <1>4
<1>6. ev \in [K -> SUBSET Payload] BY <1>2 DEF IInv, Types, LedgerRow
<1>7. \A p \in rows : ledger[p[1]].status # "linked" BY <1>2
<1>8. Sound(made, rows, {}) BY <1>2, MakesSound
<1>9. rows \in SUBSET (Key \X LedgerRow)
    <2> HIDE DEF ev
    <2> QED BY <1>2, <1>6, OutcomeRowsType
<1>10. made \in SUBSET (Txn \X TransactionRow) BY <1>2, MakesType
<1>11. WriteRows(rows) /\ Make(made) BY <1>3, <1>5
<1> HIDE DEF rows, made
<1>12. cards' \in [Source -> {"unmapped", "ignored"} \cup Account]
    BY <1>1 DEF IInv, Types
<1> QED BY <1>7, <1>8, <1>9, <1>10, <1>11, <1>12, HandlerInv DEF LinkAccount, IInv, Types

LEMMA IgnoreAccountInv == ASSUME IInv, IgnoreAccount PROVE IInv'
<1>1. PICK s \in Source :
        /\ cards' = [cards EXCEPT ![s] = "ignored"]
        /\ WriteRows({<<k, [ledger[k] EXCEPT !.status = "skipped"]>> : k \in Queued(s)})
    BY DEF IgnoreAccount
<1> DEFINE rows == {<<k, [ledger[k] EXCEPT !.status = "skipped"]>> : k \in Queued(s)}
<1>2. rows \in SUBSET (Key \X LedgerRow)
    BY DEF Queued, IInv, Types, LedgerRow
<1>3. \A p \in rows : ledger[p[1]].status # "linked" BY DEF Queued
<1>4. WriteRows(rows) BY <1>1
<1> HIDE DEF rows
<1>5. Make({}) /\ Sound({}, rows, {})
    BY MakeNothing, NothingSound DEF IgnoreAccount, IInv
<1>6. cards' \in [Source -> {"unmapped", "ignored"} \cup Account]
    BY <1>1 DEF IInv, Types
<1> QED BY <1>2, <1>3, <1>4, <1>5, <1>6, HandlerInv DEF IgnoreAccount, IInv, Types

LEMMA UnlinkAccountInv == ASSUME IInv, UnlinkAccount PROVE IInv'
<1>1. PICK s \in Source :
        /\ cards' = [cards EXCEPT ![s] = "unmapped"]
        /\ WriteRows({<<k, NoRow>> : k \in Purged(s)})
        /\ inbox' = [e \in Payload |-> IF \E k \in Purged(s) : e \in ledger[k].event
                                       THEN "none" ELSE inbox[e]]
    BY DEF UnlinkAccount
<1> DEFINE rows == {<<k, NoRow>> : k \in Purged(s)}
<1>2. rows \in SUBSET (Key \X LedgerRow)
    <2>1. NoRow \in LedgerRow BY DEF NoRow, LedgerRow
    <2> QED BY <2>1 DEF Purged, Queued
<1>3. \A p \in rows : ledger[p[1]].status # "linked" BY DEF Purged, Queued
<1>4. WriteRows(rows) BY <1>1
<1> HIDE DEF rows
<1>5. Make({}) /\ Sound({}, rows, {})
    BY MakeNothing, NothingSound DEF UnlinkAccount, IInv
<1>6. /\ cards' \in [Source -> {"unmapped", "ignored"} \cup Account]
      /\ inbox' \in [Payload -> {"none", "failed", "processed"}]
    BY <1>1 DEF IInv, Types
<1> QED BY <1>2, <1>3, <1>4, <1>5, <1>6, HandlerInv DEF UnlinkAccount, IInv, Types

LEMMA DeleteSourceInv == ASSUME IInv, DeleteSource PROVE IInv'
<1>1. PICK s \in Source :
        /\ cards' = [cards EXCEPT ![s] = "unmapped"]
        /\ WriteRows({<<k, NoRow>> : k \in {j \in Key : j[1] = s}})
        /\ inbox' = [e \in Payload |-> IF e[1] = s THEN "none" ELSE inbox[e]]
        /\ transactions' = [t \in Txn |-> [transactions[t] EXCEPT
                                !.for = {x \in @ : x \in Operation \/ x[1] # s}]]
    BY DEF DeleteSource
<1> DEFINE rows == {<<k, NoRow>> : k \in {j \in Key : j[1] = s}}
<1>2. rows \in SUBSET (Key \X LedgerRow)
    <2>1. NoRow \in LedgerRow BY DEF NoRow, LedgerRow
    <2> QED BY <2>1
<1>3. \A p \in rows : p[1][1] = s OBVIOUS
<1>4. WriteRows(rows) BY <1>1
<1> HIDE DEF rows
<1>5. ASSUME NEW t \in Txn
      PROVE  /\ transactions'[t] \in TransactionRow
             /\ transactions'[t].for
                  = {x \in transactions[t].for : x \in Operation \/ x[1] # s}
    BY <1>1 DEF IInv, Types, TransactionRow
<1>6. Types'
    <2>1. transactions' \in [Txn -> TransactionRow] BY <1>1, <1>5
    <2>2. ledger' \in [Key -> LedgerRow] BY <1>2, <1>4, WriteRowsType DEF IInv
    <2>3. /\ cards' \in [Source -> {"unmapped", "ignored"} \cup Account]
          /\ inbox' \in [Payload -> {"none", "failed", "processed"}]
        BY <1>1 DEF IInv, Types
    <2> QED BY <2>1, <2>2, <2>3, OpenStays DEF DeleteSource, IInv, Types, site
<1>7. ASSUME NEW t \in Txn, NEW x \in transactions'[t].for PROVE Counted(x)'
    <2>1. x \in transactions[t].for /\ (x \in Operation \/ x[1] # s) BY <1>5
    <2>2. Counted(x) BY <2>1 DEF IInv, Accounted
    <2>3. CASE x \in handled BY <2>3 DEF Counted, DeleteSource
    <2>4. CASE x \in Key /\ ledger[x].status = "linked"
        <3>1. x \notin Operation BY <2>4, IdsAssumption
        <3>2. \A p \in rows : p[1] # x BY <1>3, <2>1, <3>1
        <3>3. ledger'[x] = ledger[x]
            BY <1>4, <2>4, <3>2, LookupCases DEF WriteRows
        <3> QED BY <2>4, <3>3 DEF Counted
    <2> QED BY <2>2, <2>3, <2>4 DEF Counted
<1>8. Accounted' BY <1>7 DEF Accounted
<1>9. MadeOnce'
    <2>1. ASSUME NEW t \in Txn PROVE transactions'[t].for \subseteq transactions[t].for
        BY <1>5
    <2> QED BY <2>1 DEF IInv, MadeOnce
<1>10. OpenSound' BY OpenStays DEF DeleteSource
<1> QED BY <1>6, <1>8, <1>9, <1>10 DEF IInv

LEMMA CreateTransactionInv == ASSUME IInv, CreateTransaction PROVE IInv'
<1>1. PICK o \in Operation \ handled, t \in FreshTxn, a \in Account, n \in Amount :
        handled' = handled \cup {o} /\ Make({Created(t, a, n, {o})})
    BY DEF CreateTransaction
<1> DEFINE made == {Created(t, a, n, {o})}
<1>2. made \in SUBSET (Txn \X TransactionRow) BY CreatedType DEF FreshTxn
<1>3. Sound(made, {}, {o}) BY DEF Sound, Created
<1>4. Make(made) /\ handled' = handled \cup {o} BY <1>1
<1> HIDE DEF made
<1>5. WriteRows({}) BY WriteNoRows DEF CreateTransaction, IInv
<1>6. /\ inbox' \in [Payload -> {"none", "failed", "processed"}]
      /\ cards' \in [Source -> {"unmapped", "ignored"} \cup Account]
      /\ template' \in TemplateRow
    BY DEF CreateTransaction, IInv, Types
<1>7. UNCHANGED <<site, open>> BY DEF CreateTransaction
<1>8. {o} \in SUBSET Operation /\ {o} \cap handled = {} BY <1>1
<1> QED BY <1>2, <1>3, <1>4, <1>5, <1>6, <1>7, <1>8, HandlerInv

\* A write to transactions that exist leaves what they were made for.
LEMMA EditInv ==
    ASSUME IInv, UNCHANGED <<site, inbox, cards, handled, template>>,
           transactions' \in [Txn -> TransactionRow], ledger' \in [Key -> LedgerRow],
           \A t \in Txn : transactions'[t].for = transactions[t].for,
           \A k \in Key : ledger'[k].status = ledger[k].status,
           open' \in [Request -> WriteSet],
           \A r \in Request : open'[r].failed \subseteq open'[r].events, OpenSound'
    PROVE  IInv'
<1>1. Types' BY DEF IInv, Types, site
<1>2. \A x : Counted(x) => Counted(x)' BY DEF Counted
<1>3. Accounted' /\ MadeOnce' BY <1>2 DEF IInv, Accounted, MadeOnce
<1> QED BY <1>1, <1>3 DEF IInv

LEMMA UpdateTransactionInv == ASSUME IInv, UpdateTransaction PROVE IInv'
<1>1. PICK u \in Txn, a \in Account, n \in Amount :
        transactions' = [transactions EXCEPT ![u].account = {a}, ![u].amount = n]
    BY DEF UpdateTransaction
<1> DEFINE row == [transactions[u] EXCEPT !.account = {a}, !.amount = n]
<1>2. row \in TransactionRow /\ row.for = transactions[u].for
    BY DEF IInv, Types, TransactionRow
<1>3. transactions' = [transactions EXCEPT ![u] = row]
    BY <1>1 DEF IInv, Types
<1> HIDE DEF row
<1>4. /\ transactions' \in [Txn -> TransactionRow]
      /\ \A t \in Txn : transactions'[t].for = transactions[t].for
    BY <1>2, <1>3 DEF IInv, Types
<1> QED BY <1>4, OpenStays, EditInv DEF UpdateTransaction, IInv, Types

LEMMA DeleteTransactionInv == ASSUME IInv, DeleteTransaction PROVE IInv'
<1>1. PICK u \in Txn :
        /\ transactions' = [transactions EXCEPT ![u] = [NoTransaction EXCEPT
                                !.state = "deleted", !.for = transactions[u].for]]
        /\ ledger' = [k \in Key |-> [ledger[k] EXCEPT !.transaction = @ \ {u}]]
    BY DEF DeleteTransaction
<1>2. /\ transactions' \in [Txn -> TransactionRow]
      /\ \A t \in Txn : transactions'[t].for = transactions[t].for
    BY <1>1 DEF IInv, Types, TransactionRow, NoTransaction
<1>3. /\ ledger' \in [Key -> LedgerRow]
      /\ \A k \in Key : ledger'[k].status = ledger[k].status
    BY <1>1 DEF IInv, Types, LedgerRow
<1> QED BY <1>2, <1>3, OpenStays, EditInv DEF DeleteTransaction

LEMMA ApplyRuleInv == ASSUME IInv, NEW r \in Request, ApplyRule(r) PROVE IInv'
<1>1. PICK m \in open[r].made :
        transactions' = [transactions EXCEPT ![m[1]].account = m[2].account,
                                             ![m[1]].amount = m[2].amount]
    BY DEF ApplyRule
<1>2. m[1] \in Txn /\ m[2] \in TransactionRow
    BY DEF IInv, Types, WriteSet
<1>3. /\ transactions' \in [Txn -> TransactionRow]
      /\ \A t \in Txn : transactions'[t].for = transactions[t].for
    BY <1>1, <1>2 DEF IInv, Types, TransactionRow
<1> QED BY <1>3, ClosedSound, EditInv DEF ApplyRule, IInv, Types

------------------------------------------------------------------------------
(* Every step *)

LEMMA NextInv == ASSUME IInv, [Next]_vars PROVE IInv'
<1>1. CASE UNCHANGED vars
    BY <1>1, OpenStays, EditInv DEF vars, site, IInv, Types
<1>2. CASE \E r \in Request : Import(r)
    <2>1. PICK r \in Request : Import(r) BY <1>2
    <2>2. CASE IngestAppleWallet(r)
        <3>1. PICK e \in Payload, failed \in SUBSET Payload :
                failed \subseteq {e} /\ Apply(r, "ingest", e[1], {e}, failed)
            BY <2>2 DEF IngestAppleWallet
        <3> QED BY <3>1, ApplyInv
    <2>3. CASE RetryEvent(r)
        <3>1. PICK e \in Payload : Apply(r, "retry", e[1], {e}, {})
            BY <2>3 DEF RetryEvent
        <3> QED BY <3>1, ApplyInv
    <2>4. CASE Sync(r)
        <3>1. PICK s \in Source \ Push :
                \E P \in SUBSET {e \in Payload : e[1] = s /\ NewPayload(e)} \ {{}} :
                    \E failed \in SUBSET P : Apply(r, "sync", s, P, failed)
            BY <2>4 DEF Sync
        <3>2. PICK P \in SUBSET Payload : \E failed \in SUBSET P : Apply(r, "sync", s, P, failed)
            BY <3>1
        <3>3. PICK failed \in SUBSET P : Apply(r, "sync", s, P, failed) BY <3>2
        <3> QED BY <3>3, ApplyInv
    <2> QED BY <2>1, <2>2, <2>3, <2>4 DEF Import
<1>3. CASE Queue
    <2>1. CASE SkipQueuedEvent BY <2>1, FlipInv DEF SkipQueuedEvent
    <2>2. CASE UnskipQueuedEvent BY <2>2, FlipInv DEF UnskipQueuedEvent
    <2> QED BY <1>3, <2>1, <2>2, ImportQueuedInv, DiscardInv, LinkAccountInv, IgnoreAccountInv,
               UnlinkAccountInv, DeleteSourceInv DEF Queue
<1>4. CASE ByHand
    BY <1>4, CreateTransactionInv, UpdateTransactionInv, DeleteTransactionInv DEF ByHand
<1> QED BY <1>1, <1>2, <1>3, <1>4, PostInv, ReadForRuleInv, ApplyRuleInv, CommitInv,
           RollbackInv, RecurringInv DEF Next

THEOREM Inductive == Spec => []IInv
<1> QED BY InitInv, NextInv, PTL DEF Spec

\* Every variable of the imports and the templates has its type, on either
\* database and for any number of sources, payments and requests in flight.
THEOREM TypesHold == Spec => []TypeOK
<1>1. IInv => TypeOK BY DEF IInv, Types, TypeOK, WriteSet
<1> QED BY <1>1, Inductive, PTL

\* A payment is never turned into two transactions, nor is a request's id: not
\* by deliveries repeated, reworded, retried or at once, conversions, imports
\* by hand, posts at once, or the user deleting what was imported.
THEOREM PaymentsAreMadeOnce == Spec => []MadeOnce
<1>1. IInv => MadeOnce BY DEF IInv
<1> QED BY <1>1, Inductive, PTL

------------------------------------------------------------------------------
(* What the imports remember *)

\* A row keeps the payloads it came from, and they are processed.
Remembered ==
    \A k \in Key : /\ ledger[k].status # "none" => ledger[k].event # {}
                   /\ \A e \in ledger[k].event : KeyOf(e) = k /\ inbox[e] = "processed"

\* What a request is about to remember: a payload that failed is new, one that
\* was understood has a row, written with it or there before.
Prepared(w) ==
    /\ \A e \in w.failed : inbox[e] = "none"
    /\ \A p \in w.rows : /\ p[2].status # "none" /\ p[2].event # {}
                         /\ \A e \in p[2].event : e \in w.events \ w.failed /\ KeyOf(e) = p[1]
    /\ \A e \in w.events \ w.failed : \/ \E p \in w.rows : p[1] = KeyOf(e)
                                      \/ ledger[KeyOf(e)].status # "none"

OpenPrepared ==
    \A r \in Request : /\ Prepared(open[r])
                       /\ ~InTransaction(r) => open[r].events = {} /\ open[r].rows = {}

Apart == \A q, r \in Request : q # r => open[r].failed \cap open[q].events = {}

Memory == Remembered /\ OpenPrepared /\ Apart

\* A step after which no payload counts as processed without its payment in
\* the ledger, unless it did before.
StillKnown ==
    \A e \in Payload : inbox'[e] = "processed" /\ ledger'[KeyOf(e)].status = "none" =>
                        inbox[e] = "processed" /\ ledger[KeyOf(e)].status = "none"

LEMMA PayloadKey == ASSUME NEW e \in Payload PROVE KeyOf(e) \in Key
BY PayloadAssumption DEF KeyOf, Key

LEMMA InitMemory == Init => Memory
BY DEF Init, Memory, Remembered, OpenPrepared, Prepared, Apart, NoRow, Closed

\* Rows keep their status and their payloads, whatever else is written.
LEMMA KeptMemory ==
    ASSUME IInv, Memory, UNCHANGED <<inbox, open>>,
           \A k \in Key : /\ ledger'[k].status = ledger[k].status
                          /\ ledger'[k].event = ledger[k].event
    PROVE  Memory' /\ StillKnown
<1>1. Remembered' BY DEF Memory, Remembered
<1>2. OpenPrepared'
    BY PayloadKey DEF Memory, OpenPrepared, Prepared, InTransaction, IInv, Types, WriteSet
<1>3. Apart' BY DEF Memory, Apart
<1>4. StillKnown BY PayloadKey DEF StillKnown
<1> QED BY <1>1, <1>2, <1>3, <1>4 DEF Memory

\* With no transaction open, only the inbox and the ledger matter.
LEMMA AloneMemory ==
    ASSUME IInv, Memory, \A r \in Request : ~InTransaction(r), UNCHANGED open, Remembered'
    PROVE  Memory'
<1>1. \A r \in Request : open[r].events = {} /\ open[r].rows = {} /\ open[r].failed = {}
    BY DEF Memory, OpenPrepared, IInv, Types
<1>2. OpenPrepared' BY <1>1 DEF OpenPrepared, Prepared
<1>3. Apart' BY <1>1 DEF Apart
<1> QED BY <1>2, <1>3 DEF Memory

LEMMA CloseMemory ==
    ASSUME IInv, Memory, NEW r \in Request, open' = [open EXCEPT ![r] = Closed],
           UNCHANGED <<inbox, ledger>>
    PROVE  Memory'
<1>1. \A q \in Request : open'[q] = IF q = r THEN Closed ELSE open[q] BY DEF IInv, Types
<1>2. Remembered' BY DEF Memory, Remembered
<1>3. OpenPrepared'
    <2>1. ASSUME NEW q \in Request
          PROVE  Prepared(open[q])' /\ (~InTransaction(q) => open[q].events = {} /\ open[q].rows = {})'
        <3>1. CASE q = r BY <1>1, <3>1 DEF Prepared, Closed
        <3>2. CASE q # r
            BY <1>1, <3>2 DEF Memory, OpenPrepared, Prepared, InTransaction
        <3> QED BY <3>1, <3>2
    <2> QED BY <2>1 DEF OpenPrepared
<1>4. Apart' BY <1>1 DEF Memory, Apart, Closed
<1> QED BY <1>2, <1>3, <1>4 DEF Memory

LEMMA OpenMemory ==
    ASSUME IInv, Memory, NEW r \in Request, NEW w, Open(r, w), Prepared(w),
           w.op \in {"none", "backfill"} => w.events = {} /\ w.rows = {},
           \A q \in Request : /\ w.failed \cap open[q].events = {}
                              /\ w.events \cap open[q].failed = {}
    PROVE  Memory'
<1>1. \A q \in Request : open'[q] = IF q = r THEN w ELSE open[q] BY DEF Open, IInv, Types
<1>2. inbox' = inbox /\ ledger' = ledger BY DEF Open, stored
<1>3. Remembered' BY <1>2 DEF Memory, Remembered
<1>4. OpenPrepared'
    <2>1. ASSUME NEW q \in Request
          PROVE  Prepared(open[q])' /\ (~InTransaction(q) => open[q].events = {} /\ open[q].rows = {})'
        <3>1. CASE q = r BY <1>1, <1>2, <3>1 DEF Prepared, InTransaction
        <3>2. CASE q # r
            BY <1>1, <1>2, <3>2 DEF Memory, OpenPrepared, Prepared, InTransaction
        <3> QED BY <3>1, <3>2
    <2> QED BY <2>1 DEF OpenPrepared
<1>5. Apart' BY <1>1 DEF Memory, Apart
<1> QED BY <1>3, <1>4, <1>5 DEF Memory

LEMMA ApplyMemory ==
    ASSUME IInv, Memory, NEW r \in Request, NEW op \in {"ingest", "retry", "sync"}, NEW s,
           NEW P \in SUBSET Payload, NEW failed \in SUBSET P, Apply(r, op, s, P, failed),
           \A e \in failed : inbox[e] = "none",
           \A q \in Request : failed \cap open[q].events = {} /\ P \cap open[q].failed = {}
    PROVE  Memory'
<1> DEFINE K == NewKeys(P \ failed)
<1>1. PICK f \in Outcomes(K, cards[s]), from \in [K -> P \ failed] :
        /\ \A k \in DOMAIN f : KeyOf(from[k]) = k
        /\ Open(r, [Closed EXCEPT
                !.op = op, !.events = P, !.failed = failed,
                !.rows = {<<k, Row(f[k], {from[k]})>> : k \in DOMAIN f},
                !.made = Makes(f, cards[s]),
                !.amounts = IF op # "sync" THEN {}
                            ELSE {<<f[k], Says[k]>> :
                                    k \in {j \in DOMAIN f : f[j] \in Txn /\ Corrects(j, f[j])}}])
    BY DEF Apply
<1>2. \A e \in P \ failed : KeyOf(e) \in K \/ ledger[KeyOf(e)].status # "none"
    BY PayloadKey DEF NewKeys
<1> HIDE DEF K
<1>3. DOMAIN f = K BY OutcomesType
<1> DEFINE rows == {<<k, Row(f[k], {from[k]})>> : k \in DOMAIN f}
           made == Makes(f, cards[s])
           amounts == IF op # "sync" THEN {}
                      ELSE {<<f[k], Says[k]>> :
                              k \in {j \in DOMAIN f : f[j] \in Txn /\ Corrects(j, f[j])}}
           w == [Closed EXCEPT !.op = op, !.events = P, !.failed = failed, !.rows = rows,
                               !.made = made, !.amounts = amounts]
<1>4. Open(r, w) BY <1>1
<1>5. ASSUME NEW p \in rows
      PROVE  /\ p[2].status # "none" /\ p[2].event # {}
             /\ \A e \in p[2].event : e \in P \ failed /\ KeyOf(e) = p[1]
    <2>1. PICK k \in K : p = <<k, Row(f[k], {from[k]})>> BY <1>3
    <2>2. p[1] = k /\ p[2] = Row(f[k], {from[k]}) BY <2>1
    <2>3. f[k] \in {"queued", "skipped"} \cup Txn BY OutcomesType
    <2>4. p[2].status # "none" /\ p[2].event = {from[k]} BY <2>2, <2>3 DEF Row
    <2>5. from[k] \in P \ failed /\ KeyOf(from[k]) = k BY <1>1, <1>3
    <2> QED BY <2>2, <2>4, <2>5
<1>6. ASSUME NEW e \in P \ failed
      PROVE  (\E p \in rows : p[1] = KeyOf(e)) \/ ledger[KeyOf(e)].status # "none"
    <2>1. CASE KeyOf(e) \in K
        <3>1. <<KeyOf(e), Row(f[KeyOf(e)], {from[KeyOf(e)]})>> \in rows BY <1>3, <2>1
        <3> HIDE DEF rows
        <3> QED BY <3>1
    <2> QED BY <1>2, <2>1
<1> HIDE DEF rows, made, amounts
<1>7. w.op = op /\ w.events = P /\ w.failed = failed /\ w.rows = rows BY DEF Closed
<1> HIDE DEF w
<1>8. Prepared(w) BY <1>5, <1>6, <1>7 DEF Prepared
<1> QED BY <1>4, <1>7, <1>8, OpenMemory

LEMMA ImportMemory == ASSUME IInv, Memory, NEW r \in Request, Import(r) PROVE Memory'
<1>1. \A q \in Request : open[q].failed \subseteq open[q].events BY DEF IInv, Types
<1>2. CASE IngestAppleWallet(r)
    <2>1. PICK e \in Payload, failed \in SUBSET Payload :
            NewPayload(e) /\ failed \subseteq {e} /\ Apply(r, "ingest", e[1], {e}, failed)
        BY <1>2 DEF IngestAppleWallet
    <2> QED BY <1>1, <2>1, ApplyMemory DEF NewPayload
<1>3. CASE RetryEvent(r)
    <2>1. PICK e \in Payload : inbox[e] = "failed" /\ Apply(r, "retry", e[1], {e}, {})
        BY <1>3 DEF RetryEvent
    <2>2. \A q \in Request : e \notin open[q].failed
        BY <2>1 DEF Memory, OpenPrepared, Prepared
    <2> QED BY <2>1, <2>2, ApplyMemory
<1>4. CASE Sync(r)
    <2>1. PICK s \in Source \ Push :
            \E P \in SUBSET {e \in Payload : e[1] = s /\ NewPayload(e)} \ {{}} :
                \E failed \in SUBSET P : Apply(r, "sync", s, P, failed)
        BY <1>4 DEF Sync
    <2>2. PICK P \in SUBSET Payload :
            /\ \A e \in P : NewPayload(e)
            /\ \E failed \in SUBSET P : Apply(r, "sync", s, P, failed)
        BY <2>1
    <2>3. PICK failed \in SUBSET P : Apply(r, "sync", s, P, failed) BY <2>2
    <2> QED BY <1>1, <2>2, <2>3, ApplyMemory DEF NewPayload
<1> QED BY <1>2, <1>3, <1>4 DEF Import

LEMMA CommitMemory ==
    ASSUME IInv, Memory, NEW r \in Request, Commit(r)
    PROVE  Memory' /\ StillKnown
<1> DEFINE w == open[r]
<1>1. /\ Prepared(w)
      /\ w.failed \subseteq w.events
      /\ \A q \in Request : q # r => open[q].failed \cap w.events = {}
    BY DEF Memory, OpenPrepared, Apart, IInv, Types
<1>2. /\ inbox' = [e \in Payload |-> IF e \in w.failed THEN "failed"
                                     ELSE IF e \in w.events THEN "processed" ELSE inbox[e]]
      /\ ledger' = [k \in Key |-> Lookup(w.rows, k, ledger[k])]
      /\ open' = [open EXCEPT ![r] = Closed]
    BY DEF Commit
<1> HIDE DEF w
<1>3. ASSUME NEW k \in Key
      PROVE  \/ \E p \in w.rows : p[1] = k /\ ledger'[k] = p[2]
             \/ (\A p \in w.rows : p[1] # k) /\ ledger'[k] = ledger[k]
    BY <1>2, LookupCases
<1>4. ASSUME NEW k \in Key, ledger[k].status # "none" \/ \E p \in w.rows : p[1] = k
      PROVE  ledger'[k].status # "none"
    BY <1>1, <1>3, <1>4 DEF Prepared
<1>5. Remembered'
    <2>1. ASSUME NEW k \in Key
          PROVE  /\ ledger'[k].status # "none" => ledger'[k].event # {}
                 /\ \A e \in ledger'[k].event : KeyOf(e) = k /\ inbox'[e] = "processed"
        <3>0. ledger[k].event \subseteq Payload BY DEF IInv, Types, LedgerRow
        <3>1. CASE \E p \in w.rows : p[1] = k /\ ledger'[k] = p[2]
            <4>1. w.events \subseteq Payload BY DEF w, IInv, Types, WriteSet
            <4> QED BY <1>1, <1>2, <3>1, <4>1 DEF Prepared
        <3>2. CASE ledger'[k] = ledger[k]
            <4>1. \A e \in ledger[k].event : inbox[e] = "processed" /\ KeyOf(e) = k
                BY DEF Memory, Remembered
            <4>2. \A e \in ledger[k].event : e \notin w.failed BY <1>1, <4>1 DEF Prepared
            <4> QED BY <1>2, <3>0, <3>2, <4>1, <4>2 DEF Memory, Remembered
        <3> QED BY <1>3, <3>1, <3>2
    <2> QED BY <2>1 DEF Remembered
<1>6. \A q \in Request : open'[q] = IF q = r THEN Closed ELSE open[q] BY <1>2 DEF IInv, Types
<1>7. OpenPrepared'
    <2>1. ASSUME NEW q \in Request
          PROVE  Prepared(open[q])' /\ (~InTransaction(q) => open[q].events = {} /\ open[q].rows = {})'
        <3>1. CASE q = r BY <1>6, <3>1 DEF Prepared, Closed
        <3>2. CASE q # r
            <4>1. /\ Prepared(open[q])
                  /\ ~InTransaction(q) => open[q].events = {} /\ open[q].rows = {}
                BY DEF Memory, OpenPrepared
            <4>2. open'[q] = open[q] BY <1>6, <3>2
            <4>3. open[q].failed \subseteq Payload /\ open[q].events \subseteq Payload
                BY DEF IInv, Types, WriteSet
            <4>4. \A e \in open[q].failed : inbox'[e] = "none"
                BY <1>1, <1>2, <3>2, <4>1, <4>3 DEF Prepared
            <4>5. \A e \in open[q].events \ open[q].failed :
                    \/ \E p \in open[q].rows : p[1] = KeyOf(e)
                    \/ ledger'[KeyOf(e)].status # "none"
                BY <1>4, <4>1, <4>3, PayloadKey DEF Prepared
            <4>6. Prepared(open[q])' BY <4>1, <4>2, <4>4, <4>5 DEF Prepared
            <4> QED BY <4>1, <4>2, <4>6 DEF InTransaction
        <3> QED BY <3>1, <3>2
    <2> QED BY <2>1 DEF OpenPrepared
<1>8. Apart' BY <1>6 DEF Memory, Apart, Closed
<1>9. ASSUME NEW e \in Payload, inbox'[e] = "processed", ledger'[KeyOf(e)].status = "none"
      PROVE  inbox[e] = "processed" /\ ledger[KeyOf(e)].status = "none"
    <2>1. e \notin w.failed BY <1>2, <1>9
    <2>2. (\A p \in w.rows : p[1] # KeyOf(e)) /\ ledger[KeyOf(e)].status = "none"
        BY <1>4, <1>9, PayloadKey
    <2>3. e \notin w.events BY <1>1, <2>1, <2>2 DEF Prepared
    <2> QED BY <1>2, <1>9, <2>1, <2>2, <2>3
<1>10. StillKnown BY <1>9 DEF StillKnown
<1> QED BY <1>5, <1>7, <1>8, <1>10 DEF Memory

\* The user's own steps: rows queued are converted, flipped or forgotten with
\* the payloads they came from.
LEMMA RowsMemory ==
    ASSUME IInv, Memory, UNCHANGED <<inbox, open>>, \A r \in Request : ~InTransaction(r),
           NEW rows, WriteRows(rows),
           \A p \in rows : p[1] \in Key => p[2].status # "none" /\ p[2].event = ledger[p[1]].event
                                           /\ ledger[p[1]].status # "none"
    PROVE  Memory' /\ StillKnown
<1>1. ASSUME NEW k \in Key
      PROVE  /\ ledger'[k].event = ledger[k].event
             /\ ledger'[k].status # "none" <=> ledger[k].status # "none"
    BY LookupCases DEF WriteRows
<1>2. Remembered' BY <1>1 DEF Memory, Remembered
<1>3. StillKnown BY <1>1, PayloadKey DEF StillKnown
<1> QED BY <1>2, <1>3, AloneMemory

LEMMA QueueMemory ==
    ASSUME IInv, Memory, Queue
    PROVE  Memory' /\ (StillKnown \/ UnlinkAccount)
<1>1. (\A r \in Request : ~InTransaction(r)) /\ UNCHANGED open
    BY DEF Queue, ImportQueuedEvent, SkipQueuedEvent, UnskipQueuedEvent, Flip, DiscardEvent,
           LinkAccount, IgnoreAccount, UnlinkAccount, DeleteSource, Alone, MayBegin
<1>2. CASE ImportQueuedEvent
    <2>1. PICK k \in Key : \E t \in FreshTxn :
            Importable(k) /\ WriteRows({<<k, Row(t, ledger[k].event)>>})
        BY <1>2 DEF ImportQueuedEvent
    <2>2. PICK t \in FreshTxn : Importable(k) /\ WriteRows({<<k, Row(t, ledger[k].event)>>})
        BY <2>1
    <2>3. t \in Txn BY DEF FreshTxn
    <2>4. Row(t, ledger[k].event).status # "none" /\ Row(t, ledger[k].event).event = ledger[k].event
        BY <2>3 DEF Row
    <2> QED BY <1>1, <1>2, <2>2, <2>4, RowsMemory DEF ImportQueuedEvent, Importable
<1>3. ASSUME NEW k \in Key, NEW from \in {"queued", "skipped"}, NEW to \in {"queued", "skipped"},
             Flip(k, from, to)
      PROVE  Memory' /\ StillKnown
    <2> DEFINE row == [ledger[k] EXCEPT !.status = to]
    <2>1. row.status = to /\ row.event = ledger[k].event BY DEF IInv, Types, LedgerRow
    <2>2. WriteRows({<<k, row>>}) BY <1>3 DEF Flip
    <2> HIDE DEF row
    <2> QED BY <1>1, <1>3, <2>1, <2>2, RowsMemory DEF Flip
<1>4. CASE SkipQueuedEvent BY <1>3, <1>4 DEF SkipQueuedEvent
<1>5. CASE UnskipQueuedEvent BY <1>3, <1>5 DEF UnskipQueuedEvent
<1>6. CASE DiscardEvent
    <2>1. /\ ledger' = ledger
          /\ \A e \in Payload : inbox[e] = "processed" => inbox'[e] = "processed"
        BY <1>6 DEF DiscardEvent, Discardable, IInv, Types
    <2>2. \A k \in Key : ledger[k].event \subseteq Payload BY DEF IInv, Types, LedgerRow
    <2>3. Remembered' BY <2>1, <2>2 DEF Memory, Remembered
    <2>4. \A e \in Payload : inbox'[e] = "processed" => inbox[e] = "processed"
        BY <1>6 DEF DiscardEvent, IInv, Types
    <2>5. StillKnown BY <2>1, <2>4 DEF StillKnown
    <2> QED BY <1>1, <2>3, <2>5, AloneMemory
<1>7. CASE LinkAccount
    <2>1. PICK s \in Source, a \in Account :
            \E f \in Outcomes({k \in Queued(s) : Convertible(k)}, a) :
                WriteRows({<<k, Row(f[k], ledger[k].event)>> : k \in DOMAIN f})
        BY <1>7 DEF LinkAccount
    <2> DEFINE K == {k \in Queued(s) : Convertible(k)}
    <2>2. \A k \in K : k \in Key /\ ledger[k].status = "queued" BY DEF Queued
    <2>3. PICK f \in Outcomes(K, a) :
            WriteRows({<<k, Row(f[k], ledger[k].event)>> : k \in DOMAIN f})
        BY <2>1
    <2> HIDE DEF K
    <2>4. DOMAIN f = K BY OutcomesType
    <2>5. \A k \in K : f[k] \in {"queued", "skipped"} \cup Txn BY OutcomesType
    <2>6. \A k \in K : /\ Row(f[k], ledger[k].event).status # "none"
                       /\ Row(f[k], ledger[k].event).event = ledger[k].event
        BY <2>5 DEF Row
    <2> DEFINE rows == {<<k, Row(f[k], ledger[k].event)>> : k \in DOMAIN f}
    <2>7. \A p \in rows : /\ p[2].status # "none" /\ p[2].event = ledger[p[1]].event
                          /\ ledger[p[1]].status # "none"
        BY <2>2, <2>4, <2>6
    <2> HIDE DEF rows
    <2>8. WriteRows(rows) BY <2>3 DEF rows
    <2> QED BY <1>1, <1>7, <2>7, <2>8, RowsMemory DEF LinkAccount
<1>8. CASE IgnoreAccount
    <2>1. PICK s \in Source :
            WriteRows({<<k, [ledger[k] EXCEPT !.status = "skipped"]>> : k \in Queued(s)})
        BY <1>8 DEF IgnoreAccount
    <2> DEFINE rows == {<<k, [ledger[k] EXCEPT !.status = "skipped"]>> : k \in Queued(s)}
    <2>2. \A p \in rows : /\ p[2].status # "none" /\ p[2].event = ledger[p[1]].event
                          /\ ledger[p[1]].status # "none"
        BY DEF Queued, IInv, Types, LedgerRow
    <2>3. WriteRows(rows) BY <2>1
    <2> HIDE DEF rows
    <2> QED BY <1>1, <1>8, <2>2, <2>3, RowsMemory DEF IgnoreAccount
<1>9. ASSUME NEW F \in SUBSET Key, WriteRows({<<k, NoRow>> : k \in F}),
             \A e \in Payload : KeyOf(e) \in F \/ inbox[e] # "processed" \/ inbox'[e] = "processed"
      PROVE  Memory' /\ \A k \in Key \ F : ledger'[k] = ledger[k]
    <2> DEFINE rows == {<<k, NoRow>> : k \in F}
    <2>1. WriteRows(rows) BY <1>9
    <2>2. \A p \in rows : p[1] \in F /\ p[2] = NoRow OBVIOUS
    <2>3. \A k \in F : <<k, NoRow>> \in rows OBVIOUS
    <2> HIDE DEF rows
    <2>4. \A k \in F : \E p \in rows : p[1] = k BY <2>3
    <2>5. ASSUME NEW k \in Key PROVE ledger'[k] = IF k \in F THEN NoRow ELSE ledger[k]
        BY <2>1, <2>2, <2>4, LookupCases DEF WriteRows
    <2>6. \A k \in Key : ledger[k].event \subseteq Payload BY DEF IInv, Types, LedgerRow
    <2>7. Remembered' BY <1>9, <2>5, <2>6 DEF Memory, Remembered, NoRow
    <2> QED BY <1>1, <2>5, <2>7, AloneMemory
<1>10. CASE UnlinkAccount
    <2>1. PICK s \in Source :
            /\ WriteRows({<<k, NoRow>> : k \in Purged(s)})
            /\ inbox' = [e \in Payload |-> IF \E k \in Purged(s) : e \in ledger[k].event
                                           THEN "none" ELSE inbox[e]]
        BY <1>10 DEF UnlinkAccount
    <2>2. Purged(s) \in SUBSET Key BY DEF Purged, Queued
    <2>3. \A e \in Payload : KeyOf(e) \in Purged(s) \/ inbox[e] # "processed" \/ inbox'[e] = "processed"
        BY <2>1, <2>2 DEF Memory, Remembered
    <2> QED BY <1>9, <1>10, <2>1, <2>2, <2>3
<1>11. CASE DeleteSource
    <2>1. PICK s \in Source :
            /\ WriteRows({<<k, NoRow>> : k \in {j \in Key : j[1] = s}})
            /\ inbox' = [e \in Payload |-> IF e[1] = s THEN "none" ELSE inbox[e]]
        BY <1>11 DEF DeleteSource
    <2> DEFINE F == {j \in Key : j[1] = s}
    <2>2. \A e \in Payload : e[1] = s => KeyOf(e) \in F BY PayloadKey DEF KeyOf
    <2>3. WriteRows({<<k, NoRow>> : k \in F}) /\ F \in SUBSET Key BY <2>1
    <2> HIDE DEF F
    <2>4. \A e \in Payload : KeyOf(e) \in F \/ inbox[e] # "processed" \/ inbox'[e] = "processed"
        BY <2>1, <2>2
    <2>5. Memory' /\ \A k \in Key \ F : ledger'[k] = ledger[k] BY <1>9, <2>3, <2>4
    <2>6. ASSUME NEW e \in Payload, inbox'[e] = "processed"
          PROVE  inbox[e] = "processed" /\ ledger'[KeyOf(e)] = ledger[KeyOf(e)]
        <3>1. e[1] # s /\ inbox[e] = "processed" BY <2>1, <2>6
        <3>2. KeyOf(e) \in Key /\ KeyOf(e)[1] = e[1] BY PayloadKey DEF KeyOf
        <3> QED BY <2>5, <3>1, <3>2 DEF F
    <2>7. StillKnown BY <2>6 DEF StillKnown
    <2> QED BY <2>5, <2>7
<1> QED BY <1>2, <1>4, <1>5, <1>6, <1>7, <1>8, <1>10, <1>11 DEF Queue

LEMMA NextMemory ==
    ASSUME IInv, Memory, [Next]_vars
    PROVE  Memory' /\ (StillKnown \/ UnlinkAccount)
<1>0. UNCHANGED <<inbox, ledger>> => StillKnown BY DEF StillKnown
<1>1. CASE UNCHANGED <<inbox, ledger, open>> BY <1>1, KeptMemory
<1>2. CASE \E r \in Request : Import(r)
    <2>1. PICK r \in Request : Import(r) BY <1>2
    <2>2. UNCHANGED <<inbox, ledger>>
        BY <2>1 DEF Import, IngestAppleWallet, RetryEvent, Sync, Apply, Open, stored
    <2> QED BY <1>0, <2>1, <2>2, ImportMemory
<1>3. CASE \E r \in Request : PostRecurring(r)
    <2>1. PICK r \in Request : PostRecurring(r) BY <1>3
    <2>a. PICK o \in Operation \ handled, t \in FreshTxn, a \in Account, n \in Amount :
            Open(r, [Closed EXCEPT !.op = "post", !.claim = {o}, !.made = {Created(t, a, n, {o})},
                                   !.template = {Advance(template)}])
        BY <2>1 DEF PostRecurring
    <2> DEFINE w == [Closed EXCEPT !.op = "post", !.claim = {o}, !.made = {Created(t, a, n, {o})},
                                   !.template = {Advance(template)}]
    <2>2. Open(r, w) /\ w.op = "post" /\ w.events = {} /\ w.rows = {} /\ w.failed = {}
        BY <2>a DEF Closed
    <2> HIDE DEF w
    <2>3. Prepared(w) BY <2>2 DEF Prepared
    <2> QED BY <1>0, <2>2, <2>3, OpenMemory DEF Open, stored
<1>4. CASE \E r \in Request : ReadForRule(r)
    <2>1. PICK r \in Request : ReadForRule(r) BY <1>4
    <2>a. PICK k \in Key : \E t \in ledger[k].transaction :
            open' = [open EXCEPT ![r] = [Closed EXCEPT !.op = "backfill",
                                                       !.made = {<<t, transactions[t]>>}]]
        BY <2>1 DEF ReadForRule
    <2>b. PICK t \in ledger[k].transaction :
            open' = [open EXCEPT ![r] = [Closed EXCEPT !.op = "backfill",
                                                       !.made = {<<t, transactions[t]>>}]]
        BY <2>a
    <2> DEFINE w == [Closed EXCEPT !.op = "backfill", !.made = {<<t, transactions[t]>>}]
    <2>2. /\ open' = [open EXCEPT ![r] = w] /\ w.op = "backfill"
          /\ w.events = {} /\ w.rows = {} /\ w.failed = {}
        BY <2>b DEF Closed
    <2> HIDE DEF w
    <2>3. \A q \in Request : open'[q] = IF q = r THEN w ELSE open[q] BY <2>2 DEF IInv, Types
    <2>4. inbox' = inbox /\ ledger' = ledger BY <2>1 DEF ReadForRule, stored
    <2>5. Remembered' BY <2>4 DEF Memory, Remembered
    <2>6. OpenPrepared'
        <3>1. ASSUME NEW q \in Request
              PROVE  Prepared(open[q])' /\ (~InTransaction(q) => open[q].events = {} /\ open[q].rows = {})'
            <4>1. CASE q = r BY <2>2, <2>3, <4>1 DEF Prepared
            <4>2. CASE q # r
                BY <2>3, <2>4, <4>2 DEF Memory, OpenPrepared, Prepared, InTransaction
            <4> QED BY <4>1, <4>2
        <3> QED BY <3>1 DEF OpenPrepared
    <2>7. Apart' BY <2>2, <2>3 DEF Memory, Apart
    <2> QED BY <1>0, <2>4, <2>5, <2>6, <2>7 DEF Memory
<1>5. CASE \E r \in Request : ApplyRule(r) \/ Rollback(r)
    BY <1>0, <1>5, CloseMemory DEF ApplyRule, Rollback, stored
<1>6. CASE \E r \in Request : Commit(r) BY <1>6, CommitMemory
<1>7. CASE Queue BY <1>7, QueueMemory
<1>8. CASE Recurring
    BY <1>1, <1>8 DEF Recurring, CreateRecurring, SkipRecurring, UpdateRecurring, DeleteRecurring,
                      SetTemplate
<1>9. CASE CreateTransaction \/ UpdateTransaction
    BY <1>1, <1>9 DEF CreateTransaction, UpdateTransaction
<1>10. CASE DeleteTransaction
    <2>1. \A k \in Key : ledger'[k].status = ledger[k].status /\ ledger'[k].event = ledger[k].event
        BY <1>10 DEF DeleteTransaction, IInv, Types, LedgerRow
    <2> QED BY <1>10, <2>1, KeptMemory DEF DeleteTransaction
<1>11. CASE UNCHANGED vars BY <1>1, <1>11 DEF vars
<1> QED BY <1>2, <1>3, <1>4, <1>5, <1>6, <1>7, <1>8, <1>9, <1>10, <1>11 DEF Next, ByHand

THEOREM MemoryHolds == Spec => []Memory
<1> QED BY InitMemory, NextMemory, Inductive, PTL DEF Spec

\* A row the user has to decide on can be converted when they do.
THEOREM QueuedRowsStayConvertible == Spec => []QueuedCanBeConverted
<1>1. Memory => QueuedCanBeConverted BY DEF Memory, Remembered, QueuedCanBeConverted
<1> QED BY <1>1, MemoryHolds, PTL

\* A payload that counts as processed has its payment in the ledger; only
\* unlinking its card (or deleting its source) ever forgets one.
THEOREM OnlyUnlinkingLosesPayments == Spec => OnlyUnlinkingForgets
<1>1. IInv /\ Memory /\ [Next]_vars =>
        [\A e \in Payload :
            inbox'[e] = "processed" /\ ledger'[KeyOf(e)].status = "none" =>
                \/ inbox[e] = "processed" /\ ledger[KeyOf(e)].status = "none"
                \/ UnlinkAccount]_vars
    BY NextMemory DEF StillKnown
<1> QED BY <1>1, Inductive, MemoryHolds, PTL DEF Spec, OnlyUnlinkingForgets

------------------------------------------------------------------------------
(* One transaction at a time *)

\* A source's payments are linked to transactions of their own.
LinkedOnce ==
    \A j, k \in Key : j[1] = k[1] /\ j # k => ledger[j].transaction \cap ledger[k].transaction = {}

LinksExist == \A k \in Key : \A t \in ledger[k].transaction : transactions[t].state # "absent"

\* Rows to write link no transaction that their source has linked, and none
\* twice.
RowsApart(rows) ==
    /\ \A p \in rows : \A t \in p[2].transaction : ~LinkedFrom(t, p[1][1])
    /\ \A p, q \in rows : p # q => p[2].transaction \cap q[2].transaction = {}

MadeFresh(made) == \A m \in made : transactions[m[1]].state = "absent" /\ m[2].state = "live"

\* Each amount to correct is what a tap said, and becomes what a bank says.
FromTapToBank(w) ==
    \A x \in w.amounts :
        /\ Live(x[1])
        /\ \E j \in Key : /\ j[1] \in Push /\ x[1] \in ledger[j].transaction
                          /\ transactions[x[1]].amount = Says[j]
        /\ \E p \in w.rows : p[1][1] \notin Push /\ x[1] \in p[2].transaction /\ x[2] = Says[p[1]]

\* What the transaction that is open was prepared from still holds: nobody
\* else has committed since.
Fresh(w) ==
    /\ RowsApart(w.rows)
    /\ \A p, q \in w.rows : p[1] = q[1] => p = q
    /\ MadeFresh(w.made)
    /\ FromTapToBank(w)
    /\ IF w.op = "post" THEN /\ w.template = {Advance(template)} /\ w.amounts = {}
                             /\ w.made # {}
                        ELSE w.template = {}

AtMostOne == \A q, r \in Request : InTransaction(q) /\ InTransaction(r) => q = r

Serial ==
    engine = "sqlite" =>
        /\ LinkedOnce /\ LinksExist /\ AtMostOne
        /\ \A r \in Request : InTransaction(r) => Fresh(open[r])

LEMMA InitSerial == Init => Serial
BY DEF Init, Serial, LinkedOnce, LinksExist, AtMostOne, InTransaction, NoRow, Closed

\* A step that opens, or keeps open, at most one transaction, and writes
\* nothing stored.
LEMMA StillSerial ==
    ASSUME Serial, UNCHANGED <<engine, stored>>,
           AtMostOne => AtMostOne',
           \A r \in Request : InTransaction(r)' =>
                (open'[r] = open[r] /\ InTransaction(r)) \/ Fresh(open'[r])
    PROVE  Serial'
<1> SUFFICES ASSUME engine = "sqlite" PROVE Serial' BY DEF Serial
<1>1. LinkedOnce' /\ LinksExist' /\ AtMostOne'
    BY DEF Serial, LinkedOnce, LinksExist, stored
<1>2. ASSUME NEW r \in Request, InTransaction(r)' PROVE Fresh(open[r])'
    <2>1. Fresh(open'[r]) BY <1>2 DEF Serial
    <2> QED
        BY <2>1 DEF Fresh, stored, RowsApart, MadeFresh, FromTapToBank, LinkedFrom, Live
<1> QED BY <1>1, <1>2 DEF Serial

\* A step after which no transaction is open on SQLite.
LEMMA QuietSerial ==
    ASSUME Serial, UNCHANGED engine,
           engine = "sqlite" => \A r \in Request : ~InTransaction(r)',
           engine = "sqlite" => LinkedOnce' /\ LinksExist'
    PROVE  Serial'
BY DEF Serial, AtMostOne

LEMMA OpenSerial ==
    ASSUME IInv, Serial, NEW r \in Request, NEW w, Open(r, w),
           w.op # "backfill", engine = "sqlite" => Fresh(w)
    PROVE  Serial'
<1>1. \A q \in Request : open'[q] = IF q = r THEN w ELSE open[q] BY DEF Open, IInv, Types
<1> SUFFICES ASSUME engine = "sqlite" PROVE Serial' BY DEF Open, Serial, site
<1>2. \A q \in Request : InTransaction(q)' => q = r BY <1>1 DEF Open, MayBegin, InTransaction
<1> QED BY <1>1, <1>2, StillSerial DEF Open, site, AtMostOne

\* A request that holds no transaction opens or closes beside the others.
LEMMA BesideSerial ==
    ASSUME IInv, Serial, NEW r \in Request, NEW w, open' = [open EXCEPT ![r] = w],
           w.op \in {"none", "backfill"}, UNCHANGED <<engine, stored>>
    PROVE  Serial'
<1>1. \A q \in Request : open'[q] = IF q = r THEN w ELSE open[q] BY DEF IInv, Types
<1>2. \A q \in Request : InTransaction(q)' => InTransaction(q) /\ open'[q] = open[q]
    BY <1>1 DEF InTransaction
<1> QED BY <1>2, StillSerial DEF AtMostOne

------------------------------------------------------------------------------
(* What the rows and the transactions of an import link *)

\* Rows that keep apart keep every payment of a source to its own transaction.
LEMMA WriteLinks ==
    ASSUME LinkedOnce, NEW rows, RowsApart(rows),
           \A k \in Key : ledger'[k] = Lookup(rows, k, ledger[k])
    PROVE  LinkedOnce'
<1>1. ASSUME NEW k \in Key
      PROVE  \/ \E p \in rows : p[1] = k /\ ledger'[k] = p[2]
             \/ ledger'[k] = ledger[k]
    BY LookupCases
<1>2. ASSUME NEW j \in Key, NEW k \in Key, j[1] = k[1], j # k, NEW t,
             t \in ledger'[j].transaction, t \in ledger'[k].transaction
      PROVE  FALSE
    <2>1. CASE \E p \in rows : p[1] = j /\ ledger'[j] = p[2]
        <3>1. PICK p \in rows : p[1] = j /\ ledger'[j] = p[2] BY <2>1
        <3>2. ~LinkedFrom(t, k[1]) BY <1>2, <3>1 DEF RowsApart
        <3>3. PICK q \in rows : q[1] = k /\ ledger'[k] = q[2]
            BY <1>1, <1>2, <3>2 DEF LinkedFrom
        <3> QED BY <1>2, <3>1, <3>3 DEF RowsApart
    <2>2. CASE ledger'[j] = ledger[j]
        <3>1. CASE \E q \in rows : q[1] = k /\ ledger'[k] = q[2]
            BY <1>2, <2>2, <3>1 DEF RowsApart, LinkedFrom
        <3>2. CASE ledger'[k] = ledger[k] BY <1>2, <2>2, <3>2 DEF LinkedOnce
        <3> QED BY <1>1, <3>1, <3>2
    <2> QED BY <1>1, <2>1, <2>2
<1> QED BY <1>2 DEF LinkedOnce

\* The transactions that are linked are there, or made with the link.
LEMMA WriteExists ==
    ASSUME LinksExist, NEW rows, \A k \in Key : ledger'[k] = Lookup(rows, k, ledger[k]),
           \A k \in Key : ledger[k].transaction \subseteq Txn,
           \A p \in rows : \A t \in p[2].transaction : transactions'[t].state # "absent",
           \A t \in Txn : transactions[t].state # "absent" => transactions'[t].state # "absent"
    PROVE  LinksExist'
<1>1. ASSUME NEW k \in Key
      PROVE  \/ \E p \in rows : p[1] = k /\ ledger'[k] = p[2]
             \/ ledger'[k] = ledger[k]
    BY LookupCases
<1> QED BY <1>1 DEF LinksExist

RowsOf(K, f, ev) == {<<k, Row(f[k], ev[k])>> : k \in K}

\* The rows of outcomes: one each, to a transaction their source has not
\* linked, which is live or made.
LEMMA OutcomeLinks ==
    ASSUME IInv, LinksExist, NEW K \in SUBSET Key, NEW c, NEW f \in Outcomes(K, c), NEW ev
    PROVE  /\ RowsApart(RowsOf(K, f, ev))
           /\ \A p, q \in RowsOf(K, f, ev) : p[1] = q[1] => p = q
           /\ \A k \in K : f[k] \in Txn => Live(f[k]) \/ f[k] \in FreshTxn
           /\ \A p \in RowsOf(K, f, ev) : p[1] \in K /\ p[2].transaction = {f[p[1]]} \cap Txn
<1> DEFINE rows == RowsOf(K, f, ev)
<1>1. ASSUME NEW k \in K, f[k] \in Txn
      PROVE  ~LinkedFrom(f[k], k[1]) /\ (Live(f[k]) \/ f[k] \in FreshTxn)
    <2>1. f[k] \notin {"queued", "skipped"} BY <1>1, IdsAssumption
    <2>2. f[k] \in Candidates(k[1], c) \/ f[k] \in FreshTxn
        BY <1>1, <2>1 DEF Outcomes, Same, Tipped
    <2>3. CASE f[k] \in Candidates(k[1], c) BY <2>3 DEF Candidates
    <2>4. CASE f[k] \in FreshTxn BY <2>4 DEF FreshTxn, LinksExist, LinkedFrom
    <2> QED BY <2>2, <2>3, <2>4
<1>2. ASSUME NEW p \in rows
      PROVE  /\ p[1] \in K /\ p[2].transaction = {f[p[1]]} \cap Txn
             /\ p = <<p[1], Row(f[p[1]], ev[p[1]])>>
    <2>1. PICK k \in K : p = <<k, Row(f[k], ev[k])>> BY DEF RowsOf
    <2>2. p[1] = k /\ p[2] = Row(f[k], ev[k]) BY <2>1
    <2>3. Row(f[k], ev[k]).transaction = {f[k]} \cap Txn BY DEF Row
    <2> QED BY <2>1, <2>2, <2>3
<1> HIDE DEF rows
<1>3. \A p, q \in rows : p[1] = q[1] => p = q BY <1>2
<1>4. \A p \in rows : \A t \in p[2].transaction : ~LinkedFrom(t, p[1][1]) BY <1>1, <1>2
<1>5. \A p, q \in rows : p # q => p[2].transaction \cap q[2].transaction = {}
    <2>1. \A j, k \in K : f[j] = f[k] /\ f[j] \in Txn => j = k BY OutcomesType
    <2> QED BY <1>2, <1>3, <2>1
<1> QED BY <1>1, <1>2, <1>3, <1>4, <1>5 DEF RowsApart, rows

\* What outcomes make is new and live.
LEMMA MakesFresh ==
    ASSUME NEW K \in SUBSET Key, NEW c, NEW f \in Outcomes(K, c)
    PROVE  /\ MadeFresh(Makes(f, c))
           /\ \A m \in Makes(f, c) : m[1] \in FreshTxn
           /\ \A k \in K : f[k] \in FreshTxn => \E m \in Makes(f, c) : m[1] = f[k]
<1>1. DOMAIN f = K BY OutcomesType
<1>2. \A k \in K : /\ Created(f[k], c, Says[k], {k})[1] = f[k]
                   /\ Created(f[k], c, Says[k], {k})[2].state = "live"
    BY DEF Created
<1>3. ASSUME NEW m \in Makes(f, c) PROVE m[1] \in FreshTxn /\ m[2].state = "live"
    <2>1. PICK k \in K : f[k] \in FreshTxn /\ m = Created(f[k], c, Says[k], {k})
        BY <1>1 DEF Makes
    <2> QED BY <1>2, <2>1
<1>4. ASSUME NEW k \in K, f[k] \in FreshTxn PROVE \E m \in Makes(f, c) : m[1] = f[k]
    <2>1. Created(f[k], c, Says[k], {k}) \in Makes(f, c) BY <1>1, <1>4 DEF Makes
    <2> QED BY <1>2, <2>1
<1> QED BY <1>3, <1>4 DEF MadeFresh, FreshTxn

\* Making transactions leaves none absent that was there.
LEMMA MakeStates ==
    ASSUME NEW made, \A m \in made : m[2].state = "live",
           \A t \in Txn : transactions'[t].state = Lookup(made, t, transactions[t]).state
    PROVE  /\ \A t \in Txn : transactions[t].state # "absent" => transactions'[t].state # "absent"
           /\ \A m \in made : m[1] \in Txn => transactions'[m[1]].state = "live"
<1>1. ASSUME NEW t \in Txn
      PROVE  \/ \E m \in made : m[1] = t /\ transactions'[t].state = m[2].state
             \/ (\A m \in made : m[1] # t) /\ transactions'[t].state = transactions[t].state
    BY LookupCases
<1>2. \A t \in Txn : transactions[t].state # "absent" => transactions'[t].state # "absent"
    BY <1>1
<1>3. \A m \in made : m[1] \in Txn => transactions'[m[1]].state = "live" BY <1>1
<1> QED BY <1>2, <1>3

\* Losing links, or transactions' rows changing in place, disturbs nothing.
LEMMA FewerLinks ==
    ASSUME IInv, LinkedOnce, LinksExist,
           \A k \in Key : ledger'[k].transaction \subseteq ledger[k].transaction,
           \A t \in Txn : transactions[t].state # "absent" => transactions'[t].state # "absent"
    PROVE  LinkedOnce' /\ LinksExist'
<1>1. \A k \in Key : ledger[k].transaction \subseteq Txn BY DEF IInv, Types, LedgerRow
<1>2. LinkedOnce' BY DEF LinkedOnce
<1>3. LinksExist' BY <1>1 DEF LinksExist
<1> QED BY <1>2, <1>3

------------------------------------------------------------------------------
(* Every step, one transaction at a time *)

LEMMA ApplySerial ==
    ASSUME IInv, Serial, NEW r \in Request, NEW op \in {"ingest", "retry", "sync"}, NEW s,
           NEW P \in SUBSET Payload, NEW failed \in SUBSET P, Apply(r, op, s, P, failed),
           op = "sync" => \A e \in P : e[1] \notin Push
    PROVE  Serial'
<1> DEFINE K == NewKeys(P \ failed)
<1>1. PICK f \in Outcomes(K, cards[s]), from \in [K -> P \ failed] :
        Open(r, [Closed EXCEPT
                !.op = op, !.events = P, !.failed = failed,
                !.rows = {<<k, Row(f[k], {from[k]})>> : k \in DOMAIN f},
                !.made = Makes(f, cards[s]),
                !.amounts = IF op # "sync" THEN {}
                            ELSE {<<f[k], Says[k]>> :
                                    k \in {j \in DOMAIN f : f[j] \in Txn /\ Corrects(j, f[j])}}])
    BY DEF Apply
<1>2. K \in SUBSET Key BY DEF NewKeys
<1>3. op = "sync" => \A k \in K : k[1] \notin Push BY DEF NewKeys, KeyOf
<1> HIDE DEF K
<1>4. DOMAIN f = K BY OutcomesType
<1> DEFINE ev == [k \in K |-> {from[k]}]
           rows == {<<k, Row(f[k], ev[k])>> : k \in K}
           made == Makes(f, cards[s])
           amounts == IF op # "sync" THEN {}
                      ELSE {<<f[k], Says[k]>> :
                              k \in {j \in DOMAIN f : f[j] \in Txn /\ Corrects(j, f[j])}}
           w == [Closed EXCEPT !.op = op, !.events = P, !.failed = failed, !.rows = rows,
                               !.made = made, !.amounts = amounts]
<1>5. rows = {<<k, Row(f[k], {from[k]})>> : k \in DOMAIN f} BY <1>4
<1>6. Open(r, w) BY <1>1, <1>5
<1>7. /\ w.op = op /\ w.rows = rows /\ w.made = made /\ w.amounts = amounts /\ w.template = {}
    BY DEF Closed
<1>8. ASSUME engine = "sqlite" PROVE Fresh(w)
    <2>1. LinksExist BY <1>8 DEF Serial
    <2> HIDE DEF ev
    <2>a. rows = RowsOf(K, f, ev) BY DEF RowsOf
    <2>2. RowsApart(rows) /\ \A p, q \in rows : p[1] = q[1] => p = q
        <3> HIDE DEF rows
        <3> QED BY <1>2, <2>1, <2>a, OutcomeLinks
    <2>3. MadeFresh(made) BY <1>2, MakesFresh
    <2>4. ASSUME NEW x \in amounts
          PROVE  /\ Live(x[1])
                 /\ \E j \in Key : /\ j[1] \in Push /\ x[1] \in ledger[j].transaction
                                   /\ transactions[x[1]].amount = Says[j]
                 /\ \E p \in rows : /\ p[1][1] \notin Push /\ x[1] \in p[2].transaction
                                   /\ x[2] = Says[p[1]]
        <3>1. PICK k \in K : f[k] \in Txn /\ Corrects(k, f[k]) /\ x = <<f[k], Says[k]>>
            BY <1>4
        <3>2. op = "sync" OBVIOUS
        <3>3. x[1] = f[k] /\ x[2] = Says[k] BY <3>1
        <3>4. Live(f[k]) /\ \E tap \in TapsOf(k, f[k]) : transactions[f[k]].amount = Says[tap]
            BY <3>1 DEF Corrects
        <3>5. \E j \in Key : /\ j[1] \in Push /\ f[k] \in ledger[j].transaction
                            /\ transactions[f[k]].amount = Says[j]
            BY <3>4 DEF TapsOf
        <3>6. f[k] \in Row(f[k], ev[k]).transaction BY <3>1 DEF Row
        <3>7. <<k, Row(f[k], ev[k])>> \in rows OBVIOUS
        <3>8. k[1] \notin Push BY <1>3, <3>2
        <3> HIDE DEF rows
        <3>9. \E p \in rows : p[1][1] \notin Push /\ f[k] \in p[2].transaction /\ Says[k] = Says[p[1]]
            BY <3>6, <3>7, <3>8
        <3> QED BY <3>3, <3>4, <3>5, <3>9
    <2> HIDE DEF rows, made, amounts
    <2>5. FromTapToBank(w) BY <1>7, <2>4 DEF FromTapToBank
    <2> HIDE DEF w
    <2> QED BY <1>7, <2>2, <2>3, <2>5 DEF Fresh
<1>9. w.op # "backfill" BY <1>7
<1> HIDE DEF w
<1> QED BY <1>6, <1>8, <1>9, OpenSerial

LEMMA ImportSerial == ASSUME IInv, Serial, NEW r \in Request, Import(r) PROVE Serial'
<1>1. CASE IngestAppleWallet(r)
    <2>1. PICK e \in Payload, failed \in SUBSET Payload :
            failed \subseteq {e} /\ Apply(r, "ingest", e[1], {e}, failed)
        BY <1>1 DEF IngestAppleWallet
    <2> QED BY <2>1, ApplySerial
<1>2. CASE RetryEvent(r)
    <2>1. PICK e \in Payload : Apply(r, "retry", e[1], {e}, {}) BY <1>2 DEF RetryEvent
    <2> QED BY <2>1, ApplySerial
<1>3. CASE Sync(r)
    <2>1. PICK s \in Source \ Push :
            \E P \in SUBSET {e \in Payload : e[1] = s /\ NewPayload(e)} \ {{}} :
                \E failed \in SUBSET P : Apply(r, "sync", s, P, failed)
        BY <1>3 DEF Sync
    <2>2. PICK P \in SUBSET Payload :
            /\ \A e \in P : e[1] = s
            /\ \E failed \in SUBSET P : Apply(r, "sync", s, P, failed)
        BY <2>1
    <2>3. PICK failed \in SUBSET P : Apply(r, "sync", s, P, failed) BY <2>2
    <2> QED BY <2>2, <2>3, ApplySerial
<1> QED BY <1>1, <1>2, <1>3 DEF Import

LEMMA PostSerial == ASSUME IInv, Serial, NEW r \in Request, PostRecurring(r) PROVE Serial'
<1>1. PICK o \in Operation \ handled, t \in FreshTxn, a \in Account, n \in Amount :
        Open(r, [Closed EXCEPT !.op = "post", !.claim = {o}, !.made = {Created(t, a, n, {o})},
                    !.template = {Advance(template)}])
    BY DEF PostRecurring
<1> DEFINE made == {Created(t, a, n, {o})}
           w == [Closed EXCEPT !.op = "post", !.claim = {o}, !.made = made,
                    !.template = {Advance(template)}]
<1>2. MadeFresh(made) /\ made # {} BY DEF MadeFresh, Created, FreshTxn
<1> HIDE DEF made
<1>3. /\ w.op = "post" /\ w.rows = {} /\ w.amounts = {} /\ w.made = made
      /\ w.template = {Advance(template)}
    BY DEF Closed
<1>4. Open(r, w) BY <1>1 DEF made
<1> HIDE DEF w
<1>5. Fresh(w) BY <1>2, <1>3 DEF Fresh, RowsApart, FromTapToBank
<1> QED BY <1>3, <1>4, <1>5, OpenSerial

\* A commit leaves no transaction absent that was there, or that it made.
LEMMA CommitStates ==
    ASSUME IInv, NEW r \in Request, Commit(r), MadeFresh(open[r].made)
    PROVE  /\ \A t \in Txn : transactions[t].state # "absent" => transactions'[t].state # "absent"
           /\ \A m \in open[r].made : m[1] \in Txn /\ transactions'[m[1]].state = "live"
<1> DEFINE w == open[r]
<1>1. transactions' = [t \in Txn |-> Corrected(w, t, Lookup(w.made, t, transactions[t]))]
    BY DEF Commit
<1>2. w \in WriteSet BY DEF IInv, Types
<1>3. \A m \in w.made : m[2].state = "live" BY DEF MadeFresh
<1> HIDE DEF w
<1>4. ASSUME NEW t \in Txn
      PROVE  transactions'[t].state = Lookup(w.made, t, transactions[t]).state
    <2>1. Lookup(w.made, t, transactions[t]) \in TransactionRow
        BY <1>2, LookupCases DEF IInv, Types, WriteSet
    <2> QED BY <1>1, <2>1 DEF Corrected, TransactionRow
<1>5. \A m \in w.made : m[1] \in Txn BY <1>2 DEF WriteSet
<1>6. /\ \A t \in Txn : transactions[t].state # "absent" => transactions'[t].state # "absent"
      /\ \A m \in w.made : m[1] \in Txn /\ transactions'[m[1]].state = "live"
    BY <1>3, <1>4, <1>5, MakeStates
<1> QED BY <1>6 DEF w

LEMMA CommitSerial == ASSUME IInv, Serial, NEW r \in Request, Commit(r) PROVE Serial'
<1> DEFINE w == open[r]
<1>1. /\ InTransaction(r) /\ AdoptedStay(w) /\ engine' = engine
      /\ ledger' = [k \in Key |-> Lookup(w.rows, k, ledger[k])]
      /\ transactions' = [t \in Txn |-> Corrected(w, t, Lookup(w.made, t, transactions[t]))]
      /\ open' = [open EXCEPT ![r] = Closed]
    BY DEF Commit, site
<1>2. w \in WriteSet BY DEF IInv, Types
<1>3. \A q \in Request : open'[q] = IF q = r THEN Closed ELSE open[q] BY <1>1 DEF IInv, Types
<1>4. ASSUME engine = "sqlite"
      PROVE  (\A q \in Request : ~InTransaction(q)') /\ LinkedOnce' /\ LinksExist'
    <2>1. LinkedOnce /\ LinksExist /\ AtMostOne /\ Fresh(w) BY <1>1, <1>4 DEF Serial
    <2>2. \A q \in Request : ~InTransaction(q)'
        <3>1. \A q \in Request : q # r => ~InTransaction(q) BY <1>1, <2>1 DEF AtMostOne
        <3> QED BY <1>3, <3>1 DEF InTransaction, Closed
    <2> HIDE DEF w
    <2>3. \A k \in Key : ledger'[k] = Lookup(w.rows, k, ledger[k]) BY <1>1
    <2>4. LinkedOnce' BY <2>1, <2>3, WriteLinks DEF Fresh
    <2>6. /\ \A t \in Txn : transactions[t].state # "absent" => transactions'[t].state # "absent"
          /\ \A m \in w.made : transactions'[m[1]].state = "live"
        BY <2>1, CommitStates DEF w, Fresh
    <2>7. ASSUME NEW p \in w.rows, NEW t \in p[2].transaction
          PROVE  transactions'[t].state # "absent"
        <3>1. t \in Txn BY <1>2 DEF WriteSet, LedgerRow
        <3>2. Live(t) \/ \E m \in w.made : m[1] = t BY <1>1 DEF AdoptedStay
        <3> QED BY <2>6, <3>1, <3>2 DEF Live
    <2>8. \A k \in Key : ledger[k].transaction \subseteq Txn BY DEF IInv, Types, LedgerRow
    <2>9. LinksExist' BY <2>1, <2>3, <2>6, <2>7, <2>8, WriteExists
    <2> QED BY <2>2, <2>4, <2>9
<1> QED BY <1>1, <1>4, QuietSerial

\* A handler that makes transactions and links them.
LEMMA LinkingSerial ==
    ASSUME IInv, LinkedOnce, LinksExist, NEW rows, WriteRows(rows), NEW made, Make(made),
           RowsApart(rows), MadeFresh(made),
           \A p \in rows : \A t \in p[2].transaction :
                t \in Txn /\ (Live(t) \/ \E m \in made : m[1] = t)
    PROVE  LinkedOnce' /\ LinksExist'
<1>1. \A k \in Key : ledger'[k] = Lookup(rows, k, ledger[k]) BY DEF WriteRows
<1>2. LinkedOnce' BY <1>1, WriteLinks
<1>3. /\ \A t \in Txn : transactions[t].state # "absent" => transactions'[t].state # "absent"
      /\ \A m \in made : m[1] \in Txn => transactions'[m[1]].state = "live"
    <2>1. \A m \in made : m[2].state = "live" BY DEF MadeFresh
    <2>2. \A t \in Txn : transactions'[t].state = Lookup(made, t, transactions[t]).state
        BY DEF Make
    <2> QED BY <2>1, <2>2, MakeStates
<1>4. \A p \in rows : \A t \in p[2].transaction : transactions'[t].state # "absent"
    BY <1>3 DEF Live
<1>5. \A k \in Key : ledger[k].transaction \subseteq Txn BY DEF IInv, Types, LedgerRow
<1>6. LinksExist' BY <1>1, <1>3, <1>4, <1>5, WriteExists
<1> QED BY <1>2, <1>6

LEMMA QueueSerial == ASSUME IInv, Serial, Queue PROVE Serial'
<1>1. engine = "sqlite" /\ (\A r \in Request : ~InTransaction(r)) /\ UNCHANGED <<engine, open>>
    BY DEF Queue, ImportQueuedEvent, SkipQueuedEvent, UnskipQueuedEvent, Flip, DiscardEvent,
           LinkAccount, IgnoreAccount, UnlinkAccount, DeleteSource, Alone, MayBegin, site
<1>2. LinkedOnce /\ LinksExist BY <1>1 DEF Serial
<1>3. SUFFICES LinkedOnce' /\ LinksExist' BY <1>1, QuietSerial DEF InTransaction
<1>4. CASE ImportQueuedEvent
    <2>1. PICK k \in Key, o \in Operation \ handled, t \in FreshTxn, a \in Account, n \in Amount :
            /\ Make({Created(t, a, n, {k, o})})
            /\ WriteRows({<<k, Row(t, ledger[k].event)>>})
        BY <1>4 DEF ImportQueuedEvent
    <2> DEFINE made == {Created(t, a, n, {k, o})}
               rows == {<<k, Row(t, ledger[k].event)>>}
    <2>2. MadeFresh(made) /\ \A m \in made : m[1] = t BY DEF MadeFresh, Created, FreshTxn
    <2>3. \A p \in rows : p[2].transaction = {t} BY DEF Row, FreshTxn
    <2>4. t \in Txn /\ \A s : ~LinkedFrom(t, s) BY <1>2 DEF FreshTxn, LinkedFrom, LinksExist
    <2>5. RowsApart(rows) BY <2>3, <2>4 DEF RowsApart
    <2>6. made # {} /\ Make(made) /\ WriteRows(rows) BY <2>1
    <2> HIDE DEF made, rows
    <2> QED BY <1>2, <2>2, <2>3, <2>4, <2>5, <2>6, LinkingSerial
<1>5. CASE LinkAccount
    <2>1. PICK s \in Source, a \in Account :
            \E f \in Outcomes({k \in Queued(s) : Convertible(k)}, a) :
                /\ WriteRows({<<k, Row(f[k], ledger[k].event)>> : k \in DOMAIN f})
                /\ Make(Makes(f, a))
        BY <1>5 DEF LinkAccount
    <2> DEFINE K == {k \in Queued(s) : Convertible(k)}
    <2>2. K \in SUBSET Key BY DEF Queued
    <2>3. PICK f \in Outcomes(K, a) :
            /\ WriteRows({<<k, Row(f[k], ledger[k].event)>> : k \in DOMAIN f})
            /\ Make(Makes(f, a))
        BY <2>1
    <2> HIDE DEF K
    <2>4. DOMAIN f = K BY OutcomesType
    <2> DEFINE ev == [k \in K |-> ledger[k].event]
               rows == {<<k, Row(f[k], ev[k])>> : k \in K}
               made == Makes(f, a)
    <2>5. rows = {<<k, Row(f[k], ledger[k].event)>> : k \in DOMAIN f} BY <2>4
    <2>6. WriteRows(rows) /\ Make(made) BY <2>3, <2>5
    <2> HIDE DEF ev
    <2>a. rows = RowsOf(K, f, ev) BY DEF RowsOf
    <2> HIDE DEF rows
    <2>7. /\ RowsApart(rows)
          /\ \A k \in K : f[k] \in Txn => Live(f[k]) \/ f[k] \in FreshTxn
          /\ \A p \in rows : p[1] \in K /\ p[2].transaction = {f[p[1]]} \cap Txn
        BY <1>2, <2>2, <2>a, OutcomeLinks
    <2>8. MadeFresh(made) /\ \A k \in K : f[k] \in FreshTxn => \E m \in made : m[1] = f[k]
        BY <2>2, MakesFresh
    <2> HIDE DEF made
    <2>9. \A p \in rows : \A t \in p[2].transaction :
            t \in Txn /\ (Live(t) \/ \E m \in made : m[1] = t)
        BY <2>7, <2>8
    <2> QED BY <1>2, <2>6, <2>7, <2>8, <2>9, LinkingSerial
<1>6. ASSUME NEW rows, WriteRows(rows), UNCHANGED transactions,
             \A p \in rows : p[1] \in Key => p[2].transaction \subseteq ledger[p[1]].transaction
      PROVE  LinkedOnce' /\ LinksExist'
    <2>1. \A k \in Key : ledger'[k].transaction \subseteq ledger[k].transaction
        BY <1>6, LookupCases DEF WriteRows
    <2> QED BY <1>2, <1>6, <2>1, FewerLinks
<1>7. ASSUME NEW k \in Key, NEW from, NEW to, Flip(k, from, to)
      PROVE  LinkedOnce' /\ LinksExist'
    <2> DEFINE row == [ledger[k] EXCEPT !.status = to]
    <2>1. row.transaction = ledger[k].transaction BY DEF IInv, Types, LedgerRow
    <2>2. WriteRows({<<k, row>>}) /\ UNCHANGED transactions BY <1>7 DEF Flip
    <2> HIDE DEF row
    <2> QED BY <1>6, <2>1, <2>2
<1>8. CASE SkipQueuedEvent \/ UnskipQueuedEvent
    BY <1>7, <1>8 DEF SkipQueuedEvent, UnskipQueuedEvent
<1>9. CASE DiscardEvent BY <1>2, <1>9, FewerLinks DEF DiscardEvent
<1>10. CASE IgnoreAccount
    <2>1. PICK s \in Source :
            WriteRows({<<k, [ledger[k] EXCEPT !.status = "skipped"]>> : k \in Queued(s)})
        BY <1>10 DEF IgnoreAccount
    <2> DEFINE rows == {<<k, [ledger[k] EXCEPT !.status = "skipped"]>> : k \in Queued(s)}
    <2>2. \A p \in rows : p[2].transaction = ledger[p[1]].transaction
        BY DEF Queued, IInv, Types, LedgerRow
    <2>3. WriteRows(rows) BY <2>1
    <2> HIDE DEF rows
    <2> QED BY <1>6, <1>10, <2>2, <2>3 DEF IgnoreAccount
<1>11. CASE UnlinkAccount
    <2>1. PICK s \in Source : WriteRows({<<k, NoRow>> : k \in Purged(s)})
        BY <1>11 DEF UnlinkAccount
    <2> DEFINE rows == {<<k, NoRow>> : k \in Purged(s)}
    <2>2. \A p \in rows : p[2].transaction = {} BY DEF NoRow
    <2>3. WriteRows(rows) BY <2>1
    <2> HIDE DEF rows
    <2> QED BY <1>6, <1>11, <2>2, <2>3 DEF UnlinkAccount
<1>12. CASE DeleteSource
    <2>1. PICK s \in Source :
            /\ WriteRows({<<k, NoRow>> : k \in {j \in Key : j[1] = s}})
            /\ transactions' = [t \in Txn |-> [transactions[t] EXCEPT
                                    !.for = {x \in @ : x \in Operation \/ x[1] # s}]]
        BY <1>12 DEF DeleteSource
    <2> DEFINE rows == {<<k, NoRow>> : k \in {j \in Key : j[1] = s}}
    <2>2. \A p \in rows : p[2].transaction = {} BY DEF NoRow
    <2>3. WriteRows(rows) BY <2>1
    <2> HIDE DEF rows
    <2>4. \A k \in Key : ledger'[k].transaction \subseteq ledger[k].transaction
        BY <2>2, <2>3, LookupCases DEF WriteRows
    <2>5. \A t \in Txn : transactions'[t].state = transactions[t].state
        BY <2>1 DEF IInv, Types, TransactionRow
    <2> QED BY <1>2, <2>4, <2>5, FewerLinks
<1> QED BY <1>4, <1>5, <1>8, <1>9, <1>10, <1>11, <1>12 DEF Queue

\* What the user does to transactions, and a rule.
LEMMA HandSerial ==
    ASSUME IInv, Serial, UNCHANGED engine, engine = "sqlite" => \A r \in Request : ~InTransaction(r)',
           \A k \in Key : ledger'[k].transaction \subseteq ledger[k].transaction,
           \A t \in Txn : transactions[t].state # "absent" => transactions'[t].state # "absent"
    PROVE  Serial'
BY QuietSerial, FewerLinks DEF Serial

LEMMA ByHandSerial == ASSUME IInv, Serial, ByHand PROVE Serial'
<1>1. /\ UNCHANGED <<engine, open>>
      /\ engine = "sqlite" => \A r \in Request : ~InTransaction(r)'
    BY DEF ByHand, CreateTransaction, UpdateTransaction, DeleteTransaction, MayBegin, InTransaction, site
<1>2. CASE CreateTransaction
    <2>1. PICK o \in Operation \ handled, t \in FreshTxn, a \in Account, n \in Amount :
            Make({Created(t, a, n, {o})})
        BY <1>2 DEF CreateTransaction
    <2> DEFINE made == {Created(t, a, n, {o})}
    <2>2. \A m \in made : m[2].state = "live" BY DEF Created
    <2>3. \A u \in Txn : transactions'[u].state = Lookup(made, u, transactions[u]).state
        BY <2>1 DEF Make
    <2> HIDE DEF made
    <2>4. \A u \in Txn : transactions[u].state # "absent" => transactions'[u].state # "absent"
        BY <2>2, <2>3, MakeStates
    <2> QED BY <1>1, <1>2, <2>4, HandSerial DEF CreateTransaction
<1>3. CASE UpdateTransaction
    <2>1. \A t \in Txn : transactions'[t].state = transactions[t].state
        BY <1>3 DEF UpdateTransaction, IInv, Types, TransactionRow
    <2> QED BY <1>1, <1>3, <2>1, HandSerial DEF UpdateTransaction
<1>4. CASE DeleteTransaction
    <2>1. /\ \A t \in Txn : transactions[t].state # "absent" => transactions'[t].state # "absent"
          /\ \A k \in Key : ledger'[k].transaction \subseteq ledger[k].transaction
        BY <1>4 DEF DeleteTransaction, NoTransaction, IInv, Types, TransactionRow, LedgerRow
    <2> QED BY <1>1, <2>1, HandSerial
<1> QED BY <1>2, <1>3, <1>4 DEF ByHand

LEMMA ApplyRuleSerial == ASSUME IInv, Serial, NEW r \in Request, ApplyRule(r) PROVE Serial'
<1>1. PICK m \in open[r].made :
        transactions' = [transactions EXCEPT ![m[1]].account = m[2].account,
                                             ![m[1]].amount = m[2].amount]
    BY DEF ApplyRule
<1>2. \A t \in Txn : transactions'[t].state = transactions[t].state
    BY <1>1 DEF IInv, Types, TransactionRow
<1>3. \A q \in Request : open'[q] = IF q = r THEN Closed ELSE open[q]
    BY DEF ApplyRule, IInv, Types
<1>4. engine = "sqlite" => \A q \in Request : ~InTransaction(q)'
    BY <1>3 DEF ApplyRule, MayBegin, InTransaction, Closed
<1> QED BY <1>2, <1>4, HandSerial DEF ApplyRule, site

LEMMA RollbackSerial == ASSUME IInv, Serial, NEW r \in Request, Rollback(r) PROVE Serial'
<1>1. Closed.op \in {"none", "backfill"} BY DEF Closed
<1> QED BY <1>1, BesideSerial DEF Rollback, site

LEMMA ReadForRuleSerial == ASSUME IInv, Serial, NEW r \in Request, ReadForRule(r) PROVE Serial'
<1>1. PICK k \in Key : \E t \in ledger[k].transaction :
        open' = [open EXCEPT ![r] = [Closed EXCEPT !.op = "backfill", !.made = {<<t, transactions[t]>>}]]
    BY DEF ReadForRule
<1>2. PICK t \in ledger[k].transaction :
        open' = [open EXCEPT ![r] = [Closed EXCEPT !.op = "backfill", !.made = {<<t, transactions[t]>>}]]
    BY <1>1
<1> DEFINE w == [Closed EXCEPT !.op = "backfill", !.made = {<<t, transactions[t]>>}]
<1>3. w.op = "backfill" BY DEF Closed
<1>4. open' = [open EXCEPT ![r] = w] BY <1>2
<1> HIDE DEF w
<1> QED BY <1>3, <1>4, BesideSerial DEF ReadForRule, site

LEMMA NextSerial == ASSUME IInv, Serial, [Next]_vars PROVE Serial'
<1>1. CASE Recurring
    <2>1. /\ UNCHANGED <<engine, transactions, ledger, open>>
          /\ \A r \in Request : ~InTransaction(r)
        BY <1>1 DEF Recurring, CreateRecurring, SkipRecurring, UpdateRecurring, DeleteRecurring,
                    SetTemplate, Alone, MayBegin, site
    <2> QED BY <2>1, HandSerial DEF InTransaction
<1>2. CASE UNCHANGED vars
    BY <1>2, StillSerial DEF vars, stored, AtMostOne, InTransaction
<1> QED BY <1>1, <1>2, ImportSerial, PostSerial, ReadForRuleSerial, ApplyRuleSerial, CommitSerial,
           RollbackSerial, QueueSerial, ByHandSerial DEF Next

THEOREM SerialHolds == Spec => []Serial
<1> QED BY InitSerial, NextSerial, Inductive, PTL DEF Spec

\* Two equal payments of one source are two transactions (SQLite).
THEOREM PaymentsKeepApart == Spec => []OneLinkPerSource
<1>1. Serial => OneLinkPerSource BY DEF Serial, LinkedOnce, OneLinkPerSource
<1> QED BY <1>1, SerialHolds, PTL

\* A request ends by its commit, its rollback or the write of a rule.
LEMMA Closes ==
    ASSUME IInv, [Next]_vars, NEW r \in Request, open[r].op # "none", open'[r] = Closed
    PROVE  Commit(r) \/ Rollback(r) \/ ApplyRule(r)
<1>1. open'[r] # open[r] BY DEF Closed
<1>2. open \in [Request -> WriteSet] BY DEF IInv, Types
<1>3. ASSUME NEW q \in Request, NEW w, open[q].op = "none", open' = [open EXCEPT ![q] = w]
      PROVE  FALSE
    BY <1>1, <1>2, <1>3
<1>4. ASSUME NEW q \in Request, Import(q) \/ PostRecurring(q) \/ ReadForRule(q)
      PROVE  FALSE
    BY <1>3, <1>4 DEF Import, IngestAppleWallet, RetryEvent, Sync, Apply, PostRecurring, ReadForRule, Open
<1>5. ASSUME NEW q \in Request, Commit(q) \/ Rollback(q) \/ ApplyRule(q)
      PROVE  q = r
    BY <1>1, <1>2, <1>5 DEF Commit, Rollback, ApplyRule
<1>6. open' # open BY <1>1
<1>7. ~Queue
    BY <1>6 DEF Queue, ImportQueuedEvent, SkipQueuedEvent, UnskipQueuedEvent, Flip, DiscardEvent,
                LinkAccount, IgnoreAccount, UnlinkAccount, DeleteSource
<1>8. ~Recurring /\ ~ByHand /\ ~UNCHANGED vars
    BY <1>6 DEF Recurring, CreateRecurring, SkipRecurring, UpdateRecurring, DeleteRecurring,
                SetTemplate, ByHand, CreateTransaction, UpdateTransaction, DeleteTransaction, vars
<1> QED BY <1>4, <1>5, <1>7, <1>8 DEF Next

LEMMA PostedStep ==
    ASSUME IInv, Serial, [Next]_vars, engine = "sqlite", NEW r \in Request,
           open[r].op # "none", open'[r] = Closed
    PROVE  template'.next # template.next <=>
                open[r].op = "post" /\ \E t \in Txn : transactions'[t] # transactions[t]
<1>1. CASE Rollback(r) BY <1>1 DEF Rollback, stored
<1>2. CASE ApplyRule(r) BY <1>2 DEF ApplyRule
<1>3. CASE Commit(r)
    <2>1. Fresh(open[r]) BY <1>3 DEF Serial, Commit
    <2>2. template' = IF open[r].template = {} THEN template
                      ELSE CHOOSE tpl \in open[r].template : TRUE
        BY <1>3 DEF Commit
    <2>3. CASE open[r].op = "post"
        <3>1. open[r].template = {Advance(template)} /\ open[r].made # {} /\ MadeFresh(open[r].made)
            BY <2>1, <2>3 DEF Fresh
        <3>2. template' = Advance(template) BY <2>2, <3>1
        <3>3. template'.next = template.next + 1 /\ template.next \in Nat
            BY <3>2, BoundAssumption DEF Advance, IInv, Types, TemplateRow
        <3>4. PICK m \in open[r].made : TRUE BY <3>1
        <3>5. /\ m[1] \in Txn /\ transactions'[m[1]].state = "live"
              /\ transactions[m[1]].state = "absent"
            BY <1>3, <3>1, CommitStates DEF MadeFresh
        <3>6. transactions'[m[1]] # transactions[m[1]] BY <3>5
        <3> QED BY <2>3, <3>3, <3>5, <3>6
    <2>4. CASE open[r].op # "post" BY <2>1, <2>2, <2>4 DEF Fresh
    <2> QED BY <2>3, <2>4
<1> QED BY <1>1, <1>2, <1>3, Closes

\* "No double-create, no double-advance": a post creates its transaction and
\* moves the date, or does neither (SQLite).
THEOREM PostsAreWhole == Spec => PostedTogether
<1>1. IInv /\ Serial /\ [Next]_vars =>
        [engine = "sqlite" =>
            \A r \in Request : open[r].op # "none" /\ open'[r] = Closed =>
                (template'.next # template.next <=>
                    open[r].op = "post" /\ \E t \in Txn : transactions'[t] # transactions[t])]_vars
    BY PostedStep
<1> QED BY <1>1, Inductive, SerialHolds, PTL DEF Spec, PostedTogether

LEMMA CorrectedStep ==
    ASSUME IInv, Serial, [Next]_vars, engine = "sqlite", NEW r \in Request, NEW t \in Txn,
           open[r].op \in {"ingest", "retry", "sync"}, open'[r] = Closed,
           Live(t), transactions'[t].amount # transactions[t].amount
    PROVE  /\ \E j \in Key : j[1] \in Push /\ t \in ledger[j].transaction
                              /\ transactions[t].amount = Says[j]
           /\ \E k \in Key : k[1] \notin Push /\ ledger[k].status = "none"
                              /\ t \in ledger'[k].transaction /\ transactions'[t].amount = Says[k]
<1>1. Commit(r) BY Closes DEF Rollback, ApplyRule, stored
<1> DEFINE w == open[r]
<1>2. /\ transactions' = [u \in Txn |-> Corrected(w, u, Lookup(w.made, u, transactions[u]))]
      /\ ledger' = [k \in Key |-> Lookup(w.rows, k, ledger[k])]
      /\ \A p \in w.rows : ledger[p[1]].status = "none"
    BY <1>1 DEF Commit, KeysFree
<1>3. Fresh(w) BY <1>1 DEF Serial, Commit
<1>4. w \in WriteSet BY DEF IInv, Types
<1> HIDE DEF w
<1>5. Lookup(w.made, t, transactions[t]) = transactions[t]
    <2>1. \A m \in w.made : m[1] # t BY <1>3 DEF Fresh, MadeFresh, Live
    <2> QED BY <2>1, LookupCases
<1>6. transactions'[t].amount = Lookup(w.amounts, t, transactions[t].amount)
    BY <1>2, <1>5 DEF Corrected, IInv, Types, TransactionRow
<1>7. PICK x \in w.amounts : x[1] = t /\ transactions'[t].amount = x[2] BY <1>6, LookupCases
<1>8. \E j \in Key : j[1] \in Push /\ t \in ledger[j].transaction /\ transactions[t].amount = Says[j]
    BY <1>3, <1>7 DEF Fresh, FromTapToBank
<1>9. PICK p \in w.rows : p[1][1] \notin Push /\ t \in p[2].transaction /\ x[2] = Says[p[1]]
    BY <1>3, <1>7 DEF Fresh, FromTapToBank
<1>10. p[1] \in Key BY <1>4 DEF WriteSet
<1>11. ledger'[p[1]] = p[2]
    <2>1. ledger'[p[1]] = Lookup(w.rows, p[1], ledger[p[1]]) BY <1>2, <1>10
    <2>2. \A q \in w.rows : q[1] = p[1] => q = p BY <1>3 DEF Fresh
    <2> QED BY <2>1, <2>2, LookupCases
<1> QED BY <1>2, <1>7, <1>8, <1>9, <1>10, <1>11

\* An import corrects an amount only from what a tap of the transaction said
\* to what the bank says of it (SQLite).
THEOREM CorrectionsFollowTaps == Spec => OnlyTapsAreCorrected
<1>1. IInv /\ Serial /\ [Next]_vars =>
        [engine = "sqlite" => \A r \in Request, t \in Txn :
            open[r].op \in {"ingest", "retry", "sync"} /\ open'[r] = Closed
              /\ Live(t) /\ transactions'[t].amount # transactions[t].amount =>
                /\ \E j \in Key : j[1] \in Push /\ t \in ledger[j].transaction
                                  /\ transactions[t].amount = Says[j]
                /\ \E k \in Key : k[1] \notin Push /\ ledger[k].status = "none"
                                  /\ t \in ledger'[k].transaction
                                  /\ transactions'[t].amount = Says[k]]_vars
    BY CorrectedStep
<1> QED BY <1>1, Inductive, SerialHolds, PTL DEF Spec, OnlyTapsAreCorrected

==============================================================================
