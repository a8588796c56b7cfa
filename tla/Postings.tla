------------------------------ MODULE Postings ------------------------------
(***************************************************************************)
(* Transactions that are not entered once by hand: imported from the       *)
(* payments that cards and banks report (package internal/imports), and    *)
(* posted from a recurring template (internal/recurring), both through the *)
(* create of internal/transaction with its guard on the request's id       *)
(* (internal/infra/operation).                                             *)
(*                                                                         *)
(* A source reports a payment in payloads that may be delivered again, be  *)
(* worded differently, or not be understood yet.  The inbox keeps each     *)
(* payload once, the ledger one row per source and payment.  One user, one *)
(* card of each source, one template.  What rules and hand edits do to     *)
(* categories, payees, tags and labels is left out, as are the run rows.   *)
(***************************************************************************)
EXTENDS Integers, FiniteSets

CONSTANTS
    Source,         \* import_sources
    Push,           \* those that push taps; the others are synced from a bank
    Payment,        \* payments, of one type, within MatchDays of each other
    Says,           \* the amount a source reports for a payment
    Tip,            \* by how much a bank may post more or less than was tapped
    Payload,        \* <<source, payment, n>>: the n-th wording of a report
    Account,        \* accounts a card may be mapped to
    Amount,         \* amounts of transactions
    Txn,            \* ids of transactions
    Operation,      \* ids of create requests, chosen by the client
    Request,        \* requests in flight
    Mixes,          \* <<database, the kinds of work done>>: one of them, for good
    MaxNext         \* bound on the dates of the template

Key == Source \X Payment

ASSUME SourceAssumption == Push \subseteq Source
ASSUME SaysAssumption == Says \in [Key -> Amount] /\ Amount \subseteq Nat /\ Tip \in Nat
ASSUME PayloadAssumption == Payload \subseteq Source \X Payment \X Nat
ASSUME IdsAssumption == Key \cap Operation = {} /\ Txn \cap {"queued", "skipped"} = {}
ASSUME MixesAssumption ==
    Mixes \subseteq {"sqlite", "postgresql"} \X SUBSET {"import", "queue", "recur", "hand", "rule"}
ASSUME BoundAssumption == MaxNext \in Nat

VARIABLES
    engine,         \* "sqlite": one connection, transactions one at a time
    kinds,          \* the kinds of work that are done at all
    transactions,   \* the transactions rows
    inbox,          \* import_events: what became of each payload
    cards,          \* import_account_links: where each source's card goes
    ledger,         \* import_transaction_links
    handled,        \* operation_requests_ids
    template,       \* the recurring_transactions row
    open            \* what each request has read and will write

stored == <<transactions, inbox, cards, ledger, handled, template>>
site == <<engine, kinds>>
vars == <<engine, kinds, transactions, inbox, cards, ledger, handled, template, open>>

------------------------------------------------------------------------------
(* Rows *)

\* for: what the transaction was created for, the payments and requests of
\* which it is the one transaction (not a column).
TransactionRow == [state : {"absent", "live", "deleted"}, account : SUBSET Account,
                   amount : Amount \cup {0}, for : SUBSET (Key \cup Operation)]

LedgerRow == [status : {"none", "queued", "skipped", "linked"},
              transaction : SUBSET Txn, event : SUBSET Payload]

\* next: the next payment, counted from the date the user set.
TemplateRow == [live : BOOLEAN, next : 0 .. MaxNext]

NoTransaction == [state |-> "absent", account |-> {}, amount |-> 0, for |-> {}]
NoRow == [status |-> "none", transaction |-> {}, event |-> {}]
NoTemplate == [live |-> FALSE, next |-> 0]

KeyOf(e) == <<e[1], e[2]>>

\* A linked row without a transaction is a tombstone, and seen like any other.
IsSeen(k) == ledger[k].status \in {"linked", "skipped"}

Queued(s) == {k \in Key : k[1] = s /\ ledger[k].status = "queued"}

Live(t) == transactions[t].state = "live"

------------------------------------------------------------------------------
(* Requests *)

\* events, rows, made, amounts: what the transaction writes of the inbox, the
\* ledger, and the transactions it creates or corrects; claim: the request id
\* it claims; next: the template it read; each empty when there is none.
Closed == [op |-> "none", events |-> {}, failed |-> {}, rows |-> {}, made |-> {},
           amounts |-> {}, claim |-> {}, template |-> {}]

InTransaction(r) == open[r].op \notin {"none", "backfill"}

\* On SQLite a transaction has the only connection.
MayBegin == engine = "sqlite" => \A r \in Request : ~InTransaction(r)

\* Handlers the user drives from the queue and the settings are modelled on
\* SQLite: each is one transaction, alone.
Alone == engine = "sqlite" /\ MayBegin

Open(r, w) ==
    /\ open[r].op = "none"
    /\ MayBegin
    /\ open' = [open EXCEPT ![r] = w]
    /\ UNCHANGED <<site, stored>>

\* Ids are drawn afresh.
FreshTxn == {t \in Txn : /\ transactions[t].state = "absent"
                         /\ \A r \in Request : \A m \in open[r].made : m[1] # t}

\* Mutant: the date that a post moved is kept when the create fails.
RollbackAdvanced(r) ==
    /\ open[r].op # "none"
    /\ open' = [open EXCEPT ![r] = Closed]
    /\ template' = IF open[r].template = {} THEN template ELSE CHOOSE tpl \in open[r].template : TRUE
    /\ UNCHANGED <<site, transactions, inbox, cards, ledger, handled>>

\* The error, the crash or the cancelled context that ends a request before
\* its transaction commits: nothing of it stays.
Rollback(r) ==
    /\ open[r].op # "none"
    /\ open' = [open EXCEPT ![r] = Closed]
    /\ UNCHANGED <<site, stored>>

------------------------------------------------------------------------------
(* Matching: which transaction of the account an event is *)

LinkedFrom(t, s) == \E k \in Key : k[1] = s /\ t \in ledger[k].transaction

\* Mutant: a transaction that this source already reported is adopted again.
CandidatesAgain(s, a) == {t \in Txn : Live(t) /\ transactions[t].account = {a}}

Candidates(s, a) == {t \in Txn : Live(t) /\ transactions[t].account = {a} /\ ~LinkedFrom(t, s)}

Same(k, a) == {t \in Candidates(k[1], a) : transactions[t].amount = Says[k]}

\* The taps linked to a transaction from which the event's amount may differ
\* by a tip.
TapsOf(k, t) == {j \in Key : /\ j[1] \in Push /\ t \in ledger[j].transaction
                             /\ Says[k] - Says[j] \in -Tip .. Tip}

Tipped(k, a) == {t \in Candidates(k[1], a) : TapsOf(k, t) # {}}

\* Mutant: an amount the user has changed since is corrected as well.
CorrectsAny(k, t) == t \notin FreshTxn

\* CorrectAmount: the transaction still has the amount that was tapped.
Corrects(k, t) == /\ Live(t) /\ transactions[t].amount # Says[k]
                  /\ \E tap \in TapsOf(k, t) : transactions[t].amount = Says[tap]

\* The outcomes of the rows K, processed one after the other, of a card that
\* goes to c: a row is queued while there is nowhere to put it (no mapping, a
\* deleted or foreclosed account, no rate), skipped by an ignored card or a
\* rule, or placed: on a transaction of the same amount, else on one that a
\* tip explains, else on a new one.
Outcomes(K, c) ==
    {f \in [K -> {"queued", "skipped"} \cup Txn] :
        /\ \A j, k \in K : f[j] = f[k] /\ f[j] \in Txn => j = k
        /\ \A k \in K :
            LET taken(t) == \E j \in K \ {k} : f[j] = t
            IN  \/ f[k] = "queued" /\ c # "ignored"
                \/ f[k] = "skipped" /\ c # "unmapped"
                \/ /\ c \in Account
                   /\ \/ f[k] \in Same(k, c)
                      \/ f[k] \in Tipped(k, c) /\ \A t \in Same(k, c) : taken(t)
                      \/ f[k] \in FreshTxn /\ \A t \in Same(k, c) \cup Tipped(k, c) : taken(t)}

\* Mutant: a payment that a rule skips leaves no row.
RowUnlessSkipped(v, event) ==
    IF v = "skipped" THEN NoRow
    ELSE [status |-> IF v \in Txn THEN "linked" ELSE v, transaction |-> {v} \cap Txn, event |-> event]

Row(v, event) == [status |-> IF v \in Txn THEN "linked" ELSE v,
                  transaction |-> {v} \cap Txn, event |-> event]

Created(t, a, n, what) == <<t, [state |-> "live", account |-> {a}, amount |-> n, for |-> what]>>

\* The transactions that the outcomes f create for the card's account.
Makes(f, c) == {Created(f[k], c, Says[k], {k}) : k \in {j \in DOMAIN f : f[j] \in FreshTxn}}

------------------------------------------------------------------------------
(* The inbox: payloads delivered, retried, synced *)

\* applyEvent looks the payment up: a row, seen or still queued, ends it.
NewKeys(P) == {KeyOf(e) : e \in P} \cap {k \in Key : ledger[k].status = "none"}

\* The payloads P of source s are stored and those that parse applied.  Only a
\* bank's amount corrects one, and only if it is still what was tapped.
Apply(r, op, s, P, failed) ==
    \E f \in Outcomes(NewKeys(P \ failed), cards[s]),
       from \in [NewKeys(P \ failed) -> P \ failed] :
        /\ \A k \in DOMAIN f : KeyOf(from[k]) = k
        /\ Open(r, [Closed EXCEPT
                !.op = op, !.events = P, !.failed = failed,
                !.rows = {<<k, Row(f[k], {from[k]})>> : k \in DOMAIN f},
                !.made = Makes(f, cards[s]),
                !.amounts = IF op # "sync" THEN {}
                            ELSE {<<f[k], Says[k]>> :
                                    k \in {j \in DOMAIN f : f[j] \in Txn /\ Corrects(j, f[j])}}])

\* InsertEvent waits for a transaction that is inserting the same payload, and
\* does nothing for one already stored.
NewPayload(e) == inbox[e] = "none" /\ \A r \in Request : e \notin open[r].events

IngestAppleWallet(r) ==
    \E e \in Payload, failed \in SUBSET Payload :
        /\ e[1] \in Push /\ NewPayload(e) /\ failed \subseteq {e}
        /\ Apply(r, "ingest", e[1], {e}, failed)

\* A retry parses the stored payload again.
RetryEvent(r) ==
    \E e \in Payload : inbox[e] = "failed" /\ Apply(r, "retry", e[1], {e}, {})

\* syncAccount: the rows the bank sent, in one transaction.
Sync(r) ==
    \E s \in Source \ Push :
        \E P \in SUBSET {e \in Payload : e[1] = s /\ NewPayload(e)} \ {{}} :
            \E failed \in SUBSET P : Apply(r, "sync", s, P, failed)

------------------------------------------------------------------------------
(* Templates *)

\* Advance moves the date that was read to the next occurrence.
Advance(tpl) == [tpl EXCEPT !.next = @ + 1]

\* PostRecurringTransaction: the create and the advance in one transaction.
PostRecurring(r) ==
    /\ template.live /\ template.next < MaxNext
    /\ \E o \in Operation \ handled, t \in FreshTxn, a \in Account, n \in Amount :
        Open(r, [Closed EXCEPT !.op = "post", !.claim = {o}, !.made = {Created(t, a, n, {o})},
                    !.template = {Advance(template)}])

\* A template is created, or its date set anew; a date counts from there.
CreateRecurring ==
    /\ Alone /\ ~template.live
    /\ \E o \in Operation \ handled :
        /\ handled' = handled \cup {o}
        /\ template' = [NoTemplate EXCEPT !.live = TRUE]
    /\ UNCHANGED <<site, transactions, inbox, cards, ledger, open>>

SetTemplate(new) ==
    /\ Alone /\ template.live
    /\ template' = new
    /\ UNCHANGED <<site, transactions, inbox, cards, ledger, handled, open>>

SkipRecurring == template.next < MaxNext /\ SetTemplate(Advance(template))
UpdateRecurring == template.next > 0 /\ SetTemplate([NoTemplate EXCEPT !.live = TRUE])
DeleteRecurring == SetTemplate(NoTemplate)

------------------------------------------------------------------------------
(* Commits *)

\* Mutant: a payment's second row replaces the first.
KeysFreeAnyway(w) == TRUE

\* The ledger's unique key: a row that another transaction inserted meanwhile
\* fails this one, with the transaction it created.  (The key compares the
\* card's name exactly, the lookup before it folds case: one spelling here.)
KeysFree(w) == \A p \in w.rows : ledger[p[1]].status = "none"

\* The foreign key: a transaction adopted must still be there.
AdoptedStay(w) == \A p \in w.rows : \A t \in p[2].transaction :
                    Live(t) \/ \E m \in w.made : m[1] = t

Lookup(pairs, x, old) == IF \E p \in pairs : p[1] = x
                         THEN (CHOOSE p \in pairs : p[1] = x)[2] ELSE old

\* Save writes the whole row, so a correction carries the amount alone forward
\* of what was read.
Corrected(w, t, row) == [row EXCEPT !.amount = Lookup(w.amounts, t, @)]

\* The transaction's writes become visible together; the primary key of the
\* request ids lets one claim of each commit.
Commit(r) ==
    LET w == open[r]
    IN  /\ InTransaction(r)
        /\ KeysFree(w) /\ AdoptedStay(w)
        /\ w.claim \cap handled = {}
        /\ handled' = handled \cup w.claim
        /\ inbox' = [e \in Payload |-> IF e \in w.failed THEN "failed"
                                       ELSE IF e \in w.events THEN "processed" ELSE inbox[e]]
        /\ ledger' = [k \in Key |-> Lookup(w.rows, k, ledger[k])]
        /\ transactions' = [t \in Txn |-> Corrected(w, t, Lookup(w.made, t, transactions[t]))]
        /\ template' = IF w.template = {} THEN template ELSE CHOOSE tpl \in w.template : TRUE
        /\ open' = [open EXCEPT ![r] = Closed]
        /\ UNCHANGED <<site, cards>>

------------------------------------------------------------------------------
(* The queue and the settings *)

WriteRows(rows) == ledger' = [k \in Key |-> Lookup(rows, k, ledger[k])]

Make(made) == transactions' = [t \in Txn |-> Lookup(made, t, transactions[t])]

Importable(k) == ledger[k].status \in {"queued", "skipped"}

\* ImportQueuedEvent: the user submits the transaction they want for the row.
ImportQueuedEvent ==
    /\ Alone
    /\ \E k \in Key, o \in Operation \ handled, t \in FreshTxn, a \in Account, n \in Amount :
        /\ Importable(k)
        /\ handled' = handled \cup {o}
        /\ Make({Created(t, a, n, {k, o})})
        /\ WriteRows({<<k, Row(t, ledger[k].event)>>})
    /\ UNCHANGED <<site, inbox, cards, template, open>>

Flip(k, from, to) ==
    /\ Alone
    /\ ledger[k].status = from
    /\ WriteRows({<<k, [ledger[k] EXCEPT !.status = to]>>})
    /\ UNCHANGED <<site, transactions, inbox, cards, handled, template, open>>

SkipQueuedEvent == \E k \in Key : Flip(k, "queued", "skipped")
UnskipQueuedEvent == \E k \in Key : Flip(k, "skipped", "queued")

\* Mutant: any stored payload may be discarded.
DiscardableAlways(e) == inbox[e] # "none"

\* A processed payload is the memory that makes its next delivery a duplicate.
Discardable(e) == inbox[e] = "failed"

DiscardEvent ==
    /\ Alone
    /\ \E e \in Payload : Discardable(e) /\ inbox' = [inbox EXCEPT ![e] = "none"]
    /\ UNCHANGED <<site, transactions, cards, ledger, handled, template, open>>

\* A row can be converted while the payload behind it is stored and parses.
Convertible(k) == \E e \in ledger[k].event : inbox[e] # "none"

\* LinkAccount maps the card, or maps it anew, and converts what it queued.
LinkAccount ==
    /\ Alone
    /\ \E s \in Source, a \in Account :
        /\ cards[s] # a
        /\ cards' = [cards EXCEPT ![s] = a]
        /\ \E f \in Outcomes({k \in Queued(s) : Convertible(k)}, a) :
            /\ WriteRows({<<k, Row(f[k], ledger[k].event)>> : k \in DOMAIN f})
            /\ Make(Makes(f, a))
    /\ UNCHANGED <<site, inbox, handled, template, open>>

IgnoreAccount ==
    /\ Alone
    /\ \E s \in Source :
        /\ cards[s] # "ignored"
        /\ cards' = [cards EXCEPT ![s] = "ignored"]
        /\ WriteRows({<<k, [ledger[k] EXCEPT !.status = "skipped"]>> : k \in Queued(s)})
    /\ UNCHANGED <<site, transactions, inbox, handled, template, open>>

\* What unlinking a card deletes: its queued rows.
Purged(s) == Queued(s)

\* UnlinkAccount forgets the mapping, the queued rows and their events.
UnlinkAccount ==
    /\ Alone
    /\ \E s \in Source :
        /\ cards' = [cards EXCEPT ![s] = "unmapped"]
        /\ WriteRows({<<k, NoRow>> : k \in Purged(s)})
        /\ inbox' = [e \in Payload |-> IF \E k \in Purged(s) : e \in ledger[k].event
                                       THEN "none" ELSE inbox[e]]
    /\ UNCHANGED <<site, transactions, handled, template, open>>

\* The source goes, and everything it remembers; the transactions stay.
DeleteSource ==
    /\ Alone
    /\ \E s \in Source :
        /\ cards' = [cards EXCEPT ![s] = "unmapped"]
        /\ WriteRows({<<k, NoRow>> : k \in {j \in Key : j[1] = s}})
        /\ inbox' = [e \in Payload |-> IF e[1] = s THEN "none" ELSE inbox[e]]
        /\ transactions' = [t \in Txn |-> [transactions[t] EXCEPT
                                !.for = {x \in @ : x \in Operation \/ x[1] # s}]]
    /\ UNCHANGED <<site, handled, template, open>>

------------------------------------------------------------------------------
(* What the user does to transactions, and the backfill of a rule *)

\* CreateTransaction, guarded by the request's id.
CreateTransaction ==
    /\ MayBegin
    /\ \E o \in Operation \ handled, t \in FreshTxn, a \in Account, n \in Amount :
        /\ handled' = handled \cup {o}
        /\ Make({Created(t, a, n, {o})})
    /\ UNCHANGED <<site, inbox, cards, ledger, template, open>>

UpdateTransaction ==
    /\ MayBegin
    /\ \E t \in Txn, a \in Account, n \in Amount :
        /\ Live(t) /\ <<{a}, n>> # <<transactions[t].account, transactions[t].amount>>
        /\ transactions' = [transactions EXCEPT ![t].account = {a}, ![t].amount = n]
    /\ UNCHANGED <<site, inbox, cards, ledger, handled, template, open>>

\* The row is deleted and every ledger row that points at it loses it.
DeleteTransaction ==
    /\ MayBegin
    /\ \E t \in Txn :
        /\ Live(t)
        /\ transactions' = [transactions EXCEPT ![t] = [NoTransaction EXCEPT
                                !.state = "deleted", !.for = transactions[t].for]]
        /\ ledger' = [k \in Key |-> [ledger[k] EXCEPT !.transaction = @ \ {t}]]
    /\ UNCHANGED <<site, inbox, cards, handled, template, open>>

\* ApplyRule reads a linked transaction, outside any transaction ...
ReadForRule(r) ==
    /\ open[r].op = "none"
    /\ \E k \in Key : \E t \in ledger[k].transaction :
        open' = [open EXCEPT ![r] = [Closed EXCEPT !.op = "backfill", !.made = {<<t, transactions[t]>>}]]
    /\ UNCHANGED <<site, stored>>

\* ... and writes all of it back with the rule's targets, if it is still there.
ApplyRule(r) ==
    /\ open[r].op = "backfill"
    /\ MayBegin
    /\ \E m \in open[r].made :
        /\ Live(m[1])
        /\ transactions' = [transactions EXCEPT ![m[1]].account = m[2].account,
                                                ![m[1]].amount = m[2].amount]
    /\ open' = [open EXCEPT ![r] = Closed]
    /\ UNCHANGED <<site, inbox, cards, ledger, handled, template>>

------------------------------------------------------------------------------
(* The specification *)

Init ==
    /\ \E mix \in Mixes : engine = mix[1] /\ kinds = mix[2]
    /\ transactions = [t \in Txn |-> NoTransaction]
    /\ inbox = [e \in Payload |-> "none"]
    /\ cards \in [Source -> {"unmapped"} \cup Account]
    /\ ledger = [k \in Key |-> NoRow]
    /\ handled = {}
    /\ template \in {NoTemplate, [NoTemplate EXCEPT !.live = TRUE]}
    /\ open = [r \in Request |-> Closed]

Import(r) == IngestAppleWallet(r) \/ RetryEvent(r) \/ Sync(r)

Queue == \/ ImportQueuedEvent \/ SkipQueuedEvent \/ UnskipQueuedEvent \/ DiscardEvent
         \/ LinkAccount \/ IgnoreAccount \/ UnlinkAccount \/ DeleteSource

Recurring == CreateRecurring \/ SkipRecurring \/ UpdateRecurring \/ DeleteRecurring

ByHand == CreateTransaction \/ UpdateTransaction \/ DeleteTransaction

Next == \/ \E r \in Request : \/ "import" \in kinds /\ Import(r)
                              \/ "recur" \in kinds /\ PostRecurring(r)
                              \/ "rule" \in kinds /\ (ReadForRule(r) \/ ApplyRule(r))
                              \/ Commit(r) \/ Rollback(r)
        \/ "queue" \in kinds /\ Queue
        \/ "recur" \in kinds /\ Recurring
        \/ "hand" \in kinds /\ ByHand

Spec == Init /\ [][Next]_vars

------------------------------------------------------------------------------
(* Properties *)

\* Every variable has its type.
TypeOK ==
    /\ <<engine, kinds>> \in Mixes
    /\ transactions \in [Txn -> TransactionRow]
    /\ inbox \in [Payload -> {"none", "failed", "processed"}]
    /\ \A s \in Source : cards[s] \in {"unmapped", "ignored"} \cup Account
    /\ ledger \in [Key -> LedgerRow]
    /\ handled \subseteq Operation
    /\ template \in TemplateRow
    /\ \A r \in Request : /\ open[r].op \in {"none", "ingest", "retry", "sync", "post", "backfill"}
                          /\ open[r].events \subseteq Payload /\ open[r].failed \subseteq open[r].events

\* A payment is never turned into two transactions, nor is a request's id:
\* through deliveries repeated or reworded, retries, conversions, imports by
\* hand, skips, re-mapped cards and the user deleting what was imported, and
\* on PostgreSQL through two deliveries or two posts at once.
MadeOnce == \A s, t \in Txn : s # t => transactions[s].for \cap transactions[t].for = {}

\* "A tap already linked from this source is never adopted twice": two equal
\* payments of one source are two transactions (SQLite).
OneLinkPerSource ==
    engine = "sqlite" => \A j, k \in Key :
        j[1] = k[1] /\ j # k => ledger[j].transaction \cap ledger[k].transaction = {}

\* A row the user still has to decide on can be converted when they do: the
\* payload it came from is stored and was understood.
QueuedCanBeConverted ==
    \A k \in Key : ledger[k].status = "queued" => \E e \in ledger[k].event : inbox[e] = "processed"

\* A payload that counts as processed has its payment in the ledger; only
\* unlinking its card (or deleting its source) ever forgets one.
OnlyUnlinkingForgets ==
    [][\A e \in Payload :
        inbox'[e] = "processed" /\ ledger'[KeyOf(e)].status = "none" =>
            \/ inbox[e] = "processed" /\ ledger[KeyOf(e)].status = "none"
            \/ UnlinkAccount]_vars

\* "No double-create, no double-advance": a post creates its transaction and
\* moves the date, or does neither, whether it commits, is refused as a replay
\* or fails; nothing else a request does moves the date (SQLite).
PostedTogether ==
    [][engine = "sqlite" =>
        \A r \in Request : open[r].op # "none" /\ open'[r] = Closed =>
            (template'.next # template.next <=>
                open[r].op = "post" /\ \E t \in Txn : transactions'[t] # transactions[t])]_vars

\* An import corrects an amount only from what a tap of the transaction said
\* to what the bank says of it (SQLite).
OnlyTapsAreCorrected ==
    [][engine = "sqlite" => \A r \in Request, t \in Txn :
        open[r].op \in {"ingest", "retry", "sync"} /\ open'[r] = Closed
          /\ Live(t) /\ transactions'[t].amount # transactions[t].amount =>
            /\ \E j \in Key : j[1] \in Push /\ t \in ledger[j].transaction
                              /\ transactions[t].amount = Says[j]
            /\ \E k \in Key : k[1] \notin Push /\ ledger[k].status = "none"
                              /\ t \in ledger'[k].transaction /\ transactions'[t].amount = Says[k]]_vars

\* "Only the fields the rule sets change": applying a rule to transactions
\* imported earlier leaves their amounts and accounts as the user has them.
RuleOnlyClassifies ==
    [][\A r \in Request, t \in Txn :
        open[r].op = "backfill" /\ open'[r] = Closed /\ Live(t) =>
            transactions'[t] = transactions[t]]_vars

==============================================================================
