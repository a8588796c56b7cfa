# A TLA+ verification of econumo

econumo is a personal-finance server: a Go program (`cmd/econumo`, `internal/`)
over SQLite or PostgreSQL, with web and mobile clients that keep a local copy of
the user's data, sign-in through external OAuth providers, and an OAuth
authorization server through which MCP clients connect to an account.

This directory holds TLA+ modules of the parts whose correctness depends on
interleavings, failures and long sequences of legal calls, the TLC instances that
check them, and TLAPS proofs about them.  Paths below are relative to `src/`.

- [1 The system](#1-the-system): its parts, their state, how they interact
- [2 The plan](#2-the-plan): the modules, in order, and what is still to come
- [3 The modules](#3-the-modules): how state and actions correspond to the code
- [4 The runs](#4-the-runs): what each checks, its bounds, the fairness
- [5 The proofs](#5-the-proofs)
- [6 Where code and comments disagree](#6-where-code-and-comments-disagree)
- [7 What is not shown](#7-what-is-not-shown)

Run a check with `tlc -config X.cfg M` and a proof with `tlapm M.tla`, in this
directory.  `PROJECT.json` lists the runs with their modules, the lines each
definition models, the mutants that show each property can fail, and the hazards.

## 1 The system

### How it runs

Every HTTP handler, MCP tool and CLI command calls a service of one of the
packages under `internal/`; a service reads, then runs one database transaction
through `WithTx` (`internal/infra/storage/backend/tx.go`), which joins an outer
transaction by a savepoint, runs registered hooks before COMMIT and rolls back on
an error or a panic.  Two things decide what can interleave:

- on **SQLite** there is one pinned connection, so transactions are one after the
  other, and only what a request reads before its transaction can be stale in it;
- on **PostgreSQL** there is a pool at READ COMMITTED: each statement sees what is
  committed when it starts, an UPDATE waits for a locked row and then re-evaluates
  its condition, and nothing else is ordered.

The code defends itself with the lock of the account's `users` row
(`LockRow`, `LockForOAuth`), with conditional writes (fenced on
`credentials_generation`, on `revoked_at IS NULL`, on the hash being rotated) whose
row count is looked at, and with unique keys.  Anything it reads before taking the
lock is evidence that may have gone stale.

### The parts

| Part (package) | State | Operations | What is hard, and what makes it correct |
|---|---|---|---|
| Account credentials (`internal/user`) | `users` row with password hash, `credentials_generation`, `is_active`, email; `access_tokens`; reset codes; pending email change | login, reset, password change, personal tokens, sessions, email change, operator commands | A grant in flight while everything is being revoked. Nothing granted on old authority survives an eviction; one session survives a password change; no write brings an old password back; a code is taken once. **Modelled** (`Credentials`, `CredentialFence`) |
| Authorization server (`internal/authserver`) | clients, authorization codes, grants with rotating refresh tokens and the spent ones, their access tokens | register, approve, exchange, refresh, disconnect, housekeeping, reclaim | Two exchanges or refreshes at once, a reuse told from a retry, a reclaim between approval and exchange. **Modelled** (`AuthServer`) |
| Transaction revisions and the web client's list (`internal/infra/txrevision`, `internal/transaction/read.go`, `web/src/features/transactions`) | `accounts.transactions_revision`; in the page: list, revisions held, accounts list, sync run | every transaction write; accounts list, download, own-write shortcut, patches | Rows, revisions and accounts list are read at different times; answers are lost, syncs cancelled. When the revisions agree, the list is true, and it converges. **Modelled** (`TransactionSync`) |
| Accounts and transactions (`internal/account`, `internal/transaction`) | `accounts` with soft deletion, `transactions`; balances are sums | create, edit, move, delete, import rows; update and delete accounts; the zeroing migration | Every later write must keep a deleted account at zero, in the right month, with nothing left for a future day. **Modelled** (`Ledger`) |
| Connections (`internal/connection`), account access (`internal/account/access.go`), budget access (`internal/budget/accesssvc.go`) | invitations, links, shares pending and accepted, folders | invite, accept, disconnect, offer, accept, decline, revoke, leave | A share ends in five ways, each of which must take everything with it; an answer overtaken by a revocation must bring nothing back. **Modelled** (`Sharing`) |
| Budgets (`internal/budget`) | budgets, the accounts they count, savings rows with plans, envelopes, limits | lifecycle, members, savings, limits, the monthly read model | A budget counts its participants' accounts and nobody else's; what was planned for an account does not come back after it left. Members, savings and lifecycle **modelled** (`Sharing`); envelopes and the read model, a sequential computation, are not |
| Recurring transactions (`internal/recurring`), operation guard (`internal/infra/operation`) | templates with a next payment date; operation ids | create, update, delete, post, skip | A retried or concurrent post creates one transaction and advances once, together. **Modelled** (`Postings`) |
| Imports (`internal/imports`) | inbox, ledger of payments, review queue, mapped cards, rules | ingest, retry, sync, link, convert, discard, skip, map, unmap, unlink, apply a rule | The same payment delivered twice, in two wordings or by two paths: at most one transaction, and nothing processed is forgotten. **Modelled** (`Postings`) |
| External sign-in (`internal/oauth`, `internal/infra/oidc`) | login states, identities, hand-offs | start, callback, exchange, link, unlink | Unlink or reclaim under a hand-off in flight; the last way in must stay. **Modelled** (`OAuthLogin`) |
| Rate limiter (`internal/infra/ratelimit`) | attempts per counter behind a mutex, in a bounded map | allow, reserve, release, mark, clear, evict | A burst cannot exceed the limit; eviction forgets nobody who is held back; a refused caller is told when to come back. **Modelled** (`RateLimit`) |
| Order of rows (`internal/shared/sortkey`, `internal/infra/txorder`) | fractional keys | top, place between, split ties | Keys stay ordered and there is always room. Not modelled |
| Email verification (`internal/user/verify_email.go`) | a code, `is_verified` | issue, verify | Same lock pattern as the email change. Not modelled |
| Lists (`category`, `payee`, `tag`, `label`) | owner-scoped rows | CRUD, order, archive, merge | One transaction on its own rows. Not modelled |
| Currencies (`internal/currency`) | rates, custom currencies | updater, conversion | One loop, pure arithmetic. Not modelled |
| Storage (`internal/infra/storage`), server (`internal/server`, `internal/web`), CLI, config, mailer, i18n, AI, system, admin, billing, MCP tools | none of their own, or none that is concurrent | wiring, I/O, formatting | Not modelled; `WithTx` and authentication are part of the modules that use them |
| Web views, `mobile/`, `apple/` | caches that are fetched again | – | Not modelled, the transactions list excepted |

### How they interact

- A reset, an operator's password and a deactivation reclaim the account: in one
  transaction under the users-row lock they move the generation and sweep tokens,
  codes, MCP grants and, for the first two, external identities.  `Credentials` has
  the reclaim in full for the account's own rows, `AuthServer` has it for its
  grants, `OAuthLogin` for its identities and hand-offs; the three share the generation.
- Every transaction write calls `txrevision.Bump`; the bumps are flushed once, in
  account order, before COMMIT, and the clients follow them.  `TransactionSync` has
  the revisions, `Ledger` the row locks that the flush takes.
- Deleting an account, and any write that moves a deleted account's flow, writes
  corrections into the transactions table (`ZeroIfDeleted`).  That is `Ledger`.
- Imports and posts of templates create transactions through the same create as the
  user, with its guard on the request's id.  `Postings` has the three next to each other.
- A disconnection ends the shares of accounts and of budgets in one transaction, through
  ports of the connection package.  `Sharing` has all three packages in one module for that.
- A sign-in counts its guess before it tests the password.  `RateLimit` has that handler as
  the limiter sees it, `Credentials` as the users row does.

## 2 The plan

Ordered by what would hurt most.  What is written:

1. `Credentials` and its abstraction `CredentialFence`: who can get into an account.
2. `AuthServer`: who else can, through MCP.
3. `TransactionSync`: whether what a page shows is what the server has.
4. `Ledger`: balances under soft deletion.
5. `Postings`: at most one transaction for a payment, a post or a request.
6. `Sharing`: who sees whose accounts and budgets, and until when.
7. `RateLimit`: how many guesses a password withstands.
8. `OAuthLogin`: sign-in through providers; the account keeps a way in and a reclaim leaves
   none behind.

What could follow, and is not written:

9. `TxOrder` and `SortKey`: keys as sequences against a reference order.
10. `EmailVerification` as an extension of `Credentials`, and `LockOrder`, the order
    in which transactions take row locks, for freedom from deadlock.

## 3 The modules

A request is a process with a program counter.  What it reads before its
transaction is one step; the transaction takes its locks, computes its writes on
what is then committed, keeps them to itself, and publishes them in one step,
`Commit`.  Other processes run between any two of these.

### Credentials, CredentialFence (`internal/user`)

One account.  `user` is its row, `tokens`, `resets` and `changes` are the other
tables; `op`, `pc`, `seen` and `writes` are what each request runs, where it is, what
it read and what its transaction will commit.  A password is identified by the
generation it was set at.  `since`, the generation a token's authority goes back to,
`verified` of a pending change, and `history`, the generations of the latest rotation
and eviction, are not in the code: the properties are about them.

| Steps | Code |
|---|---|
| `Login`, `RemindPassword`, `ResetPassword`, `Mutate`, `Authenticate`, `Touch` | what is read, and checked, before the lock; `Touch` is an UPDATE that answers 401 when it matches nothing |
| `CheckOldPassword`, `CheckEmailChange`, `MatchPendingChange`, `ReadPendingChange`, `RereadUser`, `PreparePersonalToken` | the evidence of an authenticated request |
| `RehashLegacyPassword` | login's upgrade of an old hash, one fenced UPDATE of its own |
| `LockRow` | the users-row lock |
| `CreateSession`, `CreatePersonalToken`, `IssueResetCode`, `CompleteReset`, `AdminChangePassword`, `AdminDeactivate`, `AdminActivate`, `AdminChangeEmail`, `SaveProfile`, `UpdatePassword`, `IssueEmailChangeCode`, `ConfirmEmailChange` | the transaction bodies, with every fence |
| `Commit`, `Reject`, `Crash` | COMMIT; an error; the server or the client gone, anywhere |
| `RevokeSessions`, `RevokeToken`, `Expire`, `PurgeDeadToken`, `ExpireCode` | statements outside transactions, and time |

`CredentialFence` is what the account promises: atomic sign-ins, derivations,
withdrawals, rotations that spare one session and evictions that spare nothing.
`Credentials` implements it with its committed rows as the mapping
(`AccountIsFenced`).  Its `Derive` allows any authority from the latest eviction on,
not only that of a valid credential: a personal token's transaction may find its
presenter unrevoked, the presenter may then be signed out by a statement that takes
no lock, and the token commits after it.  A sign-out is not an eviction, so nothing is
lost by it; the abstraction says so openly.

### AuthServer (`internal/authserver`, `internal/user/oauth_tokens.go`)

One account and its clients, codes, grants, spent refresh tokens and live access
tokens.  A refresh token is a pair of its grant and a number; `current` is the number
the row's hash stands for, `prev` the one it replaced, `last` the latest handed out.
`now` is the clock that the 60-second grace window is measured by; a request reads it
on arrival.  `Exchange` consumes its code in a statement of its own (`DELETE …
RETURNING`) before its transaction; `FindGrant` and `FindSpent` are the two reads of a
refresh; `RotateGrant` is conditional on the hash and on the grant not being revoked.
`answered`, and `code`, `since`, `turnedAt` and `last` of a grant, are for the properties.
Every operation that changes these tables is an action, the purges included.

### TransactionSync (`internal/infra/txrevision`, `web/src/features/transactions`)

`rows` and `revision` are the server's; `known`, `list`, `cache` and `sync` are the page's:
the revision of each bucket it holds, its rows, the revisions in its accounts list, the
run of `transactionsQueryFn`.  Requests of the page (`Own`) and of other devices (`Other`)
begin, commit with their bumps, and, the page's own, build an accounts list for
the answer after their transaction (`Embed`), which is received or lost.  `Receive` is the
page's whole reaction: cancel a sync, take over revisions that are one ahead, patch the list,
start a sync if they still differ.  `Refetch`, `Invalidate`, `Download`, `Land` and `Fail` are the
accounts list and the sync.  On SQLite a read waits for the open transaction; in
the module it does not and sees what it would have seen before it.  All accounts that
differ are asked for in one request, and one own request is in flight in the runs that pass.

### Ledger (`internal/account`, `internal/transaction`)

A row has a day and a flow, what it adds to each account it is on; `Balance` is the sum
of the flows over the days asked for, which `GetAccountBalance` computes.  `Create`, `Update`,
`Delete` stand for every write of transactions (moves to another day, posted and
imported rows included); `DeleteAccount`, `UpdateAccount`, `ZeroDeletedAccounts` for those
that save an accounts row or a correction.  `Write` is the transaction's statements, with the corrections
`ZeroIfDeleted` adds, `Commit` its commit and the flush of the bumps, which waits for
accounts rows another transaction has saved.  `unpinned` is a history: a deleted account that
an older version left with a balance, or that was edited after its deletion (see 6), until
a write zeroes it.  A transfer from an account to itself adds nothing to it and is left
out.  Both engines are in the module.

### Postings (`internal/imports`, `internal/recurring`, `internal/infra/operation`)

A payment is a pair of the source that reports it and what was paid; a payload is one wording of a report.
`inbox` says what became of each payload (`import_events`), `ledger` of each payment (`import_transaction_links`),
`cards` where a source's card goes, `template` and `handled` are the recurring template and the operation ids;
`transactions` holds what all of them create.  A request computes what it will write when its transaction
begins (`open`) and writes it in `Commit`, or `Rollback` forgets it.  `for`, the payments and requests a
transaction was made for, is for the properties.

| Steps | Code |
|---|---|
| `IngestAppleWallet`, `RetryEvent`, `Sync` | a tap delivered, a failed payload tried again, a bank's rows synced; `Outcomes` is the matcher: adopt a transaction of the same amount, else one a tip explains, else create one |
| `ImportQueuedEvent`, `SkipQueuedEvent`, `UnskipQueuedEvent`, `DiscardEvent`, `LinkAccount`, `IgnoreAccount`, `UnlinkAccount`, `DeleteSource` | the queue and the mapping of cards: one transaction each, alone on SQLite |
| `PostRecurring`; `CreateRecurring`, `SkipRecurring`, `UpdateRecurring`, `DeleteRecurring` | a post, on either engine, several at once; the other handlers of the template, alone on SQLite |
| `ReadForRule`, `ApplyRule` | a rule applied to imported rows, which are read, and found unedited, before the transaction |
| `CreateTransaction`, `UpdateTransaction`, `DeleteTransaction` | the user, between any two of these |

On PostgreSQL an insert that meets an uncommitted insert of the same key waits for it; the guards
`NewPayload` and the unique keys say so.  What rules match is a choice.

### Sharing (`internal/connection`, `internal/account/access.go`, `internal/budget`)

`links` are the connections, as sets of two users; `shares` and `access` the rows of accounts and budgets shared, each
`None`, pending or accepted with a role; `placed` the folders; `members` what each account is in each budget, out, in or savings;
`rows` the savings rows of a budget's elements, empty or with something planned in them; `status` the lifecycle.  A savings row comes and goes with
`SyncElements` when a change of members touches a flag (`ChangeFrom`), is healed by the same when a limit finds none, and is deleted with its owner
(`RemoveMembers`).  A change asks for one account; the code can change several of a user's at once, each as this one.  Handlers that are one transaction from their first
read are one action.  Those that read and check before their transaction (share, grant, accept, decline, revoke, change of members,
planning, editing, archiving, deleting) are an `Ask`: `MayAsk` is what the handler checks, `Write` the body of its
transaction with what it checks again there, and between the two (`Begin`, `Commit`, `Fail`) anything else may happen;
`Serve` is the two in one step.  `setting` chooses at the start which people, accounts, budgets and roles a behaviour is
about and whether requests can be overtaken; the proofs hold for all settings.  The database is SQLite.

### RateLimit (`internal/infra/ratelimit`, `internal/user/usecase.go`, `internal/user/login.go`)

`attempts` is the limiter's map, the attempts of a counter by age, oldest first; each call holds the mutex and is a step.
A sign-in is a process: `Allow` (the ceiling, the address and IP, the backstop of its IP), the lookup of the account, which may fail (`FailLookup`),
`ReserveOwn`, `ReserveCeiling`, then `FailGuess` or, for one who knows the password, `RightGuess`, `ReleaseOwn`, `ReleaseCeiling`, `ClearOwn`.
`Allow` puts three calls of the limiter into one step: they only read and prune, but for the count of the IP, and `ReserveOwn` and `ReserveCeiling` look again.
`Mark` notes a letter sent to an address, or one that would have been sent if it had an account.  Only the newest mark is ever read, so it is the one kept; the gap that
callers leave between two is left out, because two resends at once read it before either marks and a sign-in that sends a code does not read it.  So the module has
every mark the code can make, and more.
`Tick` ages everything and lets no request be in flight longer than `Duration`.  `Room` is the eviction: expired counters
first, then the oldest that is not pinned.  `failures`, the ages of the wrong guesses tested, is for the property.

### OAuthLogin (`internal/oauth`, `internal/user/external.go`)

One account that people sign in to through providers.  `setting` is the deployment (whether passwords are taken), the external
accounts and the operations of a behaviour; `user` the row; `identities`, `states` and `handoffs` the three tables of the
package; `sessions` the generations under which unrevoked sessions were opened; `pc`, `op`, `seen` and `writes` as in `Credentials`.
`linked` of an identity, the generation its authority goes back to, and `history` are for the properties.

| Steps | Code |
|---|---|
| `StartLogin`, `AskLink`, `StartLink` | a request goes to the provider; a link is asked for by a signed-in client |
| `Callback` | the provider answers with a subject and a verified address, and the `DELETE` of the state takes it once |
| `FindIdentity`, `FindOwner`, `RefreshIdentity`, `WaitForIdentity`, `MayMirror`, `SkipMirror`, `ReplaceVerifiedEmail`, `MintHandoff` | a known identity: read, its owner read, its address refreshed and mirrored to a passwordless account in statements of their own, a hand-off parked |
| `FindByEmail`, `AutoLink`, `ProvisionExternal`, `Provision` | an unknown one: linked to the passwordless account of its address, or given an account |
| `FindLinkOwner`, `CheckLink`; `AskCompletion`, `ConsumeLink`, `CompleteLink` | a link: what the provider said is parked, and written when the client brings the code |
| `ExchangeHandoff`, `Redeem`, `Waste` | a hand-off becomes a session, or is spent for nothing |
| `AskUnlink`, `PrepareUnlink`, `UnlinkIdentity`, `AskReclaim`, `ReclaimAccount` | identities go, one by its owner, all of other addresses by a reset |
| `LockRow`, `Commit`, `GiveUp` | the users-row lock, COMMIT, an error or a request that is gone |
| `SignIn`, `AdminDeactivate`, `AdminActivate` | the account's own side, each as the one step that `Credentials` shows it to act as |
| `LapseHandoff`, `LapseState` | what expired is swept |

The database is PostgreSQL.  A statement that deletes or updates a row of an open transaction waits for it, and then sees
what that left.

## 4 The runs

| Run | Question | Shows |
|---|---|---|
| `credentials` | sign-ins, password changes and token creations against an operator who resets, deactivates, activates and saves the account | no token outlives an eviction, one older session survives a change, a deactivated account holds no unrevoked token, no old password returns; the committed rows implement `CredentialFence` |
| `credentials_requests` | reset codes and pending changes, under the fair specification | each is taken once, while it stands, for the address it was for; every request ends |
| `credentials_resend` | violated, see 6 | a resend outlives a reset |
| `oauth_login` | callbacks, redemptions and links in the air while the account is unlinked, reset or deactivated | no session and no identity outlives a reclaim; a hand-off opens one session, while its provider is linked; unlinks at once leave a way in |
| `authserver` | approvals, exchanges, refreshes with any token ever issued, disconnects, reclaims, purges, time | one connection per client, one grant per code, none that outlives a reclaim; access dies with its grant; reuse ends the grant and a concurrent refresh does not; the client of a connection stays |
| `sync_alone` | one device writes: another one, of whose writes the page hears, or the page itself; answers lost, syncs failed and cancelled | when the page's revisions agree its list is true; it converges; every change moves its accounts by one |
| `sync_transfers` | violated, see 6 | a list that is wrong for good |
| `ledger_deletions` | all operations on two accounts, one perhaps deleted by an older version | a deleted account stays at zero and deleted, a removed flow is offset on its day |
| `imports` | deliveries, retries and syncs next to the queue, to hand edits, to a rule and, on PostgreSQL, to each other; posts next to hand edits | one transaction for a payment or request; a source reports a transaction once; a queued row can be converted; a post and its date go together; only unlinking forgets a payment; only taps are corrected, while they are as tapped |
| `imports_backfill` | violated, see 6 | a rule reverts a hand edit |
| `sharing` | invitations, shares of accounts and budgets, members and plans, disconnections; requests overtaken | a code connects one user; folders and counted accounts go with the share; nothing accepted that was not on offer; the step of a disconnection ends both directions; no old plans return |
| `ratelimit` | two sign-ins at a time, right or wrong, at two addresses from two IPs, a map of two counters | the wrong guesses tested within a window stay within the ceiling, whatever else fills the map; who is held back is let go |

Each property of a passing run comes with a mutant of the code, a dropped fence or lock,
a stale save, an off-by-one, under which it fails in that very run; the mutants stand
beside what they mutate, as `… Mutant:` definitions that nothing else uses.

### Bounds, and why they are enough

- **Two requests** everywhere: each guarantee is about one grant in flight against one
  sweep, one rotation against another, or a write against a sync.  The proofs of section 5
  hold for any number.
- `Credentials`: two tokens (a presenter and what it mints, or two sessions), generations up to two
  (a mint before a sweep, the sweep, another after it); the run about codes has one code,
  which two requests can hold at once, two addresses, and no symmetry, since it checks liveness too.  The operations are split between the runs; each
  has those that can interfere with what it checks.
- `AuthServer`: one client, since rows of two clients meet only at the users-row lock; two
  codes and two grants make a replacement; three tokens of a grant (0 to `MaxIssued`) are the
  current one, the forgiven one and an older one.  With `Grace = 0` and a clock of two values
  "the same tick" is within the grace window and "the next" is past it.
- `TransactionSync`: two accounts (a bucket downloaded and one kept), two rows, two or three writes: one
  before, one during and one after a sync.
- `Ledger`: two accounts (two parties of a transfer), one amount, today and one future day, two
  edits beside any number of deletions and zeroings, five rows; the legacy account may
  carry a balance from the start.
- `Postings`: two payments tapped, one of them in two wordings and the other not delivered by the wallet, both reported by a bank, one with a
  tip: a tap, its second wording, the bank's posting of it and a posting that a tip of the wrong payment explains.  Two transactions,
  two requests, one card of each source, one operation id, two dates of the template.  `Mixes` says which kinds of work meet in one
  behaviour and on which engine: imports with the queue, with hand edits, with a rule, with each other; posts with hand edits.
- `Sharing`: three users share one account, or one budget, with nothing in between (a third user is who an administrator shares with, and who stays when
  two disconnect); two users, the budget with both their accounts and its plans, or an account and two codes, with one request overtaken by any number of
  others.
- `RateLimit`: a window of four ticks with requests of one, so that a guess may be tested one tick after it was counted and is held against the next for
  two (`Guarded`; the theorem has any window); the limits are 1 per address and
  IP, 2 per address, 2 per IP; two counters fit into the map, fewer than one sign-in uses.  One request is made by who knows the password, here and in the theorem:
  `Release` gives back the newest attempt and not its own, so that two right sign-ins that overlap again and again shift the counted attempts back each
  time, and the property is false (`ratelimit.go:155-157` calls it close enough).
- `OAuthLogin`: one external account, two providers, or two subjects of one provider; two addresses, three identities (two in their slots and one
  to write), two codes; one generation before and one after a reclaim or deactivation, and one authorization request under way at a time, since what
  follows a callback depends on its code alone.  `Mixes` says which operations meet: a sign-in with an unlink and a reclaim, a link with an
  unlink, a sign-in with a deactivation, a link with a reclaim, each with what it can race.
- Symmetry is over requests, tokens, codes and grants where they are interchangeable, and is
  not used with liveness.  Accounts are ordered, and so are days.
- The bounds only stop new edits, generations, tokens or ticks from beginning, so all that is
  under way at a bound still runs to its end.  `ledger_deletions` also bounds rows: a write
  with no room for its corrections cannot be taken, and fails.

Deadlock is checked in all runs but the two of `Postings`, which stop when the ids and dates their bounds allow are
used up.  There is none: no process waits for one that waits.

### Fairness, and why the code justifies it

- `Credentials!FairSpec`: weak fairness of a running request's own steps, since the Go runtime
  schedules every goroutine; strong fairness of the steps that wait for a row (`LockRow`, the fenced
  rehash, `Touch`, the session sweep), since PostgreSQL queues the waiters of a row and SQLite those
  of the connection.  Nobody has to arrive, and nothing has to crash or be refused.
- `TransactionSync!FairSpec`: requests are served and answered or lost; the accounts list is fetched
  again for ever (a page in use: on focus, on a tap on sync, after the ten minutes of its `staleTime`); a run that is due starts; a run
  that is tried for ever lands some time (strong fairness of `Land`, against failures and own
  writes that cancel it).  `Converges` asks for the list only once the writing has stopped.
- `RateLimit!FairSpec`: a request proceeds, since the Go runtime schedules every goroutine, and time passes.
- The other modules claim safety only.

## 5 The proofs

TLAPS checks the theorems below for every value of the constants that the modules'
assumptions allow.

**Credentials_proofs**, for any number of requests, tokens, codes and addresses, any set of operations and
any bound on generations:

- `TypesAreKept`: `TypeOK`.
- `NothingOutlivesAnEviction`: `NoCredentialOutlivesEviction`.
- `OneSessionSurvivesAPasswordChange`: `AtMostOneSurvivor`.
- `ADeactivatedAccountIsShut`: `InactiveHoldsNoToken`, what lets authentication not look at `is_active`.
- `NoOldPasswordReturns`: `PasswordIsTheLatestSet`.

- `RequestsEndWithTheirPassword`, `ResetsTakeTheirCode`, `ConfirmationsTakeTheirGrant`: `RequestedChangeIsFenced`, `ResetTakesItsCode` and `ConfirmTakesItsGrant`.
- `CredentialsAreFenced`: `AccountIsFenced`, the implementation of `CredentialFence`.

None of the first four is inductive: each speaks of committed rows, and a commit publishes what a
body computed some steps earlier.  The inductive invariant is `SafetyInv`, the conjunction of `TypeOK` and

- `OneHolder`: one request at a time is past the row lock;
- `EvidenceHolds`: what a request has read was true of the row when it was at that generation, so that evidence at
  the current generation is still true (a password read at it is the one in the row, the account is active);
- `BuffersHold`: what an open transaction will commit would satisfy the properties now, and goes on doing so
  whatever statements that take no lock do meanwhile, because they only make the set of unrevoked tokens smaller;
- `RowsHold`: the committed rows satisfy the properties.

The proof goes by the kind of step: arrivals and reads (`StartIsSafe`, `EvidenceIsSafe`), waits, bodies
(`BodyBuffersWhatHolds`: each body buffers what holds), commits (`CommitIsSafe`: what was buffered becomes the
rows) and lapses.

The three about outstanding requests need `RequestInv` besides: a code's row says to one address only it was mailed, wherever it has been read to (`AddressesAgree`), and what a
body found in the rows of requests is still there when it commits (`WriteFounded`).  The refinement needs `MeaningInv`: what is buffered is one grant of a token that nobody has, one rotation that spares a session, or one
sweep.  Then each commit is a step of `CredentialFence` (`CommitIsAFenceStep`), and every other step withdraws tokens or none (`Withdraws`).

**TransactionSync_proofs**: on SQLite, `EveryChangeMovesItsAccounts` proves `ChangedAccountsMove` for any accounts, rows,
transfers, moves between accounts and numbers of devices.  The invariant, `OpenKnowsItsRow`, is that the
only open transaction knows where its row is, because nobody can have moved it since it read it.  The
assumption `Engine = "sqlite"` is needed: on PostgreSQL two edits of one row may both read its old account.

`ThePageIsTrueAlone` proves `UpToDateIsTrue` on either engine, for any accounts and transactions, when no row is a transfer
(`NoTransfers`), none is put on another account (`MayMove = FALSE`), and the writers are either any number of other devices or
this client one request at a time (`OneWriter`).  Without any one of these TLC refutes it: two of the client's own requests at
once, its own beside another device's, a row that is moved, a transfer (the run `sync_transfers`).

The property is not inductive: it speaks of a page that is idle and agrees on every account, and a page gets there through
answers and downloads that overlap writes.  The inductive invariant, `PageFollows`, goes by account.  `Current`: a
bucket held at the server's revision is the server's, whatever else is stale.  `Promise`: an answer that is under way makes a
bucket the server's if the page is up to date or one behind on an account which that write bumped, so that "stored + 1" is the
whole change; this is what a download that lands between the commit and the answer must keep.  They rest on `OneHome`, that everything
the server, the list and the requests ever say of a transaction puts it on the same account, without which a list put together from some new
buckets and some old ones can show a row twice or not at all, and on `OwnKnows`, that the row the client wrote is still there as it wrote it.
The lemmas about lists carry it: a patch goes by the bucket (`PatchGoesByBuckets`), the patch of a write turns the rows before it
into those after it (`PatchIsTheWrite`), and `Assemble` keeps buckets that share no transaction (`AssembleKeepsBuckets`).

**Ledger_proofs**: for any accounts, amounts, days and number of requests, and any bound on rows; all but `TypesHold` on SQLite:

- `DeletedAccountsStayDeleted`: `StaysDeleted`.  Two operations save the whole accounts row as they read it, `DeleteAccount` even from before its transaction.
  The invariant, `RowsAreSavedAsTheyAre`, is that one transaction is open at a time and that a row about to be saved live was read inside it.
- `DeletedAccountsArePinned`, `RemovedFlowsAreOffset`: `PinnedAtZero` and `RemovedFlowIsOffsetOnItsDay`.
- `TypesHold`: `TypeOK`, below.

Neither `PinnedAtZero` nor `RemovedFlowIsOffsetOnItsDay` is inductive: what a commit publishes was computed when its statements ran.  `BooksInv` adds that the rows are well formed, and none has an id not
yet handed out; that a request under way asks for what its handler checked (`Asked`: no deleted account joins a row, the row to be changed is still there as it was read); and that
what an open transaction has written is a table in which every deleted account it does not touch keeps its balance, every one it zeroes has none, and every one it takes a flow from keeps
the sum of every day (`Promise`).  At the write, `OutcomeBalance` says what the transaction leaves an account: its balance after the transaction's own row, and its one correction, whose
id is fresh and nobody else's (`WrittenRows`, `RanksNumber`).  At the commit the promises are kept because nobody else could write since.

A balance is a fold over the rows.  `SumFollowsItsElement` is all that is needed of it, that changing one row changes the sum by as much; it is an induction over the subsets of the rows, carried out
as the search for a least counterexample (`LeastOf`, from the library's well-founded minimum), and `SumsExist` shows by the same that the recursive function which the fold is exists.

**Postings_proofs**, for any sources, payments, wordings, requests and mixes, on both engines:

- `TypesHold`: the types, what an open request will write included.
- `PaymentsAreMadeOnce`: `MadeOnce`.  The invariant is the conjunction of the types; of `Accounted`, whatever a transaction was made for is marked
  as done, a request among the handled ones and a payment by its linked row; of `OpenSound`, a request makes a transaction only for what the same transaction
  claims or links, and never two for one thing; and of `MadeOnce` itself.  A commit then adds nothing that was counted before, because it begins by
  asking that its keys are free.
- `QueuedRowsStayConvertible`, `OnlyUnlinkingLosesPayments`: `QueuedCanBeConverted` and `OnlyUnlinkingForgets`.  The invariant, `Memory`, adds that a row keeps the payloads
  it came from and they are processed; that a payload a request will mark as failed is still new, and one it will mark as processed has a row, in the same
  transaction or committed before; and that no two requests hold one payload of which either says it failed.

And on SQLite, where a transaction has the only connection:

- `PaymentsKeepApart`, `PostsAreWhole`, `CorrectionsFollowTaps`: `OneLinkPerSource`, `PostedTogether` and `OnlyTapsAreCorrected`.  The invariant, `Serial`, is that at most one
  transaction is open, and that everything it was prepared from still holds (`Fresh`): what it links is not linked from the same source, what it makes
  is not there, the date it moves is the template's, the amounts it corrects are still what a tap said.  The settings and the queue, which may change
  each of these, are transactions themselves and wait.

**Sharing_proofs**, for any users, accounts, budgets, codes, requests and settings, overtaken or not:

- `TypesHold`: `TypeOK`.
- `CodesAreForOneUser`: `OneUserPerCode`.  Not inductive alone: a code nobody has redeemed must be the one its owner has, or not issued (`CodesAreFresh`).
- `FoldersFollowShares`: `PlacedOnlyWhereShared`.
- `BudgetsCountTheirOwn`: `CountedAccountsBelong`.  It excepts one step, a change of members that was overtaken, see 6.
- `PlansDoNotReturn`: `OldPlansStayGone`, from the invariant that a budget has a savings row for exactly the accounts flagged in it (`RowsFollowFlags`), which every way out of a
  budget has to keep: a change of members, a departure, a disconnection, the deletion of the budget.
- `SharesAreOfferedFirst`, `DisconnectionIsComplete`: the action properties, from the shape of what a request carries.

**AuthServer_proofs**, for any number of requests, clients, codes and grants, any operations in use, any grace window and any bounds:

- `TypesAreKept`: `TypeOK`.
- `AccessEndsWithItsGrant`, `OneConnectionStays`, `ReclaimEndsConnections`, `CodesAreSpentOnce`, `ClientsStayRegistered`, `TokensAreOnRecord`,
  `ReuseIsPunished`: the seven safety invariants of the run `authserver`.
- `ConcurrentRefreshIsNot`: its action property, `OnlyReuseEndsTheGrant`.

The inductive invariant `IInv` is the conjunction of `TypeOK` and

- `RowsSound`: the committed rows satisfy the properties, and what makes that go on: a code that stands, in its row or with the exchange that consumed it, belongs
  to a used client, has bought no grant, and was approved since the latest reclaim if its generation is the current one (`CodesSound`); access tokens are only those of
  grants that are live, not idle, so that housekeeping may delete idle ones (`AccessIsLive`);
- `SeenHolds`: what a request knows of the token it presented is still true: a stale token stays stale while its grant stands, and a token that was
  current on arrival was rotated away after it (`TokenHolds`);
- `OneHolder` and `BuffersHold`: one transaction is open at a time, and its write set is the one its body would compute now, though clients are purged and codes
  expire without the lock meanwhile;
- `AnswersHold`: no answered stale token has a standing connection.

There is one lemma per action, and one per kind of commit (`IssueCommits`, `OpenCommits`, `TurnCommits`, `CloseCommits`, `ReclaimCommits`).  `ReuseIsPunished` rests on
`StaleIsCaught`: a stale token of a standing connection is on record, and no grace window forgives it.

**OAuthLogin_proofs**, for any number of requests, providers, subjects, addresses, identities and codes, any deployments and mixes:

- `TypesAreKept`: `TypeOK`.
- `ReclaimLeavesNoWayIn`: `NoWayInOutlivesReclaim`.
- `HandoffsAreRedeemedWhileLinked`, `NobodyIsLockedOut`: the action properties `RedeemedOnlyWhileLinked` and `LastWayInStays`.

The inductive invariant `SafetyInv` is the conjunction of the types and of `Safe`: one holder of the users row with one write set (`OneHolder`); whatever
goes on with the account finds one (`AccountExists`), which is what keeps a callback that provisions one, without a lock, away from everybody else's transaction; nothing
at hand is of a later generation than the row (`GenerationsGrow`); a link's session is as fresh as the fence on its hand-off says (`EvidenceHolds`); ids
are unique; and `BuffersHold`: what an open transaction will commit is still founded on the rows, though identities are refreshed in place and
hand-offs lapse meanwhile without the lock.  All steps outside transactions are one lemma (`OutsideIsSafe`), all steps that nobody may hold the row for
another (`FreeStepIsSafe`), and there is one for bodies, one for commits.

**RateLimit_proofs**, for any addresses, IPs, limits, windows, durations and sizes of the map, and any number of requests:

- `TypesHold`: `TypeOK`, by which no counter exceeds its limit, and each is sorted.
- `GuessesStayBounded`: `GuessesAreBounded`, if at most one request is made by who knows the password.

A bound on what is tested does not follow from the bound on what is counted alone, because a release may take another guess's attempt than its own.  The
invariant says that every wrong guess still held against an address, and every request between its reservation and its answer, is charged to an attempt of
its own in the ceiling, no two to one: a wrong guess to one that is at most two durations older, the owner's request to one no older than itself, another request to one at
most a duration older than itself, since the owner's may have taken its own.  A release of the newest attempt hands the request or guess it was charged with the attempt that the owner's request
had, and reindexes the rest.  What expires is charged with nothing, because a guess leaves `failures` two durations before the window is over; eviction never drops a
ceiling.  So the guesses are no more than the attempts, and those no more than the limit.

The type invariants of all eight modules are theorems; no run repeats them.  Those of `Ledger` and `TransactionSync` (`TypesHold` in each) hold on PostgreSQL too:
that of `Ledger` says with it that no row id is used that was not handed out, however the transactions cross (the invariant also bounds the ids that each has
written and not committed), and assumes that the accounts that a legacy version may have deleted are no more than the rows (`Cardinality(Legacy) <= MaxRows`);
that of `TransactionSync` needs the number of open transactions in its invariant, because each may still commit, and at least one transaction id.

Only model-checked: liveness (`EveryRequestEnds`, `Converges`, `HeldIsLetGo`), which needs ENABLED.

## 6 Where code and comments disagree

Three runs check something that a comment or a document says of the program, and that the code does not do.

- `credentials_resend`: `ResendEmailChangeCode` (`internal/user/change_email.go:184`) reads the pending change and then re-reads the
  users row, whose generation it fences on.  A reset that commits between the two reads deletes the pending change, and the resend writes it
  back under the new generation.  The comment at 196–199 says the fence is on the generation "read together with the password the caller verified".
- `sync_transfers`: when a transfer is deleted between the page's reading of the accounts list and the server's reading of the rows, the
  bucket of one account is downloaded without it while the other's is kept with it, regrouped from the list
  (`revisionTracking.ts:294`).  `internal/transaction/read.go:131-133` says the order of reads costs "a redundant download later, never a stale cache".
- `imports_backfill`: `ApplyRule` (`internal/imports/ruleapply.go:96`) reads a transaction, and finds it not edited, before the database transaction in which it writes the
  whole row back.  An amount or account the user changes in between is reverted, on SQLite too.  The comment at 256–257 says "only the fields the rule sets change".

The modules show more of the kind, which no run repeats:

- A revision one ahead is taken for the page's own write (`revisionTracking.ts:202`), but the answer's revisions are read after the
  transaction; when a sync has already landed the own write, the step is another device's.  `TransactionSync` reaches it with both kinds of writers in one mix.
- `UpdateAccount` (`internal/account/update.go:56`) does not look at `is_deleted`, and an edit with a balance takes a deleted account
  off zero; a design document (2026-08-16, line 142) says "a deleted account is not editable afterwards".  `unpinned` of `Ledger` excepts it.
- An accepted administrator of a budget can grant it to its owner, against "The owner is not a grantee" (`internal/budget/accesssvc.go:279`): the owner's
  decline, or a disconnection, then removes the records of the owner's own accounts.
- An edit or an archiving of a budget saves the row as it was loaded before the transaction (`internal/budget/crud.go:98`): one that is overtaken by a deletion revives the budget.
- A disconnection goes through the lists of budgets each of the two sees, and so removes one of them from a third user's budget that both take part in
  (`internal/server/glue_connection.go:68-70` speaks of what is shared between the two).
- A change of a budget's members finds the user participating before its transaction (`internal/budget/accounts.go:148`, `internal/budget/crud.go:35`), which looks only at the members. One that
  is overtaken by a revocation, a refusal or a disconnection adds the account back to a budget its owner has left, against "their balances and spending must stop counting in a
  budget they left" (`internal/budget/accesssvc.go:184-185`).  `CountedAccountsBelong` excepts that step and no other.
- A link is looked up before the transaction that writes the share (`internal/account/access.go:65`, `internal/budget/accesssvc.go:39`): a share overtaken by a disconnection stays, without a connection.
- The callback's refresh of a known identity (`internal/oauth/callback.go:181`) takes no users-row lock; `internal/oauth/ports.go:14-19` says "every identity write"
  does, and lists the others.  It writes the row it read back whole: when an auto-link has repointed the provider's slot to another subject
  meanwhile, the old subject returns.  `RedeemedOnlyWhileLinked` speaks of the provider's slot for that reason: the subject that a redemption found may be
  another one when it commits.
- With passwords switched off (`ECONUMO_PASSWORD_LOGIN=false`) the operator's change of a password removes the identities of other addresses and so can leave no
  way in at all (`internal/oauth/identities.go:113`); `LastWayInStays` excepts it.
- `mirrorEmailDrift` (`internal/oauth/callback.go:317`) counts the identities of the account before it writes the address, and the write asks only for the generation and a
  missing password, so an identity linked in between is not counted.
- Unlinking a card deletes the inbox events of its queued rows, but not that of a second wording of the same payment, so a redelivery of that wording is swallowed, although a plan
  (2026-09-02, line 2161) says "so a re-fired tap is treated as new".  On PostgreSQL, two conversions of one queued row at once (`internal/imports/queue.go:113`) both find it queued; and two
  deliveries at once that spell a card's name differently pass a unique key that compares exactly (`pgsql/20260901000000.sql:117`).

## 7 What is not shown

- **PostgreSQL, for Sharing, the queue of Postings, TransactionSync and Ledger.**  Their passing runs are on SQLite; section 5 says which of
  the theorems hold on both.  With `Engine = "postgresql"` the modules reach, at
  READ COMMITTED, states the code does not guard against: two edits of one row that both read its old account; a transaction created on an
  account that is deleted at the same time; an edit of an account that saves it live over its deletion.  They are among
  the hazards, at their lines.
- **More than one account's credentials.**  Operations on two users' rows meet only in unique keys.  Registration is left out.
- **The email verification gate** of `internal/user`; redirect URIs, PKCE and metadata of the authorization
  server, which decide only whether a request goes on.
- **Of the page**: the full reload, the copy in IndexedDB, accounts that appear and disappear, patches by merges and by recurring templates.
- **Of the budgets**: envelopes, categories, folders, the order of elements, limits of other rows than savings, comments; creating, cloning and resetting;
  the monthly read model, which is SQL and arithmetic over rows.
- **Of the imports**: what a rule matches, run rows and their recovery after a crash, currencies, the bank's protocol.  **Of the recurring templates**: calendar arithmetic.
- **Of the external sign-in**: the provider's protocol (tokens, nonces, keys) and the client's flow secret, which decide only whether a request goes on;
  two accounts that want one identity or one address, which unique keys decide; addresses that the user changes between the steps; SQLite, on which fewer of
  these orders exist.
- **Of the limiter**: a restart, which forgets every counter by design; two clients who know the password, see the bounds.
- **Of the ledger**: who may write, folders, the opening balance, the classification of rows, bulk reclassification, the order of rows in
  a day, amounts as decimals (SQLite sums floating-point numbers and rounds the residue).
- Everything section 1 marks as not modelled: by lines most of the repository, as generated queries for two engines, API documentation, read models, owner-scoped lists
  whose handlers are one transaction on their own rows, views and translations.  There is no interleaving in it beyond that of the requests the modules have.
