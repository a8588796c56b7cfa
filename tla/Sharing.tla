------------------------------- MODULE Sharing -------------------------------
(***************************************************************************)
(* Users connect by an invitation code (package internal/connection), and  *)
(* connected users share accounts (internal/account/access.go) and budgets *)
(* (internal/budget: accesssvc.go, accounts.go, savings_flag.go, crud.go,  *)
(* lifecycle.go).  A share is offered, then accepted or declined; an       *)
(* accepted account is placed in the guest's folders, an accepted budget   *)
(* counts the participant's own accounts, some of them as savings with a   *)
(* row of planned amounts.  Disconnecting, revoking and leaving undo it.   *)
(*                                                                         *)
(* The database is SQLite: one connection, transactions one at a time.     *)
(* What a handler reads before its transaction it reads in an earlier      *)
(* step, as the request open.  Of a budget's elements only the savings     *)
(* rows of its accounts are kept; the active-budget option, the order of   *)
(* accounts and the contents of transactions are left out.                 *)
(***************************************************************************)
CONSTANTS
    User, Account, Budget,
    Owner,          \* the user_id of each account and budget
    Code,           \* invitation codes, each generated at most once
    None,           \* no row, no code, no request
    Settings        \* the instances explored, one of them in each behaviour

Role == {"guest", "user", "admin"}
Want == {"out", "any", "in", "savings"}

ASSUME OwnerAssumption ==
    Account \cap Budget = {} /\ Owner \in [Account \cup Budget -> User]
ASSUME NoneAssumption ==
    None \notin Code \cup [accepted : BOOLEAN, role : Role]
ASSUME SettingsAssumption ==
    Settings \subseteq [overlap : BOOLEAN, people : SUBSET User,
                        on : SUBSET (Account \cup Budget), roles : SUBSET Role,
                        codes : SUBSET Code, plans : BOOLEAN]

VARIABLES
    setting,        \* who acts on what, and whether a request can be overtaken
    links,          \* users_connections, as sets of two users
    invites,        \* the unexpired code of each user
    issued,         \* codes generated so far
    redeemed,       \* by whom each code was redeemed (not a column)
    shares,         \* accounts_access
    placed,         \* <<account, user>>: in one of the user's folders
    gone,           \* the accounts with is_deleted
    access,         \* budgets_access
    members,        \* budgets_accounts, with is_savings
    rows,           \* the savings rows of budgets_elements, with what is planned in them
    status,         \* of each budgets row
    open            \* the request that passed its checks and has written nothing

people == <<links, invites, issued, redeemed>>
accounts == <<shares, placed, gone>>
budgets == <<access, members, rows, status>>
stored == <<people, accounts, budgets>>
vars == <<setting, links, invites, issued, redeemed, shares, placed, gone,
          access, members, rows, status, open>>

Row == [accepted : BOOLEAN, role : Role]
Pending(role) == [accepted |-> FALSE, role |-> role]
Granted(row, role) == IF row = None THEN Pending(role) ELSE [row EXCEPT !.role = role]

\* A link has no direction.
PairsOf(S) == {p \in SUBSET S : \E u, v \in S : u # v /\ p = {u, v}}

\* What an account is in a budget, and what its savings row carries: no amounts
\* or comments, or some.
Membership == {"out", "in", "savings"}
SavingsRow == {"none", "empty", "planned"}

Accepted(row, roles) == row # None /\ row.accepted /\ row.role \in roles
OwnedBy(u) == {a \in Account : Owner[a] = u}

------------------------------------------------------------------------------
(* Connections *)

GenerateInvite(u, c) ==
    /\ c \notin issued
    /\ issued' = issued \cup {c}
    /\ invites' = [invites EXCEPT ![u] = c]
    /\ UNCHANGED <<links, redeemed, accounts, budgets>>

\* The owner withdraws the code, or its time runs out: no row answers to it.
WithdrawInvite(u) ==
    /\ invites[u] # None
    /\ invites' = [invites EXCEPT ![u] = None]
    /\ UNCHANGED <<links, issued, redeemed, accounts, budgets>>

\* Nothing clears the code.
AcceptInviteAgain(u, v) ==
    /\ invites[v] # None /\ v # u
    /\ links' = links \cup {{u, v}}
    /\ redeemed' = [redeemed EXCEPT ![invites[v]] = @ \cup {u}]
    /\ UNCHANGED <<invites, issued, accounts, budgets>>

AcceptInvite(u, v) ==
    /\ invites[v] # None /\ v # u
    /\ links' = links \cup {{u, v}}
    /\ redeemed' = [redeemed EXCEPT ![invites[v]] = @ \cup {u}]
    /\ invites' = [invites EXCEPT ![v] = None]
    /\ UNCHANGED <<issued, accounts, budgets>>

------------------------------------------------------------------------------
(* Accounts *)

RequireOwnerAdmin(u, a) == Owner[a] = u \/ Accepted(shares[a][u], {"admin"})

\* The account stays in the folders it was placed in.
UnwindRows(pairs) ==
    /\ shares' = [a \in Account |-> [u \in User |->
                    IF <<a, u>> \in pairs THEN None ELSE shares[a][u]]]
    /\ UNCHANGED placed

\* The rows of these <<account, user>> go, and with them the user's view.
UnwindGrants(pairs) ==
    /\ shares' = [a \in Account |-> [u \in User |->
                    IF <<a, u>> \in pairs THEN None ELSE shares[a][u]]]
    /\ placed' = placed \ pairs

ShareAccount(o) ==
    /\ RequireOwnerAdmin(o.by, o.on) /\ o.on \notin gone
    /\ shares' = [shares EXCEPT ![o.on][o.to] = Granted(@, o.role)]
    /\ UNCHANGED <<people, placed, gone, budgets>>

AcceptAccess(u, a) ==
    /\ shares[a][u] # None /\ a \notin gone
    /\ ~shares[a][u].accepted
    /\ shares' = [shares EXCEPT ![a][u].accepted = TRUE]
    /\ placed' = placed \cup {<<a, u>>}
    /\ UNCHANGED <<people, gone, budgets>>

DeclineAccess(u, a) ==
    /\ shares[a][u] # None
    /\ UnwindGrants({<<a, u>>})
    /\ UNCHANGED <<people, gone, budgets>>

RevokeAccess(u, a, v) ==
    /\ RequireOwnerAdmin(u, a)
    /\ shares[a][v] # None
    /\ UnwindGrants({<<a, v>>})
    /\ UNCHANGED <<people, gone, budgets>>

MoveAccount(u, a) ==
    /\ a \notin gone
    /\ Owner[a] = u \/ Accepted(shares[a][u], Role)
    /\ placed' \in {placed \cup {<<a, u>>}, placed \ {<<a, u>>}}
    /\ UNCHANGED <<people, shares, gone, budgets>>

\* The owner's deletion; anyone else only leaves.
DeleteAccount(u, a) ==
    IF Owner[a] = u
    THEN gone' = gone \cup {a} /\ UNCHANGED <<people, shares, placed, budgets>>
    ELSE DeclineAccess(u, a)

RevokeAccessBetween(u, v) ==
    UnwindGrants({p \in Account \X {u, v} :
                    Owner[p[1]] \in {u, v} \ {p[2]} /\ shares[p[1]][p[2]] # None})

------------------------------------------------------------------------------
(* Budgets *)

CanShare(u, b) == Owner[b] = u \/ Accepted(access[b][u], {"admin"})
CanUpdate(u, b) == Owner[b] = u \/ Accepted(access[b][u], {"user", "admin"})

\* access and members without the participants leaving: <<budget, user>> pairs.
AccessWithout(pairs) ==
    [b \in Budget |-> [u \in User |-> IF <<b, u>> \in pairs THEN None ELSE access[b][u]]]
MembersWithout(pairs) ==
    [b \in Budget |-> [a \in Account |->
        IF <<b, Owner[a]>> \in pairs THEN "out" ELSE members[b][a]]]

\* The rows to delete are looked for among the members that are left.
RemoveMembersFirst(pairs) ==
    /\ access' = AccessWithout(pairs)
    /\ members' = MembersWithout(pairs)
    /\ rows' = rows

\* The savings rows of the accounts that leave go before the accounts.
RemoveMembers(pairs) ==
    /\ access' = AccessWithout(pairs)
    /\ members' = MembersWithout(pairs)
    /\ rows' = [b \in Budget |-> [a \in Account |->
                   IF <<b, Owner[a]>> \in pairs /\ members[b][a] # "out"
                   THEN "none" ELSE rows[b][a]]]

\* Every sync of a budget's elements leaves a savings row for each account
\* flagged in it, with what the row had, and no other savings row.
SyncElements(flagged, b) ==
    [rows EXCEPT ![b] = [a \in Account |->
        IF flagged[b][a] # "savings" THEN "none"
        ELSE IF @[a] = "none" THEN "empty" ELSE @[a]]]

\* A new row needs its budget.
GrantBudget(o) ==
    /\ status[o.on] # "deleted"
    /\ access' = [access EXCEPT ![o.on][o.to] = Granted(@, o.role)]
    /\ UNCHANGED <<people, accounts, members, rows, status>>

SeedMemberAccounts(u, b) ==
    [members EXCEPT ![b] = [a \in Account |->
        IF a \in OwnedBy(u) \ gone /\ @[a] = "out" THEN "in" ELSE @[a]]]

\* The row found before the transaction is written back, whoever deleted it.
AcceptBudgetAsRead(o) ==
    /\ status[o.on] # "deleted"
    /\ access' = [access EXCEPT ![o.on][o.by] = [accepted |-> TRUE, role |-> "user"]]
    /\ members' = SeedMemberAccounts(o.by, o.on)
    /\ UNCHANGED <<people, accounts, rows, status>>

AcceptBudget(o) ==
    /\ access[o.on][o.by] # None
    /\ access' = [access EXCEPT ![o.on][o.by].accepted = TRUE]
    /\ members' = IF access[o.on][o.by].role = "guest" THEN members
                  ELSE SeedMemberAccounts(o.by, o.on)
    /\ UNCHANGED <<people, accounts, rows, status>>

RevokeBudget(o) ==
    RemoveMembers({<<o.on, o.to>>}) /\ UNCHANGED <<people, accounts, status>>

\* The participant goes, the accounts stay.
DeclineRow(o) ==
    /\ access' = AccessWithout({<<o.on, o.by>>})
    /\ UNCHANGED <<people, accounts, members, rows, status>>

DeclineBudget(o) ==
    RemoveMembers({<<o.on, o.by>>}) /\ UNCHANGED <<people, accounts, status>>

\* "any" keeps the flag of a member.
Becomes(was, want) ==
    CASE want = "any" -> IF was = "out" THEN "in" ELSE was
      [] OTHER -> want

\* The change from was to what is asked for: a new member is live, a row with
\* plans goes only when that was confirmed, and the rows are synced when the
\* change touches a savings member.
ChangeFrom(was, o) ==
    LET is == Becomes(was, o.want)
        changed == IF is = was THEN members ELSE [members EXCEPT ![o.on][o.account] = is]
        touched == is # was /\ "savings" \in {was, is}
    IN  /\ was = "out" /\ is # "out" => o.account \notin gone
        /\ touched /\ was = "savings" /\ rows[o.on][o.account] = "planned" => o.confirmed
        /\ members' = changed
        /\ rows' = IF touched THEN SyncElements(changed, o.on) ELSE rows

\* The members of the budget as it was loaded, where the account was not flagged yet.
ChangeMemberAsLoaded(o) ==
    \E was \in {members[o.on][o.account], "in"} : ChangeFrom(was, o)

\* The members are read in the transaction.
ChangeMember(o) == ChangeFrom(members[o.on][o.account], o)

\* AddAccount and RemoveAccount.
WriteMemberChange(o) ==
    /\ status[o.on] # "deleted"
    /\ ChangeMember(o)
    /\ UNCHANGED <<people, accounts, access, status>>

\* The whole row is saved as it was loaded, not archived.
UpdateBudget(o) ==
    /\ ChangeMember(o)
    /\ status' = [status EXCEPT ![o.on] = "live"]
    /\ UNCHANGED <<people, accounts, access>>

\* An amount or a comment in a savings row, or the last one taken out.  A row
\* that is missing is looked for once more after a sync.
SetLimit(o) ==
    LET found == IF rows[o.on][o.account] = "none" THEN SyncElements(members, o.on) ELSE rows
    IN  /\ found[o.on][o.account] # "none"
        /\ rows' = [found EXCEPT ![o.on][o.account] = o.want]
        /\ UNCHANGED <<people, accounts, access, members, status>>

SetArchived(o) ==
    /\ status' = [status EXCEPT ![o.on] = IF o.do = "archive" THEN "archived" ELSE "live"]
    /\ UNCHANGED <<people, accounts, access, members, rows>>

\* Everything of the budget goes with it.
DeleteBudget(o) ==
    /\ access' = AccessWithout({o.on} \X User)
    /\ members' = MembersWithout({o.on} \X User)
    /\ rows' = [rows EXCEPT ![o.on] = [a \in Account |-> "none"]]
    /\ status' = [status EXCEPT ![o.on] = "deleted"]
    /\ UNCHANGED <<people, accounts>>

\* The budgets in the list of u, owned or offered, that v has a row of.
InListOf(u, v, grants) ==
    {b \in Budget : (Owner[b] = u \/ grants[b][u] # None) /\ grants[b][v] # None}

\* Only the list of the one who disconnects.
RevokeOneDirection(u, v) == RemoveMembers(InListOf(u, v, access) \X {v})

\* Both directions, the second in what the first left.
RevokeBetween(u, v) ==
    LET first == InListOf(u, v, access) \X {v}
        second == InListOf(v, u, AccessWithout(first)) \X {u}
    IN  RemoveMembers(first \cup second)

DeleteConnection(u, v) ==
    /\ u # v
    /\ RevokeAccessBetween(u, v)
    /\ RevokeBetween(u, v)
    /\ links' = links \ {{u, v}}
    /\ UNCHANGED <<invites, issued, redeemed, gone, status>>

------------------------------------------------------------------------------
(* Requests *)

Asks ==
    LET Who == setting.people
        Shared == setting.on \cap Account
        Planned == setting.on \cap Budget
    IN  [do : {"share"}, by : Who, on : Shared, to : Who, role : setting.roles]
        \cup [do : {"grant"}, by : Who, on : Planned, to : Who, role : setting.roles]
        \cup [do : {"accept", "decline", "archive", "unarchive", "delete"}, by : Who, on : Planned]
        \cup [do : {"revoke"}, by : Who, on : Planned, to : Who]
        \cup [do : {"member", "update"}, by : Who, on : Planned, account : Account,
              want : IF setting.plans THEN Want ELSE {"out", "any"},
              confirmed : IF setting.plans THEN BOOLEAN ELSE {TRUE}]
        \cup [do : {"plan"}, by : Who, on : Planned, account : Account,
              want : IF setting.plans THEN {"empty", "planned"} ELSE {}]

\* What each handler checks before it opens its transaction.
MayShare(o) == o.do = "share" /\ {o.by, o.to} \in links
MayGrant(o) ==
    o.do = "grant" /\ CanShare(o.by, o.on) /\ status[o.on] = "live" /\ {o.by, o.to} \in links
MayAccept(o) ==
    o.do = "accept" /\ access[o.on][o.by] # None /\ ~access[o.on][o.by].accepted
MayDecline(o) == o.do = "decline" /\ access[o.on][o.by] # None
MayRevoke(o) ==
    o.do = "revoke" /\ CanShare(o.by, o.on) /\ o.to # Owner[o.on] /\ access[o.on][o.to] # None
MayChange(o) ==
    /\ o.do \in {"member", "update"} /\ Owner[o.account] = o.by
    /\ CanUpdate(o.by, o.on) /\ status[o.on] = "live"
MayPlan(o) == o.do = "plan" /\ CanUpdate(o.by, o.on) /\ status[o.on] = "live"
MayManage(o) ==
    o.do \in {"archive", "unarchive", "delete"} /\ CanShare(o.by, o.on) /\ status[o.on] # "deleted"

MayAsk(o) ==
    \/ MayShare(o) \/ MayGrant(o) \/ MayAccept(o) \/ MayDecline(o) \/ MayRevoke(o)
    \/ MayChange(o) \/ MayPlan(o) \/ MayManage(o)

\* The transaction.
Write(o) ==
    \/ o.do = "share" /\ ShareAccount(o)
    \/ o.do = "grant" /\ GrantBudget(o)
    \/ o.do = "accept" /\ AcceptBudget(o)
    \/ o.do = "decline" /\ DeclineBudget(o)
    \/ o.do = "revoke" /\ RevokeBudget(o)
    \/ o.do = "member" /\ WriteMemberChange(o)
    \/ o.do = "update" /\ UpdateBudget(o)
    \/ o.do = "plan" /\ SetLimit(o)
    \/ o.do \in {"archive", "unarchive"} /\ SetArchived(o)
    \/ o.do = "delete" /\ DeleteBudget(o)

\* Nothing comes between the checks and the transaction.
Serve(o) == MayAsk(o) /\ Write(o) /\ UNCHANGED open

\* Others come in between.
Begin(o) ==
    /\ setting.overlap /\ open = None
    /\ MayAsk(o)
    /\ open' = o
    /\ UNCHANGED stored

Commit == open # None /\ Write(open) /\ open' = None

\* The transaction refuses, or the client goes away.
Fail == open # None /\ open' = None /\ UNCHANGED stored

Connecting ==
    \E u \in setting.people :
        \/ \E c \in setting.codes : GenerateInvite(u, c)
        \/ WithdrawInvite(u)
        \/ \E v \in setting.people : AcceptInvite(u, v) \/ DeleteConnection(u, v)

Accounting ==
    \E u \in setting.people, a \in setting.on \cap Account :
        \/ AcceptAccess(u, a) \/ DeclineAccess(u, a)
        \/ MoveAccount(u, a) \/ DeleteAccount(u, a)
        \/ \E v \in setting.people : RevokeAccess(u, a, v)

\* Everything is as its owner made it, and any of the users are connected.
Init ==
    /\ setting \in Settings
    /\ links \in SUBSET PairsOf(setting.people)
    /\ invites = [u \in User |-> None]
    /\ issued = {}
    /\ redeemed = [c \in Code |-> {}]
    /\ shares = [a \in Account |-> [u \in User |-> None]]
    /\ placed = {p \in Account \X User : Owner[p[1]] = p[2]}
    /\ gone = {}
    /\ access = [b \in Budget |-> [u \in User |-> None]]
    /\ members = [b \in Budget |-> [a \in Account |-> IF Owner[a] = Owner[b] THEN "in" ELSE "out"]]
    /\ rows = [b \in Budget |-> [a \in Account |-> "none"]]
    /\ status = [b \in Budget |-> "live"]
    /\ open = None

Next ==
    /\ UNCHANGED setting
    /\ \/ Connecting /\ UNCHANGED open
       \/ Accounting /\ UNCHANGED open
       \/ \E o \in Asks : Serve(o) \/ Begin(o)
       \/ Commit
       \/ Fail

Spec == Init /\ [][Next]_vars

------------------------------------------------------------------------------
(* Properties *)

TypeOK ==
    /\ setting \in Settings
    /\ links \subseteq PairsOf(User)
    /\ invites \in [User -> Code \cup {None}]
    /\ issued \subseteq Code
    /\ redeemed \in [Code -> SUBSET User]
    /\ shares \in [Account -> [User -> Row \cup {None}]]
    /\ placed \subseteq Account \X User
    /\ gone \subseteq Account
    /\ access \in [Budget -> [User -> Row \cup {None}]]
    /\ members \in [Budget -> [Account -> Membership]]
    /\ rows \in [Budget -> [Account -> SavingsRow]]
    /\ status \in [Budget -> {"live", "archived", "deleted"}]
    /\ open \in Asks \cup {None}

\* A code connects one user to its owner, however often it is presented
\* (connection/invite_usecase.go:79-94).
OneUserPerCode == \A c \in Code : \A u, v \in redeemed[c] : u = v

\* An account is in the folders of its owner and of those who accepted a share
\* of it only: whichever way a share ends, declined, revoked, the guest's
\* deletion or the end of the connection, the folders are cleared with it
\* (account/access.go:243-268).
PlacedOnlyWhereShared ==
    \A p \in placed : Owner[p[1]] = p[2] \/ Accepted(shares[p[1]][p[2]], Role)

\* Nobody holds an accepted share who was not offered one first and kept the
\* offer until accepting: an answer to an offer that was revoked meanwhile
\* brings nothing back (account/access.go:105-151, budget/accesssvc.go:85-93).
NotFromNothing(row, next) == row = None /\ next # None => ~next.accepted

AcceptedAfterOffer ==
    [][/\ \A a \in Account, u \in User : NotFromNothing(shares[a][u], shares'[a][u])
       /\ \A b \in Budget, u \in User : NotFromNothing(access[b][u], access'[b][u])]_vars

\* The step that disconnects two users leaves neither a share of an account or
\* a budget of the other's, offered or accepted, nor one of the other's accounts
\* in a folder, whoever else they share with (connection/invite_usecase.go:107-136).
\* A share whose checks came before that step may still be written after it.
DisconnectEndsSharing ==
    [][\A u, v \in User : {u, v} \in links \ links' =>
          /\ \A a \in OwnedBy(u) : shares'[a][v] = None /\ <<a, v>> \notin placed'
          /\ \A b \in Budget : Owner[b] = u => access'[b][v] = None]_vars

\* An account that a budget counts though its owner takes no part in it.
Stray(b, a) ==
    /\ members[b][a] # "out"
    /\ Owner[a] # Owner[b] /\ ~Accepted(access[b][Owner[a]], Role)

\* A participant who leaves takes every account along, whichever way the leaving
\* went and whatever overtook it (budget/accesssvc.go:184-188): nothing but a
\* change of members that was itself overtaken by the leaving puts one back.
CountedAccountsBelong ==
    [][\A b \in Budget, a \in Account : Stray(b, a)' =>
          \/ Stray(b, a)
          \/ /\ open # None /\ open' = None
             /\ open.do \in {"member", "update"} /\ open.on = b /\ open.account = a]_vars

\* An account that is flagged starts with an empty savings row: what was planned
\* for it in an earlier membership does not come back, whether the account left
\* by a change of members, with its owner or with a connection, and whatever was
\* planned after the client looked (budget/accesssvc.go:206-211,
\* budget/savings_flag.go:148-153).
OldPlansStayGone ==
    [][\A b \in Budget, a \in Account :
          members[b][a] # "savings" /\ members'[b][a] = "savings" => rows'[b][a] = "empty"]_vars
==============================================================================
