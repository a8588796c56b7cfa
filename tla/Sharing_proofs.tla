---------------------------- MODULE Sharing_proofs ----------------------------
(***************************************************************************)
(* Proofs about Sharing: for any users, accounts, budgets, codes and       *)
(* settings, with or without an overtaken request.  The three parts of the *)
(* database have an invariant each; a disconnection changes all of them.   *)
(***************************************************************************)
EXTENDS Sharing, TLAPS

\* A code that can still be redeemed was generated, is of one user, and was
\* not redeemed before.
CodesAreFresh ==
    /\ \A u \in User : invites[u] # None => invites[u] \in issued /\ redeemed[invites[u]] = {}
    /\ \A u, v \in User : invites[u] # None /\ invites[u] = invites[v] => u = v
    /\ \A c \in Code \ issued : redeemed[c] = {}

PeopleInv ==
    /\ links \subseteq PairsOf(User)
    /\ invites \in [User -> Code \cup {None}]
    /\ issued \subseteq Code
    /\ redeemed \in [Code -> SUBSET User]
    /\ CodesAreFresh
    /\ OneUserPerCode

AccountsInv ==
    /\ shares \in [Account -> [User -> Row \cup {None}]]
    /\ placed \subseteq Account \X User
    /\ gone \subseteq Account
    /\ PlacedOnlyWhereShared

\* A savings row stands for each account flagged, and for no other.
RowsFollowFlags ==
    \A b \in Budget, a \in Account : rows[b][a] # "none" <=> members[b][a] = "savings"

BudgetsInv ==
    /\ access \in [Budget -> [User -> Row \cup {None}]]
    /\ members \in [Budget -> [Account -> Membership]]
    /\ rows \in [Budget -> [Account -> SavingsRow]]
    /\ status \in [Budget -> {"live", "archived", "deleted"}]
    /\ RowsFollowFlags

RequestInv ==
    /\ setting \in Settings
    /\ open \in Asks \cup {None}

IInv == RequestInv /\ PeopleInv /\ AccountsInv /\ BudgetsInv

------------------------------------------------------------------------------
(* What a request carries *)

AskShape(o) ==
    /\ o.by \in User
    /\ o.do \in {"share", "grant", "accept", "decline", "archive", "unarchive", "delete",
                 "revoke", "member", "update", "plan"}
    /\ o.do = "share" => o.on \in Account
    /\ o.do # "share" => o.on \in Budget
    /\ o.do \in {"share", "grant"} => o.to \in User /\ o.role \in Role
    /\ o.do = "revoke" => o.to \in User
    /\ o.do \in {"member", "update", "plan"} => o.account \in Account
    /\ o.do \in {"member", "update"} => o.want \in Want /\ o.confirmed \in BOOLEAN
    /\ o.do = "plan" => o.want \in {"empty", "planned"}

LEMMA SettingFacts ==
    ASSUME setting \in Settings
    PROVE  /\ setting.overlap \in BOOLEAN /\ setting.plans \in BOOLEAN
           /\ setting.people \subseteq User
           /\ setting.on \subseteq Account \cup Budget
           /\ setting.roles \subseteq Role /\ setting.codes \subseteq Code
BY SettingsAssumption

LEMMA AskFacts ==
    ASSUME setting \in Settings, NEW o \in Asks
    PROVE  AskShape(o)
<1> DEFINE Who == setting.people
           Shared == setting.on \cap Account
           Planned == setting.on \cap Budget
           Wants == IF setting.plans THEN Want ELSE {"out", "any"}
           Confirms == IF setting.plans THEN BOOLEAN ELSE {TRUE}
           Plans == IF setting.plans THEN {"empty", "planned"} ELSE {}
<1>1. /\ Who \subseteq User /\ Shared \subseteq Account /\ Planned \subseteq Budget
      /\ setting.roles \subseteq Role /\ Wants \subseteq Want /\ Confirms \subseteq BOOLEAN
      /\ Plans \subseteq {"empty", "planned"}
    BY SettingFacts DEF Want
<1>2. \/ o \in [do : {"share"}, by : Who, on : Shared, to : Who, role : setting.roles]
      \/ o \in [do : {"grant"}, by : Who, on : Planned, to : Who, role : setting.roles]
      \/ o \in [do : {"accept", "decline", "archive", "unarchive", "delete"}, by : Who, on : Planned]
      \/ o \in [do : {"revoke"}, by : Who, on : Planned, to : Who]
      \/ o \in [do : {"member", "update"}, by : Who, on : Planned, account : Account,
                want : Wants, confirmed : Confirms]
      \/ o \in [do : {"plan"}, by : Who, on : Planned, account : Account, want : Plans]
    BY Zenon DEF Asks
<1> HIDE DEF Who, Shared, Planned, Wants, Confirms, Plans
<1>3. CASE o \in [do : {"share"}, by : Who, on : Shared, to : Who, role : setting.roles]
    BY <1>1, <1>3 DEF AskShape
<1>4. CASE o \in [do : {"grant"}, by : Who, on : Planned, to : Who, role : setting.roles]
    BY <1>1, <1>4 DEF AskShape
<1>5. CASE o \in [do : {"accept", "decline", "archive", "unarchive", "delete"},
                  by : Who, on : Planned]
    BY <1>1, <1>5 DEF AskShape
<1>6. CASE o \in [do : {"revoke"}, by : Who, on : Planned, to : Who]
    BY <1>1, <1>6 DEF AskShape
<1>7. CASE o \in [do : {"member", "update"}, by : Who, on : Planned, account : Account,
                  want : Wants, confirmed : Confirms]
    BY <1>1, <1>7 DEF AskShape
<1>8. CASE o \in [do : {"plan"}, by : Who, on : Planned, account : Account, want : Plans]
    BY <1>1, <1>8 DEF AskShape
<1> QED BY <1>2, <1>3, <1>4, <1>5, <1>6, <1>7, <1>8

\* A row that is granted is a row, not accepted if it is new.
LEMMA GrantedFacts ==
    ASSUME NEW row \in Row \cup {None}, NEW role \in Role
    PROVE  /\ Granted(row, role) \in Row
           /\ row = None => ~Granted(row, role).accepted
           /\ row # None => Granted(row, role).accepted = row.accepted
BY NoneAssumption DEF Granted, Pending, Row

LEMMA OwnerIsUser ==
    /\ \A a \in Account : Owner[a] \in User
    /\ \A b \in Budget : Owner[b] \in User
BY OwnerAssumption

------------------------------------------------------------------------------
(* Connections *)

LEMMA PeopleUnchanged ==
    ASSUME PeopleInv, UNCHANGED people
    PROVE  PeopleInv'
BY DEF PeopleInv, people, CodesAreFresh, OneUserPerCode

LEMMA InvitesKeepPeople ==
    ASSUME PeopleInv, NEW u \in User,
           WithdrawInvite(u) \/ (\E c \in Code : GenerateInvite(u, c))
    PROVE  PeopleInv'
<1>1. CASE WithdrawInvite(u)
    BY <1>1 DEF WithdrawInvite, PeopleInv, CodesAreFresh, OneUserPerCode
<1>2. ASSUME NEW c \in Code, GenerateInvite(u, c)
      PROVE  PeopleInv'
    <2>1. /\ c \notin issued /\ issued' = issued \cup {c}
          /\ invites' = [invites EXCEPT ![u] = c]
          /\ links' = links /\ redeemed' = redeemed
        BY <1>2 DEF GenerateInvite
    <2>2. c # None
        BY NoneAssumption
    <2>3. redeemed[c] = {} /\ \A v \in User : invites[v] # c
        BY <2>1, <2>2 DEF PeopleInv, CodesAreFresh
    <2>4. CodesAreFresh'
        BY <2>1, <2>2, <2>3 DEF PeopleInv, CodesAreFresh
    <2> QED BY <2>1, <2>4 DEF PeopleInv, OneUserPerCode
<1> QED BY <1>1, <1>2

LEMMA PairIn ==
    ASSUME NEW u \in User, NEW v \in User, u # v
    PROVE  {u, v} \in PairsOf(User)
<1>1. {u, v} \in SUBSET User
    OBVIOUS
<1> QED BY <1>1 DEF PairsOf

LEMMA RedemptionKeepsPeople ==
    ASSUME PeopleInv, NEW u \in User, NEW v \in User, AcceptInvite(u, v)
    PROVE  PeopleInv'
<1> DEFINE c == invites[v]
<1>1. /\ c # None /\ v # u
      /\ links' = links \cup {{u, v}}
      /\ redeemed' = [redeemed EXCEPT ![c] = redeemed[c] \cup {u}]
      /\ invites' = [invites EXCEPT ![v] = None]
      /\ issued' = issued
    BY DEF AcceptInvite
<1>2. c \in Code /\ c \in issued /\ redeemed[c] = {}
    BY <1>1 DEF PeopleInv, CodesAreFresh
<1>3. \A w \in User : w # v => invites[w] # c
    BY <1>1 DEF PeopleInv, CodesAreFresh
<1> HIDE DEF c
<1>4. redeemed'[c] = {u} /\ \A d \in Code : d # c => redeemed'[d] = redeemed[d]
    BY <1>1, <1>2 DEF PeopleInv
<1>5. CodesAreFresh'
    BY <1>1, <1>2, <1>3, <1>4 DEF PeopleInv, CodesAreFresh
<1>6. OneUserPerCode'
    BY <1>4 DEF PeopleInv, OneUserPerCode
<1>7. links' \subseteq PairsOf(User)
    BY <1>1, PairIn DEF PeopleInv
<1> QED BY <1>1, <1>2, <1>5, <1>6, <1>7 DEF PeopleInv

------------------------------------------------------------------------------
(* Accounts *)

LEMMA AccountsUnchanged ==
    ASSUME AccountsInv, UNCHANGED accounts
    PROVE  AccountsInv'
BY DEF AccountsInv, accounts, PlacedOnlyWhereShared

LEMMA UnwindingKeepsAccounts ==
    ASSUME AccountsInv, NEW pairs, UnwindGrants(pairs), UNCHANGED gone
    PROVE  AccountsInv'
<1>1. shares' \in [Account -> [User -> Row \cup {None}]]
    BY DEF UnwindGrants, AccountsInv
<1>2. \A p \in placed' : p \in placed /\ p \notin pairs
    BY DEF UnwindGrants
<1>3. ASSUME NEW p \in placed'
      PROVE  Owner[p[1]] = p[2] \/ Accepted(shares'[p[1]][p[2]], Role)
    <2>1. p \in placed /\ p[1] \in Account /\ p[2] \in User /\ p = <<p[1], p[2]>>
        BY <1>2 DEF AccountsInv
    <2>2. shares'[p[1]][p[2]] = shares[p[1]][p[2]]
        BY <1>2, <2>1 DEF UnwindGrants
    <2> QED BY <2>1, <2>2 DEF AccountsInv, PlacedOnlyWhereShared
<1> QED BY <1>1, <1>2, <1>3 DEF AccountsInv, PlacedOnlyWhereShared

LEMMA SharingKeepsAccounts ==
    ASSUME AccountsInv, NEW o, o.on \in Account, o.to \in User, o.role \in Role, ShareAccount(o)
    PROVE  AccountsInv'
<1> DEFINE row == shares[o.on][o.to]
<1>1. row \in Row \cup {None}
    BY DEF AccountsInv
<1>2. shares' = [shares EXCEPT ![o.on][o.to] = Granted(row, o.role)]
      /\ placed' = placed /\ gone' = gone
    BY DEF ShareAccount
<1> HIDE DEF row
<1>3. Granted(row, o.role) \in Row
    BY <1>1, GrantedFacts
<1>4. shares' \in [Account -> [User -> Row \cup {None}]]
    BY <1>2, <1>3 DEF AccountsInv
<1>5. ASSUME NEW p \in placed'
      PROVE  Owner[p[1]] = p[2] \/ Accepted(shares'[p[1]][p[2]], Role)
    <2>1. p \in placed /\ p[1] \in Account /\ p[2] \in User
        BY <1>2 DEF AccountsInv
    <2>2. Owner[p[1]] = p[2] \/ Accepted(shares[p[1]][p[2]], Role)
        BY <2>1 DEF AccountsInv, PlacedOnlyWhereShared
    <2>3. CASE p[1] = o.on /\ p[2] = o.to
        <3>1. shares'[p[1]][p[2]] = Granted(row, o.role) /\ shares[p[1]][p[2]] = row
            BY <1>2, <2>1, <2>3 DEF AccountsInv, row
        <3>2. row # None => Granted(row, o.role).accepted = row.accepted
            BY <1>1, GrantedFacts
        <3>3. Granted(row, o.role) # None
            BY <1>3, NoneAssumption DEF Row
        <3> QED BY <2>2, <1>3, <3>1, <3>2, <3>3 DEF Accepted, Row
    <2>4. CASE p[1] # o.on \/ p[2] # o.to
        <3>1. shares'[p[1]][p[2]] = shares[p[1]][p[2]]
            BY <1>2, <2>1, <2>4 DEF AccountsInv
        <3> QED BY <2>2, <3>1
    <2> QED BY <2>3, <2>4
<1> QED BY <1>2, <1>4, <1>5 DEF AccountsInv, PlacedOnlyWhereShared

LEMMA AcceptanceKeepsAccounts ==
    ASSUME AccountsInv, NEW u \in User, NEW a \in Account, AcceptAccess(u, a)
    PROVE  AccountsInv'
<1> DEFINE row == [shares[a][u] EXCEPT !.accepted = TRUE]
<1>1. shares[a][u] \in Row /\ shares' = [shares EXCEPT ![a][u] = row]
      /\ placed' = placed \cup {<<a, u>>} /\ gone' = gone
    BY DEF AcceptAccess, AccountsInv
<1>2. row \in Row /\ row.accepted
    BY <1>1 DEF Row
<1> HIDE DEF row
<1>3. shares' \in [Account -> [User -> Row \cup {None}]]
    BY <1>1, <1>2 DEF AccountsInv
<1>4. Accepted(shares'[a][u], Role)
    <2>1. shares'[a][u] = row
        BY <1>1 DEF AccountsInv
    <2> QED BY <1>2, <2>1, NoneAssumption DEF Accepted, Row
<1>5. ASSUME NEW p \in placed'
      PROVE  Owner[p[1]] = p[2] \/ Accepted(shares'[p[1]][p[2]], Role)
    <2>1. CASE p[1] = a /\ p[2] = u
        BY <1>4, <2>1
    <2>2. CASE p[1] # a \/ p[2] # u
        <3>1. p \in placed /\ p[1] \in Account /\ p[2] \in User
            BY <1>1, <2>2 DEF AccountsInv
        <3>2. shares'[p[1]][p[2]] = shares[p[1]][p[2]]
            BY <1>1, <2>2, <3>1 DEF AccountsInv
        <3> QED BY <3>1, <3>2 DEF AccountsInv, PlacedOnlyWhereShared
    <2> QED BY <2>1, <2>2
<1> QED BY <1>1, <1>3, <1>5 DEF AccountsInv, PlacedOnlyWhereShared

LEMMA MovingKeepsAccounts ==
    ASSUME AccountsInv, NEW u \in User, NEW a \in Account, MoveAccount(u, a)
    PROVE  AccountsInv'
<1>1. /\ Owner[a] = u \/ Accepted(shares[a][u], Role)
      /\ \A p \in placed' : p \in placed \/ p = <<a, u>>
      /\ shares' = shares /\ gone' = gone
    BY DEF MoveAccount
<1> QED BY <1>1 DEF AccountsInv, PlacedOnlyWhereShared

\* What users do to accounts between connecting and disconnecting.
LEMMA AccountingKeepsAccounts ==
    ASSUME AccountsInv, setting \in Settings, Accounting
    PROVE  AccountsInv'
<1>1. PICK u \in setting.people, a \in setting.on \cap Account :
        \/ AcceptAccess(u, a) \/ DeclineAccess(u, a)
        \/ MoveAccount(u, a) \/ DeleteAccount(u, a)
        \/ \E v \in setting.people : RevokeAccess(u, a, v)
    BY DEF Accounting
<1>2. u \in User /\ a \in Account
    BY SettingFacts
<1>3. DeclineAccess(u, a) => AccountsInv'
    BY UnwindingKeepsAccounts DEF DeclineAccess
<1>4. CASE DeleteAccount(u, a)
    <2>1. CASE Owner[a] = u
        BY <1>2, <1>4, <2>1 DEF DeleteAccount, AccountsInv, PlacedOnlyWhereShared
    <2>2. CASE Owner[a] # u
        BY <1>3, <1>4, <2>2 DEF DeleteAccount
    <2> QED BY <2>1, <2>2
<1>5. ASSUME NEW v, RevokeAccess(u, a, v)
      PROVE  AccountsInv'
    BY <1>5, UnwindingKeepsAccounts DEF RevokeAccess
<1> QED BY <1>1, <1>2, <1>3, <1>4, <1>5, AcceptanceKeepsAccounts, MovingKeepsAccounts

------------------------------------------------------------------------------
(* Budgets *)

\* No account is left in a budget its owner leaves or does not enter.
NoneStrays == \A b \in Budget, a \in Account : Stray(b, a)' => Stray(b, a)

\* An account flagged by the step gets an empty row.
EmptyWhenFlagged(b, a) ==
    members[b][a] # "savings" /\ members'[b][a] = "savings" => rows'[b][a] = "empty"

FlaggedEmpty == \A b \in Budget, a \in Account : EmptyWhenFlagged(b, a)

\* What a step does to the rows of budgets.
BudgetsKept == BudgetsInv' /\ NoneStrays /\ FlaggedEmpty

LEMMA BudgetsUnchanged ==
    ASSUME BudgetsInv, UNCHANGED budgets
    PROVE  BudgetsKept
BY DEF BudgetsKept, BudgetsInv, RowsFollowFlags, NoneStrays, Stray, FlaggedEmpty,
       EmptyWhenFlagged, budgets

LEMMA RemovalKeepsBudgets ==
    ASSUME BudgetsInv, NEW pairs, RemoveMembers(pairs),
           status' \in [Budget -> {"live", "archived", "deleted"}]
    PROVE  BudgetsKept
<1>1. /\ access' = [b \in Budget |-> [u \in User |->
                       IF <<b, u>> \in pairs THEN None ELSE access[b][u]]]
      /\ members' = [b \in Budget |-> [a \in Account |->
                       IF <<b, Owner[a]>> \in pairs THEN "out" ELSE members[b][a]]]
      /\ rows' = [b \in Budget |-> [a \in Account |->
                    IF <<b, Owner[a]>> \in pairs /\ members[b][a] # "out"
                    THEN "none" ELSE rows[b][a]]]
    BY DEF RemoveMembers, AccessWithout, MembersWithout
<1>2. /\ access' \in [Budget -> [User -> Row \cup {None}]]
      /\ members' \in [Budget -> [Account -> Membership]]
      /\ rows' \in [Budget -> [Account -> SavingsRow]]
    BY <1>1 DEF BudgetsInv, Membership, SavingsRow
<1>3. RowsFollowFlags'
    BY <1>1 DEF BudgetsInv, RowsFollowFlags
<1>4. FlaggedEmpty
    BY <1>1 DEF FlaggedEmpty, EmptyWhenFlagged
<1>5. ASSUME NEW b \in Budget, NEW a \in Account, Stray(b, a)'
      PROVE  Stray(b, a)
    <2>1. Owner[a] \in User
        BY OwnerIsUser
    <2>2. <<b, Owner[a]>> \notin pairs /\ members'[b][a] = members[b][a]
        BY <1>1, <1>5 DEF Stray
    <2>3. access'[b][Owner[a]] = access[b][Owner[a]]
        BY <1>1, <2>1, <2>2
    <2> QED BY <1>5, <2>2, <2>3 DEF Stray
<1> QED BY <1>2, <1>3, <1>4, <1>5 DEF BudgetsKept, BudgetsInv, NoneStrays

LEMMA DeletionKeepsBudgets ==
    ASSUME BudgetsInv, NEW o, o.on \in Budget, DeleteBudget(o)
    PROVE  BudgetsKept
<1>1. /\ access' = [b \in Budget |-> [u \in User |->
                       IF <<b, u>> \in {o.on} \X User THEN None ELSE access[b][u]]]
      /\ members' = [b \in Budget |-> [a \in Account |->
                       IF <<b, Owner[a]>> \in {o.on} \X User THEN "out" ELSE members[b][a]]]
      /\ rows' = [rows EXCEPT ![o.on] = [a \in Account |-> "none"]]
      /\ status' = [status EXCEPT ![o.on] = "deleted"]
    BY DEF DeleteBudget, AccessWithout, MembersWithout
<1>2. /\ \A b \in Budget, u \in User :
            access'[b][u] = IF b = o.on THEN None ELSE access[b][u]
      /\ \A b \in Budget, a \in Account :
            members'[b][a] = IF b = o.on THEN "out" ELSE members[b][a]
      /\ \A b \in Budget, a \in Account :
            rows'[b][a] = IF b = o.on THEN "none" ELSE rows[b][a]
    BY <1>1, OwnerIsUser DEF BudgetsInv
<1>3. /\ access' \in [Budget -> [User -> Row \cup {None}]]
      /\ members' \in [Budget -> [Account -> Membership]]
      /\ rows' \in [Budget -> [Account -> SavingsRow]]
      /\ status' \in [Budget -> {"live", "archived", "deleted"}]
    BY <1>1 DEF BudgetsInv, Membership, SavingsRow
<1>4. RowsFollowFlags'
    BY <1>2 DEF BudgetsInv, RowsFollowFlags
<1>5. FlaggedEmpty
    BY <1>2 DEF FlaggedEmpty, EmptyWhenFlagged
<1>6. NoneStrays
    BY <1>2, OwnerIsUser DEF NoneStrays, Stray
<1> QED BY <1>3, <1>4, <1>5, <1>6 DEF BudgetsKept, BudgetsInv

LEMMA GrantKeepsBudgets ==
    ASSUME BudgetsInv, NEW o, o.on \in Budget, o.to \in User, o.role \in Role, GrantBudget(o)
    PROVE  BudgetsKept
<1> DEFINE row == access[o.on][o.to]
<1>1. row \in Row \cup {None}
    BY DEF BudgetsInv
<1>2. access' = [access EXCEPT ![o.on][o.to] = Granted(row, o.role)]
      /\ members' = members /\ rows' = rows /\ status' = status
    BY DEF GrantBudget
<1> HIDE DEF row
<1>3. /\ Granted(row, o.role) \in Row
      /\ row # None => Granted(row, o.role).accepted = row.accepted
    BY <1>1, GrantedFacts
<1>4. BudgetsInv'
    BY <1>2, <1>3 DEF BudgetsInv, RowsFollowFlags
<1>5. ASSUME NEW b \in Budget, NEW u \in User, Accepted(access[b][u], Role)
      PROVE  Accepted(access'[b][u], Role)
    <2>1. CASE b = o.on /\ u = o.to
        <3>1. access'[b][u] = Granted(row, o.role) /\ access[b][u] = row
            BY <1>2, <2>1 DEF BudgetsInv, row
        <3> QED BY <1>3, <1>5, <3>1, NoneAssumption DEF Accepted, Row
    <2>2. CASE b # o.on \/ u # o.to
        <3>1. access'[b][u] = access[b][u]
            BY <1>2, <2>2 DEF BudgetsInv
        <3> QED BY <1>5, <3>1
    <2> QED BY <2>1, <2>2
<1>6. NoneStrays
    BY <1>2, <1>5, OwnerIsUser DEF NoneStrays, Stray
<1>7. FlaggedEmpty
    BY <1>2 DEF FlaggedEmpty, EmptyWhenFlagged
<1> QED BY <1>4, <1>6, <1>7 DEF BudgetsKept

LEMMA SeedingFacts ==
    ASSUME BudgetsInv, NEW u \in User, NEW b \in Budget
    PROVE  /\ SeedMemberAccounts(u, b) \in [Budget -> [Account -> Membership]]
           /\ \A c \in Budget, a \in Account :
                \/ SeedMemberAccounts(u, b)[c][a] = members[c][a]
                \/ /\ c = b /\ Owner[a] = u
                   /\ members[c][a] = "out" /\ SeedMemberAccounts(u, b)[c][a] = "in"
<1> DEFINE Seeded == [a \in Account |->
        IF a \in OwnedBy(u) \ gone /\ members[b][a] = "out" THEN "in" ELSE members[b][a]]
<1>1. SeedMemberAccounts(u, b) = [members EXCEPT ![b] = Seeded]
    BY DEF SeedMemberAccounts
<1>2. Seeded \in [Account -> Membership]
    BY DEF BudgetsInv, Membership
<1>3. \A a \in Account : \/ Seeded[a] = members[b][a]
                         \/ Owner[a] = u /\ members[b][a] = "out" /\ Seeded[a] = "in"
    BY DEF OwnedBy
<1> HIDE DEF Seeded
<1> QED BY <1>1, <1>2, <1>3 DEF BudgetsInv

LEMMA AcceptanceKeepsBudgets ==
    ASSUME BudgetsInv, NEW o, o.on \in Budget, o.by \in User, AcceptBudget(o)
    PROVE  BudgetsKept
<1> DEFINE row == [access[o.on][o.by] EXCEPT !.accepted = TRUE]
           seeded == SeedMemberAccounts(o.by, o.on)
<1>1. /\ access[o.on][o.by] \in Row
      /\ access' = [access EXCEPT ![o.on][o.by] = row]
      /\ members' = members \/ members' = seeded
      /\ rows' = rows /\ status' = status
    BY DEF AcceptBudget, BudgetsInv
<1>2. row \in Row /\ row.accepted
    BY <1>1 DEF Row
<1>3. /\ seeded \in [Budget -> [Account -> Membership]]
      /\ \A c \in Budget, a \in Account :
            \/ seeded[c][a] = members[c][a]
            \/ /\ c = o.on /\ Owner[a] = o.by
               /\ members[c][a] = "out" /\ seeded[c][a] = "in"
    BY SeedingFacts
<1> HIDE DEF row, seeded
<1>4. \A c \in Budget, a \in Account :
        \/ members'[c][a] = members[c][a]
        \/ /\ c = o.on /\ Owner[a] = o.by
           /\ members[c][a] = "out" /\ members'[c][a] = "in"
    BY <1>1, <1>3
<1>5. BudgetsInv'
    <2>1. RowsFollowFlags'
        BY <1>1, <1>4 DEF BudgetsInv, RowsFollowFlags
    <2> QED BY <1>1, <1>2, <1>3, <2>1 DEF BudgetsInv
<1>6. /\ access'[o.on][o.by] = row
      /\ \A b \in Budget, u \in User : b # o.on \/ u # o.by => access'[b][u] = access[b][u]
    BY <1>1 DEF BudgetsInv
<1>7. Accepted(access'[o.on][o.by], Role)
    BY <1>2, <1>6, NoneAssumption DEF Accepted, Row
<1>8. ASSUME NEW b \in Budget, NEW a \in Account, Stray(b, a)'
      PROVE  Stray(b, a)
    <2>1. Owner[a] \in User
        BY OwnerIsUser
    <2>2. b # o.on \/ Owner[a] # o.by
        BY <1>7, <1>8 DEF Stray
    <2>3. members'[b][a] = members[b][a]
        BY <1>4, <2>2
    <2> QED BY <1>6, <1>8, <2>1, <2>2, <2>3 DEF Stray
<1>9. FlaggedEmpty
    BY <1>4 DEF FlaggedEmpty, EmptyWhenFlagged
<1> QED BY <1>5, <1>8, <1>9 DEF BudgetsKept, NoneStrays

\* A sync leaves the rows of the accounts flagged and no others.
LEMMA SyncFacts ==
    ASSUME BudgetsInv, NEW flagged, NEW b \in Budget
    PROVE  /\ SyncElements(flagged, b) \in [Budget -> [Account -> SavingsRow]]
           /\ \A a \in Account :
                SyncElements(flagged, b)[b][a] = IF flagged[b][a] # "savings" THEN "none"
                    ELSE IF rows[b][a] = "none" THEN "empty" ELSE rows[b][a]
           /\ \A c \in Budget \ {b} : SyncElements(flagged, b)[c] = rows[c]
<1> DEFINE Row_(a) == IF flagged[b][a] # "savings" THEN "none"
                      ELSE IF rows[b][a] = "none" THEN "empty" ELSE rows[b][a]
           Synced == [a \in Account |-> Row_(a)]
<1>1. SyncElements(flagged, b) = [rows EXCEPT ![b] = Synced]
    BY DEF SyncElements
<1>2. Synced \in [Account -> SavingsRow]
    BY DEF BudgetsInv, SavingsRow
<1>3. \A a \in Account : Synced[a] = Row_(a)
    OBVIOUS
<1> HIDE DEF Synced
<1> QED BY <1>1, <1>2, <1>3 DEF BudgetsInv

\* A change of members moves one account, and its row with its flag.
LEMMA ChangeFacts ==
    ASSUME BudgetsInv, NEW o, o.on \in Budget, o.account \in Account, o.want \in Want,
           ChangeMember(o)
    PROVE  /\ members' \in [Budget -> [Account -> Membership]]
           /\ rows' \in [Budget -> [Account -> SavingsRow]]
           /\ RowsFollowFlags' /\ FlaggedEmpty
           /\ \A b \in Budget, a \in Account :
                b # o.on \/ a # o.account => members'[b][a] = members[b][a]
<1> DEFINE was == members[o.on][o.account]
           is == Becomes(was, o.want)
           changed == IF is = was THEN members ELSE [members EXCEPT ![o.on][o.account] = is]
           touched == is # was /\ "savings" \in {was, is}
<1>1. /\ members' = changed
      /\ rows' = IF touched THEN SyncElements(changed, o.on) ELSE rows
    BY DEF ChangeMember, ChangeFrom
<1>2. was \in Membership
    BY DEF BudgetsInv
<1>3. is \in Membership
    BY <1>2 DEF Becomes, Membership, Want
<1> HIDE DEF is
<1>4. /\ changed \in [Budget -> [Account -> Membership]]
      /\ changed[o.on][o.account] = is
      /\ \A b \in Budget, a \in Account :
            b # o.on \/ a # o.account => changed[b][a] = members[b][a]
    BY <1>3 DEF BudgetsInv
<1> HIDE DEF changed
<1>5. CASE touched
    <2>1. /\ rows' \in [Budget -> [Account -> SavingsRow]]
          /\ \A a \in Account :
                rows'[o.on][a] = IF changed[o.on][a] # "savings" THEN "none"
                    ELSE IF rows[o.on][a] = "none" THEN "empty" ELSE rows[o.on][a]
          /\ \A c \in Budget \ {o.on} : rows'[c] = rows[c]
        BY <1>1, <1>5, SyncFacts
    <2>2. ASSUME NEW b \in Budget, NEW a \in Account
          PROVE  /\ rows'[b][a] # "none" <=> members'[b][a] = "savings"
                 /\ EmptyWhenFlagged(b, a)
        <3>1. rows[b][a] # "none" <=> members[b][a] = "savings"
            BY DEF BudgetsInv, RowsFollowFlags
        <3>2. CASE b = o.on
            BY <1>1, <2>1, <3>1, <3>2 DEF EmptyWhenFlagged
        <3>3. CASE b # o.on
            BY <1>1, <1>4, <2>1, <3>1, <3>3 DEF EmptyWhenFlagged
        <3> QED BY <3>2, <3>3
    <2> QED BY <1>1, <1>4, <2>1, <2>2 DEF RowsFollowFlags, FlaggedEmpty
<1>6. CASE ~touched
    <2>1. rows' = rows
        BY <1>1, <1>6
    <2>2. ASSUME NEW b \in Budget, NEW a \in Account
          PROVE  members'[b][a] = "savings" <=> members[b][a] = "savings"
        <3>1. CASE b = o.on /\ a = o.account
            BY <1>1, <1>4, <1>6, <3>1
        <3>2. CASE b # o.on \/ a # o.account
            BY <1>1, <1>4, <3>2
        <3> QED BY <3>1, <3>2
    <2>3. RowsFollowFlags'
        BY <2>1, <2>2 DEF BudgetsInv, RowsFollowFlags
    <2>4. FlaggedEmpty
        BY <2>2 DEF FlaggedEmpty, EmptyWhenFlagged
    <2> QED BY <1>1, <1>4, <2>1, <2>3, <2>4 DEF BudgetsInv
<1> QED BY <1>5, <1>6

\* Planning needs the row and keeps it.
LEMMA PlanningKeepsBudgets ==
    ASSUME BudgetsInv, NEW o, o.on \in Budget, o.account \in Account,
           o.want \in {"empty", "planned"}, SetLimit(o)
    PROVE  BudgetsKept
<1> DEFINE found == IF rows[o.on][o.account] = "none"
                    THEN SyncElements(members, o.on) ELSE rows
<1>1. /\ found[o.on][o.account] # "none"
      /\ rows' = [found EXCEPT ![o.on][o.account] = o.want]
      /\ UNCHANGED <<access, members, status>>
    BY DEF SetLimit
<1>2. found = rows
    <2>1. members[o.on][o.account] = "savings" => rows[o.on][o.account] # "none"
        BY DEF BudgetsInv, RowsFollowFlags
    <2>2. rows[o.on][o.account] # "none"
        BY <1>1, <2>1, SyncFacts
    <2> QED BY <2>2
<1> HIDE DEF found
<1>3. /\ rows' \in [Budget -> [Account -> SavingsRow]]
      /\ \A b \in Budget, a \in Account : rows'[b][a] # "none" <=> rows[b][a] # "none"
    <2>1. o.want \in SavingsRow /\ o.want # "none"
        BY DEF SavingsRow
    <2>2. rows' = [rows EXCEPT ![o.on][o.account] = o.want] /\ rows[o.on][o.account] # "none"
        BY <1>1, <1>2
    <2> QED BY <2>1, <2>2 DEF BudgetsInv
<1>4. BudgetsInv'
    BY <1>1, <1>3 DEF BudgetsInv, RowsFollowFlags
<1> QED BY <1>1, <1>4 DEF BudgetsKept, NoneStrays, Stray, FlaggedEmpty, EmptyWhenFlagged

\* A change of members by a request, whether o was overtaken or not.
ByChange(o, b, a) == o.do \in {"member", "update"} /\ o.on = b /\ o.account = a

\* The transaction of a request, whatever came before it.  A change of members
\* right after its checks leaves no stray account either.
LEMMA WriteKeeps ==
    ASSUME BudgetsInv, AccountsInv, PeopleInv, NEW o, AskShape(o), Write(o)
    PROVE  /\ BudgetsInv' /\ AccountsInv' /\ PeopleInv' /\ FlaggedEmpty
           /\ \A b \in Budget, a \in Account :
                Stray(b, a)' => Stray(b, a) \/ ByChange(o, b, a)
           /\ MayAsk(o) => NoneStrays
<1> DEFINE Kept == PeopleInv' /\ AccountsInv' /\ BudgetsKept
<1>0. Kept => /\ BudgetsInv' /\ AccountsInv' /\ PeopleInv' /\ FlaggedEmpty
              /\ \A b \in Budget, a \in Account :
                    Stray(b, a)' => Stray(b, a) \/ ByChange(o, b, a)
              /\ NoneStrays
    BY Zenon DEF BudgetsKept, NoneStrays
<1>1. CASE o.do = "share" /\ ShareAccount(o)
    <2>1. UNCHANGED people /\ UNCHANGED budgets
        BY <1>1 DEF ShareAccount
    <2>2. Kept
        BY <1>1, <2>1, SharingKeepsAccounts, PeopleUnchanged, BudgetsUnchanged DEF AskShape
    <2> QED BY <1>0, <2>2
<1>2. CASE o.do = "grant" /\ GrantBudget(o)
    <2>1. UNCHANGED people /\ UNCHANGED accounts
        BY <1>2 DEF GrantBudget
    <2>2. Kept
        BY <1>2, <2>1, GrantKeepsBudgets, PeopleUnchanged, AccountsUnchanged DEF AskShape
    <2> QED BY <1>0, <2>2
<1>3. CASE o.do = "accept" /\ AcceptBudget(o)
    <2>1. UNCHANGED people /\ UNCHANGED accounts
        BY <1>3 DEF AcceptBudget
    <2>2. Kept
        BY <1>3, <2>1, AcceptanceKeepsBudgets, PeopleUnchanged, AccountsUnchanged DEF AskShape
    <2> QED BY <1>0, <2>2
<1>4. CASE (o.do = "decline" /\ DeclineBudget(o)) \/ (o.do = "revoke" /\ RevokeBudget(o))
    <2>1. /\ UNCHANGED people /\ UNCHANGED accounts /\ UNCHANGED status
          /\ \E pairs : RemoveMembers(pairs)
        BY <1>4 DEF DeclineBudget, RevokeBudget
    <2>2. Kept
        BY <2>1, RemovalKeepsBudgets, PeopleUnchanged, AccountsUnchanged DEF BudgetsInv
    <2> QED BY <1>0, <2>2
<1>5. CASE o.do = "delete" /\ DeleteBudget(o)
    <2>1. UNCHANGED people /\ UNCHANGED accounts
        BY <1>5 DEF DeleteBudget
    <2>2. Kept
        BY <1>5, <2>1, DeletionKeepsBudgets, PeopleUnchanged, AccountsUnchanged DEF AskShape
    <2> QED BY <1>0, <2>2
<1>6. CASE (o.do = "member" /\ WriteMemberChange(o)) \/ (o.do = "update" /\ UpdateBudget(o))
    <2>1. /\ UNCHANGED people /\ UNCHANGED accounts /\ UNCHANGED access /\ ChangeMember(o)
          /\ o.do \in {"member", "update"}
        BY <1>6 DEF WriteMemberChange, UpdateBudget
    <2>2. status' \in [Budget -> {"live", "archived", "deleted"}]
        BY <1>6 DEF WriteMemberChange, UpdateBudget, BudgetsInv
    <2>3. o.on \in Budget /\ o.account \in Account /\ o.want \in Want
        BY <2>1 DEF AskShape
    <2>4. /\ members' \in [Budget -> [Account -> Membership]]
          /\ rows' \in [Budget -> [Account -> SavingsRow]]
          /\ RowsFollowFlags' /\ FlaggedEmpty
          /\ \A b \in Budget, a \in Account :
                b # o.on \/ a # o.account => members'[b][a] = members[b][a]
        BY <2>1, <2>3, ChangeFacts
    <2>5. BudgetsInv'
        BY <2>1, <2>2, <2>4 DEF BudgetsInv
    <2>6. \A b \in Budget, a \in Account :
            Stray(b, a)' => Stray(b, a) \/ (b = o.on /\ a = o.account)
        BY <2>1, <2>4 DEF Stray
    <2>7. MayAsk(o) => ~Stray(o.on, o.account)'
        <3>1. MayAsk(o) => MayChange(o)
            BY <2>1 DEF MayAsk, MayShare, MayGrant, MayAccept, MayDecline, MayRevoke, MayPlan,
                        MayManage
        <3>2. MayChange(o) => \/ Owner[o.account] = Owner[o.on]
                              \/ Accepted(access[o.on][Owner[o.account]], Role)
            BY DEF MayChange, CanUpdate, Accepted, Role
        <3> QED BY <2>1, <3>1, <3>2 DEF Stray
    <2>8. MayAsk(o) => NoneStrays
        BY <2>6, <2>7, Zenon DEF NoneStrays
    <2>9. \A b \in Budget, a \in Account : Stray(b, a)' => Stray(b, a) \/ ByChange(o, b, a)
        BY <2>1, <2>6, Zenon DEF ByChange
    <2> QED BY <2>1, <2>4, <2>5, <2>8, <2>9, PeopleUnchanged, AccountsUnchanged
<1>7. CASE o.do = "plan" /\ SetLimit(o)
    <2>1. UNCHANGED people /\ UNCHANGED accounts
        BY <1>7 DEF SetLimit
    <2>2. Kept
        BY <1>7, <2>1, PlanningKeepsBudgets, PeopleUnchanged, AccountsUnchanged DEF AskShape
    <2> QED BY <1>0, <2>2
<1>8. CASE o.do \in {"archive", "unarchive"} /\ SetArchived(o)
    <2>1. /\ UNCHANGED people /\ UNCHANGED accounts
          /\ UNCHANGED access /\ UNCHANGED members /\ UNCHANGED rows
        BY <1>8 DEF SetArchived
    <2>2. BudgetsInv'
        BY <1>8, <2>1 DEF SetArchived, BudgetsInv, RowsFollowFlags
    <2>3. NoneStrays /\ FlaggedEmpty
        BY <2>1 DEF NoneStrays, Stray, FlaggedEmpty, EmptyWhenFlagged
    <2>4. Kept
        BY <2>1, <2>2, <2>3, PeopleUnchanged, AccountsUnchanged DEF BudgetsKept
    <2> QED BY <1>0, <2>4
<1> QED BY <1>1, <1>2, <1>3, <1>4, <1>5, <1>6, <1>7, <1>8 DEF Write

------------------------------------------------------------------------------
(* Disconnecting *)

LEMMA DisconnectingKeeps ==
    ASSUME PeopleInv, AccountsInv, BudgetsInv, NEW u \in User, NEW v \in User,
           DeleteConnection(u, v)
    PROVE  PeopleInv' /\ AccountsInv' /\ BudgetsKept
<1>1. PeopleInv'
    BY DEF DeleteConnection, PeopleInv, CodesAreFresh, OneUserPerCode
<1>2. AccountsInv'
    BY UnwindingKeepsAccounts DEF DeleteConnection, RevokeAccessBetween
<1>3. \E pairs : RemoveMembers(pairs)
    BY DEF DeleteConnection, RevokeBetween
<1>4. status' \in [Budget -> {"live", "archived", "deleted"}]
    BY DEF DeleteConnection, BudgetsInv
<1> QED BY <1>1, <1>2, <1>3, <1>4, RemovalKeepsBudgets

\* One direction of it: nothing of v is left at what u owns.  A folder of v can
\* hold an account of u only along an accepted share, which is unwound with it.
LEMMA DisconnectingEnds ==
    ASSUME AccountsInv, NEW x \in User, NEW y \in User, DeleteConnection(x, y),
           NEW u \in User, NEW v \in User, {u, v} = {x, y}, u # v
    PROVE  /\ \A a \in OwnedBy(u) : shares'[a][v] = None /\ <<a, v>> \notin placed'
           /\ \A b \in Budget : Owner[b] = u => access'[b][v] = None
<1> DEFINE pairs == {p \in Account \X {x, y} :
                        Owner[p[1]] \in {x, y} \ {p[2]} /\ shares[p[1]][p[2]] # None}
           first == InListOf(x, y, access) \X {y}
           second == InListOf(y, x, AccessWithout(first)) \X {x}
<1>1. /\ shares' = [a \in Account |-> [w \in User |->
                      IF <<a, w>> \in pairs THEN None ELSE shares[a][w]]]
      /\ placed' = placed \ pairs
    BY DEF DeleteConnection, RevokeAccessBetween, UnwindGrants
<1>2. access' = [b \in Budget |-> [w \in User |->
                    IF <<b, w>> \in first \cup second THEN None ELSE access[b][w]]]
    BY DEF DeleteConnection, RevokeBetween, RemoveMembers, AccessWithout
<1>3. (u = x /\ v = y) \/ (u = y /\ v = x)
    OBVIOUS
<1>4. ASSUME NEW a \in OwnedBy(u)
      PROVE  shares'[a][v] = None /\ <<a, v>> \notin placed'
    <2>1. a \in Account /\ Owner[a] = u
        BY DEF OwnedBy
    <2>2. shares[a][v] # None => <<a, v>> \in pairs
        BY <1>3, <2>1
    <2>3. <<a, v>> \in placed => shares[a][v] # None
        BY <2>1 DEF AccountsInv, PlacedOnlyWhereShared, Accepted
    <2> HIDE DEF pairs
    <2> QED BY <1>1, <2>1, <2>2, <2>3
<1>5. ASSUME NEW b \in Budget, Owner[b] = u
      PROVE  access'[b][v] = None
    <2>1. CASE access[b][v] = None
        BY <1>2, <2>1
    <2>2. CASE access[b][v] # None /\ u = x /\ v = y
        <3>1. b \in InListOf(x, y, access)
            BY <1>5, <2>2 DEF InListOf
        <3> QED BY <1>2, <2>2, <3>1
    <2>3. CASE access[b][v] # None /\ u = y /\ v = x
        <3>1. AccessWithout(first)[b][x] = access[b][x]
            BY <2>3 DEF AccessWithout
        <3>2. b \in InListOf(y, x, AccessWithout(first))
            BY <1>5, <2>3, <3>1 DEF InListOf
        <3> QED BY <1>2, <2>3, <3>2
    <2> QED BY <1>3, <2>1, <2>2, <2>3
<1> QED BY <1>4, <1>5

------------------------------------------------------------------------------
(* The step *)

LEMMA InitHolds == Init => IInv
<1> SUFFICES ASSUME Init PROVE IInv
    OBVIOUS
<1>1. PeopleInv
    <2>1. links \subseteq PairsOf(User)
        BY SettingFacts DEF Init, PairsOf
    <2>2. CodesAreFresh /\ OneUserPerCode
        BY DEF Init, CodesAreFresh, OneUserPerCode
    <2> QED BY <2>1, <2>2 DEF Init, PeopleInv
<1>2. AccountsInv
    BY DEF Init, AccountsInv, PlacedOnlyWhereShared
<1>3. BudgetsInv
    BY OwnerIsUser DEF Init, BudgetsInv, Membership, SavingsRow, RowsFollowFlags
<1>4. RequestInv
    BY DEF Init, RequestInv
<1> QED BY <1>1, <1>2, <1>3, <1>4 DEF IInv

LEMMA AsksAreKept ==
    ASSUME UNCHANGED setting
    PROVE  Asks' = Asks
BY DEF Asks

LEMMA ConnectingKeeps ==
    ASSUME IInv, Connecting
    PROVE  PeopleInv' /\ AccountsInv' /\ BudgetsKept
<1> USE DEF IInv
<1>1. PICK u \in setting.people :
        \/ \E c \in setting.codes : GenerateInvite(u, c)
        \/ WithdrawInvite(u)
        \/ \E v \in setting.people : AcceptInvite(u, v) \/ DeleteConnection(u, v)
    BY DEF Connecting
<1>2. setting.people \subseteq User /\ setting.codes \subseteq Code
    BY SettingFacts DEF RequestInv
<1>3. CASE WithdrawInvite(u) \/ \E c \in setting.codes : GenerateInvite(u, c)
    <2>1. UNCHANGED accounts /\ UNCHANGED budgets
        BY <1>3 DEF WithdrawInvite, GenerateInvite
    <2>2. PeopleInv'
        BY <1>2, <1>3, InvitesKeepPeople
    <2> QED BY <2>1, <2>2, AccountsUnchanged, BudgetsUnchanged
<1>4. ASSUME NEW v \in setting.people, AcceptInvite(u, v)
      PROVE  PeopleInv' /\ AccountsInv' /\ BudgetsKept
    <2>1. UNCHANGED accounts /\ UNCHANGED budgets
        BY <1>4 DEF AcceptInvite
    <2> QED BY <1>2, <1>4, <2>1, RedemptionKeepsPeople, AccountsUnchanged, BudgetsUnchanged
<1>5. ASSUME NEW v \in setting.people, DeleteConnection(u, v)
      PROVE  PeopleInv' /\ AccountsInv' /\ BudgetsKept
    BY <1>2, <1>5, DisconnectingKeeps
<1> QED BY <1>1, <1>3, <1>4, <1>5

\* What a step does to the accounts budgets count: see CountedAccountsBelong.
NoneStraysAlone ==
    \A b \in Budget, a \in Account :
        Stray(b, a)' => Stray(b, a) \/ (open # None /\ open' = None /\ ByChange(open, b, a))

StepKept == IInv' /\ NoneStraysAlone /\ FlaggedEmpty

LEMMA StepHolds == IInv /\ [Next]_vars => StepKept
<1> SUFFICES ASSUME IInv, [Next]_vars PROVE StepKept
    OBVIOUS
<1>k. NoneStrays => NoneStraysAlone
    BY Zenon DEF NoneStrays, NoneStraysAlone
<1>0. CASE UNCHANGED vars
    <2>1. UNCHANGED people /\ UNCHANGED accounts /\ UNCHANGED budgets
          /\ UNCHANGED setting /\ UNCHANGED open
        BY <1>0 DEF vars, people, accounts, budgets
    <2>2. Asks' = Asks
        BY <2>1, AsksAreKept
    <2> QED BY <1>k, <2>1, <2>2, PeopleUnchanged, AccountsUnchanged, BudgetsUnchanged
            DEF IInv, RequestInv, BudgetsKept, StepKept
<1>a. CASE Next
    <2>0. UNCHANGED setting /\ Asks' = Asks /\ setting \in Settings
        BY <1>a, AsksAreKept DEF Next, IInv, RequestInv
    <2>1. CASE Connecting /\ UNCHANGED open
        BY <1>k, <2>0, <2>1, ConnectingKeeps DEF IInv, RequestInv, BudgetsKept, StepKept
    <2>2. CASE Accounting /\ UNCHANGED open
        <3>1. UNCHANGED people /\ UNCHANGED budgets
            BY <2>2 DEF Accounting, AcceptAccess, DeclineAccess, MoveAccount, DeleteAccount,
                        RevokeAccess
        <3> QED BY <1>k, <2>0, <2>2, <3>1, AccountingKeepsAccounts, PeopleUnchanged,
                   BudgetsUnchanged DEF IInv, RequestInv, BudgetsKept, StepKept
    <2>3. ASSUME NEW o \in Asks, Serve(o)
          PROVE  StepKept
        <3>1. AskShape(o) /\ MayAsk(o) /\ Write(o) /\ UNCHANGED open
            BY <2>0, <2>3, AskFacts DEF Serve
        <3>2. BudgetsInv' /\ AccountsInv' /\ PeopleInv' /\ FlaggedEmpty /\ NoneStrays
            BY <3>1, WriteKeeps DEF IInv
        <3> QED BY <1>k, <2>0, <3>1, <3>2 DEF IInv, RequestInv, StepKept
    <2>4. ASSUME NEW o \in Asks, Begin(o)
          PROVE  StepKept
        <3>1. UNCHANGED people /\ UNCHANGED accounts /\ UNCHANGED budgets /\ open' = o
            BY <2>4 DEF Begin, stored
        <3> QED BY <1>k, <2>0, <3>1, PeopleUnchanged, AccountsUnchanged, BudgetsUnchanged
                DEF IInv, RequestInv, BudgetsKept, StepKept
    <2>5. CASE Commit
        <3>1. open \in Asks /\ open # None /\ Write(open) /\ open' = None
            BY <2>5 DEF Commit, IInv, RequestInv
        <3>2. /\ BudgetsInv' /\ AccountsInv' /\ PeopleInv' /\ FlaggedEmpty
              /\ \A b \in Budget, a \in Account :
                    Stray(b, a)' => Stray(b, a) \/ ByChange(open, b, a)
            BY <2>0, <3>1, AskFacts, WriteKeeps DEF IInv
        <3>3. NoneStraysAlone
            BY <3>1, <3>2, Zenon DEF NoneStraysAlone
        <3> QED BY <2>0, <3>1, <3>2, <3>3 DEF IInv, RequestInv, StepKept
    <2>6. CASE Fail
        <3>1. UNCHANGED people /\ UNCHANGED accounts /\ UNCHANGED budgets
              /\ open # None /\ open' = None
            BY <2>6 DEF Fail, stored
        <3> QED BY <1>k, <2>0, <3>1, PeopleUnchanged, AccountsUnchanged, BudgetsUnchanged
                DEF IInv, RequestInv, BudgetsKept, StepKept
    <2> QED BY <1>a, <2>1, <2>2, <2>3, <2>4, <2>5, <2>6 DEF Next
<1> QED BY <1>0, <1>a

LEMMA Inductive == Spec => []IInv
<1>1. IInv /\ [Next]_vars => IInv'
    BY StepHolds DEF StepKept
<1> QED BY <1>1, InitHolds, PTL DEF Spec

------------------------------------------------------------------------------
(* What a step may not do *)

OfferedFirst ==
    /\ \A a \in Account, u \in User : NotFromNothing(shares[a][u], shares'[a][u])
    /\ \A b \in Budget, u \in User : NotFromNothing(access[b][u], access'[b][u])

LEMMA UnwindingOffersNothing ==
    ASSUME AccountsInv, NEW pairs, UnwindGrants(pairs)
    PROVE  \A a \in Account, u \in User : NotFromNothing(shares[a][u], shares'[a][u])
BY DEF UnwindGrants, NotFromNothing

LEMMA RemovalOffersNothing ==
    ASSUME BudgetsInv, NEW pairs, access' = AccessWithout(pairs)
    PROVE  \A b \in Budget, u \in User : NotFromNothing(access[b][u], access'[b][u])
BY DEF AccessWithout, NotFromNothing

LEMMA SameRowsOfferNothing ==
    /\ UNCHANGED shares =>
        \A a \in Account, u \in User : NotFromNothing(shares[a][u], shares'[a][u])
    /\ UNCHANGED access =>
        \A b \in Budget, u \in User : NotFromNothing(access[b][u], access'[b][u])
BY DEF NotFromNothing

LEMMA WriteOffersFirst ==
    ASSUME BudgetsInv, AccountsInv, NEW o, AskShape(o), Write(o)
    PROVE  OfferedFirst
<1>1. CASE o.do = "share" /\ ShareAccount(o)
    <2> DEFINE row == shares[o.on][o.to]
    <2>1. /\ o.on \in Account /\ o.to \in User /\ row \in Row \cup {None}
          /\ shares' = [shares EXCEPT ![o.on][o.to] = Granted(row, o.role)]
          /\ access' = access
        BY <1>1 DEF AskShape, AccountsInv, ShareAccount, budgets
    <2>2. row = None => ~Granted(row, o.role).accepted
        BY <1>1, <2>1, GrantedFacts DEF AskShape
    <2> QED BY <2>1, <2>2, SameRowsOfferNothing DEF OfferedFirst, NotFromNothing, AccountsInv
<1>2. CASE o.do = "grant" /\ GrantBudget(o)
    <2> DEFINE row == access[o.on][o.to]
    <2>1. /\ o.on \in Budget /\ o.to \in User /\ row \in Row \cup {None}
          /\ access' = [access EXCEPT ![o.on][o.to] = Granted(row, o.role)]
          /\ shares' = shares
        BY <1>2 DEF AskShape, BudgetsInv, GrantBudget, accounts
    <2>2. row = None => ~Granted(row, o.role).accepted
        BY <1>2, <2>1, GrantedFacts DEF AskShape
    <2> QED BY <2>1, <2>2, SameRowsOfferNothing DEF OfferedFirst, NotFromNothing, BudgetsInv
<1>3. CASE o.do = "accept" /\ AcceptBudget(o)
    <2>1. /\ access[o.on][o.by] # None /\ shares' = shares
          /\ \A b \in Budget, u \in User :
                b # o.on \/ u # o.by => access'[b][u] = access[b][u]
        BY <1>3 DEF AcceptBudget, BudgetsInv, accounts
    <2> QED BY <2>1, SameRowsOfferNothing DEF OfferedFirst, NotFromNothing
<1>4. CASE (o.do = "decline" /\ DeclineBudget(o)) \/ (o.do = "revoke" /\ RevokeBudget(o))
           \/ (o.do = "delete" /\ DeleteBudget(o))
    <2>1. UNCHANGED shares /\ \E pairs : access' = AccessWithout(pairs)
        BY <1>4 DEF DeclineBudget, RevokeBudget, DeleteBudget, RemoveMembers, accounts
    <2> QED BY <2>1, RemovalOffersNothing, SameRowsOfferNothing DEF OfferedFirst
<1>5. CASE \/ o.do = "member" /\ WriteMemberChange(o)
           \/ o.do = "update" /\ UpdateBudget(o)
           \/ o.do = "plan" /\ SetLimit(o)
           \/ o.do \in {"archive", "unarchive"} /\ SetArchived(o)
    <2>1. UNCHANGED shares /\ UNCHANGED access
        BY <1>5 DEF WriteMemberChange, UpdateBudget, SetLimit, SetArchived, accounts
    <2> QED BY <2>1, SameRowsOfferNothing DEF OfferedFirst
<1> QED BY <1>1, <1>2, <1>3, <1>4, <1>5 DEF Write

LEMMA ConnectingOffersFirst ==
    ASSUME IInv, Connecting
    PROVE  OfferedFirst
<1>1. \/ UNCHANGED shares /\ UNCHANGED access
      \/ (\E pairs : UnwindGrants(pairs)) /\ (\E pairs : access' = AccessWithout(pairs))
    BY DEF Connecting, GenerateInvite, WithdrawInvite, AcceptInvite, DeleteConnection,
           RevokeAccessBetween, RevokeBetween, RemoveMembers, accounts, budgets
<1> QED BY <1>1, UnwindingOffersNothing, RemovalOffersNothing, SameRowsOfferNothing
        DEF IInv, OfferedFirst

LEMMA AccountingOffersFirst ==
    ASSUME IInv, Accounting
    PROVE  OfferedFirst
<1>1. PICK u \in setting.people, a \in setting.on \cap Account :
        \/ AcceptAccess(u, a) \/ DeclineAccess(u, a)
        \/ MoveAccount(u, a) \/ DeleteAccount(u, a)
        \/ \E v \in setting.people : RevokeAccess(u, a, v)
    BY DEF Accounting
<1>2. UNCHANGED access
    BY <1>1 DEF AcceptAccess, DeclineAccess, MoveAccount, DeleteAccount, RevokeAccess, budgets
<1>3. CASE AcceptAccess(u, a)
    <2>1. /\ shares[a][u] # None
          /\ \A c \in Account, w \in User : c # a \/ w # u => shares'[c][w] = shares[c][w]
        BY <1>3 DEF AcceptAccess, IInv, AccountsInv
    <2> QED BY <1>2, <2>1, SameRowsOfferNothing DEF OfferedFirst, NotFromNothing
<1>4. CASE MoveAccount(u, a) \/ (DeleteAccount(u, a) /\ Owner[a] = u)
    <2>1. UNCHANGED shares
        BY <1>4 DEF MoveAccount, DeleteAccount
    <2> QED BY <1>2, <2>1, SameRowsOfferNothing DEF OfferedFirst
<1>5. CASE \/ DeclineAccess(u, a) \/ (DeleteAccount(u, a) /\ Owner[a] # u)
           \/ \E v \in setting.people : RevokeAccess(u, a, v)
    <2>1. \E pairs : UnwindGrants(pairs)
        BY <1>5 DEF DeclineAccess, DeleteAccount, RevokeAccess
    <2> QED BY <1>2, <2>1, UnwindingOffersNothing, SameRowsOfferNothing DEF IInv, OfferedFirst
<1> QED BY <1>1, <1>3, <1>4, <1>5

LEMMA StepOffersFirst == IInv /\ [Next]_vars => OfferedFirst
<1> SUFFICES ASSUME IInv, [Next]_vars PROVE OfferedFirst
    OBVIOUS
<1>1. CASE UNCHANGED vars
    BY <1>1, SameRowsOfferNothing DEF vars, OfferedFirst
<1>2. CASE \E o \in Asks : Serve(o) \/ Begin(o)
    <2>1. PICK o \in Asks : Serve(o) \/ Begin(o)
        BY <1>2
    <2>2. CASE Serve(o)
        BY <2>2, AskFacts, WriteOffersFirst DEF Serve, IInv, RequestInv
    <2>3. CASE Begin(o)
        BY <2>3, SameRowsOfferNothing DEF Begin, stored, accounts, budgets, OfferedFirst
    <2> QED BY <2>1, <2>2, <2>3
<1>3. CASE Commit
    BY <1>3, AskFacts, WriteOffersFirst DEF Commit, IInv, RequestInv
<1>4. CASE Fail
    BY <1>4, SameRowsOfferNothing DEF Fail, stored, accounts, budgets, OfferedFirst
<1> QED BY <1>1, <1>2, <1>3, <1>4, ConnectingOffersFirst, AccountingOffersFirst DEF Next

LEMMA StepDisconnects ==
    ASSUME IInv, [Next]_vars, NEW u \in User, NEW v \in User, {u, v} \in links \ links'
    PROVE  /\ \A a \in OwnedBy(u) : shares'[a][v] = None /\ <<a, v>> \notin placed'
           /\ \A b \in Budget : Owner[b] = u => access'[b][v] = None
<1>1. PICK x \in User, y \in User : DeleteConnection(x, y)
    <2>1. links' # links
        OBVIOUS
    <2>2. ~UNCHANGED vars /\ ~UNCHANGED people
        BY <2>1 DEF vars, people
    <2>3. \A o : Write(o) => UNCHANGED people
        BY DEF Write, ShareAccount, GrantBudget, AcceptBudget, DeclineBudget, RevokeBudget,
               WriteMemberChange, UpdateBudget, SetLimit, SetArchived, DeleteBudget
    <2>4. \A o \in Asks : ~Serve(o) /\ ~Begin(o)
        BY <2>2, <2>3 DEF Serve, Begin, stored
    <2>5. ~Commit /\ ~Fail
        BY <2>2, <2>3 DEF Commit, Fail, stored
    <2>6. ~Accounting
        BY <2>2 DEF Accounting, AcceptAccess, DeclineAccess, MoveAccount, DeleteAccount,
                    RevokeAccess
    <2>7. Connecting
        BY <2>2, <2>4, <2>5, <2>6 DEF Next
    <2>8. PICK x \in setting.people :
            \/ \E c \in setting.codes : GenerateInvite(x, c)
            \/ WithdrawInvite(x)
            \/ \E y \in setting.people : AcceptInvite(x, y) \/ DeleteConnection(x, y)
        BY <2>7 DEF Connecting
    <2>9. PICK y \in setting.people : DeleteConnection(x, y)
        BY <2>8 DEF GenerateInvite, WithdrawInvite, AcceptInvite
    <2> QED BY <2>9, SettingFacts DEF IInv, RequestInv
<1>2. {u, v} = {x, y}
    BY <1>1 DEF DeleteConnection
<1>3. u # v
    BY DEF IInv, PeopleInv, PairsOf
<1> QED BY <1>1, <1>2, <1>3, DisconnectingEnds DEF IInv

------------------------------------------------------------------------------
(* The theorems *)

\* Every variable has its type, for any instances and any interleaving.
THEOREM TypesHold == Spec => []TypeOK
<1>1. IInv => TypeOK
    BY DEF IInv, RequestInv, PeopleInv, AccountsInv, BudgetsInv, TypeOK
<1> QED BY <1>1, Inductive, PTL

\* An invitation code connects one user to its owner, however many codes are
\* generated, withdrawn and redeemed by however many users.
THEOREM CodesAreForOneUser == Spec => []OneUserPerCode
<1>1. IInv => OneUserPerCode
    BY DEF IInv, PeopleInv
<1> QED BY <1>1, Inductive, PTL

\* No folder holds an account that its user neither owns nor accepted a share of.
THEOREM FoldersFollowShares == Spec => []PlacedOnlyWhereShared
<1>1. IInv => PlacedOnlyWhereShared
    BY DEF IInv, AccountsInv
<1> QED BY <1>1, Inductive, PTL

\* Leaving a budget takes every account of the participant out of its counts,
\* overtaken or not; only a change of members that the leaving overtook puts an
\* account back, and a budget where none is overtaken never counts a stranger's.
THEOREM BudgetsCountTheirOwn == Spec => CountedAccountsBelong
<1>1. IInv /\ [Next]_vars =>
        [\A b \in Budget, a \in Account : Stray(b, a)' =>
          \/ Stray(b, a)
          \/ /\ open # None /\ open' = None
             /\ open.do \in {"member", "update"} /\ open.on = b /\ open.account = a]_vars
    BY StepHolds DEF StepKept, NoneStraysAlone, ByChange
<1> QED BY <1>1, Inductive, PTL DEF Spec, CountedAccountsBelong

\* Nothing is accepted that was not offered and kept on offer, overtaken or not.
THEOREM SharesAreOfferedFirst == Spec => AcceptedAfterOffer
<1>1. IInv /\ [Next]_vars =>
        [/\ \A a \in Account, u \in User : NotFromNothing(shares[a][u], shares'[a][u])
         /\ \A b \in Budget, u \in User : NotFromNothing(access[b][u], access'[b][u])]_vars
    BY StepOffersFirst DEF OfferedFirst
<1> QED BY <1>1, Inductive, PTL DEF Spec, AcceptedAfterOffer

\* The step that disconnects two users leaves neither anything of the other's, for
\* any number of accounts and budgets and whatever else is shared with whom.
THEOREM DisconnectionIsComplete == Spec => DisconnectEndsSharing
<1>1. IInv /\ [Next]_vars =>
        [\A u, v \in User : {u, v} \in links \ links' =>
          /\ \A a \in OwnedBy(u) : shares'[a][v] = None /\ <<a, v>> \notin placed'
          /\ \A b \in Budget : Owner[b] = u => access'[b][v] = None]_vars
    BY StepDisconnects
<1> QED BY <1>1, Inductive, PTL DEF Spec, DisconnectEndsSharing

\* No savings row outlives its account's flag, so none is found with old plans when
\* the account is flagged again.
THEOREM PlansDoNotReturn == Spec => OldPlansStayGone
<1>1. IInv /\ [Next]_vars =>
        [\A b \in Budget, a \in Account :
          members[b][a] # "savings" /\ members'[b][a] = "savings" => rows'[b][a] = "empty"]_vars
    BY StepHolds DEF StepKept, FlaggedEmpty, EmptyWhenFlagged
<1> QED BY <1>1, Inductive, PTL DEF Spec, OldPlansStayGone
==============================================================================
