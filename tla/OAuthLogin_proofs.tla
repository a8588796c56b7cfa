-------------------------- MODULE OAuthLogin_proofs --------------------------
(***************************************************************************)
(* Proofs about OAuthLogin, for any numbers of requests, providers,        *)
(* subjects, addresses, identities and codes, any deployments and mixes of *)
(* operations, and any bounds.                                             *)
(***************************************************************************)
EXTENDS OAuthLogin, FiniteSetTheorems, TLAPS

------------------------------------------------------------------------------
(* Types *)

LEMMA NothingIsSeen == Nothing \in Seen
BY DEF Nothing, Seen

\* The write set that changes nothing is one.
LEMMA SameIsAWriteSet ==
    ASSUME TypeOK
    PROVE  Same \in WriteSet
BY DEF TypeOK, Same, WriteSet

\* Without an account there is a row all the same, and the account of an
\* external sign-in is one.
LEMMA ProvisionedIsARow ==
    ASSUME NEW e \in Email
    PROVE  /\ NoUser(e) \in UserRow
           /\ [NoUser(e) EXCEPT !.exists = TRUE, !.active = TRUE] \in UserRow
BY DEF NoUser, UserRow

\* Nor does a reset, a deactivation or a password at the start spoil a row.
LEMMA BumpedIsARow ==
    ASSUME NEW u \in UserRow
    PROVE  /\ [u EXCEPT !.password = TRUE, !.generation = @ + 1] \in UserRow
           /\ [u EXCEPT !.active = FALSE, !.generation = @ + 1] \in UserRow
<1>1. u.generation + 1 \in Nat
      BY DEF UserRow
<1> QED  BY <1>1 DEF UserRow

LEMMA OwnedIsARow ==
    ASSUME NEW e \in Email, NEW password \in BOOLEAN
    PROVE  [NoUser(e) EXCEPT !.exists = TRUE, !.active = TRUE, !.password = password] \in UserRow
<1>1. 0 \in Nat
      OBVIOUS
<1> QED  BY <1>1 DEF NoUser, UserRow

\* What a request learns joins what it has seen.
LEMMA MoreIsSeen ==
    ASSUME NEW s \in Seen
    PROVE  /\ \A g \in Nat : [s EXCEPT !.as = {g}] \in Seen
           /\ \A i \in SUBSET IdentityRow : [s EXCEPT !.identity = i] \in Seen
           /\ \A u \in UserRow : [s EXCEPT !.row = {u}] \in Seen
           /\ \A h \in HandoffRow : [s EXCEPT !.handoff = {h}] \in Seen
           /\ \A c \in [provider : Provider, subject : Subject, email : Email] :
                 [s EXCEPT !.says = {c}] \in Seen
BY DEF Seen

Places == {"idle", "authenticated", "callback", "found", "refresh", "waiting", "mirror",
           "replace", "unknown", "check", "mint", "lock", "body", "commit"}
Operations == {"none", "login", "link", "StartLink", "ExchangeHandoff", "CompleteLink",
               "AutoLink", "Provision", "UnlinkIdentity", "Reclaim"}

LEMMA StartKeepsTypes ==
    ASSUME TypeOK, NEW p \in Proc, NEW o \in Operations, NEW to \in Places, NEW s \in Seen,
           Start(p, o, to, s), user' \in UserRow, identities' \in SUBSET IdentityRow,
           states' \in SUBSET StateRow, handoffs' \in SUBSET HandoffRow, sessions' \in SUBSET Nat
    PROVE  TypeOK'
BY DEF TypeOK, Start, Places, Operations

LEMMA MoveKeepsTypes ==
    ASSUME TypeOK, NEW p \in Proc, NEW to \in Places, NEW s \in Seen,
           Move(p, to, s), user' \in UserRow, identities' \in SUBSET IdentityRow,
           states' \in SUBSET StateRow, handoffs' \in SUBSET HandoffRow, sessions' \in SUBSET Nat
    PROVE  TypeOK'
BY DEF TypeOK, Move, Places

LEMMA FinishKeepsTypes ==
    ASSUME TypeOK, NEW p \in Proc,
           Finish(p), user' \in UserRow, identities' \in SUBSET IdentityRow,
           states' \in SUBSET StateRow, handoffs' \in SUBSET HandoffRow, sessions' \in SUBSET Nat
    PROVE  TypeOK'
BY NothingIsSeen DEF TypeOK, Finish

LEMMA BufferKeepsTypes ==
    ASSUME TypeOK, NEW p \in Proc, NEW w \in WriteSet, Buffer(p, w)
    PROVE  TypeOK'
BY DEF TypeOK, Buffer, stored

LEMMA StoredKeepsTypes ==
    ASSUME TypeOK, UNCHANGED stored
    PROVE  /\ user' \in UserRow /\ identities' \in SUBSET IdentityRow
           /\ states' \in SUBSET StateRow /\ handoffs' \in SUBSET HandoffRow
           /\ sessions' \in SUBSET Nat
BY DEF TypeOK, stored

\* Arrivals.
LEMMA ArriveKeepsTypes ==
    ASSUME TypeOK, NEW p \in Proc, Arrive(p)
    PROVE  TypeOK'
<1>0. /\ Nothing \in Seen
      /\ setting \in Settings /\ setting.who \subseteq Provider \X Subject
      /\ user \in UserRow /\ identities \in SUBSET IdentityRow /\ states \in SUBSET StateRow
      /\ handoffs \in SUBSET HandoffRow /\ sessions \in SUBSET Nat
      BY NothingIsSeen, SettingsAssumption DEF TypeOK
<1>1. CASE Callback(p)
  <2>1. PICK st \in states, who \in setting.who, e \in Email :
           /\ states' = states \ {st}
           /\ Start(p, st.intent, "callback",
                [Nothing EXCEPT !.says = {[provider |-> who[1], subject |-> who[2], email |-> e]}])
           /\ UNCHANGED <<user, identities, handoffs, sessions>>
        BY <1>1 DEF Callback
  <2>2. st.intent \in Operations
        BY <1>0 DEF StateRow, Operations
  <2>3. [provider |-> who[1], subject |-> who[2], email |-> e]
            \in [provider : Provider, subject : Subject, email : Email]
        BY <1>0
  <2>4. [Nothing EXCEPT !.says = {[provider |-> who[1], subject |-> who[2], email |-> e]}] \in Seen
        BY <1>0, <2>3, MoreIsSeen
  <2> QED  BY <1>0, <2>1, <2>2, <2>4, StartKeepsTypes DEF Places
<1>2. CASE ExchangeHandoff(p)
  <2>1. PICK h \in handoffs :
           Start(p, "ExchangeHandoff", "lock", [Nothing EXCEPT !.handoff = {h}])
        BY <1>2 DEF ExchangeHandoff
  <2>2. [Nothing EXCEPT !.handoff = {h}] \in Seen
        BY <1>0, MoreIsSeen
  <2> QED  BY <1>2, <2>1, <2>2, StartKeepsTypes, StoredKeepsTypes DEF Places, Operations, ExchangeHandoff
<1>3. ASSUME NEW o \in Operations, NEW s \in Seen, Authenticate(p, o, s), UNCHANGED stored
      PROVE  TypeOK'
  <2>1. PICK g \in sessions : Start(p, o, "authenticated", [s EXCEPT !.as = {g}])
        BY <1>3 DEF Authenticate
  <2>2. [s EXCEPT !.as = {g}] \in Seen
        BY <1>0, <1>3, MoreIsSeen
  <2> QED  BY <1>3, <2>1, <2>2, StartKeepsTypes, StoredKeepsTypes DEF Places
<1>4. CASE AskLink(p) \/ AskUnlink(p)
      BY <1>0, <1>3, <1>4 DEF AskLink, AskUnlink, Operations
<1>5. CASE AskCompletion(p)
  <2>1. PICK h \in handoffs : Authenticate(p, "CompleteLink", [Nothing EXCEPT !.handoff = {h}])
        BY <1>5 DEF AskCompletion
  <2>2. [Nothing EXCEPT !.handoff = {h}] \in Seen
        BY <1>0, MoreIsSeen
  <2> QED  BY <1>3, <1>5, <2>1, <2>2 DEF AskCompletion, Operations
<1>6. CASE AskReclaim(p)
      BY <1>0, <1>6, StartKeepsTypes, StoredKeepsTypes DEF AskReclaim, Places, Operations
<1> QED  BY <1>1, <1>2, <1>4, <1>5, <1>6 DEF Arrive

\* The steps of a request outside its transaction.
LEMMA ProceedKeepsTypes ==
    ASSUME TypeOK, NEW p \in Proc, Proceed(p)
    PROVE  TypeOK'
<1>0. /\ user \in UserRow /\ identities \in SUBSET IdentityRow /\ states \in SUBSET StateRow
      /\ handoffs \in SUBSET HandoffRow /\ sessions \in SUBSET Nat
      /\ seen[p] \in Seen
      BY DEF TypeOK
<1>1. CASE StartLink(p)
  <2>1. PICK st \in [intent : {"link"}, provider : Provider] : states' = states \cup {st}
        BY <1>1 DEF StartLink, Begin
  <2>2. states' \in SUBSET StateRow
        BY <1>0, <2>1 DEF StateRow
  <2> QED  BY <1>0, <1>1, <2>2, FinishKeepsTypes DEF StartLink, Begin
<1>2. CASE FindIdentity(p)
  <2>1. PICK c \in seen[p].says :
           Move(p, IF Linked(c.provider, c.subject) = {} THEN "unknown" ELSE "found",
                [seen[p] EXCEPT !.identity = Linked(c.provider, c.subject)])
        BY <1>2 DEF FindIdentity
  <2>2. [seen[p] EXCEPT !.identity = Linked(c.provider, c.subject)] \in Seen
        BY <1>0, MoreIsSeen DEF Linked
  <2>3. UNCHANGED stored
        BY <1>2 DEF FindIdentity
  <2> QED  BY <2>1, <2>2, <2>3, MoveKeepsTypes, StoredKeepsTypes DEF Places
<1>3. CASE FindOwner(p) \/ FindLinkOwner(p)
  <2>1. [seen[p] EXCEPT !.row = {user}] \in Seen
        BY <1>0, MoreIsSeen
  <2> QED  BY <1>3, <2>1, MoveKeepsTypes, StoredKeepsTypes DEF FindOwner, FindLinkOwner, Places
<1>4. CASE WaitForIdentity(p) \/ MayMirror(p) \/ SkipMirror(p) \/ CheckLink(p) \/ PrepareUnlink(p)
      BY <1>0, <1>4, MoveKeepsTypes, StoredKeepsTypes
         DEF WaitForIdentity, MayMirror, SkipMirror, CheckLink, PrepareUnlink, Places
<1>5. CASE RefreshIdentity(p)
  <2>1. PICK i \in seen[p].identity, c \in seen[p].says, j \in identities :
           identities' = (identities \ {j}) \cup {[j EXCEPT !.subject = i.subject, !.email = c.email]}
        BY <1>5 DEF RefreshIdentity
  <2>2. i.subject \in Subject /\ c.email \in Email
        BY <1>0 DEF Seen, IdentityRow
  <2>3. [j EXCEPT !.subject = i.subject, !.email = c.email] \in IdentityRow
        BY <1>0, <2>2 DEF IdentityRow
  <2>4. [seen[p] EXCEPT !.identity = {}] \in Seen
        BY <1>0, MoreIsSeen
  <2> QED  BY <1>0, <1>5, <2>1, <2>3, <2>4, MoveKeepsTypes DEF RefreshIdentity, Places
<1>6. CASE ReplaceVerifiedEmail(p)
  <2>1. PICK row \in seen[p].row, c \in seen[p].says :
           user' = IF user.generation = row.generation /\ ~user.password
                   THEN [user EXCEPT !.email = c.email] ELSE user
        BY <1>6 DEF ReplaceVerifiedEmail
  <2>2. c.email \in Email
        BY <1>0 DEF Seen
  <2>3. user' \in UserRow
        BY <1>0, <2>1, <2>2 DEF UserRow
  <2> QED  BY <1>0, <1>6, <2>3, MoveKeepsTypes DEF ReplaceVerifiedEmail, Places
<1>7. CASE MintHandoff(p)
  <2>1. PICK c \in seen[p].says, row \in seen[p].row, code \in FreshCode :
           handoffs' = handoffs \cup
            {[code |-> code, kind |-> IF op[p] = "link" THEN "link" ELSE "login",
              provider |-> c.provider, subject |-> c.subject,
              email |-> IF op[p] = "link" THEN {c.email} ELSE {}, generation |-> row.generation]}
        BY <1>7 DEF MintHandoff
  <2>2. /\ code \in Code /\ c.provider \in Provider /\ c.subject \in Subject /\ c.email \in Email
        /\ row.generation \in Nat
        BY <1>0 DEF Seen, FreshCode, UserRow
  <2>3. handoffs' \in SUBSET HandoffRow
        BY <1>0, <2>1, <2>2 DEF HandoffRow
  <2> QED  BY <1>0, <1>7, <2>3, FinishKeepsTypes DEF MintHandoff
<1>8. CASE FindByEmail(p)
  <2>1. [seen[p] EXCEPT !.row = {user}] \in Seen
        BY <1>0, MoreIsSeen
  <2>2. seen' = [seen EXCEPT ![p] = [seen[p] EXCEPT !.row = {user}]]
        BY <1>8 DEF FindByEmail
  <2> QED  BY <1>8, <2>1, <2>2, StoredKeepsTypes DEF FindByEmail, TypeOK
<1>9. CASE ProvisionExternal(p)
  <2>1. PICK c \in seen[p].says : user' = [NoUser(c.email) EXCEPT !.exists = TRUE, !.active = TRUE]
        BY <1>9 DEF ProvisionExternal
  <2>2. c.email \in Email
        BY <1>0 DEF Seen
  <2>3. user' \in UserRow
        BY <2>1, <2>2, ProvisionedIsARow
  <2>4. [seen[p] EXCEPT !.row = {user'}] \in Seen
        BY <1>0, <2>3, MoreIsSeen
  <2>5. seen' = [seen EXCEPT ![p] = [seen[p] EXCEPT !.row = {user'}]]
        BY <1>9 DEF ProvisionExternal
  <2> QED  BY <1>9, <2>3, <2>4, <2>5 DEF ProvisionExternal, TypeOK
<1>10. CASE ConsumeLink(p)
  <2>1. handoffs' \in SUBSET HandoffRow
        BY <1>0, <1>10 DEF ConsumeLink
  <2>2. Move(p, "lock", seen[p]) \/ Finish(p)
        BY <1>10 DEF ConsumeLink
  <2> QED  BY <1>0, <1>10, <2>1, <2>2, MoveKeepsTypes, FinishKeepsTypes DEF ConsumeLink, Places
<1> QED  BY <1>1, <1>2, <1>3, <1>4, <1>5, <1>6, <1>7, <1>8, <1>9, <1>10 DEF Proceed

\* Whatever a body writes is a write set.
LEMMA BodyBuffersAWriteSet ==
    ASSUME TypeOK, NEW p \in Proc, Body(p)
    PROVE  \E w \in WriteSet : Buffer(p, w)
<1>0. /\ Same \in WriteSet
      /\ user \in UserRow /\ user.generation \in Nat
      /\ identities \in SUBSET IdentityRow /\ states \in SUBSET StateRow
      /\ handoffs \in SUBSET HandoffRow /\ sessions \in SUBSET Nat
      /\ seen[p] \in Seen
      BY SameIsAWriteSet DEF TypeOK, UserRow
<1>1. ASSUME NEW put \in SUBSET IdentityRow
      PROVE  [Same EXCEPT !.put = put] \in WriteSet
      BY <1>0 DEF WriteSet
<1>2. CASE AutoLink(p) \/ Provision(p)
  <2>0. PICK row \in seen[p].row, c \in seen[p].says :
           \E n \in (FreshIdentity \cup {i.id : i \in Slot(c.provider)}) :
                Buffer(p, [Same EXCEPT !.put = {Row(n, c, c.email, row.generation)}])
        BY <1>2 DEF AutoLink, Provision
  <2>1. PICK n \in (FreshIdentity \cup {i.id : i \in Slot(c.provider)}) :
           Buffer(p, [Same EXCEPT !.put = {Row(n, c, c.email, row.generation)}])
        BY <2>0
  <2>2. n \in Identity
        BY <1>0, <2>1 DEF FreshIdentity, Slot, IdentityRow
  <2>3. Row(n, c, c.email, row.generation) \in IdentityRow
        BY <1>0, <2>2 DEF Row, IdentityRow, Seen, UserRow
  <2> QED  BY <1>1, <2>1, <2>3
<1>3. CASE CompleteLink(p)
  <2>0. PICK h \in seen[p].handoff, g \in seen[p].as : \E e \in h.email :
           \/ \E i \in Linked(h.provider, h.subject) : Buffer(p, [Same EXCEPT !.put = {[i EXCEPT !.email = e]}])
           \/ \E n \in FreshIdentity : Buffer(p, [Same EXCEPT !.put = {Row(n, h, e, g)}])
        BY <1>3 DEF CompleteLink
  <2>1. PICK e \in h.email :
           \/ \E i \in Linked(h.provider, h.subject) : Buffer(p, [Same EXCEPT !.put = {[i EXCEPT !.email = e]}])
           \/ \E n \in FreshIdentity : Buffer(p, [Same EXCEPT !.put = {Row(n, h, e, g)}])
        BY <2>0
  <2>2. h \in HandoffRow /\ g \in Nat /\ e \in Email
        BY <1>0 DEF Seen, HandoffRow
  <2>3. \A i \in Linked(h.provider, h.subject) : [i EXCEPT !.email = e] \in IdentityRow
        BY <1>0, <2>2 DEF Linked, IdentityRow
  <2>4. \A n \in FreshIdentity : Row(n, h, e, g) \in IdentityRow
        BY <2>2 DEF FreshIdentity, Row, IdentityRow, HandoffRow
  <2> QED  BY <1>1, <2>1, <2>3, <2>4
<1>4. CASE UnlinkIdentity(p)
  <2>1. PICK i \in identities :
           Buffer(p, [Same EXCEPT !.drop = {i.id},
                        !.codes = {h.code : h \in {x \in handoffs : x.provider = i.provider}}])
        BY <1>4 DEF UnlinkIdentity
  <2>2. /\ {i.id} \in SUBSET Identity
        /\ {h.code : h \in {x \in handoffs : x.provider = i.provider}} \in SUBSET Code
        BY <1>0 DEF IdentityRow, HandoffRow
  <2>3. [Same EXCEPT !.drop = {i.id},
           !.codes = {h.code : h \in {x \in handoffs : x.provider = i.provider}}] \in WriteSet
        BY <1>0, <2>2 DEF WriteSet
  <2> QED  BY <2>1, <2>3
<1>5. CASE Redeem(p)
  <2>1. PICK h \in handoffs :
           Buffer(p, [Same EXCEPT !.codes = {h.code}, !.open = {h.generation}])
        BY <1>5 DEF Redeem
  <2>2. h.code \in Code /\ h.generation \in Nat
        BY <1>0 DEF HandoffRow
  <2>3. [Same EXCEPT !.codes = {h.code}, !.open = {h.generation}] \in WriteSet
        BY <1>0, <2>2 DEF WriteSet
  <2> QED  BY <2>1, <2>3
<1>6. CASE Waste(p)
  <2>1. PICK h \in handoffs : Buffer(p, [Same EXCEPT !.codes = {h.code}])
        BY <1>6 DEF Waste
  <2>2. [Same EXCEPT !.codes = {h.code}] \in WriteSet
        BY <1>0 DEF WriteSet, HandoffRow
  <2> QED  BY <2>1, <2>2
<1>7. CASE ReclaimAccount(p)
  <2> DEFINE u == [user EXCEPT !.password = TRUE, !.generation = @ + 1]
             d == {i.id : i \in {x \in identities : x.email # user.email}}
             k == {i.id : i \in {x \in identities : x.email = user.email}}
             c == {h.code : h \in handoffs}
             l == {st \in states : st.intent = "link"}
  <2>1. u \in UserRow
        BY <1>0, BumpedIsARow
  <2>2. d \in SUBSET Identity /\ k \in SUBSET Identity
        BY <1>0 DEF IdentityRow
  <2>3. c \in SUBSET Code /\ l \in SUBSET StateRow
        BY <1>0 DEF HandoffRow
  <2>4. Buffer(p, [Same EXCEPT !.user = u, !.drop = d, !.spared = k, !.codes = c, !.links = l,
                     !.sweep = TRUE])
        BY <1>7 DEF ReclaimAccount
  <2> HIDE DEF u, d, k, c, l
  <2>5. [Same EXCEPT !.user = u, !.drop = d, !.spared = k, !.codes = c, !.links = l,
           !.sweep = TRUE] \in WriteSet
        BY <1>0, <2>1, <2>2, <2>3 DEF WriteSet
  <2> QED  BY <2>4, <2>5
<1> QED  BY <1>2, <1>3, <1>4, <1>5, <1>6, <1>7 DEF Body

LEMMA CommitKeepsTypes ==
    ASSUME TypeOK, NEW p \in Proc, Commit(p)
    PROVE  TypeOK'
<1>1. PICK w \in writes[p] :
        /\ user' = w.user
        /\ identities' = w.put \cup
             {[i EXCEPT !.linked = IF i.id \in w.spared THEN w.user.generation ELSE @] :
                 i \in {j \in identities : j.id \notin w.drop /\ \A k \in w.put : k.id # j.id}}
        /\ handoffs' = {h \in handoffs : h.code \notin w.codes}
        /\ states' = states \ w.links
        /\ sessions' = IF w.sweep THEN {} ELSE sessions \cup w.open
        /\ history' = IF op[p] = "Reclaim"
                      THEN [reclaimed |-> w.user.generation, evicted |-> w.user.generation] ELSE history
      BY DEF Commit
<1>2. /\ w.user \in UserRow /\ w.user.generation \in Nat /\ w.put \subseteq IdentityRow
      /\ w.open \subseteq Nat
      BY DEF TypeOK, WriteSet, UserRow
<1>3. \A i \in IdentityRow :
        [i EXCEPT !.linked = IF i.id \in w.spared THEN w.user.generation ELSE @] \in IdentityRow
      BY <1>2 DEF IdentityRow
<1>4. identities' \in SUBSET IdentityRow
  <2>1. identities \subseteq IdentityRow
        BY DEF TypeOK
  <2> QED  BY <1>1, <1>2, <1>3, <2>1
<1>5. /\ user' \in UserRow /\ handoffs' \in SUBSET HandoffRow /\ states' \in SUBSET StateRow
      /\ sessions' \in SUBSET Nat
      BY <1>1, <1>2 DEF TypeOK
<1>6. history' \in [reclaimed : Nat, evicted : Nat]
      BY <1>1, <1>2 DEF TypeOK
<1>7. /\ writes' = [writes EXCEPT ![p] = {}] /\ setting' = setting
      /\ \/ pc' = [pc EXCEPT ![p] = "mint"] /\ UNCHANGED <<op, seen>>
         \/ /\ pc' = [pc EXCEPT ![p] = "idle"]
            /\ op' = [op EXCEPT ![p] = "none"]
            /\ seen' = [seen EXCEPT ![p] = Nothing]
      BY DEF Commit
<1> QED  BY <1>4, <1>5, <1>6, <1>7, NothingIsSeen DEF TypeOK

\* Every variable keeps its type.
LEMMA NextKeepsTypes ==
    ASSUME TypeOK, [Next]_vars
    PROVE  TypeOK'
<1>1. CASE UNCHANGED vars
      BY <1>1 DEF TypeOK, vars
<1>2. ASSUME NEW p \in Proc, Arrive(p) \/ Proceed(p) \/ LockRow(p) \/ Body(p) \/ Commit(p) \/ GiveUp(p)
      PROVE  TypeOK'
  <2>1. CASE LockRow(p)
    <3>1. seen[p] \in Seen
          BY DEF TypeOK
    <3> QED  BY <2>1, <3>1, MoveKeepsTypes, StoredKeepsTypes DEF LockRow, Places
  <2>2. CASE GiveUp(p)
        BY <2>2, FinishKeepsTypes, StoredKeepsTypes DEF GiveUp
  <2> QED  BY <1>2, <2>1, <2>2, ArriveKeepsTypes, ProceedKeepsTypes, BodyBuffersAWriteSet,
              BufferKeepsTypes, CommitKeepsTypes
<1>3. CASE StartLogin
  <2>1. PICK st \in [intent : {"login"}, provider : Provider] : states' = states \cup {st}
        BY <1>3 DEF StartLogin, Begin
  <2>2. states' \in SUBSET StateRow
        BY <2>1 DEF TypeOK, StateRow
  <2> QED  BY <1>3, <2>2 DEF StartLogin, Begin, TypeOK
<1>4. CASE LapseHandoff \/ LapseState
      BY <1>4 DEF LapseHandoff, LapseState, TypeOK
<1>5. CASE Account
  <2>1. user.generation \in Nat
        BY DEF TypeOK, UserRow
  <2>2. CASE SignIn
        BY <2>1, <2>2 DEF SignIn, TypeOK
  <2>3. CASE AdminDeactivate
    <3>1. user' \in UserRow
          BY <2>3, BumpedIsARow DEF AdminDeactivate, TypeOK
    <3>2. history' \in [reclaimed : Nat, evicted : Nat]
          BY <2>3, <3>1 DEF AdminDeactivate, TypeOK, UserRow
    <3> QED  BY <2>3, <3>1, <3>2 DEF AdminDeactivate, TypeOK
  <2>4. CASE AdminActivate
    <3>1. user' \in UserRow
          BY <2>4 DEF AdminActivate, TypeOK, UserRow
    <3> QED  BY <2>4, <3>1 DEF AdminActivate, TypeOK
  <2> QED  BY <1>5, <2>2, <2>3, <2>4 DEF Account
<1> QED  BY <1>1, <1>2, <1>3, <1>4, <1>5 DEF Next

LEMMA InitHasTypes == Init => TypeOK
<1> SUFFICES ASSUME Init PROVE TypeOK
    OBVIOUS
<1>1. PICK e \in Email, password \in BOOLEAN :
        \/ user = NoUser(e) /\ identities = {} /\ sessions = {}
        \/ /\ user = [NoUser(e) EXCEPT !.exists = TRUE, !.active = TRUE, !.password = password]
           /\ \/ identities = {}
              \/ \E n \in Identity, who \in setting.who, vouched \in Email :
                    identities = {[id |-> n, provider |-> who[1], subject |-> who[2],
                                   email |-> vouched, linked |-> 0]}
           /\ sessions = {0}
      BY DEF Init
<1>2. user \in UserRow
      BY <1>1, OwnedIsARow, ProvisionedIsARow
<1>3. setting.who \subseteq Provider \X Subject
      BY SettingsAssumption DEF Init
<1>4. identities \in SUBSET IdentityRow
      BY <1>1, <1>3 DEF IdentityRow
<1>5. sessions \in SUBSET Nat
      BY <1>1
<1> QED  BY <1>2, <1>4, <1>5, NothingIsSeen DEF Init, TypeOK

\* The types, whatever meets.
THEOREM TypesAreKept == Spec => []TypeOK
BY InitHasTypes, NextKeepsTypes, PTL DEF Spec


------------------------------------------------------------------------------
(* The inductive invariant *)

Holds(p) == pc[p] \in {"body", "commit"}

\* One request is past the users-row lock, and only one that is through with its
\* body has buffered anything, one write set.
OneHolder ==
    /\ \A p, q \in Proc : Holds(p) /\ Holds(q) => p = q
    /\ \A p \in Proc : writes[p] # {} => pc[p] = "commit"
    /\ \A p \in Proc : \A v, w \in writes[p] : v = w

\* Sessions, hand-offs, links asked for and requests that go on with an account
\* are of an account that is there; before, it has no password and no history.
AccountExists ==
    /\ (user.active \/ user.password \/ user.generation # 0) => user.exists
    /\ (sessions # {} \/ handoffs # {}) => user.exists
    /\ \A st \in states : st.intent = "link" => user.exists
    /\ \A p \in Proc : pc[p] \notin {"idle", "callback", "found", "unknown"} => user.exists
    /\ \A p \in Proc : pc[p] = "callback" /\ op[p] = "link" => user.exists

\* Generations only grow: nothing at hand is of a generation yet to come.
GenerationsGrow ==
    /\ history.reclaimed <= history.evicted /\ history.evicted <= user.generation
    /\ \A h \in handoffs : h.generation <= user.generation
    /\ \A p \in Proc : \A row \in seen[p].row : row.generation <= user.generation

\* What a link rests on: the session that completes it was opened since the
\* latest reclaim, if the hand-off's generation is still the current one.
EvidenceHolds ==
    \A p \in Proc : \A h \in seen[p].handoff :
        /\ h.generation <= user.generation
        /\ \A g \in seen[p].as : h.generation = user.generation => g >= history.reclaimed

UniqueIds == \A i, j \in identities : i.id = j.id => i = j

\* The row a redemption is about to commit on is still there to be taken.
Redeems(w) ==
    /\ user.active
    /\ \E h \in handoffs : h.code \in w.codes /\ h.kind = "login" /\ Slot(h.provider) # {}

ReclaimHolds(w) ==
    /\ w.user = [user EXCEPT !.password = TRUE, !.generation = @ + 1]
    /\ w.put = {} /\ w.open = {} /\ w.sweep
    /\ \A i \in identities : i.id \in w.drop \/ i.id \in w.spared

GrantHolds(w) ==
    /\ w.user = user /\ w.spared = {} /\ ~w.sweep
    /\ \A g \in w.open : g >= history.evicted
    /\ \A i, j \in w.put : i = j
    /\ \A i \in w.put : i.linked >= history.reclaimed
    /\ w.open # {} => Redeems(w)
    /\ HasWayIn => PasswordWorks \/ w.put # {} \/ \E i \in identities : i.id \notin w.drop

\* What a body found is so until it commits: identities only change in place
\* meanwhile, hand-offs it takes are locked, and nobody writes the users row.
BuffersHold ==
    \A p \in Proc : \A w \in writes[p] : IF op[p] = "Reclaim" THEN ReclaimHolds(w) ELSE GrantHolds(w)

Safe ==
    /\ OneHolder /\ AccountExists /\ GenerationsGrow /\ EvidenceHolds /\ UniqueIds /\ BuffersHold
    /\ NoWayInOutlivesReclaim

SafetyInv == TypeOK /\ Safe

------------------------------------------------------------------------------
(* Steps outside transactions *)

\* p goes on outside its transaction, or ends with it, which drops what it
\* buffered; of the rows only hand-offs and requests under way may change.
Outside(p) ==
    /\ \A q \in Proc \ {p} : pc'[q] = pc[q] /\ op'[q] = op[q] /\ seen'[q] = seen[q] /\ writes'[q] = writes[q]
    /\ pc'[p] \notin {"body", "commit"} /\ writes'[p] = {}
    /\ UNCHANGED <<setting, user, identities, sessions, history>>

\* It goes on with an account only if that exists.
Sound(p) ==
    /\ (pc'[p] \notin {"idle", "callback", "found", "unknown"} \/ (pc'[p] = "callback" /\ op'[p] = "link"))
            => user.exists
    /\ \A row \in seen'[p].row : row.generation <= user.generation
    /\ \A h \in seen'[p].handoff :
        /\ h.generation <= user.generation
        /\ \A g \in seen'[p].as : h.generation = user.generation => g >= history.reclaimed

\* It leaves others the hand-offs they take, and parks one only of an account.
HandoffsStay(p) ==
    /\ \A h \in handoffs' \ handoffs : user.exists /\ h.generation <= user.generation
    /\ \A h \in handoffs \ handoffs' : \A q \in Proc \ {p} : \A w \in writes[q] : h.code \notin w.codes
    /\ \A st \in states' : st.intent = "link" => user.exists

LEMMA OutsideIsSafe ==
    ASSUME SafetyInv, NEW p \in Proc, Outside(p), Sound(p), HandoffsStay(p)
    PROVE  Safe'
<1>0. /\ UNCHANGED <<setting, user, identities, sessions, history>>
      /\ \A q \in Proc \ {p} : pc'[q] = pc[q] /\ op'[q] = op[q] /\ seen'[q] = seen[q] /\ writes'[q] = writes[q]
      /\ pc'[p] \notin {"body", "commit"} /\ writes'[p] = {}
      BY DEF Outside
<1>1. OneHolder'
      BY <1>0 DEF SafetyInv, Safe, OneHolder, Holds
<1>2. AccountExists'
  <2>1. (handoffs' # {}) => user.exists
        BY DEF SafetyInv, Safe, AccountExists, HandoffsStay
  <2>2. \A st \in states' : st.intent = "link" => user.exists
        BY DEF HandoffsStay
  <2>3. \A q \in Proc : /\ pc'[q] \notin {"idle", "callback", "found", "unknown"} => user.exists
                        /\ pc'[q] = "callback" /\ op'[q] = "link" => user.exists
    <3> SUFFICES ASSUME NEW q \in Proc
                 PROVE  /\ pc'[q] \notin {"idle", "callback", "found", "unknown"} => user.exists
                        /\ pc'[q] = "callback" /\ op'[q] = "link" => user.exists
        OBVIOUS
    <3>1. CASE q = p
          BY <3>1 DEF Sound
    <3>2. CASE q # p
          BY <1>0, <3>2 DEF SafetyInv, Safe, AccountExists
    <3> QED  BY <3>1, <3>2
  <2> QED  BY <1>0, <2>1, <2>2, <2>3 DEF SafetyInv, Safe, AccountExists
<1>3. GenerationsGrow'
  <2>1. \A h \in handoffs' : h.generation <= user.generation
        BY DEF SafetyInv, Safe, GenerationsGrow, HandoffsStay
  <2>2. \A q \in Proc : \A row \in seen'[q].row : row.generation <= user.generation
        BY <1>0 DEF SafetyInv, Safe, GenerationsGrow, Sound
  <2> QED  BY <1>0, <2>1, <2>2 DEF SafetyInv, Safe, GenerationsGrow
<1>4. EvidenceHolds'
  <2>1. \A q \in Proc : \A h \in seen'[q].handoff :
            /\ h.generation <= user.generation
            /\ \A g \in seen'[q].as : h.generation = user.generation => g >= history.reclaimed
        BY <1>0 DEF SafetyInv, Safe, EvidenceHolds, Sound
  <2> QED  BY <1>0, <2>1 DEF EvidenceHolds
<1>5. UniqueIds' /\ NoWayInOutlivesReclaim'
      BY <1>0 DEF SafetyInv, Safe, UniqueIds, NoWayInOutlivesReclaim
<1>6. BuffersHold'
  <2> SUFFICES ASSUME NEW q \in Proc, NEW w \in writes'[q]
               PROVE  IF op'[q] = "Reclaim" THEN ReclaimHolds(w)' ELSE GrantHolds(w)'
      BY DEF BuffersHold
  <2>1. q # p /\ op'[q] = op[q] /\ w \in writes[q]
        BY <1>0
  <2>2. CASE op[q] = "Reclaim"
    <3>1. ReclaimHolds(w)
          BY <2>1, <2>2 DEF SafetyInv, Safe, BuffersHold
    <3> QED  BY <1>0, <2>1, <2>2, <3>1 DEF ReclaimHolds
  <2>3. CASE op[q] # "Reclaim"
    <3>1. GrantHolds(w)
          BY <2>1, <2>3 DEF SafetyInv, Safe, BuffersHold
    <3>2. Redeems(w) => Redeems(w)'
          BY <1>0, <2>1 DEF Redeems, HandoffsStay, Slot
    <3> QED  BY <1>0, <2>1, <2>3, <3>1, <3>2 DEF GrantHolds, HasWayIn, PasswordWorks
  <2> QED  BY <2>2, <2>3
<1> QED  BY <1>1, <1>2, <1>3, <1>4, <1>5, <1>6 DEF Safe

\* Where a step leaves each request.
LEMMA StartLeaves ==
    ASSUME TypeOK, NEW p \in Proc, NEW o, NEW to, NEW s, Start(p, o, to, s)
    PROVE  /\ pc'[p] = to /\ op'[p] = o /\ seen'[p] = s
           /\ \A q \in Proc \ {p} : pc'[q] = pc[q] /\ op'[q] = op[q] /\ seen'[q] = seen[q]
           /\ writes' = writes /\ setting' = setting /\ history' = history
BY DEF TypeOK, Start

LEMMA MoveLeaves ==
    ASSUME TypeOK, NEW p \in Proc, NEW to, NEW s, Move(p, to, s)
    PROVE  /\ pc'[p] = to /\ op' = op /\ seen'[p] = s
           /\ \A q \in Proc \ {p} : pc'[q] = pc[q] /\ seen'[q] = seen[q]
           /\ writes' = writes /\ setting' = setting /\ history' = history
BY DEF TypeOK, Move

LEMMA FinishLeaves ==
    ASSUME TypeOK, NEW p \in Proc, Finish(p)
    PROVE  /\ pc'[p] = "idle" /\ op'[p] = "none" /\ seen'[p] = Nothing /\ writes'[p] = {}
           /\ \A q \in Proc \ {p} : /\ pc'[q] = pc[q] /\ op'[q] = op[q] /\ seen'[q] = seen[q]
                                    /\ writes'[q] = writes[q]
           /\ setting' = setting /\ history' = history
BY DEF TypeOK, Finish

\* The same rows are kept.
Kept == UNCHANGED <<user, identities, sessions>>

LEMMA StartIsSafe ==
    ASSUME SafetyInv, NEW p \in Proc, NEW o, NEW to, NEW s, Start(p, o, to, s), Kept,
           to \in {"authenticated", "callback", "lock"},
           to # "callback" \/ o = "link" => user.exists,
           s.row = {},
           \A h \in s.handoff :
             /\ h.generation <= user.generation
             /\ \A g \in s.as : h.generation = user.generation => g >= history.reclaimed,
           handoffs' = handoffs, states' \subseteq states
    PROVE  Safe'
<1>1. TypeOK /\ pc[p] = "idle" /\ writes[p] = {}
      BY DEF SafetyInv, Safe, OneHolder, Start
<1>2. Outside(p)
      BY <1>1, StartLeaves DEF Outside, Kept
<1>3. Sound(p)
      BY <1>1, StartLeaves DEF Sound
<1>4. HandoffsStay(p)
      BY DEF HandoffsStay, SafetyInv, Safe, AccountExists
<1> QED  BY <1>2, <1>3, <1>4, OutsideIsSafe

LEMMA MoveIsSafe ==
    ASSUME SafetyInv, NEW p \in Proc, NEW to, NEW s, Move(p, to, s), Kept,
           pc[p] \notin {"body", "commit"}, to \notin {"body", "commit", "callback"},
           to \notin {"idle", "found", "unknown"} => user.exists,
           \A row \in s.row : row.generation <= user.generation,
           s.handoff = seen[p].handoff, s.as = seen[p].as,
           UNCHANGED <<handoffs, states>>
    PROVE  Safe'
<1>1. TypeOK /\ writes[p] = {}
      BY DEF SafetyInv, Safe, OneHolder
<1>2. Outside(p)
      BY <1>1, MoveLeaves DEF Outside, Kept
<1>3. Sound(p)
      BY <1>1, MoveLeaves DEF Sound, SafetyInv, Safe, EvidenceHolds
<1>4. HandoffsStay(p)
      BY DEF HandoffsStay, SafetyInv, Safe, AccountExists
<1> QED  BY <1>2, <1>3, <1>4, OutsideIsSafe

LEMMA FinishIsSafe ==
    ASSUME SafetyInv, NEW p \in Proc, Finish(p), Kept, HandoffsStay(p)
    PROVE  Safe'
<1>1. TypeOK
      BY DEF SafetyInv
<1>2. Outside(p)
      BY <1>1, FinishLeaves DEF Outside, Kept
<1>3. Sound(p)
      BY <1>1, FinishLeaves DEF Sound, Nothing
<1> QED  BY <1>2, <1>3, OutsideIsSafe

\* Arrivals are safe.
LEMMA ArriveIsSafe ==
    ASSUME SafetyInv, NEW p \in Proc, Arrive(p)
    PROVE  Safe'
<1>1. CASE Callback(p)
  <2>1. PICK st \in states, who \in setting.who, e \in Email :
           /\ states' = states \ {st}
           /\ Start(p, st.intent, "callback",
                [Nothing EXCEPT !.says = {[provider |-> who[1], subject |-> who[2], email |-> e]}])
           /\ UNCHANGED <<user, identities, handoffs, sessions>>
        BY <1>1 DEF Callback
  <2> DEFINE s == [Nothing EXCEPT !.says = {[provider |-> who[1], subject |-> who[2], email |-> e]}]
  <2>2. s.row = {} /\ s.handoff = {}
        BY DEF Nothing
  <2>3. st.intent = "link" => user.exists
        BY DEF SafetyInv, Safe, AccountExists
  <2>4. Start(p, st.intent, "callback", s) /\ Kept /\ handoffs' = handoffs /\ states' \subseteq states
        BY <2>1 DEF Kept
  <2> HIDE DEF s
  <2> QED  BY <2>2, <2>3, <2>4, StartIsSafe
<1>2. CASE ExchangeHandoff(p)
  <2>1. PICK h \in handoffs : Start(p, "ExchangeHandoff", "lock", [Nothing EXCEPT !.handoff = {h}])
        BY <1>2 DEF ExchangeHandoff
  <2> DEFINE s == [Nothing EXCEPT !.handoff = {h}]
  <2>2. s.row = {} /\ s.handoff = {h} /\ s.as = {}
        BY DEF Nothing
  <2>3. user.exists /\ h.generation <= user.generation
        BY DEF SafetyInv, Safe, AccountExists, GenerationsGrow
  <2>4. Start(p, "ExchangeHandoff", "lock", s) /\ Kept /\ UNCHANGED <<handoffs, states>>
        BY <1>2, <2>1 DEF Kept, ExchangeHandoff, stored
  <2> HIDE DEF s
  <2> QED  BY <2>2, <2>3, <2>4, StartIsSafe
<1>3. ASSUME NEW o, NEW s \in Seen, Authenticate(p, o, s), UNCHANGED stored, s.row = {},
             \A h \in s.handoff : h \in handoffs
      PROVE  Safe'
  <2>1. PICK g \in sessions : Start(p, o, "authenticated", [s EXCEPT !.as = {g}])
        BY <1>3 DEF Authenticate
  <2> DEFINE r == [s EXCEPT !.as = {g}]
  <2>2. r.row = {} /\ r.handoff = s.handoff /\ r.as = {g}
        BY <1>3 DEF Seen
  <2>3. user.exists /\ \A h \in s.handoff : h.generation <= user.generation
        BY <1>3, <2>1 DEF SafetyInv, Safe, AccountExists, GenerationsGrow
  <2>4. g >= history.reclaimed
    <3>1. g >= history.evicted /\ history.reclaimed <= history.evicted
          BY DEF SafetyInv, Safe, NoWayInOutlivesReclaim, GenerationsGrow
    <3>2. g \in Nat /\ history.evicted \in Nat /\ history.reclaimed \in Nat
          BY DEF SafetyInv, TypeOK
    <3> QED  BY <3>1, <3>2
  <2>5. Start(p, o, "authenticated", r) /\ Kept /\ UNCHANGED <<handoffs, states>>
        BY <1>3, <2>1 DEF Kept, stored
  <2> HIDE DEF r
  <2> QED  BY <2>2, <2>3, <2>4, <2>5, StartIsSafe
<1>4. CASE AskLink(p) \/ AskUnlink(p)
  <2>1. Nothing \in Seen /\ Nothing.row = {} /\ Nothing.handoff = {}
        BY NothingIsSeen DEF Nothing
  <2> QED  BY <1>3, <1>4, <2>1 DEF AskLink, AskUnlink
<1>5. CASE AskCompletion(p)
  <2>1. PICK h \in handoffs : Authenticate(p, "CompleteLink", [Nothing EXCEPT !.handoff = {h}])
        BY <1>5 DEF AskCompletion
  <2> DEFINE s == [Nothing EXCEPT !.handoff = {h}]
  <2>2. s \in Seen
        BY NothingIsSeen, MoreIsSeen DEF SafetyInv, TypeOK
  <2>3. s.row = {} /\ s.handoff = {h}
        BY DEF Nothing
  <2>4. Authenticate(p, "CompleteLink", s) /\ UNCHANGED stored
        BY <1>5, <2>1 DEF AskCompletion
  <2> HIDE DEF s
  <2> QED  BY <1>3, <2>2, <2>3, <2>4
<1>6. CASE AskReclaim(p)
  <2>1. Nothing.row = {} /\ Nothing.handoff = {}
        BY DEF Nothing
  <2>2. Start(p, "Reclaim", "lock", Nothing) /\ user.exists /\ Kept /\ UNCHANGED <<handoffs, states>>
        BY <1>6 DEF AskReclaim, Kept, stored
  <2> QED  BY <2>1, <2>2, StartIsSafe
<1> QED  BY <1>1, <1>2, <1>4, <1>5, <1>6 DEF Arrive

\* A step taken while nobody holds the users row, by which generations may grow
\* and the account may come to be, and which keeps hand-offs and identities.
LEMMA FreeStepIsSafe ==
    ASSUME SafetyInv, TypeOK', UNCHANGED <<identities, handoffs, states>>,
           \A q \in Proc : pc'[q] \notin {"body", "commit"} /\ writes'[q] = {},
           user.generation <= user'.generation, user.exists => user'.exists,
           (user'.active \/ user'.password \/ user'.generation # 0 \/ sessions' # {}) => user'.exists,
           history'.reclaimed = history.reclaimed, history'.reclaimed <= history'.evicted,
           history'.evicted <= user'.generation,
           \A g \in sessions' : g >= history'.evicted,
           \A q \in Proc : /\ pc'[q] \notin {"idle", "callback", "found", "unknown"} => user'.exists
                           /\ pc'[q] = "callback" /\ op'[q] = "link" => user'.exists,
           \A q \in Proc : \A row \in seen'[q].row : row.generation <= user'.generation,
           \A q \in Proc : seen'[q].handoff = seen[q].handoff /\ seen'[q].as = seen[q].as
    PROVE  Safe'
<1>0. user.generation \in Nat /\ user'.generation \in Nat
      BY DEF SafetyInv, TypeOK, UserRow
<1>1. OneHolder'
      BY DEF OneHolder, Holds
<1>2. AccountExists'
      BY DEF SafetyInv, Safe, AccountExists
<1>3. GenerationsGrow'
  <2>1. \A h \in handoffs' : h.generation <= user'.generation
    <3> SUFFICES ASSUME NEW h \in handoffs PROVE h.generation <= user'.generation
        OBVIOUS
    <3>1. h.generation <= user.generation /\ h.generation \in Nat
          BY DEF SafetyInv, TypeOK, HandoffRow, Safe, GenerationsGrow
    <3> QED  BY <1>0, <3>1
  <2> QED  BY <2>1 DEF GenerationsGrow
<1>4. EvidenceHolds'
  <2> SUFFICES ASSUME NEW q \in Proc, NEW h \in seen[q].handoff
               PROVE  /\ h.generation <= user'.generation
                      /\ \A g \in seen[q].as : h.generation = user'.generation => g >= history.reclaimed
      BY DEF EvidenceHolds
  <2>1. h.generation \in Nat
        BY DEF SafetyInv, TypeOK, Seen, HandoffRow
  <2>2. /\ h.generation <= user.generation
        /\ \A g \in seen[q].as : h.generation = user.generation => g >= history.reclaimed
        BY DEF SafetyInv, Safe, EvidenceHolds
  <2>3. h.generation = user'.generation => h.generation = user.generation
        BY <1>0, <2>1, <2>2
  <2> QED  BY <1>0, <2>1, <2>2, <2>3
<1>5. UniqueIds' /\ NoWayInOutlivesReclaim'
      BY DEF SafetyInv, Safe, UniqueIds, NoWayInOutlivesReclaim
<1>6. BuffersHold'
      BY DEF BuffersHold
<1> QED  BY <1>1, <1>2, <1>3, <1>4, <1>5, <1>6 DEF Safe

\* Without a holder nothing is buffered, and as long as there is no account.
LEMMA NobodyBuffers ==
    ASSUME SafetyInv, ~RowLocked \/ ~user.exists
    PROVE  \A q \in Proc : pc[q] \notin {"body", "commit"} /\ writes[q] = {}
BY DEF RowLocked, SafetyInv, Safe, OneHolder, AccountExists

\* An identity is refreshed in place, next to whatever transaction is open.
LEMMA RefreshIsSafe ==
    ASSUME SafetyInv, NEW p \in Proc, RefreshIdentity(p)
    PROVE  Safe'
<1>0. TypeOK /\ pc[p] \in {"refresh", "waiting"} /\ writes[p] = {}
      BY DEF SafetyInv, Safe, OneHolder, RefreshIdentity
<1>1. PICK i \in seen[p].identity, c \in seen[p].says, j \in identities :
        identities' = (identities \ {j}) \cup {[j EXCEPT !.subject = i.subject, !.email = c.email]}
      BY DEF RefreshIdentity
<1> DEFINE k == [j EXCEPT !.subject = i.subject, !.email = c.email]
<1>2. k.id = j.id /\ k.provider = j.provider /\ k.linked = j.linked
      BY <1>0, <1>1 DEF TypeOK, IdentityRow
<1>3. identities' = (identities \ {j}) \cup {k}
      BY <1>1
<1> HIDE DEF k
<1>4. /\ \A x \in identities' : \E y \in identities : x.id = y.id /\ x.provider = y.provider /\ x.linked = y.linked
      /\ \A y \in identities : \E x \in identities' : x.id = y.id /\ x.provider = y.provider /\ x.linked = y.linked
      BY <1>2, <1>3
<1>5. /\ pc'[p] = "mirror" /\ op' = op /\ seen'[p].handoff = seen[p].handoff
      /\ seen'[p].row = seen[p].row /\ seen'[p].as = seen[p].as
      /\ \A q \in Proc \ {p} : pc'[q] = pc[q] /\ seen'[q] = seen[q]
      /\ writes' = writes /\ setting' = setting /\ history' = history
      /\ UNCHANGED <<user, states, handoffs, sessions>>
  <2>1. Move(p, "mirror", [seen[p] EXCEPT !.identity = {}]) /\ UNCHANGED <<user, states, handoffs, sessions>>
        BY DEF RefreshIdentity
  <2>2. seen[p] \in Seen
        BY <1>0 DEF TypeOK
  <2> DEFINE s == [seen[p] EXCEPT !.identity = {}]
  <2>3. s.handoff = seen[p].handoff /\ s.row = seen[p].row /\ s.as = seen[p].as
        BY <2>2 DEF Seen
  <2>4. Move(p, "mirror", s)
        BY <2>1
  <2> HIDE DEF s
  <2> QED  BY <1>0, <2>1, <2>3, <2>4, MoveLeaves
<1>6. OneHolder' /\ AccountExists' /\ GenerationsGrow' /\ EvidenceHolds'
      BY <1>0, <1>5 DEF SafetyInv, Safe, OneHolder, Holds, AccountExists, GenerationsGrow, EvidenceHolds
<1>7. UniqueIds'
      BY <1>2, <1>3 DEF SafetyInv, Safe, UniqueIds
<1>8. NoWayInOutlivesReclaim'
      BY <1>4, <1>5 DEF SafetyInv, Safe, NoWayInOutlivesReclaim
<1>9. BuffersHold'
  <2> SUFFICES ASSUME NEW q \in Proc, NEW w \in writes[q]
               PROVE  IF op[q] = "Reclaim" THEN ReclaimHolds(w)' ELSE GrantHolds(w)'
      BY <1>5 DEF BuffersHold
  <2>1. CASE op[q] = "Reclaim"
        BY <1>4, <1>5, <2>1 DEF SafetyInv, Safe, BuffersHold, ReclaimHolds
  <2>2. CASE op[q] # "Reclaim"
    <3>1. GrantHolds(w)
          BY <2>2 DEF SafetyInv, Safe, BuffersHold
    <3>2. Redeems(w) => Redeems(w)'
      <4>1. \A h \in handoffs : Slot(h.provider) # {} => Slot(h.provider)' # {}
            BY <1>4 DEF Slot
      <4> QED  BY <1>5, <4>1 DEF Redeems
    <3>3. /\ HasWayIn' => HasWayIn
          /\ PasswordWorks' = PasswordWorks
          BY <1>4, <1>5 DEF HasWayIn, PasswordWorks
    <3>4. (\E x \in identities : x.id \notin w.drop) => \E x \in identities' : x.id \notin w.drop
          BY <1>4
    <3>5. HasWayIn' => PasswordWorks' \/ w.put # {} \/ \E x \in identities' : x.id \notin w.drop
          BY <3>1, <3>3, <3>4 DEF GrantHolds
    <3> QED  BY <1>5, <2>2, <3>1, <3>2, <3>5 DEF GrantHolds
  <2> QED  BY <2>1, <2>2
<1> QED  BY <1>6, <1>7, <1>8, <1>9 DEF Safe

\* So are the other steps of a request outside its transaction.
LEMMA ProceedIsSafe ==
    ASSUME SafetyInv, TypeOK', NEW p \in Proc, Proceed(p)
    PROVE  Safe'
<1>0. /\ TypeOK /\ seen[p] \in Seen
      /\ \A row \in seen[p].row : row.generation <= user.generation
      /\ user.generation \in Nat
      BY DEF SafetyInv, TypeOK, UserRow, Safe, GenerationsGrow
<1>1. CASE StartLink(p)
  <2>1. user.exists
        BY <1>1 DEF StartLink, SafetyInv, Safe, AccountExists
  <2>2. Kept /\ HandoffsStay(p) /\ Finish(p)
        BY <1>1, <2>1 DEF StartLink, Begin, Kept, HandoffsStay
  <2> QED  BY <2>2, FinishIsSafe
<1>2. CASE FindIdentity(p)
  <2>1. PICK found \in SUBSET identities, to \in {"unknown", "found"} :
           Move(p, to, [seen[p] EXCEPT !.identity = found])
        BY <1>2 DEF FindIdentity, Linked
  <2> DEFINE s == [seen[p] EXCEPT !.identity = found]
  <2>2. s.row = seen[p].row /\ s.handoff = seen[p].handoff /\ s.as = seen[p].as
        BY <1>0 DEF Seen
  <2>3. Move(p, to, s) /\ Kept /\ UNCHANGED <<handoffs, states>> /\ pc[p] = "callback"
        BY <1>2, <2>1 DEF FindIdentity, Kept, stored
  <2> HIDE DEF s
  <2> QED  BY <1>0, <2>2, <2>3, MoveIsSafe
<1>3. CASE FindOwner(p) \/ FindLinkOwner(p)
  <2>1. PICK to \in {"refresh", "check"} : Move(p, to, [seen[p] EXCEPT !.row = {user}])
        BY <1>3 DEF FindOwner, FindLinkOwner
  <2> DEFINE s == [seen[p] EXCEPT !.row = {user}]
  <2>2. s.row = {user} /\ s.handoff = seen[p].handoff /\ s.as = seen[p].as
        BY <1>0 DEF Seen
  <2>3. Move(p, to, s) /\ Kept /\ UNCHANGED <<handoffs, states>> /\ pc[p] \in {"found", "callback"}
        BY <1>3, <2>1 DEF FindOwner, FindLinkOwner, Kept, stored
  <2>4. user.exists
        BY <1>3 DEF FindOwner, FindLinkOwner, SafetyInv, Safe, AccountExists
  <2> HIDE DEF s
  <2> QED  BY <1>0, <2>2, <2>3, <2>4, MoveIsSafe
<1>4. CASE WaitForIdentity(p) \/ MayMirror(p) \/ SkipMirror(p) \/ CheckLink(p) \/ PrepareUnlink(p)
  <2>1. PICK to \in {"waiting", "replace", "mint", "lock"} : Move(p, to, seen[p])
        BY <1>4 DEF WaitForIdentity, MayMirror, SkipMirror, CheckLink, PrepareUnlink
  <2>2. /\ pc[p] \in {"refresh", "mirror", "check", "authenticated"}
        /\ Kept /\ UNCHANGED <<handoffs, states>>
        BY <1>4 DEF WaitForIdentity, MayMirror, SkipMirror, CheckLink, PrepareUnlink, Kept, stored
  <2>3. user.exists
        BY <2>2 DEF SafetyInv, Safe, AccountExists
  <2> QED  BY <1>0, <2>1, <2>2, <2>3, MoveIsSafe
<1>5. CASE RefreshIdentity(p)
      BY <1>5, RefreshIsSafe
<1>6. CASE ReplaceVerifiedEmail(p)
  <2>1. \A q \in Proc : pc[q] \notin {"body", "commit"} /\ writes[q] = {}
        BY <1>6, NobodyBuffers DEF ReplaceVerifiedEmail
  <2>2. /\ pc[p] = "replace" /\ Move(p, "mint", seen[p])
        /\ UNCHANGED <<identities, states, handoffs, sessions>>
        BY <1>6 DEF ReplaceVerifiedEmail
  <2>3. /\ pc'[p] = "mint" /\ op' = op /\ seen'[p] = seen[p]
        /\ \A q \in Proc \ {p} : pc'[q] = pc[q] /\ seen'[q] = seen[q]
        /\ writes' = writes /\ history' = history
        BY <1>0, <2>2, MoveLeaves
  <2>4. PICK c \in seen[p].says : user' \in {user, [user EXCEPT !.email = c.email]}
        BY <1>6 DEF ReplaceVerifiedEmail
  <2>5. /\ user'.exists = user.exists /\ user'.password = user.password
        /\ user'.active = user.active /\ user'.generation = user.generation
        BY <1>0, <2>4 DEF TypeOK, UserRow
  <2>6. user.exists
        BY <2>2 DEF SafetyInv, Safe, AccountExists
  <2>7. /\ history.reclaimed <= history.evicted /\ history.evicted <= user.generation
        /\ \A g \in sessions : g >= history.evicted
        /\ \A q \in Proc : \A row \in seen[q].row : row.generation <= user.generation
        BY DEF SafetyInv, Safe, GenerationsGrow, NoWayInOutlivesReclaim
  <2>8. \A q \in Proc : pc'[q] \notin {"body", "commit"} /\ writes'[q] = {} /\ seen'[q] = seen[q]
        BY <2>1, <2>3
  <2> QED  BY <1>0, <2>2, <2>3, <2>5, <2>6, <2>7, <2>8, FreeStepIsSafe
<1>7. CASE MintHandoff(p)
  <2>0. PICK c \in seen[p].says, row \in seen[p].row, code \in FreshCode :
           handoffs' = handoffs \cup
            {[code |-> code, kind |-> IF op[p] = "link" THEN "link" ELSE "login",
              provider |-> c.provider, subject |-> c.subject,
              email |-> IF op[p] = "link" THEN {c.email} ELSE {}, generation |-> row.generation]}
        BY <1>7 DEF MintHandoff
  <2>1. \A h \in handoffs' \ handoffs : h.generation = row.generation
        BY <2>0
  <2>2. user.exists /\ row.generation <= user.generation
        BY <1>0, <1>7 DEF MintHandoff, SafetyInv, Safe, AccountExists
  <2>3. Finish(p) /\ Kept /\ states' = states
        BY <1>7 DEF MintHandoff, Kept
  <2>4. handoffs \subseteq handoffs'
        BY <2>0
  <2>5. HandoffsStay(p)
        BY <2>1, <2>2, <2>3, <2>4 DEF HandoffsStay
  <2> QED  BY <2>3, <2>5, FinishIsSafe
<1>8. CASE FindByEmail(p)
  <2> DEFINE s == [seen[p] EXCEPT !.row = {user}]
  <2>1. s.row = {user} /\ s.handoff = seen[p].handoff /\ s.as = seen[p].as
        BY <1>0 DEF Seen
  <2>2. seen' = [seen EXCEPT ![p] = s]
        BY <1>8 DEF FindByEmail
  <2> HIDE DEF s
  <2>3. /\ pc[p] = "unknown" /\ user.exists
        /\ pc' = [pc EXCEPT ![p] = "lock"] /\ op' = [op EXCEPT ![p] = "AutoLink"]
        /\ UNCHANGED <<setting, user, identities, states, handoffs, sessions, writes, history>>
        BY <1>8 DEF FindByEmail, stored
  <2>4. /\ pc'[p] = "lock" /\ seen'[p] = s /\ writes[p] = {}
        /\ \A q \in Proc \ {p} : pc'[q] = pc[q] /\ op'[q] = op[q] /\ seen'[q] = seen[q]
        BY <1>0, <2>2, <2>3 DEF TypeOK, SafetyInv, Safe, OneHolder
  <2>5. Outside(p)
        BY <2>3, <2>4 DEF Outside
  <2>6. Sound(p)
        BY <1>0, <2>1, <2>3, <2>4 DEF Sound, SafetyInv, Safe, EvidenceHolds
  <2>7. HandoffsStay(p)
        BY <2>3 DEF HandoffsStay
  <2> QED  BY <2>5, <2>6, <2>7, OutsideIsSafe
<1>9. CASE ProvisionExternal(p)
  <2>1. PICK c \in seen[p].says : user' = [NoUser(c.email) EXCEPT !.exists = TRUE, !.active = TRUE]
        BY <1>9 DEF ProvisionExternal
  <2>2. user'.exists /\ user'.generation = 0
        BY <2>1 DEF NoUser
  <2>3. /\ ~user.exists /\ pc' = [pc EXCEPT ![p] = "lock"] /\ op' = [op EXCEPT ![p] = "Provision"]
        /\ seen' = [seen EXCEPT ![p].row = {user'}]
        /\ UNCHANGED <<setting, identities, states, handoffs, sessions, writes, history>>
        BY <1>9 DEF ProvisionExternal
  <2>4. \A q \in Proc : pc[q] \notin {"body", "commit"} /\ writes[q] = {}
        BY <2>3, NobodyBuffers
  <2>5. user.generation = 0 /\ sessions = {} /\ handoffs = {}
        BY <2>3 DEF SafetyInv, Safe, AccountExists
  <2> DEFINE s == [seen[p] EXCEPT !.row = {user'}]
  <2>6. s.row = {user'} /\ s.handoff = seen[p].handoff /\ s.as = seen[p].as
        BY <1>0 DEF Seen
  <2>7. seen' = [seen EXCEPT ![p] = s]
        BY <2>3
  <2> HIDE DEF s
  <2>8. /\ pc'[p] = "lock" /\ seen'[p] = s
        /\ \A q \in Proc \ {p} : pc'[q] = pc[q] /\ op'[q] = op[q] /\ seen'[q] = seen[q]
        BY <1>0, <2>3, <2>7 DEF TypeOK
  <2>9. /\ \A q \in Proc : pc'[q] \notin {"body", "commit"} /\ writes'[q] = {}
        /\ \A q \in Proc : seen'[q].handoff = seen[q].handoff /\ seen'[q].as = seen[q].as
        BY <2>3, <2>4, <2>6, <2>8
  <2>10. \A q \in Proc : \A row \in seen'[q].row : row.generation <= user'.generation
    <3>1. \A q \in Proc : \A row \in seen[q].row : row.generation <= 0
          BY <2>5 DEF SafetyInv, Safe, GenerationsGrow
    <3>2. user'.generation <= user'.generation
          BY <2>2
    <3> QED  BY <2>2, <2>6, <2>8, <3>1, <3>2
  <2>11. history.reclaimed <= history.evicted /\ history.evicted <= 0
        BY <2>5 DEF SafetyInv, Safe, GenerationsGrow
  <2>12. user.generation <= user'.generation
        BY <2>2, <2>5
  <2> QED  BY <2>2, <2>3, <2>5, <2>9, <2>10, <2>11, <2>12, FreeStepIsSafe
<1>10. CASE ConsumeLink(p)
  <2>1. PICK h \in seen[p].handoff :
           /\ h \in handoffs /\ ~CodeLocked(h.code) /\ handoffs' = handoffs \ {h}
           /\ Move(p, "lock", seen[p]) \/ Finish(p)
        BY <1>10 DEF ConsumeLink
  <2>2. /\ user.exists /\ writes[p] = {} /\ Kept /\ states' = states
        BY <1>10 DEF ConsumeLink, Kept, SafetyInv, Safe, AccountExists, OneHolder
  <2>3. HandoffsStay(p)
        BY <2>1, <2>2 DEF HandoffsStay, CodeLocked
  <2>4. CASE Move(p, "lock", seen[p])
    <3>1. Outside(p)
          BY <1>0, <2>2, <2>4, MoveLeaves DEF Outside, Kept
    <3>2. Sound(p)
          BY <1>0, <2>2, <2>4, MoveLeaves DEF Sound, SafetyInv, Safe, EvidenceHolds
    <3> QED  BY <2>3, <3>1, <3>2, OutsideIsSafe
  <2>5. CASE Finish(p)
        BY <2>2, <2>3, <2>5, FinishIsSafe
  <2> QED  BY <2>1, <2>4, <2>5
<1> QED  BY <1>1, <1>2, <1>3, <1>4, <1>5, <1>6, <1>7, <1>8, <1>9, <1>10 DEF Proceed

------------------------------------------------------------------------------
(* Inside transactions *)

LEMMA LockIsSafe ==
    ASSUME SafetyInv, NEW p \in Proc, LockRow(p)
    PROVE  Safe'
<1>1. /\ TypeOK /\ pc[p] = "lock" /\ Move(p, "body", seen[p])
      /\ UNCHANGED <<user, identities, states, handoffs, sessions>>
      BY DEF SafetyInv, LockRow, stored
<1>2. \A q \in Proc : pc[q] \notin {"body", "commit"} /\ writes[q] = {}
      BY NobodyBuffers DEF LockRow
<1>3. /\ pc'[p] = "body" /\ op' = op /\ seen'[p] = seen[p]
      /\ \A q \in Proc \ {p} : pc'[q] = pc[q] /\ seen'[q] = seen[q]
      /\ writes' = writes /\ setting' = setting /\ history' = history
      BY <1>1, MoveLeaves
<1>4. user.exists
      BY <1>1 DEF SafetyInv, Safe, AccountExists
<1>5. \A q \in Proc : seen'[q] = seen[q] /\ writes'[q] = {}
      BY <1>2, <1>3
<1>6. OneHolder'
      BY <1>2, <1>3, <1>5 DEF OneHolder, Holds
<1>7. AccountExists'
      BY <1>1, <1>3, <1>4 DEF SafetyInv, Safe, AccountExists
<1>8. GenerationsGrow' /\ EvidenceHolds' /\ UniqueIds' /\ NoWayInOutlivesReclaim'
      BY <1>1, <1>3, <1>5 DEF SafetyInv, Safe, GenerationsGrow, EvidenceHolds, UniqueIds, NoWayInOutlivesReclaim
<1>9. BuffersHold'
      BY <1>5 DEF BuffersHold
<1> QED  BY <1>6, <1>7, <1>8, <1>9 DEF Safe

LEMMA BufferIsSafe ==
    ASSUME SafetyInv, NEW p \in Proc, NEW w, pc[p] = "body", Buffer(p, w),
           IF op[p] = "Reclaim" THEN ReclaimHolds(w) ELSE GrantHolds(w)
    PROVE  Safe'
<1>1. /\ pc' = [pc EXCEPT ![p] = "commit"] /\ writes' = [writes EXCEPT ![p] = {w}]
      /\ UNCHANGED <<setting, user, identities, states, handoffs, sessions, op, seen, history>>
      BY DEF Buffer, stored
<1>2. /\ pc'[p] = "commit" /\ writes'[p] = {w}
      /\ \A q \in Proc \ {p} : pc'[q] = pc[q] /\ writes'[q] = writes[q]
      BY <1>1 DEF SafetyInv, TypeOK
<1>3. OneHolder' /\ AccountExists'
      BY <1>1, <1>2 DEF SafetyInv, Safe, OneHolder, Holds, AccountExists
<1>4. GenerationsGrow' /\ EvidenceHolds' /\ UniqueIds' /\ NoWayInOutlivesReclaim'
      BY <1>1 DEF SafetyInv, Safe, GenerationsGrow, EvidenceHolds, UniqueIds, NoWayInOutlivesReclaim
<1>5. BuffersHold'
  <2> SUFFICES ASSUME NEW q \in Proc, NEW v \in writes'[q]
               PROVE  IF op[q] = "Reclaim" THEN ReclaimHolds(v)' ELSE GrantHolds(v)'
      BY <1>1 DEF BuffersHold
  <2>1. IF op[q] = "Reclaim" THEN ReclaimHolds(v) ELSE GrantHolds(v)
        BY <1>2 DEF SafetyInv, Safe, BuffersHold
  <2>2. ReclaimHolds(v) => ReclaimHolds(v)'
        BY <1>1 DEF ReclaimHolds
  <2>3. GrantHolds(v) => GrantHolds(v)'
        BY <1>1 DEF GrantHolds, Redeems, Slot, HasWayIn, PasswordWorks
  <2> QED  BY <2>1, <2>2, <2>3
<1> QED  BY <1>3, <1>4, <1>5 DEF Safe

\* What a body that is not a reclaim's puts leaves the account as it is, and has
\* the authority of the present.
LEMMA PutHolds ==
    ASSUME SafetyInv, NEW i, i.linked >= history.reclaimed
    PROVE  GrantHolds([Same EXCEPT !.put = {i}])
<1> DEFINE w == [Same EXCEPT !.put = {i}]
<1>1. /\ w.user = user /\ w.put = {i} /\ w.drop = {} /\ w.spared = {} /\ w.codes = {}
      /\ w.sweep = FALSE /\ w.open = {}
      BY DEF Same
<1> HIDE DEF w
<1> QED  BY <1>1 DEF GrantHolds, w

\* Two identities have two ids, so one is left when one of several goes.
LEMMA AnotherStays ==
    ASSUME SafetyInv, Cardinality(identities) > 1, NEW i \in identities
    PROVE  \E j \in identities : j.id # i.id
<1>1. CASE identities = {i}
  <2>1. Cardinality({i}) = 1
        BY FS_Singleton
  <2> QED  BY <1>1, <2>1
<1>2. CASE identities # {i}
  <2>1. PICK j \in identities : j # i
        BY <1>2
  <2> QED  BY <2>1 DEF SafetyInv, Safe, UniqueIds
<1> QED  BY <1>1, <1>2

\* Every body buffers what holds.
LEMMA BodyIsSafe ==
    ASSUME SafetyInv, NEW p \in Proc, Body(p)
    PROVE  Safe'
<1>0. /\ TypeOK /\ seen[p] \in Seen
      /\ user.generation >= history.reclaimed /\ user.generation >= history.evicted
  <2>1. /\ history.reclaimed <= history.evicted /\ history.evicted <= user.generation
        BY DEF SafetyInv, Safe, GenerationsGrow
  <2>2. history.reclaimed \in Nat /\ history.evicted \in Nat /\ user.generation \in Nat
        BY DEF SafetyInv, TypeOK, UserRow
  <2> QED  BY <2>1, <2>2 DEF SafetyInv, TypeOK
<1>1. CASE AutoLink(p) \/ Provision(p)
  <2>1. PICK row \in seen[p].row, c \in seen[p].says :
           /\ user.generation = row.generation
           /\ \E n \in (FreshIdentity \cup {i.id : i \in Slot(c.provider)}) :
                Buffer(p, [Same EXCEPT !.put = {Row(n, c, c.email, row.generation)}])
        BY <1>1 DEF AutoLink, Provision, Fenced
  <2>2. PICK n \in (FreshIdentity \cup {i.id : i \in Slot(c.provider)}) :
           Buffer(p, [Same EXCEPT !.put = {Row(n, c, c.email, row.generation)}])
        BY <2>1
  <2>3. Row(n, c, c.email, row.generation).linked = row.generation
        BY DEF Row
  <2>4. pc[p] = "body" /\ op[p] # "Reclaim"
        BY <1>1 DEF AutoLink, Provision, In
  <2>5. GrantHolds([Same EXCEPT !.put = {Row(n, c, c.email, row.generation)}])
        BY <1>0, <2>1, <2>3, PutHolds
  <2> QED  BY <2>2, <2>4, <2>5, BufferIsSafe
<1>2. CASE CompleteLink(p)
  <2>1. PICK h \in seen[p].handoff, g \in seen[p].as : \E e \in h.email :
           /\ user.generation = h.generation
           /\ \/ \E i \in Linked(h.provider, h.subject) : Buffer(p, [Same EXCEPT !.put = {[i EXCEPT !.email = e]}])
              \/ \E n \in FreshIdentity : Buffer(p, [Same EXCEPT !.put = {Row(n, h, e, g)}])
        BY <1>2 DEF CompleteLink, Fenced
  <2>2. PICK e \in h.email :
           /\ user.generation = h.generation
           /\ \/ \E i \in Linked(h.provider, h.subject) : Buffer(p, [Same EXCEPT !.put = {[i EXCEPT !.email = e]}])
              \/ \E n \in FreshIdentity : Buffer(p, [Same EXCEPT !.put = {Row(n, h, e, g)}])
        BY <2>1
  <2>3. g >= history.reclaimed
        BY <2>2 DEF SafetyInv, Safe, EvidenceHolds
  <2>4. pc[p] = "body" /\ op[p] # "Reclaim"
        BY <1>2 DEF CompleteLink, In
  <2>5. ASSUME NEW i \in Linked(h.provider, h.subject), Buffer(p, [Same EXCEPT !.put = {[i EXCEPT !.email = e]}])
        PROVE  Safe'
    <3>1. [i EXCEPT !.email = e].linked = i.linked /\ i \in identities
          BY <1>0 DEF TypeOK, IdentityRow, Linked
    <3>2. [i EXCEPT !.email = e].linked >= history.reclaimed
          BY <3>1 DEF SafetyInv, Safe, NoWayInOutlivesReclaim
    <3>3. GrantHolds([Same EXCEPT !.put = {[i EXCEPT !.email = e]}])
          BY <3>2, PutHolds
    <3> QED  BY <2>4, <2>5, <3>3, BufferIsSafe
  <2>6. ASSUME NEW n \in FreshIdentity, Buffer(p, [Same EXCEPT !.put = {Row(n, h, e, g)}])
        PROVE  Safe'
    <3>1. Row(n, h, e, g).linked = g
          BY DEF Row
    <3>2. GrantHolds([Same EXCEPT !.put = {Row(n, h, e, g)}])
          BY <2>3, <3>1, PutHolds
    <3> QED  BY <2>4, <2>6, <3>2, BufferIsSafe
  <2> QED  BY <2>2, <2>5, <2>6
<1>3. CASE UnlinkIdentity(p)
  <2>1. PICK i \in identities, codes \in SUBSET Code :
           Buffer(p, [Same EXCEPT !.drop = {i.id}, !.codes = codes])
    <3>1. PICK i \in identities :
             Buffer(p, [Same EXCEPT !.drop = {i.id},
                          !.codes = {h.code : h \in {x \in handoffs : x.provider = i.provider}}])
          BY <1>3 DEF UnlinkIdentity
    <3>2. {h.code : h \in {x \in handoffs : x.provider = i.provider}} \in SUBSET Code
          BY <1>0 DEF TypeOK, HandoffRow
    <3> QED  BY <3>1, <3>2
  <2> DEFINE w == [Same EXCEPT !.drop = {i.id}, !.codes = codes]
  <2>2. /\ w.user = user /\ w.put = {} /\ w.drop = {i.id} /\ w.spared = {}
        /\ w.sweep = FALSE /\ w.open = {}
        BY DEF Same
  <2>3. PasswordWorks \/ Cardinality(identities) > 1
        BY <1>3 DEF UnlinkIdentity
  <2>4. PasswordWorks \/ \E j \in identities : j.id \notin {i.id}
        BY <2>3, AnotherStays
  <2>5. Buffer(p, w) /\ pc[p] = "body" /\ op[p] # "Reclaim"
        BY <1>3, <2>1 DEF UnlinkIdentity, In
  <2> HIDE DEF w
  <2>6. GrantHolds(w)
        BY <2>2, <2>4 DEF GrantHolds
  <2> QED  BY <2>5, <2>6, BufferIsSafe
<1>4. CASE Redeem(p)
  <2>1. PICK h \in handoffs :
           /\ h.kind = "login" /\ Linked(h.provider, h.subject) # {}
           /\ user.active /\ user.generation = h.generation
           /\ Buffer(p, [Same EXCEPT !.codes = {h.code}, !.open = {h.generation}])
        BY <1>4 DEF Redeem, Fenced
  <2> DEFINE w == [Same EXCEPT !.codes = {h.code}, !.open = {h.generation}]
  <2>2. /\ w.user = user /\ w.put = {} /\ w.drop = {} /\ w.spared = {} /\ w.codes = {h.code}
        /\ w.sweep = FALSE /\ w.open = {h.generation}
        BY DEF Same
  <2>3. Buffer(p, w) /\ pc[p] = "body" /\ op[p] # "Reclaim"
        BY <1>4, <2>1 DEF Redeem, In
  <2> HIDE DEF w
  <2>4. Redeems(w)
        BY <2>1, <2>2 DEF Redeems, Linked, Slot
  <2>5. GrantHolds(w)
        BY <1>0, <2>1, <2>2, <2>4 DEF GrantHolds, HasWayIn
  <2> QED  BY <2>3, <2>5, BufferIsSafe
<1>5. CASE Waste(p)
  <2>1. PICK h \in handoffs : Buffer(p, [Same EXCEPT !.codes = {h.code}])
        BY <1>5 DEF Waste
  <2> DEFINE w == [Same EXCEPT !.codes = {h.code}]
  <2>2. /\ w.user = user /\ w.put = {} /\ w.drop = {} /\ w.spared = {}
        /\ w.sweep = FALSE /\ w.open = {}
        BY DEF Same
  <2>3. Buffer(p, w) /\ pc[p] = "body" /\ op[p] # "Reclaim"
        BY <1>5, <2>1 DEF Waste, In
  <2> HIDE DEF w
  <2>4. GrantHolds(w)
        BY <2>2 DEF GrantHolds, HasWayIn
  <2> QED  BY <2>3, <2>4, BufferIsSafe
<1>6. CASE ReclaimAccount(p)
  <2> DEFINE u == [user EXCEPT !.password = TRUE, !.generation = @ + 1]
             d == {i.id : i \in {x \in identities : x.email # user.email}}
             k == {i.id : i \in {x \in identities : x.email = user.email}}
             c == {h.code : h \in handoffs}
             l == {st \in states : st.intent = "link"}
             w == [Same EXCEPT !.user = u, !.drop = d, !.spared = k, !.codes = c, !.links = l, !.sweep = TRUE]
  <2>1. \A i \in identities : i.id \in d \/ i.id \in k
        OBVIOUS
  <2>2. Buffer(p, w) /\ pc[p] = "body" /\ op[p] = "Reclaim"
        BY <1>6 DEF ReclaimAccount, In
  <2>3. w.user = u /\ w.drop = d /\ w.spared = k /\ w.put = {} /\ w.open = {} /\ w.sweep
    <3> HIDE DEF u, d, k, c, l
    <3> QED  BY DEF Same
  <2> HIDE DEF w, d, k, c, l
  <2>4. ReclaimHolds(w)
        BY <2>1, <2>3 DEF ReclaimHolds
  <2> HIDE DEF u
  <2> QED  BY <2>2, <2>4, BufferIsSafe
<1> QED  BY <1>1, <1>2, <1>3, <1>4, <1>5, <1>6 DEF Body

\* What a commit does, in terms of the one write set it publishes.
LEMMA CommitPublishes ==
    ASSUME SafetyInv, NEW p \in Proc, Commit(p)
    PROVE  \E w \in writes[p] :
        /\ IF op[p] = "Reclaim" THEN ReclaimHolds(w) ELSE GrantHolds(w)
        /\ user' = w.user
        /\ \A i \in identities' : \/ i \in w.put
                                  \/ \E j \in identities :
                                        /\ i.id = j.id /\ j.id \notin w.drop
                                        /\ \A k \in w.put : k.id # j.id
                                        /\ i.linked = IF j.id \in w.spared THEN w.user.generation ELSE j.linked
                                        /\ i = [j EXCEPT !.linked = i.linked]
        /\ \A j \in identities : j.id \notin w.drop =>
                \E i \in identities' : i.id = j.id
        /\ w.put \subseteq identities'
        /\ handoffs' = {h \in handoffs : h.code \notin w.codes}
        /\ states' = states \ w.links
        /\ sessions' = IF w.sweep THEN {} ELSE sessions \cup w.open
        /\ history' = IF op[p] = "Reclaim"
                      THEN [reclaimed |-> w.user.generation, evicted |-> w.user.generation] ELSE history
<1>1. PICK w \in writes[p] :
        /\ user' = w.user
        /\ identities' = w.put \cup
             {[i EXCEPT !.linked = IF i.id \in w.spared THEN w.user.generation ELSE @] :
                 i \in {j \in identities : j.id \notin w.drop /\ \A k \in w.put : k.id # j.id}}
        /\ handoffs' = {h \in handoffs : h.code \notin w.codes}
        /\ states' = states \ w.links
        /\ sessions' = IF w.sweep THEN {} ELSE sessions \cup w.open
        /\ history' = IF op[p] = "Reclaim"
                      THEN [reclaimed |-> w.user.generation, evicted |-> w.user.generation] ELSE history
      BY DEF Commit
<1>2. IF op[p] = "Reclaim" THEN ReclaimHolds(w) ELSE GrantHolds(w)
      BY DEF SafetyInv, Safe, BuffersHold
<1> DEFINE Kin == {j \in identities : j.id \notin w.drop /\ \A k \in w.put : k.id # j.id}
           L(j) == IF j.id \in w.spared THEN w.user.generation ELSE j.linked
<1>3. identities' = w.put \cup {[j EXCEPT !.linked = L(j)] : j \in Kin}
      BY <1>1
<1>4. \A j \in Kin : /\ [j EXCEPT !.linked = L(j)].id = j.id
                     /\ [j EXCEPT !.linked = L(j)].linked = L(j)
                     /\ [j EXCEPT !.linked = L(j)] \in identities'
  <2>1. \A j \in Kin : j \in IdentityRow
        BY DEF SafetyInv, TypeOK
  <2> HIDE DEF Kin, L
  <2> QED  BY <1>3, <2>1 DEF IdentityRow
<1>5. \A i \in identities' : \/ i \in w.put
                             \/ \E j \in identities :
                                   /\ i.id = j.id /\ j.id \notin w.drop
                                   /\ \A k \in w.put : k.id # j.id
                                   /\ i.linked = L(j)
                                   /\ i = [j EXCEPT !.linked = i.linked]
  <2> SUFFICES ASSUME NEW i \in identities', i \notin w.put
               PROVE  \E j \in identities :
                                   /\ i.id = j.id /\ j.id \notin w.drop
                                   /\ \A k \in w.put : k.id # j.id
                                   /\ i.linked = L(j)
                                   /\ i = [j EXCEPT !.linked = i.linked]
      OBVIOUS
  <2>1. PICK j \in Kin : i = [j EXCEPT !.linked = L(j)]
        BY <1>3
  <2>2. i.id = j.id /\ i.linked = L(j)
        BY <1>4, <2>1
  <2>3. j \in identities /\ j.id \notin w.drop /\ \A k \in w.put : k.id # j.id
        OBVIOUS
  <2> HIDE DEF L, Kin
  <2>4. i = [j EXCEPT !.linked = i.linked]
        BY <2>1, <2>2
  <2> QED  BY <2>2, <2>3, <2>4
<1>6. w.put \subseteq identities'
      BY <1>3
<1>7. \A j \in identities : j.id \notin w.drop => \E i \in identities' : i.id = j.id
  <2> SUFFICES ASSUME NEW j \in identities, j.id \notin w.drop
               PROVE  \E i \in identities' : i.id = j.id
      OBVIOUS
  <2>1. CASE j \in Kin
        BY <1>4, <2>1
  <2>2. CASE j \notin Kin
        BY <1>6, <2>2
  <2> QED  BY <2>1, <2>2
<1> QED  BY <1>1, <1>2, <1>5, <1>6, <1>7

LEMMA CommitIsSafe ==
    ASSUME SafetyInv, TypeOK', NEW p \in Proc, Commit(p)
    PROVE  Safe'
<1>1. PICK w \in writes[p] :
        /\ IF op[p] = "Reclaim" THEN ReclaimHolds(w) ELSE GrantHolds(w)
        /\ user' = w.user
        /\ \A i \in identities' : \/ i \in w.put
                                  \/ \E j \in identities :
                                        /\ i.id = j.id /\ j.id \notin w.drop
                                        /\ \A k \in w.put : k.id # j.id
                                        /\ i.linked = IF j.id \in w.spared THEN w.user.generation ELSE j.linked
                                        /\ i = [j EXCEPT !.linked = i.linked]
        /\ \A j \in identities : j.id \notin w.drop =>
                \E i \in identities' : i.id = j.id
        /\ w.put \subseteq identities'
        /\ handoffs' = {h \in handoffs : h.code \notin w.codes}
        /\ states' = states \ w.links
        /\ sessions' = IF w.sweep THEN {} ELSE sessions \cup w.open
        /\ history' = IF op[p] = "Reclaim"
                      THEN [reclaimed |-> w.user.generation, evicted |-> w.user.generation] ELSE history
      BY CommitPublishes
<1>2. /\ TypeOK /\ pc[p] = "commit" /\ user.exists
      /\ \A q \in Proc \ {p} : pc[q] \notin {"body", "commit"} /\ writes[q] = {}
      BY DEF Commit, SafetyInv, Safe, AccountExists, OneHolder, Holds
<1>3. /\ \A q \in Proc \ {p} : pc'[q] = pc[q] /\ op'[q] = op[q] /\ seen'[q] = seen[q]
      /\ \A q \in Proc : writes'[q] = {}
      /\ pc'[p] \in {"mint", "idle"}
      /\ seen'[p] \in {seen[p], Nothing}
      BY <1>2 DEF Commit, TypeOK
<1>4. \A q \in Proc : /\ seen'[q].row \in {seen[q].row, {}}
                      /\ seen'[q].handoff \in {seen[q].handoff, {}} /\ seen'[q].as \in {seen[q].as, {}}
      BY <1>3 DEF Nothing
<1>5. /\ user.generation \in Nat /\ user'.generation \in Nat
      /\ history.evicted \in Nat /\ history.reclaimed \in Nat
      BY <1>2 DEF TypeOK, UserRow
<1>6. /\ user'.exists
      /\ user'.generation = IF op[p] = "Reclaim" THEN user.generation + 1 ELSE user.generation
      /\ history'.reclaimed = IF op[p] = "Reclaim" THEN user'.generation ELSE history.reclaimed
      /\ history'.evicted = IF op[p] = "Reclaim" THEN user'.generation ELSE history.evicted
  <2>1. CASE op[p] = "Reclaim"
    <3>1. w.user = [user EXCEPT !.password = TRUE, !.generation = @ + 1]
          BY <1>1, <2>1 DEF ReclaimHolds
    <3>2. w.user.exists = user.exists /\ w.user.generation = user.generation + 1
          BY <1>2, <3>1 DEF TypeOK, UserRow
    <3> QED  BY <1>1, <1>2, <2>1, <3>2
  <2>2. CASE op[p] # "Reclaim"
        BY <1>1, <1>2, <2>2 DEF GrantHolds
  <2> QED  BY <2>1, <2>2
<1>7. user.generation <= user'.generation
      BY <1>5, <1>6
<1>8. OneHolder'
      BY <1>2, <1>3 DEF OneHolder, Holds
<1>9. AccountExists'
      BY <1>6 DEF AccountExists
<1>10. GenerationsGrow'
  <2>1. history'.reclaimed <= history'.evicted /\ history'.evicted <= user'.generation
        BY <1>5, <1>6 DEF SafetyInv, Safe, GenerationsGrow
  <2>2. ASSUME NEW h \in handoffs PROVE h.generation <= user'.generation
    <3>1. h.generation <= user.generation /\ h.generation \in Nat
          BY DEF SafetyInv, TypeOK, HandoffRow, Safe, GenerationsGrow
    <3> QED  BY <1>5, <1>7, <3>1
  <2>3. ASSUME NEW q \in Proc, NEW row \in seen[q].row PROVE row.generation <= user'.generation
    <3>1. row.generation <= user.generation
          BY DEF SafetyInv, Safe, GenerationsGrow
    <3>2. row.generation \in Nat
          BY DEF SafetyInv, TypeOK, Seen, UserRow
    <3> QED  BY <1>5, <1>7, <3>1, <3>2
  <2> QED  BY <1>1, <1>4, <2>1, <2>2, <2>3 DEF GenerationsGrow
<1>11. EvidenceHolds'
  <2> SUFFICES ASSUME NEW q \in Proc, NEW h \in seen[q].handoff
               PROVE  /\ h.generation <= user'.generation
                      /\ \A g \in seen[q].as : h.generation = user'.generation => g >= history'.reclaimed
      BY <1>4 DEF EvidenceHolds
  <2>1. h.generation \in Nat
        BY DEF SafetyInv, TypeOK, Seen, HandoffRow
  <2>2. /\ h.generation <= user.generation
        /\ \A g \in seen[q].as : h.generation = user.generation => g >= history.reclaimed
        BY DEF SafetyInv, Safe, EvidenceHolds
  <2>3. CASE op[p] = "Reclaim"
        BY <1>5, <1>6, <2>1, <2>2, <2>3
  <2>4. CASE op[p] # "Reclaim"
        BY <1>5, <1>6, <2>1, <2>2, <2>4
  <2> QED  BY <2>3, <2>4
<1>12. UniqueIds'
  <2> SUFFICES ASSUME NEW i \in identities', NEW k \in identities', i.id = k.id
               PROVE  i = k
      BY DEF UniqueIds
  <2>1. \A x, y \in w.put : x = y
        BY <1>1 DEF ReclaimHolds, GrantHolds
  <2>2. CASE i \in w.put \/ k \in w.put
        BY <1>1, <2>1, <2>2
  <2>3. CASE i \notin w.put /\ k \notin w.put
    <3>1. PICK j \in identities : /\ i.id = j.id /\ i = [j EXCEPT !.linked = i.linked]
                                  /\ i.linked = IF j.id \in w.spared THEN w.user.generation ELSE j.linked
          BY <1>1, <2>3
    <3>2. PICK l \in identities : /\ k.id = l.id /\ k = [l EXCEPT !.linked = k.linked]
                                  /\ k.linked = IF l.id \in w.spared THEN w.user.generation ELSE l.linked
          BY <1>1, <2>3
    <3>3. j = l
          BY <3>1, <3>2 DEF SafetyInv, Safe, UniqueIds
    <3>4. i.linked = k.linked
          BY <3>1, <3>2, <3>3
    <3> QED  BY <3>1, <3>2, <3>3, <3>4
  <2> QED  BY <2>2, <2>3
<1>13. BuffersHold'
      BY <1>3 DEF BuffersHold
<1>14. NoWayInOutlivesReclaim'
  <2>1. CASE op[p] = "Reclaim"
    <3>1. sessions' = {}
          BY <1>1, <2>1 DEF ReclaimHolds
    <3>2. \A i \in identities' : i.linked = user'.generation
          BY <1>1, <2>1 DEF ReclaimHolds
    <3>3. user'.generation >= user'.generation
          BY <1>5
    <3> QED  BY <1>6, <2>1, <3>1, <3>2, <3>3 DEF NoWayInOutlivesReclaim
  <2>2. CASE op[p] # "Reclaim"
    <3>1. \A g \in sessions' : g >= history.evicted
          BY <1>1, <2>2 DEF GrantHolds, SafetyInv, Safe, NoWayInOutlivesReclaim
    <3>2. \A i \in identities' : i.linked >= history.reclaimed
          BY <1>1, <2>2 DEF GrantHolds, SafetyInv, Safe, NoWayInOutlivesReclaim
    <3> QED  BY <1>6, <2>2, <3>1, <3>2 DEF NoWayInOutlivesReclaim
  <2> QED  BY <2>1, <2>2
<1> QED  BY <1>8, <1>9, <1>10, <1>11, <1>12, <1>13, <1>14 DEF Safe

------------------------------------------------------------------------------
(* The account's own side, and time *)

LEMMA AccountIsSafe ==
    ASSUME SafetyInv, TypeOK', Account
    PROVE  Safe'
<1>0. /\ TypeOK /\ user.generation \in Nat /\ history.evicted \in Nat /\ history.reclaimed \in Nat
      /\ history.reclaimed <= history.evicted /\ history.evicted <= user.generation
      /\ \A g \in sessions : g >= history.evicted
      /\ \A q \in Proc : \A row \in seen[q].row : row.generation <= user.generation
      BY DEF SafetyInv, TypeOK, UserRow, Safe, GenerationsGrow, NoWayInOutlivesReclaim
<1>1. /\ \A q \in Proc : pc[q] \notin {"body", "commit"} /\ writes[q] = {}
      /\ user.exists
      /\ UNCHANGED <<setting, identities, states, handoffs, pc, op, seen, writes>>
      BY NobodyBuffers DEF Account, SignIn, AdminDeactivate, AdminActivate, SafetyInv, Safe, AccountExists
<1>2. CASE SignIn
  <2>1. /\ sessions' = sessions \cup {user.generation} /\ user' = user /\ history' = history
        BY <1>2 DEF SignIn
  <2>2. \A g \in sessions' : g >= history.evicted
        BY <1>0, <2>1
  <2> QED  BY <1>0, <1>1, <2>1, <2>2, FreeStepIsSafe
<1>3. CASE AdminDeactivate
  <2>1. /\ user' = [user EXCEPT !.active = FALSE, !.generation = @ + 1] /\ sessions' = {}
        /\ history' = [history EXCEPT !.evicted = user'.generation]
        BY <1>3 DEF AdminDeactivate
  <2>2. user'.exists /\ user'.generation = user.generation + 1
        BY <1>0, <1>1, <2>1 DEF TypeOK, UserRow
  <2>3. history'.evicted = user'.generation /\ history'.reclaimed = history.reclaimed
        BY <1>0, <2>1 DEF TypeOK
  <2>4. /\ user.generation <= user'.generation /\ history.reclaimed <= user'.generation
        /\ user'.generation <= user'.generation
        BY <1>0, <2>2
  <2>5. \A q \in Proc : \A row \in seen[q].row : row.generation <= user'.generation
    <3>1. \A q \in Proc : \A row \in seen[q].row : row.generation \in Nat
          BY <1>0 DEF TypeOK, Seen, UserRow
    <3> QED  BY <1>0, <2>2, <3>1
  <2> QED  BY <1>0, <1>1, <2>1, <2>2, <2>3, <2>4, <2>5, FreeStepIsSafe
<1>4. CASE AdminActivate
  <2>1. user' = [user EXCEPT !.active = TRUE] /\ sessions' = sessions /\ history' = history
        BY <1>4 DEF AdminActivate
  <2>2. user'.exists /\ user'.generation = user.generation
        BY <1>0, <1>1, <2>1 DEF TypeOK, UserRow
  <2>3. user.generation <= user'.generation
        BY <1>0, <2>2
  <2> QED  BY <1>0, <1>1, <2>1, <2>2, <2>3, FreeStepIsSafe
<1> QED  BY <1>2, <1>3, <1>4 DEF Account

\* Requests that begin at the provider, and rows that lapse.
LEMMA LapseIsSafe ==
    ASSUME SafetyInv, StartLogin \/ LapseHandoff \/ LapseState
    PROVE  Safe'
<1>1. UNCHANGED <<setting, user, identities, sessions, pc, op, seen, writes, history>>
      BY DEF StartLogin, Begin, LapseHandoff, LapseState
<1>2. /\ handoffs' \subseteq handoffs
      /\ \A h \in handoffs \ handoffs' : ~CodeLocked(h.code)
      BY DEF StartLogin, Begin, LapseHandoff, LapseState
<1>3. \A st \in states' : st \in states \/ st.intent = "login"
      BY DEF StartLogin, Begin, LapseHandoff, LapseState
<1>4. OneHolder' /\ GenerationsGrow' /\ EvidenceHolds' /\ UniqueIds' /\ NoWayInOutlivesReclaim'
      BY <1>1, <1>2 DEF SafetyInv, Safe, OneHolder, Holds, GenerationsGrow, EvidenceHolds, UniqueIds,
                        NoWayInOutlivesReclaim
<1>5. AccountExists'
      BY <1>1, <1>2, <1>3 DEF SafetyInv, Safe, AccountExists
<1>6. BuffersHold'
  <2> SUFFICES ASSUME NEW q \in Proc, NEW w \in writes[q]
               PROVE  IF op[q] = "Reclaim" THEN ReclaimHolds(w)' ELSE GrantHolds(w)'
      BY <1>1 DEF BuffersHold
  <2>1. IF op[q] = "Reclaim" THEN ReclaimHolds(w) ELSE GrantHolds(w)
        BY DEF SafetyInv, Safe, BuffersHold
  <2>2. ReclaimHolds(w) => ReclaimHolds(w)'
        BY <1>1 DEF ReclaimHolds
  <2>3. Redeems(w) => Redeems(w)'
        BY <1>1, <1>2 DEF Redeems, CodeLocked, Slot
  <2>4. GrantHolds(w) => GrantHolds(w)'
        BY <1>1, <2>3 DEF GrantHolds, HasWayIn, PasswordWorks
  <2> QED  BY <2>1, <2>2, <2>4
<1> QED  BY <1>4, <1>5, <1>6 DEF Safe

LEMMA GiveUpIsSafe ==
    ASSUME SafetyInv, NEW p \in Proc, GiveUp(p)
    PROVE  Safe'
<1>1. Finish(p) /\ Kept /\ UNCHANGED <<handoffs, states>>
      BY DEF GiveUp, Kept, stored
<1>2. HandoffsStay(p)
      BY <1>1 DEF HandoffsStay, SafetyInv, Safe, AccountExists
<1> QED  BY <1>1, <1>2, FinishIsSafe

------------------------------------------------------------------------------
(* The invariant, and what it shows *)

LEMMA NextIsSafe ==
    ASSUME SafetyInv, [Next]_vars
    PROVE  SafetyInv'
<1>1. TypeOK'
      BY NextKeepsTypes DEF SafetyInv
<1>2. CASE UNCHANGED vars
  <2>1. UNCHANGED <<setting, user, identities, states, handoffs, sessions, pc, op, seen, writes, history>>
        BY <1>2 DEF vars
  <2>2. OneHolder' /\ AccountExists' /\ GenerationsGrow' /\ EvidenceHolds' /\ UniqueIds' /\ NoWayInOutlivesReclaim'
        BY <2>1 DEF SafetyInv, Safe, OneHolder, Holds, AccountExists, GenerationsGrow, EvidenceHolds,
                    UniqueIds, NoWayInOutlivesReclaim
  <2>3. BuffersHold'
        BY <2>1 DEF SafetyInv, Safe, BuffersHold, ReclaimHolds, GrantHolds, Redeems, Slot, HasWayIn, PasswordWorks
  <2> QED  BY <1>1, <2>2, <2>3 DEF SafetyInv, Safe
<1>3. CASE Next
  <2>1. Safe'
        BY <1>1, <1>3, ArriveIsSafe, ProceedIsSafe, LockIsSafe, BodyIsSafe, CommitIsSafe, GiveUpIsSafe,
           LapseIsSafe, AccountIsSafe DEF Next
  <2> QED  BY <1>1, <2>1 DEF SafetyInv
<1> QED  BY <1>2, <1>3

LEMMA InitIsSafe == Init => SafetyInv
<1> SUFFICES ASSUME Init PROVE SafetyInv
    OBVIOUS
<1>1. PICK e \in Email, password \in BOOLEAN :
        \/ user = NoUser(e) /\ identities = {} /\ sessions = {}
        \/ /\ user = [NoUser(e) EXCEPT !.exists = TRUE, !.active = TRUE, !.password = password]
           /\ \/ identities = {}
              \/ \E n \in Identity, who \in setting.who, vouched \in Email :
                    identities = {[id |-> n, provider |-> who[1], subject |-> who[2],
                                   email |-> vouched, linked |-> 0]}
           /\ sessions = {0}
      BY DEF Init
<1>2. /\ states = {} /\ handoffs = {}
      /\ history.reclaimed = 0 /\ history.evicted = 0
      /\ \A p \in Proc : pc[p] = "idle" /\ op[p] = "none" /\ seen[p] = Nothing /\ writes[p] = {}
      BY DEF Init
<1>3. /\ user.generation = 0
      /\ user.exists \/ (sessions = {} /\ ~user.active /\ ~user.password)
  <2>1. CASE user = NoUser(e) /\ sessions = {}
        BY <2>1 DEF NoUser
  <2>2. CASE user = [NoUser(e) EXCEPT !.exists = TRUE, !.active = TRUE, !.password = password]
    <3>1. user.generation = NoUser(e).generation /\ user.exists = TRUE
          BY <2>2 DEF NoUser
    <3> QED  BY <3>1 DEF NoUser
  <2> QED  BY <1>1, <2>1, <2>2
<1>4. OneHolder /\ AccountExists
      BY <1>2, <1>3 DEF OneHolder, Holds, AccountExists
<1>5. GenerationsGrow /\ EvidenceHolds /\ BuffersHold
      BY <1>2, <1>3 DEF GenerationsGrow, EvidenceHolds, BuffersHold, Nothing
<1>6. UniqueIds /\ \A i \in identities : i.linked = 0
      BY <1>1 DEF UniqueIds
<1>7. \A g \in sessions : g = 0
      BY <1>1
<1>8. NoWayInOutlivesReclaim
      BY <1>2, <1>6, <1>7 DEF NoWayInOutlivesReclaim
<1> QED  BY <1>4, <1>5, <1>6, <1>8, InitHasTypes DEF SafetyInv, Safe

LEMMA SafetyHolds == Spec => []SafetyInv
BY InitIsSafe, NextIsSafe, PTL DEF Spec

\* No session or identity survives a reclaim, nor a session a deactivation, on
\* authority from before it, whatever was in flight.
THEOREM ReclaimLeavesNoWayIn == Spec => []NoWayInOutlivesReclaim
<1>1. SafetyInv => NoWayInOutlivesReclaim
      BY DEF SafetyInv, Safe
<1> QED  BY <1>1, SafetyHolds, PTL

\* A hand-off is redeemed once, and only for a provider that is still linked.
THEOREM HandoffsAreRedeemedWhileLinked == Spec => RedeemedOnlyWhileLinked
<1> DEFINE A == \A p \in Proc : Commit(p) /\ (\E w \in writes[p] : w.open # {}) =>
                    /\ user.active
                    /\ \E h \in handoffs \ handoffs' : h.kind = "login" /\ Slot(h.provider) # {}
<1>1. ASSUME SafetyInv PROVE A
  <2> SUFFICES ASSUME NEW p \in Proc, Commit(p), NEW v \in writes[p], v.open # {}
               PROVE  /\ user.active
                      /\ \E h \in handoffs \ handoffs' : h.kind = "login" /\ Slot(h.provider) # {}
      OBVIOUS
  <2>1. PICK w \in writes[p] : handoffs' = {h \in handoffs : h.code \notin w.codes}
        BY DEF Commit
  <2>2. v = w
        BY <1>1 DEF SafetyInv, Safe, OneHolder
  <2> QED  BY <1>1, <2>1, <2>2 DEF SafetyInv, Safe, BuffersHold, ReclaimHolds, GrantHolds, Redeems
<1>2. SafetyInv /\ [Next]_vars => [A]_vars
      BY <1>1
<1> QED  BY <1>2, SafetyHolds, PTL DEF Spec, RedeemedOnlyWhileLinked

\* Nothing but a commit takes a password or the last identity away.
LEMMA OnlyCommitsTake ==
    ASSUME SafetyInv, [Next]_vars, \A p \in Proc : ~Commit(p)
    PROVE  /\ setting' = setting
           /\ user.password => user'.password
           /\ identities # {} => identities' # {}
<1>0. TypeOK
      BY DEF SafetyInv
<1>1. CASE UNCHANGED vars
      BY <1>1 DEF vars
<1>2. ASSUME NEW p \in Proc, Arrive(p) \/ LockRow(p) \/ GiveUp(p) \/ Body(p)
      PROVE  setting' = setting /\ user' = user /\ identities' = identities
  <2>1. CASE Arrive(p)
        BY <2>1 DEF Arrive, Callback, ExchangeHandoff, AskLink, AskCompletion, AskUnlink, AskReclaim,
                    Authenticate, Start, stored
  <2>2. CASE LockRow(p) \/ GiveUp(p)
        BY <2>2 DEF LockRow, GiveUp, Move, Finish, stored
  <2>3. CASE Body(p)
        BY <1>0, <2>3, BodyBuffersAWriteSet DEF Buffer, stored
  <2> QED  BY <1>2, <2>1, <2>2, <2>3
<1>3. ASSUME NEW p \in Proc, Proceed(p)
      PROVE  /\ setting' = setting
             /\ user.password => user'.password
             /\ identities # {} => identities' # {}
  <2>1. CASE RefreshIdentity(p)
    <3>1. identities' # {}
          BY <2>1 DEF RefreshIdentity
    <3> QED  BY <2>1, <3>1 DEF RefreshIdentity, Move
  <2>2. CASE ReplaceVerifiedEmail(p)
    <3>1. PICK c \in seen[p].says : user' \in {user, [user EXCEPT !.email = c.email]}
          BY <2>2 DEF ReplaceVerifiedEmail
    <3>2. user'.password = user.password
          BY <1>0, <3>1 DEF TypeOK, UserRow
    <3> QED  BY <2>2, <3>2 DEF ReplaceVerifiedEmail, Move
  <2>3. CASE ProvisionExternal(p)
    <3>1. ~user.password
          BY <2>3 DEF ProvisionExternal, SafetyInv, Safe, AccountExists
    <3> QED  BY <2>3, <3>1 DEF ProvisionExternal
  <2>4. CASE ~RefreshIdentity(p) /\ ~ReplaceVerifiedEmail(p) /\ ~ProvisionExternal(p)
        BY <1>3, <2>4 DEF Proceed, StartLink, Begin, FindIdentity, FindOwner, WaitForIdentity, MayMirror,
              SkipMirror, MintHandoff, FindByEmail, FindLinkOwner, CheckLink, ConsumeLink, PrepareUnlink,
              Move, Finish, stored
  <2> QED  BY <2>1, <2>2, <2>3, <2>4
<1>4. CASE StartLogin \/ LapseHandoff \/ LapseState
      BY <1>4 DEF StartLogin, Begin, LapseHandoff, LapseState
<1>5. CASE Account
  <2>1. user'.password = user.password
        BY <1>0, <1>5 DEF Account, SignIn, AdminDeactivate, AdminActivate, TypeOK, UserRow
  <2> QED  BY <1>5, <2>1 DEF Account, SignIn, AdminDeactivate, AdminActivate
<1> QED  BY <1>1, <1>2, <1>3, <1>4, <1>5 DEF Next

\* A way in stays, whatever meets, unless an operator sets a password that the
\* deployment does not take.
THEOREM NobodyIsLockedOut == Spec => LastWayInStays
<1> DEFINE A == HasWayIn =>
                HasWayIn' \/ \E p \in Proc : Commit(p) /\ op[p] = "Reclaim" /\ ~setting.passwordLogin
<1>1. ASSUME SafetyInv, [Next]_vars PROVE A
  <2>1. CASE \A p \in Proc : ~Commit(p)
        BY <1>1, <2>1, OnlyCommitsTake DEF HasWayIn, PasswordWorks
  <2>2. ASSUME NEW p \in Proc, Commit(p) PROVE A
    <3>1. PICK w \in writes[p] :
            /\ IF op[p] = "Reclaim" THEN ReclaimHolds(w) ELSE GrantHolds(w)
            /\ user' = w.user
            /\ \A j \in identities : j.id \notin w.drop => \E i \in identities' : i.id = j.id
            /\ w.put \subseteq identities'
          BY <1>1, <2>2, CommitPublishes
    <3>2. setting' = setting
          BY <2>2 DEF Commit
    <3>3. CASE op[p] = "Reclaim"
      <4>1. user' = [user EXCEPT !.password = TRUE, !.generation = @ + 1]
            BY <3>1, <3>3 DEF ReclaimHolds
      <4>2. user'.password
            BY <1>1, <4>1 DEF SafetyInv, TypeOK, UserRow
      <4> QED  BY <2>2, <3>2, <3>3, <4>2 DEF HasWayIn, PasswordWorks
    <3>4. CASE op[p] # "Reclaim"
          BY <3>1, <3>2, <3>4 DEF GrantHolds, HasWayIn, PasswordWorks
    <3> QED  BY <3>3, <3>4
  <2> QED  BY <2>1, <2>2
<1>2. SafetyInv /\ [Next]_vars => [A]_vars
      BY <1>1
<1> QED  BY <1>2, SafetyHolds, PTL DEF Spec, LastWayInStays
==============================================================================
