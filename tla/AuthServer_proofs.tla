--------------------------- MODULE AuthServer_proofs ---------------------------
(***************************************************************************)
(* Proofs about AuthServer, for any number of requests, clients, codes and *)
(* grants, any operations in use and any bounds.                           *)
(***************************************************************************)
EXTENDS AuthServer, TLAPS

\* The rows of grants, between transactions and statements.
GrantSound(g) ==
    /\ grants[g].state = "absent" => grants[g] = NoGrant
    /\ grants[g].state # "absent" => \E c \in Client : grants[g].client = {c}
    /\ grants[g].current = grants[g].last
    /\ grants[g].last <= MaxIssued
    /\ \A n \in grants[g].prev : n < grants[g].current
    /\ grants[g].rotatedAt <= grants[g].turnedAt
    /\ grants[g].turnedAt <= now

AccountSound == /\ account.evicted <= account.generation
                /\ \A s \in account.sessions : account.evicted <= s

\* A code that stands, in its row or with the exchange that consumed it.
CodeHolds(r) ==
    /\ clients[r.client] = "used"
    /\ r.generation <= account.generation
    /\ r.generation = account.generation => r.since >= account.evicted
    /\ \A g \in Grant : r.id \notin grants[g].code

CodesSound ==
    /\ \A r \in codes : CodeHolds(r)
    /\ \A r, s \in codes : r.id = s.id => r = s
    /\ \A p \in Proc : \A r \in seen[p].code : CodeHolds(r) /\ (\A s \in codes : s.id # r.id)
    /\ \A p, q \in Proc : \A r \in seen[p].code, s \in seen[q].code :
            r.id = s.id => p = q /\ r = s

\* No access token of an idle grant is left either, which may be deleted.
AccessIsLive == \A a \in access : grants[a[1]].state = "live"

RowsSound ==
    /\ \A g \in Grant : GrantSound(g)
    /\ AccountSound
    /\ CodesSound
    /\ ConnectedClientsStay
    /\ AccessIsLive
    /\ OneConnectionPerClient
    /\ NoGrantOutlivesReclaim
    /\ CodeBuysOneGrant
    /\ EveryIssuedTokenIsKnown

\* What a request knows of the token it was given, and is still true.
TokenHolds(p, t) ==
    /\ grants[t[1]].state # "absent"
    /\ t[2] <= grants[t[1]].last
    /\ seen[p].valid /\ t[2] \in grants[t[1]].prev => grants[t[1]].turnedAt >= seen[p].at
    /\ seen[p].stale /\ t[1] \in Unrevoked =>
            /\ t[2] # grants[t[1]].current
            /\ t[2] \in grants[t[1]].prev => seen[p].at - grants[t[1]].turnedAt > Grace
    /\ seen[p].stale => pc[p] \in {"find", "findSpent"} \/ op[p] = "Disconnect"

SeenHolds ==
    \A p \in Proc :
        /\ seen[p].at <= now
        /\ \A t \in seen[p].token : TokenHolds(p, t)
        /\ \A t, u \in seen[p].token : t = u

OneHolder == \A p, q \in Proc : Holding(p) /\ Holding(q) => p = q

\* What an open transaction will commit is what its body would write now.
WouldIssue(p, w, r) ==
    /\ w = [Same EXCEPT !.code = {r}]
    /\ clients[r.client] # "absent"
    /\ r.generation = account.generation
    /\ r.since >= account.evicted
    /\ \A s \in codes : s.id # r.id
    /\ \A q \in Proc : \A s \in seen[q].code : s.id # r.id
    /\ \A g \in Grant : r.id \notin grants[g].code

WouldOpen(p, w, r, g) ==
    /\ w = [Same EXCEPT !.open = {<<g, FirstToken(r)>>}, !.close = Earlier(r),
              !.sweep = AccessOf(Earlier(r))]
    /\ grants[g].state = "absent"
    /\ r.generation = account.generation

WouldTurn(p, w, t) ==
    /\ w = [Same EXCEPT !.turn = {t}]
    /\ t[1] \in Unrevoked
    /\ grants[t[1]].current = t[2]
    /\ grants[t[1]].last < MaxIssued

WouldClose(p, w, t) ==
    w = [Same EXCEPT !.close = Unrevoked \cap {t[1]}, !.sweep = AccessOf({t[1]})]

WouldReclaim(p, w) ==
    w = [Same EXCEPT !.close = Unrevoked, !.sweep = access, !.reclaim = TRUE]

Would(p, w) ==
    \/ op[p] = "Approve" /\ \E r \in CodeRow : WouldIssue(p, w, r)
    \/ op[p] = "Exchange" /\ \E r \in seen[p].code, g \in Grant : WouldOpen(p, w, r, g)
    \/ op[p] = "Refresh" /\ \E t \in seen[p].token : WouldTurn(p, w, t)
    \/ op[p] = "Disconnect" /\ \E t \in seen[p].token : WouldClose(p, w, t)
    \/ op[p] = "Reclaim" /\ WouldReclaim(p, w)

BuffersHold ==
    \A p \in Proc : /\ pc[p] # "commit" => writes[p] = {}
                    /\ \A w \in writes[p] : Would(p, w)

AnswersHold == \A g \in answered : g \notin Unrevoked /\ grants[g].state # "absent"

IInv == TypeOK /\ RowsSound /\ SeenHolds /\ OneHolder /\ BuffersHold /\ AnswersHold

-------------------------------------------------------------------------------
(* The initial states *)

LEMMA InitHolds == Init => IInv
<1> SUFFICES ASSUME Init PROVE IInv
    OBVIOUS
<1> USE BoundsAssumption
<1>1. TypeOK
    BY DEF Init, TypeOK, Account, NoGrant, GrantRow, Nothing, Seen, WriteSet, AllOperations
<1>2. Unrevoked = {}
    BY DEF Init, Unrevoked, NoGrant
<1>3. RowsSound
    BY <1>2 DEF Init, RowsSound, GrantSound, AccountSound, CodesSound, CodeHolds, NoGrant, Nothing,
        ConnectedClientsStay, AccessIsLive, OneConnectionPerClient,
        NoGrantOutlivesReclaim, CodeBuysOneGrant, EveryIssuedTokenIsKnown
<1>4. SeenHolds /\ OneHolder /\ BuffersHold /\ AnswersHold
    BY DEF Init, SeenHolds, OneHolder, Holding, BuffersHold, AnswersHold, Nothing
<1> QED BY <1>1, <1>3, <1>4 DEF IInv

-------------------------------------------------------------------------------
(* Steps that change no row *)

\* Facts about rows outlive a step that changes none, and only forgets codes
\* that were read.
LEMMA RowsKept ==
    ASSUME RowsSound, UNCHANGED rows,
           \A p \in Proc : seen'[p].code \subseteq seen[p].code
    PROVE  RowsSound'
<1>1. Unrevoked' = Unrevoked
    BY DEF rows, Unrevoked
<1>2. CodesSound'
    BY DEF RowsSound, CodesSound, CodeHolds, rows
<1> QED BY <1>1, <1>2 DEF RowsSound, GrantSound, AccountSound, ConnectedClientsStay,
        AccessIsLive, OneConnectionPerClient, NoGrantOutlivesReclaim,
        CodeBuysOneGrant, EveryIssuedTokenIsKnown, rows

\* What the others know and will commit, when no row changes and p alone moves,
\* reading no code.
LEMMA OthersKept ==
    ASSUME NEW p \in Proc, IInv, UNCHANGED rows,
           \A q \in Proc : seen'[q].code \subseteq seen[q].code,
           \A q \in Proc \ {p} : /\ pc'[q] = pc[q] /\ op'[q] = op[q]
                                 /\ seen'[q] = seen[q] /\ writes'[q] = writes[q]
    PROVE  \A q \in Proc \ {p} :
            /\ seen'[q].at <= now'
            /\ \A t \in seen'[q].token : TokenHolds(q, t)'
            /\ \A t, u \in seen'[q].token : t = u
            /\ pc'[q] # "commit" => writes'[q] = {}
            /\ \A w \in writes'[q] : Would(q, w)'
<1> SUFFICES ASSUME NEW q \in Proc \ {p}
             PROVE  /\ seen'[q].at <= now'
                    /\ \A t \in seen'[q].token : TokenHolds(q, t)'
                    /\ \A t, u \in seen'[q].token : t = u
                    /\ pc'[q] # "commit" => writes'[q] = {}
                    /\ \A w \in writes'[q] : Would(q, w)'
    OBVIOUS
<1>1. Unrevoked' = Unrevoked
    BY DEF rows, Unrevoked
<1>2. \A r : Earlier(r)' = Earlier(r)
    BY <1>1 DEF rows, Earlier
<1>3. \A G : AccessOf(G)' = AccessOf(G)
    BY DEF rows, AccessOf
<1>4. /\ seen'[q].at <= now'
      /\ \A t, u \in seen'[q].token : t = u
      /\ pc'[q] # "commit" => writes'[q] = {}
    BY DEF IInv, SeenHolds, BuffersHold, rows
<1>5. \A t \in seen'[q].token : TokenHolds(q, t)'
    BY <1>1 DEF IInv, SeenHolds, TokenHolds, rows
<1>6. ASSUME NEW w \in writes'[q]
      PROVE  Would(q, w)'
    <2>1. Would(q, w)
        BY <1>6 DEF IInv, BuffersHold
    <2>2. ASSUME NEW r, WouldIssue(q, w, r)
          PROVE  WouldIssue(q, w, r)'
        BY <2>2 DEF WouldIssue, rows
    <2>3. ASSUME NEW r, NEW g, WouldOpen(q, w, r, g)
          PROVE  WouldOpen(q, w, r, g)'
        BY <2>3, <1>2, <1>3 DEF WouldOpen, rows
    <2>4. ASSUME NEW t, WouldTurn(q, w, t)
          PROVE  WouldTurn(q, w, t)'
        BY <2>4, <1>1 DEF WouldTurn, rows
    <2>5. ASSUME NEW t, WouldClose(q, w, t)
          PROVE  WouldClose(q, w, t)'
        BY <2>5, <1>1, <1>3 DEF WouldClose, rows
    <2>6. WouldReclaim(q, w) => WouldReclaim(q, w)'
        BY <1>1 DEF WouldReclaim, rows
    <2> QED BY <2>1, <2>2, <2>3, <2>4, <2>5, <2>6 DEF Would
<1> QED BY <1>4, <1>5, <1>6

\* A step of p that changes no row is safe if it leaves p as it should.
LEMMA MoveHolds ==
    ASSUME NEW p \in Proc, IInv, TypeOK', UNCHANGED rows,
           \A q \in Proc : seen'[q].code \subseteq seen[q].code,
           \A q \in Proc \ {p} : /\ pc'[q] = pc[q] /\ op'[q] = op[q]
                                 /\ seen'[q] = seen[q] /\ writes'[q] = writes[q],
           seen'[p].at <= now',
           \A t \in seen'[p].token : TokenHolds(p, t)',
           \A t, u \in seen'[p].token : t = u,
           pc'[p] # "commit" => writes'[p] = {},
           \A w \in writes'[p] : Would(p, w)',
           pc'[p] \in {"body", "commit"} => \A q \in Proc : Holding(q) => q = p,
           AnswersHold'
    PROVE  IInv'
<1>1. RowsSound'
    BY RowsKept DEF IInv
<1>2. \A q \in Proc \ {p} :
            /\ seen'[q].at <= now'
            /\ \A t \in seen'[q].token : TokenHolds(q, t)'
            /\ \A t, u \in seen'[q].token : t = u
            /\ pc'[q] # "commit" => writes'[q] = {}
            /\ \A w \in writes'[q] : Would(q, w)'
    BY OthersKept
<1>3. SeenHolds'
    BY <1>2 DEF SeenHolds
<1>4. BuffersHold'
    BY <1>2 DEF BuffersHold
<1>5. OneHolder'
    BY DEF IInv, OneHolder, Holding
<1> QED BY <1>1, <1>3, <1>4, <1>5 DEF IInv

\* What a request has read when it begins.
Fits(s) ==
    /\ s.code = {}
    /\ s.at <= now
    /\ \A t, u \in s.token : t = u
    /\ \A t \in s.token :
        /\ grants[t[1]].state # "absent"
        /\ t[2] <= grants[t[1]].last
        /\ s.valid /\ t[2] \in grants[t[1]].prev => grants[t[1]].turnedAt >= s.at
        /\ s.stale /\ t[1] \in Unrevoked =>
                /\ t[2] # grants[t[1]].current
                /\ t[2] \in grants[t[1]].prev => s.at - grants[t[1]].turnedAt > Grace

\* A request that has just begun knows only what is so.
LEMMA StartHolds ==
    ASSUME NEW p \in Proc, IInv, NEW o, NEW where \in {"lock", "find"}, NEW s \in Seen,
           o \in AllOperations, Start(p, o, where, s),
           Fits(s), s.stale => where = "find"
    PROVE  IInv'
<1>1. TypeOK'
    BY DEF IInv, TypeOK, Start, rows
<1>2. /\ pc' = [pc EXCEPT ![p] = where] /\ op' = [op EXCEPT ![p] = o]
      /\ seen' = [seen EXCEPT ![p] = s] /\ writes' = writes
      /\ UNCHANGED rows /\ answered' = answered /\ pc[p] = "idle"
    BY DEF Start
<1>3. /\ seen'[p] = s /\ pc'[p] = where /\ op'[p] = o
      /\ \A q \in Proc \ {p} : pc'[q] = pc[q] /\ op'[q] = op[q] /\ seen'[q] = seen[q]
    BY <1>2 DEF IInv, TypeOK
<1>4. writes'[p] = {}
    BY <1>2 DEF IInv, BuffersHold
<1>5. Unrevoked' = Unrevoked /\ grants' = grants /\ now' = now
    BY <1>2 DEF rows, Unrevoked
<1>6. \A t \in seen'[p].token : TokenHolds(p, t)'
    BY <1>3, <1>5 DEF TokenHolds, Fits
<1>7. AnswersHold'
    BY <1>2, <1>5 DEF IInv, AnswersHold
<1>8. \A q \in Proc : seen'[q].code \subseteq seen[q].code
    BY <1>3 DEF Fits
<1>9. seen'[p].at <= now' /\ \A t, u \in seen'[p].token : t = u
    BY <1>3, <1>5 DEF Fits
<1> QED BY <1>1, <1>2, <1>3, <1>4, <1>5, <1>6, <1>7, <1>8, <1>9, MoveHolds

LEMMA ArriveHolds ==
    ASSUME NEW p \in Proc, IInv, Approve(p) \/ Refresh(p) \/ Disconnect(p) \/ Reclaim(p)
    PROVE  IInv'
<1> USE BoundsAssumption
<1>0. now \in Nat
    BY DEF IInv, TypeOK
<1>a. ASSUME NEW s \in Seen, s.code = {}, s.at = 0, s.token = {}
      PROVE  Fits(s)
    BY <1>0, <1>a DEF Fits
<1>1. CASE Approve(p)
    <2>1. PICK x \in account.sessions, c \in Client :
            Start(p, "Approve", "lock", [Nothing EXCEPT !.session = {x}, !.client = {c}])
        BY <1>1 DEF Approve
    <2> DEFINE s == [Nothing EXCEPT !.session = {x}, !.client = {c}]
    <2>2. x \in Nat
        BY DEF IInv, TypeOK, Account
    <2>3. s \in Seen /\ s.code = {} /\ s.at = 0 /\ s.token = {} /\ ~s.stale
        BY <2>2 DEF Nothing, Seen
    <2>6. Fits(s)
        BY <2>3, <1>a
    <2>4. Start(p, "Approve", "lock", s)
        BY <2>1
    <2>5. "Approve" \in AllOperations
        BY DEF AllOperations
    <2> HIDE DEF s
    <2> QED BY <2>3, <2>4, <2>5, <2>6, StartHolds
<1>2. CASE Refresh(p)
    <2>1. PICK g \in Grant, n \in 0 .. MaxIssued :
            /\ g \in Unrevoked
            /\ n <= grants[g].last
            /\ Start(p, "Refresh", "find",
                 [Nothing EXCEPT !.token = {<<g, n>>}, !.at = now,
                    !.valid = n = grants[g].current,
                    !.stale = /\ n # grants[g].current
                              /\ n \in grants[g].prev => now - grants[g].turnedAt > Grace])
        BY <1>2 DEF Refresh
    <2> DEFINE s == [Nothing EXCEPT !.token = {<<g, n>>}, !.at = now,
                    !.valid = n = grants[g].current,
                    !.stale = /\ n # grants[g].current
                              /\ n \in grants[g].prev => now - grants[g].turnedAt > Grace]
    <2>0. g \in Grant /\ <<g, n>> \in Token
        BY <2>1 DEF Unrevoked, Token
    <2>a. {<<g, n>>} \in SUBSET Token
        BY <2>0
    <2>b. /\ (n = grants[g].current) \in BOOLEAN
          /\ (/\ n # grants[g].current
              /\ n \in grants[g].prev => now - grants[g].turnedAt > Grace) \in BOOLEAN
        OBVIOUS
    <2>2. /\ s \in Seen /\ s.code = {} /\ s.at = now /\ s.token = {<<g, n>>}
          /\ s.valid = (n = grants[g].current)
          /\ s.stale = (/\ n # grants[g].current
                        /\ n \in grants[g].prev => now - grants[g].turnedAt > Grace)
        BY <1>0, <2>a, <2>b DEF Nothing, Seen
    <2> HIDE DEF s
    <2>3. /\ grants[g].state # "absent" /\ GrantSound(g) /\ grants[g] \in GrantRow
          /\ now \in Nat
        BY <2>1 DEF Unrevoked, IInv, RowsSound, TypeOK
    <2>4. ~(n = grants[g].current /\ n \in grants[g].prev)
        BY <2>3 DEF GrantSound, GrantRow
    <2>5. Fits(s)
        <3>1. \A t \in s.token : t[1] = g /\ t[2] = n
            BY <2>2
        <3>2. \A t, u \in s.token : t = u
            BY <2>2
        <3>3. s.valid /\ n \in grants[g].prev => grants[g].turnedAt >= s.at
            BY <2>2, <2>4
        <3>4. s.stale => /\ n # grants[g].current
                         /\ n \in grants[g].prev => s.at - grants[g].turnedAt > Grace
            BY <2>2
        <3>5. s.code = {} /\ s.at <= now
            BY <2>2, <2>3
        <3> QED BY <3>1, <3>2, <3>3, <3>4, <3>5, <2>1, <2>3 DEF Fits
    <2>6. "Refresh" \in AllOperations
        BY DEF AllOperations
    <2>8. Start(p, "Refresh", "find", s)
        BY <2>1 DEF s
    <2> QED BY <2>2, <2>5, <2>6, <2>8, StartHolds
<1>3. CASE Disconnect(p)
    <2>1. PICK g \in Unrevoked :
            Start(p, "Disconnect", "lock", [Nothing EXCEPT !.token = {<<g, grants[g].current>>}])
        BY <1>3 DEF Disconnect
    <2> DEFINE s == [Nothing EXCEPT !.token = {<<g, grants[g].current>>}]
    <2>2. /\ g \in Grant /\ grants[g].state # "absent" /\ GrantSound(g) /\ grants[g] \in GrantRow
          /\ now \in Nat
        BY <2>1 DEF Unrevoked, IInv, RowsSound, TypeOK
    <2>3. grants[g].current \in 0 .. MaxIssued /\ grants[g].current <= grants[g].last
        BY <2>2 DEF GrantSound, GrantRow
    <2>a. <<g, grants[g].current>> \in Token
        BY <2>2, <2>3 DEF Token
    <2>b. {<<g, grants[g].current>>} \in SUBSET Token
        BY <2>a
    <2>4. /\ s \in Seen /\ s.code = {} /\ s.at = 0 /\ s.token = {<<g, grants[g].current>>}
          /\ ~s.stale /\ ~s.valid
        BY <2>b DEF Nothing, Seen
    <2>8. Start(p, "Disconnect", "lock", s)
        BY <2>1
    <2> HIDE DEF s
    <2>5. Fits(s)
        <3>1. \A t \in s.token : t[1] = g /\ t[2] = grants[g].current
            BY <2>4
        <3>2. \A t, u \in s.token : t = u
            BY <2>4
        <3> QED BY <3>1, <3>2, <1>0, <2>2, <2>3, <2>4 DEF Fits
    <2>6. "Disconnect" \in AllOperations
        BY DEF AllOperations
    <2> QED BY <2>4, <2>5, <2>6, <2>8, StartHolds
<1>4. CASE Reclaim(p)
    <2>1. Nothing \in Seen /\ ~Nothing.stale
        BY DEF Nothing, Seen
    <2>4. Fits(Nothing)
        BY <1>a, <2>1 DEF Nothing
    <2>2. Start(p, "Reclaim", "lock", Nothing)
        BY <1>4 DEF Reclaim
    <2>3. "Reclaim" \in AllOperations
        BY DEF AllOperations
    <2> QED BY <2>1, <2>2, <2>3, <2>4, StartHolds
<1> QED BY <1>1, <1>2, <1>3, <1>4

\* A request that ends without a commit leaves nothing, and is answered a stale
\* token only when its connection is over.
LEMMA FinishHolds ==
    ASSUME NEW p \in Proc, IInv, Finish(p), UNCHANGED rows, AnswersHold', answered' \subseteq Grant
    PROVE  IInv'
<1>1. TypeOK'
    BY DEF IInv, TypeOK, Finish, rows, Nothing, Seen
<1>2. /\ seen'[p] = Nothing /\ pc'[p] = "idle" /\ writes'[p] = {}
      /\ \A q \in Proc \ {p} : /\ pc'[q] = pc[q] /\ op'[q] = op[q]
                               /\ seen'[q] = seen[q] /\ writes'[q] = writes[q]
    BY DEF IInv, TypeOK, Finish
<1>3. /\ seen'[p].code = {} /\ seen'[p].token = {} /\ seen'[p].at = 0
    BY <1>2 DEF Nothing
<1>4. 0 <= now'
    BY DEF IInv, TypeOK, rows
<1>5. \A q \in Proc : seen'[q].code \subseteq seen[q].code
    BY <1>2, <1>3
<1> QED BY <1>1, <1>2, <1>3, <1>4, <1>5, MoveHolds

LEMMA CrashHolds ==
    ASSUME NEW p \in Proc, IInv, Crash(p)
    PROVE  IInv'
<1>1. Finish(p) /\ UNCHANGED rows /\ answered' = answered
    BY DEF Crash
<1>2. AnswersHold' /\ answered' \subseteq Grant
    BY <1>1 DEF IInv, TypeOK, AnswersHold, Unrevoked, rows
<1> QED BY <1>1, <1>2, FinishHolds

\* A refusal is safe when the connection of a stale token it answers is over.
LEMMA RefuseHolds ==
    ASSUME NEW p \in Proc, IInv, Refuse(p),
           seen[p].stale => \A t \in seen[p].token : t[1] \notin Unrevoked
    PROVE  IInv'
<1>1. Finish(p) /\ UNCHANGED rows
      /\ answered' = answered \cup {t[1] : t \in {u \in seen[p].token : seen[p].stale}}
    BY DEF Refuse, Answer
<1>2. Unrevoked' = Unrevoked /\ grants' = grants
    BY <1>1 DEF Unrevoked, rows
<1>3. \A t \in seen[p].token : t[1] \in Grant /\ grants[t[1]].state # "absent"
    BY DEF IInv, TypeOK, Seen, Token, SeenHolds, TokenHolds
<1>4. AnswersHold' /\ answered' \subseteq Grant
    BY <1>1, <1>2, <1>3 DEF IInv, TypeOK, AnswersHold
<1> QED BY <1>1, <1>4, FinishHolds

\* Moving on with what is known.
LEMMA GoHolds ==
    ASSUME NEW p \in Proc, IInv, NEW where \in {"lock", "findSpent", "body"}, Go(p, where),
           pc[p] # "commit",
           where # "findSpent" =>
                (seen[p].stale /\ seen[p].token # {} => op[p] = "Disconnect"),
           where = "body" => \A q \in Proc : ~Holding(q)
    PROVE  IInv'
<1>1. TypeOK'
    BY DEF IInv, TypeOK, Go, rows
<1>2. /\ pc'[p] = where /\ \A q \in Proc \ {p} : pc'[q] = pc[q]
      /\ op' = op /\ seen' = seen /\ writes' = writes /\ answered' = answered
      /\ UNCHANGED rows
    BY DEF IInv, TypeOK, Go
<1>3. Unrevoked' = Unrevoked /\ grants' = grants /\ now' = now
    BY <1>2 DEF Unrevoked, rows
<1>4. writes'[p] = {}
    BY <1>2 DEF IInv, BuffersHold
<1>5. ASSUME NEW t \in seen'[p].token
      PROVE  TokenHolds(p, t)'
    BY <1>2, <1>3, <1>5 DEF IInv, SeenHolds, TokenHolds
<1>6. AnswersHold'
    BY <1>2, <1>3 DEF IInv, AnswersHold
<1>7. seen'[p].at <= now' /\ \A t, u \in seen'[p].token : t = u
    BY <1>2, <1>3 DEF IInv, SeenHolds
<1> QED BY <1>1, <1>2, <1>4, <1>5, <1>6, <1>7, MoveHolds

LEMMA FindGrantHolds ==
    ASSUME NEW p \in Proc, IInv, FindGrant(p)
    PROVE  IInv'
<1>1. PICK t \in seen[p].token :
        \/ t[2] = grants[t[1]].current /\ grants[t[1]].state = "live" /\ Go(p, "lock")
        \/ t[2] = grants[t[1]].current /\ grants[t[1]].state # "live" /\ Refuse(p)
        \/ t[2] # grants[t[1]].current /\ Go(p, "findSpent")
    BY DEF FindGrant
<1>2. /\ TokenHolds(p, t) /\ \A u \in seen[p].token : u = t
      /\ t[1] \in Grant /\ pc[p] = "find"
    BY DEF IInv, SeenHolds, TypeOK, Seen, Token, FindGrant
<1>3. CASE t[2] = grants[t[1]].current /\ grants[t[1]].state = "live" /\ Go(p, "lock")
    <2>1. ~seen[p].stale
        BY <1>2, <1>3 DEF TokenHolds, Unrevoked
    <2> QED BY <1>2, <1>3, <2>1, GoHolds
<1>4. CASE t[2] = grants[t[1]].current /\ grants[t[1]].state # "live" /\ Refuse(p)
    <2>1. seen[p].stale => \A u \in seen[p].token : u[1] \notin Unrevoked
        BY <1>2, <1>4 DEF TokenHolds
    <2> QED BY <1>4, <2>1, RefuseHolds
<1>5. CASE t[2] # grants[t[1]].current /\ Go(p, "findSpent")
    BY <1>2, <1>5, GoHolds
<1> QED BY <1>1, <1>3, <1>4, <1>5

\* A stale token of a connection still standing is on record and not forgiven:
\* it was rotated away, at the latest, longer than the grace window before it
\* was presented.
LEMMA StaleIsCaught ==
    ASSUME NEW p \in Proc, IInv, NEW t \in seen[p].token, seen[p].stale, t[1] \in Unrevoked
    PROVE  t \in spent /\ ~Forgiven(t[1], t[2], seen[p].at)
<1>1. /\ TokenHolds(p, t) /\ GrantSound(t[1]) /\ t \in Token /\ t[1] \in Grant /\ t[2] \in 0 .. MaxIssued
      /\ grants[t[1]] \in GrantRow /\ seen[p].at \in Nat /\ t = <<t[1], t[2]>>
    BY DEF IInv, SeenHolds, TypeOK, Seen, Token, RowsSound
<1>2. /\ t[2] # grants[t[1]].current
      /\ t[2] \in grants[t[1]].prev => seen[p].at - grants[t[1]].turnedAt > Grace
      /\ t[2] <= grants[t[1]].last
    BY <1>1 DEF TokenHolds
<1>3. t[2] \in 0 .. grants[t[1]].last
    BY <1>1, <1>2 DEF GrantRow
<1>4. t \in spent
    BY <1>1, <1>2, <1>3 DEF IInv, RowsSound, EveryIssuedTokenIsKnown
<1>5. ~Forgiven(t[1], t[2], seen[p].at)
    <2>1. /\ grants[t[1]].turnedAt \in Nat /\ grants[t[1]].rotatedAt \in Nat
          /\ grants[t[1]].rotatedAt <= grants[t[1]].turnedAt /\ Grace \in Nat
        BY <1>1, BoundsAssumption DEF GrantSound, GrantRow
    <2> QED BY <1>1, <1>2, <2>1 DEF Forgiven, Elapsed
<1> QED BY <1>4, <1>5

LEMMA FindSpentHolds ==
    ASSUME NEW p \in Proc, IInv, FindSpent(p)
    PROVE  IInv'
<1>1. PICK t \in seen[p].token :
        IF t \in spent /\ t[1] \in Unrevoked /\ ~Forgiven(t[1], t[2], seen[p].at)
        THEN /\ pc' = [pc EXCEPT ![p] = "lock"]
             /\ op' = [op EXCEPT ![p] = "Disconnect"]
             /\ UNCHANGED <<rows, seen, writes, answered>>
        ELSE Refuse(p)
    BY DEF FindSpent
<1>2. pc[p] = "findSpent" /\ \A u \in seen[p].token : u = t
    BY DEF FindSpent, IInv, SeenHolds
<1>3. CASE t \in spent /\ t[1] \in Unrevoked /\ ~Forgiven(t[1], t[2], seen[p].at)
    <2>1. /\ pc' = [pc EXCEPT ![p] = "lock"]
          /\ op' = [op EXCEPT ![p] = "Disconnect"]
          /\ seen' = seen /\ writes' = writes /\ answered' = answered /\ UNCHANGED rows
        BY <1>1, <1>3
    <2>2. TypeOK'
        BY <2>1 DEF IInv, TypeOK, rows, AllOperations
    <2>3. /\ pc'[p] = "lock" /\ op'[p] = "Disconnect"
          /\ \A q \in Proc \ {p} : pc'[q] = pc[q] /\ op'[q] = op[q]
        BY <2>1 DEF IInv, TypeOK
    <2>4. Unrevoked' = Unrevoked /\ grants' = grants /\ now' = now
        BY <2>1 DEF Unrevoked, rows
    <2>5. ASSUME NEW u \in seen'[p].token
          PROVE  TokenHolds(p, u)'
        BY <2>1, <2>3, <2>4, <2>5 DEF IInv, SeenHolds, TokenHolds
    <2>6. seen'[p].at <= now' /\ (\A u, v \in seen'[p].token : u = v) /\ writes'[p] = {}
        BY <2>1, <2>4, <1>2 DEF IInv, SeenHolds, BuffersHold
    <2>7. AnswersHold'
        BY <2>1, <2>4 DEF IInv, AnswersHold
    <2> QED BY <2>1, <2>2, <2>3, <2>5, <2>6, <2>7, MoveHolds
<1>4. CASE ~(t \in spent /\ t[1] \in Unrevoked /\ ~Forgiven(t[1], t[2], seen[p].at))
    <2>1. Refuse(p)
        BY <1>1, <1>4
    <2>2. seen[p].stale => \A u \in seen[p].token : u[1] \notin Unrevoked
        BY <1>2, <1>4, StaleIsCaught
    <2> QED BY <2>1, <2>2, RefuseHolds
<1> QED BY <1>1, <1>3, <1>4

LEMMA LockHolds ==
    ASSUME NEW p \in Proc, IInv, LockForOAuth(p)
    PROVE  IInv'
<1>1. pc[p] = "lock" /\ (\A q \in Proc : ~Holding(q)) /\ Go(p, "body")
    BY DEF LockForOAuth
<1>2. seen[p].stale /\ seen[p].token # {} => op[p] = "Disconnect"
    BY <1>1 DEF IInv, SeenHolds, TokenHolds
<1> QED BY <1>1, <1>2, GoHolds

LEMMA RejectHolds ==
    ASSUME NEW p \in Proc, IInv, Reject(p)
    PROVE  IInv'
<1>1. seen[p].stale => \A t \in seen[p].token : t[1] \notin Unrevoked
    BY DEF Reject, IInv, SeenHolds, TokenHolds
<1> QED BY <1>1, RefuseHolds DEF Reject

LEMMA BufferHolds ==
    ASSUME NEW p \in Proc, IInv, NEW w \in WriteSet, pc[p] = "body", Buffer(p, w), Would(p, w)
    PROVE  IInv'
<1>1. TypeOK'
    BY DEF IInv, TypeOK, Buffer, rows
<1>2. /\ pc'[p] = "commit" /\ \A q \in Proc \ {p} : pc'[q] = pc[q] /\ writes'[q] = writes[q]
      /\ writes'[p] = {w} /\ op' = op /\ seen' = seen /\ answered' = answered
      /\ UNCHANGED rows
    BY DEF IInv, TypeOK, Buffer
<1>3. Unrevoked' = Unrevoked /\ grants' = grants /\ now' = now
    BY <1>2 DEF Unrevoked, rows
<1>4. /\ \A r : Earlier(r)' = Earlier(r)
      /\ \A G : AccessOf(G)' = AccessOf(G)
    BY <1>2, <1>3 DEF rows, Earlier, AccessOf
<1>5. Would(p, w)'
    <2>1. \A r : WouldIssue(p, w, r) => WouldIssue(p, w, r)'
        BY <1>2 DEF WouldIssue, rows
    <2>2. \A r, g : WouldOpen(p, w, r, g) => WouldOpen(p, w, r, g)'
        BY <1>2, <1>4 DEF WouldOpen, rows
    <2>3. \A t : WouldTurn(p, w, t) => WouldTurn(p, w, t)'
        BY <1>2, <1>3 DEF WouldTurn, rows
    <2>4. \A t : WouldClose(p, w, t) => WouldClose(p, w, t)'
        BY <1>2, <1>3, <1>4 DEF WouldClose, rows
    <2>5. WouldReclaim(p, w) => WouldReclaim(p, w)'
        BY <1>2, <1>3 DEF WouldReclaim, rows
    <2> QED BY <1>2, <2>1, <2>2, <2>3, <2>4, <2>5 DEF Would
<1>6. ASSUME NEW t \in seen'[p].token
      PROVE  TokenHolds(p, t)'
    BY <1>2, <1>3, <1>6 DEF IInv, SeenHolds, TokenHolds
<1>7. seen'[p].at <= now' /\ \A t, u \in seen'[p].token : t = u
    BY <1>2, <1>3 DEF IInv, SeenHolds
<1>8. AnswersHold'
    BY <1>2, <1>3 DEF IInv, AnswersHold
<1>9. \A q \in Proc : Holding(q) => q = p
    BY DEF IInv, OneHolder, Holding
<1> QED BY <1>1, <1>2, <1>5, <1>6, <1>7, <1>8, <1>9, MoveHolds

\* Nothing that a body writes is of another kind than the tables hold.
LEMMA BodyHolds ==
    ASSUME NEW p \in Proc, IInv, Body(p)
    PROVE  IInv'
<1>0. /\ account.generation \in Nat /\ pc[p] = "body" /\ seen[p] \in Seen /\ access \subseteq Token
      /\ Unrevoked \subseteq Grant
      /\ \A G : AccessOf(G) \subseteq Token
    BY DEF IInv, TypeOK, Account, Body, IssueCode, OpenGrant, RotateGrant, RevokeGrant,
        RevokeAllForUser, In, AccessOf, Unrevoked
<1>1. CASE IssueCode(p)
    <2>1. PICK c \in seen[p].client, s \in seen[p].session, id \in FreshCode :
            /\ clients[c] # "absent"
            /\ Buffer(p, [Same EXCEPT !.code = {[id |-> id, client |-> c, since |-> s,
                                                generation |-> account.generation]}])
        BY <1>1 DEF IssueCode
    <2> DEFINE r == [id |-> id, client |-> c, since |-> s, generation |-> account.generation]
    <2> DEFINE w == [Same EXCEPT !.code = {r}]
    <2>2. c \in Client /\ s \in Nat /\ id \in Code /\ s \in account.sessions
        BY <1>0, <1>1, <2>1 DEF Seen, FreshCode, IssueCode
    <2>3. r \in CodeRow /\ r.id = id /\ r.client = c /\ r.since = s /\ r.generation = account.generation
        BY <1>0, <2>2 DEF CodeRow
    <2>4. /\ \A x \in codes : x.id # id
          /\ \A g \in Grant : id \notin grants[g].code
          /\ \A q \in Proc : \A x \in seen[q].code : x.id # id
        BY <2>1 DEF FreshCode
    <2>5. account.evicted <= s
        BY <2>2 DEF IInv, RowsSound, AccountSound
    <2>5a. s >= account.evicted
        BY <2>5, <2>2 DEF IInv, TypeOK, Account
    <2>6. Buffer(p, w)
        BY <2>1
    <2> HIDE DEF r
    <2>7. {r} \in SUBSET CodeRow
        BY <2>3
    <2>8. w \in WriteSet
        BY <2>7 DEF Same, WriteSet
    <2>9. WouldIssue(p, w, r)
        BY <2>1, <2>3, <2>4, <2>5a DEF WouldIssue
    <2>10. Would(p, w)
        BY <1>1, <2>3, <2>9 DEF Would, IssueCode, In
    <2> HIDE DEF w
    <2> QED BY <1>0, <2>6, <2>8, <2>10, BufferHolds
<1>2. CASE OpenGrant(p)
    <2>1. PICK r \in seen[p].code, g \in FreshGrant :
            /\ r.generation = account.generation
            /\ Buffer(p, [Same EXCEPT !.open = {<<g, FirstToken(r)>>}, !.close = Earlier(r),
                            !.sweep = AccessOf(Earlier(r))])
        BY <1>2 DEF OpenGrant
    <2> DEFINE w == [Same EXCEPT !.open = {<<g, FirstToken(r)>>}, !.close = Earlier(r),
                            !.sweep = AccessOf(Earlier(r))]
    <2>2. r \in CodeRow /\ g \in Grant /\ grants[g].state = "absent"
        BY <1>0, <2>1 DEF Seen, FreshGrant
    <2>3. FirstToken(r) \in GrantRow
        BY <2>2 DEF CodeRow, FirstToken, NoGrant, GrantRow
    <2>4. <<g, FirstToken(r)>> \in Grant \X GrantRow
        BY <2>2, <2>3
    <2>5. {<<g, FirstToken(r)>>} \in SUBSET (Grant \X GrantRow)
        BY <2>4
    <2>6. Earlier(r) \in SUBSET Grant /\ AccessOf(Earlier(r)) \in SUBSET Token
        BY <1>0 DEF Earlier
    <2>7. w \in WriteSet
        BY <2>5, <2>6 DEF Same, WriteSet
    <2>8. Would(p, w)
        BY <1>2, <2>1, <2>2 DEF Would, WouldOpen, OpenGrant, In
    <2>9. Buffer(p, w)
        BY <2>1
    <2> HIDE DEF w
    <2> QED BY <1>0, <2>7, <2>8, <2>9, BufferHolds
<1>3. CASE RotateGrant(p)
    <2>1. PICK t \in seen[p].token :
            /\ t[1] \in Unrevoked
            /\ grants[t[1]].current = t[2]
            /\ grants[t[1]].last < MaxIssued
            /\ Buffer(p, [Same EXCEPT !.turn = {t}])
        BY <1>3 DEF RotateGrant
    <2> DEFINE w == [Same EXCEPT !.turn = {t}]
    <2>2. t \in Token
        BY <1>0 DEF Seen
    <2>3. {t} \in SUBSET Token
        BY <2>2
    <2>4. w \in WriteSet
        BY <2>3 DEF Same, WriteSet
    <2>5. Would(p, w)
        BY <1>3, <2>1 DEF Would, WouldTurn, RotateGrant, In
    <2>6. Buffer(p, w)
        BY <2>1
    <2> HIDE DEF w
    <2> QED BY <1>0, <2>4, <2>5, <2>6, BufferHolds
<1>4. CASE RevokeGrant(p)
    <2>1. PICK t \in seen[p].token :
            Buffer(p, [Same EXCEPT !.close = Unrevoked \cap {t[1]}, !.sweep = AccessOf({t[1]})])
        BY <1>4 DEF RevokeGrant
    <2> DEFINE w == [Same EXCEPT !.close = Unrevoked \cap {t[1]}, !.sweep = AccessOf({t[1]})]
    <2>2. (Unrevoked \cap {t[1]}) \in SUBSET Grant /\ AccessOf({t[1]}) \in SUBSET Token
        BY <1>0
    <2>3. w \in WriteSet
        BY <2>2 DEF Same, WriteSet
    <2>4. Would(p, w)
        BY <1>4, <2>1 DEF Would, WouldClose, RevokeGrant, In
    <2>5. Buffer(p, w)
        BY <2>1
    <2> HIDE DEF w
    <2> QED BY <1>0, <2>3, <2>4, <2>5, BufferHolds
<1>5. CASE RevokeAllForUser(p)
    <2> DEFINE w == [Same EXCEPT !.close = Unrevoked, !.sweep = access, !.reclaim = TRUE]
    <2>1. Buffer(p, w)
        BY <1>5 DEF RevokeAllForUser
    <2>2. w \in WriteSet
        BY <1>0 DEF Same, WriteSet
    <2>3. Would(p, w)
        BY <1>5 DEF Would, WouldReclaim, RevokeAllForUser, In
    <2> HIDE DEF w
    <2> QED BY <1>0, <2>1, <2>2, <2>3, BufferHolds
<1> QED BY <1>1, <1>2, <1>3, <1>4, <1>5 DEF Body

-------------------------------------------------------------------------------
(* Steps that change rows *)

\* Grants are revoked, expire or are deleted, and nothing else of them changes.
OnlyStatesChange ==
    \A g \in Grant :
        /\ grants[g].state = "absent" => grants'[g] = grants[g]
        /\ grants[g].state # "absent" => grants'[g].state # "absent"
        /\ grants'[g].client = grants[g].client
        /\ grants'[g].code = grants[g].code
        /\ grants'[g].since = grants[g].since
        /\ grants'[g].current = grants[g].current
        /\ grants'[g].prev = grants[g].prev
        /\ grants'[g].rotatedAt = grants[g].rotatedAt
        /\ grants'[g].turnedAt = grants[g].turnedAt
        /\ grants'[g].last = grants[g].last

LEMMA StatesMayChange ==
    ASSUME IInv, TypeOK', OnlyStatesChange, Unrevoked' \subseteq Unrevoked, now <= now',
           \A t \in spent : t[1] \in Unrevoked' => t \in spent',
           \A c \in Client : clients[c] = "used" => clients'[c] = "used"
    PROVE  /\ \A g \in Grant : GrantSound(g)'
           /\ OneConnectionPerClient' /\ CodeBuysOneGrant' /\ EveryIssuedTokenIsKnown'
           /\ \A g \in Unrevoked' : \A c \in grants'[g].client : clients'[c] = "used"
           /\ \A g \in answered : g \notin Unrevoked' /\ grants'[g].state # "absent"
<1>0. /\ \A g \in Grant : grants[g] \in GrantRow /\ GrantSound(g)
      /\ now \in Nat /\ now' \in Nat /\ answered \subseteq Grant
      /\ Unrevoked \subseteq Grant /\ Unrevoked' \subseteq Grant
    BY DEF IInv, TypeOK, RowsSound, Unrevoked
<1>1. ASSUME NEW g \in Grant
      PROVE  GrantSound(g)'
    BY <1>0 DEF OnlyStatesChange, GrantSound, GrantRow
<1>2. OneConnectionPerClient'
    BY <1>0 DEF IInv, RowsSound, OneConnectionPerClient, OnlyStatesChange
<1>3. CodeBuysOneGrant'
    BY <1>0 DEF IInv, RowsSound, CodeBuysOneGrant, OnlyStatesChange
<1>4. EveryIssuedTokenIsKnown'
    BY <1>0 DEF IInv, RowsSound, EveryIssuedTokenIsKnown, OnlyStatesChange
<1>5. \A g \in Unrevoked' : \A c \in grants'[g].client : clients'[c] = "used"
    <2> SUFFICES ASSUME NEW g \in Unrevoked', NEW c \in grants'[g].client
                 PROVE  clients'[c] = "used"
        OBVIOUS
    <2>1. g \in Unrevoked /\ g \in Grant /\ c \in grants[g].client /\ c \in Client
        BY <1>0 DEF OnlyStatesChange, GrantRow
    <2> QED BY <2>1 DEF IInv, RowsSound, ConnectedClientsStay
<1>6. \A g \in answered : g \notin Unrevoked' /\ grants'[g].state # "absent"
    BY <1>0 DEF IInv, AnswersHold, OnlyStatesChange
<1> QED BY <1>1, <1>2, <1>3, <1>4, <1>5, <1>6

\* What requests know of their tokens stays true.
LEMMA SeenKept ==
    ASSUME IInv, TypeOK', OnlyStatesChange, Unrevoked' \subseteq Unrevoked, now <= now',
           NEW p \in Proc, seen'[p] = seen[p], pc'[p] = pc[p], op'[p] = op[p]
    PROVE  /\ seen'[p].at <= now'
           /\ \A t \in seen'[p].token : TokenHolds(p, t)'
           /\ \A t, u \in seen'[p].token : t = u
<1>1. seen[p] \in Seen /\ now \in Nat /\ now' \in Nat /\ seen[p].at <= now
      /\ \A t, u \in seen[p].token : t = u
    BY DEF IInv, TypeOK, SeenHolds
<1>2. ASSUME NEW t \in seen[p].token
      PROVE  TokenHolds(p, t)'
    <2>1. TokenHolds(p, t) /\ t[1] \in Grant
        BY <1>1 DEF IInv, SeenHolds, Seen, Token
    <2> QED BY <2>1 DEF TokenHolds, OnlyStatesChange
<1> QED BY <1>1, <1>2 DEF Seen

\* Codes stay good, of which none is added.
LEMMA CodesKept ==
    ASSUME IInv, TypeOK', OnlyStatesChange, codes' \subseteq codes,
           \A c \in Client : clients[c] = "used" => clients'[c] = "used",
           account'.generation = account.generation, account'.evicted = account.evicted,
           \A p \in Proc : seen'[p].code \subseteq seen[p].code
    PROVE  CodesSound'
<1>1. ASSUME NEW r \in CodeRow, CodeHolds(r)
      PROVE  CodeHolds(r)'
    BY <1>1 DEF CodeHolds, CodeRow, OnlyStatesChange
<1>2. codes \subseteq CodeRow /\ \A p \in Proc : seen[p].code \subseteq CodeRow
    BY DEF IInv, TypeOK, Seen
<1>3. CodesSound
    BY DEF IInv, RowsSound
<1>4. \A r \in codes' : CodeHolds(r)'
    BY <1>1, <1>2, <1>3 DEF CodesSound
<1>5. \A p \in Proc : \A r \in seen'[p].code : CodeHolds(r)'
    BY <1>1, <1>2, <1>3 DEF CodesSound
<1> QED BY <1>3, <1>4, <1>5 DEF CodesSound

\* A statement of its own changes no request.
LEMMA StatementHolds ==
    ASSUME IInv, TypeOK', OnlyStatesChange, Unrevoked' \subseteq Unrevoked, now <= now',
           UNCHANGED <<pc, op, seen, writes, answered>>,
           \A t \in spent : t[1] \in Unrevoked' => t \in spent',
           \A c \in Client : clients[c] = "used" => clients'[c] = "used",
           codes' \subseteq codes,
           account'.generation = account.generation, account'.evicted = account.evicted,
           AccountSound', AccessIsLive', BuffersHold'
    PROVE  IInv'
<1>1. /\ \A g \in Grant : GrantSound(g)'
      /\ OneConnectionPerClient' /\ CodeBuysOneGrant' /\ EveryIssuedTokenIsKnown'
      /\ \A g \in Unrevoked' : \A c \in grants'[g].client : clients'[c] = "used"
      /\ \A g \in answered : g \notin Unrevoked' /\ grants'[g].state # "absent"
    BY StatesMayChange
<1>2. CodesSound'
    BY CodesKept
<1>3. ConnectedClientsStay'
    BY <1>1, <1>2 DEF ConnectedClientsStay, CodesSound, CodeHolds
<1>4. NoGrantOutlivesReclaim'
    <2>1. Unrevoked \subseteq Grant
        BY DEF Unrevoked
    <2> QED BY <2>1 DEF IInv, RowsSound, NoGrantOutlivesReclaim, OnlyStatesChange
<1>5. SeenHolds'
    BY SeenKept DEF SeenHolds
<1>6. OneHolder'
    BY DEF IInv, OneHolder, Holding
<1>7. AnswersHold'
    BY <1>1 DEF AnswersHold
<1> QED BY <1>1, <1>2, <1>3, <1>4, <1>5, <1>6, <1>7 DEF IInv, RowsSound

\* Nobody holds the lock, so there is nothing to commit.
LEMMA NoBuffers ==
    ASSUME IInv, ~\E q \in Proc : Holding(q), UNCHANGED <<pc, writes>>
    PROVE  BuffersHold'
BY DEF IInv, BuffersHold, Holding

\* The client of a code about to be written is registered.
LEMMA BufferedClient ==
    ASSUME IInv, NEW q \in Proc, NEW w \in writes[q], NEW r \in w.code
    PROVE  clients[r.client] # "absent"
<1>1. Would(q, w)
    BY DEF IInv, BuffersHold
<1>2. \A x : WouldIssue(q, w, x) => w.code = {x} /\ clients[x.client] # "absent"
    BY DEF WouldIssue, Same
<1>3. \A x, g : WouldOpen(q, w, x, g) => w.code = {}
    BY DEF WouldOpen, Same
<1>4. \A t : WouldTurn(q, w, t) \/ WouldClose(q, w, t) => w.code = {}
    BY DEF WouldTurn, WouldClose, Same
<1>5. WouldReclaim(q, w) => w.code = {}
    BY DEF WouldReclaim, Same
<1> QED BY <1>1, <1>2, <1>3, <1>4, <1>5 DEF Would

\* What a transaction will commit is not disturbed by statements of others.
LEMMA WouldKept ==
    ASSUME IInv, OnlyStatesChange, Unrevoked' = Unrevoked, access' = access, account' = account,
           codes' \subseteq codes,
           \A q \in Proc : \A s \in seen'[q].code : s \in seen[q].code \/ s \in codes,
           NEW p \in Proc, op'[p] = op[p], seen'[p] = seen[p],
           NEW w \in writes[p], \A r \in w.code : clients'[r.client] # "absent"
    PROVE  Would(p, w)'
<1>1. Would(p, w) /\ seen[p] \in Seen /\ Unrevoked \subseteq Grant
    BY DEF IInv, BuffersHold, TypeOK, Unrevoked
<1>2. \A r : Earlier(r)' = Earlier(r)
    BY <1>1 DEF Earlier, OnlyStatesChange
<1>3. \A G : AccessOf(G)' = AccessOf(G)
    BY DEF AccessOf
<1>4. ASSUME NEW r \in CodeRow, WouldIssue(p, w, r)
      PROVE  WouldIssue(p, w, r)'
    <2>1. w.code = {r}
        BY <1>4 DEF WouldIssue, Same
    <2> QED BY <1>4, <2>1 DEF WouldIssue, OnlyStatesChange
<1>5. ASSUME NEW r, NEW g \in Grant, WouldOpen(p, w, r, g)
      PROVE  WouldOpen(p, w, r, g)'
    BY <1>2, <1>3, <1>5 DEF WouldOpen, OnlyStatesChange
<1>6. ASSUME NEW t, WouldTurn(p, w, t)
      PROVE  WouldTurn(p, w, t)'
    BY <1>1, <1>6 DEF WouldTurn, OnlyStatesChange
<1>7. ASSUME NEW t, WouldClose(p, w, t)
      PROVE  WouldClose(p, w, t)'
    BY <1>3, <1>7 DEF WouldClose
<1>8. WouldReclaim(p, w) => WouldReclaim(p, w)'
    BY DEF WouldReclaim
<1> QED BY <1>1, <1>4, <1>5, <1>6, <1>7, <1>8 DEF Would

LEMMA ClientStatementsHold ==
    ASSUME NEW c \in Client, IInv, InsertClient(c) \/ PurgeClient(c)
    PROVE  IInv'
<1>0. /\ UNCHANGED <<account, spent, access, now, pc, op, seen, writes, answered>>
      /\ \A g \in Grant : grants[g] \in GrantRow /\ GrantSound(g)
      /\ now \in Nat /\ clients \in [Client -> {"absent", "unused", "used"}]
      /\ grants \in [Grant -> GrantRow]
      /\ clients[c] \in {"absent", "unused"} /\ clients' \in [Client -> {"absent", "unused", "used"}]
    BY DEF IInv, TypeOK, RowsSound, InsertClient, PurgeClient
<1>1. \A d \in Client : clients[d] = "used" => clients'[d] = "used"
    BY <1>0 DEF InsertClient, PurgeClient
<1>2. codes' \subseteq codes
    BY DEF InsertClient, PurgeClient
<1>3. /\ \A g \in Grant : grants[g].client = {c} => g \notin Unrevoked /\ grants[g].state # "absent"
    <2> SUFFICES ASSUME NEW g \in Grant, grants[g].client = {c}
                 PROVE  g \notin Unrevoked /\ grants[g].state # "absent"
        OBVIOUS
    <2>1. g \notin Unrevoked
        BY <1>0 DEF IInv, RowsSound, ConnectedClientsStay
    <2>2. grants[g].state # "absent"
        BY <1>0 DEF GrantSound, NoGrant
    <2> QED BY <2>1, <2>2
<1>4. \A g \in Grant : \/ grants'[g] = grants[g]
                       \/ /\ g \notin Unrevoked /\ grants[g].state # "absent"
                          /\ grants'[g] = [grants[g] EXCEPT !.state = "gone"]
    BY <1>0, <1>3 DEF InsertClient, PurgeClient
<1>a. ASSUME NEW g \in Grant, g \notin Unrevoked, grants[g].state # "absent",
             grants'[g] = [grants[g] EXCEPT !.state = "gone"]
      PROVE  /\ grants'[g].state = "gone" /\ g \notin Unrevoked'
             /\ grants'[g].client = grants[g].client /\ grants'[g].code = grants[g].code
             /\ grants'[g].since = grants[g].since /\ grants'[g].current = grants[g].current
             /\ grants'[g].prev = grants[g].prev /\ grants'[g].rotatedAt = grants[g].rotatedAt
             /\ grants'[g].turnedAt = grants[g].turnedAt /\ grants'[g].last = grants[g].last
    BY <1>0, <1>a DEF GrantRow, Unrevoked
<1>5. OnlyStatesChange
    BY <1>4, <1>a DEF OnlyStatesChange
<1>6. Unrevoked' = Unrevoked
    <2>1. ASSUME NEW g \in Grant PROVE g \in Unrevoked' <=> g \in Unrevoked
        BY <1>4, <1>a DEF Unrevoked
    <2> QED BY <2>1 DEF Unrevoked
<1>7. TypeOK'
    <2>1. grants' \in [Grant -> GrantRow]
        BY <1>0 DEF InsertClient, PurgeClient, GrantRow
    <2> QED BY <1>0, <1>2, <2>1 DEF IInv, TypeOK
<1>8. AccessIsLive'
    <2> SUFFICES ASSUME NEW a \in access PROVE grants'[a[1]].state = "live"
        BY <1>0 DEF AccessIsLive
    <2>1. a[1] \in Grant /\ grants[a[1]].state = "live"
        BY DEF IInv, TypeOK, Token, RowsSound, AccessIsLive
    <2> QED BY <1>4, <2>1 DEF Unrevoked
<1>9. BuffersHold'
    <2>1. ASSUME NEW q \in Proc, NEW w \in writes[q], NEW r \in w.code
          PROVE  clients'[r.client] # "absent"
        <3>1. r \in CodeRow /\ r.client \in Client
            BY DEF IInv, TypeOK, WriteSet, CodeRow
        <3>2. clients[r.client] # "absent"
            BY BufferedClient
        <3>3. PurgeClient(c) => r.client # c
            BY DEF PurgeClient
        <3> QED BY <1>0, <3>1, <3>2, <3>3 DEF InsertClient, PurgeClient
    <2>2. ASSUME NEW q \in Proc, NEW w \in writes'[q]
          PROVE  Would(q, w)'
        <3>1. \A p \in Proc : \A s \in seen'[p].code : s \in seen[p].code \/ s \in codes
            BY <1>0
        <3> QED BY <1>0, <1>2, <1>5, <1>6, <2>1, <3>1, WouldKept
    <2> QED BY <1>0, <2>2 DEF IInv, BuffersHold
<1>10. AccountSound' /\ now <= now'
    BY <1>0 DEF IInv, RowsSound, AccountSound
<1> QED BY <1>0, <1>1, <1>2, <1>5, <1>6, <1>7, <1>8, <1>9, <1>10, StatementHolds

LEMMA ExpireCodeHolds ==
    ASSUME NEW r \in codes, IInv, ExpireCode(r)
    PROVE  IInv'
<1>0. /\ UNCHANGED <<account, clients, grants, spent, access, now, pc, op, seen, writes, answered>>
      /\ codes' \subseteq codes /\ now \in Nat
    BY DEF ExpireCode, IInv, TypeOK
<1>1. TypeOK'
    BY <1>0 DEF IInv, TypeOK
<1>2. OnlyStatesChange /\ Unrevoked' = Unrevoked /\ AccessIsLive' /\ AccountSound' /\ now <= now'
    BY <1>0 DEF OnlyStatesChange, Unrevoked, IInv, RowsSound, AccessIsLive, AccountSound
<1>3. BuffersHold'
    <2>1. \A q \in Proc : \A w \in writes[q] : \A x \in w.code : clients'[x.client] # "absent"
        BY <1>0, BufferedClient
    <2>2. ASSUME NEW q \in Proc, NEW w \in writes'[q]
          PROVE  Would(q, w)'
        BY <1>0, <1>2, <2>1, WouldKept
    <2> QED BY <1>0, <2>2 DEF IInv, BuffersHold
<1> QED BY <1>0, <1>1, <1>2, <1>3, StatementHolds

LEMMA ExpireGrantHolds ==
    ASSUME NEW g \in Grant, IInv, ExpireGrant(g)
    PROVE  IInv'
<1>0. /\ UNCHANGED <<account, clients, codes, spent, now, pc, op, seen, writes, answered>>
      /\ grants[g].state = "live" /\ (~\E q \in Proc : Holding(q))
      /\ grants' = [grants EXCEPT ![g].state = "idle"] /\ access' = access \ AccessOf({g})
      /\ now \in Nat /\ grants \in [Grant -> GrantRow]
    BY DEF ExpireGrant, IInv, TypeOK
<1>1. TypeOK'
    <2>1. grants' \in [Grant -> GrantRow]
        BY <1>0 DEF GrantRow
    <2> QED BY <1>0, <2>1 DEF IInv, TypeOK
<1>2. OnlyStatesChange
    BY <1>0 DEF OnlyStatesChange, GrantRow
<1>3. Unrevoked' = Unrevoked
    BY <1>0 DEF Unrevoked, GrantRow
<1>4. AccessIsLive'
    <2> SUFFICES ASSUME NEW a \in access' PROVE grants'[a[1]].state = "live"
        BY DEF AccessIsLive
    <2>1. a \in access /\ a[1] # g /\ a[1] \in Grant
        BY <1>0 DEF AccessOf, IInv, TypeOK, Token
    <2> QED BY <1>0, <2>1 DEF IInv, RowsSound, AccessIsLive
<1>5. BuffersHold'
    BY <1>0, NoBuffers
<1>6. AccountSound' /\ now <= now'
    BY <1>0 DEF IInv, RowsSound, AccountSound
<1> QED BY <1>0, <1>1, <1>2, <1>3, <1>4, <1>5, <1>6, StatementHolds

LEMMA DeleteDeadGrantHolds ==
    ASSUME NEW g \in Grant, IInv, DeleteDeadGrant(g)
    PROVE  IInv'
<1>0. /\ UNCHANGED <<account, clients, codes, access, now, pc, op, seen, writes, answered>>
      /\ grants[g].state \in {"idle", "revoked"} /\ (~\E q \in Proc : Holding(q))
      /\ grants' = [grants EXCEPT ![g].state = "gone"] /\ spent' = {t \in spent : t[1] # g}
      /\ now \in Nat /\ grants \in [Grant -> GrantRow]
    BY DEF DeleteDeadGrant, IInv, TypeOK
<1>1. TypeOK'
    <2>1. grants' \in [Grant -> GrantRow]
        BY <1>0 DEF GrantRow
    <2> QED BY <1>0, <2>1 DEF IInv, TypeOK
<1>2. OnlyStatesChange
    BY <1>0 DEF OnlyStatesChange, GrantRow
<1>3. Unrevoked' \subseteq Unrevoked /\ g \notin Unrevoked'
    BY <1>0 DEF Unrevoked, GrantRow
<1>4. AccessIsLive'
    <2> SUFFICES ASSUME NEW a \in access PROVE grants'[a[1]].state = "live"
        BY <1>0 DEF AccessIsLive
    <2>1. a[1] \in Grant /\ grants[a[1]].state = "live"
        BY DEF IInv, TypeOK, Token, RowsSound, AccessIsLive
    <2> QED BY <1>0, <2>1
<1>5. BuffersHold'
    BY <1>0, NoBuffers
<1>6. AccountSound' /\ now <= now'
    BY <1>0 DEF IInv, RowsSound, AccountSound
<1>7. \A t \in spent : t[1] \in Unrevoked' => t \in spent'
    BY <1>0, <1>3
<1> QED BY <1>0, <1>1, <1>2, <1>3, <1>4, <1>5, <1>6, <1>7, StatementHolds

LEMMA SignHolds ==
    ASSUME IInv, Sign
    PROVE  IInv'
<1>0. /\ UNCHANGED <<clients, codes, grants, spent, access, now, pc, op, seen, writes, answered>>
      /\ ~\E q \in Proc : Holding(q)
      /\ account \in Account /\ AccountSound /\ now \in Nat
    BY DEF Sign, IInv, TypeOK, RowsSound
<1>1. \/ account' = [account EXCEPT !.sessions = @ \cup {account.generation}]
      \/ account' = [account EXCEPT !.sessions = {}]
    BY DEF Sign
<1>2. /\ account' \in Account /\ account'.generation = account.generation
      /\ account'.evicted = account.evicted
      /\ account'.sessions \subseteq account.sessions \cup {account.generation}
    BY <1>0, <1>1 DEF Account
<1>3. TypeOK'
    BY <1>0, <1>2 DEF IInv, TypeOK
<1>4. AccountSound'
    BY <1>0, <1>2 DEF AccountSound
<1>5. OnlyStatesChange /\ Unrevoked' = Unrevoked /\ AccessIsLive' /\ now <= now'
    BY <1>0 DEF OnlyStatesChange, Unrevoked, IInv, RowsSound, AccessIsLive
<1>6. BuffersHold'
    BY <1>0, NoBuffers
<1> QED BY <1>0, <1>2, <1>3, <1>4, <1>5, <1>6, StatementHolds

LEMMA TickHolds ==
    ASSUME IInv, Tick
    PROVE  IInv'
<1>0. /\ UNCHANGED <<account, clients, codes, grants, spent, access, pc, op, seen, writes, answered>>
      /\ now \in Nat /\ now' = now + 1
    BY DEF Tick, IInv, TypeOK
<1>1. TypeOK' /\ now <= now'
    BY <1>0 DEF IInv, TypeOK
<1>2. OnlyStatesChange /\ Unrevoked' = Unrevoked /\ AccessIsLive' /\ AccountSound'
    BY <1>0 DEF OnlyStatesChange, Unrevoked, IInv, RowsSound, AccessIsLive, AccountSound
<1>3. BuffersHold'
    <2>1. \A q \in Proc : \A w \in writes[q] : \A r \in w.code : clients'[r.client] # "absent"
        BY <1>0, BufferedClient
    <2>2. ASSUME NEW q \in Proc, NEW w \in writes'[q]
          PROVE  Would(q, w)'
        BY <1>0, <1>2, <2>1, WouldKept
    <2> QED BY <1>0, <2>2 DEF IInv, BuffersHold
<1> QED BY <1>0, <1>1, <1>2, <1>3, StatementHolds

LEMMA ExchangeHolds ==
    ASSUME NEW p \in Proc, IInv, Exchange(p)
    PROVE  IInv'
<1>1. PICK r \in codes :
        /\ codes' = codes \ {r}
        /\ pc' = [pc EXCEPT ![p] = "lock"]
        /\ op' = [op EXCEPT ![p] = "Exchange"]
        /\ seen' = [seen EXCEPT ![p] = [Nothing EXCEPT !.code = {r}]]
    BY DEF Exchange, ConsumeCode
<1>2. /\ UNCHANGED <<account, clients, grants, spent, access, now, writes, answered>>
      /\ pc[p] = "idle" /\ now \in Nat /\ r \in CodeRow /\ codes' \subseteq codes
    BY <1>1 DEF Exchange, IInv, TypeOK
<1> DEFINE s == [Nothing EXCEPT !.code = {r}]
<1>3. {r} \in SUBSET CodeRow
    BY <1>2
<1>4. s \in Seen /\ s.code = {r} /\ s.token = {} /\ s.at = 0
    BY <1>3 DEF Nothing, Seen
<1> HIDE DEF s
<1>5. seen' = [seen EXCEPT ![p] = s]
    BY <1>1 DEF s
<1>6. TypeOK'
    BY <1>1, <1>2, <1>4, <1>5 DEF IInv, TypeOK, AllOperations
<1>7. /\ seen'[p] = s /\ pc'[p] = "lock" /\ op'[p] = "Exchange"
      /\ \A q \in Proc \ {p} : pc'[q] = pc[q] /\ op'[q] = op[q] /\ seen'[q] = seen[q]
    BY <1>1, <1>5 DEF IInv, TypeOK
<1>8. writes'[p] = {}
    BY <1>2 DEF IInv, BuffersHold
<1>9. OnlyStatesChange /\ Unrevoked' = Unrevoked /\ now <= now'
    BY <1>2 DEF OnlyStatesChange, Unrevoked
<1>10. CodesSound'
    <2>1. CodesSound
        BY DEF IInv, RowsSound
    <2>2. \A x : CodeHolds(x)' = CodeHolds(x)
        BY <1>2 DEF CodeHolds
    <2>3. \A x, y \in codes' : x.id = y.id => x = y
        BY <2>1, <1>2 DEF CodesSound
    <2>4. \A q \in Proc : \A x \in seen'[q].code :
            (q = p /\ x = r) \/ (q # p /\ x \in seen[q].code)
        BY <1>4, <1>7
    <2>5. \A q \in Proc : \A x \in seen'[q].code : CodeHolds(x) /\ (\A y \in codes' : y.id # x.id)
        BY <2>1, <2>4, <1>1 DEF CodesSound
    <2>6. \A q, h \in Proc : \A x \in seen'[q].code, y \in seen'[h].code :
            x.id = y.id => q = h /\ x = y
        BY <2>1, <2>4 DEF CodesSound
    <2> QED BY <2>1, <2>2, <2>3, <2>5, <2>6, <1>2 DEF CodesSound
<1>11. RowsSound'
    BY <1>2, <1>9, <1>10 DEF IInv, RowsSound, GrantSound, AccountSound, ConnectedClientsStay,
        AccessIsLive, OneConnectionPerClient, NoGrantOutlivesReclaim, CodeBuysOneGrant,
        EveryIssuedTokenIsKnown
<1>12. SeenHolds'
    <2> SUFFICES ASSUME NEW q \in Proc
                 PROVE  /\ seen'[q].at <= now'
                        /\ \A t \in seen'[q].token : TokenHolds(q, t)'
                        /\ \A t, u \in seen'[q].token : t = u
        BY DEF SeenHolds
    <2>1. CASE q = p
        BY <2>1, <1>2, <1>4, <1>7
    <2>2. CASE q # p
        BY <2>2, <1>6, <1>7, <1>9, SeenKept
    <2> QED BY <2>1, <2>2
<1>13. OneHolder'
    BY <1>7 DEF IInv, OneHolder, Holding
<1>14. BuffersHold'
    <2>1. \A q \in Proc : \A x \in seen'[q].code : x \in seen[q].code \/ x \in codes
        BY <1>4, <1>7
    <2>2. ASSUME NEW q \in Proc \ {p}, NEW w \in writes[q]
          PROVE  Would(q, w)'
        <3>1. \A x \in w.code : clients'[x.client] # "absent"
            BY <1>2, BufferedClient
        <3> QED BY <1>2, <1>7, <1>9, <2>1, <3>1, WouldKept
    <2> QED BY <1>2, <1>7, <1>8, <2>2 DEF IInv, BuffersHold
<1>15. AnswersHold'
    BY <1>2, <1>9 DEF IInv, AnswersHold
<1> QED BY <1>6, <1>11, <1>12, <1>13, <1>14, <1>15 DEF IInv

-------------------------------------------------------------------------------
(* Commits *)

\* After a commit nobody has anything to commit: nobody else held the lock.
LEMMA CommitEnds ==
    ASSUME NEW p \in Proc, IInv, pc[p] = "commit", Finish(p)
    PROVE  /\ BuffersHold' /\ OneHolder'
           /\ seen'[p].at = 0 /\ seen'[p].token = {} /\ seen'[p].code = {}
           /\ \A q \in Proc \ {p} : pc'[q] = pc[q] /\ op'[q] = op[q] /\ seen'[q] = seen[q]
           /\ \A q \in Proc : seen'[q].code \subseteq seen[q].code
<1>1. /\ seen'[p] = Nothing /\ pc'[p] = "idle" /\ writes'[p] = {}
      /\ \A q \in Proc \ {p} : /\ pc'[q] = pc[q] /\ op'[q] = op[q]
                               /\ seen'[q] = seen[q] /\ writes'[q] = writes[q]
    BY DEF IInv, TypeOK, Finish
<1>2. \A q \in Proc \ {p} : ~Holding(q)
    BY DEF IInv, OneHolder, Holding
<1>3. \A q \in Proc : writes'[q] = {}
    BY <1>1, <1>2 DEF IInv, BuffersHold, Holding
<1>4. seen'[p].at = 0 /\ seen'[p].token = {} /\ seen'[p].code = {}
    BY <1>1 DEF Nothing
<1>5. BuffersHold' /\ OneHolder'
    BY <1>1, <1>2, <1>3 DEF BuffersHold, OneHolder, Holding
<1> QED BY <1>1, <1>4, <1>5

\* The types of what Finish and Answer leave.
LEMMA FinishTypes ==
    ASSUME NEW p \in Proc, IInv, Finish(p), Answer(p)
    PROVE  /\ pc' \in [Proc -> {"idle", "find", "findSpent", "lock", "body", "commit"}]
           /\ op' \in [Proc -> AllOperations \cup {"none"}]
           /\ seen' \in [Proc -> Seen]
           /\ writes' \in [Proc -> SUBSET WriteSet]
           /\ answered' \subseteq Grant
<1>1. Nothing \in Seen
    BY DEF Nothing, Seen
<1>2. \A t \in seen[p].token : t[1] \in Grant
    BY DEF IInv, TypeOK, Seen, Token
<1> QED BY <1>1, <1>2 DEF IInv, TypeOK, Finish, Answer

\* Only a disconnection answers a stale token by a commit.
LEMMA OthersAnswerNothing ==
    ASSUME NEW p \in Proc, IInv, pc[p] = "commit", op[p] # "Disconnect", Answer(p)
    PROVE  answered' = answered
<1>1. \A t \in seen[p].token : ~seen[p].stale
    BY DEF IInv, SeenHolds, TokenHolds
<1> QED BY <1>1 DEF Answer

\* The others keep what they know when tokens and states are untouched, p having
\* ended.
LEMMA SeenAfterCommit ==
    ASSUME NEW p \in Proc, IInv, TypeOK', OnlyStatesChange, Unrevoked' \subseteq Unrevoked, now' = now,
           seen'[p].at = 0, seen'[p].token = {},
           \A q \in Proc \ {p} : pc'[q] = pc[q] /\ op'[q] = op[q] /\ seen'[q] = seen[q]
    PROVE  SeenHolds'
<1> SUFFICES ASSUME NEW q \in Proc
             PROVE  /\ seen'[q].at <= now'
                    /\ \A t \in seen'[q].token : TokenHolds(q, t)'
                    /\ \A t, u \in seen'[q].token : t = u
    BY DEF SeenHolds
<1>0. now \in Nat /\ now <= now'
    BY DEF IInv, TypeOK
<1>1. CASE q = p
    BY <1>0, <1>1
<1>2. CASE q # p
    BY <1>0, <1>2, SeenKept
<1> QED BY <1>1, <1>2

LEMMA Closing ==
    ASSUME IInv, NEW C, C \subseteq Unrevoked,
           grants' = [g \in Grant |-> IF g \in C THEN [grants[g] EXCEPT !.state = "revoked"] ELSE grants[g]]
    PROVE  /\ OnlyStatesChange
           /\ Unrevoked' = Unrevoked \ C
           /\ grants' \in [Grant -> GrantRow]
<1>0. grants \in [Grant -> GrantRow] /\ C \subseteq Grant
    BY DEF IInv, TypeOK, Unrevoked
<1>1. ASSUME NEW g \in Grant, g \in C
      PROVE  /\ grants[g].state # "absent" /\ grants'[g].state = "revoked" /\ grants'[g] \in GrantRow
             /\ grants'[g].client = grants[g].client /\ grants'[g].code = grants[g].code
             /\ grants'[g].since = grants[g].since /\ grants'[g].current = grants[g].current
             /\ grants'[g].prev = grants[g].prev /\ grants'[g].rotatedAt = grants[g].rotatedAt
             /\ grants'[g].turnedAt = grants[g].turnedAt /\ grants'[g].last = grants[g].last
    BY <1>0, <1>1 DEF GrantRow, Unrevoked
<1>2. ASSUME NEW g \in Grant, g \notin C
      PROVE  grants'[g] = grants[g] /\ grants'[g] \in GrantRow
    BY <1>0, <1>2
<1>3. OnlyStatesChange
    BY <1>1, <1>2 DEF OnlyStatesChange
<1>4. Unrevoked' = Unrevoked \ C
    <2>1. ASSUME NEW g \in Grant PROVE g \in Unrevoked' <=> g \in Unrevoked /\ g \notin C
        BY <1>1, <1>2 DEF Unrevoked
    <2> QED BY <2>1 DEF Unrevoked
<1>5. grants' \in [Grant -> GrantRow]
    BY <1>0, <1>1, <1>2
<1> QED BY <1>3, <1>4, <1>5

\* What Commit does with the write set w.
Applied(p, w) ==
    /\ account' = IF w.reclaim
                  THEN [generation |-> account.generation + 1, evicted |-> account.generation + 1,
                        sessions |-> {}]
                  ELSE account
    /\ clients' = [c \in Client |-> IF \E r \in w.code : r.client = c THEN "used" ELSE clients[c]]
    /\ codes' = codes \cup w.code
    /\ grants' = [g \in Grant |->
                    CASE \E x \in w.open : x[1] = g -> (CHOOSE x \in w.open : x[1] = g)[2]
                      [] \E t \in w.turn : t[1] = g -> Turned(grants[g], seen[p].at)
                      [] g \in w.close -> [grants[g] EXCEPT !.state = "revoked"]
                      [] OTHER -> grants[g]]
    /\ spent' = spent \cup w.turn
    /\ access' = (access \ w.sweep) \cup {<<x[1], 0>> : x \in w.open}
                                    \cup {<<t[1], grants[t[1]].last + 1>> : t \in w.turn}
    /\ now' = now
    /\ pc[p] = "commit"
    /\ Finish(p)
    /\ Answer(p)

LEMMA IssueCommits ==
    ASSUME NEW p \in Proc, IInv, NEW w, Applied(p, w), op[p] = "Approve",
           NEW r \in CodeRow, WouldIssue(p, w, r)
    PROVE  IInv'
<1>1. /\ w.code = {r} /\ w.open = {} /\ w.turn = {} /\ w.close = {} /\ w.sweep = {} /\ ~w.reclaim
    BY DEF WouldIssue, Same
<1>2. /\ account' = account /\ codes' = codes \cup {r} /\ spent' = spent /\ access' = access
      /\ now' = now /\ pc[p] = "commit" /\ Finish(p) /\ Answer(p)
      /\ clients' = [c \in Client |-> IF r.client = c THEN "used" ELSE clients[c]]
    BY <1>1 DEF Applied
<1>3. grants' = grants
    <2>1. grants' = [g \in Grant |-> grants[g]]
        BY <1>1 DEF Applied
    <2> QED BY <2>1 DEF IInv, TypeOK
<1>4. r.client \in Client /\ \A c \in Client : clients[c] = "used" => clients'[c] = "used"
    BY <1>2 DEF CodeRow
<1>4a. clients'[r.client] = "used"
    BY <1>2, <1>4
<1>5. answered' = answered
    BY <1>2, OthersAnswerNothing
<1>6. TypeOK'
    <2>1. clients' \in [Client -> {"absent", "unused", "used"}]
        BY <1>2 DEF IInv, TypeOK
    <2>2. codes' \subseteq CodeRow
        BY <1>2 DEF IInv, TypeOK
    <2> QED BY <1>2, <1>3, <2>1, <2>2, FinishTypes DEF IInv, TypeOK
<1>7. OnlyStatesChange /\ Unrevoked' = Unrevoked
    BY <1>3 DEF OnlyStatesChange, Unrevoked
<1>8. /\ BuffersHold' /\ OneHolder'
      /\ seen'[p].at = 0 /\ seen'[p].token = {} /\ seen'[p].code = {}
      /\ \A q \in Proc \ {p} : pc'[q] = pc[q] /\ op'[q] = op[q] /\ seen'[q] = seen[q]
      /\ \A q \in Proc : seen'[q].code \subseteq seen[q].code
    BY <1>2, CommitEnds
<1>9. SeenHolds'
    BY <1>2, <1>6, <1>7, <1>8, SeenAfterCommit
<1>10. now <= now'
    BY <1>2 DEF IInv, TypeOK
<1>11. /\ \A g \in Grant : GrantSound(g)'
       /\ OneConnectionPerClient' /\ CodeBuysOneGrant' /\ EveryIssuedTokenIsKnown'
       /\ \A g \in Unrevoked' : \A c \in grants'[g].client : clients'[c] = "used"
       /\ \A g \in answered : g \notin Unrevoked' /\ grants'[g].state # "absent"
    BY <1>2, <1>4, <1>6, <1>7, <1>10, StatesMayChange
<1>12. CodesSound'
    <2>0. CodesSound
        BY DEF IInv, RowsSound
    <2>1. CodeHolds(r)'
        <3>1. r.generation \in Nat /\ account.generation \in Nat
            BY DEF CodeRow, IInv, TypeOK, Account
        <3> QED BY <3>1, <1>2, <1>3, <1>4a DEF WouldIssue, CodeHolds
    <2>2. ASSUME NEW x \in CodeRow, CodeHolds(x)
          PROVE  CodeHolds(x)'
        BY <2>2, <1>2, <1>3, <1>4 DEF CodeHolds, CodeRow
    <2>3. codes \subseteq CodeRow /\ \A q \in Proc : seen[q].code \subseteq CodeRow
        BY DEF IInv, TypeOK, Seen
    <2>4. \A x \in codes' : CodeHolds(x)'
        BY <2>0, <2>1, <2>2, <2>3, <1>2 DEF CodesSound
    <2>5. \A x, y \in codes' : x.id = y.id => x = y
        BY <2>0, <1>2 DEF CodesSound, WouldIssue
    <2>6. \A q \in Proc : \A x \in seen'[q].code : CodeHolds(x)' /\ (\A s \in codes' : s.id # x.id)
        BY <2>0, <2>2, <2>3, <1>2, <1>8 DEF CodesSound, WouldIssue
    <2>7. \A q, h \in Proc : \A x \in seen'[q].code, y \in seen'[h].code :
            x.id = y.id => q = h /\ x = y
        BY <2>0, <1>8 DEF CodesSound
    <2> QED BY <2>4, <2>5, <2>6, <2>7 DEF CodesSound
<1>13. ConnectedClientsStay'
    BY <1>11, <1>12 DEF ConnectedClientsStay, CodesSound, CodeHolds
<1>14. AccountSound' /\ AccessIsLive' /\ NoGrantOutlivesReclaim'
    BY <1>2, <1>3, <1>7 DEF IInv, RowsSound, AccountSound, AccessIsLive, NoGrantOutlivesReclaim
<1>15. AnswersHold'
    BY <1>5, <1>11 DEF AnswersHold
<1> QED BY <1>6, <1>8, <1>9, <1>11, <1>12, <1>13, <1>14, <1>15 DEF IInv, RowsSound

LEMMA CloseCommits ==
    ASSUME NEW p \in Proc, IInv, NEW w, Applied(p, w), op[p] = "Disconnect",
           NEW t \in seen[p].token, WouldClose(p, w, t)
    PROVE  IInv'
<1> DEFINE C == Unrevoked \cap {t[1]}
<1>1. /\ w.code = {} /\ w.open = {} /\ w.turn = {} /\ w.close = C /\ w.sweep = AccessOf({t[1]})
      /\ ~w.reclaim
    BY DEF WouldClose, Same
<1>2. /\ account' = account /\ codes' = codes /\ spent' = spent /\ access' = access \ AccessOf({t[1]})
      /\ now' = now /\ pc[p] = "commit" /\ Finish(p) /\ Answer(p)
    BY <1>1 DEF Applied
<1>3. grants' = [g \in Grant |-> IF g \in C THEN [grants[g] EXCEPT !.state = "revoked"] ELSE grants[g]]
    BY <1>1 DEF Applied
<1>4. clients' = clients
    <2>1. clients' = [c \in Client |-> clients[c]]
        BY <1>1 DEF Applied
    <2> QED BY <2>1 DEF IInv, TypeOK
<1>5. OnlyStatesChange /\ Unrevoked' = Unrevoked \ C /\ grants' \in [Grant -> GrantRow]
    BY <1>3, Closing
<1>6. TypeOK'
    BY <1>2, <1>4, <1>5, FinishTypes DEF IInv, TypeOK
<1>7. /\ BuffersHold' /\ OneHolder'
      /\ seen'[p].at = 0 /\ seen'[p].token = {} /\ seen'[p].code = {}
      /\ \A q \in Proc \ {p} : pc'[q] = pc[q] /\ op'[q] = op[q] /\ seen'[q] = seen[q]
      /\ \A q \in Proc : seen'[q].code \subseteq seen[q].code
    BY <1>2, CommitEnds
<1>8. SeenHolds'
    BY <1>2, <1>5, <1>6, <1>7, SeenAfterCommit
<1>9. now <= now'
    BY <1>2 DEF IInv, TypeOK
<1>10. /\ \A g \in Grant : GrantSound(g)'
       /\ OneConnectionPerClient' /\ CodeBuysOneGrant' /\ EveryIssuedTokenIsKnown'
       /\ \A g \in Unrevoked' : \A c \in grants'[g].client : clients'[c] = "used"
       /\ \A g \in answered : g \notin Unrevoked' /\ grants'[g].state # "absent"
    BY <1>2, <1>4, <1>5, <1>6, <1>9, StatesMayChange
<1>11. CodesSound'
    BY <1>2, <1>4, <1>5, <1>6, <1>7, CodesKept
<1>12. ConnectedClientsStay'
    BY <1>10, <1>11 DEF ConnectedClientsStay, CodesSound, CodeHolds
<1>13. AccountSound' /\ NoGrantOutlivesReclaim'
    <2>1. Unrevoked \subseteq Grant
        BY DEF Unrevoked
    <2> QED BY <2>1, <1>2, <1>5 DEF IInv, RowsSound, AccountSound, NoGrantOutlivesReclaim, OnlyStatesChange
<1>14. AccessIsLive'
    <2> SUFFICES ASSUME NEW a \in access' PROVE grants'[a[1]].state = "live"
        BY DEF AccessIsLive
    <2>1. a \in access /\ a[1] # t[1] /\ a[1] \in Grant
        BY <1>2 DEF AccessOf, IInv, TypeOK, Token
    <2> QED BY <1>3, <2>1 DEF IInv, RowsSound, AccessIsLive
<1>15. AnswersHold'
    <2>1. \A u \in seen[p].token : u = t
        BY DEF IInv, SeenHolds
    <2>2. answered' \subseteq answered \cup {t[1]}
        BY <1>2, <2>1 DEF Answer
    <2>3. t[1] \in Grant /\ grants[t[1]].state # "absent"
        BY DEF IInv, TypeOK, Seen, Token, SeenHolds, TokenHolds
    <2>4. t[1] \notin Unrevoked' /\ grants'[t[1]].state # "absent"
        BY <1>5, <2>3 DEF OnlyStatesChange
    <2> QED BY <1>10, <2>2, <2>4 DEF AnswersHold
<1> QED BY <1>6, <1>7, <1>8, <1>10, <1>11, <1>12, <1>13, <1>14, <1>15 DEF IInv, RowsSound

LEMMA ReclaimCommits ==
    ASSUME NEW p \in Proc, IInv, NEW w, Applied(p, w), op[p] = "Reclaim", WouldReclaim(p, w)
    PROVE  IInv'
<1>1. /\ w.code = {} /\ w.open = {} /\ w.turn = {} /\ w.close = Unrevoked /\ w.sweep = access
      /\ w.reclaim
    BY DEF WouldReclaim, Same
<1>2. /\ account' = [generation |-> account.generation + 1, evicted |-> account.generation + 1,
                     sessions |-> {}]
      /\ codes' = codes /\ spent' = spent /\ access' = {}
      /\ now' = now /\ pc[p] = "commit" /\ Finish(p) /\ Answer(p)
    BY <1>1 DEF Applied
<1>3. grants' = [g \in Grant |-> IF g \in Unrevoked THEN [grants[g] EXCEPT !.state = "revoked"] ELSE grants[g]]
    BY <1>1 DEF Applied
<1>4. clients' = clients
    <2>1. clients' = [c \in Client |-> clients[c]]
        BY <1>1 DEF Applied
    <2> QED BY <2>1 DEF IInv, TypeOK
<1>5. OnlyStatesChange /\ Unrevoked' = {} /\ grants' \in [Grant -> GrantRow]
    BY <1>3, Closing
<1>6. account.generation \in Nat /\ account' \in Account /\ account'.sessions = {}
      /\ account'.generation = account.generation + 1 /\ account'.evicted = account.generation + 1
    BY <1>2 DEF IInv, TypeOK, Account
<1>7. TypeOK'
    BY <1>2, <1>4, <1>5, <1>6, FinishTypes DEF IInv, TypeOK
<1>8. /\ BuffersHold' /\ OneHolder'
      /\ seen'[p].at = 0 /\ seen'[p].token = {} /\ seen'[p].code = {}
      /\ \A q \in Proc \ {p} : pc'[q] = pc[q] /\ op'[q] = op[q] /\ seen'[q] = seen[q]
      /\ \A q \in Proc : seen'[q].code \subseteq seen[q].code
    BY <1>2, CommitEnds
<1>9. SeenHolds'
    BY <1>2, <1>5, <1>7, <1>8, SeenAfterCommit
<1>10. now <= now'
    BY <1>2 DEF IInv, TypeOK
<1>11. /\ \A g \in Grant : GrantSound(g)'
       /\ OneConnectionPerClient' /\ CodeBuysOneGrant' /\ EveryIssuedTokenIsKnown'
       /\ \A g \in answered : g \notin Unrevoked' /\ grants'[g].state # "absent"
    BY <1>2, <1>4, <1>5, <1>7, <1>10, StatesMayChange
<1>12. CodesSound'
    <2>0. CodesSound
        BY DEF IInv, RowsSound
    <2>1. ASSUME NEW r \in CodeRow, CodeHolds(r)
          PROVE  CodeHolds(r)'
        BY <2>1, <1>4, <1>5, <1>6 DEF CodeHolds, CodeRow, OnlyStatesChange
    <2>2. codes \subseteq CodeRow /\ \A q \in Proc : seen[q].code \subseteq CodeRow
        BY DEF IInv, TypeOK, Seen
    <2>3. \A r \in codes' : CodeHolds(r)'
        BY <1>2, <2>0, <2>1, <2>2 DEF CodesSound
    <2>4. \A q \in Proc : \A r \in seen'[q].code : CodeHolds(r)'
        BY <1>8, <2>0, <2>1, <2>2 DEF CodesSound
    <2> QED BY <1>2, <1>8, <2>0, <2>3, <2>4 DEF CodesSound
<1>13. ConnectedClientsStay'
    BY <1>5, <1>12 DEF ConnectedClientsStay, CodesSound, CodeHolds
<1>14. AccountSound' /\ NoGrantOutlivesReclaim' /\ AccessIsLive'
    BY <1>2, <1>5, <1>6 DEF AccountSound, NoGrantOutlivesReclaim, AccessIsLive
<1>15. AnswersHold'
    <2>1. answered' = answered
        BY <1>2, OthersAnswerNothing
    <2> QED BY <2>1, <1>11 DEF AnswersHold
<1> QED BY <1>7, <1>8, <1>9, <1>11, <1>12, <1>13, <1>14, <1>15 DEF IInv, RowsSound

LEMMA TurnCommits ==
    ASSUME NEW p \in Proc, IInv, NEW w, Applied(p, w), op[p] = "Refresh",
           NEW t \in seen[p].token, WouldTurn(p, w, t)
    PROVE  IInv'
<1> DEFINE g == t[1]
<1>1. /\ w.code = {} /\ w.open = {} /\ w.turn = {t} /\ w.close = {} /\ w.sweep = {} /\ ~w.reclaim
    BY DEF WouldTurn, Same
<1>2. /\ g \in Grant /\ g \in Unrevoked /\ grants[g].current = t[2] /\ grants[g].last < MaxIssued
      /\ grants[g] \in GrantRow /\ GrantSound(g) /\ t = <<g, t[2]>> /\ t \in Token
      /\ seen[p].at \in Nat /\ seen[p].at <= now /\ now \in Nat
    BY DEF WouldTurn, IInv, TypeOK, RowsSound, Seen, Token, SeenHolds, Unrevoked
<1>3. /\ account' = account /\ codes' = codes /\ spent' = spent \cup {t}
      /\ access' = access \cup {<<g, grants[g].last + 1>>}
      /\ now' = now /\ pc[p] = "commit" /\ Finish(p) /\ Answer(p)
    <2>1. access' = (access \ {}) \cup {} \cup {<<u[1], grants[u[1]].last + 1>> : u \in {t}}
        BY <1>1 DEF Applied
    <2> QED BY <1>1, <2>1 DEF Applied
<1>4. clients' = clients
    <2>1. clients' = [c \in Client |-> clients[c]]
        BY <1>1 DEF Applied
    <2> QED BY <2>1 DEF IInv, TypeOK
<1>5. grants' = [h \in Grant |-> IF h = g THEN Turned(grants[h], seen[p].at) ELSE grants[h]]
    BY <1>1 DEF Applied
<1>6. \A h \in Grant : h # g => grants'[h] = grants[h]
    BY <1>5
<1>7. grants'[g] = Turned(grants[g], seen[p].at)
    BY <1>2, <1>5
<1>8. /\ grants'[g].state = "live" /\ grants'[g].client = grants[g].client
      /\ grants'[g].code = grants[g].code /\ grants'[g].since = grants[g].since
      /\ grants'[g].current = grants[g].last + 1 /\ grants'[g].prev = {grants[g].current}
      /\ grants'[g].rotatedAt = seen[p].at /\ grants'[g].turnedAt = now
      /\ grants'[g].last = grants[g].last + 1
    BY <1>2, <1>7 DEF Turned, GrantRow, Unrevoked
<1>9. grants'[g] \in GrantRow
    <2>1. {grants[g].current} \in SUBSET Nat
        BY <1>2 DEF GrantRow
    <2>2. grants[g].last + 1 \in Nat /\ grants[g].state \in {"live", "idle"}
        BY <1>2 DEF GrantRow, Unrevoked
    <2> QED BY <1>2, <1>7, <2>1, <2>2 DEF Turned, GrantRow
<1>10. Unrevoked' = Unrevoked
    <2>1. ASSUME NEW h \in Grant PROVE h \in Unrevoked' <=> h \in Unrevoked
        BY <1>2, <1>6, <1>8 DEF Unrevoked
    <2> QED BY <2>1 DEF Unrevoked
<1>11. TypeOK'
    <2>1. grants' \in [Grant -> GrantRow]
        BY <1>5, <1>6, <1>9 DEF IInv, TypeOK
    <2>2. <<g, grants[g].last + 1>> \in Token
        BY <1>2, BoundsAssumption DEF Token, GrantRow
    <2>3. access' \subseteq Token /\ spent' \subseteq Token
        BY <1>2, <1>3, <2>2 DEF IInv, TypeOK
    <2> QED BY <1>3, <1>4, <2>1, <2>3, FinishTypes DEF IInv, TypeOK
<1>12. /\ BuffersHold' /\ OneHolder'
       /\ seen'[p].at = 0 /\ seen'[p].token = {} /\ seen'[p].code = {}
       /\ \A q \in Proc \ {p} : pc'[q] = pc[q] /\ op'[q] = op[q] /\ seen'[q] = seen[q]
       /\ \A q \in Proc : seen'[q].code \subseteq seen[q].code
    BY <1>3, CommitEnds
<1>13. ASSUME NEW h \in Grant
       PROVE  GrantSound(h)'
    <2>1. CASE h = g
        <3>1. /\ grants[g].last \in Nat /\ grants[g].current = grants[g].last /\ MaxIssued \in Nat
              /\ \E c \in Client : grants[g].client = {c}
            BY <1>2, BoundsAssumption DEF GrantSound, GrantRow, Unrevoked
        <3>2. /\ grants'[g].state # "absent" /\ \E c \in Client : grants'[g].client = {c}
              /\ grants'[g].current = grants'[g].last
            BY <3>1, <1>8
        <3>3. grants'[g].last <= MaxIssued
            <4>1. grants[g].last < MaxIssued /\ grants'[g].last = grants[g].last + 1
                BY <1>2, <1>8
            <4> HIDE DEF g
            <4> QED BY <3>1, <4>1
        <3>4. \A n \in grants'[g].prev : n < grants'[g].current
            BY <3>1, <1>8
        <3>5. grants'[g].rotatedAt <= grants'[g].turnedAt /\ grants'[g].turnedAt <= now'
            BY <1>2, <1>3, <1>8
        <3> HIDE DEF g
        <3> QED BY <2>1, <3>2, <3>3, <3>4, <3>5 DEF GrantSound
    <2>2. CASE h # g
        BY <2>2, <1>3, <1>6 DEF IInv, RowsSound, GrantSound
    <2> QED BY <2>1, <2>2
<1>14. CodesSound'
    <2>1. \A h \in Grant : grants'[h].code = grants[h].code
        BY <1>6, <1>8
    <2>2. \A r : CodeHolds(r) => CodeHolds(r)'
        BY <2>1, <1>3, <1>4 DEF CodeHolds
    <2> QED BY <2>2, <1>3, <1>12 DEF IInv, RowsSound, CodesSound
<1>15. /\ \A h \in Grant : /\ grants'[h].client = grants[h].client /\ grants'[h].code = grants[h].code
                           /\ grants'[h].since = grants[h].since
    BY <1>6, <1>8
<1>16. ConnectedClientsStay' /\ OneConnectionPerClient' /\ NoGrantOutlivesReclaim' /\ CodeBuysOneGrant'
    <2>1. Unrevoked \subseteq Grant
        BY DEF Unrevoked
    <2>2. /\ ConnectedClientsStay /\ OneConnectionPerClient /\ NoGrantOutlivesReclaim
          /\ CodeBuysOneGrant
        BY DEF IInv, RowsSound
    <2>3. ConnectedClientsStay'
        BY <2>1, <2>2, <1>3, <1>4, <1>10, <1>15 DEF ConnectedClientsStay
    <2>4. OneConnectionPerClient'
        BY <2>1, <2>2, <1>10, <1>15 DEF OneConnectionPerClient
    <2>5. NoGrantOutlivesReclaim'
        BY <2>1, <2>2, <1>3, <1>10, <1>15 DEF NoGrantOutlivesReclaim
    <2>6. CodeBuysOneGrant'
        BY <2>2, <1>15 DEF CodeBuysOneGrant
    <2> QED BY <2>3, <2>4, <2>5, <2>6
<1>17. AccessIsLive'
    <2> SUFFICES ASSUME NEW a \in access' PROVE grants'[a[1]].state = "live"
        BY DEF AccessIsLive
    <2>1. CASE a \in access
        <3>1. a[1] \in Grant /\ grants[a[1]].state = "live"
            BY <2>1 DEF IInv, TypeOK, Token, RowsSound, AccessIsLive
        <3> QED BY <3>1, <1>6, <1>8
    <2>2. CASE a = <<g, grants[g].last + 1>>
        BY <2>2, <1>8
    <2> QED BY <2>1, <2>2, <1>3
<1>18. EveryIssuedTokenIsKnown'
    <2> SUFFICES ASSUME NEW h \in Unrevoked', NEW n \in 0 .. grants'[h].last
                 PROVE  n = grants'[h].current \/ <<h, n>> \in spent'
        BY DEF EveryIssuedTokenIsKnown
    <2>1. h \in Unrevoked /\ h \in Grant /\ \A m \in 0 .. grants[h].last :
                m = grants[h].current \/ <<h, m>> \in spent
        BY <1>10 DEF IInv, RowsSound, EveryIssuedTokenIsKnown, Unrevoked
    <2>2. CASE h = g
        <3>1. n = grants[g].last + 1 \/ n \in 0 .. grants[g].last
            BY <2>2, <1>2, <1>8 DEF GrantRow
        <3>2. <<g, grants[g].current>> \in spent'
            BY <1>2, <1>3
        <3> QED BY <2>1, <2>2, <3>1, <3>2, <1>3, <1>8
    <2>3. CASE h # g
        BY <2>1, <2>3, <1>3, <1>6
    <2> QED BY <2>2, <2>3
<1>19. SeenHolds'
    <2> SUFFICES ASSUME NEW q \in Proc
                 PROVE  /\ seen'[q].at <= now'
                        /\ \A u \in seen'[q].token : TokenHolds(q, u)'
                        /\ \A u, v \in seen'[q].token : u = v
        BY DEF SeenHolds
    <2>1. CASE q = p
        BY <2>1, <1>2, <1>3, <1>12
    <2>2. CASE q # p
        <3>1. /\ seen'[q] = seen[q] /\ pc'[q] = pc[q] /\ op'[q] = op[q]
              /\ seen[q].at <= now /\ (\A u, v \in seen[q].token : u = v)
              /\ seen[q] \in Seen
            BY <2>2, <1>12 DEF IInv, SeenHolds, TypeOK
        <3>2. ASSUME NEW u \in seen[q].token
              PROVE  TokenHolds(q, u)'
            <4>1. TokenHolds(q, u) /\ u[1] \in Grant /\ u[2] \in Nat
                BY <3>1 DEF IInv, SeenHolds, Seen, Token
            <4>2. CASE u[1] # g
                BY <4>1, <4>2, <3>1, <1>6, <1>10 DEF TokenHolds
            <4>3. CASE u[1] = g
                <5>1. /\ grants[g].last \in Nat /\ grants[g].current = grants[g].last
                      /\ u[2] <= grants[g].last /\ grants[g].state # "absent"
                      /\ seen[q].stale => u[2] # grants[g].current
                      /\ seen[q].stale => pc[q] \in {"find", "findSpent"} \/ op[q] = "Disconnect"
                    BY <4>1, <4>3, <1>2 DEF TokenHolds, GrantSound, GrantRow
                <5>2. u[2] <= grants'[g].last /\ u[2] # grants'[g].current
                    BY <4>1, <5>1, <1>8
                <5>3. seen[q].stale => u[2] \notin grants'[g].prev
                    BY <5>1, <1>8
                <5> QED BY <4>3, <5>1, <5>2, <5>3, <3>1, <1>8 DEF TokenHolds
            <4> QED BY <4>2, <4>3
        <3> QED BY <3>1, <3>2, <1>3
    <2> QED BY <2>1, <2>2
<1>20. AccountSound'
    BY <1>3 DEF IInv, RowsSound, AccountSound
<1>21. AnswersHold'
    <2>1. answered' = answered
        BY <1>3, OthersAnswerNothing
    <2>2. answered \subseteq Grant
        BY DEF IInv, TypeOK
    <2> QED BY <2>1, <2>2, <1>6, <1>8, <1>10 DEF IInv, AnswersHold
<1> QED BY <1>11, <1>12, <1>13, <1>14, <1>16, <1>17, <1>18, <1>19, <1>20, <1>21 DEF IInv, RowsSound

LEMMA OpenCommits ==
    ASSUME NEW p \in Proc, IInv, NEW w, Applied(p, w), op[p] = "Exchange",
           NEW r \in seen[p].code, NEW g \in Grant, WouldOpen(p, w, r, g)
    PROVE  IInv'
<1> DEFINE E == Earlier(r)
<1>1. /\ w.code = {} /\ w.open = {<<g, FirstToken(r)>>} /\ w.turn = {} /\ w.close = E
      /\ w.sweep = AccessOf(E) /\ ~w.reclaim /\ grants[g].state = "absent"
      /\ r.generation = account.generation
    BY DEF WouldOpen, Same
<1>2. /\ r \in CodeRow /\ CodeHolds(r) /\ E \subseteq Unrevoked /\ Unrevoked \subseteq Grant
      /\ g \notin Unrevoked /\ now \in Nat /\ GrantSound(g)
    BY <1>1 DEF IInv, TypeOK, Seen, RowsSound, CodesSound, Earlier, Unrevoked
<1>3. /\ account' = account /\ codes' = codes /\ spent' = spent
      /\ access' = (access \ AccessOf(E)) \cup {<<g, 0>>}
      /\ now' = now /\ pc[p] = "commit" /\ Finish(p) /\ Answer(p)
    <2>1. access' = (access \ AccessOf(E)) \cup {<<x[1], 0>> : x \in {<<g, FirstToken(r)>>}} \cup {}
        BY <1>1 DEF Applied
    <2>2. {<<x[1], 0>> : x \in {<<g, FirstToken(r)>>}} = {<<g, 0>>}
        OBVIOUS
    <2> QED BY <1>1, <2>1, <2>2 DEF Applied
<1>4. clients' = clients
    <2>1. clients' = [c \in Client |-> clients[c]]
        BY <1>1 DEF Applied
    <2> QED BY <2>1 DEF IInv, TypeOK
<1>5. grants' = [h \in Grant |-> IF h = g THEN FirstToken(r)
                                 ELSE IF h \in E THEN [grants[h] EXCEPT !.state = "revoked"]
                                 ELSE grants[h]]
    <2> DEFINE first == <<g, FirstToken(r)>>
    <2>0. first[1] = g /\ first[2] = FirstToken(r) /\ w.open = {first}
        BY <1>1
    <2> HIDE DEF first, E
    <2>1. \A h \in Grant : (\E x \in w.open : x[1] = h) <=> h = g
        BY <2>0
    <2>2. (CHOOSE x \in w.open : x[1] = g)[2] = FirstToken(r)
        <3>1. (CHOOSE x \in w.open : x[1] = g) = first
            BY <2>0
        <3> QED BY <3>1, <2>0
    <2>3. w.turn = {} /\ w.close = E
        BY <1>1
    <2>4. ASSUME NEW h \in Grant
          PROVE  grants'[h] = IF h = g THEN FirstToken(r)
                              ELSE IF h \in E THEN [grants[h] EXCEPT !.state = "revoked"]
                              ELSE grants[h]
        <3>1. CASE h = g
            <4>1. \E x \in w.open : x[1] = g
                BY <2>0
            <4>2. \E x \in w.open : x[1] = h
                BY <3>1, <4>1
            <4>3. grants'[h] = (CHOOSE x \in w.open : x[1] = h)[2]
                <5>1. grants' = [k \in Grant |->
                        CASE \E x \in w.open : x[1] = k -> (CHOOSE x \in w.open : x[1] = k)[2]
                          [] \E t \in w.turn : t[1] = k -> Turned(grants[k], seen[p].at)
                          [] k \in w.close -> [grants[k] EXCEPT !.state = "revoked"]
                          [] OTHER -> grants[k]]
                    BY DEF Applied
                <5>2. ~(\E t \in w.turn : t[1] = h) /\ h \notin w.close
                    BY <3>1, <2>3, <1>2
                <5>3. \A k \in Grant : (\E x \in w.open : x[1] = k) /\ ~(\E t \in w.turn : t[1] = k)
                            /\ k \notin w.close => grants'[k] = (CHOOSE x \in w.open : x[1] = k)[2]
                    BY <5>1
                <5> QED BY <4>2, <5>2, <5>3
            <4> QED BY <3>1, <4>3, <2>2
        <3>2. CASE h # g
            <4>1. ~(\E x \in w.open : x[1] = h) /\ ~(\E t \in w.turn : t[1] = h)
                BY <3>2, <2>1, <2>3
            <4> QED BY <3>2, <4>1, <2>3 DEF Applied
        <3> QED BY <3>1, <3>2
    <2>5. grants' = [h \in Grant |-> grants'[h]]
        BY DEF Applied
    <2> QED BY <2>4, <2>5
<1>6. /\ grants'[g].state = "live" /\ grants'[g].client = {r.client} /\ grants'[g].code = {r.id}
      /\ grants'[g].since = r.since /\ grants'[g].current = 0 /\ grants'[g].prev = {}
      /\ grants'[g].rotatedAt = 0 /\ grants'[g].turnedAt = 0 /\ grants'[g].last = 0
      /\ grants'[g] \in GrantRow
    <2>1. {r.client} \in SUBSET Client /\ {r.id} \in SUBSET Code /\ r.since \in Nat
        BY <1>2 DEF CodeRow
    <2>2. grants'[g] = FirstToken(r)
        BY <1>5
    <2>3. FirstToken(r) = [state |-> "live", client |-> {r.client}, code |-> {r.id}, since |-> r.since,
                           current |-> 0, prev |-> {}, rotatedAt |-> 0, turnedAt |-> 0, last |-> 0]
        <3>1. FirstToken(r) = [[state |-> "absent", client |-> {}, code |-> {}, since |-> 0, current |-> 0,
                                prev |-> {}, rotatedAt |-> 0, turnedAt |-> 0, last |-> 0]
                               EXCEPT !.state = "live", !.client = {r.client}, !.code = {r.id}, !.since = r.since]
            BY DEF FirstToken, NoGrant
        <3> QED BY <3>1
    <2>4. 0 \in Nat /\ {} \in SUBSET Nat
        OBVIOUS
    <2>5. FirstToken(r) \in GrantRow
        BY <2>1, <2>3, <2>4 DEF GrantRow
    <2> QED BY <2>2, <2>3, <2>5
<1>7. ASSUME NEW h \in Grant, h # g
      PROVE  /\ grants'[h] \in GrantRow
             /\ grants'[h].state = (IF h \in E THEN "revoked" ELSE grants[h].state)
             /\ h \notin E => grants'[h] = grants[h]
             /\ grants'[h].client = grants[h].client /\ grants'[h].code = grants[h].code
             /\ grants'[h].since = grants[h].since /\ grants'[h].current = grants[h].current
             /\ grants'[h].prev = grants[h].prev /\ grants'[h].rotatedAt = grants[h].rotatedAt
             /\ grants'[h].turnedAt = grants[h].turnedAt /\ grants'[h].last = grants[h].last
    <2>1. grants[h] \in GrantRow
        BY DEF IInv, TypeOK
    <2>2. grants'[h] = IF h \in E THEN [grants[h] EXCEPT !.state = "revoked"] ELSE grants[h]
        BY <1>5, <1>7
    <2> HIDE DEF E
    <2>3. CASE h \in E
        BY <2>1, <2>2, <2>3 DEF GrantRow
    <2>4. CASE h \notin E
        BY <2>1, <2>2, <2>4
    <2> QED BY <2>3, <2>4
<1>8. ASSUME NEW h \in Grant
      PROVE  h \in Unrevoked' <=> h = g \/ (h \in Unrevoked /\ h \notin E)
    BY <1>1, <1>2, <1>6, <1>7 DEF Unrevoked
<1>8a. Unrevoked' \subseteq Grant
    BY DEF Unrevoked
<1>9. TypeOK'
    <2>1. grants' \in [Grant -> GrantRow]
        BY <1>5, <1>6, <1>7
    <2>2. <<g, 0>> \in Token
        BY BoundsAssumption DEF Token
    <2>3. access' \subseteq Token
        BY <1>3, <2>2 DEF IInv, TypeOK
    <2> QED BY <1>3, <1>4, <2>1, <2>3, FinishTypes DEF IInv, TypeOK
<1>10. /\ BuffersHold' /\ OneHolder'
       /\ seen'[p].at = 0 /\ seen'[p].token = {} /\ seen'[p].code = {}
       /\ \A q \in Proc \ {p} : pc'[q] = pc[q] /\ op'[q] = op[q] /\ seen'[q] = seen[q]
       /\ \A q \in Proc : seen'[q].code \subseteq seen[q].code
    BY <1>3, CommitEnds
<1>11. ASSUME NEW h \in Grant
       PROVE  GrantSound(h)'
    <2>1. CASE h = g
        BY <2>1, <1>2, <1>3, <1>6, BoundsAssumption DEF GrantSound, CodeRow
    <2>2. CASE h # g
        <3>1. GrantSound(h) /\ (grants[h].state = "absent" => h \notin E)
            BY <1>2 DEF IInv, RowsSound, Unrevoked
        <3> QED BY <2>2, <3>1, <1>3, <1>7 DEF GrantSound
    <2> QED BY <2>1, <2>2
<1>12. CodesSound'
    <2>0. CodesSound
        BY DEF IInv, RowsSound
    <2>1. ASSUME NEW x, CodeHolds(x), x.id # r.id
          PROVE  CodeHolds(x)'
        BY <2>1, <1>3, <1>4, <1>6, <1>7 DEF CodeHolds
    <2>2. \A x \in codes : x.id # r.id
        BY <2>0 DEF CodesSound
    <2>3. \A q \in Proc : \A x \in seen'[q].code : q # p /\ x \in seen[q].code /\ x.id # r.id
        BY <2>0, <1>10 DEF CodesSound
    <2>4. \A x \in codes' : CodeHolds(x)'
        BY <2>0, <2>1, <2>2, <1>3 DEF CodesSound
    <2>5. \A q \in Proc : \A x \in seen'[q].code : CodeHolds(x)'
        BY <2>0, <2>1, <2>3 DEF CodesSound
    <2> QED BY <2>0, <2>3, <2>4, <2>5, <1>3 DEF CodesSound
<1>13. ConnectedClientsStay'
    <2>1. \A x \in codes' : clients'[x.client] = "used"
        BY <1>12 DEF CodesSound, CodeHolds
    <2>2. ASSUME NEW h \in Unrevoked', NEW c \in grants'[h].client
          PROVE  clients'[c] = "used"
        <3>1. CASE h = g
            BY <3>1, <2>2, <1>2, <1>4, <1>6 DEF CodeHolds
        <3>2. CASE h # g
            BY <3>2, <2>2, <1>4, <1>7, <1>8, <1>8a DEF IInv, RowsSound, ConnectedClientsStay
        <3> QED BY <3>1, <3>2
    <2> QED BY <2>1, <2>2 DEF ConnectedClientsStay
<1>14. OneConnectionPerClient'
    <2> SUFFICES ASSUME NEW h \in Unrevoked', NEW k \in Unrevoked',
                        grants'[h].client = grants'[k].client
                 PROVE  h = k
        BY DEF OneConnectionPerClient
    <2>1. \A j \in Unrevoked' : j # g => j \in Unrevoked /\ grants'[j].client # {r.client}
        BY <1>7, <1>8, <1>8a DEF Earlier
    <2>2. CASE h # g /\ k # g
        BY <2>1, <2>2, <1>7, <1>8a DEF IInv, RowsSound, OneConnectionPerClient
    <2> QED BY <2>1, <2>2, <1>6
<1>15. NoGrantOutlivesReclaim'
    <2>1. r.since >= account.evicted
        BY <1>1, <1>2 DEF CodeHolds
    <2> SUFFICES ASSUME NEW h \in Unrevoked' PROVE grants'[h].since >= account'.evicted
        BY DEF NoGrantOutlivesReclaim
    <2>2. CASE h = g
        BY <2>1, <2>2, <1>3, <1>6
    <2>3. CASE h # g
        BY <2>3, <1>3, <1>7, <1>8, <1>8a DEF IInv, RowsSound, NoGrantOutlivesReclaim
    <2> QED BY <2>2, <2>3
<1>16. CodeBuysOneGrant'
    <2> SUFFICES ASSUME NEW h \in Grant, NEW k \in Grant, grants'[h].code \cap grants'[k].code # {}
                 PROVE  h = k
        BY DEF CodeBuysOneGrant
    <2>1. \A j \in Grant : j # g => grants'[j].code = grants[j].code /\ r.id \notin grants[j].code
        BY <1>2, <1>7 DEF CodeHolds
    <2>2. CASE h # g /\ k # g
        BY <2>1, <2>2 DEF IInv, RowsSound, CodeBuysOneGrant
    <2> QED BY <2>1, <2>2, <1>6
<1>17. AccessIsLive'
    <2> SUFFICES ASSUME NEW a \in access' PROVE grants'[a[1]].state = "live"
        BY DEF AccessIsLive
    <2>1. CASE a \in access /\ a \notin AccessOf(E)
        <3>1. a[1] \in Grant /\ grants[a[1]].state = "live" /\ a[1] \notin E
            BY <2>1 DEF IInv, TypeOK, Token, RowsSound, AccessIsLive, AccessOf
        <3>2. a[1] # g
            BY <3>1, <1>1
        <3> QED BY <3>1, <3>2, <1>7
    <2>2. CASE a = <<g, 0>>
        BY <2>2, <1>6
    <2> QED BY <2>1, <2>2, <1>3
<1>18. EveryIssuedTokenIsKnown'
    <2> SUFFICES ASSUME NEW h \in Unrevoked', NEW n \in 0 .. grants'[h].last
                 PROVE  n = grants'[h].current \/ <<h, n>> \in spent'
        BY DEF EveryIssuedTokenIsKnown
    <2>1. CASE h = g
        BY <2>1, <1>6
    <2>2. CASE h # g
        BY <2>2, <1>3, <1>7, <1>8, <1>8a DEF IInv, RowsSound, EveryIssuedTokenIsKnown
    <2> QED BY <2>1, <2>2
<1>19. SeenHolds'
    <2> SUFFICES ASSUME NEW q \in Proc
                 PROVE  /\ seen'[q].at <= now'
                        /\ \A u \in seen'[q].token : TokenHolds(q, u)'
                        /\ \A u, v \in seen'[q].token : u = v
        BY DEF SeenHolds
    <2>1. CASE q = p
        BY <2>1, <1>2, <1>3, <1>10
    <2>2. CASE q # p
        <3>1. /\ seen'[q] = seen[q] /\ pc'[q] = pc[q] /\ op'[q] = op[q]
              /\ seen[q].at <= now /\ (\A u, v \in seen[q].token : u = v)
              /\ seen[q] \in Seen
            BY <2>2, <1>10 DEF IInv, SeenHolds, TypeOK
        <3>2. ASSUME NEW u \in seen[q].token
              PROVE  TokenHolds(q, u)'
            <4>1. TokenHolds(q, u) /\ u[1] \in Grant
                BY <3>1 DEF IInv, SeenHolds, Seen, Token
            <4>2. u[1] # g
                BY <4>1, <1>1 DEF TokenHolds
            <4>3. grants'[u[1]].state # "absent"
                BY <4>1, <4>2, <1>7 DEF TokenHolds
            <4>4. u[1] \in Unrevoked' => u[1] \in Unrevoked
                BY <4>1, <4>2, <1>8
            <4> QED BY <4>1, <4>2, <4>3, <4>4, <3>1, <1>7 DEF TokenHolds
        <3> QED BY <3>1, <3>2, <1>3
    <2> QED BY <2>1, <2>2
<1>20. AccountSound'
    BY <1>3 DEF IInv, RowsSound, AccountSound
<1>21. AnswersHold'
    <2>1. answered' = answered
        BY <1>3, OthersAnswerNothing
    <2> SUFFICES ASSUME NEW h \in answered
                 PROVE  h \notin Unrevoked' /\ grants'[h].state # "absent"
        BY <2>1 DEF AnswersHold
    <2>2. h \in Grant /\ h \notin Unrevoked /\ grants[h].state # "absent" /\ h # g
        BY <1>1 DEF IInv, TypeOK, AnswersHold
    <2> QED BY <2>2, <1>7, <1>8
<1> QED BY <1>9, <1>10, <1>11, <1>12, <1>13, <1>14, <1>15, <1>16, <1>17, <1>18, <1>19, <1>20, <1>21
    DEF IInv, RowsSound

LEMMA CommitHolds ==
    ASSUME NEW p \in Proc, IInv, Commit(p)
    PROVE  IInv'
<1>1. PICK w \in writes[p] : Applied(p, w)
    BY DEF Commit, Applied
<1>2. Would(p, w)
    BY DEF IInv, BuffersHold
<1>3. CASE op[p] = "Approve" /\ \E r \in CodeRow : WouldIssue(p, w, r)
    BY <1>1, <1>3, IssueCommits
<1>4. CASE op[p] = "Exchange" /\ \E r \in seen[p].code, g \in Grant : WouldOpen(p, w, r, g)
    BY <1>1, <1>4, OpenCommits
<1>5. CASE op[p] = "Refresh" /\ \E t \in seen[p].token : WouldTurn(p, w, t)
    BY <1>1, <1>5, TurnCommits
<1>6. CASE op[p] = "Disconnect" /\ \E t \in seen[p].token : WouldClose(p, w, t)
    BY <1>1, <1>6, CloseCommits
<1>7. CASE op[p] = "Reclaim" /\ WouldReclaim(p, w)
    BY <1>1, <1>7, ReclaimCommits
<1> QED BY <1>2, <1>3, <1>4, <1>5, <1>6, <1>7 DEF Would

-------------------------------------------------------------------------------
(* The invariant *)

LEMMA StutterHolds == IInv /\ UNCHANGED vars => IInv'
<1> SUFFICES ASSUME IInv, UNCHANGED vars PROVE IInv'
    OBVIOUS
<1>1. /\ OnlyStatesChange /\ Unrevoked' = Unrevoked
      /\ UNCHANGED rows /\ UNCHANGED <<pc, op, seen, writes, answered>>
    BY DEF vars, rows, OnlyStatesChange, Unrevoked
<1>2. TypeOK'
    BY <1>1 DEF IInv, TypeOK, rows
<1>3. RowsSound'
    BY <1>1, RowsKept DEF IInv
<1>4. SeenHolds'
    BY <1>1 DEF IInv, SeenHolds, TokenHolds, rows
<1>5. BuffersHold'
    <2> SUFFICES ASSUME NEW p \in Proc
                 PROVE  /\ pc'[p] # "commit" => writes'[p] = {}
                        /\ \A w \in writes'[p] : Would(p, w)'
        BY DEF BuffersHold
    <2>1. pc'[p] # "commit" => writes'[p] = {}
        BY <1>1 DEF IInv, BuffersHold
    <2>2. ASSUME NEW w \in writes[p]
          PROVE  Would(p, w)'
        <3>1. \A r \in w.code : clients'[r.client] # "absent"
            BY <1>1, BufferedClient DEF rows
        <3> QED BY <1>1, <3>1, WouldKept DEF rows
    <2> QED BY <1>1, <2>1, <2>2
<1>6. OneHolder' /\ AnswersHold'
    BY <1>1 DEF IInv, OneHolder, Holding, AnswersHold, rows
<1> QED BY <1>2, <1>3, <1>4, <1>5, <1>6 DEF IInv

LEMMA NextHolds == IInv /\ [Next]_vars => IInv'
<1> SUFFICES ASSUME IInv, Next PROVE IInv'
    BY StutterHolds
<1>1. ASSUME NEW p \in Proc, Arrive(p) PROVE IInv'
    BY <1>1, ArriveHolds, ExchangeHolds DEF Arrive
<1>2. ASSUME NEW p \in Proc, Run(p) PROVE IInv'
    BY <1>2, FindGrantHolds, FindSpentHolds, LockHolds, BodyHolds, CommitHolds, RejectHolds DEF Run
<1>3. ASSUME NEW p \in Proc, Crash(p) PROVE IInv'
    BY <1>3, CrashHolds
<1>4. CASE Purge
    BY <1>4, ClientStatementsHold, ExpireCodeHolds, ExpireGrantHolds, DeleteDeadGrantHolds DEF Purge
<1> QED BY <1>1, <1>2, <1>3, <1>4, SignHolds, TickHolds DEF Next

LEMMA Inductive == Spec => []IInv
<1> QED BY InitHolds, NextHolds, PTL DEF Spec

-------------------------------------------------------------------------------
(* The theorems *)

\* Every variable keeps its type.
THEOREM TypesAreKept == Spec => []TypeOK
<1>1. IInv => TypeOK
    BY DEF IInv
<1> QED BY <1>1, Inductive, PTL

\* No access token outlives its grant: a refresh whose commit comes after a
\* disconnect, a replacement, a reuse or a reclaim leaves none (RotateGrant asks
\* again, under the users-row lock, that the grant is not revoked).
THEOREM AccessEndsWithItsGrant == Spec => []AccessDiesWithItsGrant
<1>1. IInv => AccessDiesWithItsGrant
    BY DEF IInv, TypeOK, RowsSound, AccessIsLive, AccessDiesWithItsGrant, Unrevoked, Token
<1> QED BY <1>1, Inductive, PTL

\* However many codes of a client are exchanged at once, one connection to it
\* stands (the exchange revokes the earlier ones in the transaction that inserts).
THEOREM OneConnectionStays == Spec => []OneConnectionPerClient
<1>1. IInv => OneConnectionPerClient
    BY DEF IInv, RowsSound
<1> QED BY <1>1, Inductive, PTL

\* A reclaim leaves no connection approved before it, not even one whose code was
\* consumed before the reclaim and exchanged after (the fence on the generation).
THEOREM ReclaimEndsConnections == Spec => []NoGrantOutlivesReclaim
<1>1. IInv => NoGrantOutlivesReclaim
    BY DEF IInv, RowsSound
<1> QED BY <1>1, Inductive, PTL

\* A code opens at most one grant, whatever the number of exchanges in flight
\* (ConsumeCode deletes the row it reads).
THEOREM CodesAreSpentOnce == Spec => []CodeBuysOneGrant
<1>1. IInv => CodeBuysOneGrant
    BY DEF IInv, RowsSound
<1> QED BY <1>1, Inductive, PTL

\* No purge reaches a client that a code or a connection needs
\* (MarkClientUsed goes with the code, and the purges spare used clients).
THEOREM ClientsStayRegistered == Spec => []ConnectedClientsStay
<1>1. IInv => ConnectedClientsStay
    BY DEF IInv, RowsSound
<1> QED BY <1>1, Inductive, PTL

\* Every token issued for a standing connection is its current one or on record
\* as spent (RotateGrant inserts what it rotates away in one transaction).
THEOREM TokensAreOnRecord == Spec => []EveryIssuedTokenIsKnown
<1>1. IInv => EveryIssuedTokenIsKnown
    BY DEF IInv, RowsSound
<1> QED BY <1>1, Inductive, PTL

\* A stale token is never answered while its connection stands: the answer comes
\* with the revocation, or finds it done (handleRotatedRefresh).
THEOREM ReuseIsPunished == Spec => []ReuseEndsTheGrant
<1>1. IInv => ReuseEndsTheGrant
    BY DEF IInv, AnswersHold, ReuseEndsTheGrant
<1> QED BY <1>1, Inductive, PTL

\* A request that presented the current token is never taken for reuse, unless
\* it or the rotation that overtook it was slower than the grace window, or a
\* second rotation followed.
THEOREM ConcurrentRefreshIsNot == Spec => OnlyReuseEndsTheGrant
<1> DEFINE Late(p) == \E t \in seen[p].token : \/ t[2] \notin grants[t[1]].prev
                                               \/ now - seen[p].at > Grace
                                               \/ grants[t[1]].turnedAt - grants[t[1]].rotatedAt > Grace
           A == \A p \in Proc : pc[p] = "findSpent" /\ pc'[p] = "lock" /\ seen[p].valid => Late(p)
<1>1. ASSUME IInv, Next, NEW p \in Proc, pc[p] = "findSpent", pc'[p] = "lock", seen[p].valid
      PROVE  Late(p)
    <2>0. pc \in [Proc -> {"idle", "find", "findSpent", "lock", "body", "commit"}]
        BY <1>1 DEF IInv, TypeOK
    <2>1. FindSpent(p)
        <3>1. ASSUME NEW q \in Proc, Arrive(q) PROVE FALSE
            <4>1. ASSUME NEW o, NEW where, NEW s, Start(q, o, where, s) PROVE FALSE
                BY <1>1, <2>0, <4>1 DEF Start
            <4>2. ~Exchange(q)
                BY <1>1, <2>0 DEF Exchange
            <4>3. ~Approve(q)
                BY <4>1 DEF Approve
            <4>4. ~Refresh(q)
                BY <4>1 DEF Refresh
            <4>5. ~Disconnect(q)
                BY <4>1 DEF Disconnect
            <4>6. ~Reclaim(q)
                BY <4>1 DEF Reclaim
            <4> QED BY <3>1, <4>2, <4>3, <4>4, <4>5, <4>6 DEF Arrive
        <3>2. ASSUME NEW q \in Proc, Crash(q) PROVE FALSE
            BY <1>1, <2>0, <3>2 DEF Crash, Finish
        <3>3. ASSUME NEW q \in Proc, Run(q) PROVE q = p /\ FindSpent(q)
            <4>1. ~Commit(q) /\ ~Reject(q)
                BY <1>1, <2>0 DEF Commit, Reject, Refuse, Finish
            <4>2. ~LockForOAuth(q)
                BY <1>1, <2>0 DEF LockForOAuth, Go
            <4>3. ~Body(q)
                <5>1. ASSUME NEW w, pc[q] = "body", Buffer(q, w) PROVE FALSE
                    BY <1>1, <2>0, <5>1 DEF Buffer
                <5>2. ~IssueCode(q)
                    BY <5>1 DEF IssueCode, In
                <5>3. ~OpenGrant(q)
                    BY <5>1 DEF OpenGrant, In
                <5>4. ~RotateGrant(q)
                    BY <5>1 DEF RotateGrant, In
                <5>5. ~RevokeGrant(q) /\ ~RevokeAllForUser(q)
                    BY <5>1 DEF RevokeGrant, RevokeAllForUser, In
                <5> QED BY <5>2, <5>3, <5>4, <5>5 DEF Body
            <4>4. ~FindGrant(q)
                BY <1>1, <2>0 DEF FindGrant, Go, Refuse, Finish
            <4>5. FindSpent(q) => q = p
                BY <1>1, <2>0 DEF FindSpent, Refuse, Finish
            <4> QED BY <3>3, <4>1, <4>2, <4>3, <4>4, <4>5 DEF Run
        <3>4. ~Purge /\ ~Sign /\ ~Tick
            BY <1>1 DEF Purge, InsertClient, PurgeClient, ExpireCode, ExpireGrant, DeleteDeadGrant,
                Sign, Tick
        <3> QED BY <1>1, <3>1, <3>2, <3>3, <3>4 DEF Next
    <2>2. PICK t \in seen[p].token : ~Forgiven(t[1], t[2], seen[p].at)
        BY <1>1, <2>0, <2>1 DEF FindSpent, Refuse, Finish
    <2>3. CASE t[2] \notin grants[t[1]].prev
        BY <2>3
    <2>4. CASE t[2] \in grants[t[1]].prev
        <3>1. Elapsed(t[1], seen[p].at) > Grace
            <4>1. t[1] \in Grant /\ Elapsed(t[1], seen[p].at) \in Int /\ Grace \in Nat
                BY <1>1, BoundsAssumption DEF IInv, TypeOK, Seen, Token, GrantRow, Elapsed
            <4> QED BY <2>2, <2>4, <4>1 DEF Forgiven
        <3>2. /\ grants[t[1]].rotatedAt <= grants[t[1]].turnedAt /\ grants[t[1]].turnedAt <= now
              /\ seen[p].at <= grants[t[1]].turnedAt
            BY <1>1, <2>4 DEF IInv, TypeOK, RowsSound, GrantSound, SeenHolds, TokenHolds, Seen, Token
        <3>3. /\ grants[t[1]].rotatedAt \in Nat /\ grants[t[1]].turnedAt \in Nat /\ now \in Nat
              /\ seen[p].at \in Nat /\ Grace \in Nat
            BY <1>1, BoundsAssumption DEF IInv, TypeOK, Seen, Token, GrantRow
        <3> QED BY <3>1, <3>2, <3>3 DEF Elapsed
    <2> QED BY <2>3, <2>4
<1>2. ASSUME UNCHANGED vars PROVE A
    BY <1>2 DEF vars
<1>3. IInv /\ [Next]_vars => [A]_vars
    BY <1>1, <1>2
<1> QED BY <1>3, Inductive, PTL DEF Spec, OnlyReuseEndsTheGrant
================================================================================
