------------------------------ MODULE RateLimit ------------------------------
(***************************************************************************)
(* The limiter of internal/infra/ratelimit, and the sign-in that counts    *)
(* its guesses with it (internal/user/usecase.go, login.go).  A guess is   *)
(* counted before the password is tested, under its address and client IP  *)
(* and under a ceiling of the address across all IPs; a right one is given *)
(* back.  Each call of the limiter holds its mutex, and is one step.       *)
(*                                                                         *)
(* Time passes in ticks.  A counter's attempts are kept by their ages,     *)
(* oldest first, an age stopping at Window; a restart, which empties the   *)
(* map, is left out, as are the scopes that only count (remind, register,  *)
(* invitations), which take the same steps and give nothing back.          *)
(***************************************************************************)
EXTENDS Integers, FiniteSets, SequencesExt

CONSTANTS
    Address,        \* normalized addresses tried
    Known,          \* those that have an account
    IP,             \* client IPs
    Request,        \* requests in flight
    Owners,         \* those made by someone who knows the password
    Window,         \* length of the sliding window, in ticks
    IPWindow,       \* the same of the IP backstop
    OwnLimit,       \* attempts per address and IP
    CeilingLimit,   \* attempts per address
    IPLimit,        \* requests per IP in its window
    Duration,       \* ticks within which a request is answered
    MaxKeys         \* sizes of the map: one of them, for good

ASSUME TimeAssumption ==
    /\ Window \in Nat \ {0} /\ IPWindow \in 1 .. Window /\ Duration \in Nat
    /\ 2 * Duration < Window
ASSUME LimitAssumption ==
    {OwnLimit, CeilingLimit, IPLimit} \subseteq Nat \ {0} /\ MaxKeys \subseteq Nat \ {0}
ASSUME KnownAssumption == Known \subseteq Address /\ Owners \subseteq Request

VARIABLES
    maxKeys,        \* Config.MaxKeys
    attempts,       \* Limiter.attempts, a counter without attempts being absent
    requests,       \* where each sign-in is
    failures        \* ages of the wrong guesses last tested at each address (not
                    \* in the code)

\* How long a wrong guess is held against the next ones at least.
Guarded == Window - 2 * Duration

vars == <<maxKeys, attempts, requests, failures>>

------------------------------------------------------------------------------
(* Counters *)

Own(a, i) == <<"own", a, i>>
Ceiling(a) == <<IF a \in Known THEN "ceiling" ELSE "unknown", a, "any">>
Backstop(i) == <<"ip", "any", i>>
Sent(a) == <<"sent", a, "any">>

Key == {Own(a, i) : a \in Address, i \in IP} \cup {Ceiling(a) : a \in Address}
       \cup {Backstop(i) : i \in IP} \cup {Sent(a) : a \in Address}

Limit(k) == CASE k[1] = "own" -> OwnLimit [] k[1] = "ip" -> IPLimit [] OTHER -> CeilingLimit

WindowOf(k) == IF k[1] = "ip" THEN IPWindow ELSE Window

\* Every scope can be evicted.
NonePinned(k) == FALSE

Pinned(k) == k[1] = "ceiling"

\* The attempts from the first one inside the window on.
Prune(hits, window) ==
    LET Live(n) == hits[n] < window
        expired == CHOOSE i \in 0 .. Len(hits) :
            (\A n \in 1 .. i : ~Live(n)) /\ (i < Len(hits) => Live(i + 1))
    IN  SubSeq(hits, expired + 1, Len(hits))

Pruned(m, k) == [m EXCEPT ![k] = Prune(@, WindowOf(k))]

Held(m, k) == Len(Prune(m[k], WindowOf(k))) >= Limit(k)

Keys(m) == {k \in Key : m[k] # <<>>}

\* Evict drops what has expired; when that was not enough, a counter whose
\* last attempt is the oldest, unless it is pinned.
Evicted(m) ==
    LET live == [k \in Key |-> Prune(m[k], WindowOf(k))]
        loose == {k \in Keys(live) : ~Pinned(k)}
        stalest == {k \in loose : \A j \in loose : Last(live[k]) >= Last(live[j])}
    IN  IF Cardinality(Keys(live)) >= maxKeys /\ loose # {}
        THEN {[live EXCEPT ![k] = <<>>] : k \in stalest}
        ELSE {live}

\* The maps in which k may be counted: room is made for a new key only.
Room(m, k) ==
    IF m[k] = <<>> /\ Cardinality(Keys(m)) >= maxKeys THEN Evicted(m) ELSE {Pruned(m, k)}

Counted(m, k) == {[r EXCEPT ![k] = Append(@, 0)] : r \in Room(m, k)}

\* A caller who is refused starts the window again.
CheckedAgain(m, k) ==
    IF Held(m, k) THEN [Pruned(m, k) EXCEPT ![k] = Append(Tail(@), 0)] ELSE Pruned(m, k)

\* Allow: the map after k was looked up, refused or not.
Checked(m, k) == Pruned(m, k)

\* Reserve: the maps after an attempt at k was counted, or was refused.
Reserved(m, k) == IF Held(m, k) THEN {Pruned(m, k)} ELSE Counted(m, k)

Released(m, k) == [m EXCEPT ![k] = IF @ = <<>> THEN @ ELSE Front(@)]

------------------------------------------------------------------------------
(* Sign-ins *)

Idle == [at |-> "idle", address |-> "none", ip |-> "none", age |-> 0]
Step == {"allowed", "counted", "reserved", "right", "released", "forgiven", "undone"}

At(r, step) == requests[r].at = step
Goes(r, step) == requests' = [requests EXCEPT ![r].at = step]
Ends(r) == requests' = [requests EXCEPT ![r] = Idle]
OwnOf(r) == Own(requests[r].address, requests[r].ip)
CeilingOf(r) == Ceiling(requests[r].address)

\* Allow, of the ceiling and then of the address and IP: reads the counters,
\* and counts the request against its IP when nothing is held.
Allow(r, a, i) ==
    LET first == Checked(attempts, Ceiling(a))
        second == IF Held(attempts, Ceiling(a)) THEN first ELSE Checked(first, Own(a, i))
        passes == ~Held(attempts, Ceiling(a)) /\ ~Held(attempts, Own(a, i))
    IN  /\ At(r, "idle")
        /\ IF passes /\ ~Held(attempts, Backstop(i))
           THEN /\ attempts' \in Counted(second, Backstop(i))
                /\ requests' = [requests EXCEPT ![r] =
                        [at |-> "allowed", address |-> a, ip |-> i, age |-> 0]]
           ELSE /\ attempts' = IF passes THEN Checked(second, Backstop(i)) ELSE second
                /\ UNCHANGED requests
        /\ UNCHANGED <<maxKeys, failures>>

\* The account cannot be looked up.
FailLookup(r) ==
    /\ At(r, "allowed")
    /\ Ends(r)
    /\ UNCHANGED <<attempts, failures>>

\* The account has been looked up.
ReserveOwn(r) ==
    /\ At(r, "allowed")
    /\ attempts' \in Reserved(attempts, OwnOf(r))
    /\ IF Held(attempts, OwnOf(r)) THEN Ends(r) ELSE Goes(r, "counted")
    /\ UNCHANGED failures

\* An address without an account is counted, and refused as any other.
ReserveCeiling(r) ==
    /\ At(r, "counted")
    /\ attempts' \in Reserved(attempts, CeilingOf(r))
    /\ CASE Held(attempts, CeilingOf(r)) -> Goes(r, "undone")
         [] OTHER -> IF requests[r].address \in Known THEN Goes(r, "reserved") ELSE Ends(r)
    /\ UNCHANGED failures

\* The password is tested.
FailGuess(r) ==
    /\ At(r, "reserved")
    /\ failures' = [failures EXCEPT ![requests[r].address] = Append(@, 0)]
    /\ Ends(r)
    /\ UNCHANGED attempts

RightGuess(r) == r \in Owners /\ At(r, "reserved") /\ Goes(r, "right") /\ UNCHANGED <<attempts, failures>>

\* GiveBack: of a right guess, or of one the ceiling refused.
ReleaseOwn(r) ==
    /\ At(r, "right") \/ At(r, "undone")
    /\ attempts' = Released(attempts, OwnOf(r))
    /\ IF At(r, "right") THEN Goes(r, "released") ELSE Ends(r)
    /\ UNCHANGED failures

ReleaseCeiling(r) ==
    /\ At(r, "released")
    /\ attempts' = Released(attempts, CeilingOf(r))
    /\ Goes(r, "forgiven")
    /\ UNCHANGED failures

\* The sign-in succeeded, or failed on an error and clears nothing.
ClearOwn(r) ==
    /\ At(r, "forgiven")
    /\ attempts' \in {attempts, [attempts EXCEPT ![OwnOf(r)] = <<>>]}
    /\ Ends(r)
    /\ UNCHANGED failures

\* A code is emailed, or would be if the address had an account.  Of the marks of
\* an address the newest is kept, the only one read; the callers' gap between two
\* is left out: two resends at once, or a sign-in that sends a code, leave none.
Mark(a) ==
    /\ attempts' \in {[m EXCEPT ![Sent(a)] = <<0>>] : m \in Room(attempts, Sent(a))}
    /\ UNCHANGED <<maxKeys, requests, failures>>

\* A request is answered within Duration.
Tick ==
    /\ UNCHANGED maxKeys
    /\ \A r \in Request : At(r, "idle") \/ requests[r].age < Duration
    /\ attempts' = [k \in Key |-> [n \in DOMAIN attempts[k] |->
            IF attempts[k][n] < Window THEN attempts[k][n] + 1 ELSE Window]]
    /\ requests' = [r \in Request |->
            IF At(r, "idle") THEN requests[r] ELSE [requests[r] EXCEPT !.age = @ + 1]]
    /\ failures' = [a \in Known |->
            Prune([n \in DOMAIN failures[a] |-> failures[a][n] + 1], Guarded)]

Proceed(r) ==
    /\ UNCHANGED maxKeys
    /\ \/ FailLookup(r) \/ ReserveOwn(r) \/ ReserveCeiling(r) \/ FailGuess(r) \/ RightGuess(r)
       \/ ReleaseOwn(r) \/ ReleaseCeiling(r) \/ ClearOwn(r)

Init ==
    /\ maxKeys \in MaxKeys
    /\ attempts = [k \in Key |-> <<>>]
    /\ requests = [r \in Request |-> Idle]
    /\ failures = [a \in Known |-> <<>>]

Next ==
    \/ \E r \in Request : Proceed(r)
    \/ \E r \in Request, a \in Address, i \in IP : Allow(r, a, i)
    \/ \E a \in Address : Mark(a)
    \/ Tick

\* Requests end, time passes.
Fairness == (\A r \in Request : WF_vars(Proceed(r))) /\ WF_vars(Tick)

Spec == Init /\ [][Next]_vars
FairSpec == Spec /\ Fairness

------------------------------------------------------------------------------
(* Properties *)

Sorted(ages) == \A m, n \in DOMAIN ages : m < n => ages[m] >= ages[n]

\* Counters are sorted by age and never exceed their limit.
TypeOK ==
    /\ maxKeys \in MaxKeys
    /\ attempts \in [Key -> Seq(0 .. Window)]
    /\ \A k \in Key : Len(attempts[k]) <= Limit(k) /\ Sorted(attempts[k])
    /\ requests \in [Request -> {Idle} \cup
            [at : Step, address : Address, ip : IP, age : 0 .. Duration]]
    /\ failures \in [Known -> Seq(0 .. Guarded - 1)]
    /\ \A a \in Known : Sorted(failures[a])

\* However many requests arrive at once, and whatever else fills the map, no
\* more wrong guesses at an account are tested within the window, less two
\* durations of a request, than its ceiling allows: a guess is tested within
\* one of being counted, and giving back the newest attempt instead of the
\* request's own ages the others by no more than another
\* (ratelimit.go:134-165, server.go:240-248).  Right sign-ins at one time are
\* one: of several, each may leave the next an attempt that is older still.
GuessesAreBounded == \A a \in Known : Len(failures[a]) <= CeilingLimit

\* A refusal is not counted, so a caller who goes on trying is let in again
\* (ratelimit.go:144-147).  Marks are a clock and refuse nobody.
HeldIsLetGo == \A k \in Key : k[1] # "sent" => []<>~Held(attempts, k)
==============================================================================
