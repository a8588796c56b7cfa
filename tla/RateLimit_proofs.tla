------------------------- MODULE RateLimit_proofs -------------------------
(***************************************************************************)
(* Proofs about RateLimit.  Each wrong guess that is still held against an *)
(* address, and each guess under way, is charged to an attempt of its own  *)
(* in the ceiling of the address: so there are no more of them than the    *)
(* ceiling has attempts, and those stay within the limit.  Attempts that   *)
(* expire are charged to nothing, eviction never drops a ceiling, and a    *)
(* right guess that gives back the newest attempt hands its own to the     *)
(* guess that was charged to that one.                                     *)
(***************************************************************************)
EXTENDS RateLimit, FiniteSetTheorems, SequenceTheorems, WellFoundedInduction, TLAPS

------------------------------------------------------------------------------
(* Counters *)

\* A set of naturals that is not empty has a least element.
LEMMA LeastOf ==
    ASSUME NEW S \in SUBSET Nat, S # {}
    PROVE  \E n \in S : \A m \in S : n <= m
<1> DEFINE R == {ss \in Nat \X Nat : ss[1] < ss[2]}
<1>1. IsWellFoundedOn(R, Nat)
  BY NatLessThanWellFounded DEF OpToRel
<1>2. \A m, n \in Nat : m < n => <<m, n>> \in R
  OBVIOUS
<1> HIDE DEF R
<1>3. PICK n \in S : \A m \in S : ~ (<<m, n>> \in R)
  BY <1>1, WFMin
<1>4. \A m \in S : ~ (m < n)
  BY <1>2, <1>3
<1> QED
  BY <1>4

\* Pruning keeps a suffix, from the first attempt inside the window on.
LEMMA PruneIsSuffix ==
    ASSUME NEW A, NEW hits \in Seq(A), NEW window
    PROVE  \E k \in 0 .. Len(hits) :
              /\ Prune(hits, window) = SubSeq(hits, k + 1, Len(hits))
              /\ Prune(hits, window) \in Seq(A)
              /\ Len(Prune(hits, window)) = Len(hits) - k
              /\ \A n \in 1 .. Len(hits) - k : Prune(hits, window)[n] = hits[n + k]
              /\ \A n \in 1 .. Len(hits) : hits[n] < window => k < n
              /\ k < Len(hits) => hits[k + 1] < window
<1> DEFINE Skips(i) == /\ \A n \in 1 .. i : ~ (hits[n] < window)
                       /\ i < Len(hits) => hits[i + 1] < window
           k == CHOOSE i \in 0 .. Len(hits) : Skips(i)
<1>1. Len(hits) \in Nat /\ DOMAIN hits = 1 .. Len(hits)
  OBVIOUS
<1>2. \E i \in 0 .. Len(hits) : Skips(i)
  <2> DEFINE S == {n \in 1 .. Len(hits) : hits[n] < window}
  <2>1. CASE S = {}
    <3>1. Skips(Len(hits)) /\ Len(hits) \in 0 .. Len(hits)
      BY <1>1, <2>1
    <3> QED
      BY <3>1
  <2>2. CASE S # {}
    <3>1. S \in SUBSET Nat
      BY <1>1
    <3>2. \E n \in S : \A m \in S : n <= m
      <4> HIDE DEF S
      <4> QED
        BY <2>2, <3>1, LeastOf
    <3>3. PICK n \in S : \A m \in S : n <= m
      BY <3>2
    <3>4. n - 1 \in 0 .. Len(hits) /\ n \in 1 .. Len(hits) /\ hits[n] < window /\ (n - 1) + 1 = n
      BY <1>1
    <3>5. \A m \in 1 .. n - 1 : ~ (hits[m] < window)
      <4> SUFFICES ASSUME NEW m \in 1 .. n - 1, hits[m] < window PROVE FALSE
        OBVIOUS
      <4>1. m \in S /\ m < n
        BY <1>1, <3>4
      <4> QED
        BY <3>3, <3>4, <4>1
    <3>6. Skips(n - 1)
      BY <3>4, <3>5
    <3> QED
      BY <3>4, <3>6
  <2> QED
    BY <2>1, <2>2
<1>3. k \in 0 .. Len(hits) /\ Skips(k)
  <2> HIDE DEF Skips
  <2> QED
    BY <1>2
<1>4. k \in 0 .. Len(hits)
  BY <1>3
<1>5. Prune(hits, window) = SubSeq(hits, k + 1, Len(hits))
  BY DEF Prune
<1>6. /\ \A n \in 1 .. Len(hits) : hits[n] < window => k < n
      /\ k < Len(hits) => hits[k + 1] < window
  <2>1. /\ \A n \in 1 .. k : ~ (hits[n] < window)
        /\ k < Len(hits) => hits[k + 1] < window
    BY <1>3
  <2> HIDE DEF k
  <2>2. ASSUME NEW n \in 1 .. Len(hits), hits[n] < window
        PROVE  k < n
    BY <1>1, <1>4, <2>1, <2>2
  <2> QED
    BY <2>1, <2>2
<1> HIDE DEF k
<1>7. /\ SubSeq(hits, k + 1, Len(hits)) \in Seq(A)
      /\ Len(SubSeq(hits, k + 1, Len(hits))) = Len(hits) - k
      /\ \A n \in 1 .. Len(hits) - k : SubSeq(hits, k + 1, Len(hits))[n] = hits[n + k]
  <2> DEFINE m == k + 1
             l == Len(hits)
  <2>1. m \in Int /\ l \in Int /\ m <= l + 1
    BY <1>1, <1>4
  <2>2. \A n \in 1 .. l : hits[n] \in A
    BY <1>1
  <2>3. \A n \in m .. l : n \in 1 .. l
    <3>1. m >= 1
      BY <1>4
    <3> QED
      BY <2>1, <3>1
  <2>5. \A n \in m .. l : hits[n] \in A
    BY <2>2, <2>3
  <2> HIDE DEF m, l
  <2>4. /\ SubSeq(hits, m, l) \in Seq(A)
        /\ Len(SubSeq(hits, m, l)) = IF m <= l THEN l - m + 1 ELSE 0
        /\ \A n \in 1 .. l - m + 1 : SubSeq(hits, m, l)[n] = hits[m + n - 1]
    BY <2>1, <2>5, SubSeqProperties
  <2>6. Len(SubSeq(hits, m, l)) = l - k
    BY <1>4, <2>1, <2>4 DEF m
  <2>7. \A n \in 1 .. l - k : SubSeq(hits, m, l)[n] = hits[n + k]
    <3> TAKE n \in 1 .. l - k
    <3>1. n \in 1 .. l - m + 1 /\ m + n - 1 = n + k
      BY <1>4, <2>1 DEF m
    <3> QED
      BY <2>4, <3>1
  <2> QED
    BY <2>4, <2>6, <2>7 DEF m, l
<1> QED
  BY <1>1, <1>4, <1>5, <1>6, <1>7

Ages == 0 .. Window

\* A map of well-formed counters.
MapOK(m) ==
    /\ m \in [Key -> Seq(Ages)]
    /\ \A k \in Key : Len(m[k]) <= Limit(k) /\ Sorted(m[k])

\* What the steps on counters rely on of the constants.
LEMMA ConstantsAreNaturals ==
    /\ Window \in Nat /\ IPWindow \in Nat /\ IPWindow >= 1 /\ Duration \in Nat
    /\ 2 * Duration < Window /\ Window >= 1 /\ Guarded \in Nat /\ Guarded >= 1
    /\ CeilingLimit \in Nat /\ OwnLimit \in Nat /\ IPLimit \in Nat
    /\ CeilingLimit >= 1 /\ OwnLimit >= 1 /\ IPLimit >= 1
BY TimeAssumption, LimitAssumption DEF Guarded

\* No counter has a limit of zero.
LEMMA LimitsArePositive ==
    ASSUME NEW k
    PROVE  Limit(k) \in Nat /\ Limit(k) >= 1
BY ConstantsAreNaturals DEF Limit

\* The keys, told apart.
LEMMA KeysDiffer ==
    /\ \A a \in Address, i \in IP : Own(a, i) \in Key /\ Own(a, i)[1] = "own"
    /\ \A a \in Address : Ceiling(a) \in Key /\ Ceiling(a)[1] \in {"ceiling", "unknown"}
    /\ \A a \in Known : Ceiling(a)[1] = "ceiling" /\ Ceiling(a)[2] = a
    /\ \A i \in IP : Backstop(i) \in Key /\ Backstop(i)[1] = "ip"
    /\ \A a \in Address : Sent(a) \in Key /\ Sent(a)[1] = "sent"
BY KnownAssumption DEF Key, Own, Ceiling, Backstop, Sent

\* The counter of a known address is pinned, and has the window and the limit.
LEMMA CeilingIsPinned ==
    ASSUME NEW a \in Known
    PROVE  /\ a \in Address /\ Ceiling(a) \in Key /\ Pinned(Ceiling(a))
           /\ WindowOf(Ceiling(a)) = Window /\ Limit(Ceiling(a)) = CeilingLimit
           /\ \A b \in Known : Ceiling(a) = Ceiling(b) => a = b
BY KeysDiffer, KnownAssumption DEF Pinned, WindowOf, Limit

\* Pruning keeps a counter well-formed.
LEMMA PruneIsSorted ==
    ASSUME NEW A \in SUBSET Int, NEW hits \in Seq(A), Sorted(hits), NEW window
    PROVE  /\ Prune(hits, window) \in Seq(A)
           /\ Len(Prune(hits, window)) <= Len(hits)
           /\ Sorted(Prune(hits, window))
<1>1. PICK k \in 0 .. Len(hits) :
        /\ Prune(hits, window) \in Seq(A)
        /\ Len(Prune(hits, window)) = Len(hits) - k
        /\ \A n \in 1 .. Len(hits) - k : Prune(hits, window)[n] = hits[n + k]
  BY PruneIsSuffix
<1> DEFINE p == Prune(hits, window)
<1>2. Len(hits) \in Nat /\ DOMAIN hits = 1 .. Len(hits) /\ DOMAIN p = 1 .. Len(hits) - k
  BY <1>1
<1>3. ASSUME NEW m \in DOMAIN p, NEW n \in DOMAIN p, m < n
      PROVE  p[m] >= p[n]
  <2>1. /\ m + k \in DOMAIN hits /\ n + k \in DOMAIN hits /\ m + k < n + k
        /\ p[m] = hits[m + k] /\ p[n] = hits[n + k]
    BY <1>1, <1>2, <1>3
  <2> QED
    BY <2>1 DEF Sorted
<1> QED
  BY <1>1, <1>2, <1>3 DEF Sorted

\* A fresh attempt is the youngest.
LEMMA AppendIsSorted ==
    ASSUME NEW A \in SUBSET Nat, NEW hits \in Seq(A), Sorted(hits), 0 \in A
    PROVE  /\ Append(hits, 0) \in Seq(A) /\ Sorted(Append(hits, 0))
           /\ Len(Append(hits, 0)) = Len(hits) + 1
<1> DEFINE q == Append(hits, 0)
<1>1. /\ Len(hits) \in Nat /\ DOMAIN hits = 1 .. Len(hits) /\ DOMAIN q = 1 .. Len(hits) + 1
      /\ q \in Seq(A) /\ Len(q) = Len(hits) + 1 /\ q[Len(hits) + 1] = 0
      /\ \A n \in 1 .. Len(hits) : q[n] = hits[n] /\ hits[n] \in A
  OBVIOUS
<1> HIDE DEF q
<1>2. ASSUME NEW m \in DOMAIN q, NEW n \in DOMAIN q, m < n
      PROVE  q[m] >= q[n]
  <2>1. m \in 1 .. Len(hits) /\ n \in 1 .. Len(hits) + 1
    BY <1>1, <1>2
  <2>4. m \in DOMAIN hits /\ q[m] = hits[m] /\ hits[m] \in Nat
    BY <1>1, <2>1
  <2>2. CASE n = Len(hits) + 1
    BY <1>1, <2>2, <2>4
  <2>3. CASE n # Len(hits) + 1
    <3>1. n \in DOMAIN hits /\ q[n] = hits[n]
      BY <1>1, <2>1, <2>3
    <3> QED
      BY <1>2, <2>4, <3>1 DEF Sorted
  <2> QED
    BY <2>2, <2>3
<1> QED
  BY <1>1, <1>2 DEF Sorted, q

\* Giving back the newest attempt keeps a counter well-formed.
LEMMA FrontIsSorted ==
    ASSUME NEW A \in SUBSET Int, NEW hits \in Seq(A), Sorted(hits), hits # <<>>
    PROVE  /\ Front(hits) \in Seq(A) /\ Sorted(Front(hits))
           /\ Len(hits) \in Nat /\ Len(hits) >= 1 /\ Len(Front(hits)) = Len(hits) - 1
           /\ \A n \in 1 .. Len(hits) - 1 : Front(hits)[n] = hits[n]
<1> DEFINE q == Front(hits)
           l == Len(hits)
<1>1. l \in Nat /\ l >= 1 /\ DOMAIN hits = 1 .. l /\ \A n \in 1 .. l : hits[n] \in A
  OBVIOUS
<1>2. q = SubSeq(hits, 1, l - 1)
  BY DEF Front
<1>3. \A n \in 1 .. l - 1 : hits[n] \in A
  BY <1>1
<1> HIDE DEF l, q
<1>4. /\ SubSeq(hits, 1, l - 1) \in Seq(A)
      /\ Len(SubSeq(hits, 1, l - 1)) = IF 1 <= l - 1 THEN (l - 1) - 1 + 1 ELSE 0
      /\ \A n \in 1 .. (l - 1) - 1 + 1 : SubSeq(hits, 1, l - 1)[n] = hits[1 + n - 1]
  <2>1. 1 \in Int /\ l - 1 \in Int
    BY <1>1
  <2> QED
    BY <2>1, <1>3, SubSeqProperties
<1>5. q \in Seq(A) /\ Len(q) = l - 1 /\ DOMAIN q = 1 .. l - 1 /\ \A n \in 1 .. l - 1 : q[n] = hits[n]
  BY <1>1, <1>2, <1>4
<1>6. \A m, n \in DOMAIN q : m < n => q[m] >= q[n]
  <2> TAKE m, n \in DOMAIN q
  <2>1. m \in DOMAIN hits /\ n \in DOMAIN hits /\ q[m] = hits[m] /\ q[n] = hits[n]
    BY <1>1, <1>5
  <2> QED
    BY <2>1 DEF Sorted
<1> QED
  BY <1>1, <1>5, <1>6 DEF Sorted, q, l

AgesAreInts == Ages \in SUBSET Int /\ Ages \in SUBSET Nat /\ 0 \in Ages

\* Ages, as the lemmas on sorted sequences take them.
LEMMA AgesType == AgesAreInts
BY ConstantsAreNaturals DEF AgesAreInts, Ages

\* Looking a counter up.
LEMMA PrunedMap ==
    ASSUME NEW m, MapOK(m), NEW k \in Key
    PROVE  /\ MapOK(Pruned(m, k))
           /\ Pruned(m, k)[k] = Prune(m[k], WindowOf(k))
           /\ \A j \in Key : j # k => Pruned(m, k)[j] = m[j]
<1>1. /\ Prune(m[k], WindowOf(k)) \in Seq(Ages)
      /\ Len(Prune(m[k], WindowOf(k))) <= Len(m[k]) /\ Sorted(Prune(m[k], WindowOf(k)))
  BY PruneIsSorted, AgesType DEF MapOK, AgesAreInts
<1>2. Len(Prune(m[k], WindowOf(k))) <= Limit(k)
  <2>1. Len(m[k]) \in Int /\ Len(m[k]) <= Limit(k) /\ Len(Prune(m[k], WindowOf(k))) \in Int
    BY <1>1 DEF MapOK
  <2> QED
    BY <1>1, <2>1, LimitsArePositive
<1> DEFINE pr == Prune(m[k], WindowOf(k))
<1>3. Pruned(m, k) = [m EXCEPT ![k] = pr]
  BY DEF Pruned
<1> HIDE DEF pr
<1> QED
  BY <1>1, <1>2, <1>3 DEF MapOK, pr

\* Evicting prunes every counter, and drops at most one that is not pinned.
LEMMA EvictedMap ==
    ASSUME NEW m, MapOK(m), NEW e \in Evicted(m)
    PROVE  /\ MapOK(e)
           /\ \A k \in Key : e[k] = Prune(m[k], WindowOf(k)) \/ (e[k] = <<>> /\ ~Pinned(k))
<1> DEFINE live == [k \in Key |-> Prune(m[k], WindowOf(k))]
           loose == {k \in Keys(live) : ~Pinned(k)}
<1>1. loose \subseteq {k \in Key : ~Pinned(k)}
  BY DEF Keys
<1>2. e = live \/ \E k \in loose : e = [live EXCEPT ![k] = <<>>]
  BY DEF Evicted
<1>3. \A k \in Key : e[k] = live[k] \/ (e[k] = <<>> /\ ~Pinned(k))
  BY <1>1, <1>2
<1>5. \A k \in Key : /\ live[k] = Prune(m[k], WindowOf(k)) /\ live[k] \in Seq(Ages)
                     /\ Len(live[k]) <= Limit(k) /\ Sorted(live[k])
  <2> TAKE k \in Key
  <2>1. Pruned(m, k)[k] = Prune(m[k], WindowOf(k)) /\ MapOK(Pruned(m, k))
    BY PrunedMap
  <2> QED
    BY <2>1 DEF MapOK
<1>6. <<>> \in Seq(Ages) /\ Sorted(<<>>) /\ Len(<<>>) = 0
  BY DEF Sorted
<1>4. live \in [Key -> Seq(Ages)]
  BY <1>5
<1> HIDE DEF live, loose
<1>8. e \in [Key -> Seq(Ages)]
  BY <1>2, <1>4, <1>6
<1>7. \A k \in Key : e[k] \in Seq(Ages) /\ Len(e[k]) <= Limit(k) /\ Sorted(e[k])
  <2> TAKE k \in Key
  <2>1. CASE e[k] = live[k]
    BY <1>5, <2>1
  <2>2. CASE e[k] = <<>>
    <3>1. Limit(k) \in Nat /\ 0 <= Limit(k)
      BY LimitsArePositive
    <3> QED
      BY <1>6, <2>2, <3>1
  <2> QED
    BY <1>3, <2>1, <2>2
<1> QED
  BY <1>3, <1>5, <1>7, <1>8 DEF MapOK

\* Making room for k prunes it, and never drops a pinned counter.
LEMMA RoomMap ==
    ASSUME NEW m, MapOK(m), NEW k \in Key, NEW r \in Room(m, k)
    PROVE  /\ MapOK(r)
           /\ r[k] = Prune(m[k], WindowOf(k)) \/ (r[k] = <<>> /\ ~Pinned(k))
           /\ \A j \in Key : Pinned(j) => r[j] \in {m[j], Prune(m[j], WindowOf(j))}
<1>1. CASE r \in Evicted(m)
  BY <1>1, EvictedMap
<1>2. CASE r = Pruned(m, k)
  BY <1>2, PrunedMap
<1> QED
  BY <1>1, <1>2 DEF Room

\* Counting an attempt at a counter that is not held.
LEMMA CountedMap ==
    ASSUME NEW m, MapOK(m), NEW k \in Key, ~Held(m, k), NEW c \in Counted(m, k)
    PROVE  /\ MapOK(c)
           /\ Pinned(k) => c[k] = Append(Prune(m[k], WindowOf(k)), 0)
           /\ \A j \in Key : Pinned(j) /\ j # k => c[j] \in {m[j], Prune(m[j], WindowOf(j))}
<1>1. PICK r \in Room(m, k) : c = [r EXCEPT ![k] = Append(@, 0)]
  BY DEF Counted
<1>2. /\ MapOK(r)
      /\ r[k] = Prune(m[k], WindowOf(k)) \/ (r[k] = <<>> /\ ~Pinned(k))
      /\ \A j \in Key : Pinned(j) => r[j] \in {m[j], Prune(m[j], WindowOf(j))}
  BY RoomMap
<1>3. r \in [Key -> Seq(Ages)] /\ r[k] \in Seq(Ages) /\ Sorted(r[k])
  BY <1>2 DEF MapOK
<1>4. /\ Append(r[k], 0) \in Seq(Ages) /\ Sorted(Append(r[k], 0))
      /\ Len(Append(r[k], 0)) = Len(r[k]) + 1
  BY <1>3, AppendIsSorted, AgesType DEF AgesAreInts
<1>5. Len(r[k]) \in Nat /\ Len(r[k]) < Limit(k)
  <2>1. Len(Prune(m[k], WindowOf(k))) < Limit(k)
    <3>1. Len(Prune(m[k], WindowOf(k))) \in Nat
      <4>1. Prune(m[k], WindowOf(k)) \in Seq(Ages)
        BY PruneIsSorted, AgesType DEF MapOK, AgesAreInts
      <4> QED
        BY <4>1
    <3> QED
      BY <3>1, LimitsArePositive DEF Held
  <2>2. Len(<<>>) = 0
    OBVIOUS
  <2>3. Len(r[k]) \in Nat
    BY <1>3
  <2> QED
    BY <1>2, <2>1, <2>2, <2>3, LimitsArePositive
<1> DEFINE q == Append(r[k], 0)
<1>6. c = [r EXCEPT ![k] = q]
  BY <1>1
<1>7. Len(q) <= Limit(k)
  BY <1>4, <1>5, LimitsArePositive
<1> HIDE DEF q
<1>8. c[k] = q /\ \A j \in Key : j # k => c[j] = r[j]
  BY <1>3, <1>6
<1>9. MapOK(c)
  BY <1>2, <1>3, <1>4, <1>6, <1>7, <1>8 DEF MapOK, q
<1> QED
  BY <1>2, <1>8, <1>9 DEF q

\* Giving an attempt back.
LEMMA ReleasedMap ==
    ASSUME NEW m, MapOK(m), NEW k \in Key
    PROVE  /\ MapOK(Released(m, k))
           /\ \A j \in Key : j # k => Released(m, k)[j] = m[j]
           /\ Released(m, k)[k] = IF m[k] = <<>> THEN <<>> ELSE Front(m[k])
<1> DEFINE f == IF m[k] = <<>> THEN m[k] ELSE Front(m[k])
<1>1. Released(m, k) = [m EXCEPT ![k] = f]
  BY DEF Released
<1>2. m \in [Key -> Seq(Ages)] /\ m[k] \in Seq(Ages) /\ Sorted(m[k]) /\ Len(m[k]) <= Limit(k)
  BY DEF MapOK
<1>3. f \in Seq(Ages) /\ Sorted(f) /\ Len(f) <= Limit(k)
  <2>1. CASE m[k] = <<>>
    BY <1>2, <2>1
  <2>2. CASE m[k] # <<>>
    <3>1. /\ Front(m[k]) \in Seq(Ages) /\ Sorted(Front(m[k]))
          /\ Len(m[k]) \in Nat /\ Len(Front(m[k])) = Len(m[k]) - 1
      BY <1>2, <2>2, FrontIsSorted, AgesType DEF AgesAreInts
    <3> QED
      BY <1>2, <2>2, <3>1, LimitsArePositive
  <2> QED
    BY <2>1, <2>2
<1> HIDE DEF f
<1> QED
  BY <1>1, <1>2, <1>3 DEF MapOK, f

\* What is left after pruning is inside the window.
LEMMA PruneDropsExpired ==
    ASSUME NEW A \in SUBSET Int, NEW hits \in Seq(A), Sorted(hits), NEW window \in Int
    PROVE  \A n \in DOMAIN Prune(hits, window) : Prune(hits, window)[n] < window
<1>1. PICK k \in 0 .. Len(hits) :
        /\ Prune(hits, window) \in Seq(A)
        /\ Len(Prune(hits, window)) = Len(hits) - k
        /\ \A n \in 1 .. Len(hits) - k : Prune(hits, window)[n] = hits[n + k]
        /\ k < Len(hits) => hits[k + 1] < window
  BY PruneIsSuffix
<1> DEFINE p == Prune(hits, window)
<1>2. Len(hits) \in Nat /\ DOMAIN hits = 1 .. Len(hits) /\ DOMAIN p = 1 .. Len(hits) - k
      /\ \A n \in DOMAIN hits : hits[n] \in Int
  <2>1. \A n \in DOMAIN hits : hits[n] \in A
    OBVIOUS
  <2>2. \A x \in A : x \in Int
    OBVIOUS
  <2>3. \A n \in DOMAIN hits : hits[n] \in Int
    BY <2>1, <2>2
  <2>4. DOMAIN p = 1 .. Len(hits) - k
    BY <1>1
  <2>5. Len(hits) \in Nat /\ DOMAIN hits = 1 .. Len(hits)
    OBVIOUS
  <2> QED
    BY <2>3, <2>4, <2>5
<1> SUFFICES ASSUME NEW n \in DOMAIN p PROVE p[n] < window
  OBVIOUS
<1>3. /\ k + 1 \in DOMAIN hits /\ n + k \in DOMAIN hits /\ k + 1 <= n + k /\ k < Len(hits)
      /\ p[n] = hits[n + k]
  <2>1. n \in 1 .. Len(hits) - k
    BY <1>2
  <2> HIDE DEF p
  <2>2. k \in Int /\ 0 <= k
    OBVIOUS
  <2> QED
    BY <1>1, <1>2, <2>1, <2>2 DEF p
<1>4. hits[k + 1] >= hits[n + k]
  <2>1. CASE k + 1 = n + k
    BY <1>2, <1>3, <2>1
  <2>2. CASE k + 1 < n + k
    BY <1>3, <2>2 DEF Sorted
  <2> QED
    BY <1>3, <2>1, <2>2
<1> QED
  BY <1>1, <1>2, <1>3, <1>4

Aged(hits) == [n \in DOMAIN hits |-> IF hits[n] < Window THEN hits[n] + 1 ELSE Window]

Older(ages) == [n \in DOMAIN ages |-> ages[n] + 1]

\* A tick keeps the counters well-formed.
LEMMA AgedMap ==
    ASSUME NEW m, MapOK(m)
    PROVE  MapOK([k \in Key |-> Aged(m[k])])
<1> SUFFICES ASSUME NEW k \in Key
             PROVE  /\ Aged(m[k]) \in Seq(Ages) /\ Len(Aged(m[k])) <= Limit(k) /\ Sorted(Aged(m[k]))
  BY DEF MapOK
<1> DEFINE h == m[k]
<1>1. /\ h \in Seq(Ages) /\ Len(h) \in Nat /\ DOMAIN h = 1 .. Len(h)
      /\ Len(h) <= Limit(k) /\ Sorted(h)
  BY DEF MapOK
<1> HIDE DEF h
<1>2. \A n \in DOMAIN h : h[n] \in Int /\ 0 <= h[n] /\ h[n] <= Window
  <2>1. \A n \in 1 .. Len(h) : h[n] \in Ages
    BY <1>1
  <2> QED
    BY <1>1, <2>1, ConstantsAreNaturals DEF Ages
<1>3. \A n \in 1 .. Len(h) : Aged(h)[n] = (IF h[n] < Window THEN h[n] + 1 ELSE Window)
                             /\ Aged(h)[n] \in Ages
  BY <1>1, <1>2, ConstantsAreNaturals DEF Aged, Ages
<1>4. Aged(h) \in [1 .. Len(h) -> Ages]
  BY <1>1, <1>3 DEF Aged
<1>5. Aged(h) \in Seq(Ages) /\ Len(Aged(h)) = Len(h) /\ DOMAIN Aged(h) = DOMAIN h
  BY <1>1, <1>4
<1>6. ASSUME NEW i \in DOMAIN h, NEW j \in DOMAIN h, i < j
      PROVE  Aged(h)[i] >= Aged(h)[j]
  <2>1. h[i] >= h[j]
    BY <1>1, <1>6 DEF Sorted
  <2> QED
    BY <1>1, <1>2, <1>3, <2>1, ConstantsAreNaturals
<1> QED
  BY <1>1, <1>5, <1>6 DEF Sorted, h

\* Wrong guesses age, and those too old are forgotten.
LEMMA OlderFailures ==
    ASSUME NEW ages \in Seq(0 .. Guarded - 1), Sorted(ages)
    PROVE  /\ Older(ages) \in Seq(Nat) /\ Sorted(Older(ages)) /\ Len(Older(ages)) = Len(ages)
           /\ \A n \in 1 .. Len(ages) : Older(ages)[n] = ages[n] + 1
           /\ Prune(Older(ages), Guarded) \in Seq(0 .. Guarded - 1)
           /\ Sorted(Prune(Older(ages), Guarded))
<1> DEFINE G == 0 .. Guarded - 1
           q == Prune(Older(ages), Guarded)
<1>1. G \in SUBSET Nat
  OBVIOUS
<1>2. ages \in Seq(G)
  OBVIOUS
<1> HIDE DEF G
<1>3. Len(ages) \in Nat /\ DOMAIN ages = 1 .. Len(ages) /\ \A n \in 1 .. Len(ages) : ages[n] \in Nat
  <2>1. \A n \in 1 .. Len(ages) : ages[n] \in G
    BY <1>2
  <2>2. \A x \in G : x \in Nat
    BY <1>1
  <2>3. Len(ages) \in Nat /\ DOMAIN ages = 1 .. Len(ages)
    OBVIOUS
  <2> QED
    BY <2>1, <2>2, <2>3
<1>4. Older(ages) \in [1 .. Len(ages) -> Nat]
  BY <1>3 DEF Older
<1>5. /\ Older(ages) \in Seq(Nat) /\ Len(Older(ages)) = Len(ages) /\ DOMAIN Older(ages) = DOMAIN ages
      /\ \A n \in 1 .. Len(ages) : Older(ages)[n] = ages[n] + 1
  BY <1>3, <1>4 DEF Older
<1>6. Sorted(Older(ages))
  <2> SUFFICES ASSUME NEW i \in DOMAIN ages, NEW j \in DOMAIN ages, i < j
               PROVE  Older(ages)[i] >= Older(ages)[j]
    BY <1>5 DEF Sorted
  <2>1. ages[i] >= ages[j]
    BY DEF Sorted
  <2> QED
    BY <1>3, <1>5, <2>1
<1>7. Nat \in SUBSET Int /\ Guarded \in Int
  BY ConstantsAreNaturals
<1>8. q \in Seq(Nat) /\ Sorted(q)
  BY <1>5, <1>6, <1>7, PruneIsSorted
<1>9. \A n \in DOMAIN q : q[n] < Guarded
  BY <1>5, <1>6, <1>7, PruneDropsExpired
<1> HIDE DEF q
<1>10. q \in Seq(G)
  <2>1. Len(q) \in Nat /\ DOMAIN q = 1 .. Len(q) /\ q \in [1 .. Len(q) -> Nat]
    BY <1>8
  <2>2. \A n \in 1 .. Len(q) : q[n] \in G
    BY <1>7, <1>9, <2>1 DEF G
  <2>3. q \in [1 .. Len(q) -> G]
    BY <2>1, <2>2
  <2> QED
    BY <2>1, <2>3
<1> QED
  BY <1>5, <1>6, <1>8, <1>10 DEF G, q

------------------------------------------------------------------------------
(* Types *)

Asked == [at : Step, address : Address, ip : IP, age : 0 .. Duration]

\* The map of a well-typed state.
LEMMA TypesOfTheMap ==
    ASSUME TypeOK
    PROVE  MapOK(attempts)
BY DEF TypeOK, MapOK, Ages

\* A request under way has an address and an IP.
LEMMA AskedIsTyped ==
    ASSUME TypeOK, NEW r \in Request, ~At(r, "idle")
    PROVE  /\ requests[r] \in Asked
           /\ OwnOf(r) \in Key /\ ~Pinned(OwnOf(r)) /\ CeilingOf(r) \in Key
<1>1. requests[r] \in Asked
  BY DEF TypeOK, At, Idle, Asked
<1>2. requests[r].address \in Address /\ requests[r].ip \in IP
  BY <1>1 DEF Asked
<1> QED
  BY <1>1, <1>2, KeysDiffer DEF OwnOf, CeilingOf, Pinned

\* Where a request goes on to.
LEMMA GoesIsTyped ==
    ASSUME TypeOK, NEW r \in Request, ~At(r, "idle"), NEW step \in Step,
           Goes(r, step) \/ Ends(r)
    PROVE  requests' \in [Request -> {Idle} \cup Asked]
<1>1. requests[r] \in Asked /\ requests \in [Request -> {Idle} \cup Asked]
  BY AskedIsTyped DEF TypeOK, Asked
<1>2. [requests[r] EXCEPT !.at = step] \in Asked
  BY <1>1 DEF Asked
<1> QED
  BY <1>1, <1>2 DEF Goes, Ends

\* A wrong guess is the youngest.
LEMMA FailuresAppend ==
    ASSUME TypeOK, NEW a \in Known
    PROVE  [failures EXCEPT ![a] = Append(@, 0)] \in [Known -> Seq(0 .. Guarded - 1)]
           /\ Sorted(Append(failures[a], 0))
<1> DEFINE G == 0 .. Guarded - 1
<1>1. G \in SUBSET Nat /\ 0 \in G
  BY ConstantsAreNaturals
<1>2. failures \in [Known -> Seq(G)] /\ failures[a] \in Seq(G) /\ Sorted(failures[a])
  BY DEF TypeOK
<1> HIDE DEF G
<1>3. Append(failures[a], 0) \in Seq(G) /\ Sorted(Append(failures[a], 0))
  BY <1>1, <1>2, AppendIsSorted
<1>4. [failures EXCEPT ![a] = Append(@, 0)] \in [Known -> Seq(G)]
  BY <1>2, <1>3
<1> QED
  BY <1>3, <1>4 DEF G

\* The map, after each step of a sign-in.
LEMMA ProceedMap ==
    ASSUME TypeOK, NEW r \in Request, Proceed(r)
    PROVE  /\ MapOK(attempts')
           /\ ReserveCeiling(r) \/ ReleaseCeiling(r)
              \/ \A k \in Key : Pinned(k) => attempts'[k] \in {attempts[k], Prune(attempts[k], WindowOf(k))}
<1>1. MapOK(attempts) /\ ~At(r, "idle")
  BY TypesOfTheMap DEF Proceed, ReserveOwn, ReserveCeiling, FailGuess, RightGuess,
        ReleaseOwn, ReleaseCeiling, ClearOwn, FailLookup, At
<1>2. OwnOf(r) \in Key /\ ~Pinned(OwnOf(r)) /\ CeilingOf(r) \in Key
  BY <1>1, AskedIsTyped
<1>3. ASSUME NEW k \in Key, attempts' \in Reserved(attempts, k)
      PROVE  /\ MapOK(attempts')
             /\ ~Pinned(k) => \A j \in Key : Pinned(j) =>
                    attempts'[j] \in {attempts[j], Prune(attempts[j], WindowOf(j))}
  <2>1. CASE Held(attempts, k)
    <3>1. attempts' = Pruned(attempts, k)
      BY <1>3, <2>1 DEF Reserved
    <3>2. /\ MapOK(Pruned(attempts, k))
          /\ \A j \in Key : j # k => Pruned(attempts, k)[j] = attempts[j]
      BY <1>1, <1>3, PrunedMap
    <3> QED
      BY <3>1, <3>2
  <2>2. CASE ~Held(attempts, k)
    <3>1. attempts' \in Counted(attempts, k)
      BY <1>3, <2>2 DEF Reserved
    <3>2. /\ MapOK(attempts')
          /\ \A j \in Key : Pinned(j) /\ j # k => attempts'[j] \in {attempts[j], Prune(attempts[j], WindowOf(j))}
      BY <1>1, <1>3, <2>2, <3>1, CountedMap
    <3> QED
      BY <3>2
  <2> QED
    BY <2>1, <2>2
<1>4. CASE ReserveOwn(r)
  BY <1>2, <1>3, <1>4 DEF ReserveOwn
<1>5. CASE ReserveCeiling(r)
  BY <1>2, <1>3, <1>5 DEF ReserveCeiling
<1>6. CASE FailLookup(r) \/ FailGuess(r) \/ RightGuess(r)
  BY <1>1, <1>6 DEF FailLookup, FailGuess, RightGuess
<1>7. CASE ReleaseOwn(r)
  <2>1. attempts' = Released(attempts, OwnOf(r))
    BY <1>7 DEF ReleaseOwn
  <2> QED
    BY <1>1, <1>2, <2>1, ReleasedMap
<1>8. CASE ReleaseCeiling(r)
  <2>1. attempts' = Released(attempts, CeilingOf(r))
    BY <1>8 DEF ReleaseCeiling
  <2> QED
    BY <1>1, <1>2, <1>8, <2>1, ReleasedMap
<1>9. CASE ClearOwn(r)
  <2> DEFINE empty == [attempts EXCEPT ![OwnOf(r)] = <<>>]
  <2>1. attempts' = attempts \/ attempts' = empty
    BY <1>9 DEF ClearOwn, FailLookup
  <2>2. <<>> \in Seq(Ages) /\ Sorted(<<>>) /\ Len(<<>>) <= Limit(OwnOf(r))
    BY LimitsArePositive DEF Sorted
  <2>3. MapOK(empty) /\ \A j \in Key : j # OwnOf(r) => empty[j] = attempts[j]
    <3>1. attempts \in [Key -> Seq(Ages)]
      BY <1>1 DEF MapOK
    <3>2. /\ empty \in [Key -> Seq(Ages)] /\ empty[OwnOf(r)] = <<>>
          /\ \A j \in Key : j # OwnOf(r) => empty[j] = attempts[j]
      BY <1>2, <2>2, <3>1
    <3> HIDE DEF empty
    <3>3. \A k \in Key : Len(empty[k]) <= Limit(k) /\ Sorted(empty[k])
      <4> TAKE k \in Key
      <4>1. CASE k = OwnOf(r)
        BY <2>2, <3>2, <4>1
      <4>2. CASE k # OwnOf(r)
        BY <1>1, <3>2, <4>2 DEF MapOK
      <4> QED
        BY <4>1, <4>2
    <3> QED
      BY <3>2, <3>3 DEF MapOK
  <2> HIDE DEF empty
  <2> QED
    BY <1>1, <1>2, <2>1, <2>3
<1> QED
  BY <1>4, <1>5, <1>6, <1>7, <1>8, <1>9 DEF Proceed

\* The map, after a request was let in or refused.
LEMMA AllowMap ==
    ASSUME TypeOK, NEW r \in Request, NEW a \in Address, NEW i \in IP, Allow(r, a, i)
    PROVE  /\ MapOK(attempts')
           /\ \A k \in Key : Pinned(k) =>
                \/ attempts'[k] \in {attempts[k], Prune(attempts[k], WindowOf(k))}
                \/ attempts'[k] = Prune(Prune(attempts[k], WindowOf(k)), WindowOf(k))
<1> DEFINE first == Checked(attempts, Ceiling(a))
           second == IF Held(attempts, Ceiling(a)) THEN first ELSE Checked(first, Own(a, i))
<1>1. /\ Own(a, i) \in Key /\ Own(a, i)[1] = "own" /\ Backstop(i) \in Key /\ Backstop(i)[1] = "ip"
      /\ Ceiling(a) \in Key /\ Ceiling(a)[1] \in {"ceiling", "unknown"} /\ MapOK(attempts)
  BY KeysDiffer, TypesOfTheMap
<1>2. /\ MapOK(first)
      /\ \A k \in Key : first[k] \in {attempts[k], Prune(attempts[k], WindowOf(k))}
      /\ first[Own(a, i)] = attempts[Own(a, i)] /\ first[Backstop(i)] = attempts[Backstop(i)]
  <2>1. /\ MapOK(first) /\ first[Ceiling(a)] = Prune(attempts[Ceiling(a)], WindowOf(Ceiling(a)))
        /\ \A k \in Key : k # Ceiling(a) => first[k] = attempts[k]
    BY <1>1, PrunedMap DEF Checked
  <2> QED
    BY <1>1, <2>1
<1> HIDE DEF first
<1>3. /\ MapOK(second)
      /\ \A k \in Key : Pinned(k) => second[k] \in {attempts[k], Prune(attempts[k], WindowOf(k))}
      /\ second[Backstop(i)] = attempts[Backstop(i)]
  <2>1. CASE Held(attempts, Ceiling(a))
    BY <1>2, <2>1, <1>1
  <2>2. CASE ~Held(attempts, Ceiling(a))
    <3>1. second = Checked(first, Own(a, i))
      BY <2>2
    <3>2. /\ MapOK(Checked(first, Own(a, i)))
          /\ \A k \in Key : k # Own(a, i) => Checked(first, Own(a, i))[k] = first[k]
      BY <1>1, <1>2, PrunedMap DEF Checked
    <3>3. \A k \in Key : Pinned(k) => k # Own(a, i)
      BY <1>1 DEF Pinned
    <3>4. Backstop(i) # Own(a, i)
      BY <1>1
    <3> QED
      BY <1>1, <1>2, <3>1, <3>2, <3>3, <3>4
  <2> QED
    BY <2>1, <2>2
<1> DEFINE bottom == Backstop(i)
<1>4. Held(second, bottom) <=> Held(attempts, bottom)
  BY <1>3 DEF Held
<1>5. /\ bottom \in Key /\ \A k \in Key : Pinned(k) => k # bottom
  BY <1>1 DEF Pinned
<1>6. \/ attempts' \in Counted(second, bottom) /\ ~Held(attempts, bottom)
      \/ attempts' = Checked(second, bottom)
      \/ attempts' = second
  BY DEF Allow, first
<1> HIDE DEF second, bottom
<1>7. CASE attempts' \in Counted(second, bottom) /\ ~Held(attempts, bottom)
  <2>1. /\ MapOK(attempts')
        /\ \A j \in Key : Pinned(j) /\ j # bottom => attempts'[j] \in {second[j], Prune(second[j], WindowOf(j))}
    BY <1>3, <1>4, <1>5, <1>7, CountedMap
  <2>2. \A k \in Key : Pinned(k) =>
                \/ attempts'[k] \in {attempts[k], Prune(attempts[k], WindowOf(k))}
                \/ attempts'[k] = Prune(Prune(attempts[k], WindowOf(k)), WindowOf(k))
    BY <1>3, <1>5, <2>1
  <2> QED
    BY <2>1, <2>2
<1>8. CASE attempts' = Checked(second, bottom)
  <2>1. MapOK(attempts') /\ \A k \in Key : k # bottom => attempts'[k] = second[k]
    BY <1>3, <1>5, <1>8, PrunedMap DEF Checked
  <2> QED
    BY <1>3, <1>5, <2>1
<1>9. CASE attempts' = second
  BY <1>3, <1>9
<1> QED
  BY <1>6, <1>7, <1>8, <1>9

\* The map, after a code was emailed.
LEMMA MarkMap ==
    ASSUME TypeOK, NEW a \in Address, Mark(a)
    PROVE  /\ MapOK(attempts')
           /\ \A k \in Key : Pinned(k) => attempts'[k] \in {attempts[k], Prune(attempts[k], WindowOf(k))}
<1>1. /\ Sent(a) \in Key /\ Sent(a)[1] = "sent" /\ MapOK(attempts)
  BY KeysDiffer, TypesOfTheMap
<1>2. PICK m \in Room(attempts, Sent(a)) : attempts' = [m EXCEPT ![Sent(a)] = <<0>>]
  BY DEF Mark
<1>3. /\ MapOK(m)
      /\ \A k \in Key : Pinned(k) => m[k] \in {attempts[k], Prune(attempts[k], WindowOf(k))}
  BY <1>1, RoomMap
<1>4. <<0>> \in Seq(Ages) /\ Sorted(<<0>>) /\ Len(<<0>>) <= Limit(Sent(a))
  BY ConstantsAreNaturals, LimitsArePositive DEF Ages, Sorted
<1>5. /\ attempts' \in [Key -> Seq(Ages)]
      /\ \A k \in Key : attempts'[k] = IF k = Sent(a) THEN <<0>> ELSE m[k]
  BY <1>1, <1>2, <1>3, <1>4 DEF MapOK
<1>6. MapOK(attempts')
  BY <1>3, <1>4, <1>5 DEF MapOK
<1> QED
  BY <1>1, <1>3, <1>5, <1>6 DEF Pinned

\* The map, after time passed.
LEMMA TickMap ==
    ASSUME TypeOK, Tick
    PROVE  MapOK(attempts') /\ \A k \in Key : attempts'[k] = Aged(attempts[k])
<1>1. attempts' = [k \in Key |-> Aged(attempts[k])]
  BY DEF Tick, Aged
<1> QED
  BY <1>1, TypesOfTheMap, AgedMap

\* The types hold at first.
LEMMA InitTypes == Init => TypeOK
<1> SUFFICES ASSUME Init PROVE TypeOK
  OBVIOUS
<1>1. \A k \in Key : attempts[k] = <<>> /\ Limit(k) \in Nat
  BY LimitsArePositive DEF Init
<1>2. \A k \in Key : Len(attempts[k]) <= Limit(k) /\ Sorted(attempts[k])
  BY <1>1 DEF Sorted
<1>3. attempts \in [Key -> Seq(0 .. Window)]
  BY DEF Init
<1>4. /\ failures \in [Known -> Seq(0 .. Guarded - 1)]
      /\ \A a \in Known : Sorted(failures[a])
  BY DEF Init, Sorted
<1>5. requests \in [Request -> {Idle} \cup [at : Step, address : Address, ip : IP, age : 0 .. Duration]]
  BY DEF Init
<1> QED
  BY <1>2, <1>3, <1>4, <1>5 DEF Init, TypeOK

\* The types of the variables other than the map.
LEMMA OthersTyped ==
    ASSUME TypeOK, maxKeys' = maxKeys, MapOK(attempts'),
           requests' \in [Request -> {Idle} \cup Asked],
           failures' \in [Known -> Seq(0 .. Guarded - 1)],
           \A a \in Known : Sorted(failures'[a])
    PROVE  TypeOK'
<1>1. /\ attempts' \in [Key -> Seq(0 .. Window)]
      /\ \A k \in Key : Len(attempts'[k]) <= Limit(k) /\ Sorted(attempts'[k])
  BY DEF MapOK, Ages
<1> QED
  BY <1>1 DEF TypeOK, Asked

\* A step of a sign-in keeps the types.
LEMMA ProceedTypes ==
    ASSUME TypeOK, NEW r \in Request, Proceed(r)
    PROVE  TypeOK'
<1>1. MapOK(attempts') /\ ~At(r, "idle") /\ maxKeys' = maxKeys
  BY ProceedMap DEF Proceed, ReserveOwn, ReserveCeiling, FailGuess, RightGuess,
        ReleaseOwn, ReleaseCeiling, ClearOwn, FailLookup, At
<1>2. \E step \in Step : Goes(r, step) \/ Ends(r)
  BY DEF Proceed, ReserveOwn, ReserveCeiling, FailGuess, RightGuess,
        ReleaseOwn, ReleaseCeiling, ClearOwn, FailLookup, Step
<1>3. requests' \in [Request -> {Idle} \cup Asked]
  BY <1>1, <1>2, GoesIsTyped
<1>4. /\ failures' \in [Known -> Seq(0 .. Guarded - 1)]
      /\ \A a \in Known : Sorted(failures'[a])
  <2>1. CASE FailGuess(r)
    <3> DEFINE a == requests[r].address
               more == Append(failures[a], 0)
    <3>1. failures' = [failures EXCEPT ![a] = Append(@, 0)]
      BY <2>1 DEF FailGuess
    <3>2. failures \in [Known -> Seq(0 .. Guarded - 1)] /\ \A b \in Known : Sorted(failures[b])
      BY DEF TypeOK
    <3>3. CASE a \in Known
      <4>1. failures' \in [Known -> Seq(0 .. Guarded - 1)] /\ Sorted(more)
        BY <3>1, <3>3, FailuresAppend
      <4>2. failures' = [failures EXCEPT ![a] = more]
        BY <3>1
      <4> HIDE DEF more
      <4>3. \A b \in Known : Sorted(failures'[b])
        BY <3>2, <3>3, <4>1, <4>2
      <4> QED
        BY <4>1, <4>3
    <3>4. CASE a \notin Known
      BY <3>1, <3>2, <3>4
    <3> QED
      BY <3>3, <3>4
  <2>2. CASE UNCHANGED failures
    BY <2>2 DEF TypeOK
  <2> QED
    BY <2>1, <2>2 DEF Proceed, ReserveOwn, ReserveCeiling, RightGuess, ReleaseOwn, ReleaseCeiling, ClearOwn, FailLookup
<1> QED
  BY <1>1, <1>3, <1>4, OthersTyped

\* So does letting a request in,
LEMMA AllowTypes ==
    ASSUME TypeOK, NEW r \in Request, NEW a \in Address, NEW i \in IP, Allow(r, a, i)
    PROVE  TypeOK'
<1>1. MapOK(attempts') /\ maxKeys' = maxKeys /\ failures' = failures
  BY AllowMap DEF Allow
<1>2. [at |-> "allowed", address |-> a, ip |-> i, age |-> 0] \in Asked
  BY ConstantsAreNaturals DEF Asked, Step
<1>3. requests \in [Request -> {Idle} \cup Asked]
  BY DEF TypeOK, Asked
<1>4. requests' \in [Request -> {Idle} \cup Asked]
  <2>1. \/ requests' = requests
        \/ requests' = [requests EXCEPT ![r] = [at |-> "allowed", address |-> a, ip |-> i, age |-> 0]]
    BY DEF Allow
  <2> QED
    BY <1>2, <1>3, <2>1
<1> QED
  BY <1>1, <1>4, OthersTyped DEF TypeOK

\* and emailing a code.
LEMMA MarkTypes ==
    ASSUME TypeOK, NEW a \in Address, Mark(a)
    PROVE  TypeOK'
<1>1. MapOK(attempts') /\ maxKeys' = maxKeys /\ requests' = requests /\ failures' = failures
  BY MarkMap DEF Mark
<1> QED
  BY <1>1, OthersTyped DEF TypeOK, Asked

\* A request under way ages, within its duration.
LEMMA TickRequests ==
    ASSUME TypeOK, Tick, NEW r \in Request
    PROVE  /\ requests'[r] \in {Idle} \cup Asked
           /\ requests'[r].at = requests[r].at /\ requests'[r].address = requests[r].address
           /\ ~At(r, "idle") => requests'[r].age = requests[r].age + 1
<1>1. requests'[r] = IF At(r, "idle") THEN requests[r] ELSE [requests[r] EXCEPT !.age = @ + 1]
  BY DEF Tick
<1>2. CASE At(r, "idle")
  BY <1>1, <1>2 DEF TypeOK, Asked
<1>3. CASE ~At(r, "idle")
  <2>1. requests[r] \in Asked /\ requests[r].age < Duration
    BY <1>3, AskedIsTyped DEF Tick
  <2>2. requests[r].age \in 0 .. Duration
    BY <2>1 DEF Asked
  <2>3. requests[r].age + 1 \in 0 .. Duration
    BY <2>1, <2>2, ConstantsAreNaturals
  <2> QED
    BY <1>1, <1>3, <2>1, <2>3 DEF Asked
<1> QED
  BY <1>2, <1>3

\* Time passing keeps the types.
LEMMA TickTypes ==
    ASSUME TypeOK, Tick
    PROVE  TypeOK'
<1>1. MapOK(attempts') /\ maxKeys' = maxKeys
  BY TickMap DEF Tick
<1>2. requests' \in [Request -> {Idle} \cup Asked]
  <2>1. \A r \in Request : requests'[r] \in {Idle} \cup Asked
    BY TickRequests
  <2> QED
    BY <2>1 DEF Tick
<1>3. \A a \in Known : failures'[a] = Prune(Older(failures[a]), Guarded)
  BY DEF Tick, Older
<1>4. \A a \in Known : failures'[a] \in Seq(0 .. Guarded - 1) /\ Sorted(failures'[a])
  <2> TAKE a \in Known
  <2>1. failures[a] \in Seq(0 .. Guarded - 1) /\ Sorted(failures[a])
    BY DEF TypeOK
  <2> QED
    BY <1>3, <2>1, OlderFailures
<1>5. failures' \in [Known -> Seq(0 .. Guarded - 1)]
  BY <1>4 DEF Tick
<1> QED
  BY <1>1, <1>2, <1>4, <1>5, OthersTyped

\* Every step keeps the types.
LEMMA NextTypes == TypeOK /\ [Next]_vars => TypeOK'
<1> SUFFICES ASSUME TypeOK, [Next]_vars PROVE TypeOK'
  OBVIOUS
<1>1. ASSUME NEW r \in Request, Proceed(r) PROVE TypeOK'
  BY <1>1, ProceedTypes
<1>2. ASSUME NEW r \in Request, NEW a \in Address, NEW i \in IP, Allow(r, a, i) PROVE TypeOK'
  BY <1>2, AllowTypes
<1>3. ASSUME NEW a \in Address, Mark(a) PROVE TypeOK'
  BY <1>3, MarkTypes
<1>4. CASE Tick
  BY <1>4, TickTypes
<1>5. CASE UNCHANGED vars
  BY <1>5 DEF vars, TypeOK
<1> QED
  BY <1>1, <1>2, <1>3, <1>4, <1>5 DEF Next

\* Counters stay sorted and within their limits, for any addresses, IPs,
\* requests in flight and sizes of the map (ratelimit.go:83-165).
THEOREM TypesHold == Spec => []TypeOK
<1> QED
  BY InitTypes, NextTypes, PTL DEF Spec

------------------------------------------------------------------------------
(* Guesses *)

\* Every wrong guess of the last ticks, and every guess under way, is still
\* charged to an attempt of its own in the ceiling of its address: f and g say
\* which.  A guess under way is charged to an attempt that is no older than the
\* request, unless the newest attempt, its own, was given back in another's
\* place; then it has that other's, older by the duration of a request at most.
Charge(hits, fails, asked, pending, f, g) ==
    /\ f \in [DOMAIN fails -> DOMAIN hits] /\ g \in [pending -> DOMAIN hits]
    /\ \A i, j \in DOMAIN fails : f[i] = f[j] => i = j
    /\ \A p, q \in pending : g[p] = g[q] => p = q
    /\ \A i \in DOMAIN fails, p \in pending : f[i] # g[p]
    /\ \A i \in DOMAIN fails : hits[f[i]] <= fails[i] + 2 * Duration
    /\ \A p \in pending : hits[g[p]] <= asked[p].age + (IF p \in Owners THEN 0 ELSE Duration)

Charged(hits, fails, asked, pending) ==
    \E f \in [DOMAIN fails -> DOMAIN hits], g \in [pending -> DOMAIN hits] :
        Charge(hits, fails, asked, pending, f, g)

\* What the lemmas on charges assume of their arguments.
Chargeable(hits, fails, asked, pending) ==
    /\ hits \in Seq(Ages) /\ fails \in Seq(Nat)
    /\ \A p \in pending : asked[p].age \in 0 .. Duration

\* The same, unfolded for arithmetic.
LEMMA ChargeableFacts ==
    ASSUME NEW hits, NEW fails, NEW asked, NEW pending, Chargeable(hits, fails, asked, pending)
    PROVE  /\ Len(hits) \in Nat /\ DOMAIN hits = 1 .. Len(hits)
           /\ \A n \in DOMAIN hits : hits[n] \in Nat
           /\ Len(fails) \in Nat /\ DOMAIN fails = 1 .. Len(fails)
           /\ \A i \in DOMAIN fails : fails[i] \in Nat
           /\ \A p \in pending : asked[p].age \in Nat /\ asked[p].age <= Duration
<1>1. hits \in Seq(Ages) /\ fails \in Seq(Nat)
  BY DEF Chargeable
<1>2. \A n \in DOMAIN hits : hits[n] \in Ages
  BY <1>1
<1>3. \A n \in DOMAIN hits : hits[n] \in Nat
  BY <1>2, AgesType DEF AgesAreInts
<1>4. \A p \in pending : asked[p].age \in Nat /\ asked[p].age <= Duration
  BY ConstantsAreNaturals DEF Chargeable
<1> QED
  BY <1>1, <1>3, <1>4

\* What expires is charged to no guess.
LEMMA PruneKeepsCharges ==
    ASSUME NEW hits, NEW fails, NEW asked, NEW pending,
           Chargeable(hits, fails, asked, pending),
           \A i \in DOMAIN fails : fails[i] < Guarded,
           Charged(hits, fails, asked, pending)
    PROVE  Charged(Prune(hits, Window), fails, asked, pending)
<1>1. /\ Len(hits) \in Nat /\ DOMAIN hits = 1 .. Len(hits)
      /\ \A n \in DOMAIN hits : hits[n] \in Nat
      /\ \A i \in DOMAIN fails : fails[i] \in Nat
      /\ \A p \in pending : asked[p].age \in Nat /\ asked[p].age <= Duration
  BY ChargeableFacts
<1>2. PICK f \in [DOMAIN fails -> DOMAIN hits], g \in [pending -> DOMAIN hits] :
        Charge(hits, fails, asked, pending, f, g)
  BY DEF Charged
<1>3. PICK k \in 0 .. Len(hits) :
        /\ Prune(hits, Window) \in Seq(Ages)
        /\ Len(Prune(hits, Window)) = Len(hits) - k
        /\ \A n \in 1 .. Len(hits) - k : Prune(hits, Window)[n] = hits[n + k]
        /\ \A n \in 1 .. Len(hits) : hits[n] < Window => k < n
  BY PruneIsSuffix DEF Chargeable
<1> DEFINE q == Prune(hits, Window)
           f2 == [i \in DOMAIN fails |-> f[i] - k]
           g2 == [p \in pending |-> g[p] - k]
<1>4. DOMAIN q = 1 .. Len(hits) - k
  BY <1>3
<1>5. ASSUME NEW n \in DOMAIN hits, hits[n] < Window
      PROVE  n - k \in DOMAIN q /\ q[n - k] = hits[n]
  <2>1. k < n /\ n <= Len(hits)
    BY <1>1, <1>3, <1>5
  <2>2. n - k \in 1 .. Len(hits) - k /\ (n - k) + k = n
    BY <1>1, <2>1
  <2> QED
    BY <1>3, <1>4, <2>2
<1>6. \A i \in DOMAIN fails : f[i] \in DOMAIN hits /\ hits[f[i]] < Window /\ f[i] \in Int
  BY <1>1, <1>2, ConstantsAreNaturals DEF Charge, Guarded
<1>7. \A p \in pending : g[p] \in DOMAIN hits /\ hits[g[p]] < Window /\ g[p] \in Int
  BY <1>1, <1>2, ConstantsAreNaturals DEF Charge
<1>8. f2 \in [DOMAIN fails -> DOMAIN q] /\ g2 \in [pending -> DOMAIN q]
  BY <1>5, <1>6, <1>7
<1>9. /\ \A i \in DOMAIN fails : q[f2[i]] = hits[f[i]] /\ f2[i] = f[i] - k
      /\ \A p \in pending : q[g2[p]] = hits[g[p]] /\ g2[p] = g[p] - k
  BY <1>5, <1>6, <1>7
<1> HIDE DEF q, f2, g2
<1>10. Charge(q, fails, asked, pending, f2, g2)
  BY <1>2, <1>6, <1>7, <1>8, <1>9 DEF Charge
<1> QED
  BY <1>8, <1>10 DEF Charged, q

\* A guess that was counted is charged to the attempt that counts it.
LEMMA ReserveCharges ==
    ASSUME NEW hits, NEW fails, NEW asked, NEW pending,
           Chargeable(hits, fails, asked, pending), Charged(hits, fails, asked, pending),
           NEW r, r \notin pending, asked[r].age \in Nat
    PROVE  Charged(Append(hits, 0), fails, asked, pending \cup {r})
<1>1. /\ Len(hits) \in Nat /\ DOMAIN hits = 1 .. Len(hits)
  BY ChargeableFacts
<1>2. PICK f \in [DOMAIN fails -> DOMAIN hits], g \in [pending -> DOMAIN hits] :
        Charge(hits, fails, asked, pending, f, g)
  BY DEF Charged
<1> DEFINE q == Append(hits, 0)
           n == Len(hits) + 1
           g2 == [p \in pending \cup {r} |-> IF p = r THEN n ELSE g[p]]
<1>3. /\ DOMAIN q = DOMAIN hits \cup {n} /\ n \notin DOMAIN hits /\ q[n] = 0
      /\ \A m \in DOMAIN hits : q[m] = hits[m]
  <2>1. hits \in Seq(Ages)
    BY DEF Chargeable
  <2>2. Len(q) = n /\ DOMAIN q = 1 .. n /\ q[n] = 0 /\ \A m \in 1 .. Len(hits) : q[m] = hits[m]
    BY <2>1
  <2> HIDE DEF q
  <2> QED
    BY <1>1, <2>2
<1> HIDE DEF q, n
<1>4. f \in [DOMAIN fails -> DOMAIN q] /\ g2 \in [pending \cup {r} -> DOMAIN q]
  BY <1>3
<1>5. g2[r] = n /\ \A p \in pending : g2[p] = g[p] /\ g[p] \in DOMAIN hits /\ p # r
  OBVIOUS
<1> HIDE DEF g2
<1>6. 0 <= asked[r].age + (IF r \in Owners THEN 0 ELSE Duration)
  BY ConstantsAreNaturals
<1>7. Charge(q, fails, asked, pending \cup {r}, f, g2)
  BY <1>2, <1>3, <1>4, <1>5, <1>6 DEF Charge
<1> QED
  BY <1>4, <1>7 DEF Charged, q

\* A wrong guess takes over the attempt that its request was charged to.
LEMMA FailCharges ==
    ASSUME NEW hits, NEW fails, NEW asked, NEW pending,
           Chargeable(hits, fails, asked, pending), Charged(hits, fails, asked, pending),
           NEW r \in pending
    PROVE  Charged(hits, Append(fails, 0), asked, pending \ {r})
<1>1. /\ Len(fails) \in Nat /\ DOMAIN fails = 1 .. Len(fails)
      /\ \A n \in DOMAIN hits : hits[n] \in Nat
      /\ \A p \in pending : asked[p].age \in Nat /\ asked[p].age <= Duration
  BY ChargeableFacts
<1>2. PICK f \in [DOMAIN fails -> DOMAIN hits], g \in [pending -> DOMAIN hits] :
        Charge(hits, fails, asked, pending, f, g)
  BY DEF Charged
<1> DEFINE q == Append(fails, 0)
           n == Len(fails) + 1
           rest == pending \ {r}
           f2 == [i \in DOMAIN q |-> IF i = n THEN g[r] ELSE f[i]]
           g2 == [p \in rest |-> g[p]]
<1>3. /\ DOMAIN q = DOMAIN fails \cup {n} /\ n \notin DOMAIN fails /\ q[n] = 0
      /\ \A m \in DOMAIN fails : q[m] = fails[m]
  <2>1. fails \in Seq(Nat)
    BY DEF Chargeable
  <2>2. DOMAIN q = 1 .. n /\ q[n] = 0 /\ \A m \in 1 .. Len(fails) : q[m] = fails[m]
    BY <2>1
  <2> HIDE DEF q
  <2> QED
    BY <1>1, <2>2
<1> HIDE DEF q, n
<1>4. f2 \in [DOMAIN q -> DOMAIN hits] /\ g2 \in [rest -> DOMAIN hits]
  BY <1>3
<1>5. /\ f2[n] = g[r] /\ \A i \in DOMAIN fails : f2[i] = f[i] /\ i # n
      /\ \A p \in rest : g2[p] = g[p] /\ p \in pending /\ p # r
  BY <1>3
<1> HIDE DEF f2, g2, rest
<1>6. hits[g[r]] <= 0 + 2 * Duration
  BY <1>1, <1>2, ConstantsAreNaturals DEF Charge
<1>7. Charge(hits, q, asked, rest, f2, g2)
  BY <1>2, <1>3, <1>4, <1>5, <1>6 DEF Charge
<1> QED
  BY <1>4, <1>7 DEF Charged, q, rest

\* Giving back the newest attempt: the guess that was charged to it is charged
\* to the one of the request that gives it back.
LEMMA ReleaseCharges ==
    ASSUME NEW hits, NEW fails, NEW asked, NEW pending,
           Chargeable(hits, fails, asked, pending), Charged(hits, fails, asked, pending),
           NEW r \in pending, r \in Owners, \A p \in Owners : p = r
    PROVE  /\ hits # <<>> /\ Charged(Front(hits), fails, asked, pending \ {r})
<1>1. /\ Len(hits) \in Nat /\ DOMAIN hits = 1 .. Len(hits)
      /\ \A n \in DOMAIN hits : hits[n] \in Nat
      /\ \A i \in DOMAIN fails : fails[i] \in Nat
      /\ \A p \in pending : asked[p].age \in Nat /\ asked[p].age <= Duration
  BY ChargeableFacts
<1>2. PICK f \in [DOMAIN fails -> DOMAIN hits], g \in [pending -> DOMAIN hits] :
        Charge(hits, fails, asked, pending, f, g)
  BY DEF Charged
<1>3. g[r] \in DOMAIN hits /\ hits[g[r]] <= Duration
  BY <1>1, <1>2, ConstantsAreNaturals DEF Charge
<1>4. hits # <<>>
  BY <1>1, <1>3
<1> DEFINE q == Front(hits)
           n == Len(hits)
           rest == pending \ {r}
           f2 == [i \in DOMAIN fails |-> IF f[i] = n THEN g[r] ELSE f[i]]
           g2 == [p \in rest |-> IF g[p] = n THEN g[r] ELSE g[p]]
<1>5. DOMAIN q = DOMAIN hits \ {n} /\ \A m \in DOMAIN hits \ {n} : q[m] = hits[m]
  <2>1. hits \in Seq(Ages)
    BY DEF Chargeable
  <2> DEFINE l == n - 1
  <2>2. l \in Nat /\ DOMAIN hits \ {n} = 1 .. l
    BY <1>1, <1>3
  <2>3. q = SubSeq(hits, 1, l)
    BY DEF Front
  <2>4. \A m \in 1 .. l : hits[m] \in Ages
    <3>1. \A m \in DOMAIN hits : hits[m] \in Ages
      BY <2>1
    <3> QED
      BY <2>2, <3>1
  <2> HIDE DEF l, n, q
  <2>5. /\ SubSeq(hits, 1, l) \in Seq(Ages)
        /\ Len(SubSeq(hits, 1, l)) = IF 1 <= l THEN l - 1 + 1 ELSE 0
        /\ \A m \in 1 .. l - 1 + 1 : SubSeq(hits, 1, l)[m] = hits[1 + m - 1]
    <3>1. 1 \in Int /\ l \in Int
      BY <2>2
    <3> QED
      BY <2>4, <3>1, SubSeqProperties
  <2>6. q \in Seq(Ages) /\ Len(q) = l /\ \A m \in 1 .. l : q[m] = hits[m]
    BY <2>2, <2>3, <2>5
  <2>7. DOMAIN q = 1 .. l
    BY <2>6
  <2> QED
    BY <2>2, <2>6, <2>7
<1>6. /\ \A p \in rest : p \in pending /\ p \notin Owners /\ p # r /\ g[p] # g[r]
      /\ \A i \in DOMAIN fails : f[i] # g[r]
  BY <1>2 DEF Charge
<1> HIDE DEF q, n
<1>7. /\ f2 \in [DOMAIN fails -> DOMAIN q] /\ g2 \in [rest -> DOMAIN q]
  BY <1>3, <1>5, <1>6
<1>8. /\ \A i \in DOMAIN fails : f2[i] = IF f[i] = n THEN g[r] ELSE f[i]
      /\ \A p \in rest : g2[p] = IF g[p] = n THEN g[r] ELSE g[p]
  OBVIOUS
<1> HIDE DEF f2, g2, rest
<1>9. /\ \A i, j \in DOMAIN fails : f2[i] = f2[j] => i = j
      /\ \A p, s \in rest : g2[p] = g2[s] => p = s
      /\ \A i \in DOMAIN fails, p \in rest : f2[i] # g2[p]
  BY <1>2, <1>6, <1>8 DEF Charge
<1>10. \A i \in DOMAIN fails : q[f2[i]] <= fails[i] + 2 * Duration
  <2> TAKE i \in DOMAIN fails
  <2>1. f2[i] \in DOMAIN q /\ q[f2[i]] = hits[f2[i]]
    BY <1>5, <1>7
  <2>2. CASE f[i] = n
    BY <1>1, <1>3, <1>8, <2>1, <2>2, ConstantsAreNaturals
  <2>3. CASE f[i] # n
    BY <1>2, <1>8, <2>1, <2>3 DEF Charge
  <2> QED
    BY <2>2, <2>3
<1>11. \A p \in rest : q[g2[p]] <= asked[p].age + (IF p \in Owners THEN 0 ELSE Duration)
  <2> TAKE p \in rest
  <2>1. g2[p] \in DOMAIN q /\ q[g2[p]] = hits[g2[p]] /\ p \in pending /\ p \notin Owners
    BY <1>5, <1>6, <1>7
  <2>2. CASE g[p] = n
    <3>1. hits[g[r]] <= Duration /\ asked[p].age \in Nat /\ hits[g[r]] \in Nat
      BY <1>1, <1>3, <2>1
    <3> QED
      BY <1>8, <2>1, <2>2, <3>1, ConstantsAreNaturals
  <2>3. CASE g[p] # n
    BY <1>2, <1>8, <2>1, <2>3 DEF Charge
  <2> QED
    BY <2>2, <2>3
<1>12. Charge(q, fails, asked, rest, f2, g2)
  BY <1>7, <1>9, <1>10, <1>11 DEF Charge
<1> QED
  BY <1>4, <1>7, <1>12 DEF Charged, q, rest

\* Time passes for guesses, requests and attempts alike.
LEMMA TickKeepsCharges ==
    ASSUME NEW hits, NEW fails, NEW asked, NEW pending,
           Chargeable(hits, fails, asked, pending), Charged(hits, fails, asked, pending),
           NEW later, \A p \in pending : later[p].age = asked[p].age + 1
    PROVE  Charged(Aged(hits), Older(fails), later, pending)
<1>1. /\ \A n \in DOMAIN hits : hits[n] \in Nat
      /\ \A i \in DOMAIN fails : fails[i] \in Nat
      /\ \A p \in pending : asked[p].age \in Nat /\ asked[p].age <= Duration
  BY ChargeableFacts
<1>2. PICK f \in [DOMAIN fails -> DOMAIN hits], g \in [pending -> DOMAIN hits] :
        Charge(hits, fails, asked, pending, f, g)
  BY DEF Charged
<1> DEFINE q == Aged(hits)
           o == Older(fails)
<1>3. /\ DOMAIN q = DOMAIN hits
      /\ \A n \in DOMAIN hits : q[n] = IF hits[n] < Window THEN hits[n] + 1 ELSE Window
  BY DEF Aged
<1>4. DOMAIN o = DOMAIN fails /\ \A i \in DOMAIN fails : o[i] = fails[i] + 1
  BY DEF Older
<1> HIDE DEF q, o
<1>5. f \in [DOMAIN o -> DOMAIN q] /\ g \in [pending -> DOMAIN q]
  BY <1>3, <1>4
<1>6. \A n \in DOMAIN hits : q[n] \in Nat /\ q[n] <= hits[n] + 1
  BY <1>1, <1>3, ConstantsAreNaturals
<1>7. \A i \in DOMAIN o : q[f[i]] <= o[i] + 2 * Duration
  <2> TAKE i \in DOMAIN o
  <2>1. i \in DOMAIN fails /\ f[i] \in DOMAIN hits /\ hits[f[i]] <= fails[i] + 2 * Duration
    BY <1>2, <1>4 DEF Charge
  <2> QED
    BY <1>1, <1>4, <1>6, <2>1, ConstantsAreNaturals
<1>8. \A p \in pending : q[g[p]] <= later[p].age + (IF p \in Owners THEN 0 ELSE Duration)
  <2> TAKE p \in pending
  <2> DEFINE late == IF p \in Owners THEN 0 ELSE Duration
  <2>1. g[p] \in DOMAIN hits /\ hits[g[p]] <= asked[p].age + late /\ late \in Nat
    BY <1>2, ConstantsAreNaturals DEF Charge
  <2> HIDE DEF late
  <2>2. q[g[p]] <= later[p].age + late
    BY <1>1, <1>6, <2>1
  <2> QED
    BY <2>2 DEF late
<1>9. Charge(q, o, later, pending, f, g)
  BY <1>2, <1>4, <1>5, <1>7, <1>8 DEF Charge
<1> QED
  BY <1>5, <1>9 DEF Charged, q, o

\* Guesses too old to be held against anyone are charged to nothing.
LEMMA OldFailuresAreDropped ==
    ASSUME NEW A, NEW hits, NEW fails \in Seq(A), NEW asked, NEW pending, NEW window,
           Charged(hits, fails, asked, pending)
    PROVE  Charged(hits, Prune(fails, window), asked, pending)
<1>1. Len(fails) \in Nat /\ DOMAIN fails = 1 .. Len(fails)
  OBVIOUS
<1>2. PICK f \in [DOMAIN fails -> DOMAIN hits], g \in [pending -> DOMAIN hits] :
        Charge(hits, fails, asked, pending, f, g)
  BY DEF Charged
<1>3. PICK k \in 0 .. Len(fails) :
        /\ Prune(fails, window) \in Seq(A)
        /\ Len(Prune(fails, window)) = Len(fails) - k
        /\ \A n \in 1 .. Len(fails) - k : Prune(fails, window)[n] = fails[n + k]
  BY PruneIsSuffix
<1> DEFINE q == Prune(fails, window)
           f2 == [i \in DOMAIN q |-> f[i + k]]
<1>4. DOMAIN q = 1 .. Len(fails) - k
  <2>1. DOMAIN q = 1 .. Len(q)
    BY <1>3
  <2> QED
    BY <1>3, <2>1
<1>5. \A i \in DOMAIN q : i \in Int /\ i + k \in DOMAIN fails /\ q[i] = fails[i + k]
  BY <1>1, <1>3, <1>4
<1> HIDE DEF q
<1>6. f2 \in [DOMAIN q -> DOMAIN hits]
  BY <1>5
<1>7. \A i \in DOMAIN q : f2[i] = f[i + k]
  OBVIOUS
<1> HIDE DEF f2
<1>8. \A i, j \in DOMAIN q : f2[i] = f2[j] => i = j
  <2> SUFFICES ASSUME NEW i \in DOMAIN q, NEW j \in DOMAIN q, f2[i] = f2[j]
               PROVE  i = j
    OBVIOUS
  <2>1. i + k = j + k
    BY <1>2, <1>5, <1>7 DEF Charge
  <2> QED
    BY <1>5, <2>1
<1>9. Charge(hits, q, asked, pending, f2, g)
  BY <1>2, <1>5, <1>6, <1>7, <1>8 DEF Charge
<1> QED
  BY <1>6, <1>9 DEF Charged, q

\* Only the ages of the guesses under way matter.
LEMMA ChargesReadAges ==
    ASSUME NEW hits, NEW fails, NEW asked, NEW pending,
           Charged(hits, fails, asked, pending),
           NEW other, \A p \in pending : other[p].age = asked[p].age
    PROVE  Charged(hits, fails, other, pending)
BY DEF Charged, Charge

------------------------------------------------------------------------------
(* The bound *)

Testing == {"reserved", "right", "released"}

Pending(a) == {r \in Request : requests[r].at \in Testing /\ requests[r].address = a}

RightOnesAreOwners == \A r \in Request : requests[r].at \in {"right", "released"} => r \in Owners

GuessesAreCharged ==
    \A a \in Known : Charged(attempts[Ceiling(a)], failures[a], requests, Pending(a))

GuessInv == TypeOK /\ RightOnesAreOwners /\ GuessesAreCharged

\* What a well-typed state gives the lemmas on charges.
LEMMA StateIsChargeable ==
    ASSUME TypeOK, NEW a \in Known
    PROVE  /\ Chargeable(attempts[Ceiling(a)], failures[a], requests, Pending(a))
           /\ failures[a] \in Seq(0 .. Guarded - 1) /\ Sorted(failures[a])
           /\ \A i \in DOMAIN failures[a] : failures[a][i] < Guarded
           /\ \A r \in Pending(a) : ~At(r, "idle") /\ r \in Request
<1>1. attempts[Ceiling(a)] \in Seq(Ages)
  BY TypesOfTheMap, CeilingIsPinned DEF MapOK
<1> DEFINE G == 0 .. Guarded - 1
<1>2. failures[a] \in Seq(G) /\ Sorted(failures[a])
  BY DEF TypeOK
<1>3. \A x \in G : x \in Nat /\ x < Guarded
  BY ConstantsAreNaturals
<1> HIDE DEF G
<1>4. Len(failures[a]) \in Nat /\ DOMAIN failures[a] = 1 .. Len(failures[a])
      /\ \A i \in DOMAIN failures[a] : failures[a][i] \in G
  BY <1>2
<1>5. failures[a] \in [1 .. Len(failures[a]) -> Nat]
  <2>1. failures[a] \in [1 .. Len(failures[a]) -> G]
    BY <1>2
  <2> QED
    BY <1>3, <1>4, <2>1
<1>6. failures[a] \in Seq(Nat)
  BY <1>4, <1>5
<1>7. \A r \in Pending(a) : ~At(r, "idle") /\ r \in Request
  BY DEF Pending, Testing, At
<1>8. \A r \in Pending(a) : requests[r].age \in 0 .. Duration
  BY <1>7, AskedIsTyped DEF Asked
<1> QED
  BY <1>1, <1>2, <1>3, <1>4, <1>6, <1>7, <1>8 DEF Chargeable, G

\* Pruned any number of times, a counter still charges what it charged.
LEMMA PrunedStateCharges ==
    ASSUME TypeOK, GuessesAreCharged, NEW a \in Known, NEW hits,
           LET was == attempts[Ceiling(a)]
           IN  hits \in {was, Prune(was, Window), Prune(Prune(was, Window), Window)}
    PROVE  /\ Charged(hits, failures[a], requests, Pending(a))
           /\ Chargeable(hits, failures[a], requests, Pending(a))
<1> DEFINE was == attempts[Ceiling(a)]
           once == Prune(was, Window)
<1>1. /\ Chargeable(was, failures[a], requests, Pending(a))
      /\ \A i \in DOMAIN failures[a] : failures[a][i] < Guarded
      /\ Charged(was, failures[a], requests, Pending(a))
  BY StateIsChargeable DEF GuessesAreCharged
<1>2. was \in Seq(Ages) /\ Sorted(was)
  BY TypesOfTheMap, CeilingIsPinned DEF MapOK
<1>3. once \in Seq(Ages) /\ Sorted(once)
  BY <1>2, PruneIsSorted, AgesType DEF AgesAreInts
<1>4. Prune(once, Window) \in Seq(Ages)
  BY <1>3, PruneIsSorted, AgesType DEF AgesAreInts
<1> HIDE DEF was, once
<1>5. Chargeable(Prune(was, Window), failures[a], requests, Pending(a))
      /\ Charged(Prune(was, Window), failures[a], requests, Pending(a))
  BY <1>1, <1>3, PruneKeepsCharges DEF Chargeable, once
<1>6. Chargeable(Prune(once, Window), failures[a], requests, Pending(a))
      /\ Charged(Prune(once, Window), failures[a], requests, Pending(a))
  BY <1>1, <1>4, <1>5, PruneKeepsCharges DEF Chargeable, once
<1>7. hits \in {was, once, Prune(once, Window)}
  BY DEF was, once
<1> QED
  BY <1>1, <1>5, <1>6, <1>7 DEF once

\* Who is under way at a, when one request goes on or ends.
LEMMA PendingAfter ==
    ASSUME TypeOK, NEW r \in Request, ~At(r, "idle"), NEW a,
           NEW step, Goes(r, step) \/ (Ends(r) /\ step = "idle")
    PROVE  /\ Pending(a)' = IF step \in Testing /\ requests[r].address = a
                            THEN Pending(a) \cup {r} ELSE Pending(a) \ {r}
           /\ \A p \in Pending(a)' : requests'[p].age = requests[p].age
           /\ \A p \in Request : p # r => requests'[p] = requests[p]
           /\ requests'[r].at = step
<1>1. requests[r] \in Asked /\ DOMAIN requests = Request
  BY AskedIsTyped DEF TypeOK
<1>2. /\ \A p \in Request : p # r => requests'[p] = requests[p]
      /\ requests'[r].at = step
  BY <1>1 DEF Goes, Ends, Idle, Asked
<1>3. step \in Testing => requests'[r].address = requests[r].address /\ requests'[r].age = requests[r].age
  BY <1>1 DEF Goes, Ends, Asked, Testing
<1> QED
  BY <1>2, <1>3 DEF Pending

\* A request that ends, or is not yet or no longer tested, is not under way.
LEMMA PendingLeaves ==
    ASSUME TypeOK, NEW r \in Request, ~At(r, "idle"), NEW a,
           Ends(r) \/ \E step \in {"counted", "undone", "forgiven"} : Goes(r, step)
    PROVE  /\ Pending(a)' = Pending(a) \ {r}
           /\ \A p \in Pending(a)' : requests'[p].age = requests[p].age
<1>1. PICK step \in {"idle", "counted", "undone", "forgiven"} :
        Goes(r, step) \/ (Ends(r) /\ step = "idle")
  OBVIOUS
<1>2. step \notin Testing
  BY DEF Testing
<1> QED
  BY <1>1, <1>2, PendingAfter

\* One that is tested is under way at its address.
LEMMA PendingStays ==
    ASSUME TypeOK, NEW r \in Request, ~At(r, "idle"), NEW a,
           \E step \in Testing : Goes(r, step)
    PROVE  /\ Pending(a)' = IF requests[r].address = a THEN Pending(a) \cup {r} ELSE Pending(a) \ {r}
           /\ \A p \in Pending(a)' : requests'[p].age = requests[p].age
<1>1. PICK step \in Testing : Goes(r, step)
  OBVIOUS
<1> QED
  BY <1>1, PendingAfter

\* A guess that is counted under its ceiling is charged to that.
LEMMA ReserveCeilingCharges ==
    ASSUME GuessInv, NEW r \in Request, ReserveCeiling(r), NEW a \in Known
    PROVE  Charged(attempts'[Ceiling(a)], failures'[a], requests', Pending(a)')
<1>1. /\ TypeOK /\ GuessesAreCharged /\ At(r, "counted") /\ ~At(r, "idle")
      /\ failures' = failures /\ MapOK(attempts)
  BY TypesOfTheMap DEF GuessInv, ReserveCeiling, At
<1>2. /\ Ceiling(a) \in Key /\ Pinned(Ceiling(a)) /\ WindowOf(Ceiling(a)) = Window
      /\ \A b \in Known : Ceiling(a) = Ceiling(b) => a = b
  BY CeilingIsPinned
<1>3. r \notin Pending(a) /\ r \in Request
  BY <1>1 DEF Pending, Testing, At
<1>4. CeilingOf(r) \in Key /\ requests[r] \in Asked /\ requests[r].age \in Nat
  <2>1. CeilingOf(r) \in Key /\ requests[r] \in Asked
    BY <1>1, AskedIsTyped
  <2> QED
    BY <2>1 DEF Asked
<1> DEFINE was == attempts[Ceiling(a)]
<1>5. \A h \in {was, Prune(was, Window)} :
          Charged(h, failures[a], requests, Pending(a)) /\ Chargeable(h, failures[a], requests, Pending(a))
  BY <1>1, PrunedStateCharges
<1>6. CASE requests[r].address = a /\ ~Held(attempts, CeilingOf(r))
  <2>1. CeilingOf(r) = Ceiling(a) /\ Goes(r, "reserved")
    BY <1>6 DEF CeilingOf, ReserveCeiling
  <2>2. attempts' \in Counted(attempts, Ceiling(a))
    BY <1>6, <2>1 DEF ReserveCeiling, Reserved
  <2>3. attempts'[Ceiling(a)] = Append(Prune(was, Window), 0)
    BY <1>1, <1>2, <1>6, <2>1, <2>2, CountedMap
  <2>4. /\ Pending(a)' = Pending(a) \cup {r}
        /\ \A p \in Pending(a)' : requests'[p].age = requests[p].age
    BY <1>1, <1>6, <2>1, PendingAfter DEF Testing
  <2>5. Charged(Append(Prune(was, Window), 0), failures[a], requests, Pending(a) \cup {r})
    BY <1>3, <1>4, <1>5, ReserveCharges
  <2>6. Charged(Append(Prune(was, Window), 0), failures[a], requests', Pending(a) \cup {r})
    BY <2>4, <2>5, ChargesReadAges
  <2> QED
    BY <1>1, <2>3, <2>4, <2>6
<1>7. CASE ~(requests[r].address = a /\ ~Held(attempts, CeilingOf(r)))
  <2>1. /\ Pending(a)' = Pending(a)
        /\ \A p \in Pending(a)' : requests'[p].age = requests[p].age
    <3>1. CASE Held(attempts, CeilingOf(r))
      <4>1. Goes(r, "undone")
        BY <3>1 DEF ReserveCeiling
      <4> QED
        BY <1>1, <1>3, <4>1, PendingLeaves
    <3>2. CASE ~Held(attempts, CeilingOf(r))
      <4>1. requests[r].address # a /\ (Goes(r, "reserved") \/ Ends(r))
        BY <1>7, <3>2 DEF ReserveCeiling
      <4>2. CASE Ends(r)
        BY <1>1, <1>3, <4>2, PendingLeaves
      <4>3. CASE Goes(r, "reserved")
        <5>1. \E step \in Testing : Goes(r, step)
          BY <4>3 DEF Testing
        <5>2. /\ Pending(a)' = IF requests[r].address = a THEN Pending(a) \cup {r} ELSE Pending(a) \ {r}
              /\ \A p \in Pending(a)' : requests'[p].age = requests[p].age
          BY <1>1, <5>1, PendingStays
        <5> QED
          BY <1>3, <4>1, <5>2
      <4> QED
        BY <4>1, <4>2, <4>3
    <3> QED
      BY <3>1, <3>2
  <2>2. attempts'[Ceiling(a)] \in {was, Prune(was, Window)}
    <3>1. CASE Held(attempts, CeilingOf(r))
      <4>1. attempts' = Pruned(attempts, CeilingOf(r))
        BY <3>1 DEF ReserveCeiling, Reserved
      <4>2. /\ attempts'[CeilingOf(r)] = Prune(attempts[CeilingOf(r)], WindowOf(CeilingOf(r)))
            /\ \A j \in Key : j # CeilingOf(r) => attempts'[j] = attempts[j]
        BY <1>1, <1>4, <4>1, PrunedMap
      <4>3. CASE Ceiling(a) = CeilingOf(r)
        BY <1>2, <4>2, <4>3
      <4>4. CASE Ceiling(a) # CeilingOf(r)
        BY <1>2, <4>2, <4>4
      <4> QED
        BY <4>3, <4>4
    <3>2. CASE ~Held(attempts, CeilingOf(r))
      <4>1. attempts' \in Counted(attempts, CeilingOf(r))
        BY <3>2 DEF ReserveCeiling, Reserved
      <4>2. Ceiling(a) # CeilingOf(r)
        BY <1>7, <3>2 DEF CeilingOf, Ceiling
      <4>3. \A j \in Key : Pinned(j) /\ j # CeilingOf(r) =>
                attempts'[j] \in {attempts[j], Prune(attempts[j], WindowOf(j))}
        BY <1>1, <1>4, <3>2, <4>1, CountedMap
      <4> QED
        BY <1>2, <4>2, <4>3
    <3> QED
      BY <3>1, <3>2
  <2> HIDE DEF was
  <2> QED
    BY <1>1, <1>5, <2>1, <2>2, ChargesReadAges
<1> QED
  BY <1>6, <1>7

\* A right guess gives back the newest attempt.
LEMMA ReleaseCeilingCharges ==
    ASSUME \A p, q \in Owners : p = q,
           GuessInv, NEW r \in Request, ReleaseCeiling(r), NEW a \in Known
    PROVE  Charged(attempts'[Ceiling(a)], failures'[a], requests', Pending(a)')
<1>1. /\ TypeOK /\ GuessesAreCharged /\ At(r, "released") /\ ~At(r, "idle") /\ r \in Owners
      /\ failures' = failures /\ MapOK(attempts) /\ Goes(r, "forgiven")
      /\ attempts' = Released(attempts, CeilingOf(r))
  BY TypesOfTheMap DEF GuessInv, RightOnesAreOwners, ReleaseCeiling, At
<1>2. /\ Ceiling(a) \in Key /\ a \in Address /\ Ceiling(a)[1] = "ceiling" /\ Ceiling(a)[2] = a
  BY CeilingIsPinned, KeysDiffer
<1>3. CeilingOf(r) \in Key
  BY <1>1, AskedIsTyped
<1> DEFINE was == attempts[Ceiling(a)]
<1>4. Charged(was, failures[a], requests, Pending(a)) /\ Chargeable(was, failures[a], requests, Pending(a))
  BY <1>1, PrunedStateCharges
<1>5. /\ Pending(a)' = Pending(a) \ {r}
      /\ \A p \in Pending(a)' : requests'[p].age = requests[p].age
  BY <1>1, PendingLeaves
<1>6. CASE requests[r].address = a
  <2>1. CeilingOf(r) = Ceiling(a) /\ r \in Pending(a)
    BY <1>1, <1>6 DEF CeilingOf, Pending, Testing, At
  <2>2. \A p \in Owners : p = r
    BY <1>1
  <2>3. was # <<>> /\ Charged(Front(was), failures[a], requests, Pending(a) \ {r})
    BY <1>1, <1>4, <2>1, <2>2, ReleaseCharges
  <2>4. attempts'[Ceiling(a)] = Front(was)
    BY <1>1, <1>2, <2>1, <2>3, ReleasedMap
  <2>5. Charged(Front(was), failures[a], requests', Pending(a) \ {r})
    BY <1>5, <2>3, ChargesReadAges
  <2> QED
    BY <1>1, <1>5, <2>4, <2>5
<1>7. CASE requests[r].address # a
  <2>1. Ceiling(a) # CeilingOf(r) /\ r \notin Pending(a)
    BY <1>7 DEF CeilingOf, Ceiling, Pending
  <2>2. attempts'[Ceiling(a)] = was /\ Pending(a)' = Pending(a)
    BY <1>1, <1>2, <1>3, <1>5, <2>1, ReleasedMap
  <2> HIDE DEF was
  <2> QED
    BY <1>1, <1>4, <1>5, <2>2, ChargesReadAges
<1> QED
  BY <1>6, <1>7

\* A wrong guess.
LEMMA FailGuessCharges ==
    ASSUME GuessInv, NEW r \in Request, FailGuess(r), NEW a \in Known
    PROVE  Charged(attempts'[Ceiling(a)], failures'[a], requests', Pending(a)')
<1>1. /\ TypeOK /\ GuessesAreCharged /\ At(r, "reserved") /\ ~At(r, "idle") /\ Ends(r)
      /\ attempts' = attempts
      /\ failures' = [failures EXCEPT ![requests[r].address] = Append(@, 0)]
  BY DEF GuessInv, FailGuess, At
<1> DEFINE was == attempts[Ceiling(a)]
<1>2. Charged(was, failures[a], requests, Pending(a)) /\ Chargeable(was, failures[a], requests, Pending(a))
  BY <1>1, PrunedStateCharges
<1>3. /\ Pending(a)' = Pending(a) \ {r}
      /\ \A p \in Pending(a)' : requests'[p].age = requests[p].age
  BY <1>1, PendingAfter DEF Testing
<1>4. DOMAIN failures = Known
  BY <1>1 DEF TypeOK
<1> HIDE DEF was
<1>5. CASE requests[r].address = a
  <2>1. r \in Pending(a)
    BY <1>1, <1>5 DEF Pending, Testing, At
  <2>2. Charged(was, Append(failures[a], 0), requests, Pending(a) \ {r})
    BY <1>2, <2>1, FailCharges
  <2>3. failures'[a] = Append(failures[a], 0)
    BY <1>1, <1>4, <1>5
  <2>4. Charged(was, failures'[a], requests', Pending(a)')
    BY <1>3, <2>2, <2>3, ChargesReadAges
  <2> QED
    BY <1>1, <2>4 DEF was
<1>6. CASE requests[r].address # a
  <2>1. failures'[a] = failures[a] /\ Pending(a)' = Pending(a)
    BY <1>1, <1>3, <1>4, <1>6 DEF Pending
  <2>2. Charged(was, failures'[a], requests', Pending(a)')
    BY <1>2, <1>3, <2>1, ChargesReadAges
  <2> QED
    BY <1>1, <2>2 DEF was
<1> QED
  BY <1>5, <1>6

\* The other steps of a sign-in change neither the ceilings, pruning aside, nor
\* who is under way.
LEMMA OtherStepsCharge ==
    ASSUME GuessInv, NEW r \in Request, Proceed(r),
           FailLookup(r) \/ ReserveOwn(r) \/ RightGuess(r) \/ ReleaseOwn(r) \/ ClearOwn(r), NEW a \in Known
    PROVE  Charged(attempts'[Ceiling(a)], failures'[a], requests', Pending(a)')
<1>1. /\ TypeOK /\ GuessesAreCharged /\ ~At(r, "idle") /\ failures' = failures
  BY DEF GuessInv, ReserveOwn, RightGuess, ReleaseOwn, ClearOwn, FailLookup, At
<1>2. /\ Ceiling(a) \in Key /\ Pinned(Ceiling(a)) /\ WindowOf(Ceiling(a)) = Window
  BY CeilingIsPinned
<1> DEFINE was == attempts[Ceiling(a)]
<1>3. \A h \in {was, Prune(was, Window)} : Charged(h, failures[a], requests, Pending(a))
  BY <1>1, PrunedStateCharges
<1>4. attempts'[Ceiling(a)] \in {was, Prune(was, Window)}
  <2>1. ~ReserveCeiling(r) /\ ~ReleaseCeiling(r)
    BY DEF ReserveCeiling, ReleaseCeiling, ReserveOwn, RightGuess, ReleaseOwn, ClearOwn, FailLookup, At
  <2> QED
    BY <1>1, <1>2, <2>1, ProceedMap
<1>5. /\ Pending(a)' = Pending(a)
      /\ \A p \in Pending(a)' : requests'[p].age = requests[p].age
  <2>1. CASE FailLookup(r) \/ ReserveOwn(r) \/ ClearOwn(r) \/ (ReleaseOwn(r) /\ At(r, "undone"))
    <3>1. r \notin Pending(a)
      BY <2>1 DEF ReserveOwn, ClearOwn, FailLookup, ReleaseOwn, At, Pending, Testing
    <3>2. Ends(r) \/ \E step \in {"counted", "undone", "forgiven"} : Goes(r, step)
      BY <2>1 DEF ReserveOwn, ClearOwn, FailLookup, ReleaseOwn, At
    <3>3. /\ Pending(a)' = Pending(a) \ {r}
          /\ \A p \in Pending(a)' : requests'[p].age = requests[p].age
      BY <1>1, <3>2, PendingLeaves
    <3> QED
      BY <3>1, <3>3
  <2>2. CASE RightGuess(r) \/ (ReleaseOwn(r) /\ ~At(r, "undone"))
    <3>1. /\ At(r, "reserved") \/ At(r, "right")
          /\ Goes(r, "right") \/ Goes(r, "released")
      BY <2>2 DEF RightGuess, ReleaseOwn
    <3>2. r \in Pending(a) <=> requests[r].address = a
      BY <3>1 DEF At, Pending, Testing
    <3>3. /\ Pending(a)' = IF requests[r].address = a THEN Pending(a) \cup {r} ELSE Pending(a) \ {r}
          /\ \A p \in Pending(a)' : requests'[p].age = requests[p].age
      <4>1. \E step \in Testing : Goes(r, step)
        BY <3>1 DEF Testing
      <4> QED
        BY <1>1, <4>1, PendingStays
    <3> QED
      BY <3>2, <3>3
  <2> QED
    BY <2>1, <2>2
<1> HIDE DEF was
<1> QED
  BY <1>1, <1>3, <1>4, <1>5, ChargesReadAges

\* Only someone who knows the password gives an attempt back.
LEMMA RightOnesStayOwners ==
    ASSUME GuessInv, NEW r \in Request, Proceed(r)
    PROVE  RightOnesAreOwners'
<1>1. TypeOK /\ RightOnesAreOwners /\ ~At(r, "idle")
  BY DEF GuessInv, Proceed, ReserveOwn, ReserveCeiling, FailGuess, RightGuess,
        ReleaseOwn, ReleaseCeiling, ClearOwn, FailLookup, At
<1>2. PICK step \in Step \cup {"idle"} :
        /\ Goes(r, step) \/ (Ends(r) /\ step = "idle")
        /\ step \in {"right", "released"} => r \in Owners
  <2>1. CASE Ends(r)
    BY <2>1
  <2>2. CASE ReserveOwn(r) /\ Goes(r, "counted")
    BY <2>2 DEF Step
  <2>3. CASE ReserveCeiling(r) /\ (Goes(r, "undone") \/ Goes(r, "reserved"))
    BY <2>3 DEF Step
  <2>4. CASE RightGuess(r)
    BY <2>4 DEF RightGuess, Step
  <2>5. CASE ReleaseOwn(r) /\ At(r, "right") /\ Goes(r, "released")
    BY <1>1, <2>5 DEF RightOnesAreOwners, At, Step
  <2>6. CASE ReleaseCeiling(r)
    BY <2>6 DEF ReleaseCeiling, Step
  <2> QED
    BY <2>1, <2>2, <2>3, <2>4, <2>5, <2>6 DEF Proceed, ReserveOwn, ReserveCeiling, FailGuess,
        ReleaseOwn, ClearOwn, FailLookup
<1>3. /\ \A p \in Request : p # r => requests'[p] = requests[p]
      /\ requests'[r].at = step
  BY <1>1, <1>2, PendingAfter
<1> QED
  BY <1>1, <1>2, <1>3 DEF RightOnesAreOwners

\* Every step of a sign-in keeps the charges,
LEMMA ProceedCharges ==
    ASSUME \A p, q \in Owners : p = q, GuessInv, NEW r \in Request, Proceed(r)
    PROVE  GuessInv'
<1>1. TypeOK' /\ RightOnesAreOwners'
  BY ProceedTypes, RightOnesStayOwners DEF GuessInv
<1>2. ASSUME NEW a \in Known
      PROVE  Charged(attempts'[Ceiling(a)], failures'[a], requests', Pending(a)')
  <2>1. CASE ReserveCeiling(r)
    BY <2>1, ReserveCeilingCharges
  <2>2. CASE ReleaseCeiling(r)
    BY <2>2, ReleaseCeilingCharges
  <2>3. CASE FailGuess(r)
    BY <2>3, FailGuessCharges
  <2>4. CASE FailLookup(r) \/ ReserveOwn(r) \/ RightGuess(r) \/ ReleaseOwn(r) \/ ClearOwn(r)
    BY <2>4, OtherStepsCharge
  <2> QED
    BY <2>1, <2>2, <2>3, <2>4 DEF Proceed
<1>3. GuessesAreCharged'
  BY <1>2 DEF GuessesAreCharged
<1> QED
  BY <1>1, <1>3 DEF GuessInv

\* as does letting a request in, which prunes the ceiling at most twice,
LEMMA AllowCharges ==
    ASSUME GuessInv, NEW r \in Request, NEW b \in Address, NEW i \in IP, Allow(r, b, i)
    PROVE  GuessInv'
<1>1. /\ TypeOK /\ GuessesAreCharged /\ RightOnesAreOwners /\ TypeOK' /\ failures' = failures
      /\ At(r, "idle") /\ DOMAIN requests = Request
  BY AllowTypes DEF GuessInv, Allow, TypeOK
<1>2. \/ requests' = requests
      \/ requests' = [requests EXCEPT ![r] = [at |-> "allowed", address |-> b, ip |-> i, age |-> 0]]
  BY DEF Allow
<1>3. RightOnesAreOwners' /\ \A a \in Known :
        /\ Pending(a)' = Pending(a)
        /\ \A p \in Pending(a)' : requests'[p].age = requests[p].age
  <2>1. CASE requests' = requests
    BY <1>1, <2>1 DEF Pending, RightOnesAreOwners
  <2>2. CASE requests' = [requests EXCEPT ![r] = [at |-> "allowed", address |-> b, ip |-> i, age |-> 0]]
    <3>1. requests'[r].at = "allowed" /\ \A p \in Request : p # r => requests'[p] = requests[p]
      BY <1>1, <2>2
    <3> QED
      BY <1>1, <3>1 DEF Pending, Testing, At, RightOnesAreOwners
  <2> QED
    BY <1>2, <2>1, <2>2
<1>4. ASSUME NEW a \in Known
      PROVE  Charged(attempts'[Ceiling(a)], failures'[a], requests', Pending(a)')
  <2> DEFINE was == attempts[Ceiling(a)]
  <2>1. \A h \in {was, Prune(was, Window), Prune(Prune(was, Window), Window)} :
            Charged(h, failures[a], requests, Pending(a))
    BY <1>1, PrunedStateCharges
  <2>2. attempts'[Ceiling(a)] \in {was, Prune(was, Window), Prune(Prune(was, Window), Window)}
    BY <1>1, AllowMap, CeilingIsPinned
  <2> HIDE DEF was
  <2> QED
    BY <1>1, <1>3, <2>1, <2>2, ChargesReadAges
<1> QED
  BY <1>1, <1>3, <1>4 DEF GuessInv, GuessesAreCharged

\* emailing a code,
LEMMA MarkCharges ==
    ASSUME GuessInv, NEW b \in Address, Mark(b)
    PROVE  GuessInv'
<1>1. /\ TypeOK /\ GuessesAreCharged /\ RightOnesAreOwners /\ TypeOK'
      /\ failures' = failures /\ requests' = requests
  BY MarkTypes DEF GuessInv, Mark
<1>2. RightOnesAreOwners' /\ \A a \in Known : Pending(a)' = Pending(a)
  BY <1>1 DEF Pending, RightOnesAreOwners
<1>3. ASSUME NEW a \in Known
      PROVE  Charged(attempts'[Ceiling(a)], failures'[a], requests', Pending(a)')
  <2> DEFINE was == attempts[Ceiling(a)]
  <2>1. \A h \in {was, Prune(was, Window)} : Charged(h, failures[a], requests, Pending(a))
    BY <1>1, PrunedStateCharges
  <2>2. attempts'[Ceiling(a)] \in {was, Prune(was, Window)}
    BY <1>1, MarkMap, CeilingIsPinned
  <2> HIDE DEF was
  <2> QED
    BY <1>1, <1>2, <2>1, <2>2
<1> QED
  BY <1>1, <1>2, <1>3 DEF GuessInv, GuessesAreCharged

\* and time passing.
LEMMA TickCharges ==
    ASSUME GuessInv, Tick
    PROVE  GuessInv'
<1>1. /\ TypeOK /\ GuessesAreCharged /\ RightOnesAreOwners /\ TypeOK'
  BY TickTypes DEF GuessInv
<1>2. RightOnesAreOwners' /\ \A a \in Known : Pending(a)' = Pending(a)
  BY <1>1, TickRequests DEF Pending, RightOnesAreOwners
<1>3. ASSUME NEW a \in Known
      PROVE  Charged(attempts'[Ceiling(a)], failures'[a], requests', Pending(a)')
  <2> DEFINE was == attempts[Ceiling(a)]
             fails == failures[a]
  <2>1. /\ Chargeable(was, fails, requests, Pending(a)) /\ Charged(was, fails, requests, Pending(a))
        /\ fails \in Seq(0 .. Guarded - 1) /\ Sorted(fails)
        /\ \A r \in Pending(a) : ~At(r, "idle") /\ r \in Request
    BY <1>1, StateIsChargeable DEF GuessesAreCharged
  <2>2. attempts'[Ceiling(a)] = Aged(was) /\ failures'[a] = Prune(Older(fails), Guarded)
    BY <1>1, TickMap, CeilingIsPinned DEF Tick, Older
  <2>3. \A p \in Pending(a) : requests'[p].age = requests[p].age + 1
    BY <1>1, <2>1, TickRequests
  <2> HIDE DEF was, fails
  <2>4. Charged(Aged(was), Older(fails), requests', Pending(a))
    BY <2>1, <2>3, TickKeepsCharges
  <2>5. Older(fails) \in Seq(Nat)
    BY <2>1, OlderFailures
  <2>6. Charged(Aged(was), Prune(Older(fails), Guarded), requests', Pending(a))
    BY <2>4, <2>5, OldFailuresAreDropped
  <2> QED
    BY <1>2, <2>2, <2>6
<1> QED
  BY <1>1, <1>2, <1>3 DEF GuessInv, GuessesAreCharged

\* Nothing is charged at first.
LEMMA InitCharges == Init => GuessInv
<1> SUFFICES ASSUME Init PROVE GuessInv
  OBVIOUS
<1>1. RightOnesAreOwners /\ \A a \in Known : Pending(a) = {}
  BY DEF Init, Idle, RightOnesAreOwners, Pending, Testing
<1>2. ASSUME NEW a \in Known
      PROVE  Charged(attempts[Ceiling(a)], failures[a], requests, Pending(a))
  <2>1. DOMAIN failures[a] = {}
    BY DEF Init
  <2> DEFINE none == [i \in {} |-> 0]
             hits == attempts[Ceiling(a)]
  <2>2. none \in [DOMAIN failures[a] -> DOMAIN hits] /\ none \in [Pending(a) -> DOMAIN hits]
    BY <1>1, <2>1
  <2>3. Charge(hits, failures[a], requests, Pending(a), none, none)
    BY <1>1, <2>1, <2>2 DEF Charge
  <2> HIDE DEF none, hits
  <2>4. Charged(hits, failures[a], requests, Pending(a))
    BY <2>2, <2>3 DEF Charged
  <2> QED
    BY <2>4 DEF hits
<1> QED
  BY <1>1, <1>2, InitTypes DEF GuessInv, GuessesAreCharged

\* The invariant is inductive.
LEMMA NextCharges ==
    ASSUME \A p, q \in Owners : p = q
    PROVE  GuessInv /\ [Next]_vars => GuessInv'
<1> SUFFICES ASSUME GuessInv, [Next]_vars PROVE GuessInv'
  OBVIOUS
<1>1. ASSUME NEW r \in Request, Proceed(r) PROVE GuessInv'
  BY <1>1, ProceedCharges
<1>2. ASSUME NEW r \in Request, NEW a \in Address, NEW i \in IP, Allow(r, a, i) PROVE GuessInv'
  BY <1>2, AllowCharges
<1>3. ASSUME NEW a \in Address, Mark(a) PROVE GuessInv'
  BY <1>3, MarkCharges
<1>4. CASE Tick
  BY <1>4, TickCharges
<1>5. CASE UNCHANGED vars
  <2>1. /\ maxKeys' = maxKeys /\ attempts' = attempts /\ requests' = requests /\ failures' = failures
        /\ TypeOK /\ RightOnesAreOwners /\ GuessesAreCharged
    BY <1>5 DEF vars, GuessInv
  <2>2. TypeOK' /\ RightOnesAreOwners' /\ \A a \in Known : Pending(a)' = Pending(a)
    BY <2>1 DEF TypeOK, RightOnesAreOwners, Pending
  <2>3. GuessesAreCharged'
    BY <2>1, <2>2 DEF GuessesAreCharged
  <2> QED
    BY <2>2, <2>3 DEF GuessInv
<1> QED
  BY <1>1, <1>2, <1>3, <1>4, <1>5 DEF Next

\* Guesses charged to attempts of their own are as many as those at most.
LEMMA ChargedGuessesAreBounded == GuessInv => GuessesAreBounded
<1> SUFFICES ASSUME GuessInv, NEW a \in Known
             PROVE  Len(failures[a]) <= CeilingLimit
  BY DEF GuessesAreBounded
<1> DEFINE hits == attempts[Ceiling(a)]
           fails == failures[a]
<1>1. TypeOK /\ Charged(hits, fails, requests, Pending(a)) /\ Chargeable(hits, fails, requests, Pending(a))
  BY StateIsChargeable DEF GuessInv, GuessesAreCharged
<1>2. Len(hits) <= CeilingLimit
  BY <1>1, CeilingIsPinned DEF TypeOK
<1> HIDE DEF hits, fails
<1>3. PICK f \in [DOMAIN fails -> DOMAIN hits], g \in [Pending(a) -> DOMAIN hits] :
        Charge(hits, fails, requests, Pending(a), f, g)
  BY <1>1 DEF Charged
<1>4. f \in Injection(DOMAIN fails, DOMAIN hits)
  BY <1>3 DEF Charge, Injection, IsInjective
<1>5. /\ Len(hits) \in Nat /\ DOMAIN hits = 1 .. Len(hits)
      /\ Len(fails) \in Nat /\ DOMAIN fails = 1 .. Len(fails)
  BY <1>1, ChargeableFacts
<1>6. /\ IsFiniteSet(DOMAIN hits)
      /\ Cardinality(DOMAIN hits) = Len(hits) /\ Cardinality(DOMAIN fails) = Len(fails)
  <2>1. \A n \in Nat : IsFiniteSet(1 .. n) /\ Cardinality(1 .. n) = n
    <3> TAKE n \in Nat
    <3>1. IsFiniteSet(1 .. n) /\ Cardinality(1 .. n) = IF 1 > n THEN 0 ELSE n - 1 + 1
      BY FS_Interval
    <3> QED
      BY <3>1
  <2> QED
    BY <1>5, <2>1
<1>7. Len(fails) <= Len(hits)
  BY <1>4, <1>6, FS_Injection
<1> QED
  BY <1>2, <1>5, <1>7, ConstantsAreNaturals DEF fails

\* However many requests are in flight, and whatever fills the map, the wrong
\* guesses tested at an account within the window, less two durations of a
\* request, stay within its ceiling, provided that sign-ins with the right
\* password do not overlap (ratelimit.go:134-165, server.go:240-248).
THEOREM GuessesStayBounded ==
    ASSUME \A p, q \in Owners : p = q
    PROVE  Spec => []GuessesAreBounded
<1>1. Init => GuessInv
  BY InitCharges
<1>2. GuessInv /\ [Next]_vars => GuessInv'
  BY NextCharges
<1>3. GuessInv => GuessesAreBounded
  BY ChargedGuessesAreBounded
<1> QED
  BY <1>1, <1>2, <1>3, PTL DEF Spec

==============================================================================
