----------------------- MODULE UpstreamResolver_proofs -----------------------
(***************************************************************************)
(* Machine-checked proofs about the upstream resolvers, for every list of  *)
(* addresses, every size of the counter and every interleaving of resolve  *)
(* and the reload loop: types, what the reload loop keeps of a lookup, and *)
(* that the calls between two reloads are spread evenly.                   *)
(***************************************************************************)
EXTENDS UpstreamResolver, FiniteSetTheorems, SequenceTheorems,
        WellFoundedInduction, TLAPS

(***************************************************************************)
(* Induction on a set of numbers.  The library's induction theorems take   *)
(* the predicate as a parameter; what it says of finite subsets gives the  *)
(* same for a predicate that is a set.                                     *)
(***************************************************************************)

\* A set of natural numbers has a least member: among the intervals that end in
\* a member, one has no proper part.
LEMMA LeastNumber ==
    ASSUME NEW T \in SUBSET Nat, T # {}
    PROVE  \E k \in T : \A j \in T : k <= j
  <1>. DEFINE ends == {0..k : k \in T}
  <1>1. IsWellFoundedOn(StrictSubsetOrdering(Nat), FiniteSubsetsOf(Nat))
    BY FS_StrictSubsetOrderingWellFounded
  <1>2. ends \subseteq FiniteSubsetsOf(Nat) /\ ends # {}
    <2>1. \A k \in T : IsFiniteSet(0..k) /\ 0..k \subseteq Nat
      BY FS_Interval
    <2>. QED
      BY <2>1 DEF FiniteSubsetsOf
  <1>3. PICK x \in ends : \A y \in ends : <<y, x>> \notin StrictSubsetOrdering(Nat)
    <2>. HIDE DEF ends
    <2>. QED
      BY <1>1, <1>2, WFMin
  <1>4. PICK k \in T : x = 0..k
    BY <1>3
  <1>5. ASSUME NEW j \in T, j < k PROVE FALSE
    <2>1. /\ 0..j \subseteq 0..k /\ 0..j # 0..k
          /\ 0..j \subseteq Nat /\ 0..k \subseteq Nat
      BY <1>5
    <2>2. <<0..j, 0..k>> \in StrictSubsetOrdering(Nat)
      BY <2>1 DEF StrictSubsetOrdering
    <2>. QED
      BY <1>3, <1>4, <2>2
  <1>. QED
    BY <1>5

\* A set with 0 that has the successors of its members up to m has all up to m.
LEMMA SetInduction ==
    ASSUME NEW m \in Nat, NEW S, 0 \in S,
           \A k \in 0..m : k \in S /\ k < m => k + 1 \in S
    PROVE  0..m \subseteq S
  <1>. DEFINE T == {k \in 0..m : k \notin S}
  <1>1. SUFFICES ASSUME T # {} PROVE FALSE
    OBVIOUS
  <1>2. T \in SUBSET Nat
    OBVIOUS
  <1>3. PICK k \in T : \A j \in T : k <= j
    <2>. HIDE DEF T
    <2>. QED
      BY <1>1, <1>2, LeastNumber
  <1>4. k # 0 /\ k - 1 \in 0..m /\ k - 1 < m /\ k - 1 \notin T
    BY <1>3
  <1>. QED
    BY <1>3, <1>4

-----------------------------------------------------------------------------
(***************************************************************************)
(* What the reload loop keeps of a lookup.                                 *)
(***************************************************************************)

\* One iteration, and the URLs pushed by k iterations.
PushedNext(q, k, urls) ==
    IF q[k] \in Unusable THEN urls ELSE Append(urls, q[k])

IsPushed(q, m, pushed) ==
    pushed = [k \in 0..m |-> IF k = 0 THEN <<>> ELSE PushedNext(q, k, pushed[k - 1])]

\* The loop has a result after any number of iterations.
LEMMA PushedExists ==
    ASSUME NEW q \in Seq(Addresses)
    PROVE  \E pushed : IsPushed(q, Len(q), pushed)
  <1>. DEFINE S == {m \in 0..Len(q) : \E pushed : IsPushed(q, m, pushed)}
  <1>0. Len(q) \in Nat
    OBVIOUS
  <1>1. 0 \in S
    <2>1. IsPushed(q, 0, [k \in 0..0 |-> <<>>])
      BY DEF IsPushed
    <2>. QED
      BY <1>0, <2>1
  <1>2. ASSUME NEW m \in 0..Len(q), m \in S, m < Len(q) PROVE m + 1 \in S
    <2>1. PICK old : IsPushed(q, m, old)
      BY <1>2
    <2>. DEFINE new == [k \in 0..m + 1 |->
                          IF k <= m THEN old[k] ELSE PushedNext(q, k, old[m])]
    <2>2. \A k \in 0..m : old[k] = IF k = 0 THEN <<>> ELSE PushedNext(q, k, old[k - 1])
      BY <2>1 DEF IsPushed
    <2>3. ASSUME NEW k \in 0..m + 1
          PROVE  new[k] = IF k = 0 THEN <<>> ELSE PushedNext(q, k, new[k - 1])
      <3>1. CASE k = 0
        BY <1>0, <2>2, <3>1
      <3>2. CASE k \in 1..m
        <4>1. k - 1 \in 0..m + 1 /\ k - 1 <= m /\ k <= m /\ k \in 0..m
          BY <1>0, <3>2
        <4>2. new[k] = old[k] /\ new[k - 1] = old[k - 1]
          BY <4>1
        <4>. HIDE DEF new
        <4>. QED
          BY <2>2, <3>2, <4>1, <4>2
      <3>3. CASE k = m + 1
        <4>1. /\ k - 1 = m /\ m \in 0..m + 1 /\ ~(k <= m) /\ k # 0
          BY <1>0, <3>3
        <4>2. new[k] = PushedNext(q, k, old[m]) /\ new[m] = old[m]
          BY <4>1
        <4>. HIDE DEF new
        <4>. QED
          BY <4>1, <4>2
      <3>. QED
        BY <1>0, <3>1, <3>2, <3>3
    <2>4. IsPushed(q, m + 1, new)
      <3>1. new = [k \in 0..m + 1 |-> new[k]]
        OBVIOUS
      <3>. HIDE DEF new
      <3>. QED
        BY <2>3, <3>1 DEF IsPushed
    <2>. HIDE DEF new
    <2>. QED
      BY <1>0, <1>2, <2>4
  <1>3. 0..Len(q) \subseteq S
    <2>. HIDE DEF S
    <2>. QED
      BY <1>0, <1>1, <1>2, SetInduction
  <1>. QED
    BY <1>0, <1>3

\* The loop's result is a sequence of usable addresses.
LEMMA UsableIs ==
    ASSUME NEW q \in Seq(Addresses)
    PROVE  Usable(q) \in Seq(Addresses \ Unusable)
  <1>. DEFINE pushed == CHOOSE p : IsPushed(q, Len(q), p)
              S == {m \in 0..Len(q) : pushed[m] \in Seq(Addresses \ Unusable)}
  <1>0. Len(q) \in Nat
    OBVIOUS
  <1>1. IsPushed(q, Len(q), pushed)
    BY PushedExists
  <1>2. Usable(q) = pushed[Len(q)]
    BY DEF Usable, IsPushed, PushedNext
  <1>. HIDE DEF pushed
  <1>3. \A k \in 0..Len(q) :
           pushed[k] = IF k = 0 THEN <<>> ELSE PushedNext(q, k, pushed[k - 1])
    BY <1>1 DEF IsPushed
  <1>4. 0 \in S
    <2>1. 0 \in 0..Len(q) /\ pushed[0] = <<>>
      BY <1>0, <1>3
    <2>2. <<>> \in Seq(Addresses \ Unusable)
      OBVIOUS
    <2>. QED
      BY <2>1, <2>2
  <1>5. ASSUME NEW m \in 0..Len(q), m \in S, m < Len(q) PROVE m + 1 \in S
    <2>1. m + 1 \in 1..Len(q) /\ m + 1 # 0 /\ (m + 1) - 1 = m
      BY <1>0, <1>5
    <2>2. pushed[m + 1] = PushedNext(q, m + 1, pushed[m])
      BY <1>0, <1>3, <2>1
    <2>3. q[m + 1] \in Addresses
      BY <2>1
    <2>4. pushed[m] \in Seq(Addresses \ Unusable)
      BY <1>5
    <2>5. pushed[m + 1] \in Seq(Addresses \ Unusable)
      BY <2>2, <2>3, <2>4 DEF PushedNext
    <2>. QED
      BY <1>0, <2>1, <2>5
  <1>6. 0..Len(q) \subseteq S
    <2>. HIDE DEF S
    <2>. QED
      BY <1>0, <1>4, <1>5, SetInduction
  <1>. QED
    BY <1>0, <1>2, <1>6

-----------------------------------------------------------------------------
(***************************************************************************)
(* Types.                                                                  *)
(***************************************************************************)

\* One more call is counted.
LEMMA CountsUp ==
    ASSUME NEW S, NEW f \in [S -> Nat], NEW i
    PROVE  [f EXCEPT ![i] = @ + 1] \in [S -> Nat]
  <1>1. \A j \in S : f[j] \in Nat /\ f[j] + 1 \in Nat
    OBVIOUS
  <1>2. [f EXCEPT ![i] = @ + 1] = [j \in S |-> IF j = i THEN f[j] + 1 ELSE f[j]]
    OBVIOUS
  <1>3. [j \in S |-> IF j = i THEN f[j] + 1 ELSE f[j]] \in [S -> Nat]
    BY <1>1
  <1>. QED
    BY <1>2, <1>3

\* Every step keeps the types of the list, the counter and the counts.
LEMMA ResolverTypeStep == TypeOK /\ [Next]_vars => TypeOK'
  <1>. SUFFICES ASSUME TypeOK, [Next]_vars PROVE TypeOK'
    OBVIOUS
  <1>. USE ResolverAssumption DEF TypeOK
  <1>1. CASE Resolve
    <2>1. (counter + 1) % CounterSize \in 0..CounterSize - 1
      OBVIOUS
    <2>. DEFINE i == Index(counter, Len(found_urls)) + 1
    <2>2. /\ counter' = (counter + 1) % CounterSize
          /\ picks' = [picks EXCEPT ![i] = @ + 1] /\ n' = n + 1
          /\ UNCHANGED <<kind, dns, loop, looked, found_urls, cancelled>>
      BY <1>1 DEF Resolve
    <2>. HIDE DEF i
    <2>3. picks' \in [DOMAIN found_urls -> Nat]
      BY <2>2, CountsUp
    <2>. QED
      BY <2>1, <2>2, <2>3
  <1>2. CASE Tick \/ LookupFails \/ LoopStops \/ DnsChanges \/ Cancel
    BY <1>2 DEF Tick, LookupFails, LoopStops, DnsChanges, Cancel
  <1>3. CASE LookupAnswers
    BY <1>3 DEF LookupAnswers, UrlLists
  <1>4. CASE Apply
    <2>1. 0 \in 0..CounterSize - 1
      OBVIOUS
    <2>. QED
      BY <1>4, <2>1 DEF Apply, Zeros
  <1>5. CASE UNCHANGED vars
    BY <1>5 DEF vars
  <1>. QED
    BY <1>1, <1>2, <1>3, <1>4, <1>5 DEF Next

\* The initial state is well typed.
LEMMA ResolverTypeInit == Init => TypeOK
  <1>1. 0 \in 0..CounterSize - 1
    BY ResolverAssumption
  <1>2. Zeros(found_urls) \in [DOMAIN found_urls -> Nat]
    BY DEF Zeros
  <1>. SUFFICES ASSUME Init PROVE TypeOK
    OBVIOUS
  <1>3. /\ kind \in {"static", "discovery"} /\ loop \in {"waiting", "stopped"}
        /\ found_urls \in Answers \cup {<<>>}
    BY DEF Init
  <1>4. /\ dns \in Answers /\ looked = <<>> /\ counter = 0 /\ cancelled = FALSE
        /\ picks = Zeros(found_urls) /\ n = 0
    BY DEF Init
  <1>. QED
    BY <1>1, <1>2, <1>3, <1>4 DEF TypeOK

\* Type correctness: the list in use is a configured one or what the loop kept of
\* a lookup, and the counter stays in its range.
THEOREM ResolverTypeCorrect == Spec => []TypeOK
  BY ResolverTypeInit, ResolverTypeStep, PTL DEF Spec

\* The list is a sequence, with as many entries as it has indices.
ListOK ==
    /\ found_urls \in Seq(Addresses)
    /\ Len(found_urls) \in Nat
    /\ DOMAIN found_urls = 1..Len(found_urls)
    /\ found_urls # <<>> => Len(found_urls) # 0

\* So are the configured lists, and what the reload loop keeps of a lookup.
LEMMA ListIs == TypeOK => ListOK
  <1>. SUFFICES ASSUME TypeOK PROVE ListOK
    OBVIOUS
  <1>1. \A q \in Answers : q \in Seq(Addresses) /\ Usable(q) \in Seq(Addresses)
    <2>1. \A q \in Answers : Usable(q) \in Seq(Addresses \ Unusable)
      BY ResolverAssumption, UsableIs
    <2>. QED
      BY <2>1, ResolverAssumption
  <1>2. found_urls \in Seq(Addresses)
    BY <1>1 DEF TypeOK, UrlLists
  <1>. QED
    BY <1>2 DEF ListOK

-----------------------------------------------------------------------------
(***************************************************************************)
(* Round robin.  After k picks that begin with the first entry of a list   *)
(* of len, entry i got Share(k, len, i) of them.  The counter begins with  *)
(* the first entry again each time it wraps, so that the shares of its     *)
(* rounds add up; two entries' shares differ by at most one in each.       *)
(***************************************************************************)
Share(k, len, i) == (k + len - i) \div len

\* One more number: quotient and remainder.
LEMMA NextDivision ==
    ASSUME NEW c \in Nat \ {0}, NEW k \in Nat
    PROVE  IF k % c = c - 1
           THEN (k + 1) % c = 0 /\ (k + 1) \div c = k \div c + 1
           ELSE (k + 1) % c = (k % c) + 1 /\ (k + 1) \div c = k \div c
  OBVIOUS

\* Quotient and remainder are unique.
LEMMA DivisionIs ==
    ASSUME NEW c \in Nat \ {0}, NEW q \in Nat, NEW r \in 0..c - 1,
           NEW x, x = c * q + r
    PROVE  x \div c = q /\ x % c = r
  OBVIOUS

LEMMA SmallDivision ==
    ASSUME NEW c \in Nat \ {0}, NEW k \in 0..c - 1
    PROVE  k % c = k
  OBVIOUS

\* A share is the number of full rounds over the list, and one more for the
\* entries that the round under way has passed.
LEMMA ShareIs ==
    ASSUME NEW k \in Nat, NEW len \in Nat \ {0}, NEW i \in 1..len
    PROVE  Share(k, len, i) = IF i <= k % len THEN k \div len + 1 ELSE k \div len
  <1>. DEFINE a == k \div len
              r == k % len
  <1>1. a \in Nat /\ r \in 0..len - 1 /\ k = len * a + r
    OBVIOUS
  <1>. HIDE DEF a, r
  <1>2. CASE i <= r
    <2>1. r - i \in 0..len - 1
      BY <1>1, <1>2
    <2>4. PICK q \in Nat : q = a + 1
      BY <1>1
    <2>2. k + len - i = len * q + (r - i)
      BY <1>1, <2>4
    <2>3. (k + len - i) \div len = q
      BY <2>1, <2>2, DivisionIs
    <2>. QED
      BY <1>2, <2>3, <2>4 DEF Share, a, r
  <1>3. CASE ~(i <= r)
    <2>1. r + len - i \in 0..len - 1
      BY <1>1, <1>3
    <2>2. k + len - i = len * a + (r + len - i)
      BY <1>1
    <2>3. (k + len - i) \div len = a
      BY <1>1, <2>1, <2>2, DivisionIs
    <2>. QED
      BY <1>3, <2>3 DEF Share, a, r
  <1>. QED
    BY <1>2, <1>3

\* The next pick goes to one entry, and shares differ by at most one.
LEMMA ShareSteps ==
    ASSUME NEW k \in Nat, NEW len \in Nat \ {0}
    PROVE  /\ Index(k, len) + 1 \in 1..len
           /\ \A i \in 1..len :
                /\ Share(k, len, i) \in Nat /\ Share(0, len, i) = 0
                /\ Share(k + 1, len, i) =
                     IF i = Index(k, len) + 1 THEN Share(k, len, i) + 1
                                              ELSE Share(k, len, i)
                /\ \A j \in 1..len : Share(k, len, i) - Share(k, len, j) <= 1
  <1>1. Index(k, len) = k % len /\ k % len \in 0..len - 1 /\ k \div len \in Nat
    BY DEF Index
  <1>2. ASSUME NEW i \in 1..len
        PROVE  /\ Share(k, len, i) \in Nat /\ Share(0, len, i) = 0
               /\ \A j \in 1..len : Share(k, len, i) - Share(k, len, j) <= 1
    <2>1. \A j \in 1..len :
            Share(k, len, j) = IF j <= k % len THEN k \div len + 1 ELSE k \div len
      BY ShareIs
    <2>2. Share(0, len, i) = IF i <= 0 % len THEN 0 \div len + 1 ELSE 0 \div len
      BY ShareIs
    <2>3. 0 % len = 0 /\ 0 \div len = 0
      OBVIOUS
    <2>4. Share(0, len, i) = 0
      BY <2>2, <2>3
    <2>. QED
      BY <1>1, <2>1, <2>4
  <1>3. ASSUME NEW i \in 1..len
        PROVE  Share(k + 1, len, i) =
                 IF i = Index(k, len) + 1 THEN Share(k, len, i) + 1
                                          ELSE Share(k, len, i)
    <2>1. Share(k, len, i) = IF i <= k % len THEN k \div len + 1 ELSE k \div len
      BY ShareIs
    <2>0. k + 1 \in Nat
      OBVIOUS
    <2>3. Share(k + 1, len, i) =
            IF i <= (k + 1) % len THEN (k + 1) \div len + 1 ELSE (k + 1) \div len
      BY <2>0, ShareIs
    <2>2. IF k % len = len - 1
          THEN (k + 1) % len = 0 /\ (k + 1) \div len = k \div len + 1
          ELSE (k + 1) % len = (k % len) + 1 /\ (k + 1) \div len = k \div len
      BY NextDivision
    <2>. QED
      BY <1>1, <2>1, <2>2, <2>3
  <1>. QED
    BY <1>1, <1>2, <1>3

\* The calls since the last reload, in rounds of the counter: up to the first wrap
\* an entry has its share of all of them; later, two entries differ by at most one
\* for each finished round, over their shares of the round under way.
PicksShared ==
    LET len == Len(found_urls)
        before(i) == picks[i] - Share(counter, len, i)
    IN
    /\ counter = n % CounterSize
    /\ n <= CounterSize => \A i \in DOMAIN picks : picks[i] = Share(n, len, i)
    /\ \A i, j \in DOMAIN picks : before(i) - before(j) <= n \div CounterSize

\* A new list has no calls yet.
LEMMA SharedAtFirst ==
    ListOK /\ picks = Zeros(found_urls) /\ counter = 0 /\ n = 0 => PicksShared
  <1>. SUFFICES ASSUME ListOK, picks = Zeros(found_urls), counter = 0, n = 0
                PROVE  PicksShared
    OBVIOUS
  <1>. DEFINE len == Len(found_urls)
  <1>1. CounterSize \in Nat \ {0} /\ 0 \in 0..CounterSize - 1
    BY ResolverAssumption
  <1>2. 0 % CounterSize = 0 /\ 0 \div CounterSize = 0
    BY <1>1
  <1>3. ASSUME NEW i \in DOMAIN picks PROVE picks[i] = 0 /\ Share(0, len, i) = 0
    <2>1. i \in 1..len /\ len \in Nat \ {0} /\ picks[i] = 0
      BY <1>3 DEF ListOK, Zeros
    <2>. QED
      BY <2>1, ShareSteps
  <1>. QED
    BY <1>2, <1>3 DEF PicksShared

\* A call picks the entry whose share of the round grows.
LEMMA SharedByResolve ==
    ASSUME TypeOK, ListOK, PicksShared, Resolve
    PROVE  PicksShared'
  <1>. DEFINE len == Len(found_urls)
              e == Index(counter, len) + 1
  <1>1. CounterSize \in Nat \ {0} /\ counter \in Nat /\ n \in Nat /\ n + 1 \in Nat
    BY ResolverAssumption DEF TypeOK
  <1>2. len \in Nat \ {0} /\ DOMAIN picks = 1..len /\ \A i \in 1..len : picks[i] \in Nat
    BY DEF ListOK, TypeOK, Resolve
  <1>3. /\ counter' = (counter + 1) % CounterSize /\ n' = n + 1
        /\ picks' = [picks EXCEPT ![e] = @ + 1] /\ found_urls' = found_urls
    BY DEF Resolve
  <1>4. /\ counter = n % CounterSize
        /\ n <= CounterSize => \A i \in 1..len : picks[i] = Share(n, len, i)
        /\ \A i, j \in 1..len :
             (picks[i] - Share(counter, len, i)) - (picks[j] - Share(counter, len, j))
                <= n \div CounterSize
    BY <1>2 DEF PicksShared
  <1>5. DOMAIN picks' = 1..len
    BY <1>2, <1>3
  <1>6. \A i \in 1..len : picks'[i] = IF i = e THEN picks[i] + 1 ELSE picks[i]
    <2>. HIDE DEF e
    <2>. QED
      BY <1>2, <1>3
  <1>7. \A i \in 1..len :
          /\ Share(counter, len, i) \in Nat /\ Share(0, len, i) = 0
          /\ Share(counter + 1, len, i) =
               IF i = e THEN Share(counter, len, i) + 1 ELSE Share(counter, len, i)
    <2>1. counter \in Nat /\ len \in Nat \ {0}
      BY <1>1, <1>2
    <2>. HIDE DEF len
    <2>. QED
      BY <2>1, ShareSteps
  <1>. HIDE DEF e
  <1>8. \A i, j \in 1..len : Share(counter + 1, len, i) - Share(counter + 1, len, j) <= 1
    <2>1. counter + 1 \in Nat
      BY <1>1
    <2>. QED
      BY <1>2, <2>1, ShareSteps
  <1>9. IF n % CounterSize = CounterSize - 1
        THEN /\ (n + 1) % CounterSize = 0
             /\ (n + 1) \div CounterSize = n \div CounterSize + 1
        ELSE /\ (n + 1) % CounterSize = (n % CounterSize) + 1
             /\ (n + 1) \div CounterSize = n \div CounterSize
    BY <1>1, NextDivision
  <1>10. n \div CounterSize \in Int
    BY <1>1
  <1>11. counter' = IF counter = CounterSize - 1 THEN 0 ELSE counter + 1
    <2>1. counter = CounterSize - 1 => (counter + 1) % CounterSize = 0
      BY <1>1
    <2>2. counter # CounterSize - 1 => (counter + 1) % CounterSize = counter + 1
      <3>1. counter # CounterSize - 1 => counter + 1 \in 0..CounterSize - 1
        BY <1>1 DEF TypeOK
      <3>. QED
        BY <1>1, <3>1, SmallDivision
    <2>. QED
      BY <1>3, <2>1, <2>2
  <1>12. counter' = n' % CounterSize
    BY <1>3, <1>4, <1>9, <1>11
  <1>13. ASSUME n' <= CounterSize, NEW i \in 1..len PROVE picks'[i] = Share(n', len, i)
    <2>1. n \in 0..CounterSize - 1
      BY <1>1, <1>3, <1>13
    <2>2. counter = n
      BY <1>1, <1>4, <2>1, SmallDivision
    <2>3. n <= CounterSize
      BY <1>1, <2>1
    <2>. QED
      BY <1>3, <1>4, <1>6, <1>7, <2>2, <2>3
  <1>14. ASSUME NEW i \in 1..len, NEW j \in 1..len
         PROVE  (picks'[i] - Share(counter', len, i)) - (picks'[j] - Share(counter', len, j))
                   <= n' \div CounterSize
    <2>1. /\ picks[i] \in Nat /\ picks[j] \in Nat
          /\ Share(counter, len, i) \in Nat /\ Share(counter, len, j) \in Nat
      BY <1>2, <1>7
    <2>2. /\ picks'[i] \in Nat
          /\ Share(counter + 1, len, i) \in Nat
          /\ picks'[i] - Share(counter + 1, len, i) = picks[i] - Share(counter, len, i)
      <3>1. picks'[i] = IF i = e THEN picks[i] + 1 ELSE picks[i]
        BY <1>6
      <3>2. Share(counter + 1, len, i) =
              IF i = e THEN Share(counter, len, i) + 1 ELSE Share(counter, len, i)
        BY <1>7
      <3>. HIDE DEF len
      <3>. QED
        BY <2>1, <3>1, <3>2
    <2>6. /\ picks'[j] \in Nat
          /\ Share(counter + 1, len, j) \in Nat
          /\ picks'[j] - Share(counter + 1, len, j) = picks[j] - Share(counter, len, j)
      <3>1. picks'[j] = IF j = e THEN picks[j] + 1 ELSE picks[j]
        BY <1>6
      <3>2. Share(counter + 1, len, j) =
              IF j = e THEN Share(counter, len, j) + 1 ELSE Share(counter, len, j)
        BY <1>7
      <3>. HIDE DEF len
      <3>. QED
        BY <2>1, <3>1, <3>2
    <2>3. (picks[i] - Share(counter, len, i)) - (picks[j] - Share(counter, len, j))
             <= n \div CounterSize
      BY <1>4
    <2>4. CASE counter = CounterSize - 1
      <3>1. counter' = 0 /\ n' \div CounterSize = n \div CounterSize + 1
        BY <1>3, <1>4, <1>9, <1>11, <2>4
      <3>2. Share(counter', len, i) = 0 /\ Share(counter', len, j) = 0
        BY <1>7, <3>1
      <3>3. Share(counter + 1, len, i) - Share(counter + 1, len, j) <= 1
        BY <1>8
      <3>. HIDE DEF len
      <3>. QED
        BY <1>10, <2>1, <2>2, <2>3, <2>6, <3>1, <3>2, <3>3
    <2>5. CASE counter # CounterSize - 1
      <3>1. counter' = counter + 1 /\ n' \div CounterSize = n \div CounterSize
        BY <1>3, <1>4, <1>9, <1>11, <2>5
      <3>2. (picks'[i] - Share(counter + 1, len, i)) - (picks'[j] - Share(counter + 1, len, j))
               <= n \div CounterSize
        BY <2>2, <2>3, <2>6
      <3>. QED
        BY <3>1, <3>2
    <2>. QED
      BY <2>4, <2>5
  <1>15. Len(found_urls)' = len
    BY <1>3
  <1>. QED
    BY <1>5, <1>12, <1>13, <1>14, <1>15 DEF PicksShared

\* Round robin: until the counter wraps every entry of the list in use got the same
\* number of the calls since the last reload, the first ones one more; each wrap
\* adds at most one to the difference between two entries.
THEOREM EvenShares == Spec => []RoundRobin
  <1>1. /\ TypeOK' => ListOK'
        /\ ListOK' /\ (picks = Zeros(found_urls))' /\ (counter = 0)' /\ (n = 0)'
              => PicksShared'
    BY ListIs, SharedAtFirst, PTL
  <1>2. Init => PicksShared
    <2>. SUFFICES ASSUME Init PROVE PicksShared
      OBVIOUS
    <2>. QED
      BY ListIs, ResolverTypeInit, SharedAtFirst DEF Init
  <1>3. TypeOK /\ TypeOK' /\ PicksShared /\ [Next]_vars => PicksShared'
    <2>. SUFFICES ASSUME TypeOK, TypeOK', PicksShared, [Next]_vars PROVE PicksShared'
      OBVIOUS
    <2>1. CASE Resolve
      BY <2>1, ListIs, SharedByResolve
    <2>2. CASE Apply
      <3>1. /\ found_urls' = looked /\ counter' = 0 /\ n' = 0 /\ picks' = Zeros(looked)
        BY <2>2 DEF Apply
      <3>. QED
        BY <1>1, <3>1
    <2>3. CASE UNCHANGED <<found_urls, counter, picks, n>>
      BY <2>3 DEF PicksShared
    <2>. QED
      BY <2>1, <2>2, <2>3
      DEF Next, Tick, LookupAnswers, LookupFails, LoopStops, DnsChanges, Cancel, vars
  <1>4. TypeOK /\ PicksShared => RoundRobin
    <2>. SUFFICES ASSUME TypeOK, PicksShared PROVE RoundRobin
      OBVIOUS
    <2>. DEFINE len == Len(found_urls)
    <2>1. n <= CounterSize =>
            \A i \in DOMAIN picks : picks[i] = (n + len - i) \div len
      BY DEF PicksShared, Share
    <2>2. ASSUME NEW i \in DOMAIN picks, NEW j \in DOMAIN picks
          PROVE  picks[i] - picks[j] <= 1 + n \div CounterSize
      <3>1. /\ len \in Nat \ {0} /\ i \in 1..len /\ j \in 1..len
            /\ picks[i] \in Nat /\ picks[j] \in Nat
        BY <2>2, ListIs DEF ListOK, TypeOK
      <3>2. counter \in Nat /\ n \div CounterSize \in Int
        BY ResolverAssumption DEF TypeOK
      <3>3. /\ Share(counter, len, i) \in Nat /\ Share(counter, len, j) \in Nat
            /\ Share(counter, len, i) - Share(counter, len, j) <= 1
        BY <3>1, <3>2, ShareSteps
      <3>4. (picks[i] - Share(counter, len, i)) - (picks[j] - Share(counter, len, j))
               <= n \div CounterSize
        BY <2>2 DEF PicksShared
      <3>. HIDE DEF len
      <3>. QED
        BY <3>1, <3>2, <3>3, <3>4
    <2>. QED
      BY <2>1, <2>2 DEF RoundRobin
  <1>. QED
    BY <1>2, <1>3, <1>4, ResolverTypeCorrect, PTL DEF Spec
=============================================================================
