---------------------------- MODULE CheckProofs ----------------------------
(***************************************************************************)
(* Every answer is the client's own, for any clients, texts, dictionaries, *)
(* capacity and times to live.  The order of the cache's list plays no     *)
(* part in it: that the index finds an entry under its own key does.  And  *)
(* the list is the order of use: the cache implements Recency.             *)
(***************************************************************************)
EXTENDS Check, FiniteSetTheorems, SequenceTheorems, WellFoundedInduction, TLAPS

(* Numbers less than each other, as the pairs the theorems on well-founded *)
(* relations speak of.                                                     *)
LEMMA LessThan == \A x, y \in Nat : x < y <=> <<x, y>> \in OpToRel(<, Nat)
  BY DEF OpToRel

(* The least member of a set of numbers, by which the inductions below go. *)
LEMMA LeastMember ==
  ASSUME NEW T \in SUBSET Nat, T # {}
  PROVE  \E m \in T : \A n \in T : m <= n
<1>1. PICK R : R = OpToRel(<, Nat)
  OBVIOUS
<1>2. IsWellFoundedOn(R, Nat)
  BY <1>1, NatLessThanWellFounded
<1>3. PICK m \in T : \A n \in T : <<n, m>> \notin R
  BY <1>2, WFMin
<1>4. \A n \in T : ~(n < m)
  BY <1>1, <1>3, LessThan
<1> QED BY <1>3, <1>4

IsAscending(a, P) ==
    /\ a \in [1..Cardinality(P) -> P]
    /\ \A i, j \in 1..Cardinality(P) : i < j => a[i] < a[j]

LEMMA PartOfInterval ==
  ASSUME NEW n \in Nat, NEW P \in SUBSET (1..n)
  PROVE  IsFiniteSet(P) /\ Cardinality(P) \in Nat /\ Cardinality(P) <= n
<1>1. IsFiniteSet(1..n) /\ Cardinality(1..n) = n
  BY FS_Interval
<1>2. IsFiniteSet(P) /\ Cardinality(P) <= Cardinality(1..n)
  BY <1>1, FS_Subset
<1>3. Cardinality(P) \in Nat
  BY <1>2, FS_CardinalityType
<1> QED BY <1>1, <1>2, <1>3

(* Every set of numbers up to n can be put in ascending order: the least n *)
(* for which one could not is n - 1 again without its greatest member.     *)
LEMMA SomeAscending ==
  ASSUME NEW n \in Nat, NEW P \in SUBSET (1..n)
  PROVE  \E a : IsAscending(a, P)
<1> DEFINE Bad == {m \in Nat : \E Q \in SUBSET (1..m) : \A a : ~IsAscending(a, Q)}
<1>1. ASSUME Bad # {}
      PROVE  FALSE
  <2>1. PICK m \in Bad : \A k \in Bad : m <= k
    BY <1>1, LeastMember
  <2>2. PICK Q \in SUBSET (1..m) : \A a : ~IsAscending(a, Q)
    BY <2>1
  <2>3. m \in Nat /\ IsFiniteSet(Q)
    BY <2>1, PartOfInterval
  <2>4. CASE m = 0
    <3>1. Q = {} /\ Cardinality(Q) = 0
      <4>1. Q = {}
        BY <2>4
      <4> QED BY <4>1, FS_EmptySet, Zenon
    <3>2. PICK a : a = [i \in 1..Cardinality(Q) |-> i]
      OBVIOUS
    <3>3. IsAscending(a, Q)
      BY <3>1, <3>2 DEF IsAscending
    <3> QED BY <2>2, <3>3
  <2>5. CASE m # 0
    <3>1. m - 1 \in Nat /\ m - 1 \notin Bad
      <4>1. m - 1 \in Nat /\ ~(m <= m - 1)
        BY <2>3, <2>5
      <4> HIDE DEF Bad
      <4> QED BY <2>1, <4>1
    <3>2. PICK R : R = Q \ {m}
      OBVIOUS
    <3>3. R \in SUBSET (1..(m - 1))
      BY <2>2, <2>3, <3>2
    <3>4. PICK b : IsAscending(b, R)
      BY <3>1, <3>3
    <3>5. CASE m \notin Q
      BY <2>2, <3>2, <3>4, <3>5
    <3>6. CASE m \in Q
      <4>1. Cardinality(R) \in Nat /\ Cardinality(Q) = Cardinality(R) + 1
        <5>1. Cardinality(R) \in Nat /\ IsFiniteSet(R)
          BY <3>1, <3>3, PartOfInterval
        <5>2. m \notin R /\ R \cup {m} = Q
          BY <3>2, <3>6
        <5>3. Cardinality(R \cup {m}) = Cardinality(R) + 1
          BY <5>1, <5>2, FS_AddElement
        <5> QED BY <5>1, <5>2, <5>3
      <4>2. PICK c \in Nat : c = Cardinality(R)
        BY <4>1
      <4>3. PICK a : a = [i \in 1..(c + 1) |-> IF i = c + 1 THEN m ELSE b[i]]
        OBVIOUS
      <4>4. /\ b \in [1..c -> R]
            /\ \A i, j \in 1..c : i < j => b[i] < b[j]
        BY <3>4, <4>2 DEF IsAscending
      <4>5. \A i \in 1..(c + 1) : i # c + 1 => i \in 1..c
        BY <4>2
      <4>6. a \in [1..(c + 1) -> Q]
        BY <3>2, <3>6, <4>3, <4>4, <4>5
      <4>7. ASSUME NEW i \in 1..(c + 1), NEW j \in 1..(c + 1), i < j
            PROVE  a[i] < a[j]
        <5>1. i \in 1..c /\ a[i] = b[i] /\ b[i] \in R
          BY <4>2, <4>3, <4>4, <4>7
        <5>2. b[i] \in 1..(m - 1) /\ b[i] < m
          <6>1. b[i] \in 1..(m - 1)
            BY <3>3, <5>1
          <6> QED BY <2>3, <6>1
        <5>3. CASE j = c + 1
          BY <4>3, <5>1, <5>2, <5>3
        <5>4. CASE j # c + 1
          BY <4>3, <4>4, <4>5, <4>7, <5>1, <5>4
        <5> QED BY <5>3, <5>4
      <4>8. IsAscending(a, Q)
        BY <4>1, <4>2, <4>6, <4>7 DEF IsAscending
      <4> QED BY <2>2, <4>8
    <3> QED BY <3>5, <3>6
  <2> QED BY <2>4, <2>5
<1> QED BY <1>1

(* So Ascending lists each member of the set once, the less the earlier.   *)
LEMMA AscendingWorks ==
  ASSUME NEW n \in Nat, NEW P \in SUBSET (1..n)
  PROVE  /\ Cardinality(P) \in Nat
         /\ Cardinality(P) <= n
         /\ Ascending(P) \in [1..Cardinality(P) -> P]
         /\ \A i, j \in 1..Cardinality(P) : i < j => Ascending(P)[i] < Ascending(P)[j]
         /\ \A i, j \in 1..Cardinality(P) : Ascending(P)[i] = Ascending(P)[j] => i = j
         /\ \A p \in P : \E i \in 1..Cardinality(P) : Ascending(P)[i] = p
<1>1. IsFiniteSet(P) /\ Cardinality(P) \in Nat /\ Cardinality(P) <= n
  BY PartOfInterval
<1>2. PICK a : a = Ascending(P)
  OBVIOUS
<1>3. IsAscending(a, P)
  BY <1>2, SomeAscending DEF Ascending, IsAscending
<1>4. PICK c \in Nat : c = Cardinality(P)
  BY <1>1
<1>5. a \in [1..c -> P] /\ \A i, j \in 1..c : i < j => a[i] < a[j]
  BY <1>3, <1>4 DEF IsAscending
<1>6. ASSUME NEW i \in 1..c, NEW j \in 1..c, a[i] = a[j]
      PROVE  i = j
  <2>1. a[i] \in 1..n /\ a[j] \in 1..n
    BY <1>5
  <2>2. ~(i < j) /\ ~(j < i)
    BY <1>5, <1>6, <2>1
  <2>3. i \in Int /\ j \in Int
    BY <1>4
  <2> QED BY <2>2, <2>3
<1>7. a \in Injection(1..c, P)
  BY <1>5, <1>6 DEF Injection, IsInjective
<1>8. Cardinality(1..c) = c
  BY <1>4, FS_Interval
<1>9. a \in Surjection(1..c, P)
  BY <1>1, <1>4, <1>7, <1>8, FS_Injection
<1>10. \A p \in P : \E i \in 1..c : a[i] = p
  BY <1>9 DEF Surjection
<1> QED BY <1>1, <1>2, <1>4, <1>5, <1>6, <1>10

(* All the numbers up to n in ascending order: each is where it belongs,   *)
(* neither the first out of place nor the last can be.                     *)
LEMMA AscendingAll ==
  ASSUME NEW n \in Nat
  PROVE  Cardinality(1..n) = n /\ Ascending(1..n) = [i \in 1..n |-> i]
<1>1. Cardinality(1..n) = n
  BY FS_Interval
<1>2. PICK a : a = Ascending(1..n)
  OBVIOUS
<1>3. /\ a \in [1..n -> 1..n]
      /\ \A i, j \in 1..n : i < j => a[i] < a[j]
  BY <1>1, <1>2, AscendingWorks
<1>4. \A i \in 1..n : a[i] >= i
  <2> DEFINE Bad == {i \in Nat : i \in 1..n /\ a[i] < i}
  <2>1. ASSUME Bad # {} PROVE FALSE
    <3>1. PICK i \in Bad : \A k \in Bad : i <= k
      BY <2>1, LeastMember
    <3>2. i \in 1..n /\ a[i] < i /\ a[i] \in 1..n
      BY <1>3, <3>1
    <3>3. i # 1
      BY <3>2
    <3>4. i - 1 \in 1..n /\ i - 1 < i
      BY <3>2, <3>3
    <3>5. a[i - 1] < a[i] /\ a[i - 1] \in 1..n
      BY <1>3, <3>2, <3>4
    <3>6. a[i - 1] < i - 1
      BY <3>2, <3>4, <3>5
    <3>7. i - 1 \in Bad
      BY <3>4, <3>6
    <3> QED BY <3>1, <3>4, <3>7
  <2> QED BY <1>3, <2>1
<1>5. \A i \in 1..n : a[i] <= i
  <2> DEFINE Bad == {k \in Nat : k \in 0..(n - 1) /\ a[n - k] > n - k}
  <2>1. ASSUME Bad # {} PROVE FALSE
    <3>1. PICK k \in Bad : \A l \in Bad : k <= l
      BY <2>1, LeastMember
    <3>2. k \in 0..(n - 1) /\ n - k \in 1..n /\ a[n - k] > n - k /\ a[n - k] \in 1..n
      BY <1>3, <3>1
    <3>3. k # 0
      BY <3>2
    <3>4. k - 1 \in 0..(n - 1) /\ n - (k - 1) \in 1..n /\ n - k < n - (k - 1) /\ n - (k - 1) = (n - k) + 1
      BY <3>2, <3>3
    <3>5. a[n - k] < a[n - (k - 1)] /\ a[n - (k - 1)] \in 1..n
      BY <1>3, <3>2, <3>4
    <3>6. a[n - (k - 1)] > n - (k - 1)
      BY <3>2, <3>4, <3>5
    <3>7. k - 1 \in Bad
      BY <3>4, <3>6
    <3> QED BY <3>1, <3>4, <3>7
  <2>2. ASSUME NEW i \in 1..n PROVE a[i] <= i
    <3>1. n - i \in 0..(n - 1) /\ n - (n - i) = i /\ a[i] \in 1..n
      BY <1>3
    <3>2. n - i \notin Bad
      BY <2>1
    <3> QED BY <3>1, <3>2
  <2> QED BY <2>2
<1>6. \A i \in 1..n : a[i] = i
  BY <1>3, <1>4, <1>5
<1>7. a = [i \in 1..n |-> a[i]]
  BY <1>3
<1> QED BY <1>1, <1>2, <1>6, <1>7

(* What is selected: the members at the positions, each as often.          *)
LEMMA SelectWorks ==
  ASSUME NEW S, NEW s \in Seq(S), NEW P \in SUBSET (1..Len(s))
  PROVE  /\ Select(s, P) \in Seq(S)
         /\ Len(Select(s, P)) = Cardinality(P) /\ Cardinality(P) \in Nat
         /\ \A i \in 1..Cardinality(P) : Ascending(P)[i] \in P /\ Select(s, P)[i] = s[Ascending(P)[i]]
         /\ ToSet(Select(s, P)) = {s[p] : p \in P}
         /\ IsInjective(s) => IsInjective(Select(s, P))
<1>1. PICK n, a, c, r :
        n = Len(s) /\ a = Ascending(P) /\ c = Cardinality(P) /\ r = Select(s, P)
  OBVIOUS
<1>2. n \in Nat /\ P \in SUBSET (1..n) /\ \A p \in 1..n : s[p] \in S
  BY <1>1
<1>3. /\ c \in Nat /\ a \in [1..c -> P]
      /\ \A i, j \in 1..c : a[i] = a[j] => i = j
      /\ \A p \in P : \E i \in 1..c : a[i] = p
  BY <1>1, <1>2, AscendingWorks
<1>4. r = [i \in 1..c |-> s[a[i]]]
  BY <1>1 DEF Select
<1>5. \A i \in 1..c : a[i] \in P /\ s[a[i]] \in S
  BY <1>2, <1>3
<1>6. r \in Seq(S) /\ Len(r) = c /\ DOMAIN r = 1..c
  BY <1>3, <1>4, <1>5
<1>7. ToSet(r) = {s[p] : p \in P}
  <2>1. ToSet(r) = {r[i] : i \in 1..c}
    BY <1>6 DEF ToSet
  <2>2. \A i \in 1..c : r[i] = s[a[i]]
    BY <1>4
  <2>3. ASSUME NEW p \in P PROVE s[p] \in ToSet(r)
    <3>1. PICK i \in 1..c : a[i] = p
      BY <1>3
    <3> QED BY <2>1, <2>2, <3>1
  <2>4. ASSUME NEW i \in 1..c PROVE r[i] \in {s[p] : p \in P}
    BY <1>5, <2>2
  <2> QED BY <2>1, <2>3, <2>4
<1>8. ASSUME IsInjective(s) PROVE IsInjective(r)
  <2>1. \A p, q \in 1..n : s[p] = s[q] => p = q
    BY <1>1, <1>8 DEF IsInjective
  <2>2. ASSUME NEW i \in 1..c, NEW j \in 1..c, r[i] = r[j] PROVE i = j
    <3>1. s[a[i]] = s[a[j]] /\ a[i] \in 1..n /\ a[j] \in 1..n
      BY <1>2, <1>4, <1>5, <2>2
    <3>2. a[i] = a[j]
      BY <2>1, <3>1
    <3> QED BY <1>3, <3>2
  <2> QED BY <1>6, <2>2 DEF IsInjective
<1> QED BY <1>1, <1>3, <1>4, <1>5, <1>6, <1>7, <1>8

LEMMA SelectFewer ==
  ASSUME NEW S, NEW s \in Seq(S), NEW P \in SUBSET (1..Len(s))
  PROVE  /\ Len(Select(s, P)) <= Len(s)
         /\ P # 1..Len(s) => Len(Select(s, P)) <= Len(s) - 1
<1>1. PICK n \in Nat : n = Len(s)
  OBVIOUS
<1>2. IsFiniteSet(1..n) /\ Cardinality(1..n) = n
  BY FS_Interval
<1>3. /\ Cardinality(P) <= Cardinality(1..n)
      /\ Cardinality(1..n) = Cardinality(P) => 1..n = P
  BY <1>1, <1>2, FS_Subset
<1>4. Cardinality(P) \in Nat /\ Len(Select(s, P)) = Cardinality(P)
  BY SelectWorks
<1> QED BY <1>1, <1>2, <1>3, <1>4

(* To select the first n is to cut off the rest.                           *)
LEMMA SelectFirst ==
  ASSUME NEW S, NEW s \in Seq(S), NEW n \in 0..Len(s)
  PROVE  /\ Len(Select(s, 1..n)) = n
         /\ Select(s, 1..n) = [i \in 1..n |-> s[i]]
         /\ n = Len(s) => Select(s, 1..n) = s
<1>1. n \in Nat
  OBVIOUS
<1>2. Cardinality(1..n) = n /\ Ascending(1..n) = [i \in 1..n |-> i]
  BY <1>1, AscendingAll
<1>3. Select(s, 1..n) = [i \in 1..n |-> s[i]]
  BY <1>2 DEF Select
<1>4. n = Len(s) => s = [i \in 1..n |-> s[i]]
  OBVIOUS
<1> QED BY <1>1, <1>3, <1>4

(* A sequence with x put in front.                                         *)
LEMMA Pushed ==
  ASSUME NEW S, NEW x \in S, NEW s \in Seq(S)
  PROVE  /\ <<x>> \o s \in Seq(S)
         /\ Len(<<x>> \o s) = Len(s) + 1
         /\ (<<x>> \o s)[1] = x
         /\ \A i \in 1..Len(s) : (<<x>> \o s)[i + 1] = s[i]
         /\ ToSet(<<x>> \o s) = ToSet(s) \cup {x}
         /\ IsInjective(s) /\ x \notin ToSet(s) => IsInjective(<<x>> \o s)
<1>1. PICK r : r = <<x>> \o s
  OBVIOUS
<1>2. PICK n \in Nat : n = Len(s) /\ DOMAIN s = 1..n
  OBVIOUS
<1>3. r \in Seq(S) /\ Len(r) = n + 1 /\ DOMAIN r = 1..(n + 1)
  BY <1>1, <1>2
<1>4. r[1] = x /\ \A i \in 1..n : r[i + 1] = s[i]
  BY <1>1, <1>2
<1>5. \A j \in 1..(n + 1) : j = 1 \/ (j - 1 \in 1..n /\ (j - 1) + 1 = j)
  BY <1>2
<1>6. \A i \in 1..n : i + 1 \in 1..(n + 1)
  BY <1>2
<1>7. ToSet(r) = ToSet(s) \cup {x}
  <2>1. ASSUME NEW y \in ToSet(r) PROVE y \in ToSet(s) \cup {x}
    <3>1. PICK j \in 1..(n + 1) : y = r[j]
      BY <1>3 DEF ToSet
    <3>2. CASE j = 1
      BY <1>4, <3>1, <3>2
    <3>3. CASE j # 1
      <4>1. PICK i \in 1..n : i + 1 = j
        BY <1>5, <3>3
      <4> QED BY <1>2, <1>4, <3>1, <4>1 DEF ToSet
    <3> QED BY <3>2, <3>3
  <2>2. ASSUME NEW y \in ToSet(s) PROVE y \in ToSet(r)
    <3>1. PICK i \in 1..n : y = s[i]
      BY <1>2 DEF ToSet
    <3> QED BY <1>3, <1>4, <1>6, <3>1 DEF ToSet
  <2>3. x \in ToSet(r)
    <3>1. 1 \in 1..(n + 1)
      BY <1>2
    <3> QED BY <1>3, <1>4, <3>1 DEF ToSet
  <2> QED BY <2>1, <2>2, <2>3
<1>8. ASSUME IsInjective(s), x \notin ToSet(s) PROVE IsInjective(r)
  <2>1. ASSUME NEW i \in 1..(n + 1), NEW j \in 1..(n + 1), r[i] = r[j] PROVE i = j
    <3>1. \A k \in 1..n : s[k] # x
      BY <1>2, <1>8 DEF ToSet
    <3>2. CASE i = 1
      BY <1>4, <1>5, <2>1, <3>1, <3>2
    <3>3. CASE j = 1
      BY <1>4, <1>5, <2>1, <3>1, <3>3
    <3>4. CASE i # 1 /\ j # 1
      <4>1. PICK k, l : k = i - 1 /\ l = j - 1
        OBVIOUS
      <4>2. k \in 1..n /\ l \in 1..n /\ i = k + 1 /\ j = l + 1
        BY <1>2, <1>5, <3>4, <4>1
      <4>3. s[k] = s[l]
        BY <1>4, <2>1, <4>2
      <4>4. k = l
        BY <1>2, <1>8, <4>2, <4>3 DEF IsInjective
      <4> QED BY <4>2, <4>4
    <3> QED BY <3>2, <3>3, <3>4
  <2> QED BY <1>3, <2>1 DEF IsInjective
<1> QED BY <1>1, <1>2, <1>3, <1>4, <1>7, <1>8

-----------------------------------------------------------------------------
USE LRUAssumption, CheckAssumption, ValuesAssumption
    DEF LRUAssumption, CheckAssumption, ValuesAssumption

(* What is cached under a key is LanguageTool's answer to its text.        *)
CachedRight ==
    /\ \A k \in DOMAIN index : entry[index[k]].key = k
    /\ \A el \in DOMAIN entry : entry[el].value = Raw(entry[el].key[2])

CacheInv == CacheTypeOK /\ CachedRight

TiersInv ==
    /\ \A k \in Keys : redis[k] \in {Nothing, Raw(k[2])}
    /\ \A r \in Requests : fill[r].pc # "none" =>
         fill[r].key \in Keys /\ fill[r].value = Raw(fill[r].key[2])

(* The words a request filters by against those of its history.            *)
Bounded(r) ==
    /\ request[r].own \subseteq ever[r]
    /\ ~request[r].blind => always[r] \subseteq request[r].own

RequestInv(r) ==
    /\ request[r].pc # "idle" =>
         /\ request[r].key \in Keys
         /\ always[r] \subseteq OwnWords(request[r].client)
         /\ OwnWords(request[r].client) \subseteq ever[r]
    /\ request[r].pc \in {"backfill", "ttl"} => request[r].found = Raw(Text(r))
    /\ request[r].pc = "words" => request[r].found \in {Nothing, Raw(Text(r))}
    /\ request[r].pc = "ask" /\ Via(r) # "http" => Bounded(r)
    /\ request[r].pc = "done" =>
         /\ Bounded(r)
         /\ request[r].found = FilterMatches(Text(r), Raw(Text(r)), request[r].own)

IInv ==
    /\ TypeOK
    /\ CachedRight
    /\ TiersInv
    /\ \A r \in Requests : RequestInv(r)

-----------------------------------------------------------------------------
(* Evicting keeps what is left under its keys.                             *)
LEMMA EvictKeeps ==
  ASSUME CacheInv, NEW out, Evict(out), now' = now
  PROVE  CacheInv'
<1>1. \A k \in DOMAIN index' : k \in DOMAIN index /\ index'[k] = index[k] /\ index[k] \notin out
  BY DEF Evict, IndexWithout, Restrict, CacheInv, CachedRight
<1>2. /\ DOMAIN entry' = DOMAIN entry \ out
      /\ \A el \in DOMAIN entry' : entry'[el] = entry[el]
  BY DEF Evict, EntryWithout, Restrict
<1>3. DOMAIN index' \subseteq Keys /\ DOMAIN entry' \subseteq Elements
  BY <1>1, <1>2 DEF CacheInv, CacheTypeOK
<1>4. entry' \in [DOMAIN entry' -> Entries]
  BY <1>2 DEF Evict, EntryWithout, Restrict, CacheInv, CacheTypeOK
<1>5. index' \in [DOMAIN index' -> DOMAIN entry']
  <2>1. \A k \in DOMAIN index' : index'[k] \in DOMAIN entry'
    BY <1>1, <1>2 DEF CacheInv, CacheTypeOK
  <2> QED BY <2>1 DEF Evict, IndexWithout, Restrict
<1>6. CachedRight'
  BY <1>1, <1>2, <1>5 DEF CacheInv, CachedRight
<1> QED BY <1>3, <1>4, <1>5, <1>6 DEF CacheInv, CacheTypeOK

LEMMA GetKeeps ==
  ASSUME CacheInv, NEW k \in Keys, Get(k), now' = now
  PROVE  CacheInv'
<1>1. CASE UNCHANGED <<index, entry>>
  BY <1>1 DEF CacheInv, CacheTypeOK, CachedRight
<1>2. CASE Evict({index[k]})
  BY <1>2, EvictKeeps
<1> QED BY <1>1, <1>2 DEF Get, cacheVars

LEMMA TTLKeeps ==
  ASSUME CacheInv, NEW k \in Keys, TTL(k), now' = now
  PROVE  CacheInv'
<1>1. CASE UNCHANGED <<index, entry>>
  BY <1>1 DEF CacheInv, CacheTypeOK, CachedRight
<1>2. CASE Evict({index[k]})
  BY <1>2, EvictKeeps
<1> QED BY <1>1, <1>2 DEF TTL, cacheVars

(* A write of the answer to the key's text, in either branch.              *)
LEMMA SetKeeps ==
  ASSUME CacheInv, NEW k \in Keys, NEW ttl \in Int, Set(k, Raw(k[2]), ttl), now' = now
  PROVE  CacheInv'
<1> DEFINE new == [key |-> k, value |-> Raw(k[2]), expiresAt |-> now + Effective(ttl)]
           back == IF Len(list) >= Capacity THEN {Last(list)} ELSE {}
<1>1. new \in Entries
  <2>1. now + Effective(ttl) \in Nat
    BY DEF Effective, CacheInv, CacheTypeOK
  <2>2. Raw(k[2]) \in Values
    OBVIOUS
  <2> QED BY <2>1, <2>2 DEF Entries
<1>2. new.key = k /\ new.value = Raw(new.key[2])
  OBVIOUS
<1>3. CASE /\ Found(k)
           /\ entry' = [entry EXCEPT ![index[k]] = new]
           /\ UNCHANGED index
  <2>1. index[k] \in DOMAIN entry /\ entry[index[k]].key = k
    BY <1>3 DEF Found, CacheInv, CacheTypeOK, CachedRight
  <2> HIDE DEF new
  <2>2. CacheTypeOK'
    BY <1>1, <1>3, <2>1 DEF CacheInv, CacheTypeOK
  <2>3. \A j \in DOMAIN index : entry'[index[j]].key = j
    BY <1>2, <1>3, <2>1 DEF CacheInv, CacheTypeOK, CachedRight
  <2>4. \A el \in DOMAIN entry : entry'[el].value = Raw(entry'[el].key[2])
    BY <1>2, <1>3, <2>1 DEF CacheInv, CachedRight
  <2> QED BY <1>3, <2>2, <2>3, <2>4 DEF CacheInv, CachedRight
<1>4. ASSUME ~Found(k), NEW el \in Elements \ DOMAIN entry,
             index' = [x \in DOMAIN IndexWithout(back) \cup {k} |->
                          IF x = k THEN el ELSE index[x]],
             entry' = [x \in DOMAIN EntryWithout(back) \cup {el} |->
                          IF x = el THEN new ELSE entry[x]]
      PROVE  CacheInv'
  <2> HIDE DEF new, back
  <2>1. /\ DOMAIN entry' = (DOMAIN entry \ back) \cup {el}
        /\ entry'[el] = new
        /\ \A x \in DOMAIN entry \ back : entry'[x] = entry[x]
    BY <1>4 DEF EntryWithout, Restrict
  <2>2. /\ DOMAIN index' \subseteq DOMAIN index \cup {k}
        /\ index'[k] = el
        /\ \A x \in DOMAIN index' \ {k} : x \in DOMAIN index /\ index'[x] = index[x] /\ index[x] \in DOMAIN entry \ back
    BY <1>4 DEF IndexWithout, Restrict, CacheInv, CacheTypeOK, CachedRight
  <2>3. \A x \in DOMAIN entry' : entry'[x] \in Entries
    BY <1>1, <2>1 DEF CacheInv, CacheTypeOK
  <2>4. entry' \in [DOMAIN entry' -> Entries]
    BY <1>4, <2>3
  <2>5. \A x \in DOMAIN index' : index'[x] \in DOMAIN entry'
    BY <2>1, <2>2
  <2>6. index' \in [DOMAIN index' -> DOMAIN entry']
    BY <1>4, <2>5
  <2>7. CacheTypeOK'
    BY <2>1, <2>2, <2>4, <2>6 DEF CacheInv, CacheTypeOK
  <2>8. CachedRight'
    BY <1>2, <2>1, <2>2 DEF CacheInv, CachedRight
  <2> QED BY <2>7, <2>8 DEF CacheInv
<1> QED
  BY <1>3, <1>4 DEF Set

LEMMA CacheStutters ==
  ASSUME CacheInv, UNCHANGED <<cacheVars, now>>
  PROVE  CacheInv'
  BY DEF CacheInv, CacheTypeOK, CachedRight, cacheVars

-----------------------------------------------------------------------------
(* In a plain text the filter looks up the words LanguageTool flagged.     *)
LEMMA PlainSlices ==
  ASSUME NEW k \in Keys, Plain(k[2]), NEW s \in Spans[k[2]], NEW ws
  PROVE  SpanMatch(k[2], s) \in FilterMatches(k[2], Raw(k[2]), ws)
            <=> SpanWord(k[2], s) \notin ws
<1> DEFINE t == k[2]
           m == SpanMatch(t, s)
<1>1. t \in Texts /\ t \in Seq(DOMAIN Lower)
  OBVIOUS
<1>2. s[1] \in 1..Len(t) /\ s[2] \in Nat \ {0} /\ s[1] + s[2] - 1 \in 1..Len(t)
  BY <1>1
<1>3. Len(t) \in Nat /\ s[1] \in Nat /\ s[2] \in Nat
  BY <1>1, <1>2
<1>4. ASSUME NEW i \in Nat, i - 1 <= Len(t), i > 0
      PROVE  Units(t, i) = i - 1
  <2>1. {j \in 1..(i - 1) : t[j] \in Astral} = {}
    BY <1>3, <1>4 DEF Plain
  <2>2. Cardinality({j \in 1..(i - 1) : t[j] \in Astral}) = 0
    BY <2>1, FS_EmptySet, Zenon
  <2>3. Units(t, i) = (i - 1) + Cardinality({j \in 1..(i - 1) : t[j] \in Astral})
    BY Zenon DEF Units
  <2> QED BY <2>2, <2>3
<1>5. Units(t, s[1]) = s[1] - 1 /\ Units(t, s[1] + s[2]) = s[1] + s[2] - 1
  BY <1>2, <1>3, <1>4
<1>6. m.offset = s[1] - 1 /\ m.length = s[2]
  <2>1. m.offset = Units(t, s[1]) /\ m.length = Units(t, s[1] + s[2]) - Units(t, s[1])
    BY DEF SpanMatch
  <2> HIDE DEF t, m
  <2> QED BY <1>3, <1>5, <2>1
<1>7. ~Outside(t, m)
  BY <1>2, <1>3, <1>6 DEF Outside
<1>8. Slice(t, m.offset, m.length) = SpanWord(t, s)
  <2>1. \A i \in 1..s[2] : (s[1] - 1) + i = s[1] + i - 1
    BY <1>3
  <2> QED BY <1>6, <2>1 DEF Slice, SpanWord
<1>9. m \in Raw(t)
  BY DEF Raw
<1> QED BY <1>7, <1>8, <1>9 DEF FilterMatches

LEMMA InvariantMeans == IInv => AnswersOwn
<1> SUFFICES ASSUME IInv, NEW r \in Requests, request[r].pc = "done"
             PROVE  /\ request[r].found \subseteq Raw(Text(r))
                    /\ Plain(Text(r)) => \A s \in Spans[Text(r)] :
                         /\ SpanWord(Text(r), s) \in always[r] /\ ~request[r].blind =>
                                SpanMatch(Text(r), s) \notin request[r].found
                         /\ SpanWord(Text(r), s) \notin ever[r] =>
                                SpanMatch(Text(r), s) \in request[r].found
  BY DEF AnswersOwn
<1>1. /\ request[r].key \in Keys
      /\ Bounded(r)
      /\ request[r].found = FilterMatches(Text(r), Raw(Text(r)), request[r].own)
  BY DEF IInv, RequestInv
<1>2. request[r].found \subseteq Raw(Text(r))
  BY <1>1 DEF FilterMatches
<1>3. ASSUME Plain(Text(r)), NEW s \in Spans[Text(r)]
      PROVE  SpanMatch(Text(r), s) \in request[r].found
                <=> SpanWord(Text(r), s) \notin request[r].own
  <2>1. PICK k, own : k \in Keys /\ k = request[r].key /\ own = request[r].own
    BY <1>1
  <2>2. Text(r) = k[2]
    BY <2>1 DEF Text
  <2>3. SpanMatch(k[2], s) \in FilterMatches(k[2], Raw(k[2]), own)
            <=> SpanWord(k[2], s) \notin own
    BY <1>3, <2>1, <2>2, PlainSlices
  <2> QED BY <1>1, <2>1, <2>2, <2>3
<1> QED BY <1>1, <1>2, <1>3 DEF Bounded

-----------------------------------------------------------------------------
LEMMA Initially == Init => IInv
<1> SUFFICES ASSUME Init PROVE IInv
  OBVIOUS
<1>1. CacheTypeOK /\ CachedRight
  BY DEF Init, CacheInit, NoMap, CacheTypeOK, CachedRight
<1>2. Idle \in RequestState /\ NoFill \in FillState
  BY DEF Idle, NoFill, RequestState, FillState
<1>3. TypeOK
  BY <1>1, <1>2 DEF Init, TypeOK
<1> QED BY <1>1, <1>3 DEF Init, IInv, TiersInv, RequestInv, Idle, NoFill

(* A request that moves alone.                                             *)
LEMMA OneMoves ==
  ASSUME IInv, NEW r \in Requests, NEW q \in RequestState,
         request' = [request EXCEPT ![r] = q], words' = words,
         \A p \in Requests \ {r} : always'[p] = always[p] /\ ever'[p] = ever[p],
         RequestInv(r)'
  PROVE  /\ request' \in [Requests -> RequestState]
         /\ \A p \in Requests : RequestInv(p)'
<1>1. request' \in [Requests -> RequestState]
  BY DEF IInv, TypeOK
<1>2. ASSUME NEW p \in Requests \ {r} PROVE RequestInv(p)'
  <2>1. request'[p] = request[p] /\ always'[p] = always[p] /\ ever'[p] = ever[p]
    BY DEF IInv, TypeOK
  <2> QED BY <2>1 DEF IInv, RequestInv, Bounded, Text, Via, OwnWords
<1> QED BY <1>1, <1>2

LEMMA Types ==
  /\ \A k \in Keys : k[2] \in Texts /\ Raw(k[2]) \in SUBSET Matches
  /\ \A t, ms, ws : FilterMatches(t, ms, ws) \subseteq ms
  BY DEF Matches, FilterMatches

(* The new record of a request that moves on with other matches.           *)
LEMMA BecomesRecord ==
  ASSUME IInv, NEW r \in Requests, NEW pc \in {"l1", "l2", "backfill", "ttl", "words", "ask", "done"},
         NEW found \in (SUBSET Matches) \cup {Nothing}, Becomes(r, pc, found)
  PROVE  \E q \in RequestState :
           /\ request' = [request EXCEPT ![r] = q]
           /\ request'[r] = q
           /\ q.pc = pc /\ q.found = found
           /\ q.key = request[r].key /\ q.client = request[r].client
           /\ q.own = request[r].own /\ q.blind = request[r].blind
<1> DEFINE q == [request[r] EXCEPT !.pc = pc, !.found = found]
<1>1. request[r] \in RequestState /\ request \in [Requests -> RequestState]
  BY DEF IInv, TypeOK
<1>2. q \in RequestState /\ q.pc = pc /\ q.found = found
      /\ q.key = request[r].key /\ q.client = request[r].client
      /\ q.own = request[r].own /\ q.blind = request[r].blind
  BY <1>1 DEF RequestState
<1>3. request' = [request EXCEPT ![r] = q]
  BY DEF Becomes
<1> HIDE DEF q
<1>4. request'[r] = q
  BY <1>1, <1>3
<1> QED BY <1>2, <1>3, <1>4

(* A request that moves on with what it knows, none of the words changed.  *)
LEMMA BecomesKeeps ==
  ASSUME IInv, NEW r \in Requests, request[r].pc # "idle",
         NEW pc \in {"l1", "l2", "backfill", "ttl", "words", "ask", "done"},
         NEW found \in (SUBSET Matches) \cup {Nothing}, Becomes(r, pc, found),
         UNCHANGED dictVars,
         pc \in {"backfill", "ttl"} => found = Raw(Text(r)),
         pc = "words" => found \in {Nothing, Raw(Text(r))},
         pc = "ask" => Via(r) = "http",
         pc = "done" => Bounded(r) /\ found = FilterMatches(Text(r), Raw(Text(r)), request[r].own)
  PROVE  /\ request' \in [Requests -> RequestState]
         /\ \A p \in Requests : RequestInv(p)'
<1>1. PICK q \in RequestState :
        /\ request' = [request EXCEPT ![r] = q]
        /\ request'[r] = q
        /\ q.pc = pc /\ q.found = found
        /\ q.key = request[r].key /\ q.client = request[r].client
        /\ q.own = request[r].own /\ q.blind = request[r].blind
  BY BecomesRecord
<1>2. words' = words /\ always' = always /\ ever' = ever
  BY DEF dictVars
<1>3. RequestInv(r)
  BY DEF IInv
<1>4. RequestInv(r)'
  BY <1>1, <1>2, <1>3 DEF RequestInv, Bounded, Text, Via, OwnWords
<1> QED BY <1>1, <1>2, <1>4, OneMoves

LEMMA ReturnsKeeps ==
  ASSUME IInv, NEW r \in Requests, Returns(r)
  PROVE  /\ request' \in [Requests -> RequestState]
         /\ \A p \in Requests : RequestInv(p)'
         /\ always' \in [Requests -> SUBSET Words] /\ ever' \in [Requests -> SUBSET Words]
<1>1. Idle \in RequestState
  BY DEF Idle, RequestState
<1>2. /\ \A p \in Requests \ {r} : always'[p] = always[p] /\ ever'[p] = ever[p]
      /\ always' \in [Requests -> SUBSET Words] /\ ever' \in [Requests -> SUBSET Words]
  BY DEF Returns, IInv, TypeOK
<1>3. RequestInv(r)'
  BY DEF Returns, RequestInv, Idle, IInv, TypeOK
<1> QED BY <1>1, <1>2, <1>3, OneMoves DEF Returns

(* The parts a step of a request leaves alone.                             *)
LEMMA Assembled ==
  ASSUME IInv, CacheInv', TiersInv',
         request' \in [Requests -> RequestState], fill' \in [Requests -> FillState],
         redis' \in [Keys -> (SUBSET Matches) \cup {Nothing}],
         words' \in [Clients -> SUBSET Words],
         always' \in [Requests -> SUBSET Words], ever' \in [Requests -> SUBSET Words],
         \A p \in Requests : RequestInv(p)'
  PROVE  IInv'
  BY DEF IInv, TypeOK, CacheInv

-----------------------------------------------------------------------------
LEMMA ArriveKeeps ==
  ASSUME IInv, NEW r \in Requests, NEW k \in Keys,
         NEW c \in Clients \cup {Anonymous, Malformed}, Arrive(r, k, c)
  PROVE  IInv'
<1>1. PICK q : q = [Idle EXCEPT !.pc = "l1", !.key = k, !.client = c]
  OBVIOUS
<1>2. q \in RequestState /\ q.pc = "l1" /\ q.key = k /\ q.client = c
  BY <1>1 DEF Idle, RequestState
<1>3. request' = [request EXCEPT ![r] = q] /\ request'[r] = q
  BY <1>1 DEF Arrive, IInv, TypeOK
<1>4. OwnWords(c) \in SUBSET Words
  BY DEF OwnWords, IInv, TypeOK
<1>5. /\ always' = [always EXCEPT ![r] = OwnWords(c)] /\ ever' = [ever EXCEPT ![r] = OwnWords(c)]
      /\ words' = words
  BY DEF Arrive
<1>6. /\ always' \in [Requests -> SUBSET Words] /\ ever' \in [Requests -> SUBSET Words]
      /\ \A p \in Requests \ {r} : always'[p] = always[p] /\ ever'[p] = ever[p]
      /\ always'[r] = OwnWords(c) /\ ever'[r] = OwnWords(c)
  BY <1>4, <1>5 DEF IInv, TypeOK
<1>7. RequestInv(r)'
  BY <1>2, <1>3, <1>5, <1>6 DEF RequestInv, OwnWords
<1>8. request' \in [Requests -> RequestState] /\ \A p \in Requests : RequestInv(p)'
  BY <1>2, <1>3, <1>5, <1>6, <1>7, OneMoves
<1>9. CacheInv' /\ TiersInv'
  BY CacheStutters DEF Arrive, IInv, TypeOK, CacheInv, TiersInv
<1> QED BY <1>6, <1>8, <1>9, Assembled DEF Arrive, IInv, TypeOK

LEMMA LookInL1Keeps ==
  ASSUME IInv, NEW r \in Requests, LookInL1(r)
  PROVE  IInv'
<1> DEFINE k == request[r].key
<1>1. k \in Keys /\ RequestInv(r)
  BY DEF LookInL1, IInv, RequestInv
<1>2. CacheInv'
  BY <1>1, GetKeeps DEF LookInL1, IInv, TypeOK, CacheInv
<1>3. ASSUME Hit(k)
      PROVE  request' \in [Requests -> RequestState] /\ \A p \in Requests : RequestInv(p)'
  <2>1. At(k).value = Raw(k[2])
    BY <1>1, <1>3 DEF Hit, Found, At, IInv, TypeOK, CacheTypeOK, CachedRight
  <2>2. Becomes(r, AfterHit(r), Raw(k[2]))
    BY <1>3, <2>1 DEF LookInL1
  <2>3. AfterHit(r) \in {"ttl", "words"}
    BY DEF AfterHit
  <2>4. Raw(k[2]) \in (SUBSET Matches) \cup {Nothing} /\ Raw(k[2]) = Raw(Text(r))
    BY <1>1, Types DEF Text
  <2> QED
    BY <2>2, <2>3, <2>4, BecomesKeeps DEF LookInL1
<1>4. ASSUME ~Hit(k)
      PROVE  request' \in [Requests -> RequestState] /\ \A p \in Requests : RequestInv(p)'
  <2>1. Becomes(r, "l2", Nothing)
    BY <1>4 DEF LookInL1
  <2> QED BY <2>1, BecomesKeeps DEF LookInL1
<1>5. request' \in [Requests -> RequestState] /\ \A p \in Requests : RequestInv(p)'
  BY <1>3, <1>4
<1> QED BY <1>2, <1>5, Assembled DEF LookInL1, dictVars, IInv, TypeOK, TiersInv

LEMMA LookInL2Keeps ==
  ASSUME IInv, NEW r \in Requests, LookInL2(r)
  PROVE  IInv'
<1>1. request[r].key \in Keys /\ Text(r) = request[r].key[2]
  BY DEF LookInL2, IInv, RequestInv, Text
<1>2. ASSUME redis[request[r].key] # Nothing, Becomes(r, "backfill", redis[request[r].key])
      PROVE  request' \in [Requests -> RequestState] /\ \A p \in Requests : RequestInv(p)'
  <2>1. redis[request[r].key] = Raw(Text(r))
    BY <1>1, <1>2 DEF IInv, TiersInv
  <2>2. Raw(Text(r)) \in (SUBSET Matches) \cup {Nothing}
    BY <1>1, Types
  <2> QED BY <1>2, <2>1, <2>2, BecomesKeeps DEF LookInL2
<1>3. ASSUME Becomes(r, AfterMiss(r), Nothing)
      PROVE  request' \in [Requests -> RequestState] /\ \A p \in Requests : RequestInv(p)'
  BY <1>3, BecomesKeeps DEF LookInL2, AfterMiss
<1>4. request' \in [Requests -> RequestState] /\ \A p \in Requests : RequestInv(p)'
  BY <1>2, <1>3 DEF LookInL2
<1>5. CacheInv'
  BY CacheStutters DEF LookInL2, IInv, TypeOK, CacheInv
<1> QED BY <1>4, <1>5, Assembled DEF LookInL2, dictVars, IInv, TypeOK, TiersInv

LEMMA BackfillKeeps ==
  ASSUME IInv, NEW r \in Requests, Backfill(r)
  PROVE  IInv'
<1>1. PICK k \in Keys : k = request[r].key /\ Text(r) = k[2] /\ request[r].found = Raw(k[2])
  BY DEF Backfill, IInv, RequestInv, Text
<1>2. CacheInv'
  <2>1. Set(k, Raw(k[2]), OwnTTL) /\ now' = now
    BY <1>1 DEF Backfill
  <2> QED BY <2>1, SetKeeps DEF IInv, TypeOK, CacheInv
<1>3. Raw(k[2]) \in (SUBSET Matches) \cup {Nothing}
  BY Types
<1>4. request' \in [Requests -> RequestState] /\ \A p \in Requests : RequestInv(p)'
  <2>1. AfterHit(r) \in {"ttl", "words"} /\ Becomes(r, AfterHit(r), Raw(k[2]))
    BY <1>1 DEF Backfill, AfterHit
  <2> QED BY <1>1, <1>3, <2>1, BecomesKeeps DEF Backfill
<1> QED BY <1>2, <1>4, Assembled DEF Backfill, dictVars, IInv, TypeOK, TiersInv

LEMMA AskTTLKeeps ==
  ASSUME IInv, NEW r \in Requests, AskTTL(r)
  PROVE  IInv'
<1>1. request[r].key \in Keys /\ request[r].found = Raw(Text(r)) /\ Text(r) = request[r].key[2]
  BY DEF AskTTL, IInv, RequestInv, Text
<1>2. CacheInv'
  BY <1>1, TTLKeeps DEF AskTTL, IInv, TypeOK, CacheInv
<1>3. Raw(Text(r)) \in (SUBSET Matches) \cup {Nothing}
  BY <1>1, Types
<1>4. request' \in [Requests -> RequestState] /\ \A p \in Requests : RequestInv(p)'
  BY <1>1, <1>3, BecomesKeeps DEF AskTTL
<1> QED BY <1>2, <1>4, Assembled DEF AskTTL, dictVars, IInv, TypeOK, TiersInv

LEMMA LeaveKeeps ==
  ASSUME IInv, NEW r \in Requests, Refuse(r) \/ Reply(r)
  PROVE  IInv'
<1>1. Returns(r) /\ UNCHANGED <<now, cacheVars, fill, redis>> /\ words' = words
  BY DEF Refuse, Reply, Returns
<1>2. CacheInv'
  BY <1>1, CacheStutters DEF IInv, TypeOK, CacheInv
<1> QED BY <1>1, <1>2, ReturnsKeeps, Assembled DEF IInv, TypeOK, TiersInv

LEMMA AskKeeps ==
  ASSUME IInv, NEW r \in Requests, Ask(r)
  PROVE  IInv'
<1>1. PICK k \in Keys : k = request[r].key /\ Text(r) = k[2] /\ RequestInv(r) /\ k[2] \in Texts
  BY Types DEF Ask, IInv, RequestInv, Text
<1>2. CacheInv'
  BY CacheStutters DEF Ask, IInv, TypeOK, CacheInv
<1>3. Raw(k[2]) \in SUBSET Matches
  BY Types
<1>4. CASE Returns(r) /\ UNCHANGED fill
  BY <1>2, <1>4, ReturnsKeeps, Assembled DEF Ask, Returns, IInv, TypeOK, TiersInv
<1>5. ASSUME fill' = [fill EXCEPT ![r] = [pc |-> "l2", key |-> k, value |-> Raw(k[2])]],
             UNCHANGED dictVars,
             \/ Via(r) = "http" /\ Becomes(r, "words", Raw(k[2]))
             \/ Via(r) # "http" /\ Becomes(r, "done", FilterMatches(k[2], Raw(k[2]), request[r].own))
      PROVE  IInv'
  <2>1. /\ fill' \in [Requests -> FillState]
        /\ TiersInv'
    <3>1. PICK f \in FillState : f = [pc |-> "l2", key |-> k, value |-> Raw(k[2])]
      BY <1>3 DEF FillState
    <3>2. fill' = [fill EXCEPT ![r] = f] /\ f.key = k /\ f.value = Raw(k[2]) /\ redis' = redis
      BY <1>5, <3>1 DEF Ask
    <3> QED BY <3>2 DEF IInv, TypeOK, TiersInv
  <2>2. CASE Via(r) = "http" /\ Becomes(r, "words", Raw(k[2]))
    <3>1. request' \in [Requests -> RequestState] /\ \A p \in Requests : RequestInv(p)'
      BY <1>1, <1>3, <1>5, <2>2, BecomesKeeps DEF Ask
    <3> QED BY <1>2, <1>5, <2>1, <3>1, Assembled DEF Ask, dictVars, IInv, TypeOK
  <2>3. CASE Via(r) # "http" /\ Becomes(r, "done", FilterMatches(k[2], Raw(k[2]), request[r].own))
    <3>1. FilterMatches(k[2], Raw(k[2]), request[r].own) \in SUBSET Matches
      BY <1>3, Types
    <3>2. Bounded(r)
      BY <1>1, <2>3 DEF Ask, RequestInv
    <3>3. request' \in [Requests -> RequestState] /\ \A p \in Requests : RequestInv(p)'
      BY <1>1, <1>5, <2>3, <3>1, <3>2, BecomesKeeps DEF Ask
    <3> QED BY <1>2, <1>5, <2>1, <3>3, Assembled DEF Ask, dictVars, IInv, TypeOK
  <2> QED BY <1>5, <2>2, <2>3
<1> QED
  BY <1>1, <1>4, <1>5 DEF Ask

LEMMA ReadWordsKeeps ==
  ASSUME IInv, NEW r \in Requests, ReadWords(r)
  PROVE  IInv'
<1>1. PICK k \in Keys : k = request[r].key /\ Text(r) = k[2] /\ RequestInv(r)
  BY DEF ReadWords, IInv, RequestInv, Text
<1>2. PICK own \in {OwnWords(request[r].client), {}} :
        request' = [request EXCEPT ![r] = [@ EXCEPT
           !.own = own,
           !.blind = own # OwnWords(request[r].client),
           !.pc = IF request[r].found = Nothing THEN "ask" ELSE "done",
           !.found = IF request[r].found = Nothing THEN Nothing
                     ELSE FilterMatches(Text(r), request[r].found, own)]]
  BY DEF ReadWords
<1>3. PICK found, pc, blind :
        /\ found = IF request[r].found = Nothing THEN Nothing
                   ELSE FilterMatches(k[2], request[r].found, own)
        /\ pc = IF request[r].found = Nothing THEN "ask" ELSE "done"
        /\ blind = (own # OwnWords(request[r].client))
  OBVIOUS
<1>4. request[r] \in RequestState /\ request \in [Requests -> RequestState]
  BY DEF IInv, TypeOK
<1>5. /\ found \in (SUBSET Matches) \cup {Nothing}
      /\ pc \in {"ask", "done"} /\ blind \in BOOLEAN /\ own \in SUBSET Words
  <2>1. own \in SUBSET Words
    BY DEF OwnWords, IInv, TypeOK
  <2>2. request[r].found \in (SUBSET Matches) \cup {Nothing}
    BY <1>4 DEF RequestState
  <2>3. FilterMatches(k[2], request[r].found, own) \subseteq request[r].found
    BY Types
  <2> QED BY <1>3, <2>1, <2>2, <2>3
<1>6. PICK q \in RequestState :
        /\ q.own = own /\ q.blind = blind /\ q.pc = pc /\ q.found = found
        /\ q.key = k /\ q.client = request[r].client
        /\ request' = [request EXCEPT ![r] = q]
  <2>1. PICK q : q = [request[r] EXCEPT !.own = own, !.blind = blind, !.pc = pc, !.found = found]
    OBVIOUS
  <2>2. q \in RequestState /\ q.own = own /\ q.blind = blind /\ q.pc = pc /\ q.found = found
        /\ q.key = k /\ q.client = request[r].client
    BY <1>1, <1>4, <1>5, <2>1 DEF RequestState
  <2>3. request' = [request EXCEPT ![r] = q]
    BY <1>1, <1>2, <1>3, <2>1
  <2> QED BY <2>2, <2>3
<1>7. request'[r] = q
  BY <1>4, <1>6
<1>8. /\ words' = words /\ always' = always /\ ever' = ever
      /\ fill' = fill /\ redis' = redis
  BY DEF ReadWords, dictVars
<1>9. /\ always[r] \subseteq OwnWords(q.client) /\ OwnWords(q.client) \subseteq ever[r]
  BY <1>1, <1>6 DEF ReadWords, RequestInv
<1>10. Bounded(r)'
  <2>1. own \subseteq ever[r]
    BY <1>6, <1>9
  <2>2. ~blind => always[r] \subseteq own
    BY <1>3, <1>6, <1>9
  <2> QED BY <1>6, <1>7, <1>8, <2>1, <2>2 DEF Bounded
<1>11. RequestInv(r)'
  <2>1. pc = "done" => found = FilterMatches(k[2], Raw(k[2]), own)
    BY <1>1, <1>3 DEF ReadWords, RequestInv
  <2>2. Text(r)' = k[2] /\ OwnWords(q.client)' = OwnWords(q.client)
    BY <1>6, <1>7, <1>8 DEF Text, OwnWords
  <2> QED BY <1>5, <1>6, <1>7, <1>8, <1>9, <1>10, <2>1, <2>2 DEF RequestInv, OwnWords
<1>12. request' \in [Requests -> RequestState] /\ \A p \in Requests : RequestInv(p)'
  BY <1>6, <1>8, <1>11, OneMoves
<1>13. CacheInv'
  BY CacheStutters DEF ReadWords, IInv, TypeOK, CacheInv
<1> QED BY <1>8, <1>12, <1>13, Assembled DEF IInv, TypeOK, TiersInv

(* What leaves requests and dictionaries alone.                            *)
LEMMA OthersRest ==
  ASSUME IInv, UNCHANGED <<request, dictVars>>
  PROVE  /\ \A p \in Requests : RequestInv(p)'
         /\ words' = words /\ always' = always /\ ever' = ever
  BY DEF IInv, RequestInv, Bounded, Text, Via, OwnWords, dictVars

LEMMA FillL2Keeps ==
  ASSUME IInv, NEW r \in Requests, FillL2(r)
  PROVE  IInv'
<1>1. PICK k \in Keys : k = fill[r].key /\ fill[r].value = Raw(k[2])
  BY DEF FillL2, IInv, TiersInv
<1>2. CacheInv'
  BY CacheStutters DEF FillL2, IInv, TypeOK, CacheInv
<1>3. Raw(k[2]) \in SUBSET Matches
  BY Types
<1>4. PICK f \in FillState : fill' = [fill EXCEPT ![r] = f] /\ (f = NoFill \/ (f.key = k /\ f.value = Raw(k[2])))
  <2>1. fill[r] \in FillState /\ NoFill \in FillState
    BY DEF IInv, TypeOK, FillState, NoFill
  <2>2. [fill[r] EXCEPT !.pc = "l1"] \in FillState
    BY <2>1 DEF FillState
  <2>3. [fill[r] EXCEPT !.pc = "l1"].key = k /\ [fill[r] EXCEPT !.pc = "l1"].value = Raw(k[2])
    BY <1>1, <2>1 DEF FillState
  <2>4. fill' = [fill EXCEPT ![r] = [fill[r] EXCEPT !.pc = "l1"]] \/ fill' = [fill EXCEPT ![r] = NoFill]
    BY DEF FillL2
  <2>5. CASE fill' = [fill EXCEPT ![r] = NoFill]
    <3>1. PICK f : f = NoFill
      OBVIOUS
    <3> QED BY <2>1, <2>5, <3>1
  <2>6. CASE fill' = [fill EXCEPT ![r] = [fill[r] EXCEPT !.pc = "l1"]]
    <3>1. PICK f : f = [fill[r] EXCEPT !.pc = "l1"]
      OBVIOUS
    <3> QED BY <2>2, <2>3, <2>6, <3>1
  <2> QED BY <2>4, <2>5, <2>6
<1>5. redis' \in [Keys -> (SUBSET Matches) \cup {Nothing}]
      /\ \A j \in Keys : redis'[j] \in {Nothing, Raw(j[2])}
  <2>1. redis' = redis \/ redis' = [redis EXCEPT ![k] = Raw(k[2])]
    BY <1>1 DEF FillL2, CopiedValue
  <2>2. PICK kept : kept = redis
    OBVIOUS
  <2>3. /\ kept \in [Keys -> (SUBSET Matches) \cup {Nothing}]
        /\ \A j \in Keys : kept[j] \in {Nothing, Raw(j[2])}
    BY <2>2 DEF IInv, TypeOK, TiersInv
  <2>4. CASE redis' = kept
    BY <2>3, <2>4
  <2>5. CASE redis' = [kept EXCEPT ![k] = Raw(k[2])]
    BY <1>3, <2>3, <2>5
  <2> QED BY <2>1, <2>2, <2>4, <2>5
<1>6. TiersInv'
  BY <1>4, <1>5 DEF IInv, TypeOK, TiersInv, NoFill
<1>7. fill' \in [Requests -> FillState]
  BY <1>4 DEF IInv, TypeOK
<1> QED BY <1>2, <1>5, <1>6, <1>7, OthersRest, Assembled DEF FillL2, IInv, TypeOK

LEMMA FillL1Keeps ==
  ASSUME IInv, NEW r \in Requests, FillL1(r)
  PROVE  IInv'
<1>1. PICK k \in Keys : k = fill[r].key /\ fill[r].value = Raw(k[2])
  BY DEF FillL1, IInv, TiersInv
<1>2. CacheInv'
  <2>1. Set(k, Raw(k[2]), OwnTTL + 1) /\ now' = now
    BY <1>1 DEF FillL1, CopiedValue
  <2> QED BY <2>1, SetKeeps DEF IInv, TypeOK, CacheInv
<1>3. NoFill \in FillState
  BY DEF FillState, NoFill
<1>4. fill' \in [Requests -> FillState] /\ TiersInv'
  BY <1>3 DEF FillL1, IInv, TypeOK, TiersInv, NoFill
<1> QED BY <1>2, <1>4, OthersRest, Assembled DEF FillL1, IInv, TypeOK

LEMMA ClearL1Keeps ==
  ASSUME IInv, ClearL1
  PROVE  IInv'
<1>1. CacheInv'
  BY EvictKeeps DEF ClearL1, DeletePattern, IInv, TypeOK, CacheInv
<1> QED BY <1>1, OthersRest, Assembled DEF ClearL1, IInv, TypeOK, TiersInv

LEMMA WordsKeep ==
  ASSUME IInv, NEW c \in Clients, NEW w \in Words, AddWord(c, w) \/ RemoveWord(c, w)
  PROVE  IInv'
<1>1. CacheInv'
  BY CacheStutters DEF AddWord, RemoveWord, IInv, TypeOK, CacheInv
<1>2. PICK now1 \in SUBSET Words :
        /\ words' = [words EXCEPT ![c] = now1]
        /\ \/ AddWord(c, w) /\ now1 = words[c] \cup {w}
           \/ RemoveWord(c, w) /\ now1 = words[c] \ {w}
  BY DEF AddWord, RemoveWord, IInv, TypeOK
<1>3. words' \in [Clients -> SUBSET Words]
  BY <1>2 DEF IInv, TypeOK
<1>4. \A p \in Requests :
        /\ always'[p] \in SUBSET always[p] /\ ever[p] \in SUBSET ever'[p]
        /\ ever'[p] \in SUBSET Words
  BY <1>2 DEF AddWord, RemoveWord, IInv, TypeOK
<1>5. always' \in [Requests -> SUBSET Words] /\ ever' \in [Requests -> SUBSET Words]
  <2>1. always' = [p \in Requests |-> always'[p]] /\ ever' = [p \in Requests |-> ever'[p]]
    BY <1>2 DEF AddWord, RemoveWord, IInv, TypeOK
  <2>2. \A p \in Requests : always'[p] \in SUBSET Words /\ ever'[p] \in SUBSET Words
    BY <1>4 DEF IInv, TypeOK
  <2> QED BY <2>1, <2>2
<1>6. ASSUME NEW p \in Requests PROVE RequestInv(p)'
  <2>1. RequestInv(p) /\ request' = request
    BY DEF AddWord, RemoveWord, IInv
  <2>2. PICK d : d = request[p].client
    OBVIOUS
  <2>3. ASSUME always[p] \subseteq OwnWords(d), OwnWords(d) \subseteq ever[p]
        PROVE  always'[p] \subseteq OwnWords(d)' /\ OwnWords(d)' \subseteq ever'[p]
    <3>1. CASE d = c
      <4>1. words \in [Clients -> SUBSET Words] /\ words' = [words EXCEPT ![c] = now1]
        BY <1>2 DEF IInv, TypeOK
      <4>2. OwnWords(d) = words[c]
        BY <3>1 DEF OwnWords
      <4>3. OwnWords(d)' = now1
        BY <3>1, <4>1 DEF OwnWords
      <4>4. CASE AddWord(c, w) /\ now1 = words[c] \cup {w}
        BY <2>2, <2>3, <3>1, <4>2, <4>3, <4>4 DEF AddWord
      <4>5. CASE RemoveWord(c, w) /\ now1 = words[c] \ {w}
        <5>1. always'[p] = always[p] \ {w} /\ ever' = ever
          BY <2>2, <3>1, <4>5 DEF RemoveWord
        <5> QED BY <2>3, <4>2, <4>3, <4>5, <5>1
      <4> QED BY <1>2, <4>4, <4>5
    <3>2. CASE d # c
      <4>1. OwnWords(d)' = OwnWords(d)
        BY <1>2, <3>2 DEF OwnWords, IInv, TypeOK
      <4> QED BY <1>4, <2>3, <4>1
    <3> QED BY <3>1, <3>2
  <2> QED BY <1>4, <2>1, <2>2, <2>3 DEF RequestInv, Bounded, Text, Via
<1> QED BY <1>1, <1>3, <1>5, <1>6, Assembled DEF AddWord, RemoveWord, IInv, TypeOK, TiersInv

LEMMA TickKeeps ==
  ASSUME IInv, Tick
  PROVE  IInv'
<1>1. CacheInv'
  BY DEF Tick, cacheVars, IInv, TypeOK, CacheInv, CacheTypeOK, CachedRight
<1> QED BY <1>1, OthersRest, Assembled DEF Tick, IInv, TypeOK, TiersInv

LEMMA StutterKeeps ==
  ASSUME IInv, UNCHANGED vars
  PROVE  IInv'
<1>1. CacheInv'
  BY CacheStutters DEF vars, IInv, TypeOK, CacheInv
<1> QED BY <1>1, OthersRest, Assembled DEF vars, IInv, TypeOK, TiersInv

LEMMA Inductive == IInv /\ [Next]_vars => IInv'
<1> SUFFICES ASSUME IInv, [Next]_vars PROVE IInv'
  OBVIOUS
<1>1. ASSUME NEW r \in Requests, NEW k \in Keys,
             NEW c \in Clients \cup {Anonymous, Malformed}, Arrive(r, k, c)
      PROVE  IInv'
  BY <1>1, ArriveKeeps
<1>2. ASSUME NEW r \in Requests, LookInL1(r) PROVE IInv'
  BY <1>2, LookInL1Keeps
<1>3. ASSUME NEW r \in Requests, LookInL2(r) PROVE IInv'
  BY <1>3, LookInL2Keeps
<1>4. ASSUME NEW r \in Requests, Backfill(r) PROVE IInv'
  BY <1>4, BackfillKeeps
<1>5. ASSUME NEW r \in Requests, Refuse(r) \/ Reply(r) PROVE IInv'
  BY <1>5, LeaveKeeps
<1>6. ASSUME NEW r \in Requests, AskTTL(r) PROVE IInv'
  BY <1>6, AskTTLKeeps
<1>7. ASSUME NEW r \in Requests, Ask(r) PROVE IInv'
  BY <1>7, AskKeeps
<1>8. ASSUME NEW r \in Requests, ReadWords(r) PROVE IInv'
  BY <1>8, ReadWordsKeeps
<1>9. ASSUME NEW r \in Requests, FillL2(r) PROVE IInv'
  BY <1>9, FillL2Keeps
<1>10. ASSUME NEW r \in Requests, FillL1(r) PROVE IInv'
  BY <1>10, FillL1Keeps
<1>11. CASE ClearL1
  BY <1>11, ClearL1Keeps
<1>12. ASSUME NEW c \in Clients, NEW w \in Words, AddWord(c, w) \/ RemoveWord(c, w) PROVE IInv'
  BY <1>12, WordsKeep
<1>13. CASE Tick
  BY <1>13, TickKeeps
<1>14. CASE UNCHANGED vars
  BY <1>14, StutterKeeps
<1> QED
  BY <1>1, <1>2, <1>3, <1>4, <1>5, <1>6, <1>7, <1>8, <1>9, <1>10, <1>11, <1>12, <1>13, <1>14
  DEF Next

-----------------------------------------------------------------------------
LEMMA Invariant == Spec => []IInv
  BY Initially, Inductive, PTL DEF Spec

(* Type correctness, with an index that only points at entries.            *)
THEOREM TypeCorrect == Spec => []TypeOK
<1>1. IInv => TypeOK
  BY DEF IInv
<1> QED BY <1>1, Invariant, PTL

(* Whoever filled the cache, whichever tier answered and however the       *)
(* dictionary changed meanwhile, a client is told the matches LanguageTool *)
(* has for its text but for the words of its own dictionary.               *)
THEOREM AnswersOwnHolds == Spec => []AnswersOwn
  BY Invariant, InvariantMeans, PTL

-----------------------------------------------------------------------------
(* What e gives for each member of a sequence.                             *)
Read(s, e) == [i \in 1..Len(s) |-> e[s[i]]]

(* The entries selected are those of the elements selected.                *)
LEMMA SelectOfEntries ==
  ASSUME NEW S, NEW s \in Seq(S), NEW P \in SUBSET (1..Len(s)), NEW f,
         NEW e, \A i \in 1..Len(s) : e[i] = f[s[i]]
  PROVE  Select(e, P) = Read(Select(s, P), f)
<1>1. PICK a, c, r : a = Ascending(P) /\ c = Cardinality(P) /\ r = Select(s, P)
  OBVIOUS
<1>2. Len(r) = c /\ \A i \in 1..c : a[i] \in P /\ r[i] = s[a[i]]
  BY <1>1, SelectWorks
<1>3. \A i \in 1..c : e[a[i]] = f[r[i]]
  BY <1>2
<1>4. Select(e, P) = [i \in 1..c |-> e[a[i]]]
  BY <1>1 DEF Select
<1> QED BY <1>1, <1>2, <1>3, <1>4 DEF Read

(* The list holds elements, and agrees with the index and the entries.     *)
ListInv == list \in Seq(Elements) /\ IndexAgrees

(* What is left of the list without some elements.                         *)
LEMMA Without ==
  ASSUME list \in Seq(Elements), NEW out
  PROVE  /\ ListWithout(out) \in Seq(Elements)
         /\ ToSet(ListWithout(out)) = ToSet(list) \ out
         /\ IsInjective(list) => IsInjective(ListWithout(out))
         /\ Len(ListWithout(out)) <= Len(list)
         /\ (\E el \in ToSet(list) : el \in out) => Len(ListWithout(out)) <= Len(list) - 1
<1>1. PICK P : P = {i \in DOMAIN list : list[i] \notin out}
  OBVIOUS
<1>2. DOMAIN list = 1..Len(list) /\ P \in SUBSET (1..Len(list))
  BY <1>1
<1>3. ListWithout(out) = Select(list, P)
  BY <1>1 DEF ListWithout
<1>4. {list[p] : p \in P} = ToSet(list) \ out
  BY <1>1 DEF ToSet
<1>5. (\E el \in ToSet(list) : el \in out) => P # 1..Len(list)
  BY <1>1, <1>2 DEF ToSet
<1> QED BY <1>2, <1>3, <1>4, <1>5, SelectWorks, SelectFewer

(* Each element is found by the key it carries.                            *)
LEMMA ElementsByKey ==
  ASSUME CacheInv, ListInv
  PROVE  /\ \A el \in DOMAIN entry : entry[el].key \in DOMAIN index /\ index[entry[el].key] = el
         /\ \A k \in DOMAIN index : index[k] \in DOMAIN entry /\ entry[index[k]].key = k
         /\ \A k \in DOMAIN index : \A el \in DOMAIN entry : el = index[k] <=> entry[el].key = k
         /\ ToSet(list) = DOMAIN entry
  BY DEF CacheInv, CacheTypeOK, ListInv, IndexAgrees

LEMMA EvictKeepsList ==
  ASSUME CacheInv, ListInv, NEW out \in SUBSET DOMAIN entry, Evict(out)
  PROVE  ListInv'
<1>1. /\ list' \in Seq(Elements) /\ ToSet(list') = ToSet(list) \ out
      /\ IsInjective(list') /\ Len(list') <= Len(list)
  BY Without DEF ListInv, IndexAgrees, Evict
<1>2. DOMAIN entry' = DOMAIN entry \ out /\ \A el \in DOMAIN entry' : entry'[el] = entry[el]
  BY DEF Evict, EntryWithout, Restrict
<1>3. /\ DOMAIN index' = DOMAIN index \ {entry[el].key : el \in out}
      /\ \A k \in DOMAIN index' : index'[k] = index[k]
  BY DEF Evict, IndexWithout, Restrict
<1>4. \A k \in DOMAIN index' : index'[k] \notin out /\ index'[k] \in DOMAIN entry'
  BY <1>2, <1>3, ElementsByKey
<1>5. \A k \in DOMAIN index' : entry'[index'[k]].key = k
  BY <1>2, <1>3, <1>4, ElementsByKey
<1>6. \A el \in DOMAIN entry' : entry'[el].key \in DOMAIN index' /\ index'[entry'[el].key] = el
  BY <1>2, <1>3, ElementsByKey
<1>7. {index'[k] : k \in DOMAIN index'} = DOMAIN entry'
  <2>1. \A k \in DOMAIN index' : index'[k] \in DOMAIN entry'
    BY <1>4
  <2>2. \A el \in DOMAIN entry' : \E k \in DOMAIN index' : index'[k] = el
    BY <1>6
  <2> QED BY ONLY <2>1, <2>2
<1>8. Len(list') <= Capacity
  <2>1. Len(list) <= Capacity /\ Len(list) \in Nat /\ Len(list') \in Nat
    BY <1>1 DEF ListInv, IndexAgrees
  <2> QED BY <1>1, <2>1
<1> QED BY <1>1, <1>2, <1>5, <1>7, <1>8, ElementsByKey DEF ListInv, IndexAgrees

(* A hit, or a write of a key that the cache holds.                        *)
LEMMA ToFrontKeepsList ==
  ASSUME CacheInv, ListInv, NEW k \in DOMAIN index, list' = ToFront(index[k]), UNCHANGED index,
         DOMAIN entry' = DOMAIN entry, \A el \in DOMAIN entry : entry'[el].key = entry[el].key
  PROVE  ListInv'
<1>1. PICK el, s : el = index[k] /\ s = ListWithout({el})
  OBVIOUS
<1>2. el \in ToSet(list) /\ el \in Elements
  BY <1>1, ElementsByKey DEF CacheInv, CacheTypeOK
<1>3. /\ s \in Seq(Elements) /\ ToSet(s) = ToSet(list) \ {el}
      /\ IsInjective(s) /\ Len(s) <= Len(list) - 1
  BY <1>1, <1>2, Without DEF ListInv, IndexAgrees
<1>4. list' = <<el>> \o s
  BY <1>1 DEF ToFront
<1>5. /\ list' \in Seq(Elements) /\ Len(list') = Len(s) + 1
      /\ ToSet(list') = ToSet(s) \cup {el} /\ IsInjective(list')
  BY <1>2, <1>3, <1>4, Pushed
<1>6. ToSet(list') = ToSet(list)
  BY <1>2, <1>3, <1>5
<1>7. Len(list') <= Capacity
  <2>1. Len(list) <= Capacity /\ Len(list) \in Nat /\ Len(s) \in Nat
    BY <1>3 DEF ListInv, IndexAgrees
  <2> QED BY <1>3, <1>5, <2>1
<1>8. \A j \in DOMAIN index' : entry'[index'[j]].key = j
  <2>1. \A j \in DOMAIN index : entry'[index[j]].key = j
    BY ElementsByKey
  <2> QED BY <2>1
<1>9. {index'[j] : j \in DOMAIN index'} = ToSet(list') /\ ToSet(list') = DOMAIN entry'
  BY <1>6 DEF ListInv, IndexAgrees
<1> QED BY <1>5, <1>7, <1>8, <1>9 DEF ListInv, IndexAgrees

(* The branch of Set for a key the cache does not hold.                    *)
LEMMA NewKeepsList ==
  ASSUME CacheInv, ListInv, NEW k \in Keys, k \notin DOMAIN index,
         NEW el \in Elements \ DOMAIN entry, NEW new, new.key = k,
         NEW back, back = IF Len(list) >= Capacity THEN {Last(list)} ELSE {},
         list' = <<el>> \o ListWithout(back),
         index' = [x \in DOMAIN IndexWithout(back) \cup {k} |-> IF x = k THEN el ELSE index[x]],
         entry' = [x \in DOMAIN EntryWithout(back) \cup {el} |-> IF x = el THEN new ELSE entry[x]]
  PROVE  ListInv'
<1>1. Len(list) \in Nat /\ Len(list) <= Capacity /\ list \in Seq(Elements)
  BY DEF ListInv, IndexAgrees
<1>2. /\ back \in SUBSET ToSet(list)
      /\ Len(list) >= Capacity => \E x \in ToSet(list) : x \in back
  <2>1. Len(list) >= Capacity => Last(list) \in ToSet(list)
    BY <1>1 DEF Last, ToSet
  <2> QED BY <2>1
<1>3. PICK s : s = ListWithout(back)
  OBVIOUS
<1>4. /\ s \in Seq(Elements) /\ ToSet(s) = ToSet(list) \ back
      /\ IsInjective(s) /\ Len(s) <= Len(list)
      /\ Len(list) >= Capacity => Len(s) <= Len(list) - 1
  BY <1>1, <1>2, <1>3, Without DEF ListInv, IndexAgrees
<1>5. el \notin ToSet(s) /\ ToSet(list) = DOMAIN entry /\ el \in Elements
  BY <1>4, ElementsByKey
<1>6. /\ list' \in Seq(Elements) /\ Len(list') = Len(s) + 1
      /\ ToSet(list') = ToSet(s) \cup {el} /\ IsInjective(list')
  <2>1. PICK r : r = <<el>> \o s
    OBVIOUS
  <2>2. list' = r
    BY <1>3, <2>1
  <2>3. /\ r \in Seq(Elements) /\ Len(r) = Len(s) + 1
        /\ ToSet(r) = ToSet(s) \cup {el} /\ IsInjective(r)
    BY ONLY <1>4, <1>5, <2>1, Pushed
  <2> QED BY <2>2, <2>3
<1>7. Len(list') <= Capacity
  <2>1. PICK m, n, p : m = Len(s) /\ n = Len(list) /\ p = Len(list')
    OBVIOUS
  <2>2. m \in Nat /\ n \in Nat /\ p = m + 1 /\ m <= n /\ n <= Capacity
        /\ (n >= Capacity => m <= n - 1)
    BY <1>1, <1>4, <1>6, <2>1
  <2>3. p <= Capacity
    BY ONLY <2>2, LRUAssumption DEF LRUAssumption
  <2> QED BY <2>1, <2>3
<1>8. /\ DOMAIN entry' = (DOMAIN entry \ back) \cup {el}
      /\ entry'[el] = new
      /\ \A x \in DOMAIN entry \ back : entry'[x] = entry[x]
  BY DEF EntryWithout, Restrict
<1>9. /\ DOMAIN index' = (DOMAIN index \ {entry[x].key : x \in back}) \cup {k}
      /\ index'[k] = el
      /\ \A j \in DOMAIN index \ {entry[x].key : x \in back} : index'[j] = index[j]
  BY DEF IndexWithout, Restrict
<1>10. \A j \in DOMAIN index \ {entry[x].key : x \in back} : index[j] \in DOMAIN entry \ back
  BY <1>2, ElementsByKey
<1>11. \A j \in DOMAIN index' : entry'[index'[j]].key = j /\ index'[j] \in DOMAIN entry'
  <2>1. entry'[index'[k]].key = k /\ index'[k] \in DOMAIN entry'
    BY <1>8, <1>9
  <2>2. ASSUME NEW j \in DOMAIN index \ {entry[x].key : x \in back}
        PROVE  entry'[index'[j]].key = j /\ index'[j] \in DOMAIN entry'
    BY <1>8, <1>9, <1>10, ElementsByKey
  <2> QED BY <1>9, <2>1, <2>2
<1>12. \A x \in DOMAIN entry' : \E j \in DOMAIN index' : index'[j] = x
  <2>1. ASSUME NEW x \in DOMAIN entry \ back
        PROVE  \E j \in DOMAIN index' : index'[j] = x
    <3>1. PICK j : j = entry[x].key
      OBVIOUS
    <3>2. j \in DOMAIN index /\ index[j] = x
      BY <3>1, ElementsByKey
    <3>3. j \notin {entry[y].key : y \in back}
      BY <1>2, <3>1, ElementsByKey
    <3> QED BY <1>9, <3>2, <3>3
  <2> QED BY <1>8, <1>9, <2>1
<1>13. {index'[j] : j \in DOMAIN index'} = DOMAIN entry'
  <2>1. \A j \in DOMAIN index' : index'[j] \in DOMAIN entry'
    BY <1>11
  <2> QED BY ONLY <1>12, <2>1
<1>14. ToSet(list') = DOMAIN entry'
  BY <1>4, <1>5, <1>6, <1>8
<1> QED BY <1>6, <1>7, <1>11, <1>13, <1>14 DEF ListInv, IndexAgrees

LEMMA SetKeepsList ==
  ASSUME CacheInv, ListInv, NEW k \in Keys, NEW v, NEW ttl, Set(k, v, ttl)
  PROVE  ListInv'
<1>1. PICK new : new = [key |-> k, value |-> v, expiresAt |-> now + Effective(ttl)]
  OBVIOUS
<1>2. PICK back : back = IF Len(list) >= Capacity THEN {Last(list)} ELSE {}
  OBVIOUS
<1>3. new.key = k
  BY <1>1
<1>4. CASE Found(k) /\ entry' = [entry EXCEPT ![index[k]] = new] /\ list' = ToFront(index[k]) /\ UNCHANGED index
  <2>1. k \in DOMAIN index /\ index[k] \in DOMAIN entry /\ entry[index[k]].key = k
    BY <1>4, ElementsByKey DEF Found
  <2>2. DOMAIN entry' = DOMAIN entry /\ \A el \in DOMAIN entry : entry'[el].key = entry[el].key
    BY <1>3, <1>4, <2>1
  <2> QED BY <1>4, <2>1, <2>2, ToFrontKeepsList
<1>5. ASSUME ~Found(k), NEW el \in Elements \ DOMAIN entry,
             list' = <<el>> \o ListWithout(back),
             index' = [x \in DOMAIN IndexWithout(back) \cup {k} |-> IF x = k THEN el ELSE index[x]],
             entry' = [x \in DOMAIN EntryWithout(back) \cup {el} |-> IF x = el THEN new ELSE entry[x]]
      PROVE  ListInv'
  <2>1. k \notin DOMAIN index
    BY <1>5 DEF Found
  <2> QED BY <1>2, <1>3, <1>5, <2>1, NewKeepsList
<1> QED BY <1>1, <1>2, <1>4, <1>5 DEF Set

LEMMA GetKeepsList ==
  ASSUME CacheInv, ListInv, NEW k \in Keys, Get(k) \/ TTL(k)
  PROVE  ListInv'
<1>1. CASE UNCHANGED cacheVars
  BY <1>1 DEF cacheVars, ListInv, IndexAgrees
<1>2. CASE Found(k) /\ Evict({index[k]})
  BY <1>2, ElementsByKey, EvictKeepsList DEF Found
<1>3. CASE Found(k) /\ list' = ToFront(index[k]) /\ UNCHANGED <<index, entry>>
  BY <1>3, ToFrontKeepsList DEF Found
<1> QED BY <1>1, <1>2, <1>3 DEF Get, TTL, Hit

-----------------------------------------------------------------------------
(* Every step uses the cache by one of its operations, or leaves it alone. *)
CacheStep ==
    \/ UNCHANGED cacheVars
    \/ /\ now' = now
       /\ \/ \E k \in Keys : Get(k) \/ TTL(k) \/ \E ttl \in Nat \ {0} : Set(k, Raw(k[2]), ttl)
          \/ \E K \in SUBSET Keys : DeletePattern(K)

LEMMA StepsUseCache ==
  ASSUME IInv, [Next]_vars
  PROVE  CacheStep
<1>1. ASSUME NEW r \in Requests, NEW k \in Keys,
             NEW c \in Clients \cup {Anonymous, Malformed}, Arrive(r, k, c)
      PROVE  CacheStep
  BY <1>1 DEF Arrive, CacheStep
<1>2. ASSUME NEW r \in Requests, LookInL1(r) PROVE CacheStep
  BY <1>2 DEF LookInL1, CacheStep, IInv, RequestInv
<1>3. ASSUME NEW r \in Requests, LookInL2(r) \/ Refuse(r) \/ Ask(r) \/ ReadWords(r) \/ Reply(r) \/ FillL2(r) PROVE CacheStep
  BY <1>3 DEF LookInL2, Refuse, Ask, ReadWords, Reply, FillL2, CacheStep
<1>4. ASSUME NEW r \in Requests, Backfill(r) PROVE CacheStep
  <2>1. PICK k \in Keys : k = request[r].key /\ request[r].found = Raw(k[2])
    BY <1>4 DEF Backfill, IInv, RequestInv, Text
  <2> QED BY <1>4, <2>1 DEF Backfill, CacheStep
<1>5. ASSUME NEW r \in Requests, AskTTL(r) PROVE CacheStep
  BY <1>5 DEF AskTTL, CacheStep, IInv, RequestInv
<1>6. ASSUME NEW r \in Requests, FillL1(r) PROVE CacheStep
  <2>1. PICK k \in Keys : k = fill[r].key /\ fill[r].value = Raw(k[2])
    BY <1>6 DEF FillL1, IInv, TiersInv
  <2>2. OwnTTL + 1 \in Nat \ {0}
    OBVIOUS
  <2> QED BY <1>6, <2>1, <2>2 DEF FillL1, CopiedValue, CacheStep
<1>7. CASE ClearL1
  <2>1. {k \in Keys : k[1] = "http"} \in SUBSET Keys
    OBVIOUS
  <2> QED BY <1>7, <2>1 DEF ClearL1, CacheStep
<1>8. ASSUME NEW c \in Clients, NEW w \in Words, AddWord(c, w) \/ RemoveWord(c, w) PROVE CacheStep
  BY <1>8 DEF AddWord, RemoveWord, CacheStep
<1>9. CASE Tick \/ UNCHANGED vars
  BY <1>9 DEF Tick, vars, CacheStep
<1> QED BY <1>1, <1>2, <1>3, <1>4, <1>5, <1>6, <1>7, <1>8, <1>9 DEF Next

LEMMA ListInductive ==
  ASSUME IInv, ListInv, [Next]_vars
  PROVE  ListInv'
<1>1. CacheInv
  BY DEF IInv, TypeOK, CacheInv
<1>2. CASE UNCHANGED cacheVars
  BY <1>2 DEF cacheVars, ListInv, IndexAgrees
<1>3. ASSUME NEW k \in Keys, Get(k) \/ TTL(k) PROVE ListInv'
  BY <1>1, <1>3, GetKeepsList
<1>4. ASSUME NEW k \in Keys, NEW ttl \in Nat \ {0}, Set(k, Raw(k[2]), ttl) PROVE ListInv'
  BY <1>1, <1>4, SetKeepsList
<1>5. ASSUME NEW K \in SUBSET Keys, DeletePattern(K) PROVE ListInv'
  BY <1>1, <1>5, EvictKeepsList DEF DeletePattern
<1> QED BY <1>2, <1>3, <1>4, <1>5, StepsUseCache DEF CacheStep

LEMMA ListInitially == Init => ListInv
<1> SUFFICES ASSUME Init PROVE ListInv
  OBVIOUS
<1>1. list = <<>> /\ DOMAIN index = {} /\ DOMAIN entry = {}
  BY DEF Init, CacheInit, NoMap
<1> QED BY <1>1 DEF ListInv, IndexAgrees, IsInjective, ToSet

(* The list, the index and the entries agree after any operation of the    *)
(* cache: no key is lost to it, and no element escapes eviction.           *)
THEOREM IndexAgreesHolds == Spec => []IndexAgrees
<1>1. Init => IInv /\ ListInv
  BY Initially, ListInitially
<1>2. IInv /\ ListInv /\ [Next]_vars => IInv' /\ ListInv'
  BY Inductive, ListInductive
<1>3. ListInv => IndexAgrees
  BY DEF ListInv
<1> QED BY <1>1, <1>2, <1>3, PTL DEF Spec


-----------------------------------------------------------------------------
LEMMA RecentIs ==
  ASSUME ListInv
  PROVE  Recent = Read(list, entry) /\ Len(Recent) = Len(list) /\ DOMAIN Recent = 1..Len(list)
  BY DEF Recent, Read, ListInv

LEMMA SameSelect == \A s, P : TheRecency!Select(s, P) = Select(s, P)
<1>1. \A P : TheRecency!Ascending(P) = Ascending(P)
  BY Zenon DEF TheRecency!Ascending, TheRecency!Cardinality, Cardinality, Ascending
<1> QED BY <1>1, Zenon DEF TheRecency!Select, Select, TheRecency!Cardinality, Cardinality

LEMMA OthersRead ==
  ASSUME CacheInv, ListInv, NEW out, NEW K,
         \A el \in DOMAIN entry : el \in out <=> entry[el].key \in K
  PROVE  TheRecency!Others(K) = Read(ListWithout(out), entry)
<1>1. PICK P : P = {i \in DOMAIN list : list[i] \notin out}
  OBVIOUS
<1>2. P \in SUBSET (1..Len(list)) /\ ListWithout(out) = Select(list, P) /\ list \in Seq(Elements)
  BY <1>1 DEF ListWithout, ListInv
<1>3. P = {i \in DOMAIN Recent : Recent[i].key \notin K}
  <2>1. \A i \in DOMAIN list : list[i] \in DOMAIN entry
    BY ElementsByKey DEF ToSet
  <2> QED BY <1>1, <2>1 DEF Recent
<1>4. TheRecency!Others(K) = Select(Recent, P)
  <2>1. TheRecency!Others(K) = TheRecency!Select(Recent, P)
    BY <1>3 DEF TheRecency!Others
  <2> QED BY <2>1, SameSelect
<1>5. Recent = [i \in 1..Len(list) |-> entry[list[i]]]
  BY RecentIs DEF Read
<1>6. Select(Recent, P) = Read(Select(list, P), entry)
  <2>1. PICK s, f, e : s = list /\ f = entry /\ e = Recent
    OBVIOUS
  <2>2. s \in Seq(Elements) /\ P \in SUBSET (1..Len(s)) /\ \A i \in 1..Len(s) : e[i] = f[s[i]]
    BY <1>2, <1>5, <2>1
  <2>3. Select(e, P) = Read(Select(s, P), f)
    BY ONLY <2>2, SelectOfEntries
  <2> QED BY <2>1, <2>3
<1> QED BY <1>2, <1>4, <1>6

LEMMA HeldIs ==
  ASSUME CacheInv, ListInv, NEW k
  PROVE  /\ k \in TheRecency!HeldKeys <=> Found(k)
         /\ Found(k) => TheRecency!EntryOf(k) = At(k)
         /\ Found(k) => TheRecency!Others({k}) = Read(ListWithout({index[k]}), entry)
<1>1. DOMAIN list = 1..Len(list) /\ ToSet(list) = DOMAIN entry
  BY ElementsByKey DEF ListInv
<1>2. ToSet(Recent) = {entry[el] : el \in DOMAIN entry}
  <2>1. DOMAIN entry = {list[i] : i \in DOMAIN list}
    BY <1>1 DEF ToSet
  <2> QED BY <2>1 DEF ToSet, Recent
<1>3. k \in TheRecency!HeldKeys <=> Found(k)
  <2>1. k \in TheRecency!HeldKeys <=> \E el \in DOMAIN entry : entry[el].key = k
    BY <1>2 DEF TheRecency!HeldKeys, TheRecency!ToSet, ToSet
  <2> QED BY <2>1, ElementsByKey DEF Found
<1>4. ASSUME Found(k) PROVE TheRecency!EntryOf(k) = At(k)
  <2>1. \A e \in ToSet(Recent) : e.key = k <=> e = At(k)
    BY <1>2, <1>4, ElementsByKey DEF Found, At
  <2>2. At(k) \in ToSet(Recent)
    BY <1>2, <1>4, ElementsByKey DEF Found, At
  <2>3. TheRecency!EntryOf(k) = CHOOSE e \in ToSet(Recent) : e.key = k
    BY DEF TheRecency!EntryOf, TheRecency!ToSet, ToSet
  <2> QED BY <2>1, <2>2, <2>3
<1>5. ASSUME Found(k) PROVE TheRecency!Others({k}) = Read(ListWithout({index[k]}), entry)
  <2>1. \A el \in DOMAIN entry : el \in {index[k]} <=> entry[el].key \in {k}
    BY <1>5, ElementsByKey DEF Found
  <2> QED BY <2>1, OthersRead
<1> QED BY <1>3, <1>4, <1>5

LEMMA ReadPushed ==
  ASSUME NEW S, NEW s \in Seq(S), NEW x \in S, NEW e, NEW r, r = <<x>> \o s
  PROVE  Read(r, e) = <<e[x]>> \o Read(s, e)
<1>1. PICK n \in Nat : n = Len(s)
  OBVIOUS
<1>2. Len(r) = n + 1 /\ r[1] = x /\ \A i \in 1..n : r[i + 1] = s[i]
  BY <1>1, Pushed
<1>3. PICK q : q = Read(s, e)
  OBVIOUS
<1>4. PICK T : T = {e[s[i]] : i \in 1..n} \cup {e[x]}
  OBVIOUS
<1>5. q \in Seq(T) /\ Len(q) = n /\ \A i \in 1..n : q[i] = e[s[i]]
  BY <1>1, <1>3, <1>4 DEF Read
<1>6. PICK u : u = <<e[x]>> \o q
  OBVIOUS
<1>7. u \in Seq(T) /\ Len(u) = n + 1 /\ u[1] = e[x] /\ \A i \in 1..n : u[i + 1] = q[i]
  <2>1. e[x] \in T
    BY <1>4
  <2> QED BY <1>5, <1>6, <2>1, Pushed
<1>8. \A j \in 1..(n + 1) : u[j] = e[r[j]]
  <2>1. ASSUME NEW j \in 1..(n + 1), j # 1 PROVE u[j] = e[r[j]]
    <3>1. PICK i \in 1..n : j = i + 1
      BY <1>1, <2>1
    <3> QED BY <1>2, <1>5, <1>7, <3>1
  <2> QED BY <1>2, <1>7, <2>1
<1>9. u = [j \in 1..(n + 1) |-> u[j]]
  BY <1>7
<1>10. Read(r, e) = [j \in 1..(n + 1) |-> e[r[j]]]
  BY <1>2 DEF Read
<1> QED BY <1>3, <1>6, <1>8, <1>9, <1>10

LEMMA ReadAgrees ==
  ASSUME NEW S, NEW s \in Seq(S), NEW e, NEW f, \A x \in ToSet(s) : e[x] = f[x]
  PROVE  Read(s, e) = Read(s, f)
  BY DEF Read, ToSet

LEMMA RecentNext ==
  ASSUME list' \in Seq(Elements)
  PROVE  Recent' = Read(list', entry')
  BY DEF Recent, Read

LEMMA PushedRecency ==
  ASSUME NEW el \in Elements, NEW s \in Seq(Elements), list' = <<el>> \o s
  PROVE  Recent' = <<entry'[el]>> \o Read(s, entry')
<1>1. PICK r, f : r = <<el>> \o s /\ f = entry'
  OBVIOUS
<1>2. r \in Seq(Elements) /\ list' = r
  BY <1>1, Pushed
<1>3. Read(r, f) = <<f[el]>> \o Read(s, f)
  BY <1>1, ReadPushed
<1>4. Recent' = Read(r, f)
  BY <1>1, <1>2, RecentNext
<1> QED BY <1>1, <1>3, <1>4

(* Evicting the elements whose key is in K leaves the others in order.     *)
LEMMA EvictRecency ==
  ASSUME CacheInv, ListInv, NEW out \in SUBSET DOMAIN entry, NEW K,
         \A el \in DOMAIN entry : el \in out <=> entry[el].key \in K, Evict(out)
  PROVE  Recent' = TheRecency!Others(K) /\ latest' = latest
<1>1. PICK s : s = ListWithout(out)
  OBVIOUS
<1>2. s \in Seq(Elements) /\ ToSet(s) = ToSet(list) \ out /\ list' = s
  BY <1>1, Without DEF ListInv, Evict
<1>3. \A el \in ToSet(s) : entry[el] = entry'[el]
  BY <1>2, ElementsByKey DEF Evict, EntryWithout, Restrict
<1>4. PICK e, f : e = entry /\ f = entry'
  OBVIOUS
<1>5. Read(s, e) = Read(s, f)
  BY <1>2, <1>3, <1>4, ReadAgrees
<1>6. Recent' = Read(s, f)
  BY <1>2, <1>4, RecentNext
<1>7. TheRecency!Others(K) = Read(s, e)
  BY <1>1, <1>4, OthersRead
<1> QED BY <1>5, <1>6, <1>7 DEF Evict

(* A use: its entry in front, the others behind it in their order.         *)
LEMMA FrontRecency ==
  ASSUME CacheInv, ListInv, NEW k, Found(k), list' = ToFront(index[k]),
         \A el \in DOMAIN entry : el # index[k] => entry'[el] = entry[el]
  PROVE  Recent' = <<entry'[index[k]]>> \o TheRecency!Others({k})
<1>1. PICK s, el, e, f : s = ListWithout({el}) /\ el = index[k] /\ e = entry /\ f = entry'
  OBVIOUS
<1>2. s \in Seq(Elements) /\ ToSet(s) = ToSet(list) \ {el}
  BY <1>1, Without DEF ListInv
<1>3. el \in Elements
  BY <1>1, ElementsByKey DEF Found, CacheInv, CacheTypeOK
<1>4. \A x \in ToSet(s) : e[x] = f[x]
  BY <1>1, <1>2, ElementsByKey
<1>5. Read(s, e) = Read(s, f)
  BY <1>2, <1>4, ReadAgrees
<1>6. list' = <<el>> \o s
  BY <1>1 DEF ToFront
<1>7. Recent' = <<f[el]>> \o Read(s, f)
  BY <1>1, <1>2, <1>3, <1>6, PushedRecency
<1>8. TheRecency!Others({k}) = Read(s, e)
  BY <1>1, HeldIs
<1> QED BY <1>1, <1>5, <1>7, <1>8

(* A new entry: in front, and the last one goes when the cache is full.    *)
LEMMA NewRecency ==
  ASSUME CacheInv, ListInv, NEW el \in Elements \ DOMAIN entry, NEW new,
         NEW back, back = IF Len(list) >= Capacity THEN {Last(list)} ELSE {},
         list' = <<el>> \o ListWithout(back),
         entry' = [x \in DOMAIN EntryWithout(back) \cup {el} |-> IF x = el THEN new ELSE entry[x]]
  PROVE  Recent' = <<new>> \o (IF Len(Recent) = Capacity THEN TheRecency!Front(Recent) ELSE Recent)
<1>1. PICK n \in Nat : n = Len(list) /\ n <= Capacity /\ list \in Seq(Elements)
                       /\ DOMAIN list = 1..n /\ IsInjective(list) /\ ToSet(list) = DOMAIN entry
  BY DEF ListInv, IndexAgrees
<1>2. PICK kept : kept = IF n = Capacity THEN n - 1 ELSE n
  OBVIOUS
<1>3. kept \in 0..n
  BY <1>1, <1>2
<1>4. ListWithout(back) = Select(list, 1..kept)
  <2>1. {i \in DOMAIN list : list[i] \notin back} = 1..kept
    <3>1. CASE n = Capacity
      <4>1. back = {list[n]} /\ n \in 1..n
        BY <1>1, <3>1 DEF Last
      <4>2. \A i \in 1..n : list[i] \notin back <=> i # n
        BY <1>1, <4>1 DEF IsInjective
      <4>3. \A i \in 1..n : i # n <=> i \in 1..kept
        BY <1>1, <1>2, <3>1
      <4>4. \A i \in 1..kept : i \in 1..n
        BY <1>1, <1>3
      <4> QED BY <1>1, <4>2, <4>3, <4>4
    <3>2. CASE n # Capacity
      <4>1. back = {} /\ kept = n
        BY <1>1, <1>2, <3>2
      <4> QED BY <1>1, <4>1
    <3> QED BY <3>1, <3>2
  <2> QED BY <2>1 DEF ListWithout
<1>5. PICK s : s = ListWithout(back)
  OBVIOUS
<1>6. Len(s) = kept /\ s = [i \in 1..kept |-> list[i]] /\ s \in Seq(Elements) /\ ToSet(s) \subseteq DOMAIN entry
  <2>1. Len(s) = kept /\ s = [i \in 1..kept |-> list[i]]
    BY <1>1, <1>3, <1>4, <1>5, SelectFirst
  <2>2. s \in Seq(Elements) /\ ToSet(s) = ToSet(list) \ back
    BY <1>1, <1>5, Without
  <2> QED BY <1>1, <2>1, <2>2
<1>7. PICK e, f : e = entry /\ f = entry'
  OBVIOUS
<1>8. f[el] = new /\ \A x \in ToSet(s) : e[x] = f[x]
  <2>1. ToSet(s) \subseteq DOMAIN EntryWithout(back)
    <3>1. ToSet(s) = ToSet(list) \ back
      BY <1>1, <1>5, Without
    <3> QED BY <1>1, <3>1 DEF EntryWithout, Restrict
  <2> QED BY <1>6, <1>7, <2>1
<1>9. Read(s, e) = Read(s, f)
  BY <1>6, <1>8, ReadAgrees
<1>10. Recent' = <<f[el]>> \o Read(s, f)
  BY <1>5, <1>6, <1>7, PushedRecency
<1>11. Read(s, e) = [i \in 1..kept |-> entry[list[i]]]
  BY <1>6, <1>7 DEF Read
<1>12. Recent = [i \in 1..n |-> entry[list[i]]] /\ Len(Recent) = n
  BY <1>1 DEF Recent
<1>13. Read(s, e) = IF Len(Recent) = Capacity THEN TheRecency!Front(Recent) ELSE Recent
  <2>1. CASE n # Capacity
    BY <1>2, <1>11, <1>12, <2>1
  <2>2. CASE n = Capacity
    <3>1. TheRecency!Front(Recent) = SubSeq(Recent, 1, n - 1)
      BY <1>12 DEF TheRecency!Front
    <3>2. SubSeq(Recent, 1, n - 1) = [i \in 1..(n - 1) |-> Recent[i]]
      <4>1. PICK q, T : q = Recent /\ T = {entry[list[i]] : i \in 1..n}
        OBVIOUS
      <4>2. q \in Seq(T) /\ Len(q) = n
        BY <1>1, <1>12, <4>1
      <4>3. n - 1 \in 0..n /\ 1 \in 1..(Len(q) + 1)
        BY <1>1, <2>2, <4>2
      <4>4. SubSeq(q, 1, n - 1) = [i \in 1..(n - 1) |-> q[i]]
        BY <1>1, <4>2, <4>3
      <4> QED BY <4>1, <4>4
    <3>3. \A i \in 1..(n - 1) : Recent[i] = entry[list[i]]
      BY <1>1, <1>12
    <3>4. Read(s, e) = [i \in 1..(n - 1) |-> entry[list[i]]]
      BY <1>2, <1>11, <2>2
    <3>5. Read(s, e) = TheRecency!Front(Recent)
      BY <3>1, <3>2, <3>3, <3>4
    <3> QED BY <1>12, <2>2, <3>5
  <2> QED BY <2>1, <2>2
<1> QED BY <1>8, <1>9, <1>10, <1>13

RecencyStep == TheRecency!Next \/ UNCHANGED <<Recent, latest>>

LEMMA RestIsStutter ==
  ASSUME UNCHANGED cacheVars
  PROVE  RecencyStep
  BY DEF cacheVars, RecencyStep, Recent

LEMMA ExpiryIsOutlive ==
  ASSUME CacheInv, ListInv, NEW k \in Keys, Found(k), Evict({index[k]}), now >= At(k).expiresAt
  PROVE  RecencyStep
<1>1. index[k] \in DOMAIN entry /\ \A el \in DOMAIN entry : el \in {index[k]} <=> entry[el].key \in {k}
  BY ElementsByKey DEF Found
<1>2. Recent' = TheRecency!Others({k}) /\ latest' = latest
  BY <1>1, EvictRecency
<1>3. TheRecency!Outlive(k)
  BY <1>2, HeldIs DEF TheRecency!Outlive
<1> QED BY <1>3 DEF RecencyStep, TheRecency!Next

LEMMA GetIsUse ==
  ASSUME CacheInv, ListInv, NEW k \in Keys, Get(k), now' = now
  PROVE  RecencyStep
<1>1. CASE Hit(k) /\ list' = ToFront(index[k]) /\ latest' = k /\ UNCHANGED <<index, entry>>
  <2>1. Found(k) /\ now <= At(k).expiresAt
    BY <1>1 DEF Hit
  <2>2. Recent' = <<entry'[index[k]]>> \o TheRecency!Others({k})
    BY <1>1, <2>1, FrontRecency
  <2>3. TheRecency!Use(k)
    BY <1>1, <2>1, <2>2, HeldIs DEF TheRecency!Use, At
  <2> QED BY <2>3 DEF RecencyStep, TheRecency!Next
<1>2. CASE Found(k) /\ ~Hit(k) /\ Evict({index[k]})
  <2>1. At(k).expiresAt \in Nat /\ now \in Nat
    BY <1>2, ElementsByKey DEF CacheInv, CacheTypeOK, Entries, Found, At
  <2>2. now >= At(k).expiresAt
    BY <1>2, <2>1 DEF Hit
  <2> QED BY <1>2, <2>2, ExpiryIsOutlive
<1> QED BY <1>1, <1>2, RestIsStutter DEF Get

LEMMA TTLIsOutlive ==
  ASSUME CacheInv, ListInv, NEW k \in Keys, TTL(k), now' = now
  PROVE  RecencyStep
<1>1. CASE Found(k) /\ At(k).expiresAt <= now /\ Evict({index[k]})
  BY <1>1, ExpiryIsOutlive
<1> QED BY <1>1, RestIsStutter DEF TTL

LEMMA DeletePatternIsClear ==
  ASSUME CacheInv, ListInv, NEW K \in SUBSET Keys, DeletePattern(K)
  PROVE  RecencyStep
<1>1. PICK out : out = {el \in DOMAIN entry : entry[el].key \in K}
  OBVIOUS
<1>2. Recent' = TheRecency!Others(K) /\ latest' = latest
  <2>1. out \in SUBSET DOMAIN entry /\ \A el \in DOMAIN entry : el \in out <=> entry[el].key \in K
    BY <1>1
  <2>2. Evict(out)
    BY <1>1 DEF DeletePattern
  <2> QED BY <2>1, <2>2, EvictRecency
<1> QED BY <1>2 DEF RecencyStep, TheRecency!Next, TheRecency!Clear

LEMMA RecentHead ==
  ASSUME NEW el \in Elements, NEW s \in Seq(Elements), list' = <<el>> \o s
  PROVE  Len(Recent') > 0 /\ Recent'[1] = entry'[el]
<1>1. PICK r, f : r = <<el>> \o s /\ f = entry'
  OBVIOUS
<1>2. r \in Seq(Elements) /\ Len(r) = Len(s) + 1 /\ r[1] = el /\ Len(s) \in Nat
  BY <1>1, Pushed
<1>3. Recent' = Read(r, f)
  BY <1>1, <1>2, RecentNext
<1>4. 1 \in 1..Len(r) /\ Len(r) \in Nat /\ Len(r) > 0
  BY <1>2
<1>5. Len(Read(r, f)) = Len(r) /\ Read(r, f)[1] = f[r[1]]
  BY <1>4 DEF Read
<1> QED BY <1>1, <1>2, <1>3, <1>4, <1>5

LEMMA SetIsPut ==
  ASSUME CacheInv, ListInv, NEW k \in Keys, NEW ttl \in Nat \ {0}, Set(k, Raw(k[2]), ttl), now' = now
  PROVE  RecencyStep
<1>1. PICK new : new = [key |-> k, value |-> Raw(k[2]), expiresAt |-> now + Effective(ttl)]
  OBVIOUS
<1>2. PICK back : back = IF Len(list) >= Capacity THEN {Last(list)} ELSE {}
  OBVIOUS
<1>3. new \in TheRecency!Entry /\ new.key = k /\ now < new.expiresAt /\ latest' = k
  <2>1. Effective(ttl) \in Nat \ {0} /\ now \in Nat
    BY DEF Effective, CacheInv, CacheTypeOK
  <2>2. now + Effective(ttl) \in Nat /\ now < now + Effective(ttl)
    BY <2>1
  <2>3. Raw(k[2]) \in Values
    OBVIOUS
  <2> QED BY <1>1, <2>2, <2>3 DEF TheRecency!Entry, Set
<1>4. ASSUME NEW rest,
             Recent' = <<new>> \o rest, Len(Recent') > 0 /\ Recent'[1] = new,
             rest = IF new.key \in TheRecency!HeldKeys THEN TheRecency!Others({new.key})
                    ELSE IF Len(Recent) = Capacity THEN TheRecency!Front(Recent) ELSE Recent
      PROVE  RecencyStep
  <2>1. TheRecency!Put(new)
    BY <1>3, <1>4 DEF TheRecency!Put
  <2> QED BY <1>4, <2>1 DEF RecencyStep, TheRecency!Next
<1>5. CASE Found(k) /\ entry' = [entry EXCEPT ![index[k]] = new] /\ list' = ToFront(index[k]) /\ UNCHANGED index
  <2>1. index[k] \in DOMAIN entry /\ index[k] \in Elements
    BY <1>5, ElementsByKey DEF Found, CacheInv, CacheTypeOK
  <2>2. entry'[index[k]] = new /\ \A el \in DOMAIN entry : el # index[k] => entry'[el] = entry[el]
    BY <1>5, <2>1
  <2>3. Recent' = <<new>> \o TheRecency!Others({k})
    BY <1>5, <2>2, FrontRecency
  <2>4. PICK el, s : el = index[k] /\ s = ListWithout({el})
    OBVIOUS
  <2>5. s \in Seq(Elements) /\ list' = <<el>> \o s
    BY <1>5, <2>4, Without DEF ListInv, ToFront
  <2>6. Len(Recent') > 0 /\ Recent'[1] = new
    BY <2>1, <2>2, <2>4, <2>5, RecentHead
  <2>7. k \in TheRecency!HeldKeys
    BY <1>5, HeldIs
  <2> QED BY <1>3, <1>4, <2>3, <2>6, <2>7
<1>6. ASSUME ~Found(k), NEW el \in Elements \ DOMAIN entry,
             list' = <<el>> \o ListWithout(back),
             entry' = [x \in DOMAIN EntryWithout(back) \cup {el} |-> IF x = el THEN new ELSE entry[x]]
      PROVE  RecencyStep
  <2>1. PICK rest : rest = IF Len(Recent) = Capacity THEN TheRecency!Front(Recent) ELSE Recent
    OBVIOUS
  <2>2. Recent' = <<new>> \o rest
    BY <1>2, <1>6, <2>1, NewRecency
  <2>3. PICK s : s = ListWithout(back)
    OBVIOUS
  <2>4. s \in Seq(Elements) /\ list' = <<el>> \o s
    BY <1>6, <2>3, Without DEF ListInv
  <2>5. entry'[el] = new
    BY <1>6
  <2>6. Len(Recent') > 0 /\ Recent'[1] = new
    BY <2>4, <2>5, RecentHead
  <2>7. k \notin TheRecency!HeldKeys
    BY <1>6, HeldIs
  <2> QED BY <1>3, <1>4, <2>1, <2>2, <2>6, <2>7
<1> QED BY <1>1, <1>2, <1>5, <1>6 DEF Set

(* The cache implements the bounded sequence of Recency: a hit or a write  *)
(* moves its key to the front, and only the least recently used entry      *)
(* makes room for a new one.                                               *)
THEOREM LeastRecentlyUsedHolds == Spec => LeastRecentlyUsed
<1>1. Init => IInv /\ ListInv
  BY Initially, ListInitially
<1>2. IInv /\ ListInv /\ [Next]_vars => IInv' /\ ListInv'
  BY Inductive, ListInductive
<1>3. Init => TheRecency!Init
  BY DEF Init, CacheInit, TheRecency!Init, Recent, NoKey
<1>4. IInv /\ ListInv /\ [Next]_vars => [TheRecency!Next]_<<Recent, latest>>
  <2> SUFFICES ASSUME IInv, ListInv, [Next]_vars PROVE RecencyStep
    BY DEF RecencyStep
  <2>1. CacheInv
    BY DEF IInv, TypeOK, CacheInv
  <2>2. CASE UNCHANGED cacheVars
    BY <2>2, RestIsStutter
  <2>3. ASSUME NEW k \in Keys, now' = now, Get(k) \/ TTL(k) PROVE RecencyStep
    BY <2>1, <2>3, GetIsUse, TTLIsOutlive
  <2>4. ASSUME NEW k \in Keys, now' = now, NEW ttl \in Nat \ {0}, Set(k, Raw(k[2]), ttl) PROVE RecencyStep
    BY <2>1, <2>4, SetIsPut
  <2>5. ASSUME NEW K \in SUBSET Keys, DeletePattern(K) PROVE RecencyStep
    BY <2>1, <2>5, DeletePatternIsClear
  <2> QED BY <2>2, <2>3, <2>4, <2>5, StepsUseCache DEF CacheStep
<1> QED BY <1>1, <1>2, <1>3, <1>4, PTL DEF Spec, LeastRecentlyUsed, TheRecency!Spec
=============================================================================
