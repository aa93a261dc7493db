-------------------------- MODULE YamlReaderProofs --------------------------
(* The reader, for texts of any length and nesting. First come lemmas about the   *)
(* operators of YamlScanner alone: which tokens may still turn out to be keys,    *)
(* when a token may be handed out, and how the tokens that open and close blocks  *)
(* answer the indents.                                                            *)
(* The code keeps one simple key per flow level and an index of the keys by the   *)
(* number of the token they stand for, and the two do not agree at every moment:  *)
(* a level that was given up may keep its number, with or without its entry.      *)
(* KeysOK says what does hold: the entry of a token still in the queue leads to   *)
(* the level with that number, or to the outermost (Leads); the numbers and the   *)
(* positions rise with the levels (Ordered); a block key that may still come has  *)
(* its entry and its token in the queue (Waiting); and below a level that was     *)
(* given up and is still indexed no key can come any more (Behind). Good adds     *)
(* what holds between two steps of the parser.                                    *)
(* Then the parser. StackOK is about the stack of states: none is popped off an   *)
(* empty stack. MarksInv is about the marks: there is one for every collection    *)
(* past its first entry. The events refine YamlEvents. None of these depends on   *)
(* what the scanner does.                                                         *)
(* ReaderOK is about both: ScannerOK says that the queue and the simple keys fit  *)
(* together, OpenerAtHand that the parser finds the token it has seen, and        *)
(* BalanceOK that the blocks the parser is in, with those announced in the queue, *)
(* are the indents of the scanner.                                                *)
EXTENDS YamlReader, FiniteSetTheorems, SequenceTheorems, WellFoundedInduction, TLAPS

-----------------------------------------------------------------------------
(* Numbers and sequences.                                                         *)
LEMMA LessThan == \A x, y \in Nat : x < y <=> <<x, y>> \in OpToRel(<, Nat)
  BY DEF OpToRel

(* The least member of a set of numbers, by which the inductions below go. *)
LEMMA LeastMember ==
  ASSUME NEW T \in SUBSET Nat, T # {}
  PROVE  \E m \in T : \A n \in T : m <= n
<1>1. PICK R : R = OpToRel(<, Nat)
  OBVIOUS
<1>2. IsWellFoundedOn(R, Nat)
  BY <1>1, NatLessThanWellFounded
<1>3. PICK m \in T : \A n \in T : <<n, m>> \notin R
  BY <1>2, WFMin
<1>4. \A n \in T : ~(n < m)
  BY <1>1, <1>3, LessThan
<1> QED BY <1>3, <1>4

LEMMA Popped ==
  ASSUME NEW S, NEW s \in Seq(S), s # <<>>
  PROVE  /\ Len(s) \in Nat /\ Len(s) > 0 /\ s[Len(s)] \in S
         /\ SubSeq(s, 1, Len(s) - 1) \in Seq(S)
         /\ Len(SubSeq(s, 1, Len(s) - 1)) = Len(s) - 1
         /\ \A i \in 1..Len(s) - 1 : SubSeq(s, 1, Len(s) - 1)[i] = s[i]
<1>1. PICK n : n = Len(s)
  OBVIOUS
<1>2. n \in Nat /\ n > 0
  BY <1>1
<1>3. s[n] \in S /\ n - 1 \in Nat /\ n - 1 <= n
  BY <1>1, <1>2
<1>4. SubSeq(s, 1, n - 1) \in Seq(S) /\ Len(SubSeq(s, 1, n - 1)) = n - 1
  <2>1. \A i \in 1..n - 1 : i \in 1..Len(s)
    BY <1>1, <1>2
  <2> QED BY <1>1, <1>2, <1>3, <2>1, SubSeqProperties
<1>5. \A i \in 1..n - 1 : SubSeq(s, 1, n - 1)[i] = s[i]
  BY <1>1, <1>2, <1>3, SubSeqProperties
<1> QED BY <1>1, <1>2, <1>3, <1>4, <1>5

-----------------------------------------------------------------------------
(* The simple keys: the records of the levels in K, and in B, by the number of    *)
(* the token they stand for, the levels of those that are set.                    *)
KeyRecord ==
    [possible : BOOLEAN, required : BOOLEAN, token_number : Nat, passed : BOOLEAN,
     index : Nat, column : Nat, flow : BOOLEAN]

(* The entry of by_tok for the token that may be a key at level i is its own.     *)
Entered(K, B, i) == K[i].token_number \in DOMAIN B /\ B[K[i].token_number] = i

(* Of no ':' more can be the value at level i.                                    *)
Gone(key, x) == key.passed \/ key.index + KeyLimit < x

(* Given up, but its token is still in the queue and leads to its level.          *)
Pending(K, B, p, j) ==
    /\ j \in 2..Len(K) /\ ~K[j].possible
    /\ Entered(K, B, j) /\ K[j].token_number >= p

Leads(K, B, p) ==
    \A n \in DOMAIN B :
       n >= p => B[n] \in 1..Len(K) /\ (B[n] # 1 => K[B[n]].token_number = n)

Ordered(K) ==
    \A i, j \in 1..Len(K) : i < j =>
       /\ K[i].token_number <= K[j].token_number
       /\ K[j].possible => K[i].token_number < K[j].token_number
       /\ K[i].possible /\ K[i].token_number = K[j].token_number => K[i].flow
       /\ K[i].possible /\ K[j].possible => K[i].index <= K[j].index
       /\ K[i].possible /\ K[j].possible /\ K[j].passed => K[i].passed

Waiting(K, B, p) ==
    \A i \in 1..Len(K) :
       K[i].possible /\ ~K[i].flow => Entered(K, B, i) /\ K[i].token_number >= p

Behind(K, B, p, x) ==
    \A j \in 1..Len(K) : Pending(K, B, p, j) =>
       \A i \in 1..Len(K) : i < j /\ K[i].possible => Gone(K[i], x)

(* Simple keys K, found through B, when p tokens were taken, x lexemes were read  *)
(* and all tokens have numbers below b.                                           *)
KeysOK(K, B, p, x, b) ==
    /\ K \in Seq(KeyRecord) /\ Len(K) >= 1
    /\ p \in Nat /\ x \in Nat /\ b \in Nat
    /\ \A n \in DOMAIN B : n \in Nat /\ n < b
    /\ \A i \in 1..Len(K) : K[i].token_number < b /\ (K[i].possible => K[i].index <= x)
    /\ Leads(K, B, p)
    /\ Ordered(K)
    /\ Waiting(K, B, p)
    /\ Behind(K, B, p, x)

(* No key is given up with its entry left behind.                                 *)
Calm(K, B, K2, B2, p) ==
    \A j \in 1..Len(K2) : Pending(K2, B2, p, j) =>
       Pending(K, B, p, j) /\ K2[j].token_number = K[j].token_number

LEMMA KeyFields ==
  ASSUME NEW K \in Seq(KeyRecord), NEW i \in 1..Len(K)
  PROVE  /\ K[i].possible \in BOOLEAN /\ K[i].token_number \in Nat /\ K[i].passed \in BOOLEAN
         /\ K[i].index \in Nat /\ K[i].column \in Nat /\ K[i].flow \in BOOLEAN
         /\ K[i].required \in BOOLEAN
<1>1. K[i] \in KeyRecord
  OBVIOUS
<1> QED BY <1>1 DEF KeyRecord

LEMMA GivenUpIs ==
  ASSUME NEW key \in KeyRecord
  PROVE  /\ GivenUp(key) \in KeyRecord
         /\ GivenUp(key).possible = FALSE
         /\ GivenUp(key).token_number = key.token_number
  BY DEF GivenUp, NoKey, KeyRecord

LEMMA KeysBelow ==
  ASSUME NEW K, NEW B, NEW p, NEW x, NEW b, KeysOK(K, B, p, x, b), NEW c \in Nat, b <= c
  PROVE  KeysOK(K, B, p, x, c)
<1>1. \A i \in 1..Len(K) : K[i].token_number \in Nat
  BY KeyFields DEF KeysOK
<1> QED BY <1>1 DEF KeysOK

(* A lexeme more is read.                                                         *)
LEMMA KeysRead ==
  ASSUME NEW K, NEW B, NEW p, NEW x, NEW b, KeysOK(K, B, p, x, b), NEW y \in Nat, x <= y
  PROVE  KeysOK(K, B, p, y, b)
<1>0. KeyLimit \in Nat
  BY ScannerAssumption
<1>1. \A i \in 1..Len(K) : K[i].index \in Nat
  BY KeyFields DEF KeysOK
<1>2. Behind(K, B, p, y)
  BY <1>0, <1>1 DEF KeysOK, Behind, Gone
<1> QED BY <1>1, <1>2 DEF KeysOK

(* The line of every key is passed.                                               *)
LEMMA KeysPassed ==
  ASSUME NEW K, NEW B, NEW p, NEW x, NEW b, KeysOK(K, B, p, x, b),
         NEW K2 \in Seq(KeyRecord), Len(K2) = Len(K),
         \A i \in 1..Len(K) :
            /\ K2[i].possible = K[i].possible /\ K2[i].token_number = K[i].token_number
            /\ K2[i].index = K[i].index /\ K2[i].flow = K[i].flow
            /\ K2[i].passed = (K[i].passed \/ K[i].possible)
  PROVE  KeysOK(K2, B, p, x, b) /\ Calm(K, B, K2, B, p)
<1>1. \A i \in 1..Len(K) : Entered(K2, B, i) <=> Entered(K, B, i)
  BY DEF Entered
<1>2. \A j : Pending(K2, B, p, j) <=> Pending(K, B, p, j)
  BY <1>1 DEF Pending, KeysOK
<1>3. Leads(K2, B, p)
  BY DEF Leads, KeysOK
<1>4. Ordered(K2)
  BY DEF Ordered, KeysOK
<1>5. Waiting(K2, B, p)
  BY <1>1 DEF Waiting, KeysOK
<1>6. Behind(K2, B, p, x)
  BY <1>2 DEF Behind, KeysOK, Gone
<1>7. Calm(K, B, K2, B, p)
  BY <1>2 DEF Calm
<1> QED BY <1>3, <1>4, <1>5, <1>6, <1>7 DEF KeysOK

(* The key of some level is given up because it is too late for its ':'.          *)
LEMMA KeysChecked ==
  ASSUME NEW K, NEW B, NEW p, NEW x, NEW b, KeysOK(K, B, p, x, b),
         NEW K2 \in Seq(KeyRecord), Len(K2) = Len(K), NEW k \in 1..Len(K),
         \A i \in 1..Len(K) : i # k => K2[i] = K[i],
         ~K2[k].possible, K2[k].token_number = K[k].token_number,
         K[k].possible, Gone(K[k], x)
  PROVE  /\ KeysOK(K2, B, p, x, b)
         /\ \A j : Pending(K2, B, p, j) /\ j # k =>
               Pending(K, B, p, j) /\ K2[j].token_number = K[j].token_number
<1>f. \A i \in 1..Len(K) : K[i].token_number \in Nat /\ K[i].index \in Nat
  BY KeyFields DEF KeysOK
<1>1. \A i \in 1..Len(K) : Entered(K2, B, i) <=> Entered(K, B, i)
  BY DEF Entered
<1>2. \A j : Pending(K2, B, p, j) /\ j # k =>
               Pending(K, B, p, j) /\ K2[j].token_number = K[j].token_number
  BY <1>1 DEF Pending, KeysOK
<1>3. Leads(K2, B, p)
  BY DEF Leads, KeysOK
<1>4. Ordered(K2)
  BY DEF Ordered, KeysOK
<1>5. Waiting(K2, B, p)
  BY <1>1 DEF Waiting, KeysOK
<1>6. Behind(K2, B, p, x)
  <2> SUFFICES ASSUME NEW j \in 1..Len(K), Pending(K2, B, p, j), NEW i \in 1..Len(K), i < j,
                      K2[i].possible
               PROVE  Gone(K2[i], x)
    BY DEF Behind
  <2>1. i # k /\ K2[i] = K[i]
    OBVIOUS
  <2>2. CASE j # k
    BY <1>2, <2>1, <2>2 DEF KeysOK, Behind
  <2>3. CASE j = k
    <3>1. K[i].index <= K[k].index /\ (K[k].passed => K[i].passed)
      BY <2>1, <2>3 DEF KeysOK, Ordered
    <3>2. KeyLimit \in Nat /\ x \in Nat
      BY ScannerAssumption DEF KeysOK
    <3> QED BY <1>f, <2>1, <3>1, <3>2 DEF Gone
  <2> QED BY <2>2, <2>3
<1>7. \A i \in 1..Len(K) : K2[i].token_number < b /\ (K2[i].possible => K2[i].index <= x)
  BY DEF KeysOK
<1> QED BY <1>2, <1>3, <1>4, <1>5, <1>6, <1>7 DEF KeysOK

(* B2 is B without the entry of n.                                                *)
Without(B, B2, n) ==
    /\ DOMAIN B2 = DOMAIN B \ {n}
    /\ \A m \in DOMAIN B2 : B2[m] = B[m]

(* remove_simple_key: the key on top is no longer possible and its entry deleted. *)
LEMMA KeysRemoved ==
  ASSUME NEW K, NEW B, NEW p, NEW x, NEW b, KeysOK(K, B, p, x, b),
         NEW K2 \in Seq(KeyRecord), Len(K2) = Len(K), NEW B2,
         \A i \in 1..Len(K) : i # Len(K) => K2[i] = K[i],
         ~K2[Len(K)].possible, K2[Len(K)].token_number = K[Len(K)].token_number,
         K[Len(K)].possible, Without(B, B2, K[Len(K)].token_number)
  PROVE  KeysOK(K2, B2, p, x, b) /\ Calm(K, B, K2, B2, p)
<1>l. PICK L, n : L \in Nat /\ L = Len(K) /\ L >= 1 /\ n = K[L].token_number
  BY DEF KeysOK
<1>f. \A i \in 1..L : K[i].token_number \in Nat /\ K[i].index \in Nat
  BY <1>l, KeyFields DEF KeysOK
<1>b. DOMAIN B2 = DOMAIN B \ {n} /\ \A m \in DOMAIN B2 : B2[m] = B[m]
  BY <1>l DEF Without
<1>1. \A i \in 1..L : i < L => K[i].token_number < n
  BY <1>l DEF KeysOK, Ordered
<1>2. \A i \in 1..L : Entered(K2, B2, i) => Entered(K, B, i) /\ i # L
  BY <1>l, <1>b DEF Entered
<1>3. \A i \in 1..L : i < L /\ Entered(K, B, i) => Entered(K2, B2, i)
  BY <1>l, <1>b, <1>1, <1>f DEF Entered
<1>4. \A j : Pending(K2, B2, p, j) => Pending(K, B, p, j) /\ j # L /\ K2[j] = K[j]
  BY <1>2, <1>l DEF Pending
<1>5. Leads(K2, B2, p)
  BY <1>l, <1>b DEF Leads, KeysOK
<1>6. Ordered(K2)
  BY <1>l DEF Ordered, KeysOK
<1>7. Waiting(K2, B2, p)
  BY <1>l, <1>3 DEF Waiting, KeysOK
<1>8. Behind(K2, B2, p, x)
  BY <1>l, <1>4 DEF Behind, KeysOK
<1>9. Calm(K, B, K2, B2, p)
  BY <1>4 DEF Calm
<1>10. \A i \in 1..L : K2[i].token_number < b /\ (K2[i].possible => K2[i].index <= x)
  BY <1>l DEF KeysOK
<1>11. \A m \in DOMAIN B2 : m \in Nat /\ m < b
  BY <1>b DEF KeysOK
<1> QED BY <1>l, <1>5, <1>6, <1>7, <1>8, <1>9, <1>10, <1>11 DEF KeysOK

(* save_simple_key, after remove_simple_key: the token b to come may be a key.    *)
LEMMA KeysSaved ==
  ASSUME NEW K, NEW B, NEW p, NEW x, NEW b, KeysOK(K, B, p, x, b), p <= b,
         NEW K2 \in Seq(KeyRecord), Len(K2) = Len(K), NEW B2,
         \A i \in 1..Len(K) : i # Len(K) => K2[i] = K[i],
         K2[Len(K)].possible, K2[Len(K)].token_number = b, K2[Len(K)].index = x,
         ~K2[Len(K)].passed,
         ~K[Len(K)].possible, ~Pending(K, B, p, Len(K)),
         DOMAIN B2 = DOMAIN B \cup {b}, B2[b] = Len(K),
         \A m \in DOMAIN B : m # b => B2[m] = B[m]
  PROVE  KeysOK(K2, B2, p, x, b + 1) /\ Calm(K, B, K2, B2, p)
<1>l. PICK L \in Nat : L = Len(K) /\ L >= 1
  BY DEF KeysOK
<1>f. \A i \in 1..L : K[i].token_number \in Nat /\ K[i].index \in Nat
  BY <1>l, KeyFields DEF KeysOK
<1>b. p \in Nat /\ x \in Nat /\ b \in Nat
  BY DEF KeysOK
<1>1. \A i \in 1..L : K[i].token_number < b /\ (K[i].possible => K[i].index <= x)
  BY <1>l DEF KeysOK
<1>2. \A i \in 1..L : i < L => (Entered(K2, B2, i) <=> Entered(K, B, i))
  BY <1>l, <1>1, <1>f, <1>b DEF Entered
<1>3. Entered(K2, B2, L)
  BY <1>l DEF Entered
<1>4. \A j : Pending(K2, B2, p, j) => Pending(K, B, p, j) /\ j # L /\ K2[j] = K[j]
  BY <1>l, <1>2 DEF Pending
<1>5. \A n \in DOMAIN B : n >= p => B[n] # L \/ L = 1
  <2> SUFFICES ASSUME NEW n \in DOMAIN B, n >= p, B[n] = L, L # 1
               PROVE  FALSE
    OBVIOUS
  <2>1. K[L].token_number = n
    BY DEF KeysOK, Leads
  <2> QED BY <2>1, <1>l DEF Pending, Entered
<1>6. Leads(K2, B2, p)
  <2> SUFFICES ASSUME NEW n \in DOMAIN B2, n >= p
               PROVE  B2[n] \in 1..Len(K2) /\ (B2[n] # 1 => K2[B2[n]].token_number = n)
    BY DEF Leads
  <2>1. CASE n = b
    BY <1>l, <2>1
  <2>2. CASE n # b
    <3>1. n \in DOMAIN B /\ B2[n] = B[n]
      BY <2>2
    <3>2. B[n] \in 1..L /\ (B[n] # 1 => K[B[n]].token_number = n)
      BY <3>1, <1>l DEF KeysOK, Leads
    <3>3. B[n] # L \/ L = 1
      BY <3>1, <1>5
    <3> QED BY <1>l, <3>1, <3>2, <3>3
  <2> QED BY <2>1, <2>2
<1>7. Ordered(K2)
  <2> SUFFICES ASSUME NEW i \in 1..L, NEW j \in 1..L, i < j
               PROVE  /\ K2[i].token_number <= K2[j].token_number
                      /\ K2[j].possible => K2[i].token_number < K2[j].token_number
                      /\ K2[i].possible /\ K2[i].token_number = K2[j].token_number => K2[i].flow
                      /\ K2[i].possible /\ K2[j].possible => K2[i].index <= K2[j].index
                      /\ K2[i].possible /\ K2[j].possible /\ K2[j].passed => K2[i].passed
    BY <1>l DEF Ordered
  <2>1. K2[i] = K[i] /\ K[i].token_number < b /\ (K[i].possible => K[i].index <= x)
    BY <1>l, <1>1
  <2>2. CASE j = L
    BY <2>1, <2>2, <1>l, <1>f, <1>b
  <2>3. CASE j # L
    <3>1. K2[j] = K[j]
      BY <2>3, <1>l
    <3> QED BY <2>1, <3>1, <1>l DEF KeysOK, Ordered
  <2> QED BY <2>2, <2>3
<1>8. Waiting(K2, B2, p)
  BY <1>l, <1>2, <1>3, <1>b DEF Waiting, KeysOK
<1>9. Behind(K2, B2, p, x)
  <2> SUFFICES ASSUME NEW j \in 1..L, Pending(K2, B2, p, j), NEW i \in 1..L, i < j, K2[i].possible
               PROVE  Gone(K2[i], x)
    BY <1>l DEF Behind
  <2>1. Pending(K, B, p, j) /\ j # L /\ K2[i] = K[i]
    BY <1>4, <1>l
  <2> QED BY <2>1, <1>l DEF KeysOK, Behind
<1>10. \A i \in 1..L : K2[i].token_number < b + 1 /\ (K2[i].possible => K2[i].index <= x)
  BY <1>1, <1>l, <1>f, <1>b
<1>11. \A m \in DOMAIN B2 : m \in Nat /\ m < b + 1
  BY <1>b DEF KeysOK
<1>12. Calm(K, B, K2, B2, p)
  BY <1>4 DEF Calm
<1> QED BY <1>l, <1>b, <1>6, <1>7, <1>8, <1>9, <1>10, <1>11, <1>12 DEF KeysOK

(* increase_flow_level: a level more, without a key, under the number of the      *)
(* token that opens it.  That token may itself be a key below.                    *)
LEMMA KeysPushed ==
  ASSUME NEW K, NEW B, NEW p, NEW x, NEW b, KeysOK(K, B, p, x, b + 1), b \in Nat, p <= b,
         NEW K2 \in Seq(KeyRecord), Len(K2) = Len(K) + 1,
         \A i \in 1..Len(K) : K2[i] = K[i],
         ~K2[Len(K) + 1].possible, K2[Len(K) + 1].token_number = b,
         \A i \in 1..Len(K) : K[i].possible /\ K[i].token_number = b => K[i].flow
  PROVE  KeysOK(K2, B, p, x, b + 1) /\ Calm(K, B, K2, B, p)
<1>l. PICK L \in Nat : L = Len(K) /\ L >= 1
  BY DEF KeysOK
<1>f. \A i \in 1..L : K[i].token_number \in Nat /\ K[i].index \in Nat
  BY <1>l, KeyFields DEF KeysOK
<1>b. p \in Nat /\ x \in Nat /\ b \in Nat
  BY DEF KeysOK
<1>1. \A i \in 1..L : K[i].token_number <= b
  BY <1>l, <1>f, <1>b DEF KeysOK
<1>2. ~Entered(K2, B, L + 1)
  <2>1. b \in DOMAIN B => B[b] \in 1..L
    BY <1>l, <1>b DEF KeysOK, Leads
  <2> QED BY <1>l, <2>1 DEF Entered
<1>3. \A i \in 1..L : Entered(K2, B, i) <=> Entered(K, B, i)
  BY <1>l DEF Entered
<1>4. \A j : Pending(K2, B, p, j) => Pending(K, B, p, j) /\ j \in 1..L /\ K2[j] = K[j]
  BY <1>l, <1>2, <1>3 DEF Pending
<1>5. Leads(K2, B, p)
  BY <1>l DEF KeysOK, Leads
<1>6. Ordered(K2)
  <2> SUFFICES ASSUME NEW i \in 1..L + 1, NEW j \in 1..L + 1, i < j
               PROVE  /\ K2[i].token_number <= K2[j].token_number
                      /\ K2[j].possible => K2[i].token_number < K2[j].token_number
                      /\ K2[i].possible /\ K2[i].token_number = K2[j].token_number => K2[i].flow
                      /\ K2[i].possible /\ K2[j].possible => K2[i].index <= K2[j].index
                      /\ K2[i].possible /\ K2[j].possible /\ K2[j].passed => K2[i].passed
    BY <1>l DEF Ordered
  <2>1. i \in 1..L /\ K2[i] = K[i]
    BY <1>l
  <2>2. CASE j = L + 1
    BY <2>1, <2>2, <1>1, <1>l
  <2>3. CASE j # L + 1
    <3>1. j \in 1..L /\ K2[j] = K[j]
      BY <2>3, <1>l
    <3> QED BY <2>1, <3>1, <1>l DEF KeysOK, Ordered
  <2> QED BY <2>2, <2>3
<1>7. Waiting(K2, B, p)
  BY <1>l, <1>3 DEF Waiting, KeysOK
<1>8. Behind(K2, B, p, x)
  BY <1>l, <1>4 DEF Behind, KeysOK
<1>9. \A i \in 1..L + 1 : K2[i].token_number < b + 1 /\ (K2[i].possible => K2[i].index <= x)
  BY <1>l, <1>b DEF KeysOK
<1>10. Calm(K, B, K2, B, p)
  BY <1>4 DEF Calm
<1> QED BY <1>l, <1>b, <1>5, <1>6, <1>7, <1>8, <1>9, <1>10 DEF KeysOK

(* decrease_flow_level: the top level goes, and the entry of its number.          *)
LEMMA KeysPopped ==
  ASSUME NEW K, NEW B, NEW p, NEW x, NEW b, KeysOK(K, B, p, x, b), Len(K) > 1,
         NEW K2 \in Seq(KeyRecord), Len(K2) = Len(K) - 1, NEW B2,
         \A i \in 1..Len(K) - 1 : K2[i] = K[i],
         Without(B, B2, K[Len(K)].token_number)
  PROVE  KeysOK(K2, B2, p, x, b) /\ Calm(K, B, K2, B2, p)
<1>l. PICK L, n : L \in Nat /\ L = Len(K) /\ L > 1 /\ n = K[L].token_number
  BY DEF KeysOK
<1>b. DOMAIN B2 = DOMAIN B \ {n} /\ \A m \in DOMAIN B2 : B2[m] = B[m]
  BY <1>l DEF Without
<1>1. \A i \in 1..L - 1 : K[i].possible /\ K[i].token_number = n => K[i].flow
  BY <1>l DEF KeysOK, Ordered
<1>2. \A i \in 1..L - 1 : Entered(K2, B2, i) => Entered(K, B, i)
  BY <1>l, <1>b DEF Entered
<1>3. \A i \in 1..L - 1 : K[i].token_number # n /\ Entered(K, B, i) => Entered(K2, B2, i)
  BY <1>l, <1>b DEF Entered
<1>4. \A j : Pending(K2, B2, p, j) => Pending(K, B, p, j) /\ j \in 1..L - 1 /\ K2[j] = K[j]
  BY <1>l, <1>2 DEF Pending
<1>5. Leads(K2, B2, p)
  <2> SUFFICES ASSUME NEW m \in DOMAIN B2, m >= p
               PROVE  B2[m] \in 1..L - 1 /\ (B2[m] # 1 => K2[B2[m]].token_number = m)
    BY <1>l DEF Leads
  <2>1. m # n /\ B2[m] = B[m] /\ B[m] \in 1..L /\ (B[m] # 1 => K[B[m]].token_number = m)
    BY <1>b, <1>l DEF KeysOK, Leads
  <2>2. B[m] # L
    BY <2>1, <1>l
  <2> QED BY <1>l, <2>1, <2>2
<1>6. Ordered(K2)
  <2>1. \A i \in 1..L - 1 : i \in 1..L /\ K2[i] = K[i]
    BY <1>l
  <2> QED BY <1>l, <2>1 DEF Ordered, KeysOK
<1>7. Waiting(K2, B2, p)
  <2> SUFFICES ASSUME NEW i \in 1..L - 1, K2[i].possible, ~K2[i].flow
               PROVE  Entered(K2, B2, i) /\ K2[i].token_number >= p
    BY <1>l DEF Waiting
  <2>1. K2[i] = K[i] /\ Entered(K, B, i) /\ K[i].token_number >= p
    BY <1>l DEF Waiting, KeysOK
  <2> QED BY <2>1, <1>1, <1>3
<1>8. Behind(K2, B2, p, x)
  <2> SUFFICES ASSUME NEW j \in 1..L - 1, Pending(K2, B2, p, j), NEW i \in 1..L - 1, i < j,
                      K2[i].possible
               PROVE  Gone(K2[i], x)
    BY <1>l DEF Behind
  <2>1. Pending(K, B, p, j) /\ j \in 1..L /\ i \in 1..L /\ K2[i] = K[i]
    BY <1>l, <1>4
  <2> QED BY <2>1, <1>l DEF Behind, KeysOK
<1>9. \A i \in 1..L - 1 : K2[i].token_number < b /\ (K2[i].possible => K2[i].index <= x)
  BY <1>l DEF KeysOK
<1>10. Calm(K, B, K2, B2, p)
  BY <1>4 DEF Calm
<1>11. \A m \in DOMAIN B2 : m \in Nat /\ m < b
  BY <1>b DEF KeysOK
<1> QED BY <1>l, <1>5, <1>6, <1>7, <1>8, <1>9, <1>10, <1>11 DEF KeysOK

(* The parser takes a token that cannot become a key.                             *)
LEMMA KeysTaken ==
  ASSUME NEW K, NEW B, NEW p, NEW x, NEW b, KeysOK(K, B, p, x, b),
         \A i \in 1..Len(K) : K[i].possible /\ ~K[i].flow => K[i].token_number # p
  PROVE  KeysOK(K, B, p + 1, x, b)
         /\ \A j : Pending(K, B, p + 1, j) => Pending(K, B, p, j) /\ K[j].token_number # p
<1>f. /\ \A i \in 1..Len(K) : K[i].token_number \in Nat
      /\ p \in Nat
  BY KeyFields DEF KeysOK
<1>1. \A j : Pending(K, B, p + 1, j) => Pending(K, B, p, j) /\ K[j].token_number # p
  BY <1>f DEF Pending
<1>2. Leads(K, B, p + 1)
  BY <1>f DEF KeysOK, Leads
<1>3. Waiting(K, B, p + 1)
  BY <1>f DEF KeysOK, Waiting
<1>4. Behind(K, B, p + 1, x)
  BY <1>1 DEF KeysOK, Behind
<1> QED BY <1>f, <1>1, <1>2, <1>3, <1>4 DEF KeysOK

-----------------------------------------------------------------------------
(* What the helpers of the scanner leave alone.                                   *)
ScannerFields ==
    {"started", "ended", "last", "column", "index", "levels", "flow_level",
     "simple_key_allowed", "simple_keys", "by_tok", "late"}

Fields == ScannerFields \cup {"tokens", "parsed", "error"}

(* t differs from s in these fields at most.                                      *)
Keeps(s, t, S) == DOMAIN s = Fields /\ DOMAIN t = Fields /\ \A f \in Fields \ S : t[f] = s[f]

LEMMA CurrentFields ==
  ASSUME DOMAIN scanner = ScannerFields
  PROVE  /\ DOMAIN Current = Fields
         /\ \A f \in ScannerFields : Current[f] = scanner[f]
         /\ Current.tokens = tokens /\ Current.parsed = tokens_parsed /\ Current.error = error
  BY DEF Current, ScannerFields, Fields

LEMMA PutKeeps ==
  ASSUME NEW s, DOMAIN s = Fields, NEW token, NEW t, t = Put(s, token)
  PROVE  Keeps(s, t, {"tokens"}) /\ t.tokens = Append(s.tokens, token)
  BY DEF Put, InsertToken, Keeps, Fields, ScannerFields

LEMMA InsertKeeps ==
  ASSUME NEW s, DOMAIN s = Fields, NEW pos, NEW token, NEW t, t = InsertToken(s, pos, token)
  PROVE  Keeps(s, t, {"tokens"})
         /\ t.tokens = IF pos < 0 THEN Append(s.tokens, token) ELSE InsertAt(s.tokens, pos + 1, token)
  BY DEF InsertToken, Keeps, Fields, ScannerFields

LEMMA AllowKeeps ==
  ASSUME NEW s, DOMAIN s = Fields, NEW allowed, NEW t, t = Allow(s, allowed)
  PROVE  Keeps(s, t, {"simple_key_allowed"}) /\ t.simple_key_allowed = allowed
  BY DEF Allow, Keeps, Fields, ScannerFields

LEMMA ForgetKeeps ==
  ASSUME NEW s, DOMAIN s = Fields, NEW n, NEW t, t = Forget(s, n)
  PROVE  Keeps(s, t, {"by_tok"}) /\ Without(s.by_tok, t.by_tok, n)
<1>1. t = [s EXCEPT !.by_tok = Restrict(s.by_tok, DOMAIN s.by_tok \ {n})]
  BY DEF Forget
<1>2. Keeps(s, t, {"by_tok"}) /\ t.by_tok = Restrict(s.by_tok, DOMAIN s.by_tok \ {n})
  BY <1>1 DEF Keeps, Fields, ScannerFields
<1> QED BY <1>2 DEF Without, Restrict

LEMMA EnterKeeps ==
  ASSUME NEW s, DOMAIN s = Fields, NEW n, NEW l, NEW t, t = Enter(s, n, l)
  PROVE  /\ Keeps(s, t, {"by_tok"})
         /\ DOMAIN t.by_tok = DOMAIN s.by_tok \cup {n} /\ t.by_tok[n] = l
         /\ \A m \in DOMAIN s.by_tok : m # n => t.by_tok[m] = s.by_tok[m]
<1>1. Keeps(s, t, {"by_tok"})
      /\ t.by_tok = [m \in DOMAIN s.by_tok \cup {n} |-> IF m = n THEN l ELSE s.by_tok[m]]
  BY DEF Enter, Keeps, Fields, ScannerFields
<1> QED BY <1>1

LEMMA WithKeyKeeps ==
  ASSUME NEW s, DOMAIN s = Fields, s.simple_keys \in Seq(KeyRecord),
         NEW k \in 1..Len(s.simple_keys), NEW key \in KeyRecord, NEW t, t = WithKey(s, k, key)
  PROVE  /\ Keeps(s, t, {"simple_keys"})
         /\ t.simple_keys \in Seq(KeyRecord) /\ Len(t.simple_keys) = Len(s.simple_keys)
         /\ t.simple_keys[k] = key
         /\ \A i \in 1..Len(s.simple_keys) : i # k => t.simple_keys[i] = s.simple_keys[i]
<1>1. Keeps(s, t, {"simple_keys"})
      /\ t.simple_keys = [j \in DOMAIN s.simple_keys |-> IF j = k THEN key ELSE s.simple_keys[j]]
  BY DEF WithKey, Keeps, Fields, ScannerFields
<1>2. PICK K, L, K2 : K = s.simple_keys /\ L = Len(K) /\ L \in Nat /\ K2 = t.simple_keys
  OBVIOUS
<1>3. DOMAIN K = 1..L /\ \A i \in 1..L : K[i] \in KeyRecord
  BY <1>2
<1>4. K2 = [j \in 1..L |-> IF j = k THEN key ELSE K[j]]
  BY <1>1, <1>2, <1>3
<1>5. K2 \in Seq(KeyRecord) /\ Len(K2) = L
  <2>1. K2 \in [1..L -> KeyRecord]
    BY <1>3, <1>4
  <2> QED BY <2>1, <1>2, SeqDef
<1> QED BY <1>1, <1>2, <1>4, <1>5

LEMMA BreakKeeps ==
  ASSUME NEW s, DOMAIN s = Fields, s.simple_keys \in Seq(KeyRecord), NEW t, t = Break(s)
  PROVE  /\ Keeps(s, t, {"simple_keys"})
         /\ t.simple_keys \in Seq(KeyRecord) /\ Len(t.simple_keys) = Len(s.simple_keys)
         /\ \A i \in 1..Len(s.simple_keys) :
               /\ t.simple_keys[i].possible = s.simple_keys[i].possible
               /\ t.simple_keys[i].token_number = s.simple_keys[i].token_number
               /\ t.simple_keys[i].index = s.simple_keys[i].index
               /\ t.simple_keys[i].flow = s.simple_keys[i].flow
               /\ t.simple_keys[i].passed = (s.simple_keys[i].passed \/ s.simple_keys[i].possible)
<1>f. PICK F : F = [i \in DOMAIN s.simple_keys |->
            Passed(s.simple_keys[i])]
  OBVIOUS
<1>g. t = [s EXCEPT !.simple_keys = F]
  BY <1>f DEF Break
<1>1. Keeps(s, t, {"simple_keys"}) /\ t.simple_keys = F
  BY <1>g DEF Keeps, Fields, ScannerFields
<1>2. PICK K, L, K2 : K = s.simple_keys /\ L = Len(K) /\ L \in Nat /\ K2 = t.simple_keys
  OBVIOUS
<1>3. DOMAIN K = 1..L /\ \A i \in 1..L : K[i] \in KeyRecord
  BY <1>2
<1>4. K2 = [i \in 1..L |-> Passed(K[i])]
  BY <1>f, <1>1, <1>2, <1>3
<1>5. \A i \in 1..L : /\ K2[i] \in KeyRecord /\ K2[i].possible = K[i].possible
                      /\ K2[i].token_number = K[i].token_number
                      /\ K2[i].index = K[i].index /\ K2[i].flow = K[i].flow
                      /\ K2[i].passed = (K[i].passed \/ K[i].possible)
  BY <1>3, <1>4 DEF KeyRecord, Passed
<1>6. K2 \in Seq(KeyRecord) /\ Len(K2) = L
  <2>1. K2 \in [1..L -> KeyRecord]
    BY <1>4, <1>5
  <2> QED BY <2>1, <1>2, SeqDef
<1> QED BY <1>1, <1>2, <1>5, <1>6

-----------------------------------------------------------------------------
(* Tokens of some types in a queue.                                               *)
(* What the scanner may put into the queue.                                       *)
Tok ==
    {t \in [typ : TokenTypes, val : {"", "1.1", "1.2", "!", "!h!"}] :
       t.typ = "TAG-DIRECTIVE" => t.val = "!h!"}

At(ts, T) == {i \in DOMAIN ts : ts[i].typ \in T}

(* How many of these there are.                                                   *)
Cnt(ts, T) == Cardinality(At(ts, T))

LEMMA CntType ==
  ASSUME NEW ts \in Seq(Tok), NEW T
  PROVE  IsFiniteSet(At(ts, T)) /\ Cnt(ts, T) \in Nat /\ Cnt(ts, T) <= Len(ts)
<1>1. PICK n \in Nat : n = Len(ts)
  OBVIOUS
<1>2. IsFiniteSet(1..n) /\ Cardinality(1..n) = n
  BY FS_Interval
<1>3. At(ts, T) \in SUBSET (1..n)
  BY <1>1 DEF At
<1>4. IsFiniteSet(At(ts, T)) /\ Cardinality(At(ts, T)) <= Cardinality(1..n)
  BY <1>2, <1>3, FS_Subset
<1>5. Cardinality(At(ts, T)) \in Nat
  BY <1>4, FS_CardinalityType
<1> QED BY <1>1, <1>2, <1>4, <1>5 DEF Cnt

LEMMA CntConcat ==
  ASSUME NEW a \in Seq(Tok), NEW b \in Seq(Tok), NEW T
  PROVE  Cnt(a \o b, T) = Cnt(a, T) + Cnt(b, T)
<1>m. PICK m \in Nat, n \in Nat : m = Len(a) /\ n = Len(b)
  OBVIOUS
<1>c. PICK c : c = a \o b
  OBVIOUS
<1>1. c = a \o b /\ m = Len(a) /\ n = Len(b) /\ m \in Nat /\ n \in Nat
  BY <1>m, <1>c
<1>2. /\ c \in Seq(Tok) /\ Len(c) = m + n
      /\ \A i \in 1..m + n : c[i] = IF i <= m THEN a[i] ELSE b[i - m]
  BY <1>1, ConcatProperties
<1>3. DOMAIN a = 1..m /\ DOMAIN b = 1..n /\ DOMAIN c = 1..m + n
  BY <1>1, <1>2
<1>4. PICK A, B, f : /\ A = At(a, T) /\ B = At(b, T) /\ f = [j \in B |-> m + j]
  OBVIOUS
<1>5. PICK D : D = {i \in m + 1..m + n : b[i - m].typ \in T}
  OBVIOUS
<1>6. IsFiniteSet(A) /\ IsFiniteSet(B)
  BY <1>4, CntType
<1>7. A \subseteq 1..m /\ B \subseteq 1..n /\ D \subseteq m + 1..m + n
  BY <1>3, <1>4, <1>5 DEF At
<1>8. f \in Bijection(B, D)
  <2>1. f \in [B -> D]
    <3> SUFFICES ASSUME NEW j \in B PROVE m + j \in D
      BY <1>4
    <3>1. j \in 1..n /\ b[j].typ \in T
      BY <1>3, <1>4 DEF At
    <3>2. m + j \in m + 1..m + n /\ (m + j) - m = j
      BY <1>1, <3>1
    <3> QED BY <1>5, <3>1, <3>2
  <2>2. \A i, j \in B : f[i] = f[j] => i = j
    BY <1>1, <1>4, <1>7
  <2>3. \A d \in D : \E j \in B : f[j] = d
    <3> SUFFICES ASSUME NEW d \in D PROVE \E j \in B : f[j] = d
      OBVIOUS
    <3>1. d - m \in 1..n /\ b[d - m].typ \in T /\ m + (d - m) = d
      BY <1>1, <1>5
    <3>2. d - m \in B
      BY <1>3, <1>4, <3>1 DEF At
    <3> QED BY <1>4, <3>1, <3>2
  <2> QED BY <2>1, <2>2, <2>3 DEF Bijection, Injection, Surjection, IsInjective
<1>9. IsFiniteSet(D) /\ Cardinality(D) = Cardinality(B)
  BY <1>6, <1>8, FS_Bijection DEF ExistsBijection
<1>10. At(c, T) = A \cup D
  <2>1. ASSUME NEW i \in At(c, T) PROVE i \in A \cup D
    <3>1. i \in 1..m + n /\ c[i].typ \in T
      BY <1>3 DEF At
    <3>2. CASE i <= m
      BY <1>1, <1>2, <1>3, <1>4, <3>1, <3>2 DEF At
    <3>3. CASE ~(i <= m)
      BY <1>1, <1>2, <1>5, <3>1, <3>3
    <3> QED BY <3>2, <3>3
  <2>2. ASSUME NEW i \in A PROVE i \in At(c, T)
    <3>1. i \in 1..m /\ a[i].typ \in T
      BY <1>3, <1>4 DEF At
    <3>2. i \in 1..m + n /\ c[i] = a[i]
      BY <1>1, <1>2, <3>1
    <3> QED BY <1>3, <3>1, <3>2 DEF At
  <2>3. ASSUME NEW i \in D PROVE i \in At(c, T)
    <3>1. i \in m + 1..m + n /\ b[i - m].typ \in T
      BY <1>5
    <3>2. i \in 1..m + n /\ c[i] = b[i - m]
      BY <1>1, <1>2, <3>1
    <3> QED BY <1>3, <3>1, <3>2 DEF At
  <2> QED BY <2>1, <2>2, <2>3
<1>11. A \cap D = {} /\ Cardinality({}) = 0
  BY <1>1, <1>7, FS_EmptySet
<1>12. Cardinality(A \cup D) = Cardinality(A) + Cardinality(D) - Cardinality(A \cap D)
  BY <1>6, <1>9, FS_Union
<1>13. Cardinality(A) \in Nat
  BY <1>6, FS_CardinalityType
<1>14. Cardinality(B) \in Nat
  BY <1>6, FS_CardinalityType
<1>15. Cardinality(A \cup D) = Cardinality(A) + Cardinality(B)
  <2>1. PICK x, y, z : x = Cardinality(A) /\ y = Cardinality(B) /\ z = Cardinality(A \cup D)
    OBVIOUS
  <2>2. x \in Nat /\ y \in Nat /\ z = x + y - 0
    BY <1>9, <1>11, <1>12, <1>13, <1>14, <2>1
  <2>3. z = x + y
    BY ONLY <2>2
  <2> QED BY <2>1, <2>3
<1> QED BY <1>1, <1>4, <1>10, <1>15 DEF Cnt

One(x, T) == IF x.typ \in T THEN 1 ELSE 0

LEMMA CntOne ==
  ASSUME NEW x \in Tok, NEW T
  PROVE  <<x>> \in Seq(Tok) /\ Cnt(<<x>>, T) = One(x, T)
<1>1. DOMAIN <<x>> = {1} /\ <<x>>[1] = x
  OBVIOUS
<1>2. CASE x.typ \in T
  <2>1. At(<<x>>, T) = {1}
    BY <1>1, <1>2 DEF At
  <2> QED BY <1>2, <2>1, FS_Singleton DEF Cnt, One
<1>3. CASE x.typ \notin T
  <2>1. At(<<x>>, T) = {}
    BY <1>1, <1>3 DEF At
  <2> QED BY <1>3, <2>1, FS_EmptySet DEF Cnt, One
<1> QED BY <1>2, <1>3

LEMMA CntAppend ==
  ASSUME NEW ts \in Seq(Tok), NEW x \in Tok, NEW T
  PROVE  Cnt(Append(ts, x), T) = Cnt(ts, T) + One(x, T)
<1>1. Append(ts, x) = ts \o <<x>>
  BY AppendIsConcat
<1>2. <<x>> \in Seq(Tok) /\ Cnt(<<x>>, T) = One(x, T)
  BY CntOne
<1>3. Cnt(ts \o <<x>>, T) = Cnt(ts, T) + Cnt(<<x>>, T)
  BY <1>2, CntConcat
<1> QED BY <1>1, <1>2, <1>3

LEMMA CntTail ==
  ASSUME NEW ts \in Seq(Tok), ts # <<>>, NEW T
  PROVE  /\ Head(ts) \in Tok /\ Tail(ts) \in Seq(Tok) /\ Len(Tail(ts)) = Len(ts) - 1
         /\ Cnt(ts, T) = Cnt(Tail(ts), T) + One(Head(ts), T)
<1>1. /\ Head(ts) \in Tok /\ Tail(ts) \in Seq(Tok) /\ Len(Tail(ts)) = Len(ts) - 1
  BY HeadTailProperties
<1>2. ts = <<Head(ts)>> \o Tail(ts)
  OBVIOUS
<1>o. <<Head(ts)>> \in Seq(Tok) /\ Cnt(<<Head(ts)>>, T) = One(Head(ts), T)
  BY <1>1, CntOne
<1>3. Cnt(<<Head(ts)>> \o Tail(ts), T) = Cnt(<<Head(ts)>>, T) + Cnt(Tail(ts), T)
  BY <1>1, <1>o, CntConcat
<1>4. Cnt(Tail(ts), T) \in Nat /\ One(Head(ts), T) \in Nat
  BY <1>1, CntType DEF One
<1>5. Cnt(ts, T) = One(Head(ts), T) + Cnt(Tail(ts), T)
  BY <1>2, <1>3, <1>o
<1> QED BY <1>1, <1>4, <1>5

LEMMA CntInsert ==
  ASSUME NEW ts \in Seq(Tok), NEW x \in Tok, NEW i \in 1..Len(ts) + 1, NEW T
  PROVE  /\ InsertAt(ts, i, x) \in Seq(Tok) /\ Len(InsertAt(ts, i, x)) = Len(ts) + 1
         /\ Cnt(InsertAt(ts, i, x), T) = Cnt(ts, T) + One(x, T)
<1>n. PICK n \in Nat : n = Len(ts)
  OBVIOUS
<1>ab. PICK a, b : a = SubSeq(ts, 1, i - 1) /\ b = SubSeq(ts, i, n)
  OBVIOUS
<1>1. /\ n = Len(ts) /\ n \in Nat /\ i \in 1..n + 1
      /\ a = SubSeq(ts, 1, i - 1) /\ b = SubSeq(ts, i, n)
  BY <1>n, <1>ab
<1>2. a \in Seq(Tok) /\ Len(a) = i - 1
  <2>1. \A j \in 1..i - 1 : ts[j] \in Tok
    BY <1>1
  <2> QED BY <1>1, <2>1, SubSeqProperties
<1>3. b \in Seq(Tok) /\ Len(b) = n - i + 1
  <2>1. \A j \in i..n : ts[j] \in Tok
    BY <1>1
  <2>2. i \in Int /\ n \in Int
    BY <1>1
  <2> QED BY <1>1, <2>1, SubSeqProperties
<1>4. ts = a \o b
  <2>0. 1 \in 1..Len(ts) + 1 /\ i - 1 \in 1 - 1..Len(ts) /\ n \in i - 1..Len(ts)
    BY <1>1
  <2>1. SubSeq(ts, 1, i - 1) \o SubSeq(ts, (i - 1) + 1, n) = SubSeq(ts, 1, n)
    BY <2>0, ConcatAdjacentSubSeq
  <2>2. (i - 1) + 1 = i
    BY <1>1
  <2> QED BY <1>1, <2>1, <2>2, SubSeqFull
<1>5. InsertAt(ts, i, x) = (a \o <<x>>) \o b
  BY <1>1 DEF InsertAt
<1>6. <<x>> \in Seq(Tok) /\ Len(<<x>>) = 1
  OBVIOUS
<1>7. a \o <<x>> \in Seq(Tok) /\ Len(a \o <<x>>) = i
  BY <1>1, <1>2, <1>6, ConcatProperties
<1>c. PICK c : c = a \o <<x>>
  OBVIOUS
<1>8. (a \o <<x>>) \o b \in Seq(Tok) /\ Len((a \o <<x>>) \o b) = n + 1
  <2>1. c \in Seq(Tok) /\ Len(c) = i
    BY <1>7, <1>c
  <2>2. c \o b \in Seq(Tok) /\ Len(c \o b) = Len(c) + Len(b)
    BY <1>3, <2>1, ConcatProperties
  <2>3. i \in Nat /\ n \in Nat /\ Len(c \o b) = i + (n - i + 1)
    BY <1>1, <1>3, <2>1, <2>2
  <2>4. Len(c \o b) = n + 1
    BY ONLY <2>3
  <2> QED BY <1>c, <2>2, <2>4
<1>9. Cnt((a \o <<x>>) \o b, T) = Cnt(a \o <<x>>, T) + Cnt(b, T)
  BY <1>3, <1>7, CntConcat
<1>o. <<x>> \in Seq(Tok) /\ Cnt(<<x>>, T) = One(x, T)
  BY CntOne
<1>10. Cnt(a \o <<x>>, T) = Cnt(a, T) + One(x, T)
  <2>1. Cnt(a \o <<x>>, T) = Cnt(a, T) + Cnt(<<x>>, T)
    BY <1>2, <1>o, CntConcat
  <2> QED BY <1>o, <2>1
<1>11. Cnt(ts, T) = Cnt(a, T) + Cnt(b, T)
  BY <1>2, <1>3, <1>4, CntConcat
<1>12. Cnt(a, T) \in Nat /\ Cnt(b, T) \in Nat /\ One(x, T) \in Nat
  BY <1>2, <1>3, CntType DEF One
<1>13. Cnt(InsertAt(ts, i, x), T) = (Cnt(a, T) + One(x, T)) + Cnt(b, T)
  BY <1>5, <1>9, <1>10
<1>14. Cnt(InsertAt(ts, i, x), T) = Cnt(ts, T) + One(x, T)
  BY <1>11, <1>12, <1>13
<1> QED BY <1>1, <1>5, <1>8, <1>14

(* k tokens of one type.                                                          *)
LEMMA CntEnds ==
  ASSUME NEW k \in Nat, NEW x \in Tok, NEW ends, ends = [i \in 1..k |-> x], NEW T
  PROVE  /\ ends \in Seq(Tok) /\ Len(ends) = k
         /\ Cnt(ends, T) = IF x.typ \in T THEN k ELSE 0
<1>1. ends \in [1..k -> Tok] /\ DOMAIN ends = 1..k
  OBVIOUS
<1>2. ends \in Seq(Tok) /\ Len(ends) = k
  BY <1>1, SeqDef
<1>3. CASE x.typ \in T
  <2>1. At(ends, T) = 1..k
    BY <1>1, <1>3 DEF At
  <2>2. Cardinality(1..k) = k
    BY FS_Interval
  <2> QED BY <1>2, <1>3, <2>1, <2>2 DEF Cnt
<1>4. CASE x.typ \notin T
  <2>1. At(ends, T) = {}
    BY <1>1, <1>4 DEF At
  <2> QED BY <1>2, <1>4, <2>1, FS_EmptySet DEF Cnt
<1> QED BY <1>3, <1>4

-----------------------------------------------------------------------------
(* A scanner whose fields fit together, and what a step of it may do to the       *)
(* blocks it has announced.                                                       *)
(* The indents grow from the -1 of the stream.                                    *)
Grown(levels) ==
    /\ levels \in Seq(Int) /\ Len(levels) >= 1 /\ levels[1] = -1
    /\ \A i \in 2..Len(levels) : levels[i - 1] < levels[i]

Typed(s) ==
    /\ DOMAIN s = Fields
    /\ s.column \in Nat /\ s.flow_level \in Nat /\ s.simple_key_allowed \in BOOLEAN
    /\ Grown(s.levels)
    /\ s.tokens \in Seq(Tok)
    /\ Len(s.simple_keys) = s.flow_level + 1

(* A state of the scanner whose tokens, with those to be queued next, have numbers *)
(* below b.                                                                        *)
Fit(s, b) == Typed(s) /\ KeysOK(s.simple_keys, s.by_tok, s.parsed, s.index, b)

Waits(s, j) == Pending(s.simple_keys, s.by_tok, s.parsed, j)

(* No key is given up on the way from s to t with its entry left behind.           *)
Settled(s, t) == Calm(s.simple_keys, s.by_tok, t.simple_keys, t.by_tok, s.parsed)

(* The line of every key that may come is passed.                                  *)
AllPassed(s) ==
    \A i \in 1..Len(s.simple_keys) : s.simple_keys[i].possible => s.simple_keys[i].passed

StreamEnds(s) == Cnt(s.tokens, {"STREAM-END"})

(* The blocks that the queue opens beyond those it ends, against the indents.      *)
Surplus(s) == Cnt(s.tokens, BlockStarts) - Cnt(s.tokens, {"BLOCK-END"}) - Len(s.levels)

Level(s, t) ==
    /\ Surplus(t) = Surplus(s) /\ StreamEnds(t) = StreamEnds(s)
    /\ Len(t.tokens) >= Len(s.tokens)

LEMMA KeepsTrans ==
  ASSUME NEW s, NEW t, NEW u, NEW S, NEW T, NEW U, Keeps(s, t, S), Keeps(t, u, T),
         S \subseteq U, T \subseteq U
  PROVE  Keeps(s, u, U)
  BY DEF Keeps

LEMMA KeepsMore ==
  ASSUME NEW s, NEW t, NEW S, NEW T, Keeps(s, t, S), S \subseteq T
  PROVE  Keeps(s, t, T)
  BY DEF Keeps

LEMMA SettledTrans ==
  ASSUME NEW s, NEW t, NEW u, s.parsed = t.parsed, Settled(s, t), Settled(t, u)
  PROVE  Settled(s, u)
<1>1. PICK K, B, K2, B2, K3, B3, p :
         /\ K = s.simple_keys /\ B = s.by_tok /\ K2 = t.simple_keys /\ B2 = t.by_tok
         /\ K3 = u.simple_keys /\ B3 = u.by_tok /\ p = s.parsed
         /\ Calm(K, B, K2, B2, p) /\ Calm(K2, B2, K3, B3, p)
  BY DEF Settled
<1>2. \A j : Pending(K3, B3, p, j) => j \in 1..Len(K3)
  <2> SUFFICES ASSUME NEW j, Pending(K3, B3, p, j) PROVE j \in 1..Len(K3)
    OBVIOUS
  <2>1. j \in 2..Len(K3)
    BY DEF Pending
  <2> QED BY <2>1
<1>3. \A j : Pending(K2, B2, p, j) => j \in 1..Len(K2)
  <2> SUFFICES ASSUME NEW j, Pending(K2, B2, p, j) PROVE j \in 1..Len(K2)
    OBVIOUS
  <2>1. j \in 2..Len(K2)
    BY DEF Pending
  <2> QED BY <2>1
<1>4. Calm(K, B, K3, B3, p)
  BY <1>1, <1>2, <1>3 DEF Calm
<1> QED BY <1>1, <1>4 DEF Settled

(* What a step keeps of a fit state keeps it fit.                                 *)
LEMMA AllowFits ==
  ASSUME NEW s, NEW b, Fit(s, b), NEW allowed \in BOOLEAN, NEW t, t = Allow(s, allowed)
  PROVE  /\ Fit(t, b) /\ Keeps(s, t, {"simple_key_allowed"}) /\ Settled(s, t) /\ Level(s, t)
         /\ t.simple_key_allowed = allowed
<1>1. DOMAIN s = Fields
  BY DEF Fit, Typed
<1>2. Keeps(s, t, {"simple_key_allowed"}) /\ t.simple_key_allowed = allowed
  BY <1>1, AllowKeeps
<1>3. /\ t.simple_keys = s.simple_keys /\ t.by_tok = s.by_tok /\ t.parsed = s.parsed
      /\ t.index = s.index /\ t.column = s.column /\ t.flow_level = s.flow_level
      /\ t.levels = s.levels /\ t.tokens = s.tokens
  BY <1>2 DEF Keeps, Fields, ScannerFields
<1>4. Fit(t, b)
  BY <1>2, <1>3 DEF Fit, Typed, Keeps
<1>5. Settled(s, t)
  BY <1>3 DEF Settled, Calm
<1>6. Level(s, t)
  <2>1. Len(t.tokens) >= Len(s.tokens)
    BY <1>3 DEF Fit, Typed
  <2> QED BY <1>3, <2>1 DEF Level, Surplus, StreamEnds
<1> QED BY <1>2, <1>4, <1>5, <1>6

LEMMA PutFits ==
  ASSUME NEW s, NEW b, Fit(s, b), NEW token \in Tok, NEW t, t = Put(s, token)
  PROVE  /\ Fit(t, b) /\ Keeps(s, t, {"tokens"}) /\ Settled(s, t)
         /\ t.tokens = Append(s.tokens, token) /\ Len(t.tokens) = Len(s.tokens) + 1
<1>1. DOMAIN s = Fields /\ s.tokens \in Seq(Tok)
  BY DEF Fit, Typed
<1>2. Keeps(s, t, {"tokens"}) /\ t.tokens = Append(s.tokens, token)
  BY <1>1, PutKeeps
<1>3. /\ t.simple_keys = s.simple_keys /\ t.by_tok = s.by_tok /\ t.parsed = s.parsed
      /\ t.index = s.index /\ t.column = s.column /\ t.flow_level = s.flow_level
      /\ t.levels = s.levels /\ t.simple_key_allowed = s.simple_key_allowed
  BY <1>2 DEF Keeps, Fields, ScannerFields
<1>4. t.tokens \in Seq(Tok) /\ Len(t.tokens) = Len(s.tokens) + 1
  BY <1>1, <1>2
<1>5. Fit(t, b)
  BY <1>2, <1>3, <1>4 DEF Fit, Typed, Keeps
<1>6. Settled(s, t)
  BY <1>3 DEF Settled, Calm
<1> QED BY <1>2, <1>4, <1>5, <1>6

(* Of the blocks and the ends of the stream only these tokens count.              *)
LEMMA PutLevel ==
  ASSUME NEW s, NEW b, Fit(s, b), NEW token \in Tok, NEW t, t = Put(s, token)
  PROVE  /\ token.typ \notin BlockStarts \cup {"BLOCK-END", "STREAM-END"} => Level(s, t)
         /\ token.typ = "STREAM-END" => Surplus(t) = Surplus(s) /\ StreamEnds(t) = StreamEnds(s) + 1
<1>1. PICK q : q = s.tokens /\ q \in Seq(Tok) /\ Len(q) \in Nat
  BY DEF Fit, Typed
<1>2. /\ t.tokens = Append(q, token) /\ Len(t.tokens) = Len(q) + 1 /\ t.levels = s.levels
  <2>1. Keeps(s, t, {"tokens"})
    BY PutFits
  <2>2. t.tokens = Append(s.tokens, token) /\ Len(t.tokens) = Len(s.tokens) + 1
    BY PutFits
  <2> QED BY <1>1, <2>1, <2>2 DEF Keeps, Fields, ScannerFields
<1>3. \A T : Cnt(t.tokens, T) = Cnt(q, T) + One(token, T)
  BY <1>1, <1>2, CntAppend
<1>4. \A T : Cnt(q, T) \in Nat
  BY <1>1, CntType
<1>5. CASE token.typ \notin BlockStarts \cup {"BLOCK-END", "STREAM-END"}
  <2>1. /\ One(token, BlockStarts) = 0 /\ One(token, {"BLOCK-END"}) = 0
        /\ One(token, {"STREAM-END"}) = 0
    BY <1>5 DEF One
  <2>2. /\ Cnt(t.tokens, BlockStarts) = Cnt(q, BlockStarts)
        /\ Cnt(t.tokens, {"BLOCK-END"}) = Cnt(q, {"BLOCK-END"})
        /\ Cnt(t.tokens, {"STREAM-END"}) = Cnt(q, {"STREAM-END"})
    BY <1>3, <1>4, <2>1
  <2>3. Len(t.tokens) >= Len(q)
    BY <1>1, <1>2
  <2> QED BY <1>1, <1>2, <1>5, <2>2, <2>3 DEF Level, Surplus, StreamEnds
<1>6. CASE token.typ = "STREAM-END"
  <2>1. /\ One(token, BlockStarts) = 0 /\ One(token, {"BLOCK-END"}) = 0
        /\ One(token, {"STREAM-END"}) = 1
    BY <1>6 DEF One, BlockStarts
  <2>2. /\ Cnt(t.tokens, BlockStarts) = Cnt(q, BlockStarts)
        /\ Cnt(t.tokens, {"BLOCK-END"}) = Cnt(q, {"BLOCK-END"})
        /\ Cnt(t.tokens, {"STREAM-END"}) = Cnt(q, {"STREAM-END"}) + 1
    BY <1>3, <1>4, <2>1
  <2> QED BY <1>1, <1>2, <1>6, <2>2 DEF Surplus, StreamEnds, BlockStarts
<1> QED BY <1>5, <1>6 DEF BlockStarts

-----------------------------------------------------------------------------
(* Indents.                                                                       *)
LEMMA LevelTrans ==
  ASSUME NEW s, NEW t, NEW u, Typed(s), Typed(t), Typed(u), Level(s, t), Level(t, u)
  PROVE  Level(s, u)
<1>1. \A q : Typed(q) => Len(q.tokens) \in Nat
  <2>1. ASSUME NEW q, Typed(q) PROVE Len(q.tokens) \in Nat
    <3>1. q.tokens \in Seq(Tok)
      BY <2>1 DEF Typed
    <3> QED BY ONLY <3>1
  <2> QED BY <2>1
<1>2. Len(s.tokens) \in Nat /\ Len(t.tokens) \in Nat /\ Len(u.tokens) \in Nat
  BY <1>1
<1> QED BY <1>2 DEF Level

(* The numbers that Surplus adds up.                                              *)
LEMMA SurplusType ==
  ASSUME NEW s, Typed(s)
  PROVE  /\ Cnt(s.tokens, BlockStarts) \in Nat /\ Cnt(s.tokens, {"BLOCK-END"}) \in Nat
         /\ Len(s.levels) \in Nat /\ StreamEnds(s) \in Nat /\ StreamEnds(s) <= Len(s.tokens)
         /\ Len(s.tokens) \in Nat
<1>1. PICK q : q = s.tokens /\ q \in Seq(Tok)
  BY DEF Typed
<1>2. \A T : Cnt(q, T) \in Nat /\ Cnt(q, T) <= Len(q)
  BY <1>1, CntType
<1>3. Len(s.levels) \in Nat
  BY DEF Typed, Grown
<1> QED BY <1>1, <1>2, <1>3 DEF StreamEnds

(* Of the indents up to a column there is an innermost one, and these are left.   *)
LEMMA Depth ==
  ASSUME NEW l, Grown(l), NEW column \in Int, column >= -1
  PROVE  \E n \in DOMAIN l : l[n] <= column /\ \A m \in n + 1..Len(l) : l[m] > column
<1>1. PICK k \in Nat : k = Len(l) /\ k >= 1
  BY DEF Grown
<1>2. /\ DOMAIN l = 1..k /\ l[1] = -1 /\ \A i \in 1..k : l[i] \in Int
  BY <1>1 DEF Grown
<1>3. PICK D : D = {d \in 0..k - 1 : l[k - d] <= column}
  OBVIOUS
<1>4. D \in SUBSET Nat /\ D # {}
  <2>1. k - 1 \in 0..k - 1 /\ k - (k - 1) = 1
    BY <1>1
  <2>2. k - 1 \in D
    BY <1>2, <1>3, <2>1
  <2> QED BY <1>3, <2>2
<1>5. PICK d \in D : \A e \in D : d <= e
  BY <1>4, LeastMember
<1>6. k - d \in 1..k /\ l[k - d] <= column /\ d \in 0..k - 1
  BY <1>1, <1>3
<1>7. ASSUME NEW m \in (k - d) + 1..k PROVE l[m] > column
  <2>1. k - m \in 0..k - 1 /\ k - (k - m) = m /\ ~(d <= k - m) /\ m \in 1..k
    BY <1>1, <1>6
  <2>2. k - m \notin D
    BY <1>5, <2>1
  <2> QED BY <1>2, <1>3, <2>1, <2>2
<1> QED BY <1>1, <1>2, <1>6, <1>7

LEMMA Shallower ==
  ASSUME NEW l, Grown(l), NEW n \in 1..Len(l)
  PROVE  Grown(SubSeq(l, 1, n)) /\ Len(SubSeq(l, 1, n)) = n
<1>1. PICK k \in Nat : k = Len(l) /\ n \in 1..k
  BY DEF Grown
<1>2. l \in Seq(Int) /\ l[1] = -1 /\ \A i \in 2..k : l[i - 1] < l[i]
  BY <1>1 DEF Grown
<1>3. PICK q : q = SubSeq(l, 1, n)
  OBVIOUS
<1>4. q \in Seq(Int) /\ Len(q) = n /\ \A i \in 1..n : q[i] = l[i]
  <2>1. \A i \in 1..n : l[i] \in Int
    BY <1>1, <1>2
  <2>2. n \in Int /\ n >= 1
    BY <1>1
  <2> QED BY <1>3, <2>1, <2>2, <1>2, SubSeqProperties
<1>5. \A i \in 2..n : q[i - 1] < q[i]
  <2> SUFFICES ASSUME NEW i \in 2..n PROVE q[i - 1] < q[i]
    OBVIOUS
  <2>1. i \in 1..n /\ i - 1 \in 1..n /\ i \in 2..k
    BY <1>1
  <2>2. q[i] = l[i] /\ q[i - 1] = l[i - 1]
    BY <1>4, <2>1
  <2> QED BY <1>2, <2>1, <2>2
<1> QED BY <1>1, <1>2, <1>3, <1>4, <1>5 DEF Grown

LEMMA Deeper ==
  ASSUME NEW l, Grown(l), NEW column \in Int, Last(l) < column
  PROVE  Grown(Append(l, column)) /\ Len(Append(l, column)) = Len(l) + 1
<1>1. PICK k \in Nat : k = Len(l) /\ k >= 1
  BY DEF Grown
<1>2. l \in Seq(Int) /\ l[1] = -1 /\ l[k] < column /\ \A i \in 2..k : l[i - 1] < l[i]
  BY <1>1 DEF Grown, Last
<1>3. PICK q : q = Append(l, column)
  OBVIOUS
<1>4. q \in Seq(Int) /\ Len(q) = k + 1 /\ q[k + 1] = column /\ \A i \in 1..k : q[i] = l[i]
  BY <1>1, <1>2, <1>3
<1>5. \A i \in 2..k + 1 : q[i - 1] < q[i]
  <2> SUFFICES ASSUME NEW i \in 2..k + 1 PROVE q[i - 1] < q[i]
    OBVIOUS
  <2>1. CASE i = k + 1
    BY <1>1, <1>2, <1>4, <2>1
  <2>2. CASE i # k + 1
    <3>1. i \in 1..k /\ i - 1 \in 1..k /\ i \in 2..k
      BY <1>1, <2>2
    <3>2. q[i] = l[i] /\ q[i - 1] = l[i - 1]
      BY <1>4, <3>1
    <3> QED BY <1>2, <3>1, <3>2
  <2> QED BY <2>1, <2>2
<1> QED BY <1>1, <1>2, <1>3, <1>4, <1>5 DEF Grown

LEMMA UnrollFits ==
  ASSUME NEW s, NEW b, Fit(s, b), NEW column \in Int, column >= -1, NEW t,
         t = UnrollIndent(s, column)
  PROVE  Fit(t, b) /\ Keeps(s, t, {"levels", "tokens"}) /\ Settled(s, t) /\ Level(s, t)
<1>0. DOMAIN s = Fields
  BY DEF Fit, Typed
<1>1. CASE s.flow_level > 0
  <2>1. t = s
    BY <1>1 DEF UnrollIndent
  <2>2. Len(s.tokens) \in Nat
    BY DEF Fit, Typed
  <2> QED BY <1>0, <2>1, <2>2 DEF Keeps, Settled, Calm, Level
<1>2. CASE ~(s.flow_level > 0)
  <2>1. PICK depth, ends :
           /\ depth \in DOMAIN s.levels
           /\ ends = [i \in 1..(Len(s.levels) - depth) |-> Token("BLOCK-END")]
           /\ t = [s EXCEPT !.levels = SubSeq(s.levels, 1, depth), !.tokens = s.tokens \o ends]
    <3>1. \E n \in DOMAIN s.levels :
             s.levels[n] <= column /\ \A m \in n + 1..Len(s.levels) : s.levels[m] > column
      BY Depth DEF Fit, Typed
    <3> QED BY <1>2, <3>1 DEF UnrollIndent
  <2>2. /\ Keeps(s, t, {"levels", "tokens"})
        /\ t.levels = SubSeq(s.levels, 1, depth) /\ t.tokens = s.tokens \o ends
    BY <1>0, <2>1 DEF Keeps, Fields, ScannerFields
  <2>d. depth \in 1..Len(s.levels) /\ Len(s.levels) \in Nat
    BY SMTT(30), <2>1 DEF Fit, Typed, Grown
  <2>k. PICK k \in Nat : k = Len(s.levels)
    BY <2>d
  <2>3. PICK n \in Nat : n = k - depth
    BY ONLY <2>d, <2>k
  <2>4. depth \in 1..k /\ n = k - depth
    BY ONLY <2>3, <2>d, <2>k
  <2>5. Token("BLOCK-END") \in Tok /\ Token("BLOCK-END").typ = "BLOCK-END"
    BY DEF Token, Tok, TokenTypes
  <2>6. /\ ends \in Seq(Tok) /\ Len(ends) = n
        /\ Cnt(ends, {"BLOCK-END"}) = n
        /\ Cnt(ends, BlockStarts) = 0 /\ Cnt(ends, {"STREAM-END"}) = 0
    <3>1. ends = [i \in 1..n |-> Token("BLOCK-END")]
      BY <2>1, <2>3, <2>k
    <3>2. \A T : /\ ends \in Seq(Tok) /\ Len(ends) = n
                 /\ Cnt(ends, T) = IF Token("BLOCK-END").typ \in T THEN n ELSE 0
      BY <2>5, <3>1, CntEnds
    <3>3. "BLOCK-END" \notin BlockStarts
      BY DEF BlockStarts
    <3> QED BY <2>5, <3>2, <3>3
  <2>7. /\ t.tokens \in Seq(Tok) /\ Len(t.tokens) = Len(s.tokens) + n
    <3>1. PICK q : q = s.tokens /\ q \in Seq(Tok)
      BY DEF Fit, Typed
    <3>2. q \o ends \in Seq(Tok) /\ Len(q \o ends) = Len(q) + Len(ends)
      BY <2>6, <3>1, ConcatProperties
    <3> QED BY <2>2, <2>6, <3>1, <3>2
  <2>8. Grown(t.levels) /\ Len(t.levels) = depth
    BY <2>2, <2>4, <2>k, Shallower DEF Fit, Typed
  <2>9. /\ t.simple_keys = s.simple_keys /\ t.by_tok = s.by_tok /\ t.parsed = s.parsed
        /\ t.index = s.index /\ t.column = s.column /\ t.flow_level = s.flow_level
        /\ t.simple_key_allowed = s.simple_key_allowed
    BY <2>2 DEF Keeps, Fields, ScannerFields
  <2>10. Fit(t, b)
    BY <2>2, <2>7, <2>8, <2>9 DEF Fit, Typed, Keeps
  <2>11. Settled(s, t)
    BY <2>9 DEF Settled, Calm
  <2>12. Level(s, t)
    <3>1. PICK q : q = s.tokens /\ q \in Seq(Tok) /\ Len(q) \in Nat
      BY DEF Fit, Typed
    <3>2. \A T : Cnt(t.tokens, T) = Cnt(q, T) + Cnt(ends, T)
      BY <2>2, <2>6, <3>1, CntConcat
    <3>3. \A T : Cnt(q, T) \in Nat
      BY <3>1, CntType
    <3>4. /\ Cnt(t.tokens, BlockStarts) = Cnt(q, BlockStarts)
          /\ Cnt(t.tokens, {"BLOCK-END"}) = Cnt(q, {"BLOCK-END"}) + n
          /\ Cnt(t.tokens, {"STREAM-END"}) = Cnt(q, {"STREAM-END"})
      BY <2>6, <3>2, <3>3
    <3>5. Surplus(t) = Surplus(s)
      <4>1. PICK x \in Nat, y \in Nat : x = Cnt(q, BlockStarts) /\ y = Cnt(q, {"BLOCK-END"})
        BY <3>3
      <4>2. Surplus(s) = x - y - k
        BY <2>k, <3>1, <4>1 DEF Surplus
      <4>3. Surplus(t) = x - (y + n) - depth
        BY <2>8, <3>4, <4>1 DEF Surplus
      <4>4. x - (y + n) - depth = x - y - k
        BY <2>4
      <4> QED BY <4>2, <4>3, <4>4
    <3>6. Len(t.tokens) >= Len(q)
      BY <2>7, <2>3, <3>1
    <3> QED BY <3>1, <3>4, <3>5, <3>6 DEF Level, StreamEnds
  <2> QED BY <2>2, <2>10, <2>11, <2>12
<1> QED BY <1>1, <1>2

LEMMA FailedIs ==
  ASSUME NEW s, DOMAIN s = Fields, NEW t, t = Failed(s)
  PROVE  t.error = "scanner" /\ t.error # "none" /\ DOMAIN t = Fields /\ t.simple_keys = s.simple_keys
         /\ t.flow_level = s.flow_level
  BY DEF Failed, Fields, ScannerFields

(* A token that is queued or inserted before a queued one.                        *)
LEMMA InsertFits ==
  ASSUME NEW s, NEW b, Fit(s, b), NEW token \in Tok, NEW pos \in Int, pos <= Len(s.tokens),
         NEW t, t = InsertToken(s, pos, token)
  PROVE  /\ Fit(t, b) /\ Keeps(s, t, {"tokens"}) /\ Settled(s, t)
         /\ Len(t.tokens) = Len(s.tokens) + 1
         /\ \A T : Cnt(t.tokens, T) = Cnt(s.tokens, T) + One(token, T)
<1>1. PICK n, q : n \in Nat /\ q = s.tokens /\ q \in Seq(Tok) /\ n = Len(q)
  BY DEF Fit, Typed
<1>2. DOMAIN s = Fields
  BY DEF Fit, Typed
<1>3. /\ Keeps(s, t, {"tokens"})
      /\ t.tokens = IF pos < 0 THEN Append(q, token) ELSE InsertAt(q, pos + 1, token)
  BY <1>1, <1>2, InsertKeeps
<1>4. /\ t.tokens \in Seq(Tok) /\ Len(t.tokens) = n + 1
      /\ \A T : Cnt(t.tokens, T) = Cnt(q, T) + One(token, T)
  <2>1. CASE pos < 0
    <3>1. t.tokens = Append(q, token)
      BY <1>3, <2>1
    <3>2. Append(q, token) \in Seq(Tok) /\ Len(Append(q, token)) = n + 1
      BY <1>1
    <3> QED BY <1>1, <3>1, <3>2, CntAppend
  <2>2. CASE ~(pos < 0)
    <3>1. t.tokens = InsertAt(q, pos + 1, token) /\ pos + 1 \in 1..n + 1
      BY <1>1, <1>3, <2>2
    <3>2. /\ InsertAt(q, pos + 1, token) \in Seq(Tok) /\ Len(InsertAt(q, pos + 1, token)) = n + 1
          /\ \A T : Cnt(InsertAt(q, pos + 1, token), T) = Cnt(q, T) + One(token, T)
      BY <1>1, <3>1, CntInsert
    <3> QED BY <3>1, <3>2
  <2> QED BY <2>1, <2>2
<1>5. /\ t.simple_keys = s.simple_keys /\ t.by_tok = s.by_tok /\ t.parsed = s.parsed
      /\ t.index = s.index /\ t.column = s.column /\ t.flow_level = s.flow_level
      /\ t.levels = s.levels /\ t.simple_key_allowed = s.simple_key_allowed
  BY <1>3 DEF Keeps, Fields, ScannerFields
<1>6. Fit(t, b)
  BY <1>3, <1>4, <1>5 DEF Fit, Typed, Keeps
<1>7. Settled(s, t)
  BY <1>5 DEF Settled, Calm
<1> QED BY <1>1, <1>3, <1>4, <1>6, <1>7

(* roll_indent: the level that it adds has its opening token in the queue.         *)
LEMMA RollFits ==
  ASSUME NEW s, NEW b, Fit(s, b), NEW column \in Int, NEW number \in Int,
         number <= NextNumber(s),
         NEW type \in BlockStarts,
         NEW t, t = RollIndent(s, column, number, type), t.error = "none"
  PROVE  Fit(t, b) /\ Keeps(s, t, {"levels", "tokens"}) /\ Settled(s, t) /\ Level(s, t)
<1>0. DOMAIN s = Fields /\ s.parsed \in Nat
  BY DEF Fit, Typed, KeysOK
<1>1. CASE s.flow_level > 0 \/ indent(s) >= column
  <2>1. t = s
    BY <1>1 DEF RollIndent
  <2>2. Len(s.tokens) \in Nat
    BY DEF Fit, Typed
  <2> QED BY <1>0, <2>1, <2>2 DEF Keeps, Settled, Calm, Level
<1>2. CASE ~(s.flow_level > 0 \/ indent(s) >= column)
  <2>1. PICK d : d = [s EXCEPT !.levels = Append(s.levels, column)]
    OBVIOUS
  <2>2. PICK pos : pos = IF number > -1 THEN number - s.parsed ELSE number
    OBVIOUS
  <2>3. t = IF Len(s.levels) > max_indents THEN Failed(d) ELSE InsertToken(d, pos, Token(type))
    BY <1>2, <2>1, <2>2 DEF RollIndent
  <2>4. Keeps(s, d, {"levels"}) /\ d.levels = Append(s.levels, column)
    BY <1>0, <2>1 DEF Keeps, Fields, ScannerFields
  <2>5. t = InsertToken(d, pos, Token(type))
    BY <2>3, <2>4, FailedIs DEF Keeps
  <2>6. Grown(d.levels) /\ Len(d.levels) = Len(s.levels) + 1
    <3>1. Grown(s.levels) /\ Last(s.levels) < column
      <4>1. Grown(s.levels)
        BY DEF Fit, Typed
      <4>2. Last(s.levels) \in Int
        BY <4>1 DEF Grown, Last
      <4> QED BY <1>2, <4>1, <4>2 DEF indent
    <3> QED BY <2>4, <3>1, Deeper
  <2>7. /\ d.simple_keys = s.simple_keys /\ d.by_tok = s.by_tok /\ d.parsed = s.parsed
        /\ d.index = s.index /\ d.column = s.column /\ d.flow_level = s.flow_level
        /\ d.tokens = s.tokens /\ d.simple_key_allowed = s.simple_key_allowed
    BY <2>4 DEF Keeps, Fields, ScannerFields
  <2>8. Fit(d, b) /\ Settled(s, d)
    BY <2>4, <2>6, <2>7 DEF Fit, Typed, Keeps, Settled, Calm
  <2>9. pos \in Int /\ pos <= Len(d.tokens)
    <3>1. PICK n \in Nat, p \in Nat : n = Len(s.tokens) /\ p = s.parsed
      BY <1>0 DEF Fit, Typed
    <3> QED BY <2>2, <2>7, <3>1 DEF NextNumber
  <2>10. Token(type) \in Tok /\ Token(type).typ = type
    BY DEF Token, Tok, TokenTypes, BlockStarts
  <2>11. /\ Fit(t, b) /\ Keeps(d, t, {"tokens"}) /\ Settled(d, t)
         /\ Len(t.tokens) = Len(d.tokens) + 1
         /\ \A T : Cnt(t.tokens, T) = Cnt(d.tokens, T) + One(Token(type), T)
    BY <2>5, <2>8, <2>9, <2>10, InsertFits
  <2>12. Keeps(s, t, {"levels", "tokens"})
    BY <2>4, <2>11, KeepsTrans
  <2>13. Settled(s, t)
    BY <2>7, <2>8, <2>11, SettledTrans
  <2>14. Level(s, t)
    <3>q. PICK q \in Seq(Tok) : q = s.tokens
      BY DEF Fit, Typed
    <3>n. PICK n \in Nat, k \in Nat : n = Len(q) /\ k = Len(s.levels)
      BY DEF Fit, Typed, Grown
    <3>1. q = s.tokens /\ q \in Seq(Tok) /\ n = Len(q) /\ k = Len(s.levels)
      BY <3>q, <3>n
    <3>2. /\ One(Token(type), BlockStarts) = 1 /\ One(Token(type), {"BLOCK-END"}) = 0
          /\ One(Token(type), {"STREAM-END"}) = 0
      BY <2>10 DEF One, BlockStarts
    <3>3. Len(t.levels) = k + 1 /\ t.levels = d.levels
      BY <2>6, <2>11, <3>1 DEF Keeps, Fields, ScannerFields
    <3>4. PICK x \in Nat, y \in Nat, z \in Nat :
             x = Cnt(q, BlockStarts) /\ y = Cnt(q, {"BLOCK-END"}) /\ z = Cnt(q, {"STREAM-END"})
      BY <3>1, CntType
    <3>5. /\ Cnt(t.tokens, BlockStarts) = x + 1
          /\ Cnt(t.tokens, {"BLOCK-END"}) = y
          /\ Cnt(t.tokens, {"STREAM-END"}) = z
      BY <2>7, <2>11, <3>1, <3>2, <3>4
    <3>6. Surplus(s) = x - y - k
      BY <3>1, <3>4 DEF Surplus
    <3>7. Surplus(t) = (x + 1) - y - (k + 1)
      BY <3>3, <3>5 DEF Surplus
    <3>8. StreamEnds(t) = StreamEnds(s)
      BY <3>1, <3>4, <3>5 DEF StreamEnds
    <3>9. Len(t.tokens) = n + 1
      BY <2>7, <2>11, <3>1
    <3> QED BY <3>1, <3>6, <3>7, <3>8, <3>9 DEF Level
  <2> QED BY <2>11, <2>12, <2>13, <2>14
<1> QED BY <1>1, <1>2

-----------------------------------------------------------------------------
(* Setting and removing a key.                                                    *)
(* The levels of flow, and what steps that touch only the keys leave.              *)
LEMMA KeyStep ==
  ASSUME NEW s, NEW t, Typed(s), Keeps(s, t, {"simple_keys", "by_tok"}),
         Len(t.simple_keys) = Len(s.simple_keys)
  PROVE  /\ Typed(t) /\ Level(s, t)
         /\ t.parsed = s.parsed /\ t.index = s.index /\ t.tokens = s.tokens
<1>1. /\ t.parsed = s.parsed /\ t.index = s.index /\ t.column = s.column
      /\ t.flow_level = s.flow_level /\ t.levels = s.levels /\ t.tokens = s.tokens
      /\ t.simple_key_allowed = s.simple_key_allowed
  BY DEF Keeps, Fields, ScannerFields
<1>2. Typed(t)
  BY <1>1 DEF Typed, Keeps
<1>3. Len(s.tokens) \in Nat
  BY DEF Typed
<1> QED BY <1>1, <1>2, <1>3 DEF Level, Surplus, StreamEnds

(* remove_simple_key.                                                             *)
LEMMA RemoveFits ==
  ASSUME NEW s, NEW b, Fit(s, b), NEW t, t = RemoveSimpleKey(s), t.error = "none"
  PROVE  /\ Fit(t, b) /\ Keeps(s, t, {"simple_keys", "by_tok"}) /\ Settled(s, t) /\ Level(s, t)
         /\ Len(t.simple_keys) = Len(s.simple_keys)
         /\ ~t.simple_keys[Len(t.simple_keys)].possible
         /\ AllPassed(s) => AllPassed(t)
         /\ Waits(t, Len(t.simple_keys)) => Waits(s, Len(t.simple_keys))
<1>l. PICK L \in Nat : L = Len(s.simple_keys) /\ L >= 1
  BY DEF Fit, KeysOK
<1>p. PICK K, B, p, x : K = s.simple_keys /\ B = s.by_tok /\ p = s.parsed /\ x = s.index
  OBVIOUS
<1>k. /\ K = s.simple_keys /\ B = s.by_tok /\ p = s.parsed /\ x = s.index
      /\ L = Len(K) /\ L >= 1 /\ K \in Seq(KeyRecord) /\ KeysOK(K, B, p, x, b)
  BY <1>l, <1>p DEF Fit, KeysOK
<1>0. DOMAIN s = Fields /\ Typed(s)
  BY DEF Fit, Typed
<1>1. CASE ~K[L].possible
  <2>1. t = s
    BY <1>1, <1>k DEF RemoveSimpleKey
  <2>2. Len(s.tokens) \in Nat
    BY <1>0 DEF Typed
  <2> QED BY <1>0, <1>1, <1>k, <2>1, <2>2 DEF Keeps, Settled, Calm, Level
<1>2. CASE K[L].possible
  <2>1. PICK key, n, w :
           /\ key \in KeyRecord /\ n \in Nat
           /\ key = K[L] /\ n = key.token_number /\ w = WithKey(s, L, GivenUp(key))
    <3>1. K[L] \in KeyRecord /\ K[L].token_number \in Nat
      BY <1>k, KeyFields
    <3> QED BY <3>1
  <2>2. t = IF key.required THEN Failed(s) ELSE Forget(w, n)
    BY <1>2, <1>k, <2>1 DEF RemoveSimpleKey
  <2>3. t = Forget(w, n)
    BY <1>0, <2>2, FailedIs
  <2>4. /\ GivenUp(key) \in KeyRecord /\ GivenUp(key).possible = FALSE
        /\ GivenUp(key).token_number = n
    BY <2>1, GivenUpIs
  <2>5. /\ Keeps(s, w, {"simple_keys"})
        /\ w.simple_keys \in Seq(KeyRecord) /\ Len(w.simple_keys) = L
        /\ w.simple_keys[L] = GivenUp(key)
        /\ \A i \in 1..L : i # L => w.simple_keys[i] = K[i]
    <3>1. L \in 1..L
      BY <1>k
    <3> QED BY <1>0, <1>k, <2>1, <2>4, <3>1, WithKeyKeeps
  <2>6. Keeps(w, t, {"by_tok"}) /\ Without(w.by_tok, t.by_tok, n)
    BY <2>3, <2>5, ForgetKeeps DEF Keeps
  <2>7. Keeps(s, t, {"simple_keys", "by_tok"})
    BY <2>5, <2>6, KeepsTrans
  <2>8. t.simple_keys = w.simple_keys /\ w.by_tok = B
    BY <1>k, <2>5, <2>6 DEF Keeps, Fields, ScannerFields
  <2>9. Typed(t) /\ Level(s, t) /\ t.parsed = p /\ t.index = x
    BY <1>0, <1>k, <2>5, <2>7, <2>8, KeyStep
  <2>10. PICK K2, B2 : K2 = t.simple_keys /\ B2 = t.by_tok
    OBVIOUS
  <2>11. /\ K2 \in Seq(KeyRecord) /\ Len(K2) = Len(K)
         /\ \A i \in 1..Len(K) : i # Len(K) => K2[i] = K[i]
         /\ ~K2[Len(K)].possible /\ K2[Len(K)].token_number = K[Len(K)].token_number
         /\ K[Len(K)].possible /\ Without(B, B2, K[Len(K)].token_number)
    BY <1>2, <1>k, <2>1, <2>4, <2>5, <2>6, <2>8, <2>10
  <2>12. KeysOK(K2, B2, p, x, b) /\ Calm(K, B, K2, B2, p)
    BY <1>k, <2>11, KeysRemoved
  <2>13. Fit(t, b) /\ Settled(s, t)
    BY <1>k, <2>9, <2>10, <2>12 DEF Fit, Settled
  <2>14. Waits(t, L) => Waits(s, L)
    BY <1>k, <2>9, <2>10, <2>11, <2>12 DEF Waits, Calm
  <2>15. AllPassed(s) => AllPassed(t)
    BY <1>k, <2>10, <2>11 DEF AllPassed
  <2> QED BY <1>k, <2>7, <2>9, <2>10, <2>11, <2>13, <2>14, <2>15
<1> QED BY <1>1, <1>2

LEMMA ErrorKept ==
  ASSUME NEW s, DOMAIN s = Fields, NEW i, NEW key, NEW n, NEW l
  PROVE  /\ DOMAIN WithKey(s, i, key) = Fields /\ WithKey(s, i, key).error = s.error
         /\ DOMAIN Enter(s, n, l) = Fields /\ Enter(s, n, l).error = s.error
         /\ DOMAIN Forget(s, n) = Fields /\ Forget(s, n).error = s.error
<1>1. DOMAIN WithKey(s, i, key) = Fields /\ WithKey(s, i, key).error = s.error
  BY DEF WithKey, Fields, ScannerFields
<1>2. Keeps(s, Enter(s, n, l), {"by_tok"})
  BY EnterKeeps
<1>3. Keeps(s, Forget(s, n), {"by_tok"})
  BY ForgetKeeps
<1> QED BY <1>1, <1>2, <1>3 DEF Keeps, Fields, ScannerFields

LEMMA RemoveDomain ==
  ASSUME NEW s, DOMAIN s = Fields, NEW t, t = RemoveSimpleKey(s)
  PROVE  DOMAIN t = Fields
<1>1. PICK top, key : top = Len(s.simple_keys) /\ key = s.simple_keys[top]
  OBVIOUS
<1>2. PICK w : w = WithKey(s, top, GivenUp(key))
  OBVIOUS
<1>3. DOMAIN w = Fields
  BY <1>2, ErrorKept
<1>4. \/ t = s \/ t = Failed(s) \/ t = Forget(w, key.token_number)
  BY <1>1, <1>2 DEF RemoveSimpleKey
<1> QED BY <1>3, <1>4, ErrorKept, FailedIs

(* save_simple_key: where a key may stand, none is given up but still entered.    *)
LEMMA SaveFits ==
  ASSUME NEW s, NEW b, Fit(s, b), b = NextNumber(s), NEW token,
         s.simple_key_allowed => ~Waits(s, Len(s.simple_keys)),
         NEW t, t = SaveSimpleKey(s, token), t.error = "none"
  PROVE  /\ Fit(t, b + 1) /\ Keeps(s, t, {"simple_keys", "by_tok"}) /\ Settled(s, t)
         /\ Level(s, t) /\ Len(t.simple_keys) = Len(s.simple_keys)
         /\ token.typ \in {"FLOW-SEQUENCE-START", "FLOW-MAPPING-START"} =>
               \A i \in 1..Len(t.simple_keys) :
                  t.simple_keys[i].possible /\ t.simple_keys[i].token_number = b =>
                     t.simple_keys[i].flow
<1>0. DOMAIN s = Fields /\ Typed(s)
  BY DEF Fit, Typed
<1>b. b \in Nat /\ b + 1 \in Nat /\ b <= b + 1
  BY DEF Fit, KeysOK
<1>1. CASE ~s.simple_key_allowed
  <2>1. t = s
    BY <1>1 DEF SaveSimpleKey
  <2>2. Len(s.tokens) \in Nat
    BY <1>0 DEF Typed
  <2>3. Fit(t, b + 1)
    <3>1. KeysOK(s.simple_keys, s.by_tok, s.parsed, s.index, b)
      BY DEF Fit
    <3>2. KeysOK(s.simple_keys, s.by_tok, s.parsed, s.index, b + 1)
      BY <1>b, <3>1, KeysBelow
    <3> QED BY <1>0, <2>1, <3>2 DEF Fit
  <2>4. \A i \in 1..Len(t.simple_keys) : t.simple_keys[i].token_number # b
    <3>1. \A i \in 1..Len(s.simple_keys) :
             s.simple_keys[i].token_number \in Nat /\ s.simple_keys[i].token_number < b
      BY KeyFields DEF Fit, KeysOK
    <3> QED BY <1>b, <2>1, <3>1
  <2>5. Keeps(s, t, {"simple_keys", "by_tok"}) /\ Settled(s, t) /\ Level(s, t)
    BY <1>0, <2>1, <2>2 DEF Keeps, Settled, Calm, Level
  <2> QED BY <2>1, <2>3, <2>4, <2>5
<1>2. CASE s.simple_key_allowed
  <2>1. PICK free, key, top, w :
           /\ free = RemoveSimpleKey(s) /\ top = Len(s.simple_keys)
           /\ key = [possible |-> TRUE,
                     required |-> s.flow_level = 0 /\ indent(s) = s.column,
                     token_number |-> b, passed |-> FALSE, index |-> s.index,
                     column |-> s.column,
                     flow |-> token.typ \in {"FLOW-SEQUENCE-START", "FLOW-MAPPING-START"}]
           /\ w = WithKey(free, top, key)
    OBVIOUS
  <2>2. t = Enter(w, b, top)
    BY <1>2, <2>1 DEF SaveSimpleKey
  <2>3. free.error = "none" /\ DOMAIN free = Fields /\ DOMAIN w = Fields
    <3>1. DOMAIN free = Fields
      BY <1>0, <2>1, RemoveDomain
    <3>2. DOMAIN w = Fields /\ w.error = free.error
      BY <2>1, <3>1, ErrorKept
    <3>3. t.error = w.error
      BY <2>2, <3>2, ErrorKept
    <3> QED BY <3>1, <3>2, <3>3
  <2>4. /\ Fit(free, b) /\ Keeps(s, free, {"simple_keys", "by_tok"}) /\ Settled(s, free)
        /\ Level(s, free) /\ Len(free.simple_keys) = top
        /\ ~free.simple_keys[top].possible /\ (Waits(free, top) => Waits(s, top))
    BY <2>1, <2>3, RemoveFits
  <2>5. Typed(free) /\ free.parsed = s.parsed /\ free.index = s.index
    BY <2>4 DEF Fit, Keeps, Fields, ScannerFields
  <2>l. PICK L \in Nat : L = top /\ L >= 1 /\ L \in 1..L
    BY <2>1 DEF Fit, KeysOK
  <2>k. PICK K, B, p, x :
           K = free.simple_keys /\ B = free.by_tok /\ p = free.parsed /\ x = free.index
    OBVIOUS
  <2>6. /\ KeysOK(K, B, p, x, b) /\ K \in Seq(KeyRecord) /\ Len(K) = L
        /\ ~K[L].possible /\ ~Pending(K, B, p, L)
    BY <1>2, <2>1, <2>4, <2>l, <2>k DEF Fit, KeysOK, Waits
  <2>7. key \in KeyRecord
    <3>1. s.index \in Nat /\ s.column \in Nat
      BY DEF Fit, Typed, KeysOK
    <3> QED BY <1>b, <2>1, <3>1 DEF KeyRecord
  <2>8. /\ Keeps(free, w, {"simple_keys"})
        /\ w.simple_keys \in Seq(KeyRecord) /\ Len(w.simple_keys) = L
        /\ w.simple_keys[L] = key
        /\ \A i \in 1..L : i # L => w.simple_keys[i] = K[i]
    <3>1. /\ w = WithKey(free, L, key) /\ free.simple_keys \in Seq(KeyRecord)
          /\ L \in 1..Len(free.simple_keys) /\ Len(free.simple_keys) = L
      BY <2>1, <2>6, <2>l, <2>k
    <3>2. /\ Keeps(free, w, {"simple_keys"})
          /\ w.simple_keys \in Seq(KeyRecord) /\ Len(w.simple_keys) = Len(free.simple_keys)
          /\ w.simple_keys[L] = key
          /\ \A i \in 1..Len(free.simple_keys) : i # L => w.simple_keys[i] = free.simple_keys[i]
      <4>1. /\ DOMAIN free = Fields /\ free.simple_keys \in Seq(KeyRecord)
            /\ L \in 1..Len(free.simple_keys) /\ key \in KeyRecord /\ w = WithKey(free, L, key)
        BY <2>3, <2>7, <3>1
      <4> QED BY ONLY <4>1, WithKeyKeeps
    <3> QED BY <2>k, <3>1, <3>2
  <2>9. /\ Keeps(w, t, {"by_tok"})
        /\ DOMAIN t.by_tok = DOMAIN w.by_tok \cup {b} /\ t.by_tok[b] = L
        /\ \A m \in DOMAIN w.by_tok : m # b => t.by_tok[m] = w.by_tok[m]
    BY <2>2, <2>3, <2>l, EnterKeeps
  <2>10. w.by_tok = B /\ t.simple_keys = w.simple_keys
    BY <2>8, <2>9, <2>k DEF Keeps, Fields, ScannerFields
  <2>11. Keeps(free, t, {"simple_keys", "by_tok"})
    BY <2>8, <2>9, KeepsTrans
  <2>12. Keeps(s, t, {"simple_keys", "by_tok"})
    BY <2>4, <2>11, KeepsTrans
  <2>13. Typed(t) /\ Level(s, t) /\ t.parsed = p /\ t.index = x
    <3>1. Len(t.simple_keys) = Len(s.simple_keys)
      BY <2>1, <2>8, <2>10, <2>l
    <3> QED BY <1>0, <2>5, <2>12, <2>k, <3>1, KeyStep
  <2>14. PICK K2, B2 : K2 = t.simple_keys /\ B2 = t.by_tok
    OBVIOUS
  <2>15. p \in Nat /\ p <= b
    <3>1. Len(s.tokens) \in Nat /\ s.parsed \in Nat
      BY DEF Fit, Typed, KeysOK
    <3> QED BY <2>5, <2>k, <3>1 DEF NextNumber
  <2>16. /\ K2 \in Seq(KeyRecord) /\ Len(K2) = Len(K)
         /\ \A i \in 1..Len(K) : i # Len(K) => K2[i] = K[i]
         /\ K2[Len(K)].possible /\ K2[Len(K)].token_number = b /\ K2[Len(K)].index = x
         /\ ~K2[Len(K)].passed
         /\ ~K[Len(K)].possible /\ ~Pending(K, B, p, Len(K))
    <3>1. /\ key.possible /\ key.token_number = b /\ key.index = s.index /\ ~key.passed
      BY <2>1
    <3> QED BY <2>5, <2>6, <2>8, <2>10, <2>14, <2>k, <3>1
  <2>17. /\ DOMAIN B2 = DOMAIN B \cup {b} /\ B2[b] = Len(K)
         /\ \A m \in DOMAIN B : m # b => B2[m] = B[m]
    BY <2>6, <2>9, <2>10, <2>14
  <2>18. KeysOK(K2, B2, p, x, b + 1) /\ Calm(K, B, K2, B2, p)
    BY ZenonT(60), <2>6, <2>15, <2>16, <2>17, KeysSaved
  <2>19. Fit(t, b + 1)
    BY <2>13, <2>14, <2>18 DEF Fit
  <2>20. Settled(s, t)
    <3>1. Settled(free, t)
      BY <2>14, <2>18, <2>k DEF Settled
    <3> QED BY <2>4, <2>5, <3>1, SettledTrans
  <2>21. \A i \in 1..L : K2[i].token_number = b /\ i # L => FALSE
    <3>1. \A i \in 1..L : K[i].token_number \in Nat /\ K[i].token_number < b
      BY <2>6, KeyFields DEF KeysOK
    <3> QED BY <1>b, <2>6, <2>16, <3>1
  <2>22. K2[L].flow = (token.typ \in {"FLOW-SEQUENCE-START", "FLOW-MAPPING-START"})
    BY <2>1, <2>8, <2>10, <2>14
  <2>23. Len(t.simple_keys) = L /\ L = Len(s.simple_keys)
    BY <2>1, <2>6, <2>14, <2>16, <2>l
  <2> QED BY <2>12, <2>13, <2>14, <2>19, <2>20, <2>21, <2>22, <2>23
<1> QED BY <1>0, <1>1, <1>2 DEF Typed

(* increase_flow_level, for a token that may be a key below only as a flow.        *)
LEMMA IncreaseFits ==
  ASSUME NEW s, NEW b, Fit(s, b + 1), b = NextNumber(s),
         \A i \in 1..Len(s.simple_keys) :
            s.simple_keys[i].possible /\ s.simple_keys[i].token_number = b => s.simple_keys[i].flow,
         NEW t, t = IncreaseFlowLevel(s), t.error = "none"
  PROVE  /\ Fit(t, b + 1) /\ Keeps(s, t, {"simple_keys", "flow_level"}) /\ Settled(s, t)
         /\ Level(s, t) /\ Len(t.simple_keys) = Len(s.simple_keys) + 1
<1>0. DOMAIN s = Fields /\ Typed(s)
  BY DEF Fit, Typed
<1>l. PICK L \in Nat : L = Len(s.simple_keys) /\ L >= 1
  BY DEF Fit, KeysOK
<1>p. PICK K, B, p, x : K = s.simple_keys /\ B = s.by_tok /\ p = s.parsed /\ x = s.index
  OBVIOUS
<1>k. L = Len(K) /\ K \in Seq(KeyRecord) /\ KeysOK(K, B, p, x, b + 1)
  BY <1>l, <1>p DEF Fit, KeysOK
<1>b. b \in Nat /\ p <= b
  <2>1. s.parsed \in Nat /\ Len(s.tokens) \in Nat
    BY DEF Fit, Typed, KeysOK
  <2> QED BY <1>p, <2>1 DEF NextNumber
<1>1. PICK key, d : /\ key = [NoKey EXCEPT !.token_number = b]
                    /\ d = [s EXCEPT !.simple_keys = Append(K, key), !.flow_level = s.flow_level + 1]
  OBVIOUS
<1>2. t = IF d.flow_level > max_flow_level THEN Failed(d) ELSE d
  BY <1>1, <1>p DEF IncreaseFlowLevel
<1>3. /\ Keeps(s, d, {"simple_keys", "flow_level"})
      /\ d.simple_keys = Append(K, key) /\ d.flow_level = s.flow_level + 1
  BY <1>0, <1>1 DEF Keeps, Fields, ScannerFields
<1>4. t = d
  BY <1>2, <1>3, FailedIs DEF Keeps
<1>5. key \in KeyRecord /\ ~key.possible /\ key.token_number = b
  BY <1>1, <1>b DEF NoKey, KeyRecord
<1>6. PICK K2 : K2 = Append(K, key)
  OBVIOUS
<1>7. /\ K2 \in Seq(KeyRecord) /\ Len(K2) = L + 1 /\ K2[L + 1] = key
      /\ \A i \in 1..L : K2[i] = K[i]
  BY <1>k, <1>5, <1>6
<1>8. KeysOK(K2, B, p, x, b + 1) /\ Calm(K, B, K2, B, p)
  <2>1. /\ K2 \in Seq(KeyRecord) /\ Len(K2) = Len(K) + 1
        /\ \A i \in 1..Len(K) : K2[i] = K[i]
        /\ ~K2[Len(K) + 1].possible /\ K2[Len(K) + 1].token_number = b
        /\ \A i \in 1..Len(K) : K[i].possible /\ K[i].token_number = b => K[i].flow
    BY <1>k, <1>p, <1>5, <1>7
  <2> QED BY <1>k, <1>b, <2>1, KeysPushed
<1>9. /\ t.parsed = p /\ t.index = x /\ t.column = s.column /\ t.by_tok = B
      /\ t.levels = s.levels /\ t.tokens = s.tokens
      /\ t.simple_key_allowed = s.simple_key_allowed
  BY <1>3, <1>4, <1>p DEF Keeps, Fields, ScannerFields
<1>10. Typed(t)
  <2>1. s.flow_level \in Nat /\ Len(t.simple_keys) = t.flow_level + 1
    BY <1>0, <1>3, <1>4, <1>6, <1>7, <1>l DEF Typed
  <2> QED BY <1>0, <1>3, <1>4, <1>9, <2>1 DEF Typed, Keeps
<1>11. Fit(t, b + 1) /\ Settled(s, t)
  BY <1>3, <1>4, <1>6, <1>8, <1>9, <1>10, <1>p DEF Fit, Settled
<1>12. Level(s, t)
  <2>1. Len(s.tokens) \in Nat
    BY <1>0 DEF Typed
  <2> QED BY <1>9, <2>1 DEF Level, Surplus, StreamEnds
<1> QED BY <1>3, <1>4, <1>6, <1>7, <1>11, <1>12, <1>l

(* decrease_flow_level.                                                           *)
LEMMA DecreaseFits ==
  ASSUME NEW s, NEW b, Fit(s, b), NEW t, t = DecreaseFlowLevel(s)
  PROVE  /\ Fit(t, b) /\ Keeps(s, t, {"simple_keys", "flow_level", "by_tok"})
         /\ Settled(s, t) /\ Level(s, t)
<1>0. DOMAIN s = Fields /\ Typed(s) /\ Len(s.tokens) \in Nat
  BY DEF Fit, Typed
<1>1. CASE s.flow_level = 0
  BY <1>0, <1>1 DEF DecreaseFlowLevel, Keeps, Settled, Calm, Level
<1>2. CASE s.flow_level # 0
  <2>l. PICK L \in Nat : L = Len(s.simple_keys) /\ L > 1
    BY <1>0, <1>2 DEF Typed
  <2>p. PICK K, B, p, x : K = s.simple_keys /\ B = s.by_tok /\ p = s.parsed /\ x = s.index
    OBVIOUS
  <2>k. L = Len(K) /\ K \in Seq(KeyRecord) /\ KeysOK(K, B, p, x, b)
    BY <2>l, <2>p DEF Fit, KeysOK
  <2>1. PICK n, d : /\ n = K[L].token_number
                    /\ d = [s EXCEPT !.flow_level = s.flow_level - 1, !.simple_keys = Front(K)]
    OBVIOUS
  <2>2. t = Forget(d, n)
    BY <1>2, <2>1, <2>k, <2>p DEF DecreaseFlowLevel, Last
  <2>3. /\ Keeps(s, d, {"simple_keys", "flow_level"})
        /\ d.simple_keys = Front(K) /\ d.flow_level = s.flow_level - 1
    BY <1>0, <2>1 DEF Keeps, Fields, ScannerFields
  <2>4. Keeps(d, t, {"by_tok"}) /\ Without(d.by_tok, t.by_tok, n)
    BY <2>2, <2>3, ForgetKeeps DEF Keeps
  <2>5. Keeps(s, t, {"simple_keys", "flow_level", "by_tok"})
    BY <2>3, <2>4, KeepsTrans
  <2>6. /\ t.simple_keys = Front(K) /\ t.flow_level = s.flow_level - 1 /\ d.by_tok = B
    BY <2>3, <2>4, <2>p DEF Keeps, Fields, ScannerFields
  <2>7. PICK K2, B2 : K2 = Front(K) /\ B2 = t.by_tok
    OBVIOUS
  <2>8. /\ K2 \in Seq(KeyRecord) /\ Len(K2) = L - 1 /\ \A i \in 1..L - 1 : K2[i] = K[i]
    <3>1. Front(K) = SubSeq(K, 1, Len(K) - 1)
      BY DEF Front
    <3>2. K # <<>>
      <4>1. Len(<<>>) = 0 /\ Len(K) > 1
        BY <2>k, <2>l
      <4> QED BY <4>1
    <3> QED BY <2>7, <2>k, <3>1, <3>2, Popped
  <2>9. KeysOK(K2, B2, p, x, b) /\ Calm(K, B, K2, B2, p)
    <3>1. /\ Len(K) > 1 /\ K2 \in Seq(KeyRecord) /\ Len(K2) = Len(K) - 1
          /\ \A i \in 1..Len(K) - 1 : K2[i] = K[i]
          /\ Without(B, B2, K[Len(K)].token_number)
      BY <2>1, <2>4, <2>6, <2>7, <2>8, <2>k, <2>l
    <3> QED BY <2>k, <3>1, KeysPopped
  <2>10. /\ t.parsed = p /\ t.index = x /\ t.column = s.column
         /\ t.levels = s.levels /\ t.tokens = s.tokens
         /\ t.simple_key_allowed = s.simple_key_allowed
    BY <2>5, <2>p DEF Keeps, Fields, ScannerFields
  <2>11. Typed(t)
    <3>1. t.flow_level \in Nat /\ Len(t.simple_keys) = t.flow_level + 1
      BY <1>0, <1>2, <2>6, <2>7, <2>8, <2>l DEF Typed
    <3> QED BY <1>0, <2>5, <2>10, <3>1 DEF Typed, Keeps
  <2>12. Fit(t, b) /\ Settled(s, t)
    BY <2>6, <2>7, <2>9, <2>10, <2>11, <2>p DEF Fit, Settled
  <2>13. Level(s, t)
    BY <1>0, <2>10 DEF Level, Surplus, StreamEnds
  <2> QED BY <2>5, <2>12, <2>13
<1> QED BY <1>1, <1>2

-----------------------------------------------------------------------------
(* The line's end, the look at the queue's head, and what a lexeme skips.         *)
(* yaml_simple_key_is_valid, for the key of any level.                            *)
LEMMA CheckedFits ==
  ASSUME NEW s, NEW b, Fit(s, b), NEW k \in 1..Len(s.simple_keys),
         NEW t, t = Checked(s, k), t.error = "none"
  PROVE  /\ Fit(t, b) /\ Keeps(s, t, {"simple_keys"}) /\ Level(s, t)
         /\ Len(t.simple_keys) = Len(s.simple_keys)
         /\ t.simple_keys[k].token_number = s.simple_keys[k].token_number
         /\ \A j : Waits(t, j) /\ j # k =>
               Waits(s, j) /\ t.simple_keys[j].token_number = s.simple_keys[j].token_number
         /\ \A i \in 1..Len(t.simple_keys) :
               t.simple_keys[i].possible => t.simple_keys[i] = s.simple_keys[i]
         /\ t.simple_keys[k].possible => t = s /\ ~Gone(s.simple_keys[k], s.index)
<1>0. DOMAIN s = Fields /\ Typed(s) /\ Len(s.tokens) \in Nat
  BY DEF Fit, Typed
<1>p. PICK K, B, p, x : K = s.simple_keys /\ B = s.by_tok /\ p = s.parsed /\ x = s.index
  OBVIOUS
<1>k. K \in Seq(KeyRecord) /\ KeysOK(K, B, p, x, b) /\ k \in 1..Len(K)
  BY <1>p DEF Fit, KeysOK
<1>s. Stale(s, K[k]) <=> Gone(K[k], x)
  BY <1>p DEF Stale, Gone
<1>1. CASE ~K[k].possible \/ ~Gone(K[k], x)
  <2>1. t = s
    BY <1>1, <1>p, <1>s DEF Checked
  <2> QED BY <1>0, <1>1, <1>p, <2>1 DEF Keeps, Level
<1>2. CASE K[k].possible /\ Gone(K[k], x)
  <2>1. t = WithKey(s, k, GivenUp(K[k]))
    <3>1. t = IF K[k].required THEN Failed(s) ELSE WithKey(s, k, GivenUp(K[k]))
      BY <1>2, <1>p, <1>s DEF Checked
    <3> QED BY <1>0, <3>1, FailedIs
  <2>2. PICK g : g = GivenUp(K[k])
    OBVIOUS
  <2>3. g \in KeyRecord /\ g.possible = FALSE /\ g.token_number = K[k].token_number
    <3>1. K[k] \in KeyRecord
      BY <1>k
    <3> QED BY <2>2, <3>1, GivenUpIs
  <2>4. /\ Keeps(s, t, {"simple_keys"})
        /\ t.simple_keys \in Seq(KeyRecord) /\ Len(t.simple_keys) = Len(s.simple_keys)
        /\ t.simple_keys[k] = g
        /\ \A i \in 1..Len(s.simple_keys) : i # k => t.simple_keys[i] = s.simple_keys[i]
    <3>1. s.simple_keys \in Seq(KeyRecord)
      BY <1>k, <1>p
    <3> QED BY <1>0, <2>1, <2>2, <2>3, <3>1, WithKeyKeeps
  <2>5. t.by_tok = B
    BY <2>4, <1>p DEF Keeps, Fields, ScannerFields
  <2>6. Typed(t) /\ Level(s, t) /\ t.parsed = p /\ t.index = x
    <3>1. Keeps(s, t, {"simple_keys", "by_tok"})
      BY <2>4, KeepsMore
    <3> QED BY <1>0, <1>p, <2>4, <3>1, KeyStep
  <2>7. PICK K2 : K2 = t.simple_keys
    OBVIOUS
  <2>8. /\ K2 \in Seq(KeyRecord) /\ Len(K2) = Len(K)
        /\ \A i \in 1..Len(K) : i # k => K2[i] = K[i]
        /\ ~K2[k].possible /\ K2[k].token_number = K[k].token_number
        /\ K[k].possible /\ Gone(K[k], x)
    BY <1>2, <1>p, <2>3, <2>4, <2>7
  <2>9. /\ KeysOK(K2, B, p, x, b)
        /\ \A j : Pending(K2, B, p, j) /\ j # k =>
              Pending(K, B, p, j) /\ K2[j].token_number = K[j].token_number
    BY <1>k, <2>8, KeysChecked
  <2>10. Fit(t, b)
    BY <2>5, <2>6, <2>7, <2>9 DEF Fit
  <2>11. \A j : Waits(t, j) /\ j # k =>
            Waits(s, j) /\ t.simple_keys[j].token_number = s.simple_keys[j].token_number
    BY <1>p, <2>5, <2>6, <2>7, <2>9 DEF Waits
  <2> QED BY <1>p, <2>4, <2>6, <2>7, <2>8, <2>10, <2>11
<1> QED BY <1>1, <1>2

(* A break in the text.                                                           *)
LEMMA BreakFits ==
  ASSUME NEW s, NEW b, Fit(s, b), NEW t, t = Break(s)
  PROVE  Fit(t, b) /\ Keeps(s, t, {"simple_keys"}) /\ Settled(s, t) /\ Level(s, t)
         /\ AllPassed(t) /\ Len(t.simple_keys) = Len(s.simple_keys)
<1>0. DOMAIN s = Fields /\ Typed(s)
  BY DEF Fit, Typed
<1>p. PICK K, B, p, x : K = s.simple_keys /\ B = s.by_tok /\ p = s.parsed /\ x = s.index
  OBVIOUS
<1>k. K \in Seq(KeyRecord) /\ KeysOK(K, B, p, x, b)
  BY <1>p DEF Fit, KeysOK
<1>2. PICK K2 : K2 = t.simple_keys
  OBVIOUS
<1>3. /\ Keeps(s, t, {"simple_keys"})
      /\ K2 \in Seq(KeyRecord) /\ Len(K2) = Len(K)
      /\ \A i \in 1..Len(K) :
            /\ K2[i].possible = K[i].possible /\ K2[i].token_number = K[i].token_number
            /\ K2[i].index = K[i].index /\ K2[i].flow = K[i].flow
            /\ K2[i].passed = (K[i].passed \/ K[i].possible)
  BY <1>0, <1>p, <1>k, <1>2, BreakKeeps
<1>4. KeysOK(K2, B, p, x, b) /\ Calm(K, B, K2, B, p)
  BY <1>k, <1>3, KeysPassed
<1>5. t.by_tok = B
  BY <1>3, <1>p DEF Keeps, Fields, ScannerFields
<1>6. Typed(t) /\ Level(s, t) /\ t.parsed = p /\ t.index = x
  <2>1. Keeps(s, t, {"simple_keys", "by_tok"})
    BY <1>3, KeepsMore
  <2>2. Len(t.simple_keys) = Len(s.simple_keys)
    BY <1>2, <1>3, <1>p
  <2> QED BY <1>0, <1>p, <2>1, <2>2, KeyStep
<1>7. Fit(t, b) /\ Settled(s, t)
  BY <1>2, <1>4, <1>5, <1>6, <1>p DEF Fit, Settled
<1>8. AllPassed(t)
  BY <1>2, <1>3 DEF AllPassed
<1> QED BY <1>2, <1>3, <1>6, <1>7, <1>8, <1>p

LEMMA Likewise ==
  ASSUME NEW s, NEW b, Fit(s, b), NEW t,
         Keeps(s, t, {"column", "index", "simple_key_allowed", "last", "ended", "late"}),
         t.column \in Nat, t.index \in Nat, s.index <= t.index, t.simple_key_allowed \in BOOLEAN
  PROVE  Fit(t, b) /\ Settled(s, t) /\ Level(s, t) /\ (AllPassed(s) => AllPassed(t))
<1>1. /\ t.parsed = s.parsed /\ t.simple_keys = s.simple_keys /\ t.by_tok = s.by_tok
      /\ t.flow_level = s.flow_level /\ t.levels = s.levels /\ t.tokens = s.tokens
  BY DEF Keeps, Fields, ScannerFields
<1>2. Typed(t)
  BY <1>1 DEF Fit, Typed, Keeps
<1>3. KeysOK(t.simple_keys, t.by_tok, t.parsed, t.index, b)
  <2>1. KeysOK(s.simple_keys, s.by_tok, s.parsed, t.index, b)
    BY KeysRead DEF Fit
  <2> QED BY <1>1, <2>1
<1>4. Len(s.tokens) \in Nat
  BY DEF Fit, Typed
<1>5. Settled(s, t)
  BY <1>1 DEF Settled, Calm
<1>6. Level(s, t)
  BY <1>1, <1>4 DEF Level, Surplus, StreamEnds
<1>7. AllPassed(s) => AllPassed(t)
  BY <1>1 DEF AllPassed
<1> QED BY <1>2, <1>3, <1>5, <1>6, <1>7 DEF Fit

(* What comes before the lexeme.                                                  *)
LEMMA ReachFits ==
  ASSUME NEW s, NEW b, Fit(s, b), NEW x, x.column \in Nat, x.fresh \in BOOLEAN,
         NEW t, t = Reach(s, x)
  PROVE  /\ Fit(t, b) /\ Settled(s, t) /\ Level(s, t)
         /\ Keeps(s, t, {"simple_keys", "column", "index", "simple_key_allowed"})
         /\ t.column = x.column /\ t.index = s.index + 1
         /\ Len(t.simple_keys) = Len(s.simple_keys)
         /\ t.simple_key_allowed => s.simple_key_allowed \/ s.flow_level = 0
<1>0. DOMAIN s = Fields /\ Typed(s) /\ s.index \in Nat
  BY DEF Fit, Typed, KeysOK
<1>1. PICK d : d = IF x.fresh THEN Break(s) ELSE s
  OBVIOUS
<1>2. /\ Fit(d, b) /\ Keeps(s, d, {"simple_keys"}) /\ Settled(s, d) /\ Level(s, d)
      /\ Len(d.simple_keys) = Len(s.simple_keys)
  <2>1. CASE x.fresh
    BY <1>1, <2>1, BreakFits
  <2>2. CASE ~x.fresh
    BY <1>0, <1>1, <2>2 DEF Keeps, Settled, Calm, Level, Typed
  <2> QED BY <2>1, <2>2
<1>3. /\ DOMAIN d = Fields /\ d.index = s.index /\ d.parsed = s.parsed
      /\ d.simple_key_allowed = s.simple_key_allowed
  BY <1>2 DEF Keeps, Fields, ScannerFields
<1>4. t = [d EXCEPT !.column = x.column, !.index = d.index + 1,
                    !.simple_key_allowed = d.simple_key_allowed \/ (x.fresh /\ s.flow_level = 0)]
  BY <1>1 DEF Reach
<1>5. /\ Keeps(d, t, {"column", "index", "simple_key_allowed"})
      /\ t.column = x.column /\ t.index = s.index + 1
      /\ t.simple_key_allowed = (s.simple_key_allowed \/ (x.fresh /\ s.flow_level = 0))
  BY <1>3, <1>4 DEF Keeps, Fields, ScannerFields
<1>6. Fit(t, b) /\ Settled(d, t) /\ Level(d, t)
  <2>1. Keeps(d, t, {"column", "index", "simple_key_allowed", "last", "ended", "late"})
    BY <1>5, KeepsMore
  <2>2. /\ t.column \in Nat /\ t.index \in Nat /\ d.index <= t.index
        /\ t.simple_key_allowed \in BOOLEAN
    BY <1>0, <1>3, <1>5
  <2> QED BY <1>2, <2>1, <2>2, Likewise
<1>7. Settled(s, t) /\ Level(s, t)
  <2>1. Typed(s) /\ Typed(d) /\ Typed(t)
    BY <1>2, <1>6 DEF Fit
  <2> QED BY <1>2, <1>3, <1>6, <2>1, SettledTrans, LevelTrans
<1>8. Keeps(s, t, {"simple_keys", "column", "index", "simple_key_allowed"})
  BY <1>2, <1>5, KeepsTrans
<1>9. t.simple_keys = d.simple_keys
  BY <1>5 DEF Keeps, Fields, ScannerFields
<1> QED BY <1>2, <1>5, <1>6, <1>7, <1>8, <1>9

(* What comes with it and after it.                                               *)
LEMMA PassFits ==
  ASSUME NEW s, NEW b, Fit(s, b), NEW x, x.column \in Nat, x.breaks \in {0, 1},
         NEW t, t = Pass(s, x)
  PROVE  /\ Fit(t, b) /\ Settled(s, t) /\ Level(s, t)
         /\ Keeps(s, t, {"simple_keys", "column", "last"})
         /\ Len(t.simple_keys) = Len(s.simple_keys)
         /\ t.column = 0 => AllPassed(t)
<1>0. DOMAIN s = Fields /\ Typed(s) /\ s.index \in Nat
  BY DEF Fit, Typed, KeysOK
<1>1. PICK d, c, l : /\ d = IF x.breaks > 0 THEN Break(s) ELSE s
                     /\ c = IF x.breaks > 0 THEN 0 ELSE x.column + 1
                     /\ l = IF x.kind # "plain" THEN ""
                            ELSE IF x.breaks > 0 THEN "plain, eaten" ELSE "plain"
  OBVIOUS
<1>c. c \in Nat /\ (c = 0 => x.breaks > 0)
  <2>1. c = IF x.breaks > 0 THEN 0 ELSE x.column + 1
    BY <1>1
  <2> QED BY ONLY <2>1, x.column \in Nat
<1>2. /\ Fit(d, b) /\ Keeps(s, d, {"simple_keys"}) /\ Settled(s, d) /\ Level(s, d)
      /\ Len(d.simple_keys) = Len(s.simple_keys) /\ (c = 0 => AllPassed(d))
  <2>1. CASE x.breaks > 0
    BY <1>1, <2>1, BreakFits
  <2>2. CASE ~(x.breaks > 0)
    <3>1. d = s /\ c # 0
      BY <1>1, <1>c, <2>2
    <3> QED BY <1>0, <3>1 DEF Keeps, Settled, Calm, Level, Typed
  <2> QED BY <2>1, <2>2
<1>3. /\ DOMAIN d = Fields /\ d.index = s.index /\ d.parsed = s.parsed
      /\ d.simple_key_allowed \in BOOLEAN
  BY <1>2 DEF Keeps, Fields, ScannerFields, Fit, Typed
<1>4. t = [d EXCEPT !.column = c, !.last = l]
  BY <1>1 DEF Pass
<1>5. Keeps(d, t, {"column", "last"}) /\ t.column = c
  BY <1>3, <1>4 DEF Keeps, Fields, ScannerFields
<1>6. Fit(t, b) /\ Settled(d, t) /\ Level(d, t) /\ (AllPassed(d) => AllPassed(t))
  <2>1. Keeps(d, t, {"column", "index", "simple_key_allowed", "last", "ended", "late"})
    BY <1>5, KeepsMore
  <2>2. t.index = d.index /\ t.simple_key_allowed = d.simple_key_allowed
    BY <1>5 DEF Keeps, Fields, ScannerFields
  <2>3. /\ t.column \in Nat /\ t.index \in Nat /\ d.index <= t.index
        /\ t.simple_key_allowed \in BOOLEAN
    BY <1>0, <1>c, <1>3, <1>5, <2>2
  <2> QED BY <1>2, <2>1, <2>3, Likewise
<1>7. Settled(s, t) /\ Level(s, t)
  <2>1. Typed(s) /\ Typed(d) /\ Typed(t)
    BY <1>2, <1>6 DEF Fit
  <2> QED BY <1>2, <1>3, <1>6, <2>1, SettledTrans, LevelTrans
<1>8. Keeps(s, t, {"simple_keys", "column", "last"})
  BY <1>2, <1>5, KeepsTrans
<1>9. t.simple_keys = d.simple_keys
  BY <1>5 DEF Keeps, Fields, ScannerFields
<1> QED BY <1>2, <1>5, <1>6, <1>7, <1>8, <1>9

(* The end of the text is on a line of its own.                                   *)
LEMMA EndLine ==
  ASSUME NEW s, NEW b, Fit(s, b), s.column = 0 => AllPassed(s),
         NEW t, t = [ForceNewLine(s) EXCEPT !.ended = TRUE]
  PROVE  /\ Fit(t, b) /\ Settled(s, t) /\ Level(s, t) /\ AllPassed(t)
         /\ Keeps(s, t, {"simple_keys", "column", "ended"}) /\ t.ended = TRUE
         /\ Len(t.simple_keys) = Len(s.simple_keys)
<1>0. DOMAIN s = Fields /\ Typed(s) /\ s.index \in Nat
  BY DEF Fit, Typed, KeysOK
<1>1. PICK d : d = IF s.column = 0 THEN s ELSE Break(s)
  OBVIOUS
<1>2. /\ Fit(d, b) /\ Keeps(s, d, {"simple_keys"}) /\ Settled(s, d) /\ Level(s, d)
      /\ Len(d.simple_keys) = Len(s.simple_keys) /\ AllPassed(d)
  <2>1. CASE s.column # 0
    BY <1>1, <2>1, BreakFits
  <2>2. CASE s.column = 0
    BY <1>0, <1>1, <2>2 DEF Keeps, Settled, Calm, Level, Typed
  <2> QED BY <2>1, <2>2
<1>3. /\ DOMAIN d = Fields /\ d.index = s.index /\ d.parsed = s.parsed /\ d.column = s.column
      /\ d.simple_key_allowed \in BOOLEAN
  BY <1>2 DEF Keeps, Fields, ScannerFields, Fit, Typed
<1>4. ForceNewLine(s) = IF s.column = 0 THEN d ELSE [d EXCEPT !.column = 0]
  BY <1>1 DEF ForceNewLine
<1>5. Keeps(d, t, {"column", "ended"}) /\ t.column = 0 /\ t.ended = TRUE
  <2>1. CASE s.column = 0
    <3>1. t = [d EXCEPT !.ended = TRUE]
      BY <1>4, <2>1
    <3> QED BY <1>3, <2>1, <3>1 DEF Keeps, Fields, ScannerFields
  <2>2. CASE s.column # 0
    <3>1. PICK e : e = [d EXCEPT !.column = 0]
      OBVIOUS
    <3>2. t = [e EXCEPT !.ended = TRUE]
      BY <1>4, <2>2, <3>1
    <3>3. Keeps(d, e, {"column"}) /\ e.column = 0 /\ DOMAIN e = Fields
      BY <1>3, <3>1 DEF Keeps, Fields, ScannerFields
    <3>4. Keeps(e, t, {"ended"}) /\ t.ended = TRUE /\ t.column = 0
      BY <3>2, <3>3 DEF Keeps, Fields, ScannerFields
    <3> QED BY <3>3, <3>4, KeepsTrans
  <2> QED BY <2>1, <2>2
<1>6. Fit(t, b) /\ Settled(d, t) /\ Level(d, t) /\ AllPassed(t)
  <2>1. Keeps(d, t, {"column", "index", "simple_key_allowed", "last", "ended", "late"})
    BY <1>5, KeepsMore
  <2>2. t.index = d.index /\ t.simple_key_allowed = d.simple_key_allowed
    BY <1>5 DEF Keeps, Fields, ScannerFields
  <2>3. /\ t.column \in Nat /\ t.index \in Nat /\ d.index <= t.index
        /\ t.simple_key_allowed \in BOOLEAN
    BY <1>0, <1>3, <1>5, <2>2
  <2> QED BY <1>2, <2>1, <2>3, Likewise
<1>7. Settled(s, t) /\ Level(s, t)
  <2>1. Typed(s) /\ Typed(d) /\ Typed(t)
    BY <1>2, <1>6 DEF Fit
  <2> QED BY <1>2, <1>3, <1>6, <2>1, SettledTrans, LevelTrans
<1>8. Keeps(s, t, {"simple_keys", "column", "ended"})
  BY <1>2, <1>5, KeepsTrans
<1>9. t.simple_keys = d.simple_keys
  BY <1>5 DEF Keeps, Fields, ScannerFields
<1> QED BY <1>2, <1>5, <1>6, <1>7, <1>8, <1>9

-----------------------------------------------------------------------------
(* An error, once set, is the scanner's own, and the steps keep it.               *)
(* Steps that go on after an error keep it.                                       *)
Sound(s, t) == DOMAIN t = Fields /\ t.error \in {s.error, "scanner"}

LEMMA PutSound ==
  ASSUME NEW s, DOMAIN s = Fields, NEW allowed, NEW token, NEW t,
         t = Put(Allow(s, allowed), token)
  PROVE  Sound(s, t)
<1>1. PICK a : a = Allow(s, allowed)
  OBVIOUS
<1>2. Keeps(s, a, {"simple_key_allowed"})
  BY <1>1, AllowKeeps
<1>3. DOMAIN a = Fields /\ a.error = s.error
  BY <1>2 DEF Keeps, Fields, ScannerFields
<1>4. Keeps(a, t, {"tokens"})
  BY <1>1, <1>3, PutKeeps
<1> QED BY <1>3, <1>4 DEF Keeps, Fields, ScannerFields, Sound

(* What was put and shows no error had none before.                               *)
LEMMA PutError ==
  ASSUME NEW s, DOMAIN s = Fields, NEW allowed, NEW token, NEW t,
         t = Put(Allow(s, allowed), token), t.error = "none"
  PROVE  s.error = "none"
<1>1. Sound(s, t)
  BY PutSound
<1>2. "none" # "scanner"
  OBVIOUS
<1> QED BY <1>1, <1>2 DEF Sound

LEMMA RollSound ==
  ASSUME NEW s, DOMAIN s = Fields, NEW column, NEW number, NEW type, NEW t,
         t = RollIndent(s, column, number, type)
  PROVE  Sound(s, t)
<1>1. PICK d, pos : /\ d = [s EXCEPT !.levels = Append(s.levels, column)]
                    /\ pos = IF number > -1 THEN number - s.parsed ELSE number
  OBVIOUS
<1>2. \/ t = s \/ t = Failed(d) \/ t = InsertToken(d, pos, Token(type))
  BY <1>1 DEF RollIndent
<1>3. DOMAIN d = Fields /\ d.error = s.error
  BY <1>1 DEF Fields, ScannerFields
<1>4. CASE t = InsertToken(d, pos, Token(type))
  <2>1. Keeps(d, t, {"tokens"})
    BY <1>3, <1>4, InsertKeeps
  <2> QED BY <1>3, <2>1 DEF Keeps, Fields, ScannerFields, Sound
<1> QED BY <1>2, <1>3, <1>4, FailedIs DEF Sound

LEMMA RemoveSound ==
  ASSUME NEW s, DOMAIN s = Fields, NEW t, t = RemoveSimpleKey(s)
  PROVE  Sound(s, t)
<1>1. PICK top, key : top = Len(s.simple_keys) /\ key = s.simple_keys[top]
  OBVIOUS
<1>2. PICK w : w = WithKey(s, top, GivenUp(key))
  OBVIOUS
<1>3. DOMAIN w = Fields /\ w.error = s.error
  BY <1>2, ErrorKept
<1>4. \/ t = s \/ t = Failed(s) \/ t = Forget(w, key.token_number)
  BY <1>1, <1>2 DEF RemoveSimpleKey
<1> QED BY <1>3, <1>4, ErrorKept, FailedIs DEF Sound

LEMMA SaveSound ==
  ASSUME NEW s, DOMAIN s = Fields, NEW token, NEW t, t = SaveSimpleKey(s, token)
  PROVE  Sound(s, t)
<1>1. PICK free : free = RemoveSimpleKey(s)
  OBVIOUS
<1>2. Sound(s, free) /\ DOMAIN free = Fields
  BY <1>1, RemoveSound, RemoveDomain
<1>3. t = s \/ \E key, top : t = Enter(WithKey(free, top, key), key.token_number, top)
  BY <1>1 DEF SaveSimpleKey
<1>4. ASSUME NEW key, NEW top, t = Enter(WithKey(free, top, key), key.token_number, top)
      PROVE  Sound(s, t)
  <2>1. PICK w : w = WithKey(free, top, key)
    OBVIOUS
  <2>2. DOMAIN w = Fields /\ w.error = free.error
    BY <1>2, <2>1, ErrorKept
  <2>3. DOMAIN t = Fields /\ t.error = w.error
    BY <1>4, <2>1, <2>2, ErrorKept
  <2> QED BY <1>2, <2>2, <2>3 DEF Sound
<1> QED BY <1>3, <1>4 DEF Sound

LEMMA IncreaseSound ==
  ASSUME NEW s, DOMAIN s = Fields, NEW t, t = IncreaseFlowLevel(s)
  PROVE  Sound(s, t)
<1>1. PICK d, K, l : d = [s EXCEPT !.simple_keys = K, !.flow_level = l]
                     /\ (t = d \/ t = Failed(d))
  BY DEF IncreaseFlowLevel
<1>2. DOMAIN d = Fields /\ d.error = s.error
  BY <1>1 DEF Fields, ScannerFields
<1> QED BY <1>1, <1>2, FailedIs DEF Sound

LEMMA DecreaseSound ==
  ASSUME NEW s, DOMAIN s = Fields, NEW t, t = DecreaseFlowLevel(s)
  PROVE  Sound(s, t)
<1>1. t = s \/ \E d, K, l, n : d = [s EXCEPT !.flow_level = l, !.simple_keys = K] /\ t = Forget(d, n)
  BY DEF DecreaseFlowLevel
<1>2. ASSUME NEW d, NEW K, NEW l, NEW n,
             d = [s EXCEPT !.flow_level = l, !.simple_keys = K], t = Forget(d, n)
      PROVE  Sound(s, t)
  <2>1. DOMAIN d = Fields /\ d.error = s.error
    BY <1>2 DEF Fields, ScannerFields
  <2>2. Keeps(d, t, {"by_tok"})
    BY <1>2, <2>1, ForgetKeeps
  <2> QED BY <2>1, <2>2 DEF Keeps, Fields, ScannerFields, Sound
<1> QED BY <1>1, <1>2 DEF Sound

LEMMA SoundTrans ==
  ASSUME NEW s, NEW t, NEW u, Sound(s, t), Sound(t, u)
  PROVE  Sound(s, u)
  BY DEF Sound

(* What a lexeme changes.                                                         *)
Fetching == {"levels", "tokens", "flow_level", "simple_key_allowed", "simple_keys", "by_tok"}

(* A key may have been given up only where none may begin.                        *)
Ready(s) == \A j : Waits(s, j) => j = Len(s.simple_keys) /\ ~s.simple_key_allowed

(* Given up on the way from s to t, or before.                                    *)
LeftOver(s, t, allowed) ==
    \A j : Waits(t, j) =>
       \/ Waits(s, j) /\ t.simple_keys[j].token_number = s.simple_keys[j].token_number
       \/ /\ j = Len(t.simple_keys) /\ ~allowed
          /\ t.simple_keys[j].token_number < NextNumber(s)

(* t is s with a lexeme more, which was the end of the text if e is 1.            *)
Fetched(s, t, e) ==
    /\ Fit(t, NextNumber(t))
    /\ Keeps(s, t, Fetching)
    /\ Surplus(t) = Surplus(s) /\ StreamEnds(t) = StreamEnds(s) + e
    /\ Len(t.tokens) > Len(s.tokens)
    /\ LeftOver(s, t, t.simple_key_allowed)

LEMMA SettledLeaves ==
  ASSUME NEW s, NEW t, Settled(s, t), t.parsed = s.parsed, NEW allowed
  PROVE  LeftOver(s, t, allowed)
<1> SUFFICES ASSUME NEW j, Waits(t, j)
             PROVE  Waits(s, j) /\ t.simple_keys[j].token_number = s.simple_keys[j].token_number
  BY DEF LeftOver
<1>1. j \in 2..Len(t.simple_keys)
  BY DEF Waits, Pending
<1>2. j \in 1..Len(t.simple_keys)
  BY <1>1
<1> QED BY <1>2 DEF Settled, Calm, Waits

(* Every fetcher ends with whether a key may follow, and its own token.           *)
LEMMA Finish ==
  ASSUME NEW s, Typed(s), NEW u, Fit(u, NextNumber(u) + 1), Keeps(s, u, Fetching), Level(s, u),
         NEW allowed \in BOOLEAN, LeftOver(s, u, allowed),
         NEW token \in Tok, token.typ \notin BlockStarts \cup {"BLOCK-END"},
         NEW t, t = Put(Allow(u, allowed), token)
  PROVE  Fetched(s, t, IF token.typ = "STREAM-END" THEN 1 ELSE 0)
         /\ t.simple_keys = u.simple_keys /\ t.simple_key_allowed = allowed
<1>1. PICK a : a = Allow(u, allowed)
  OBVIOUS
<1>2. /\ Fit(a, NextNumber(u) + 1) /\ Keeps(u, a, {"simple_key_allowed"}) /\ Level(u, a)
      /\ a.simple_key_allowed = allowed
  BY <1>1, AllowFits
<1>3. /\ Fit(t, NextNumber(u) + 1) /\ Keeps(a, t, {"tokens"})
      /\ Len(t.tokens) = Len(a.tokens) + 1
  BY <1>1, <1>2, PutFits
<1>4. /\ t.simple_keys = u.simple_keys /\ t.simple_key_allowed = allowed /\ t.by_tok = u.by_tok
      /\ t.parsed = u.parsed /\ a.tokens = u.tokens
  BY <1>2, <1>3 DEF Keeps, Fields, ScannerFields
<1>5. Keeps(s, t, Fetching)
  <2>1. Keeps(u, t, {"simple_key_allowed", "tokens"})
    BY <1>2, <1>3, KeepsTrans
  <2> QED BY <2>1, KeepsTrans DEF Fetching
<1>6. NextNumber(t) = NextNumber(u) + 1
  <2>1. u.parsed \in Nat /\ Len(u.tokens) \in Nat
    BY DEF Fit, KeysOK, Typed
  <2> QED BY <1>3, <1>4, <2>1 DEF NextNumber
<1>7. Fit(t, NextNumber(t))
  BY <1>3, <1>6
<1>8. Len(t.tokens) > Len(s.tokens)
  <2>1. Len(s.tokens) \in Nat /\ Len(u.tokens) \in Nat
    BY DEF Fit, Typed
  <2> QED BY <1>3, <1>4, <2>1 DEF Level
<1>9. /\ Surplus(a) = Surplus(s) /\ StreamEnds(a) = StreamEnds(s) /\ StreamEnds(s) \in Nat
  BY <1>2, SurplusType DEF Level
<1>10. Surplus(t) = Surplus(s) /\ StreamEnds(t) = StreamEnds(s) + (IF token.typ = "STREAM-END" THEN 1 ELSE 0)
  <2>1. CASE token.typ = "STREAM-END"
    <3>1. Surplus(t) = Surplus(a) /\ StreamEnds(t) = StreamEnds(a) + 1
      BY <1>1, <1>2, <2>1, PutLevel
    <3> QED BY <1>9, <2>1, <3>1
  <2>2. CASE token.typ # "STREAM-END"
    <3>1. Level(a, t)
      BY <1>1, <1>2, <2>2, PutLevel
    <3> QED BY <1>9, <2>2, <3>1 DEF Level
  <2> QED BY <2>1, <2>2
<1>11. LeftOver(s, t, t.simple_key_allowed)
  BY <1>4 DEF LeftOver, Waits
<1> QED BY <1>4, <1>5, <1>7, <1>8, <1>10, <1>11 DEF Fetched

-----------------------------------------------------------------------------
(* Fetching a token: one lemma for each way the code has.                         *)
(* The tokens of one lexeme.                                                      *)
Plain == {t \in Tok : t.typ \notin BlockStarts \cup {"BLOCK-END", "STREAM-END"}}

LEMMA PlainRecord ==
  ASSUME NEW ty \in TokenTypes \ (BlockStarts \cup {"BLOCK-END", "STREAM-END", "TAG-DIRECTIVE"}),
         NEW val \in {"", "1.1", "1.2", "!", "!h!"}
  PROVE  [typ |-> ty, val |-> val] \in Plain
  BY DEF Plain, Tok

LEMMA LexicalTok ==
  \A k \in DOMAIN Lexical : Lexical[k] \in Plain
<1>1. DOMAIN Lexical = {"---", "...", "%YAML", "%YAML 1.2", "%TAG", "[", "]", "{", "}", ",", "-",
            "?", ":", "*", "&", "!", "!h!", "|", "quoted", "plain"}
  BY DEF Lexical
<1>a0. Lexical["---"] = [typ |-> "DOCUMENT-START", val |-> ""]
  BY DEF Lexical
<1>a1. Lexical["..."] = [typ |-> "DOCUMENT-END", val |-> ""]
  BY DEF Lexical
<1>a2. Lexical["%YAML"] = [typ |-> "VERSION-DIRECTIVE", val |-> "1.1"]
  BY DEF Lexical
<1>a3. Lexical["%YAML 1.2"] = [typ |-> "VERSION-DIRECTIVE", val |-> "1.2"]
  BY DEF Lexical
<1>a4. Lexical["%TAG"] = [typ |-> "TAG-DIRECTIVE", val |-> "!h!"]
  BY DEF Lexical
<1>a5. Lexical["["] = [typ |-> "FLOW-SEQUENCE-START", val |-> ""]
  BY DEF Lexical
<1>a6. Lexical["]"] = [typ |-> "FLOW-SEQUENCE-END", val |-> ""]
  BY DEF Lexical
<1>a7. Lexical["{"] = [typ |-> "FLOW-MAPPING-START", val |-> ""]
  BY DEF Lexical
<1>a8. Lexical["}"] = [typ |-> "FLOW-MAPPING-END", val |-> ""]
  BY DEF Lexical
<1>a9. Lexical[","] = [typ |-> "FLOW-ENTRY", val |-> ""]
  BY DEF Lexical
<1>a10. Lexical["-"] = [typ |-> "BLOCK-ENTRY", val |-> ""]
  BY DEF Lexical
<1>a11. Lexical["?"] = [typ |-> "KEY", val |-> ""]
  BY DEF Lexical
<1>a12. Lexical[":"] = [typ |-> "VALUE", val |-> ""]
  BY DEF Lexical
<1>a13. Lexical["*"] = [typ |-> "ALIAS", val |-> ""]
  BY DEF Lexical
<1>a14. Lexical["&"] = [typ |-> "ANCHOR", val |-> ""]
  BY DEF Lexical
<1>a15. Lexical["!"] = [typ |-> "TAG", val |-> "!"]
  BY DEF Lexical
<1>a16. Lexical["!h!"] = [typ |-> "TAG", val |-> "!h!"]
  BY DEF Lexical
<1>a17. Lexical["|"] = [typ |-> "SCALAR", val |-> ""]
  BY DEF Lexical
<1>a18. Lexical["quoted"] = [typ |-> "SCALAR", val |-> ""]
  BY DEF Lexical
<1>a19. Lexical["plain"] = [typ |-> "SCALAR", val |-> ""]
  BY DEF Lexical
<1>b0. Lexical["---"] \in Plain
  BY <1>a0, PlainRecord DEF TokenTypes, BlockStarts
<1>b1. Lexical["..."] \in Plain
  BY <1>a1, PlainRecord DEF TokenTypes, BlockStarts
<1>b2. Lexical["%YAML"] \in Plain
  BY <1>a2, PlainRecord DEF TokenTypes, BlockStarts
<1>b3. Lexical["%YAML 1.2"] \in Plain
  BY <1>a3, PlainRecord DEF TokenTypes, BlockStarts
<1>b4. Lexical["%TAG"] \in Plain
  BY <1>a4 DEF Plain, Tok, TokenTypes, BlockStarts
<1>b5. Lexical["["] \in Plain
  BY <1>a5, PlainRecord DEF TokenTypes, BlockStarts
<1>b6. Lexical["]"] \in Plain
  BY <1>a6, PlainRecord DEF TokenTypes, BlockStarts
<1>b7. Lexical["{"] \in Plain
  BY <1>a7, PlainRecord DEF TokenTypes, BlockStarts
<1>b8. Lexical["}"] \in Plain
  BY <1>a8, PlainRecord DEF TokenTypes, BlockStarts
<1>b9. Lexical[","] \in Plain
  BY <1>a9, PlainRecord DEF TokenTypes, BlockStarts
<1>b10. Lexical["-"] \in Plain
  BY <1>a10, PlainRecord DEF TokenTypes, BlockStarts
<1>b11. Lexical["?"] \in Plain
  BY <1>a11, PlainRecord DEF TokenTypes, BlockStarts
<1>b12. Lexical[":"] \in Plain
  BY <1>a12, PlainRecord DEF TokenTypes, BlockStarts
<1>b13. Lexical["*"] \in Plain
  BY <1>a13, PlainRecord DEF TokenTypes, BlockStarts
<1>b14. Lexical["&"] \in Plain
  BY <1>a14, PlainRecord DEF TokenTypes, BlockStarts
<1>b15. Lexical["!"] \in Plain
  BY <1>a15, PlainRecord DEF TokenTypes, BlockStarts
<1>b16. Lexical["!h!"] \in Plain
  BY <1>a16, PlainRecord DEF TokenTypes, BlockStarts
<1>b17. Lexical["|"] \in Plain
  BY <1>a17, PlainRecord DEF TokenTypes, BlockStarts
<1>b18. Lexical["quoted"] \in Plain
  BY <1>a18, PlainRecord DEF TokenTypes, BlockStarts
<1>b19. Lexical["plain"] \in Plain
  BY <1>a19, PlainRecord DEF TokenTypes, BlockStarts
<1> QED BY <1>1, <1>b0, <1>b1, <1>b2, <1>b3, <1>b4, <1>b5, <1>b6, <1>b7, <1>b8, <1>b9, <1>b10, <1>b11, <1>b12, <1>b13, <1>b14, <1>b15, <1>b16, <1>b17, <1>b18, <1>b19

(* The keys numbered below what comes next leave room for what comes next.        *)
LEMMA FitNext ==
  ASSUME NEW s, NEW b, Fit(s, b), NEW u, Fit(u, b), b = NextNumber(s), u.parsed = s.parsed,
         Len(u.tokens) >= Len(s.tokens)
  PROVE  Fit(u, NextNumber(u) + 1)
<1>1. /\ s.parsed \in Nat /\ Len(s.tokens) \in Nat /\ Len(u.tokens) \in Nat
  BY DEF Fit, KeysOK, Typed
<1>2. b \in Nat /\ NextNumber(u) + 1 \in Nat /\ b <= NextNumber(u) + 1
  BY <1>1 DEF NextNumber
<1>3. KeysOK(u.simple_keys, u.by_tok, u.parsed, u.index, b)
  BY DEF Fit
<1>4. KeysOK(u.simple_keys, u.by_tok, u.parsed, u.index, NextNumber(u) + 1)
  BY <1>2, <1>3, KeysBelow
<1> QED BY <1>4 DEF Fit

LEMMA FetchOutsideFits ==
  ASSUME NEW s, Fit(s, NextNumber(s)), NEW token \in Tok,
         token.typ \notin BlockStarts \cup {"BLOCK-END"},
         NEW t, t = FetchOutside(s, token), t.error = "none"
  PROVE  /\ Fetched(s, t, IF token.typ = "STREAM-END" THEN 1 ELSE 0)
         /\ AllPassed(s) => AllPassed(t)
<1>1. PICK v, u : v = UnrollIndent(s, -1) /\ u = RemoveSimpleKey(v)
  OBVIOUS
<1>2. PICK b : b = NextNumber(s)
  OBVIOUS
<1>3. Fit(v, b) /\ Keeps(s, v, {"levels", "tokens"}) /\ Settled(s, v) /\ Level(s, v)
  BY <1>1, <1>2, UnrollFits
<1>4. t = Put(Allow(u, FALSE), token)
  BY <1>1 DEF FetchOutside
<1>5. u.error = "none"
  <2>1. DOMAIN v = Fields
    BY <1>3 DEF Keeps
  <2>2. DOMAIN u = Fields
    BY <1>1, <2>1, RemoveDomain
  <2> QED BY <1>4, <2>2, PutError DEF Sound
<1>6. /\ Fit(u, b) /\ Keeps(v, u, {"simple_keys", "by_tok"}) /\ Settled(v, u) /\ Level(v, u)
      /\ Len(u.simple_keys) = Len(v.simple_keys)
      /\ AllPassed(v) => AllPassed(u)
  <2>1. Fit(v, b) /\ u = RemoveSimpleKey(v) /\ u.error = "none"
    BY <1>1, <1>3, <1>5
  <2> QED BY ONLY <2>1, RemoveFits
<1>7. Keeps(s, u, Fetching)
  BY <1>3, <1>6, KeepsTrans DEF Fetching
<1>8. v.parsed = s.parsed /\ u.parsed = s.parsed /\ v.simple_keys = s.simple_keys
  BY <1>3, <1>6 DEF Keeps, Fields, ScannerFields
<1>9. Settled(s, u) /\ Level(s, u)
  <2>1. Typed(s) /\ Typed(v) /\ Typed(u)
    BY <1>3, <1>6 DEF Fit
  <2> QED BY <1>3, <1>6, <1>8, <2>1, SettledTrans, LevelTrans
<1>10. LeftOver(s, u, FALSE)
  BY <1>8, <1>9, SettledLeaves
<1>11. Fit(u, NextNumber(u) + 1)
  BY <1>2, <1>6, <1>8, <1>9, FitNext DEF Level
<1>12. Typed(s)
  BY DEF Fit
<1>13. /\ Fetched(s, t, IF token.typ = "STREAM-END" THEN 1 ELSE 0)
       /\ t.simple_keys = u.simple_keys
  <2>1. /\ Typed(s) /\ Fit(u, NextNumber(u) + 1) /\ Keeps(s, u, Fetching) /\ Level(s, u)
        /\ LeftOver(s, u, FALSE) /\ FALSE \in BOOLEAN /\ t = Put(Allow(u, FALSE), token)
        /\ token \in Tok /\ token.typ \notin BlockStarts \cup {"BLOCK-END"}
    BY <1>4, <1>7, <1>9, <1>10, <1>11, <1>12
  <2> QED BY ONLY <2>1, Finish
<1>14. AllPassed(s) => AllPassed(t)
  BY <1>6, <1>8, <1>13 DEF AllPassed
<1> QED BY <1>13, <1>14

(* The last part of the fetchers: u is s with its keys settled.                   *)
LEMMA FinishSettled ==
  ASSUME NEW s, Fit(s, NextNumber(s)), NEW u, Fit(u, NextNumber(s)),
         Keeps(s, u, Fetching), Settled(s, u), Level(s, u), NEW allowed \in BOOLEAN,
         NEW token \in Tok, token.typ \notin BlockStarts \cup {"BLOCK-END", "STREAM-END"},
         NEW t, t = Put(Allow(u, allowed), token)
  PROVE  Fetched(s, t, 0)
<1>1. u.parsed = s.parsed
  BY DEF Keeps, Fetching, Fields, ScannerFields
<1>2. LeftOver(s, u, allowed)
  BY <1>1, SettledLeaves
<1>3. Fit(u, NextNumber(u) + 1)
  BY <1>1, FitNext DEF Level
<1>4. Typed(s)
  BY DEF Fit
<1>5. Fetched(s, t, IF token.typ = "STREAM-END" THEN 1 ELSE 0)
  BY <1>2, <1>3, <1>4, Finish
<1> QED BY <1>5

LEMMA FetchFlowEndFits ==
  ASSUME NEW s, Fit(s, NextNumber(s)), NEW token \in Tok,
         token.typ \notin BlockStarts \cup {"BLOCK-END", "STREAM-END"},
         NEW t, t = FetchFlowEnd(s, token), t.error = "none"
  PROVE  Fetched(s, t, 0)
<1>1. PICK v, u : v = RemoveSimpleKey(s) /\ u = DecreaseFlowLevel(v)
  OBVIOUS
<1>2. PICK b : b = NextNumber(s)
  OBVIOUS
<1>3. t = Put(Allow(u, FALSE), token)
  BY <1>1 DEF FetchFlowEnd
<1>4. v.error = "none"
  <2>1. DOMAIN s = Fields
    BY DEF Fit, Typed
  <2>2. DOMAIN v = Fields
    BY <1>1, <2>1, RemoveDomain
  <2>3. Sound(v, u)
    BY <1>1, <2>2, DecreaseSound
  <2>4. u.error = "none"
    BY <1>3, <2>3, PutError DEF Sound
  <2> QED BY <2>3, <2>4 DEF Sound
<1>5. /\ Fit(v, b) /\ Keeps(s, v, {"simple_keys", "by_tok"}) /\ Settled(s, v) /\ Level(s, v)
  BY <1>1, <1>2, <1>4, RemoveFits
<1>6. /\ Fit(u, b) /\ Keeps(v, u, {"simple_keys", "flow_level", "by_tok"}) /\ Settled(v, u)
      /\ Level(v, u)
  BY <1>1, <1>5, DecreaseFits
<1>7. Keeps(s, u, Fetching)
  BY <1>5, <1>6, KeepsTrans DEF Fetching
<1>8. v.parsed = s.parsed
  BY <1>5 DEF Keeps, Fields, ScannerFields
<1>9. Settled(s, u) /\ Level(s, u)
  <2>1. Typed(s) /\ Typed(v) /\ Typed(u)
    BY <1>5, <1>6 DEF Fit
  <2> QED BY <1>5, <1>6, <1>8, <2>1, SettledTrans, LevelTrans
<1> QED BY <1>2, <1>3, <1>6, <1>7, <1>9, FinishSettled

LEMMA FetchSeparatorFits ==
  ASSUME NEW s, Fit(s, NextNumber(s)), NEW token \in Tok,
         token.typ \notin BlockStarts \cup {"BLOCK-END", "STREAM-END"},
         NEW t, t = FetchSeparator(s, token), t.error = "none"
  PROVE  Fetched(s, t, 0)
<1>1. PICK u : u = RemoveSimpleKey(s)
  OBVIOUS
<1>2. t = Put(Allow(u, TRUE), token)
  BY <1>1 DEF FetchSeparator
<1>3. u.error = "none"
  <2>1. DOMAIN s = Fields
    BY DEF Fit, Typed
  <2>2. DOMAIN u = Fields
    BY <1>1, <2>1, RemoveDomain
  <2> QED BY <1>2, <2>2, PutError DEF Sound
<1>4. /\ Fit(u, NextNumber(s)) /\ Keeps(s, u, {"simple_keys", "by_tok"}) /\ Settled(s, u)
      /\ Level(s, u)
  BY <1>1, <1>3, RemoveFits
<1>5. Keeps(s, u, Fetching)
  BY <1>4, KeepsMore DEF Fetching
<1> QED BY <1>2, <1>4, <1>5, FinishSettled

LEMMA FetchEntryFits ==
  ASSUME NEW s, Fit(s, NextNumber(s)), NEW token \in Tok,
         token.typ \notin BlockStarts \cup {"BLOCK-END", "STREAM-END"},
         NEW start \in BlockStarts, NEW allowed \in BOOLEAN,
         NEW t, t = FetchEntry(s, token, start, allowed), t.error = "none"
  PROVE  Fetched(s, t, 0)
<1>0. DOMAIN s = Fields /\ Typed(s) /\ s.parsed \in Nat /\ Len(s.tokens) \in Nat
  BY DEF Fit, Typed, KeysOK
<1>1. PICK v, u : /\ v = IF s.flow_level > 0 THEN s ELSE RollIndent(s, s.column, -1, start)
                  /\ u = RemoveSimpleKey(v)
  OBVIOUS
<1>2. PICK b : b = NextNumber(s)
  OBVIOUS
<1>3. t = Put(Allow(u, allowed), token)
  BY <1>0, <1>1, FailedIs DEF FetchEntry
<1>4. Sound(s, v) /\ DOMAIN v = Fields
  BY <1>0, <1>1, RollSound DEF Sound
<1>5. Sound(v, u) /\ u.error = "none"
  <2>1. Sound(v, u)
    BY <1>1, <1>4, RemoveSound
  <2> QED BY <1>3, <2>1, PutError DEF Sound
<1>6. v.error = "none"
  BY <1>5 DEF Sound
<1>7. /\ Fit(v, b) /\ Keeps(s, v, {"levels", "tokens"}) /\ Settled(s, v) /\ Level(s, v)
  <2>1. CASE s.flow_level > 0
    <3>1. v = s
      BY <1>1, <2>1
    <3> QED BY <1>0, <1>2, <3>1 DEF Keeps, Settled, Calm, Level
  <2>2. CASE ~(s.flow_level > 0)
    <3>1. s.column \in Int /\ -1 \in Int /\ -1 <= NextNumber(s)
      BY <1>0 DEF Typed, NextNumber
    <3>2. v = RollIndent(s, s.column, -1, start)
      BY <1>1, <2>2
    <3> QED BY <1>2, <1>6, <3>1, <3>2, RollFits
  <2> QED BY <2>1, <2>2
<1>8. /\ Fit(u, b) /\ Keeps(v, u, {"simple_keys", "by_tok"}) /\ Settled(v, u) /\ Level(v, u)
  BY <1>1, <1>5, <1>7, RemoveFits
<1>9. Keeps(s, u, Fetching)
  BY <1>7, <1>8, KeepsTrans DEF Fetching
<1>10. v.parsed = s.parsed
  BY <1>7 DEF Keeps, Fields, ScannerFields
<1>11. Settled(s, u) /\ Level(s, u)
  <2>1. Typed(s) /\ Typed(v) /\ Typed(u)
    BY <1>7, <1>8 DEF Fit
  <2> QED BY <1>7, <1>8, <1>10, <2>1, SettledTrans, LevelTrans
<1> QED BY <1>2, <1>3, <1>8, <1>9, <1>11, FinishSettled

LEMMA FetchNodeFits ==
  ASSUME NEW s, Fit(s, NextNumber(s)), s.simple_key_allowed => ~Waits(s, Len(s.simple_keys)),
         NEW lexeme, Lexical[lexeme.kind] \in Plain,
         NEW t, t = FetchNode(s, lexeme), t.error = "none"
  PROVE  Fetched(s, t, 0)
<1>0. Typed(s) /\ DOMAIN s = Fields
  BY DEF Fit, Typed
<1>1. PICK token, u : token = Lexical[lexeme.kind] /\ u = SaveSimpleKey(s, token)
  OBVIOUS
<1>2. PICK allowed \in BOOLEAN : allowed = (lexeme.kind = "plain" /\ lexeme.breaks > 0)
  OBVIOUS
<1>3. t = Put(Allow(u, allowed), token)
  BY <1>1, <1>2 DEF FetchNode
<1>4. u.error = "none" /\ DOMAIN u = Fields
  <2>1. Sound(s, u)
    BY <1>0, <1>1, SaveSound
  <2> QED BY <1>3, <2>1, PutError DEF Sound
<1>5. PICK b : b = NextNumber(s)
  OBVIOUS
<1>6. /\ Fit(u, b + 1) /\ Keeps(s, u, {"simple_keys", "by_tok"}) /\ Settled(s, u) /\ Level(s, u)
  BY <1>1, <1>4, <1>5, SaveFits
<1>7. u.parsed = s.parsed /\ u.tokens = s.tokens
  BY <1>6 DEF Keeps, Fields, ScannerFields
<1>8. Fit(u, NextNumber(u) + 1)
  BY <1>5, <1>6, <1>7 DEF NextNumber
<1>9. Keeps(s, u, Fetching)
  BY <1>6, KeepsMore DEF Fetching
<1>10. LeftOver(s, u, allowed)
  BY <1>6, <1>7, SettledLeaves
<1>11. token \in Tok /\ token.typ \notin BlockStarts \cup {"BLOCK-END", "STREAM-END"}
  BY <1>1 DEF Plain
<1>12. Fetched(s, t, IF token.typ = "STREAM-END" THEN 1 ELSE 0)
  <2>1. token.typ \notin BlockStarts \cup {"BLOCK-END"}
    BY <1>11
  <2> QED BY <1>0, <1>3, <1>6, <1>8, <1>9, <1>10, <1>11, <2>1, Finish
<1> QED BY <1>11, <1>12

LEMMA FetchFlowStartFits ==
  ASSUME NEW s, Fit(s, NextNumber(s)), s.simple_key_allowed => ~Waits(s, Len(s.simple_keys)),
         NEW token \in Plain, token.typ \in {"FLOW-SEQUENCE-START", "FLOW-MAPPING-START"},
         NEW t, t = FetchFlowStart(s, token), t.error = "none"
  PROVE  Fetched(s, t, 0)
<1>0. Typed(s) /\ DOMAIN s = Fields
  BY DEF Fit, Typed
<1>1. PICK v, u : v = SaveSimpleKey(s, token) /\ u = IncreaseFlowLevel(v)
  OBVIOUS
<1>2. v.error = "none"
  BY <1>1 DEF FetchFlowStart
<1>3. t = Put(Allow(u, TRUE), token)
  BY <1>1, <1>2 DEF FetchFlowStart
<1>4. DOMAIN v = Fields /\ u.error = "none" /\ DOMAIN u = Fields
  <2>1. Sound(s, v)
    BY <1>0, <1>1, SaveSound
  <2>2. Sound(v, u)
    BY <1>1, <2>1, IncreaseSound DEF Sound
  <2> QED BY <1>3, <2>1, <2>2, PutError DEF Sound
<1>5. PICK b : b = NextNumber(s)
  OBVIOUS
<1>6. /\ Fit(v, b + 1) /\ Keeps(s, v, {"simple_keys", "by_tok"}) /\ Settled(s, v) /\ Level(s, v)
      /\ \A i \in 1..Len(v.simple_keys) :
            v.simple_keys[i].possible /\ v.simple_keys[i].token_number = b =>
               v.simple_keys[i].flow
  BY <1>1, <1>2, <1>5, SaveFits
<1>7. v.parsed = s.parsed /\ v.tokens = s.tokens /\ b = NextNumber(v)
  BY <1>5, <1>6 DEF Keeps, Fields, ScannerFields, NextNumber
<1>8. /\ Fit(u, b + 1) /\ Keeps(v, u, {"simple_keys", "flow_level"}) /\ Settled(v, u)
      /\ Level(v, u)
  BY <1>1, <1>4, <1>6, <1>7, IncreaseFits
<1>9. u.parsed = s.parsed /\ u.tokens = s.tokens
  BY <1>7, <1>8 DEF Keeps, Fields, ScannerFields
<1>10. Fit(u, NextNumber(u) + 1)
  BY <1>5, <1>8, <1>9 DEF NextNumber
<1>11. Keeps(s, u, Fetching)
  BY <1>6, <1>8, KeepsTrans DEF Fetching
<1>12. Settled(s, u) /\ Level(s, u)
  <2>1. Typed(v) /\ Typed(u)
    BY <1>6, <1>8 DEF Fit
  <2> QED BY <1>0, <1>6, <1>7, <1>8, <2>1, SettledTrans, LevelTrans
<1>13. LeftOver(s, u, TRUE)
  BY <1>9, <1>12, SettledLeaves
<1>14. token \in Tok /\ token.typ \notin BlockStarts \cup {"BLOCK-END", "STREAM-END"}
  BY DEF Plain
<1>15. Fetched(s, t, IF token.typ = "STREAM-END" THEN 1 ELSE 0)
  <2>1. token.typ \notin BlockStarts \cup {"BLOCK-END"} /\ TRUE \in BOOLEAN
    BY <1>14
  <2> QED BY ZenonT(60), <1>0, <1>3, <1>10, <1>11, <1>12, <1>13, <1>14, <2>1, Finish
<1> QED BY <1>14, <1>15

LEMMA TokenPlain ==
  /\ Token("KEY") \in Tok /\ Token("VALUE") \in Tok
  /\ Token("KEY").typ = "KEY" /\ Token("VALUE").typ = "VALUE"
  /\ {"KEY", "VALUE"} \cap (BlockStarts \cup {"BLOCK-END", "STREAM-END"}) = {}
  BY DEF Token, Tok, TokenTypes, BlockStarts

(* The ':' after a simple key that may still have one.                            *)
LEMMA SimpleValueFits ==
  ASSUME NEW s, Fit(s, NextNumber(s)), s.late = FALSE,
         NEW key, key = Last(s.simple_keys), key.possible,
         NEW t, t = FetchSimpleValue(s, key), t.error = "none"
  PROVE  Fetched(s, t, 0)
<1>1. PICK b : b = NextNumber(s)
  OBVIOUS
<1>2. PICK top : top = Len(s.simple_keys)
  OBVIOUS
<1>3. /\ top \in 1..Len(s.simple_keys) /\ key = s.simple_keys[top]
      /\ key \in KeyRecord /\ key.token_number \in Nat /\ key.column \in Nat
      /\ key.flow \in BOOLEAN
  BY <1>2, KeyFields DEF Fit, KeysOK, Last
<1>4. /\ Typed(s) /\ DOMAIN s = Fields /\ s.parsed \in Nat /\ Len(s.tokens) \in Nat
      /\ key.token_number < b
  BY <1>1, <1>3 DEF Fit, Typed, KeysOK
<1>5. PICK pos \in Int : pos = key.token_number - s.parsed
  BY <1>3, <1>4
<1>6. PICK keyed, rolled : /\ keyed = InsertToken(s, pos, Token("KEY"))
                           /\ rolled = RollIndent(keyed, key.column, key.token_number, "BLOCK-MAPPING-START")
  OBVIOUS
<1>7. PICK w, taken, u :
         /\ w = WithKey(rolled, top, GivenUp(key))
         /\ taken = [w EXCEPT !.late = @ \/ (~key.flow /\ key.token_number < s.parsed)]
         /\ u = Forget(taken, key.token_number)
  OBVIOUS
<1>8. t = Put(Allow(u, FALSE), Token("VALUE"))
  BY <1>2, <1>5, <1>6, <1>7 DEF FetchSimpleValue
<1>9. /\ Fit(keyed, b) /\ Keeps(s, keyed, {"tokens"}) /\ Settled(s, keyed)
      /\ Len(keyed.tokens) = Len(s.tokens) + 1
      /\ \A T : Cnt(keyed.tokens, T) = Cnt(s.tokens, T) + One(Token("KEY"), T)
  <2>1. pos <= Len(s.tokens)
    BY <1>1, <1>3, <1>4, <1>5 DEF NextNumber
  <2> QED BY <1>1, <1>6, <2>1, TokenPlain, InsertFits
<1>10. Level(s, keyed)
  <2>1. keyed.levels = s.levels
    BY <1>9 DEF Keeps, Fields, ScannerFields
  <2>2. /\ Cnt(keyed.tokens, BlockStarts) = Cnt(s.tokens, BlockStarts)
        /\ Cnt(keyed.tokens, {"BLOCK-END"}) = Cnt(s.tokens, {"BLOCK-END"})
        /\ Cnt(keyed.tokens, {"STREAM-END"}) = Cnt(s.tokens, {"STREAM-END"})
    <3>1. /\ One(Token("KEY"), BlockStarts) = 0 /\ One(Token("KEY"), {"BLOCK-END"}) = 0
          /\ One(Token("KEY"), {"STREAM-END"}) = 0
      BY TokenPlain DEF One
    <3>2. /\ Cnt(s.tokens, BlockStarts) \in Nat /\ Cnt(s.tokens, {"BLOCK-END"}) \in Nat
          /\ Cnt(s.tokens, {"STREAM-END"}) \in Nat
      BY <1>4, CntType DEF Typed
    <3>3. /\ Cnt(keyed.tokens, BlockStarts) = Cnt(s.tokens, BlockStarts) + 0
          /\ Cnt(keyed.tokens, {"BLOCK-END"}) = Cnt(s.tokens, {"BLOCK-END"}) + 0
          /\ Cnt(keyed.tokens, {"STREAM-END"}) = Cnt(s.tokens, {"STREAM-END"}) + 0
      BY <1>9, <3>1
    <3> QED BY ONLY <3>2, <3>3
  <2> QED BY <1>4, <1>9, <2>1, <2>2 DEF Level, Surplus, StreamEnds
<1>11. DOMAIN keyed = Fields /\ DOMAIN rolled = Fields /\ Sound(keyed, rolled)
  BY <1>6, <1>9, RollSound DEF Keeps, Sound
<1>12. rolled.error = "none"
  <2>1. DOMAIN w = Fields /\ w.error = rolled.error
    BY <1>7, <1>11, ErrorKept
  <2>2. DOMAIN taken = Fields /\ taken.error = w.error
    BY <1>7, <2>1 DEF Fields, ScannerFields
  <2>3. DOMAIN u = Fields /\ u.error = taken.error
    BY <1>7, <2>2, ErrorKept
  <2> QED BY <1>8, <2>1, <2>2, <2>3, PutError DEF Sound
<1>13. /\ Fit(rolled, b) /\ Keeps(keyed, rolled, {"levels", "tokens"}) /\ Settled(keyed, rolled)
       /\ Level(keyed, rolled)
  <2>1. key.column \in Int /\ key.token_number \in Int /\ "BLOCK-MAPPING-START" \in BlockStarts
    BY <1>3 DEF BlockStarts
  <2>2. keyed.parsed = s.parsed
    BY <1>9 DEF Keeps, Fields, ScannerFields
  <2>3. key.token_number <= NextNumber(keyed)
    BY SMTT(30), <1>1, <1>3, <1>4, <1>9, <2>2 DEF NextNumber
  <2> QED BY <1>6, <1>9, <1>12, <2>1, <2>3, RollFits
<1>14. /\ rolled.simple_keys = s.simple_keys /\ rolled.by_tok = s.by_tok /\ rolled.late = FALSE
       /\ rolled.parsed = s.parsed /\ rolled.index = s.index
       /\ keyed.simple_keys = s.simple_keys /\ keyed.by_tok = s.by_tok /\ keyed.parsed = s.parsed
  BY <1>9, <1>13 DEF Keeps, Fields, ScannerFields
<1>15. GivenUp(key) \in KeyRecord /\ ~GivenUp(key).possible
       /\ GivenUp(key).token_number = key.token_number
  BY <1>3, GivenUpIs
<1>16. /\ Keeps(rolled, w, {"simple_keys"})
       /\ w.simple_keys \in Seq(KeyRecord) /\ Len(w.simple_keys) = top
       /\ w.simple_keys[top] = GivenUp(key)
       /\ \A i \in 1..Len(s.simple_keys) : i # top => w.simple_keys[i] = s.simple_keys[i]
  <2>1. rolled.simple_keys \in Seq(KeyRecord) /\ top \in 1..Len(rolled.simple_keys)
    BY <1>3, <1>14 DEF Fit, KeysOK
  <2>2. /\ Keeps(rolled, w, {"simple_keys"})
        /\ w.simple_keys \in Seq(KeyRecord) /\ Len(w.simple_keys) = Len(rolled.simple_keys)
        /\ w.simple_keys[top] = GivenUp(key)
        /\ \A i \in 1..Len(rolled.simple_keys) :
              i # top => w.simple_keys[i] = rolled.simple_keys[i]
    BY <1>7, <1>11, <1>15, <2>1, WithKeyKeeps
  <2> QED BY <1>2, <1>14, <2>2
<1>17. ~(~key.flow /\ key.token_number < s.parsed)
  <2>1. Waiting(s.simple_keys, s.by_tok, s.parsed)
    BY DEF Fit, KeysOK
  <2>2. ~key.flow => key.token_number >= s.parsed
    BY <1>3, <2>1 DEF Waiting
  <2> QED BY <1>3, <1>4, <2>2
<1>18. Keeps(w, taken, {})
  <2>1. DOMAIN w = Fields /\ w.late = FALSE
    BY <1>14, <1>16 DEF Keeps, Fields, ScannerFields
  <2>2. taken = [w EXCEPT !.late = FALSE]
    BY <1>7, <1>17, <2>1
  <2> QED BY <2>1, <2>2 DEF Keeps, Fields, ScannerFields
<1>19. Keeps(taken, u, {"by_tok"}) /\ Without(taken.by_tok, u.by_tok, key.token_number)
  <2>1. DOMAIN taken = Fields
    BY <1>18 DEF Keeps
  <2> QED BY <1>7, <2>1, ForgetKeeps
<1>20. /\ Keeps(rolled, u, {"simple_keys", "by_tok"})
       /\ u.simple_keys = w.simple_keys /\ taken.by_tok = s.by_tok
  <2>1. Keeps(rolled, taken, {"simple_keys"})
    BY <1>16, <1>18, KeepsTrans
  <2>2. Keeps(rolled, u, {"simple_keys", "by_tok"})
    BY <1>19, <2>1, KeepsTrans
  <2> QED BY <1>14, <1>16, <1>18, <1>19, <2>1, <2>2 DEF Keeps, Fields, ScannerFields
<1>21. /\ Typed(u) /\ Level(rolled, u) /\ u.parsed = rolled.parsed /\ u.index = rolled.index
       /\ u.tokens = rolled.tokens
  <2>1. Typed(rolled) /\ Len(u.simple_keys) = Len(rolled.simple_keys)
    BY <1>2, <1>13, <1>14, <1>16, <1>20 DEF Fit
  <2> QED BY <1>20, <2>1, KeyStep
<1>22. /\ KeysOK(u.simple_keys, u.by_tok, s.parsed, s.index, b)
       /\ Calm(s.simple_keys, s.by_tok, u.simple_keys, u.by_tok, s.parsed)
  <2>1. KeysOK(s.simple_keys, s.by_tok, s.parsed, s.index, b)
    BY <1>1 DEF Fit
  <2>2. /\ u.simple_keys \in Seq(KeyRecord) /\ Len(u.simple_keys) = Len(s.simple_keys)
        /\ \A i \in 1..Len(s.simple_keys) :
              i # Len(s.simple_keys) => u.simple_keys[i] = s.simple_keys[i]
        /\ ~u.simple_keys[Len(s.simple_keys)].possible
        /\ u.simple_keys[Len(s.simple_keys)].token_number
             = s.simple_keys[Len(s.simple_keys)].token_number
        /\ s.simple_keys[Len(s.simple_keys)].possible
        /\ Without(s.by_tok, u.by_tok, s.simple_keys[Len(s.simple_keys)].token_number)
    BY <1>2, <1>3, <1>15, <1>16, <1>19, <1>20
  <2> QED BY ONLY <2>1, <2>2, KeysRemoved
<1>23. Fit(u, b)
  BY <1>14, <1>21, <1>22 DEF Fit
<1>24. Settled(s, u)
  BY <1>22 DEF Settled
<1>25. Level(s, u)
  <2>1. Typed(s) /\ Typed(keyed) /\ Typed(rolled) /\ Typed(u)
    BY <1>4, <1>9, <1>13, <1>21 DEF Fit
  <2>2. Level(s, rolled)
    BY <1>10, <1>13, <2>1, LevelTrans
  <2> QED BY <1>21, <2>1, <2>2, LevelTrans
<1>26. Keeps(s, u, Fetching)
  <2>1. Keeps(s, rolled, {"levels", "tokens"})
    BY <1>9, <1>13, KeepsTrans
  <2> QED BY <1>20, <2>1, KeepsTrans DEF Fetching
<1>27. Token("VALUE") \in Tok /\ Token("VALUE").typ \notin BlockStarts \cup {"BLOCK-END", "STREAM-END"}
  BY TokenPlain
<1>28. Fit(u, NextNumber(s))
  BY <1>1, <1>23
<1> QED BY <1>8, <1>24, <1>25, <1>26, <1>27, <1>28, FinishSettled

(* The ':' where no simple key waits for it.                                      *)
LEMMA ComplexValueFits ==
  ASSUME NEW s, Fit(s, NextNumber(s)), NEW c, Fit(c, NextNumber(s)), Keeps(s, c, {"simple_keys"}),
         Level(s, c), \A j : Waits(c, j) => j = Len(c.simple_keys),
         NEW t, t = FetchComplexValue(c), t.error = "none"
  PROVE  Fetched(s, t, 0)
<1>0. /\ Typed(s) /\ Typed(c) /\ DOMAIN c = Fields /\ c.parsed = s.parsed
      /\ c.tokens = s.tokens
  BY DEF Fit, Typed, Keeps, Fields, ScannerFields
<1>p. PICK value : value = Token("VALUE")
  OBVIOUS
<1>v. value \in Tok /\ value.typ \notin BlockStarts \cup {"BLOCK-END"} /\ value.typ # "STREAM-END"
  BY <1>p, TokenPlain
<1>b. Fit(c, NextNumber(c) + 1)
  <2>1. NextNumber(c) = NextNumber(s)
    BY <1>0 DEF NextNumber
  <2>2. Fit(c, NextNumber(c))
    BY <2>1
  <2>3. Len(c.tokens) >= Len(c.tokens)
    BY <1>0 DEF Typed
  <2> QED BY <2>2, <2>3, FitNext
<1>1. CASE c.flow_level > 0
  <2>1. t = Put(Allow(c, FALSE), value)
    BY <1>1, <1>p DEF FetchComplexValue
  <2>2. LeftOver(s, c, FALSE)
    <3>1. \A i \in 1..Len(c.simple_keys) : c.simple_keys[i].token_number < NextNumber(s)
      BY DEF Fit, KeysOK
    <3>2. \A j : Waits(c, j) => j \in 1..Len(c.simple_keys)
      BY DEF Waits, Pending, Fit, KeysOK
    <3> QED BY <3>1, <3>2 DEF LeftOver
  <2>3. Keeps(s, c, Fetching)
    BY KeepsMore DEF Fetching
  <2>4. FALSE \in BOOLEAN
    OBVIOUS
  <2>5. Fetched(s, t, IF value.typ = "STREAM-END" THEN 1 ELSE 0)
    BY <1>0, <1>b, <1>v, <2>1, <2>2, <2>3, <2>4, Finish
  <2> QED BY <1>v, <2>5
<1>2. CASE ~(c.flow_level > 0)
  <2>1. PICK u : u = RollIndent(c, c.column, -1, "BLOCK-MAPPING-START")
    OBVIOUS
  <2>2. t = Put(Allow(u, TRUE), value)
    BY <1>0, <1>2, <1>p, <2>1, FailedIs DEF FetchComplexValue
  <2>3. u.error = "none"
    <3>1. Sound(c, u)
      BY <1>0, <2>1, RollSound
    <3> QED BY <2>2, <3>1, PutError DEF Sound
  <2>4. /\ Fit(u, NextNumber(c)) /\ Keeps(c, u, {"levels", "tokens"}) /\ Settled(c, u)
        /\ Level(c, u)
    <3>1. c.column \in Int /\ -1 \in Int /\ -1 <= NextNumber(c) /\ NextNumber(c) = NextNumber(s)
      BY <1>0 DEF Typed, NextNumber, Fit, KeysOK
    <3>2. Fit(c, NextNumber(c)) /\ "BLOCK-MAPPING-START" \in BlockStarts
      BY <3>1 DEF BlockStarts
    <3> QED BY <2>1, <2>3, <3>1, <3>2, RollFits
  <2>5. Typed(u)
    BY <2>4 DEF Fit
  <2>6. Level(s, u)
    BY <1>0, <2>4, <2>5, LevelTrans
  <2>7. Keeps(s, u, Fetching)
    BY <2>4, KeepsTrans DEF Fetching
  <2>8. LeftOver(s, u, TRUE)
    <3>1. u.flow_level = c.flow_level
      BY <2>4 DEF Keeps, Fields, ScannerFields
    <3>2. Len(u.simple_keys) = 1
      BY <1>0, <1>2, <2>5, <3>1 DEF Typed
    <3>3. \A j : ~Waits(u, j)
      BY <3>2 DEF Waits, Pending
    <3> QED BY <3>3 DEF LeftOver
  <2>9. Fit(u, NextNumber(u) + 1)
    <3>1. u.parsed = c.parsed
      BY <2>4 DEF Keeps, Fields, ScannerFields
    <3>2. Fit(c, NextNumber(c))
      BY <1>0 DEF NextNumber
    <3> QED BY <2>4, <3>1, <3>2, FitNext DEF Level
  <2>10. TRUE \in BOOLEAN
    OBVIOUS
  <2>11. Fetched(s, t, IF value.typ = "STREAM-END" THEN 1 ELSE 0)
    <3>1. /\ Typed(s) /\ Fit(u, NextNumber(u) + 1) /\ Keeps(s, u, Fetching) /\ Level(s, u)
          /\ LeftOver(s, u, TRUE) /\ TRUE \in BOOLEAN /\ value \in Tok
          /\ value.typ \notin BlockStarts \cup {"BLOCK-END"} /\ t = Put(Allow(u, TRUE), value)
      BY <1>0, <1>v, <2>2, <2>6, <2>7, <2>8, <2>9
    <3> QED BY ONLY <3>1, Finish
  <2> QED BY <1>v, <2>11
<1> QED BY <1>1, <1>2

LEMMA FetchValueFits ==
  ASSUME NEW s, Fit(s, NextNumber(s)), Ready(s), s.late = FALSE,
         NEW t, t = FetchValue(s), t.error = "none"
  PROVE  Fetched(s, t, 0)
<1>1. PICK c, top : c = Checked(s, top) /\ top = Len(s.simple_keys)
  OBVIOUS
<1>2. c.error = "none"
  BY <1>1 DEF FetchValue
<1>3. top \in 1..Len(s.simple_keys)
  BY <1>1 DEF Fit, KeysOK
<1>4. /\ Fit(c, NextNumber(s)) /\ Keeps(s, c, {"simple_keys"}) /\ Level(s, c)
      /\ Len(c.simple_keys) = Len(s.simple_keys)
      /\ \A j : Waits(c, j) /\ j # top =>
            Waits(s, j) /\ c.simple_keys[j].token_number = s.simple_keys[j].token_number
      /\ c.simple_keys[top].possible => c = s
  BY <1>1, <1>2, <1>3, CheckedFits
<1>5. Last(c.simple_keys) = c.simple_keys[top]
  BY <1>1, <1>4 DEF Last
<1>6. CASE c.simple_keys[top].possible
  <2>1. t = FetchSimpleValue(c, Last(c.simple_keys))
    BY <1>1, <1>2, <1>5, <1>6 DEF FetchValue
  <2>2. c = s
    BY <1>4, <1>6
  <2>3. PICK key : key = Last(s.simple_keys)
    OBVIOUS
  <2> QED BY <1>5, <1>6, <2>1, <2>2, <2>3, SimpleValueFits
<1>7. CASE ~c.simple_keys[top].possible
  <2>1. t = FetchComplexValue(c)
    BY <1>1, <1>2, <1>5, <1>7 DEF FetchValue
  <2>2. \A j : Waits(c, j) => j = Len(c.simple_keys)
    BY <1>1, <1>4 DEF Ready
  <2> QED BY <1>4, <2>1, <2>2, ComplexValueFits
<1> QED BY <1>6, <1>7

(* fetch_next_token, whatever the lexeme.                                         *)
LEMMA FetchFits ==
  ASSUME NEW s, Fit(s, NextNumber(s)), Ready(s), s.late = FALSE,
         NEW lexeme, lexeme.kind \in DOMAIN Lexical,
         NEW t, t = Fetch(s, lexeme), t.error = "none"
  PROVE  Fetched(s, t, 0)
<1>0. DOMAIN s = Fields
  BY DEF Fit, Typed
<1>1. PICK kind, token : kind = lexeme.kind /\ token = Lexical[kind]
  OBVIOUS
<1>2. /\ token \in Plain /\ token \in Tok
      /\ token.typ \notin BlockStarts \cup {"BLOCK-END", "STREAM-END"}
  BY <1>1, LexicalTok DEF Plain
<1>3. t # Failed(s)
  BY <1>0, FailedIs
<1>4. CASE kind \in {"---", "...", "%YAML", "%YAML 1.2", "%TAG"}
  <2>1. t = FetchOutside(s, token)
    BY <1>1, <1>4 DEF Fetch
  <2>2. Fetched(s, t, IF token.typ = "STREAM-END" THEN 1 ELSE 0)
    <3>1. token.typ \notin BlockStarts \cup {"BLOCK-END"}
      BY <1>2
    <3> QED BY <1>2, <2>1, <3>1, FetchOutsideFits
  <2> QED BY <1>2, <2>2
<1>5. CASE kind \in {"[", "{"}
  <2>1. t = FetchFlowStart(s, token)
    BY <1>1, <1>5 DEF Fetch
  <2>2. token.typ \in {"FLOW-SEQUENCE-START", "FLOW-MAPPING-START"}
    BY <1>1, <1>5 DEF Lexical
  <2>3. s.simple_key_allowed => ~Waits(s, Len(s.simple_keys))
    BY DEF Ready
  <2> QED BY <1>2, <2>1, <2>2, <2>3, FetchFlowStartFits
<1>6. CASE kind \in {"]", "}"}
  <2>1. t = FetchFlowEnd(s, token)
    BY <1>1, <1>6 DEF Fetch
  <2> QED BY <1>2, <2>1, FetchFlowEndFits
<1>7. CASE kind = ","
  <2>1. t = FetchSeparator(s, token)
    BY <1>1, <1>7 DEF Fetch
  <2> QED BY <1>2, <2>1, FetchSeparatorFits
<1>8. CASE kind = "-"
  <2>1. t = FetchEntry(s, token, "BLOCK-SEQUENCE-START", TRUE)
    BY <1>1, <1>8 DEF Fetch
  <2>2. "BLOCK-SEQUENCE-START" \in BlockStarts /\ TRUE \in BOOLEAN
    BY DEF BlockStarts
  <2> QED BY <1>2, <2>1, <2>2, FetchEntryFits
<1>9. CASE kind = "?"
  <2>0. PICK allowed \in BOOLEAN : allowed = (s.flow_level = 0)
    OBVIOUS
  <2>1. t = FetchEntry(s, token, "BLOCK-MAPPING-START", allowed)
    BY <1>1, <1>9, <2>0 DEF Fetch
  <2>2. "BLOCK-MAPPING-START" \in BlockStarts
    BY DEF BlockStarts
  <2> QED BY <1>2, <2>1, <2>2, FetchEntryFits
<1>10. CASE kind = ":"
  <2>1. t = FetchValue(s)
    BY <1>1, <1>10 DEF Fetch
  <2> QED BY <2>1, FetchValueFits
<1>11. CASE kind \in {"*", "&", "!", "!h!", "quoted", "plain"}
  <2>1. t = FetchNode(s, lexeme)
    BY <1>1, <1>11 DEF Fetch
  <2>2. s.simple_key_allowed => ~Waits(s, Len(s.simple_keys))
    BY DEF Ready
  <2>3. Lexical[lexeme.kind] \in Plain
    BY <1>1, <1>2
  <2> QED BY <2>1, <2>2, <2>3, FetchNodeFits
<1>12. CASE kind = "|"
  <2>1. t = FetchSeparator(s, token)
    BY <1>1, <1>3, <1>12 DEF Fetch
  <2> QED BY <1>2, <2>1, FetchSeparatorFits
<1>13. kind \in {"---", "...", "%YAML", "%YAML 1.2", "%TAG", "[", "]", "{", "}", ",", "-",
            "?", ":", "*", "&", "!", "!h!", "|", "quoted", "plain"}
  BY <1>1 DEF Lexical
<1> QED BY <1>4, <1>5, <1>6, <1>7, <1>8, <1>9, <1>10, <1>11, <1>12, <1>13

LEMMA UnrollSound ==
  ASSUME NEW s, DOMAIN s = Fields, NEW column, NEW t, t = UnrollIndent(s, column)
  PROVE  Sound(s, t)
<1>1. t = s \/ \E l, q : t = [s EXCEPT !.levels = l, !.tokens = q]
  BY DEF UnrollIndent
<1>2. ASSUME NEW l, NEW q, t = [s EXCEPT !.levels = l, !.tokens = q]
      PROVE  DOMAIN t = Fields /\ t.error = s.error
  BY <1>2 DEF Fields, ScannerFields
<1> QED BY <1>1, <1>2 DEF Sound

LEMMA CheckedSound ==
  ASSUME NEW s, DOMAIN s = Fields, NEW i, NEW t, t = Checked(s, i)
  PROVE  Sound(s, t)
<1>1. t = s \/ t = Failed(s) \/ \E key : t = WithKey(s, i, key)
  BY DEF Checked
<1> QED BY <1>1, ErrorKept, FailedIs DEF Sound

LEMMA BreakSound ==
  ASSUME NEW s, DOMAIN s = Fields, NEW t, t = Break(s)
  PROVE  DOMAIN t = Fields /\ t.error = s.error
<1>1. PICK K : t = [s EXCEPT !.simple_keys = K]
  BY DEF Break
<1> QED BY <1>1 DEF Fields, ScannerFields

LEMMA SimpleValueSound ==
  ASSUME NEW s, DOMAIN s = Fields, NEW key, NEW t, t = FetchSimpleValue(s, key)
  PROVE  Sound(s, t)
<1>1. PICK keyed, rolled, top :
         /\ keyed = InsertToken(s, key.token_number - s.parsed, Token("KEY"))
         /\ rolled = RollIndent(keyed, key.column, key.token_number, "BLOCK-MAPPING-START")
         /\ top = Len(s.simple_keys)
  OBVIOUS
<1>2. PICK w, taken, u :
         /\ w = WithKey(rolled, top, GivenUp(key))
         /\ taken = [w EXCEPT !.late = @ \/ (~key.flow /\ key.token_number < s.parsed)]
         /\ u = Forget(taken, key.token_number)
  OBVIOUS
<1>3. t = Put(Allow(u, FALSE), Token("VALUE"))
  BY <1>1, <1>2 DEF FetchSimpleValue
<1>4. DOMAIN keyed = Fields /\ keyed.error = s.error
  BY <1>1, InsertKeeps DEF Keeps, Fields, ScannerFields
<1>5. Sound(keyed, rolled) /\ DOMAIN rolled = Fields
  BY <1>1, <1>4, RollSound DEF Sound
<1>6. DOMAIN w = Fields /\ w.error = rolled.error
  BY <1>2, <1>5, ErrorKept
<1>7. DOMAIN taken = Fields /\ taken.error = w.error
  BY <1>2, <1>6 DEF Fields, ScannerFields
<1>8. DOMAIN u = Fields /\ u.error = taken.error
  <2>1. Keeps(taken, u, {"by_tok"})
    BY <1>2, <1>7, ForgetKeeps
  <2> QED BY <2>1 DEF Keeps, Fields, ScannerFields
<1>9. Sound(u, t)
  BY <1>3, <1>8, PutSound
<1> QED BY <1>4, <1>5, <1>6, <1>7, <1>8, <1>9 DEF Sound

LEMMA ValueSound ==
  ASSUME NEW s, DOMAIN s = Fields, NEW t, t = FetchValue(s)
  PROVE  Sound(s, t)
<1>1. PICK c : c = Checked(s, Len(s.simple_keys))
  OBVIOUS
<1>2. Sound(s, c) /\ DOMAIN c = Fields
  BY <1>1, CheckedSound DEF Sound
<1>3. \/ t = c
      \/ t = FetchSimpleValue(c, Last(c.simple_keys))
      \/ t = FetchComplexValue(c)
  BY <1>1 DEF FetchValue
<1>4. CASE t = FetchSimpleValue(c, Last(c.simple_keys))
  BY <1>2, <1>4, SimpleValueSound, SoundTrans
<1>5. CASE t = FetchComplexValue(c)
  <2>1. PICK u : u = RollIndent(c, c.column, -1, "BLOCK-MAPPING-START")
    OBVIOUS
  <2>2. Sound(c, u) /\ DOMAIN u = Fields
    BY <1>2, <2>1, RollSound DEF Sound
  <2>3. \/ t = Put(Allow(c, FALSE), Token("VALUE"))
        \/ t = Failed(c)
        \/ t = Put(Allow(u, TRUE), Token("VALUE"))
    BY <1>5, <2>1 DEF FetchComplexValue
  <2>4. Sound(c, t)
    <3>1. CASE t = Put(Allow(c, FALSE), Token("VALUE"))
      BY <1>2, <3>1, PutSound
    <3>2. CASE t = Failed(c)
      BY <1>2, <3>2, FailedIs DEF Sound
    <3>3. CASE t = Put(Allow(u, TRUE), Token("VALUE"))
      <4>1. Sound(u, t)
        BY <2>2, <3>3, PutSound
      <4> QED BY <2>2, <4>1, SoundTrans
    <3> QED BY <2>3, <3>1, <3>2, <3>3
  <2> QED BY <1>2, <2>4, SoundTrans
<1> QED BY <1>2, <1>3, <1>4, <1>5

LEMMA OutsideSound ==
  ASSUME NEW s, DOMAIN s = Fields, NEW token, NEW t, t = FetchOutside(s, token)
  PROVE  Sound(s, t)
<1>1. PICK v, u : v = UnrollIndent(s, -1) /\ u = RemoveSimpleKey(v)
  OBVIOUS
<1>2. t = Put(Allow(u, FALSE), token)
  BY <1>1 DEF FetchOutside
<1>3. Sound(s, v) /\ DOMAIN v = Fields
  BY <1>1, UnrollSound DEF Sound
<1>4. Sound(v, u) /\ DOMAIN u = Fields
  BY <1>1, <1>3, RemoveSound DEF Sound
<1>5. Sound(u, t)
  BY <1>2, <1>4, PutSound
<1> QED BY <1>3, <1>4, <1>5, SoundTrans

(* The scanner fails with an error of its own, or goes on.                        *)
LEMMA FetchSound ==
  ASSUME NEW s, DOMAIN s = Fields, NEW lexeme, NEW t, t = Fetch(s, lexeme)
  PROVE  Sound(s, t)
<1>1. \/ \E token : \/ t = FetchOutside(s, token) \/ t = FetchFlowStart(s, token)
                    \/ t = FetchFlowEnd(s, token) \/ t = FetchSeparator(s, token)
      \/ \E token, start, allowed : t = FetchEntry(s, token, start, allowed)
      \/ t = FetchValue(s) \/ t = FetchNode(s, lexeme) \/ t = Failed(s)
  BY DEF Fetch
<1>2. ASSUME NEW token, t = FetchOutside(s, token) PROVE Sound(s, t)
  BY <1>2, OutsideSound
<1>3. ASSUME NEW token, t = FetchFlowStart(s, token) PROVE Sound(s, t)
  <2>1. PICK v, u : v = SaveSimpleKey(s, token) /\ u = IncreaseFlowLevel(v)
    OBVIOUS
  <2>2. Sound(s, v) /\ DOMAIN v = Fields
    BY <2>1, SaveSound DEF Sound
  <2>3. Sound(v, u) /\ DOMAIN u = Fields
    BY <2>1, <2>2, IncreaseSound DEF Sound
  <2>4. t = v \/ t = Put(Allow(u, TRUE), token)
    BY <1>3, <2>1 DEF FetchFlowStart
  <2>5. t = v \/ Sound(u, t)
    BY <2>3, <2>4, PutSound
  <2> QED BY <2>2, <2>3, <2>5, SoundTrans
<1>4. ASSUME NEW token, t = FetchFlowEnd(s, token) PROVE Sound(s, t)
  <2>1. PICK v, u : v = RemoveSimpleKey(s) /\ u = DecreaseFlowLevel(v)
    OBVIOUS
  <2>2. Sound(s, v) /\ DOMAIN v = Fields
    BY <2>1, RemoveSound DEF Sound
  <2>3. Sound(v, u) /\ DOMAIN u = Fields
    BY <2>1, <2>2, DecreaseSound DEF Sound
  <2>4. t = Put(Allow(u, FALSE), token)
    BY <1>4, <2>1 DEF FetchFlowEnd
  <2>5. Sound(u, t)
    BY <2>3, <2>4, PutSound
  <2> QED BY <2>2, <2>3, <2>5, SoundTrans
<1>5. ASSUME NEW token, t = FetchSeparator(s, token) PROVE Sound(s, t)
  <2>1. PICK u : u = RemoveSimpleKey(s)
    OBVIOUS
  <2>2. Sound(s, u) /\ DOMAIN u = Fields
    BY <2>1, RemoveSound DEF Sound
  <2>3. t = Put(Allow(u, TRUE), token)
    BY <1>5, <2>1 DEF FetchSeparator
  <2>4. Sound(u, t)
    BY <2>2, <2>3, PutSound
  <2> QED BY <2>2, <2>4, SoundTrans
<1>6. ASSUME NEW token, NEW start, NEW allowed, t = FetchEntry(s, token, start, allowed)
      PROVE  Sound(s, t)
  <2>1. PICK v, u : /\ v = IF s.flow_level > 0 THEN s ELSE RollIndent(s, s.column, -1, start)
                    /\ u = RemoveSimpleKey(v)
    OBVIOUS
  <2>2. Sound(s, s)
    BY DEF Sound
  <2>3. Sound(s, v) /\ DOMAIN v = Fields
    BY <2>1, <2>2, RollSound DEF Sound
  <2>4. Sound(v, u) /\ DOMAIN u = Fields
    BY <2>1, <2>3, RemoveSound DEF Sound
  <2>5. t = Failed(s) \/ t = Put(Allow(u, allowed), token)
    BY <1>6, <2>1 DEF FetchEntry
  <2>6. CASE t = Failed(s)
    BY <2>6, FailedIs DEF Sound
  <2>7. CASE t = Put(Allow(u, allowed), token)
    <3>1. Sound(u, t)
      BY <2>4, <2>7, PutSound
    <3> QED BY <2>3, <2>4, <3>1, SoundTrans
  <2> QED BY <2>5, <2>6, <2>7
<1>7. CASE t = FetchValue(s)
  BY <1>7, ValueSound
<1>8. CASE t = FetchNode(s, lexeme)
  <2>1. PICK token, u, allowed :
           /\ token = Lexical[lexeme.kind] /\ u = SaveSimpleKey(s, token)
           /\ allowed = (lexeme.kind = "plain" /\ lexeme.breaks > 0)
    OBVIOUS
  <2>2. Sound(s, u) /\ DOMAIN u = Fields
    BY <2>1, SaveSound DEF Sound
  <2>3. t = Put(Allow(u, allowed), token)
    BY <1>8, <2>1 DEF FetchNode
  <2>4. Sound(u, t)
    BY <2>2, <2>3, PutSound
  <2> QED BY <2>2, <2>4, SoundTrans
<1>9. CASE t = Failed(s)
  BY <1>9, FailedIs DEF Sound
<1> QED BY <1>1, <1>2, <1>3, <1>4, <1>5, <1>6, <1>7, <1>8, <1>9

-----------------------------------------------------------------------------
(* Between the steps of the parser: what is looked for before a token is handed   *)
(* out is either handed out or known.                                             *)
(* A key given up whose token is still in the queue is some tokens behind.        *)
Resolved(s, j) ==
    /\ NextNumber(s) >= s.simple_keys[j].token_number + 2
    /\ j < Len(s.simple_keys) \/ s.simple_key_allowed =>
          NextNumber(s) >= s.simple_keys[j].token_number + 3

(* The head of the queue may be taken: it is there and cannot become a key.       *)
AtHand(s) ==
    /\ s.tokens # <<>>
    /\ \A i \in 1..Len(s.simple_keys) :
          s.simple_keys[i].possible /\ ~s.simple_keys[i].flow =>
             s.simple_keys[i].token_number # s.parsed

(* The scanner between two calls, with or without the head of the queue released. *)
Good(s, available) ==
    /\ Fit(s, NextNumber(s)) /\ s.late = FALSE /\ s.ended \in BOOLEAN
    /\ \A j : Waits(s, j) =>
          (available /\ s.simple_keys[j].token_number = s.parsed) \/ Resolved(s, j)
    /\ s.column = 0 \/ s.ended => AllPassed(s)
    /\ StreamEnds(s) <= 3 /\ (~s.ended => StreamEnds(s) = 0)
    /\ available => AtHand(s)

LEMMA FitMore ==
  ASSUME NEW s, NEW b, Fit(s, b), NEW c \in Nat, b <= c
  PROVE  Fit(s, c)
  BY KeysBelow DEF Fit

LEMMA NumberType ==
  ASSUME NEW s, NEW b, Fit(s, b)
  PROVE  /\ NextNumber(s) \in Nat /\ s.parsed \in Nat /\ Len(s.tokens) \in Nat
         /\ NextNumber(s) = s.parsed + Len(s.tokens)
         /\ \A j : Waits(s, j) =>
               /\ j \in 1..Len(s.simple_keys) /\ j # 1
               /\ s.simple_keys[j].token_number \in Nat
               /\ s.simple_keys[j].token_number >= s.parsed
<1>1. s.parsed \in Nat /\ Len(s.tokens) \in Nat
  BY DEF Fit, KeysOK, Typed
<1>2. \A j : Waits(s, j) =>
               /\ j \in 1..Len(s.simple_keys) /\ j # 1
               /\ s.simple_keys[j].token_number >= s.parsed
  BY DEF Waits, Pending
<1>3. \A j \in 1..Len(s.simple_keys) : s.simple_keys[j].token_number \in Nat
  BY KeyFields DEF Fit, KeysOK
<1> QED BY <1>1, <1>2, <1>3 DEF NextNumber

LEMMA ReachSound ==
  ASSUME NEW s, DOMAIN s = Fields, NEW x, NEW t, t = Reach(s, x)
  PROVE  DOMAIN t = Fields /\ t.error = s.error
<1>1. PICK v : v = IF x.fresh THEN Break(s) ELSE s
  OBVIOUS
<1>2. DOMAIN v = Fields /\ v.error = s.error
  BY <1>1, BreakSound
<1>3. \E c, i, a : t = [v EXCEPT !.column = c, !.index = i, !.simple_key_allowed = a]
  BY <1>1 DEF Reach
<1> QED BY <1>2, <1>3 DEF Fields, ScannerFields

LEMMA PassSound ==
  ASSUME NEW s, DOMAIN s = Fields, NEW x, NEW t, t = Pass(s, x)
  PROVE  DOMAIN t = Fields /\ t.error = s.error
<1>1. PICK v : v = IF x.breaks > 0 THEN Break(s) ELSE s
  OBVIOUS
<1>2. DOMAIN v = Fields /\ v.error = s.error
  BY <1>1, BreakSound
<1>3. \E c, l : t = [v EXCEPT !.column = c, !.last = l]
  BY <1>1 DEF Pass
<1> QED BY <1>2, <1>3 DEF Fields, ScannerFields

(* A step that only reports an error.                                             *)
LEMMA SameGood ==
  ASSUME NEW s, NEW available, Good(s, available), NEW t, Keeps(s, t, {"error"})
  PROVE  Good(t, available) /\ Surplus(t) = Surplus(s) /\ t.started = s.started
<1>1. /\ t.simple_keys = s.simple_keys /\ t.by_tok = s.by_tok /\ t.parsed = s.parsed
      /\ t.index = s.index /\ t.column = s.column /\ t.flow_level = s.flow_level
      /\ t.levels = s.levels /\ t.simple_key_allowed = s.simple_key_allowed
      /\ t.tokens = s.tokens /\ t.ended = s.ended /\ t.late = s.late /\ t.started = s.started
  BY DEF Keeps, Fields, ScannerFields
<1>2. NextNumber(t) = NextNumber(s) /\ Surplus(t) = Surplus(s) /\ StreamEnds(t) = StreamEnds(s)
  BY <1>1 DEF NextNumber, Surplus, StreamEnds
<1>3. Fit(t, NextNumber(t))
  BY <1>1, <1>2 DEF Good, Fit, Typed, Keeps
<1>4. \A j : /\ Waits(t, j) <=> Waits(s, j)
             /\ Resolved(t, j) <=> Resolved(s, j)
  BY <1>1, <1>2 DEF Waits, Resolved
<1>5. AllPassed(t) <=> AllPassed(s)
  BY <1>1 DEF AllPassed
<1>6. AtHand(t) <=> AtHand(s)
  BY <1>1 DEF AtHand
<1> QED BY <1>1, <1>2, <1>3, <1>4, <1>5, <1>6 DEF Good

(* What a step of the scanner leaves alone.                                       *)
Scanning == Fields \ {"started", "parsed", "late"}

(* The keys that wait after s became t with one token more at least.              *)
LEMMA StillResolved ==
  ASSUME NEW s, Good(s, FALSE), NEW u, Settled(s, u), u.parsed = s.parsed,
         NEW c \in Nat, Fit(u, c), Len(u.tokens) >= Len(s.tokens),
         NEW f, Fit(f, NextNumber(f)), f.parsed = s.parsed,
         Len(f.tokens) > Len(u.tokens), LeftOver(u, f, f.simple_key_allowed)
  PROVE  \A j : Waits(f, j) => Resolved(f, j)
<1> SUFFICES ASSUME NEW j, Waits(f, j) PROVE Resolved(f, j)
  OBVIOUS
<1>1. PICK p \in Nat, k \in Nat, l \in Nat, m \in Nat, n \in Nat :
         /\ p = s.parsed /\ k = Len(s.tokens) /\ l = Len(u.tokens) /\ m = Len(f.tokens)
         /\ n = f.simple_keys[j].token_number
         /\ NextNumber(s) = p + k /\ NextNumber(u) = p + l /\ NextNumber(f) = p + m
         /\ k <= l /\ l < m
  <2>1. Fit(s, NextNumber(s))
    BY DEF Good
  <2>2. s.parsed \in Nat /\ Len(s.tokens) \in Nat /\ NextNumber(s) = s.parsed + Len(s.tokens)
    BY <2>1, NumberType
  <2>3. Len(u.tokens) \in Nat /\ NextNumber(u) = u.parsed + Len(u.tokens)
    BY NumberType
  <2>4. Len(f.tokens) \in Nat /\ NextNumber(f) = f.parsed + Len(f.tokens)
    BY NumberType
  <2>5. f.simple_keys[j].token_number \in Nat
    BY NumberType
  <2> QED BY <2>2, <2>3, <2>4, <2>5
<1>n. p \in Nat /\ k \in Nat /\ l \in Nat /\ m \in Nat /\ n \in Nat /\ k <= l /\ l < m
  BY <1>1
<1>2. CASE Waits(u, j) /\ f.simple_keys[j].token_number = u.simple_keys[j].token_number
  <2>1. j \in 1..Len(u.simple_keys)
    BY <1>2, NumberType
  <2>2. Waits(s, j) /\ u.simple_keys[j].token_number = s.simple_keys[j].token_number
    BY <1>2, <2>1 DEF Settled, Calm, Waits
  <2>3. Resolved(s, j)
    BY <2>2 DEF Good
  <2>4. p + k >= n + 2
    BY <1>1, <1>2, <2>2, <2>3 DEF Resolved
  <2>5. p + m >= n + 3
    BY ONLY <1>n, <2>4
  <2>6. p + m >= n + 2
    BY ONLY <1>n, <2>5
  <2> QED BY <1>1, <2>5, <2>6 DEF Resolved
<1>3. CASE /\ j = Len(f.simple_keys) /\ ~f.simple_key_allowed
           /\ f.simple_keys[j].token_number < NextNumber(u)
  <2>0. n < p + l
    BY <1>1, <1>3
  <2>1. p + m >= n + 2
    BY ONLY <1>n, <2>0
  <2>2. ~(j < Len(f.simple_keys))
    BY <1>3 DEF Fit, KeysOK
  <2> QED BY <1>1, <1>3, <2>1, <2>2 DEF Resolved
<1> QED BY <1>2, <1>3 DEF LeftOver

LEMMA SettledSteps ==
  ASSUME NEW s, NEW b, Fit(s, b), NEW c, NEW t, Fit(t, c), NEW d, NEW u, Fit(u, d),
         t.parsed = s.parsed, Settled(s, t), Settled(t, u), Level(s, t), Level(t, u)
  PROVE  Settled(s, u) /\ Level(s, u)
<1>1. Typed(s) /\ Typed(t) /\ Typed(u)
  BY DEF Fit
<1> QED BY <1>1, SettledTrans, LevelTrans

(* One lexeme more.                                                               *)
LEMMA LexemeGood ==
  ASSUME NEW s, Good(s, FALSE), ~s.ended, Len(s.tokens) < 3 \/ \A j : ~Waits(s, j),
         NEW x, x.kind \in DOMAIN Lexical, x.fresh \in BOOLEAN, x.column \in Nat,
         x.breaks \in {0, 1},
         NEW t, t = Pass(Fetch(UnrollIndent(Reach(s, x), x.column), x), x), t.error = "none"
  PROVE  Good(t, FALSE) /\ Surplus(t) = Surplus(s) /\ Keeps(s, t, Scanning)
<1>0. Fit(s, NextNumber(s)) /\ s.late = FALSE /\ DOMAIN s = Fields
  BY DEF Good, Fit, Typed
<1>1. PICK r, u, f : r = Reach(s, x) /\ u = UnrollIndent(r, x.column) /\ f = Fetch(u, x)
  OBVIOUS
<1>2. t = Pass(f, x)
  BY <1>1
<1>3. PICK b \in Nat : b = NextNumber(s)
  BY <1>0, NumberType
<1>4. /\ Fit(r, b) /\ Settled(s, r) /\ Level(s, r)
      /\ Keeps(s, r, {"simple_keys", "column", "index", "simple_key_allowed"})
      /\ Len(r.simple_keys) = Len(s.simple_keys)
      /\ r.simple_key_allowed => s.simple_key_allowed \/ s.flow_level = 0
  BY <1>0, <1>1, <1>3, ReachFits
<1>5. Fit(u, b) /\ Keeps(r, u, {"levels", "tokens"}) /\ Settled(r, u) /\ Level(r, u)
  <2>1. x.column \in Int /\ x.column >= -1
    OBVIOUS
  <2> QED BY <1>1, <1>4, <2>1, UnrollFits
<1>6. /\ r.parsed = s.parsed /\ u.parsed = s.parsed /\ u.late = FALSE /\ u.ended = s.ended
      /\ u.simple_keys = r.simple_keys /\ u.simple_key_allowed = r.simple_key_allowed
  BY <1>0, <1>4, <1>5 DEF Keeps, Fields, ScannerFields
<1>7. Settled(s, u) /\ Level(s, u)
  BY <1>0, <1>3, <1>4, <1>5, <1>6, SettledSteps
<1>8. Fit(u, NextNumber(u))
  <2>1. NextNumber(u) \in Nat /\ Len(u.tokens) \in Nat /\ NextNumber(u) = u.parsed + Len(u.tokens)
    BY <1>5, NumberType
  <2>2. s.parsed \in Nat /\ Len(s.tokens) \in Nat /\ b = s.parsed + Len(s.tokens)
    BY <1>0, <1>3, NumberType
  <2>3. b <= NextNumber(u)
    BY <1>6, <1>7, <2>1, <2>2 DEF Level
  <2> QED BY <1>5, <2>1, <2>3, FitMore
<1>9. Ready(u)
  <2> SUFFICES ASSUME NEW j, Waits(u, j) PROVE j = Len(u.simple_keys) /\ ~u.simple_key_allowed
    BY DEF Ready
  <2>1. j \in 1..Len(u.simple_keys)
    BY <1>5, NumberType
  <2>2. Waits(s, j)
    BY <1>6, <1>7, <2>1 DEF Settled, Calm, Waits
  <2>3. PICK p \in Nat, k \in Nat, n \in Nat :
           p = s.parsed /\ k = Len(s.tokens) /\ n = s.simple_keys[j].token_number
    BY <1>0, <2>2, NumberType
  <2>4. /\ k < 3 /\ n >= p /\ NextNumber(s) = p + k /\ j \in 1..Len(s.simple_keys) /\ j # 1
    <3>1. /\ NextNumber(s) = s.parsed + Len(s.tokens)
          /\ j \in 1..Len(s.simple_keys) /\ j # 1
          /\ s.simple_keys[j].token_number >= s.parsed
      BY <1>0, <2>2, NumberType
    <3>2. Len(s.tokens) < 3
      BY <2>2
    <3> QED BY ONLY <2>3, <3>1, <3>2
  <2>5. ~(j < Len(s.simple_keys) \/ s.simple_key_allowed)
    <3>1. ~(p + k >= n + 3)
      <4>1. p \in Nat /\ k \in Nat /\ n \in Nat /\ k < 3 /\ n >= p
        BY <2>4
      <4> QED BY ONLY <4>1
    <3>2. Resolved(s, j)
      BY <2>2 DEF Good
    <3> QED BY <2>3, <2>4, <3>1, <3>2 DEF Resolved
  <2>6. j = Len(s.simple_keys)
    <3>1. Len(s.simple_keys) \in Nat
      BY <1>0 DEF Fit, KeysOK
    <3> QED BY <2>4, <2>5, <3>1
  <2>7. s.flow_level # 0
    BY <1>0, <2>4, <2>6 DEF Fit, Typed
  <2> QED BY <1>4, <1>6, <2>5, <2>6, <2>7
<1>10. f.error = "none"
  <2>1. DOMAIN r = Fields
    BY <1>4 DEF Keeps
  <2>2. DOMAIN u = Fields
    BY <1>5 DEF Keeps
  <2>3. DOMAIN f = Fields
    BY <1>1, <2>2, FetchSound DEF Sound
  <2> QED BY <1>2, <2>3, PassSound
<1>11. Fetched(u, f, 0)
  BY <1>1, <1>6, <1>8, <1>9, <1>10, FetchFits
<1>12. /\ Fit(f, NextNumber(f)) /\ Keeps(u, f, Fetching)
       /\ Surplus(f) = Surplus(u) /\ StreamEnds(f) = StreamEnds(u) + 0
       /\ Len(f.tokens) > Len(u.tokens)
       /\ LeftOver(u, f, f.simple_key_allowed)
  BY <1>11 DEF Fetched
<1>13. /\ Fit(t, NextNumber(f)) /\ Settled(f, t) /\ Level(f, t)
       /\ Keeps(f, t, {"simple_keys", "column", "last"})
       /\ Len(t.simple_keys) = Len(f.simple_keys)
       /\ t.column = 0 => AllPassed(t)
  BY <1>2, <1>12, PassFits
<1>14. Keeps(s, t, Scanning)
  <2>1. /\ {"simple_keys", "column", "index", "simple_key_allowed"} \subseteq Scanning
        /\ {"levels", "tokens"} \subseteq Scanning /\ Fetching \subseteq Scanning
        /\ {"simple_keys", "column", "last"} \subseteq Scanning
    BY DEF Scanning, Fetching, Fields, ScannerFields
  <2>2. Keeps(s, u, Scanning)
    BY <1>4, <1>5, <2>1, KeepsTrans
  <2>3. Keeps(u, t, Scanning)
    BY <1>12, <1>13, <2>1, KeepsTrans
  <2> QED BY <2>2, <2>3, KeepsTrans
<1>15. /\ f.parsed = s.parsed /\ t.parsed = s.parsed /\ t.tokens = f.tokens /\ t.late = FALSE
       /\ t.ended = s.ended /\ t.simple_key_allowed = f.simple_key_allowed
       /\ NextNumber(t) = NextNumber(f)
  BY <1>6, <1>12, <1>13 DEF Keeps, Fetching, Fields, ScannerFields, NextNumber
<1>16. Surplus(t) = Surplus(s) /\ StreamEnds(t) = StreamEnds(s)
  <2>1. StreamEnds(u) \in Nat
    BY <1>5, SurplusType DEF Fit
  <2> QED BY <1>7, <1>12, <1>13, <2>1 DEF Level
<1>17. \A j : Waits(f, j) => Resolved(f, j)
  <2>1. Len(u.tokens) >= Len(s.tokens)
    BY <1>7 DEF Level
  <2> QED BY <1>6, <1>7, <1>8, <1>12, <1>15, <2>1, NumberType, StillResolved
<1>18. ASSUME NEW j, Waits(t, j) PROVE Resolved(t, j)
  <2>1. j \in 1..Len(t.simple_keys)
    BY <1>13, <1>18, NumberType
  <2>2. Waits(f, j) /\ t.simple_keys[j].token_number = f.simple_keys[j].token_number
    BY <1>13, <1>15, <1>18, <2>1 DEF Settled, Calm, Waits
  <2> QED BY <1>13, <1>15, <1>17, <2>2 DEF Resolved
<1>19. StreamEnds(t) = 0 /\ t.ended = FALSE
  BY <1>15, <1>16 DEF Good
<1> QED BY <1>13, <1>14, <1>15, <1>16, <1>18, <1>19 DEF Good

(* The end of the text, again and again.                                          *)
LEMMA EndGood ==
  ASSUME NEW s, Good(s, FALSE), Len(s.tokens) < 3 \/ ~s.ended,
         NEW t, t = FetchOutside([ForceNewLine(s) EXCEPT !.ended = TRUE], Token("STREAM-END")),
         t.error = "none"
  PROVE  Good(t, FALSE) /\ Surplus(t) = Surplus(s) /\ Keeps(s, t, Scanning)
<1>0. Fit(s, NextNumber(s)) /\ s.late = FALSE /\ DOMAIN s = Fields
  BY DEF Good, Fit, Typed
<1>1. PICK e, token : /\ e = [ForceNewLine(s) EXCEPT !.ended = TRUE]
                      /\ token = Token("STREAM-END")
  OBVIOUS
<1>2. token \in Tok /\ token.typ = "STREAM-END" /\ token.typ \notin BlockStarts \cup {"BLOCK-END"}
  BY <1>1 DEF Token, Tok, TokenTypes, BlockStarts
<1>3. PICK b \in Nat : b = NextNumber(s)
  BY <1>0, NumberType
<1>4. /\ Fit(e, b) /\ Settled(s, e) /\ Level(s, e) /\ AllPassed(e)
      /\ Keeps(s, e, {"simple_keys", "column", "ended"}) /\ e.ended = TRUE
      /\ Len(e.simple_keys) = Len(s.simple_keys)
  <2>1. s.column = 0 => AllPassed(s)
    BY DEF Good
  <2> QED BY <1>0, <1>1, <1>3, <2>1, EndLine
<1>5. e.parsed = s.parsed /\ e.tokens = s.tokens /\ e.late = FALSE /\ NextNumber(e) = b
  BY <1>0, <1>3, <1>4 DEF Keeps, Fields, ScannerFields, NextNumber
<1>6. Fetched(e, t, 1) /\ AllPassed(t)
  <2>1. Fit(e, NextNumber(e)) /\ t = FetchOutside(e, token)
    BY <1>1, <1>4, <1>5
  <2> QED BY <1>2, <1>4, <2>1, FetchOutsideFits
<1>7. /\ Fit(t, NextNumber(t)) /\ Keeps(e, t, Fetching)
      /\ Surplus(t) = Surplus(e) /\ StreamEnds(t) = StreamEnds(e) + 1
      /\ Len(t.tokens) > Len(e.tokens)
      /\ LeftOver(e, t, t.simple_key_allowed)
  BY <1>6 DEF Fetched
<1>8. /\ t.parsed = s.parsed /\ t.late = FALSE /\ t.ended = TRUE
  BY <1>4, <1>5, <1>7 DEF Keeps, Fetching, Fields, ScannerFields
<1>9. Keeps(s, t, Scanning)
  <2>1. {"simple_keys", "column", "ended"} \subseteq Scanning /\ Fetching \subseteq Scanning
    BY DEF Scanning, Fetching, Fields, ScannerFields
  <2> QED BY <1>4, <1>7, <2>1, KeepsTrans
<1>10. Surplus(t) = Surplus(s) /\ StreamEnds(t) <= 3
  <2>1. /\ StreamEnds(s) \in Nat /\ Len(s.tokens) \in Nat /\ StreamEnds(s) <= Len(s.tokens)
    BY <1>0, SurplusType DEF Fit
  <2>2. Surplus(t) = Surplus(s) /\ StreamEnds(t) = StreamEnds(s) + 1
    BY <1>4, <1>7 DEF Level
  <2>3. CASE Len(s.tokens) < 3
    BY <2>1, <2>2, <2>3
  <2>4. CASE ~s.ended
    BY <2>2, <2>4 DEF Good
  <2> QED BY <2>2, <2>3, <2>4
<1>11. \A j : Waits(t, j) => Resolved(t, j)
  <2>1. Len(e.tokens) >= Len(s.tokens)
    BY <1>4 DEF Level
  <2> QED BY <1>4, <1>5, <1>7, <1>8, <2>1, StillResolved
<1> QED BY <1>6, <1>7, <1>8, <1>9, <1>10, <1>11 DEF Good

(* The level that the head of the queue leads to.                                 *)
LEMMA HeadLevel ==
  ASSUME NEW s, NEW b, Fit(s, b), s.parsed \in DOMAIN s.by_tok, NEW k, k = s.by_tok[s.parsed]
  PROVE  /\ k \in 1..Len(s.simple_keys)
         /\ k # 1 => s.simple_keys[k].token_number = s.parsed
<1>1. s.parsed \in Nat /\ Leads(s.simple_keys, s.by_tok, s.parsed)
  BY DEF Fit, KeysOK
<1> QED BY <1>1 DEF Leads

(* While the head may still become a key, no other key is given up before it, and *)
(* the text goes on.                                                              *)
LEMMA HeldQuiet ==
  ASSUME NEW s, Good(s, FALSE), s.parsed \in DOMAIN s.by_tok,
         NEW k, k = s.by_tok[s.parsed], NEW t, t = Checked(s, k), t.error = "none",
         t.simple_keys[k].possible
  PROVE  (\A j : ~Waits(s, j)) /\ ~s.ended
<1>0. Fit(s, NextNumber(s))
  BY DEF Good
<1>1. /\ k \in 1..Len(s.simple_keys)
      /\ k # 1 => s.simple_keys[k].token_number = s.parsed
  BY <1>0, HeadLevel
<1>2. t = s /\ ~Gone(s.simple_keys[k], s.index)
  BY <1>0, <1>1, CheckedFits
<1>3. s.simple_keys[k].possible
  BY <1>2
<1>4. ASSUME NEW j, Waits(s, j) PROVE FALSE
  <2>1. /\ j \in 1..Len(s.simple_keys) /\ j # 1 /\ ~s.simple_keys[j].possible
        /\ s.simple_keys[j].token_number \in Nat /\ s.simple_keys[j].token_number >= s.parsed
        /\ s.parsed \in Nat
    <3>1. ~s.simple_keys[j].possible
      BY <1>4 DEF Waits, Pending
    <3> QED BY <1>0, <1>4, <3>1, NumberType
  <2>2. ~(k < j)
    BY <1>0, <1>1, <1>2, <1>3, <1>4, <2>1 DEF Fit, KeysOK, Behind, Waits
  <2>3. j < k
    BY <1>1, <1>3, <2>1, <2>2
  <2>4. s.simple_keys[j].token_number < s.simple_keys[k].token_number
    BY <1>0, <1>1, <1>3, <2>1, <2>3 DEF Fit, KeysOK, Ordered
  <2> QED BY <1>1, <2>1, <2>3, <2>4
<1>5. ~s.ended
  BY <1>1, <1>2, <1>3 DEF Good, AllPassed, Gone
<1> QED BY <1>4, <1>5

(* The head of the queue is released.                                             *)
LEMMA ReleaseGood ==
  ASSUME NEW s, Good(s, FALSE), s.tokens # <<>>,
         NEW t, t = IF s.parsed \in DOMAIN s.by_tok THEN Checked(s, s.by_tok[s.parsed]) ELSE s,
         t.error = "none",
         ~(s.parsed \in DOMAIN t.by_tok /\ t.simple_keys[t.by_tok[s.parsed]].possible)
  PROVE  Good(t, TRUE) /\ Surplus(t) = Surplus(s) /\ Keeps(s, t, {"simple_keys"})
<1>0. Fit(s, NextNumber(s)) /\ DOMAIN s = Fields
  BY DEF Good, Fit, Typed
<1>1. CASE s.parsed \notin DOMAIN s.by_tok
  <2>1. t = s
    BY <1>1
  <2>2. AtHand(s)
    <3>1. Waiting(s.simple_keys, s.by_tok, s.parsed)
      BY <1>0 DEF Fit, KeysOK
    <3> QED BY <1>1, <3>1 DEF AtHand, Waiting, Entered
  <2>3. Good(t, TRUE)
    BY <2>1, <2>2 DEF Good
  <2> QED BY <1>0, <2>1, <2>3 DEF Keeps
<1>2. CASE s.parsed \in DOMAIN s.by_tok
  <2>1. PICK k : k = s.by_tok[s.parsed]
    OBVIOUS
  <2>2. t = Checked(s, k)
    BY <1>2, <2>1
  <2>3. /\ k \in 1..Len(s.simple_keys)
        /\ k # 1 => s.simple_keys[k].token_number = s.parsed
    BY <1>0, <1>2, <2>1, HeadLevel
  <2>4. /\ Fit(t, NextNumber(s)) /\ Keeps(s, t, {"simple_keys"}) /\ Level(s, t)
        /\ Len(t.simple_keys) = Len(s.simple_keys)
        /\ t.simple_keys[k].token_number = s.simple_keys[k].token_number
        /\ \A j : Waits(t, j) /\ j # k =>
              Waits(s, j) /\ t.simple_keys[j].token_number = s.simple_keys[j].token_number
        /\ \A i \in 1..Len(t.simple_keys) :
              t.simple_keys[i].possible => t.simple_keys[i] = s.simple_keys[i]
    <3>1. /\ Fit(s, NextNumber(s)) /\ k \in 1..Len(s.simple_keys) /\ t = Checked(s, k)
          /\ t.error = "none"
      BY <1>0, <2>2, <2>3
    <3> QED BY ONLY <3>1, CheckedFits
  <2>5. /\ t.by_tok = s.by_tok /\ t.parsed = s.parsed /\ t.tokens = s.tokens /\ t.late = s.late
        /\ t.ended = s.ended /\ t.column = s.column
        /\ t.simple_key_allowed = s.simple_key_allowed /\ NextNumber(t) = NextNumber(s)
    BY <2>4 DEF Keeps, Fields, ScannerFields, NextNumber
  <2>6. ~t.simple_keys[k].possible
    BY <1>2, <2>1, <2>5
  <2>7. AtHand(t)
    <3>1. Waiting(t.simple_keys, t.by_tok, t.parsed)
      BY <2>4 DEF Fit, KeysOK
    <3>2. ASSUME NEW i \in 1..Len(t.simple_keys), t.simple_keys[i].possible,
                 ~t.simple_keys[i].flow, t.simple_keys[i].token_number = t.parsed
          PROVE  FALSE
      <4>1. t.by_tok[t.parsed] = i
        BY <3>1, <3>2 DEF Waiting, Entered
      <4> QED BY <2>1, <2>5, <2>6, <3>2, <4>1
    <3> QED BY <2>5, <3>2 DEF AtHand
  <2>8. \A j : Waits(t, j) => t.simple_keys[j].token_number = t.parsed \/ Resolved(t, j)
    <3> SUFFICES ASSUME NEW j, Waits(t, j)
                 PROVE  t.simple_keys[j].token_number = t.parsed \/ Resolved(t, j)
      OBVIOUS
    <3>1. CASE j = k
      <4>1. j # 1
        BY <2>4, NumberType
      <4> QED BY <2>3, <2>4, <2>5, <3>1, <4>1
    <3>2. CASE j # k
      <4>1. Waits(s, j) /\ t.simple_keys[j].token_number = s.simple_keys[j].token_number
        BY <2>4, <3>2
      <4>2. Resolved(s, j)
        BY <4>1 DEF Good
      <4> QED BY <2>4, <2>5, <4>1, <4>2 DEF Resolved
    <3> QED BY <3>1, <3>2
  <2>9. AllPassed(s) => AllPassed(t)
    BY <2>4 DEF AllPassed
  <2>10. Surplus(t) = Surplus(s) /\ StreamEnds(t) = StreamEnds(s)
    BY <2>4 DEF Level
  <2>11. Good(t, TRUE)
    BY <2>4, <2>5, <2>7, <2>8, <2>9, <2>10 DEF Good
  <2> QED BY <2>4, <2>10, <2>11
<1> QED BY <1>1, <1>2

(* The parser takes the head.                                                     *)
LEMMA TakenGood ==
  ASSUME NEW s, Good(s, TRUE), NEW t, Keeps(s, t, {"tokens", "parsed"}),
         t.tokens = Tail(s.tokens), t.parsed = s.parsed + 1
  PROVE  /\ Good(t, FALSE) /\ Head(s.tokens) \in Tok
         /\ Surplus(t) = Surplus(s) - One(Head(s.tokens), BlockStarts)
                                    + One(Head(s.tokens), {"BLOCK-END"})
<1>0. Fit(s, NextNumber(s)) /\ AtHand(s)
  BY DEF Good
<1>1. PICK q : q = s.tokens /\ q \in Seq(Tok) /\ q # <<>>
  BY <1>0 DEF Fit, Typed, AtHand
<1>2. /\ Head(q) \in Tok /\ t.tokens = Tail(q) /\ Tail(q) \in Seq(Tok) /\ Len(Tail(q)) = Len(q) - 1
      /\ \A T : Cnt(q, T) = Cnt(Tail(q), T) + One(Head(q), T)
  BY <1>1, CntTail
<1>3. \A T : Cnt(q, T) \in Nat /\ Cnt(Tail(q), T) \in Nat
  BY <1>1, <1>2, CntType
<1>4. /\ t.simple_keys = s.simple_keys /\ t.by_tok = s.by_tok /\ t.index = s.index
      /\ t.column = s.column /\ t.flow_level = s.flow_level
      /\ t.levels = s.levels /\ t.simple_key_allowed = s.simple_key_allowed
      /\ t.ended = s.ended /\ t.late = s.late
  BY DEF Keeps, Fields, ScannerFields
<1>5. NextNumber(t) = NextNumber(s)
  <2>1. PICK p \in Nat, n \in Nat : p = s.parsed /\ n = Len(q)
    BY <1>0, <1>1, NumberType
  <2>2. NextNumber(t) = (p + 1) + (n - 1) /\ NextNumber(s) = p + n
    BY <1>1, <1>2, <2>1 DEF NextNumber
  <2>3. (p + 1) + (n - 1) = p + n
    OBVIOUS
  <2> QED BY <2>2, <2>3
<1>6. /\ KeysOK(s.simple_keys, s.by_tok, s.parsed + 1, s.index, NextNumber(s))
      /\ \A j : Pending(s.simple_keys, s.by_tok, s.parsed + 1, j) =>
            /\ Pending(s.simple_keys, s.by_tok, s.parsed, j)
            /\ s.simple_keys[j].token_number # s.parsed
  <2>1. KeysOK(s.simple_keys, s.by_tok, s.parsed, s.index, NextNumber(s))
    BY <1>0 DEF Fit
  <2>2. \A i \in 1..Len(s.simple_keys) : s.simple_keys[i].possible /\ ~s.simple_keys[i].flow =>
           s.simple_keys[i].token_number # s.parsed
    BY <1>0 DEF AtHand
  <2> QED BY <2>1, <2>2, KeysTaken
<1>7. Fit(t, NextNumber(t))
  BY <1>0, <1>2, <1>4, <1>5, <1>6 DEF Fit, Typed, Keeps
<1>8. \A j : Waits(t, j) => Resolved(t, j)
  <2> SUFFICES ASSUME NEW j, Waits(t, j) PROVE Resolved(t, j)
    OBVIOUS
  <2>1. Waits(s, j) /\ s.simple_keys[j].token_number # s.parsed
    BY <1>4, <1>6 DEF Waits
  <2>2. Resolved(s, j)
    BY <2>1 DEF Good
  <2> QED BY <1>4, <1>5, <2>2 DEF Resolved
<1>9. AllPassed(s) => AllPassed(t)
  BY <1>4 DEF AllPassed
<1>10. StreamEnds(t) <= 3 /\ (~t.ended => StreamEnds(t) = 0)
  <2>1. PICK m \in Nat, n \in Nat : m = StreamEnds(s) /\ n = StreamEnds(t)
    BY <1>1, <1>2, <1>3 DEF StreamEnds
  <2>2. m = n \/ m = n + 1
    BY <1>1, <1>2, <2>1 DEF StreamEnds, One
  <2>3. m <= 3 /\ (~t.ended => m = 0)
    BY <1>4, <2>1 DEF Good
  <2> QED BY <2>1, <2>2, <2>3
<1>11. Surplus(t) = Surplus(s) - One(Head(q), BlockStarts) + One(Head(q), {"BLOCK-END"})
  <2>1. PICK m \in Nat, n \in Nat, o \in Nat, r \in Nat :
           /\ m = Cnt(q, BlockStarts) /\ n = Cnt(q, {"BLOCK-END"})
           /\ o = Cnt(Tail(q), BlockStarts) /\ r = Cnt(Tail(q), {"BLOCK-END"})
    BY <1>3
  <2>2. PICK c \in Nat, d \in Nat, l \in Nat :
           /\ c = One(Head(q), BlockStarts) /\ d = One(Head(q), {"BLOCK-END"})
           /\ l = Len(s.levels)
    <3>1. Len(s.levels) \in Nat
      BY <1>0, SurplusType DEF Fit
    <3>2. One(Head(q), BlockStarts) \in Nat /\ One(Head(q), {"BLOCK-END"}) \in Nat
      BY DEF One
    <3> QED BY <3>1, <3>2
  <2>3. m = o + c /\ n = r + d
    BY <1>2, <2>1, <2>2
  <2>4. Surplus(s) = m - n - l /\ Surplus(t) = o - r - l
    BY <1>1, <1>2, <1>4, <2>1, <2>2 DEF Surplus
  <2>5. o - r - l = m - n - l - c + d
    BY ONLY <2>3, m \in Nat, n \in Nat, o \in Nat, r \in Nat, c \in Nat, d \in Nat, l \in Nat
  <2> QED BY <2>2, <2>4, <2>5
<1> QED BY <1>1, <1>2, <1>4, <1>7, <1>8, <1>9, <1>10, <1>11 DEF Good

(* The stream begins.                                                             *)
LEMMA StartGood ==
  ASSUME NEW s, DOMAIN s = Fields, s.tokens = <<>>, s.parsed = 0, s.index = 0, s.column = 0,
         s.flow_level = 0, s.late = FALSE, s.ended = FALSE,
         NEW t, t = StreamStarted(s)
  PROVE  Good(t, FALSE) /\ Surplus(t) = -1 /\ DOMAIN t = Fields /\ t.parsed = 0 /\ t.late = FALSE
         /\ t.started = TRUE /\ t.error = s.error
<1>1. PICK u, token : /\ u = [s EXCEPT !.levels = <<-1>>, !.simple_keys = <<NoKey>>, !.by_tok = << >>,
                                       !.simple_key_allowed = TRUE, !.started = TRUE]
                      /\ token = Token("STREAM-START") /\ t = Put(u, token)
  BY DEF StreamStarted
<1>2. /\ DOMAIN u = Fields /\ u.levels = <<-1>> /\ u.simple_keys = <<NoKey>> /\ u.by_tok = << >>
      /\ u.simple_key_allowed = TRUE /\ u.started = TRUE /\ u.tokens = <<>> /\ u.parsed = 0
      /\ u.index = 0 /\ u.column = 0 /\ u.flow_level = 0 /\ u.late = FALSE /\ u.ended = FALSE
      /\ u.error = s.error
  BY <1>1 DEF Fields, ScannerFields
<1>3. token \in Tok /\ token.typ = "STREAM-START"
  BY <1>1 DEF Token, Tok, TokenTypes
<1>4. Grown(<<-1>>) /\ Len(<<-1>>) = 1
  BY DEF Grown
<1>5. NoKey \in KeyRecord /\ ~NoKey.possible /\ NoKey.token_number = 0
  BY DEF NoKey, KeyRecord
<1>6. KeysOK(<<NoKey>>, << >>, 0, 0, 1)
  <2>1. <<NoKey>> \in Seq(KeyRecord) /\ Len(<<NoKey>>) = 1 /\ <<NoKey>>[1] = NoKey
    BY <1>5
  <2>2. DOMAIN << >> = {}
    OBVIOUS
  <2>3. \A i \in 1..Len(<<NoKey>>) : i = 1 /\ <<NoKey>>[i] = NoKey
    BY <2>1
  <2>4. Leads(<<NoKey>>, << >>, 0)
    BY <2>2 DEF Leads
  <2>5. Ordered(<<NoKey>>)
    BY <2>3 DEF Ordered
  <2>6. Waiting(<<NoKey>>, << >>, 0)
    BY <1>5, <2>3 DEF Waiting
  <2>7. Behind(<<NoKey>>, << >>, 0, 0)
    BY <2>3 DEF Behind
  <2> QED BY <1>5, <2>1, <2>2, <2>3, <2>4, <2>5, <2>6, <2>7 DEF KeysOK
<1>7. Fit(u, 1)
  <2>1. Len(<<NoKey>>) = 0 + 1 /\ <<>> \in Seq(Tok)
    OBVIOUS
  <2>2. Typed(u)
    <3>1. Len(u.simple_keys) = u.flow_level + 1
      BY <1>2, <2>1
    <3>2. Grown(u.levels) /\ u.tokens \in Seq(Tok)
      BY <1>2, <1>4, <2>1
    <3>3. /\ DOMAIN u = Fields /\ u.column \in Nat /\ u.flow_level \in Nat
      BY <1>2
    <3>4. u.simple_key_allowed \in BOOLEAN
      <4>1. u.simple_key_allowed = TRUE
        BY <1>2
      <4> QED BY <4>1
    <3> QED BY ONLY <3>1, <3>2, <3>3, <3>4 DEF Typed
  <2>3. KeysOK(u.simple_keys, u.by_tok, u.parsed, u.index, 1)
    BY <1>2, <1>6
  <2> QED BY <2>2, <2>3 DEF Fit
<1>8. /\ Fit(t, 1) /\ Keeps(u, t, {"tokens"}) /\ t.tokens = Append(<<>>, token)
      /\ Len(t.tokens) = 0 + 1
  <2>1. /\ Fit(t, 1) /\ Keeps(u, t, {"tokens"})
        /\ t.tokens = Append(u.tokens, token) /\ Len(t.tokens) = Len(u.tokens) + 1
    <3>1. Fit(u, 1) /\ token \in Tok /\ t = Put(u, token)
      BY <1>1, <1>3, <1>7
    <3> QED BY ONLY <3>1, PutFits
  <2> QED BY <1>2, <2>1
<1>9. /\ t.simple_keys = <<NoKey>> /\ t.levels = <<-1>> /\ t.parsed = 0 /\ t.late = FALSE
      /\ t.started = TRUE /\ t.ended = FALSE /\ t.error = s.error
  BY <1>2, <1>8 DEF Keeps, Fields, ScannerFields
<1>10. NextNumber(t) = 1
  BY <1>8, <1>9 DEF NextNumber
<1>11. \A T : Cnt(t.tokens, T) = 0 + One(token, T)
  <2>1. <<>> \in Seq(Tok) /\ \A T : At(<<>>, T) = {}
    BY DEF At
  <2>2. \A T : Cnt(<<>>, T) = 0
    BY <2>1, FS_EmptySet DEF Cnt
  <2> QED BY <1>3, <1>8, <2>1, <2>2, CntAppend
<1>12. Surplus(t) = -1 /\ StreamEnds(t) = 0
  <2>1. /\ One(token, BlockStarts) = 0 /\ One(token, {"BLOCK-END"}) = 0
        /\ One(token, {"STREAM-END"}) = 0
    BY <1>3 DEF One, BlockStarts
  <2> QED BY <1>4, <1>9, <1>11, <2>1 DEF Surplus, StreamEnds
<1>13. \A j : ~Waits(t, j)
  <2>1. Len(t.simple_keys) = 1
    BY <1>9
  <2> QED BY <2>1 DEF Waits, Pending
<1>14. AllPassed(t)
  <2>1. \A i \in 1..Len(t.simple_keys) : t.simple_keys[i] = NoKey
    BY <1>9
  <2> QED BY <1>5, <2>1 DEF AllPassed
<1>15. DOMAIN t = Fields
  BY <1>8 DEF Keeps
<1>16. Fit(t, NextNumber(t))
  BY <1>8, <1>10
<1>17. Good(t, FALSE)
  <2>1. StreamEnds(t) <= 3
    BY <1>12
  <2>2. t.ended \in BOOLEAN
    <3>1. t.ended = FALSE
      BY <1>9
    <3> QED BY <3>1
  <2> QED BY <1>9, <1>12, <1>13, <1>14, <1>16, <2>1, <2>2 DEF Good
<1> QED BY <1>9, <1>12, <1>15, <1>17

-----------------------------------------------------------------------------
(* The parser.                                                                    *)

Marked == States \ Unmarked

(* Between documents there is nothing to return to.                               *)
Outside ==
    {"STREAM_START", "IMPLICIT_DOCUMENT_START", "DOCUMENT_START", "DIRECTIVES",
     "DOCUMENT_END", "END"}

(* The states that are pushed inside a document.                                  *)
Pushed ==
    {"BLOCK_SEQUENCE_ENTRY", "INDENTLESS_SEQUENCE_ENTRY", "BLOCK_MAPPING_KEY",
     "BLOCK_MAPPING_VALUE", "FLOW_SEQUENCE_ENTRY", "FLOW_SEQUENCE_ENTRY_MAPPING_VALUE",
     "FLOW_SEQUENCE_ENTRY_MAPPING_END", "FLOW_MAPPING_KEY", "FLOW_MAPPING_VALUE",
     "FLOW_MAPPING_EMPTY_VALUE"}

(* The bottom of the stack is the end of the document, and there is a bottom      *)
(* exactly within a document.                                                     *)
StackOK ==
    /\ state \in States
    /\ states \in Seq(Pushed \cup {"DOCUMENT_END"})
    /\ states = <<>> <=> state \in Outside
    /\ \A i \in 1..Len(states) : states[i] = "DOCUMENT_END" <=> i = 1

-----------------------------------------------------------------------------
(* Five kinds of steps.                                                           *)
Stays ==
    /\ state' \in States /\ (state' \in Outside <=> state \in Outside)
    /\ state' \in Marked <=> state \in Marked
    /\ states' = states /\ marks' = marks

Opens ==
    /\ state \notin Outside /\ state' \in States \ Outside
    /\ state \notin Marked /\ state' \in Marked
    /\ states' = states /\ marks' = marks + 1

Calls(after) ==
    /\ state' \in {"NODE", "DOCUMENT_CONTENT"}
    /\ \/ after = "DOCUMENT_END" /\ state \in Outside
       \/ after \in Pushed /\ state \notin Outside
    /\ after \in Marked <=> state \in Marked
    /\ states' = Append(states, after) /\ marks' = marks

Pops ==
    /\ state \notin Outside
    /\ state' = states[Len(states)]
    /\ states' = SubSeq(states, 1, Len(states) - 1)
    /\ marks' = IF state \in Marked THEN marks - 1 ELSE marks

Fails == error' # "none" /\ state' = state /\ states' = states

Kind == Stays \/ Opens \/ (\E after : Calls(after)) \/ Pops \/ Fails

LEMMA Enumerated ==
  /\ \A s \in {"BLOCK_SEQUENCE_ENTRY", "BLOCK_SEQUENCE_ENTRY-", "FLOW_SEQUENCE_ENTRY",
               "FLOW_SEQUENCE_ENTRY[", "FLOW_SEQUENCE_ENTRY,", "BLOCK_MAPPING_KEY",
               "BLOCK_MAPPING_KEY?", "FLOW_MAPPING_KEY", "FLOW_MAPPING_KEY{",
               "FLOW_MAPPING_KEY,", "FLOW_MAPPING_KEY?", "BLOCK_MAPPING_VALUE",
               "BLOCK_MAPPING_VALUE:", "FLOW_MAPPING_VALUE", "FLOW_MAPPING_VALUE:",
               "FLOW_MAPPING_EMPTY_VALUE", "FLOW_SEQUENCE_ENTRY_MAPPING_KEY",
               "FLOW_SEQUENCE_ENTRY_MAPPING_END", "FLOW_SEQUENCE_ENTRY_MAPPING_VALUE",
               "FLOW_SEQUENCE_ENTRY_MAPPING_VALUE:"} :
       s \in Marked /\ s \in States /\ s \notin Outside
  /\ \A s \in {"BLOCK_SEQUENCE_FIRST_ENTRY", "BLOCK_MAPPING_FIRST_KEY",
               "FLOW_SEQUENCE_FIRST_ENTRY", "FLOW_MAPPING_FIRST_KEY",
               "INDENTLESS_SEQUENCE_ENTRY", "INDENTLESS_SEQUENCE_ENTRY-",
               "DOCUMENT_CONTENT", "NODE"} :
       s \notin Marked /\ s \in States /\ s \notin Outside
  /\ \A s \in Outside : s \notin Marked /\ s \in States
<1>1. DOMAIN Openers = {"BLOCK_SEQUENCE_FIRST_ENTRY", "BLOCK_MAPPING_FIRST_KEY",
                        "FLOW_SEQUENCE_FIRST_ENTRY", "FLOW_MAPPING_FIRST_KEY"}
  BY DEF Openers
<1> QED BY <1>1 DEF Marked, States, Unmarked, Outside, ItemStates, KeyStates, ValueStates,
                    PairKeyStates, PairValueStates, StreamStates

LEMMA DocumentKinds ==
  ASSUME \/ StreamStart \/ ImplicitDocument \/ ExtraDocumentEnd \/ ExplicitDocument
         \/ StreamEnd \/ VersionDirective \/ TagDirective \/ DocumentStart \/ NoDocumentStart
         \/ DocumentContent \/ DocumentEnd
  PROVE  Kind
<1>o. \A s \in {"STREAM_START", "IMPLICIT_DOCUMENT_START", "DOCUMENT_START", "DIRECTIVES",
                "DOCUMENT_END", "END"} : s \in Outside
  BY DEF Outside
<1>1. CASE StreamStart
  BY <1>1, <1>o, Enumerated DEF StreamStart, Goes, Kind, Stays
<1>2. CASE ImplicitDocument
  <2>1. Calls("DOCUMENT_END")
    BY <1>2, <1>o, Enumerated DEF ImplicitDocument, Calls
  <2> QED BY <2>1 DEF Kind
<1>3. CASE ExtraDocumentEnd
  BY <1>3, <1>o, Enumerated DEF ExtraDocumentEnd, Within, Kind, Stays
<1>4. CASE ExplicitDocument
  BY <1>4, <1>o, Enumerated DEF ExplicitDocument, Kind, Stays
<1>5. CASE StreamEnd
  BY <1>5, <1>o, Enumerated DEF StreamEnd, Goes, Kind, Stays
<1>6. CASE VersionDirective
  BY <1>6, <1>o, Enumerated DEF VersionDirective, Fail, Kind, Stays, Fails
<1>7. CASE TagDirective
  BY <1>7, <1>o, Enumerated DEF TagDirective, Fail, Kind, Stays, Fails
<1>8. CASE DocumentStart
  <2>1. Calls("DOCUMENT_END")
    BY <1>8, <1>o, Enumerated DEF DocumentStart, Goes, Calls
  <2> QED BY <2>1 DEF Kind
<1>9. CASE NoDocumentStart
  BY <1>9 DEF NoDocumentStart, Fail, Kind, Fails
<1>10. CASE DocumentContent
  BY <1>10, Enumerated DEF DocumentContent, Returns, Goes, Kind, Pops, Stays
<1>11. CASE DocumentEnd
  BY <1>11, <1>o, Enumerated DEF DocumentEnd, Goes, Kind, Stays
<1> QED BY <1>1, <1>2, <1>3, <1>4, <1>5, <1>6, <1>7, <1>8, <1>9, <1>10, <1>11

LEMMA NodeKinds ==
  ASSUME \/ NodeProperty \/ Alias \/ Scalar \/ (\E kind \in DOMAIN Opening : Collection(kind))
         \/ PropertiesOnly \/ NodeMissing
  PROVE  Kind
<1>1. CASE NodeProperty
  BY <1>1, Enumerated DEF NodeProperty, Kind, Stays
<1>2. CASE Alias \/ Scalar \/ PropertiesOnly
  BY <1>2, Enumerated DEF Alias, Scalar, PropertiesOnly, NoContent, Content, Returns, Goes, Kind, Pops
<1>3. ASSUME NEW kind \in DOMAIN Opening, Collection(kind) PROVE Kind
  <2>1. Opening[kind].to \in {"FLOW_SEQUENCE_FIRST_ENTRY", "FLOW_MAPPING_FIRST_KEY",
          "BLOCK_SEQUENCE_FIRST_ENTRY", "BLOCK_MAPPING_FIRST_KEY", "INDENTLESS_SEQUENCE_ENTRY"}
    BY DEF Opening
  <2> QED BY <1>3, <2>1, Enumerated DEF Collection, Content, Goes, Kind, Stays
<1>4. CASE NodeMissing
  BY <1>4 DEF NodeMissing, Fail, Kind, Fails
<1> QED BY <1>1, <1>2, <1>3, <1>4

(* The parts the collections are made of.                                         *)
LEMMA CallKind ==
  ASSUME NEW after \in Pushed, NEW block, NEW indentless, ParseNode(after, block, indentless),
         state \notin Outside, after \in Marked <=> state \in Marked
  PROVE  Kind
<1>1. Calls(after)
  BY DEF ParseNode, Calls
<1> QED BY <1>1 DEF Kind

LEMMA IndicatorKind ==
  ASSUME NEW from, NEW on, NEW to \in States \ Outside, Indicator(from, on, to),
         from \notin Outside, from \in Marked <=> to \in Marked
  PROVE  Kind
  BY DEF Indicator, Within, Kind, Stays

LEMMA EmptyKind ==
  ASSUME NEW to \in States \ Outside, EmptyScalar(to),
         state \notin Outside, state \in Marked <=> to \in Marked
  PROVE  Kind
  BY DEF EmptyScalar, Goes, Kind, Stays

LEMMA FollowsKind ==
  ASSUME NEW from, NEW enders, NEW block, NEW indentless, NEW after \in Pushed,
         Follows(from, enders, block, indentless, after),
         from \notin Outside, after \in States \ Outside, from \in Marked <=> after \in Marked
  PROVE  Kind
  BY CallKind, EmptyKind DEF Follows

LEMMA ClosesKind ==
  ASSUME NEW from, NEW on, NEW ev, Closes(from, on, ev),
         \A s \in from : s \in Marked /\ s \notin Outside
  PROVE  Kind
  BY DEF Closes, Returns, Goes, Kind, Pops

LEMMA UnexpectedKind ==
  ASSUME NEW from, NEW expected, Unexpected(from, expected) PROVE Kind
  BY DEF Unexpected, Fail, Kind, Fails

LEMMA PushedStates == \A s \in Pushed : s \in States \ Outside
  BY Enumerated DEF Pushed

LEMMA BlockKinds ==
  ASSUME Opened \/ BlockSequence \/ IndentlessSequence \/ BlockMappingKey \/ BlockMappingValue
  PROVE  Kind
<1>p. \A s \in {"BLOCK_SEQUENCE_ENTRY", "INDENTLESS_SEQUENCE_ENTRY", "BLOCK_MAPPING_KEY",
                "BLOCK_MAPPING_VALUE"} : s \in Pushed
  BY DEF Pushed
<1>1. CASE Opened
  BY <1>1, Enumerated DEF Opened, First, Within, Kind, Opens
<1>2. CASE BlockSequence
  BY <1>2, <1>p, Enumerated, IndicatorKind, FollowsKind, ClosesKind, UnexpectedKind DEF BlockSequence
<1>3. CASE IndentlessSequence
  <2>1. CASE IndentlessEnd
    BY <2>1, Enumerated DEF IndentlessEnd, Returns, Goes, Kind, Pops
  <2> QED BY <1>3, <1>p, <2>1, Enumerated, IndicatorKind, FollowsKind DEF IndentlessSequence
<1>4. CASE BlockMappingKey
  BY <1>4, <1>p, Enumerated, IndicatorKind, FollowsKind, ClosesKind, UnexpectedKind
     DEF BlockMappingKey
<1>5. CASE BlockMappingValue
  BY <1>5, <1>p, Enumerated, IndicatorKind, FollowsKind, EmptyKind
     DEF BlockMappingValue, NoValue
<1> QED BY <1>1, <1>2, <1>3, <1>4, <1>5

LEMMA FlowKinds ==
  ASSUME FlowSequence \/ FlowPair \/ FlowMappingKey \/ FlowMappingValue
  PROVE  Kind
<1>p. \A s \in {"FLOW_SEQUENCE_ENTRY", "FLOW_SEQUENCE_ENTRY_MAPPING_VALUE",
                "FLOW_SEQUENCE_ENTRY_MAPPING_END", "FLOW_MAPPING_KEY", "FLOW_MAPPING_VALUE",
                "FLOW_MAPPING_EMPTY_VALUE"} : s \in Pushed
  BY DEF Pushed
<1>1. CASE FlowSequence
  <2>1. CASE /\ state \in {"FLOW_SEQUENCE_ENTRY[", "FLOW_SEQUENCE_ENTRY,"}
             /\ Goes("FLOW_SEQUENCE_ENTRY_MAPPING_KEY", "MAPPING-START")
             /\ UNCHANGED <<states, marks, tag_directives>>
    BY <2>1, Enumerated DEF Goes, Kind, Stays
  <2>2. CASE /\ state \in {"FLOW_SEQUENCE_ENTRY[", "FLOW_SEQUENCE_ENTRY,"}
             /\ ParseNode("FLOW_SEQUENCE_ENTRY", FALSE, FALSE)
    BY <2>2, <1>p, Enumerated, CallKind
  <2> QED BY <1>1, <2>1, <2>2, Enumerated, IndicatorKind, ClosesKind, UnexpectedKind
      DEF FlowSequence
<1>2. CASE FlowPair
  <2>1. CASE /\ state = "FLOW_SEQUENCE_ENTRY_MAPPING_KEY"
             /\ ParseNode("FLOW_SEQUENCE_ENTRY_MAPPING_VALUE", FALSE, FALSE)
    BY <2>1, <1>p, Enumerated, CallKind
  <2>2. CASE /\ state = "FLOW_SEQUENCE_ENTRY_MAPPING_KEY"
             /\ Goes("FLOW_SEQUENCE_ENTRY_MAPPING_VALUE", "SCALAR")
             /\ UNCHANGED <<states, marks, tag_directives>>
    BY <2>2, Enumerated DEF Goes, Kind, Stays
  <2>3. CASE /\ state = "FLOW_SEQUENCE_ENTRY_MAPPING_END"
             /\ Goes("FLOW_SEQUENCE_ENTRY", "MAPPING-END")
             /\ UNCHANGED <<states, marks, tag_directives>>
    BY <2>3, Enumerated DEF Goes, Kind, Stays
  <2>4. CASE NoValue("FLOW_SEQUENCE_ENTRY_MAPPING_VALUE", "FLOW_SEQUENCE_ENTRY_MAPPING_END")
    BY <2>4, Enumerated, EmptyKind DEF NoValue
  <2> QED BY <1>2, <1>p, <2>1, <2>2, <2>3, <2>4, Enumerated, IndicatorKind, FollowsKind
      DEF FlowPair
<1>3. CASE FlowMappingKey
  <2>1. ASSUME NEW from \in {"FLOW_MAPPING_KEY{", "FLOW_MAPPING_KEY,"}, state = from,
               ParseNode("FLOW_MAPPING_EMPTY_VALUE", FALSE, FALSE)
        PROVE  Kind
    BY <2>1, <1>p, Enumerated, CallKind
  <2>2. ASSUME NEW from \in {"FLOW_MAPPING_KEY{", "FLOW_MAPPING_KEY,"},
               Indicator(from, "KEY", "FLOW_MAPPING_KEY?")
        PROVE  Kind
    BY <2>2, Enumerated, IndicatorKind
  <2> QED BY <1>3, <1>p, <2>1, <2>2, Enumerated, IndicatorKind, FollowsKind, ClosesKind,
             UnexpectedKind DEF FlowMappingKey
<1>4. CASE FlowMappingValue
  BY <1>4, <1>p, Enumerated, IndicatorKind, FollowsKind, EmptyKind
     DEF FlowMappingValue, NoValue
<1> QED BY <1>1, <1>2, <1>3, <1>4

LEMMA ParseKind == Parse => Kind
  BY DocumentKinds, NodeKinds, BlockKinds, FlowKinds DEF Parse

-----------------------------------------------------------------------------
(* The stack.                                                                     *)
LEMMA Appended ==
  ASSUME NEW S, NEW s \in Seq(S), NEW x \in S
  PROVE  /\ Append(s, x) \in Seq(S) /\ Append(s, x) # <<>>
         /\ Len(s) \in Nat /\ Len(Append(s, x)) = Len(s) + 1
         /\ Append(s, x)[Len(s) + 1] = x
         /\ \A i \in 1..Len(s) : Append(s, x)[i] = s[i]
  OBVIOUS

LEMMA StackInit == Init => StackOK
<1> SUFFICES ASSUME Init PROVE StackOK
  OBVIOUS
<1>1. state = "STREAM_START" /\ states = <<>>
  BY DEF Init, ParserInit
<1>2. states \in Seq(Pushed \cup {"DOCUMENT_END"}) /\ 1..Len(states) = {}
  BY <1>1
<1>3. state \in Outside
  BY <1>1 DEF Outside
<1> QED BY <1>1, <1>2, <1>3, Enumerated DEF StackOK

LEMMA StackStep == StackOK /\ [Next]_vars => StackOK'
<1> SUFFICES ASSUME StackOK, [Next]_vars PROVE StackOK'
  OBVIOUS
<1> DEFINE S == Pushed \cup {"DOCUMENT_END"}
<1>0. /\ state \in States /\ states \in Seq(S)
      /\ states = <<>> <=> state \in Outside
      /\ \A i \in 1..Len(states) : states[i] = "DOCUMENT_END" <=> i = 1
  BY DEF StackOK
<1>d. "DOCUMENT_END" \notin Pushed /\ "DOCUMENT_END" \in Outside /\ "DOCUMENT_END" \in States
  BY Enumerated DEF Pushed, Outside
<1>1. CASE Stays \/ Opens \/ Fails
  BY <1>0, <1>1 DEF Stays, Opens, Fails, StackOK
<1>2. ASSUME NEW after, Calls(after) PROVE StackOK'
  <2>1. after \in S /\ states' = Append(states, after) /\ state' \in {"NODE", "DOCUMENT_CONTENT"}
    BY <1>2 DEF Calls
  <2>2. state' \in States /\ state' \notin Outside
    BY <2>1, Enumerated
  <2>3. PICK s, n : s = states /\ n = Len(s)
    OBVIOUS
  <2>4. /\ states' \in Seq(S) /\ states' # <<>> /\ n \in Nat /\ Len(states') = n + 1
        /\ states'[n + 1] = after /\ \A i \in 1..n : states'[i] = s[i]
    BY <1>0, <2>1, <2>3, Appended
  <2>5. after = "DOCUMENT_END" <=> n = 0
    <3>1. after = "DOCUMENT_END" <=> state \in Outside
      BY <1>2, <1>d DEF Calls
    <3>2. n = 0 <=> s = <<>>
      BY <1>0, <2>3
    <3> QED BY <1>0, <2>3, <3>1, <3>2
  <2>6. ASSUME NEW i \in 1..n + 1 PROVE states'[i] = "DOCUMENT_END" <=> i = 1
    <3>1. CASE i \in 1..n
      BY <1>0, <2>3, <2>4, <3>1
    <3>2. CASE i = n + 1
      BY <2>4, <2>5, <3>2
    <3> QED BY <2>4, <3>1, <3>2
  <2> QED BY <2>2, <2>4, <2>6 DEF StackOK
<1>3. CASE Pops
  <2>1. states # <<>> /\ state' = states[Len(states)] /\ states' = SubSeq(states, 1, Len(states) - 1)
    BY <1>0, <1>3 DEF Pops
  <2>2. PICK s, n : s = states /\ n = Len(s)
    OBVIOUS
  <2>3. /\ n \in Nat /\ n > 0 /\ state' = s[n] /\ s[n] \in S
        /\ states' \in Seq(S) /\ Len(states') = n - 1
        /\ \A i \in 1..n - 1 : states'[i] = s[i]
    BY <1>0, <2>1, <2>2, Popped
  <2>4. states' = <<>> <=> n = 1
    BY <2>3
  <2>5. s[n] = "DOCUMENT_END" <=> n = 1
    BY <1>0, <2>2, <2>3
  <2>6. state' \in States /\ (state' \in Outside <=> n = 1)
    BY <1>d, <2>3, <2>5, PushedStates
  <2>7. \A i \in 1..n - 1 : states'[i] = "DOCUMENT_END" <=> i = 1
    BY <1>0, <2>2, <2>3
  <2> QED BY <2>3, <2>4, <2>6, <2>7 DEF StackOK
<1>4. CASE Scan /\ UNCHANGED parVars
  BY <1>4 DEF parVars, StackOK
<1>5. CASE UNCHANGED vars
  BY <1>5 DEF vars, parVars, StackOK
<1> QED BY <1>1, <1>2, <1>3, <1>4, <1>5, ParseKind DEF Next, Kind

(* StackHolds: whatever the text, the stack of states is that of a document being  *)
(* read, with its end at the bottom.                                               *)
THEOREM StackHolds == Spec => []StackOK
  BY StackInit, StackStep, PTL DEF Spec

(* PopsSafe: no state is popped off an empty stack, which would be an index out of *)
(* range in parserc.go.                                                            *)
THEOREM PopsSafe == Spec => [][Pops => states # <<>>]_vars
<1>1. StackOK /\ [Next]_vars => [Pops => states # <<>>]_vars
  BY DEF StackOK, Pops
<1> QED BY <1>1, StackHolds, PTL DEF Spec

-----------------------------------------------------------------------------
(* How many of the states to come back to are in P.                                *)
Below(P, s) == {i \in 0..Len(s) - 1 : s[i + 1] \in P}

Own(P, s) == IF s \in P THEN 1 ELSE 0

LEMMA BelowFinite ==
  ASSUME NEW P, NEW S, NEW s \in Seq(S)
  PROVE  IsFiniteSet(Below(P, s)) /\ Cardinality(Below(P, s)) \in Nat
<1>1. Len(s) - 1 \in Int /\ IsFiniteSet(0..Len(s) - 1)
  BY FS_Interval
<1>2. Below(P, s) \subseteq 0..Len(s) - 1
  BY DEF Below
<1> QED BY <1>1, <1>2, FS_Subset, FS_CardinalityType

LEMMA BelowAppended ==
  ASSUME NEW P, NEW S, NEW s \in Seq(S), NEW x \in S
  PROVE  Cardinality(Below(P, Append(s, x))) = Cardinality(Below(P, s)) + Own(P, x)
<1>1. PICK n, t : n = Len(s) /\ t = Append(s, x)
  OBVIOUS
<1>2. /\ n \in Nat /\ Len(t) = n + 1 /\ t[n + 1] = x
      /\ \A i \in 1..n : t[i] = s[i]
  BY <1>1, Appended
<1>3. \A i \in 0..n - 1 : t[i + 1] = s[i + 1]
  BY <1>2
<1>4. Below(P, t) = IF x \in P THEN Below(P, s) \cup {n} ELSE Below(P, s)
  <2>1. 0..Len(t) - 1 = (0..n - 1) \cup {n}
    BY <1>2
  <2> QED BY <1>1, <1>2, <1>3, <2>1 DEF Below
<1>5. n \notin Below(P, s)
  BY <1>1, <1>2 DEF Below
<1>6. IsFiniteSet(Below(P, s))
  BY BelowFinite
<1>7. Cardinality(Below(P, s)) \in Nat
  BY BelowFinite
<1>8. CASE x \in P
  <2>1. Cardinality(Below(P, s) \cup {n}) = Cardinality(Below(P, s)) + 1
    BY <1>5, <1>6, FS_AddElement
  <2>2. Below(P, t) = Below(P, s) \cup {n} /\ Own(P, x) = 1
    BY <1>4, <1>8 DEF Own
  <2> QED BY <1>1, <2>1, <2>2
<1>9. CASE x \notin P
  <2>1. Below(P, t) = Below(P, s) /\ Own(P, x) = 0
    BY <1>4, <1>9 DEF Own
  <2> QED BY <1>1, <1>7, <2>1
<1> QED BY <1>8, <1>9

LEMMA BelowPopped ==
  ASSUME NEW P, NEW S, NEW s \in Seq(S), s # <<>>
  PROVE  Cardinality(Below(P, s)) = Cardinality(Below(P, SubSeq(s, 1, Len(s) - 1))) + Own(P, s[Len(s)])
<1>1. PICK n, t : n = Len(s) /\ t = SubSeq(s, 1, n - 1)
  OBVIOUS
<1>2. /\ n \in Nat /\ n > 0 /\ t \in Seq(S) /\ Len(t) = n - 1
      /\ \A i \in 1..n - 1 : t[i] = s[i]
  BY <1>1, Popped
<1>3. \A i \in 0..n - 2 : t[i + 1] = s[i + 1]
  BY <1>2
<1>4. Below(P, s) = IF s[n] \in P THEN Below(P, t) \cup {n - 1} ELSE Below(P, t)
  <2>1. 0..n - 1 = (0..n - 2) \cup {n - 1} /\ (n - 1) + 1 = n /\ Len(t) - 1 = n - 2
    BY <1>2
  <2> QED BY <1>1, <1>2, <1>3, <2>1 DEF Below
<1>5. n - 1 \notin Below(P, t)
  BY <1>1, <1>2 DEF Below
<1>6. IsFiniteSet(Below(P, t)) /\ Cardinality(Below(P, t)) \in Nat
  BY <1>2, BelowFinite
<1>7. CASE s[n] \in P
  <2>1. Cardinality(Below(P, t) \cup {n - 1}) = Cardinality(Below(P, t)) + 1
    BY <1>5, <1>6, FS_AddElement
  <2>2. Below(P, s) = Below(P, t) \cup {n - 1} /\ Own(P, s[n]) = 1
    BY <1>4, <1>7 DEF Own
  <2> QED BY <1>1, <2>1, <2>2
<1>8. CASE s[n] \notin P
  <2>1. Below(P, s) = Below(P, t) /\ Own(P, s[n]) = 0
    BY <1>4, <1>8 DEF Own
  <2> QED BY <1>1, <1>6, <2>1
<1> QED BY <1>7, <1>8
LEMMA ErrorStops == Parse => error = "none"
<1>1. ASSUME NEW from, NEW on, NEW to, Indicator(from, on, to) PROVE error = "none"
  BY <1>1 DEF Indicator, Peek
<1>2. ASSUME NEW from, NEW enders, NEW b, NEW i, NEW after, Follows(from, enders, b, i, after)
      PROVE  error = "none"
  BY <1>2 DEF Follows, Peek
<1>3. ASSUME NEW from, NEW on, NEW ev, Closes(from, on, ev) PROVE error = "none"
  BY <1>3 DEF Closes, Peek
<1>4. ASSUME NEW from, NEW expected, Unexpected(from, expected) PROVE error = "none"
  BY <1>4 DEF Unexpected, Peek
<1>5. ASSUME NEW from, NEW after, NoValue(from, after) PROVE error = "none"
  BY <1>5 DEF NoValue, Peek
<1>6. ASSUME StreamStart \/ ImplicitDocument \/ ExtraDocumentEnd \/ ExplicitDocument
               \/ StreamEnd \/ VersionDirective \/ TagDirective \/ DocumentStart
               \/ NoDocumentStart \/ DocumentContent \/ DocumentEnd
      PROVE  error = "none"
  BY <1>6
     DEF StreamStart, ImplicitDocument, ExtraDocumentEnd, ExplicitDocument, StreamEnd,
         VersionDirective, TagDirective, DocumentStart, NoDocumentStart, DocumentContent,
         DocumentEnd, Peek
<1>7. ASSUME NodeProperty \/ Alias \/ Scalar \/ (\E kind \in DOMAIN Opening : Collection(kind))
               \/ PropertiesOnly \/ NodeMissing
      PROVE  error = "none"
  BY <1>7 DEF NodeProperty, Property, Alias, Scalar, Collection, PropertiesOnly, NodeMissing,
         NoContent, Content, Peek
<1>8. ASSUME Opened \/ BlockSequence \/ IndentlessSequence \/ BlockMappingKey
               \/ BlockMappingValue
      PROVE  error = "none"
  BY <1>8, <1>1, <1>2, <1>3, <1>4, <1>5
     DEF Opened, First, BlockSequence, IndentlessSequence, IndentlessEnd, BlockMappingKey,
         BlockMappingValue, Peek
<1>9. ASSUME FlowSequence \/ FlowPair \/ FlowMappingKey \/ FlowMappingValue
      PROVE  error = "none"
  BY <1>9, <1>1, <1>2, <1>3, <1>4, <1>5
     DEF FlowSequence, FlowPair, FlowMappingKey, FlowMappingValue, Peek
<1> QED BY <1>6, <1>7, <1>8, <1>9 DEF Parse

(* The marks.                                                                      *)
MarksInv == error = "none" => marks = Cardinality(Below(Marked, states)) + Own(Marked, state)

LEMMA MarksInit == Init => MarksInv
<1> SUFFICES ASSUME Init PROVE MarksInv
  OBVIOUS
<1>1. state = "STREAM_START" /\ states = <<>> /\ marks = 0
  BY DEF Init, ParserInit
<1>2. state \notin Marked
  BY <1>1, Enumerated DEF Outside
<1>3. Below(Marked, states) = {}
  <2>1. Len(states) = 0 /\ 0..0 - 1 = {}
    BY <1>1
  <2> QED BY <2>1 DEF Below
<1>4. Cardinality(Below(Marked, states)) = 0 /\ Own(Marked, state) = 0
  BY <1>2, <1>3, FS_EmptySet DEF Own
<1> QED BY <1>1, <1>4 DEF MarksInv

LEMMA MarksStep == StackOK /\ MarksInv /\ [Next]_vars => MarksInv'
<1> SUFFICES ASSUME StackOK, MarksInv, [Next]_vars PROVE MarksInv'
  OBVIOUS
<1>1. CASE UNCHANGED <<states, state, marks>> /\ (error' = "none" => error = "none")
  BY <1>1 DEF MarksInv, Below, Own
<1>2. CASE Scan /\ UNCHANGED parVars
  BY <1>1, <1>2 DEF Scan, parVars
<1>3. CASE UNCHANGED vars
  BY <1>1, <1>3 DEF vars, parVars
<1>4. CASE Parse
  <2>0. error = "none" /\ Kind
    BY <1>4, ErrorStops, ParseKind
  <2>1. PICK s, n : /\ s = states /\ s \in Seq(Pushed \cup {"DOCUMENT_END"})
                    /\ n = Cardinality(Below(Marked, s)) /\ n \in Nat
                    /\ marks = n + Own(Marked, state) /\ (s = <<>> <=> state \in Outside)
    BY <2>0, BelowFinite DEF StackOK, MarksInv
  <2>2. CASE Stays
    BY <2>1, <2>2 DEF Stays, MarksInv, Own
  <2>3. CASE Opens
    BY <2>1, <2>3 DEF Opens, MarksInv, Own
  <2>4. ASSUME NEW after, Calls(after) PROVE MarksInv'
    <3>1. /\ after \in Pushed \cup {"DOCUMENT_END"} /\ states' = Append(s, after) /\ marks' = marks
          /\ Own(Marked, after) = Own(Marked, state)
      BY <2>1, <2>4 DEF Calls, Own
    <3>2. Own(Marked, state') = 0
      BY <2>4, Enumerated DEF Calls, Own
    <3>3. Cardinality(Below(Marked, states')) = n + Own(Marked, after)
      BY <2>1, <3>1, BelowAppended
    <3> QED BY <2>1, <3>1, <3>2, <3>3 DEF MarksInv, Own
  <2>5. CASE Pops
    <3>1. s # <<>> /\ state' = s[Len(s)] /\ states' = SubSeq(s, 1, Len(s) - 1)
      BY <2>1, <2>5 DEF Pops
    <3>2. n = Cardinality(Below(Marked, states')) + Own(Marked, state')
      BY <2>1, <3>1, BelowPopped
    <3>3. marks' = n
      BY <2>1, <2>5 DEF Pops, Own
    <3> QED BY <3>2, <3>3 DEF MarksInv
  <2>6. CASE Fails
    BY <2>6 DEF Fails, MarksInv
  <2> QED BY <2>0, <2>2, <2>3, <2>4, <2>5, <2>6 DEF Kind
<1> QED BY <1>2, <1>3, <1>4 DEF Next

(* How often the parser is at one of the points, or will come back to it.         *)
LEMMA OpenIs ==
  ASSUME StackOK, NEW P
  PROVE  Open(P) = Cardinality(Below(P, states)) + Own(P, state)
<1>1. PICK s, x, n : /\ s = states /\ x = state /\ n = Len(s)
                     /\ s \in Seq(States) /\ x \in States
  <2>1. Pushed \cup {"DOCUMENT_END"} \subseteq States
    <3>1. "DOCUMENT_END" \in States
      BY DEF States, StreamStates
    <3> QED BY <3>1, PushedStates
  <2>2. states \in Seq(Pushed \cup {"DOCUMENT_END"}) /\ state \in States
    BY DEF StackOK
  <2>3. states \in Seq(States)
    BY <2>1, <2>2
  <2> QED BY <2>2, <2>3
<1>2. PICK t : t = Append(s, x)
  OBVIOUS
<1>3. /\ n \in Nat /\ Len(t) = n + 1 /\ t \in Seq(States)
  BY <1>1, <1>2, Appended
<1>4. {i \in 0..n : t[i + 1] \in P} = Below(P, t)
  <2>1. Len(t) - 1 = n
    BY <1>3
  <2> QED BY <2>1 DEF Below
<1>5. Open(P) = Cardinality(Below(P, t))
  BY <1>1, <1>2, <1>4 DEF Open
<1>6. Cardinality(Below(P, t)) = Cardinality(Below(P, s)) + Own(P, x)
  BY <1>1, <1>2, BelowAppended
<1> QED BY <1>1, <1>5, <1>6
LEMMA MarksMean == StackOK /\ MarksInv => MarksMatch
  BY OpenIs DEF MarksInv, MarksMatch, Marked

(* MarksKept: whatever the text, there is one mark for every collection that is    *)
(* past its first entry: none is popped twice and none is left behind.             *)
THEOREM MarksKept == Spec => []MarksMatch
  BY StackInit, StackStep, MarksInit, MarksStep, MarksMean, PTL DEF Spec

-----------------------------------------------------------------------------
(* The events of a prefix of the frames.                                          *)
IsFlattened(q, k, f) ==
    f = [i \in 1..k |-> IF i = 1 THEN q[i] ELSE f[i - 1] \o q[i]]

LEMMA FlattenedValue ==
  ASSUME NEW q, NEW k \in Nat, NEW f, IsFlattened(q, k, f)
  PROVE  \A i \in 1..k : f[i] = IF i = 1 THEN q[i] ELSE f[i - 1] \o q[i]
<1>1. PICK g : g = [i \in 1..k |-> IF i = 1 THEN q[i] ELSE f[i - 1] \o q[i]]
  OBVIOUS
<1>2. f = g
  BY <1>1 DEF IsFlattened
<1>3. \A i \in 1..k : g[i] = IF i = 1 THEN q[i] ELSE f[i - 1] \o q[i]
  BY <1>1
<1> QED BY <1>2, <1>3

LEMMA FlattenedExists ==
  ASSUME NEW q, NEW n \in Nat
  PROVE  \E f : IsFlattened(q, n, f)
<1> DEFINE Bad == {k \in Nat : ~ \E f : IsFlattened(q, k, f)}
<1> SUFFICES ASSUME Bad # {} PROVE FALSE
  OBVIOUS
<1>1. PICK k \in Bad : \A m \in Bad : k <= m
  <2> HIDE DEF Bad
  <2>1. Bad \in SUBSET Nat
    BY DEF Bad
  <2> QED BY <2>1, LeastMember
<1>2. k # 0
  <2>1. 1..0 = {}
    OBVIOUS
  <2>2. IsFlattened(q, 0, [i \in {} |-> 0])
    BY <2>1 DEF IsFlattened
  <2> QED BY <1>1, <2>2
<1>3. k \in Nat /\ k - 1 \in Nat /\ k - 1 \notin Bad
  BY <1>1, <1>2
<1>4. PICK f : IsFlattened(q, k - 1, f)
  BY <1>3
<1>5. PICK g : g = [i \in 1..k |-> IF i = 1 THEN q[i] ELSE f[i - 1] \o q[i]]
  OBVIOUS
<1>6. \A i \in 1..k - 1 : f[i] = IF i = 1 THEN q[i] ELSE f[i - 1] \o q[i]
  BY <1>3, <1>4, FlattenedValue
<1>7. \A i \in 1..k - 1 : g[i] = f[i]
  BY <1>3, <1>5, <1>6
<1>8. \A i \in 1..k : i # 1 => g[i - 1] = f[i - 1]
  BY <1>3, <1>7
<1>9. [i \in 1..k |-> IF i = 1 THEN q[i] ELSE f[i - 1] \o q[i]]
        = [i \in 1..k |-> IF i = 1 THEN q[i] ELSE g[i - 1] \o q[i]]
  BY <1>8
<1>10. IsFlattened(q, k, g)
  BY <1>5, <1>9 DEF IsFlattened
<1> QED BY <1>1, <1>10

LEMMA FlattenIs ==
  ASSUME NEW q, NEW n \in Nat, n = Len(q), n # 0
  PROVE  \E f : IsFlattened(q, n, f) /\ FlattenSeq(q) = f[n]
<1>1. PICK f : f = CHOOSE g : IsFlattened(q, n, g)
  OBVIOUS
<1>2. IsFlattened(q, n, f)
  BY <1>1, FlattenedExists
<1>3. FlattenSeq(q) = f[n]
  BY <1>1 DEF FlattenSeq, IsFlattened
<1> QED BY <1>2, <1>3

LEMMA FlattenAppend ==
  ASSUME NEW F, NEW q \in Seq(Seq(F)), NEW x \in Seq(F)
  PROVE  /\ FlattenSeq(Append(q, x)) = FlattenSeq(q) \o x
<1>1. PICK n, r : n = Len(q) /\ r = Append(q, x)
  OBVIOUS
<1>2. /\ n \in Nat /\ Len(r) = n + 1 /\ r[n + 1] = x
      /\ \A i \in 1..n : r[i] = q[i]
  BY <1>1, Appended
<1>3. PICK g : IsFlattened(r, n + 1, g) /\ FlattenSeq(r) = g[n + 1]
  <2>1. n + 1 \in Nat /\ n + 1 # 0
    BY <1>2
  <2> QED BY <1>2, <2>1, FlattenIs
<1>4. \A i \in 1..n + 1 : g[i] = IF i = 1 THEN r[i] ELSE g[i - 1] \o r[i]
  <2>1. n + 1 \in Nat
    BY <1>2
  <2> QED BY <1>3, <2>1, FlattenedValue
<1>5. CASE n = 0
  <2>1. FlattenSeq(r) = x
    BY <1>2, <1>3, <1>4, <1>5
  <2>2. q = <<>>
    <3>1. PICK S : S = Seq(F)
      OBVIOUS
    <3>2. q \in Seq(S) /\ Len(q) = 0
      BY <1>1, <1>5, <3>1
    <3> QED BY ONLY <3>2
  <2>3. FlattenSeq(q) = <<>>
    BY <2>2 DEF FlattenSeq
  <2> QED BY <1>1, <2>1, <2>3
<1>6. CASE n # 0
  <2>1. PICK f : IsFlattened(q, n, f) /\ FlattenSeq(q) = f[n]
    BY <1>1, <1>2, <1>6, FlattenIs
  <2>2. \A i \in 1..n : f[i] = IF i = 1 THEN q[i] ELSE f[i - 1] \o q[i]
    BY <1>2, <2>1, FlattenedValue
  <2>3. PICK B : B = {i \in 1..n : f[i] # g[i]}
    OBVIOUS
  <2>4. ASSUME B # {} PROVE FALSE
    <3>1. PICK j \in B : \A m \in B : j <= m
      <4>1. B \in SUBSET Nat
        BY <1>2, <2>3
      <4> QED BY <2>4, <4>1, LeastMember
    <3>2. j \in 1..n /\ j \in 1..n + 1 /\ f[j] # g[j]
      BY <1>2, <2>3
    <3>3. j # 1 /\ j - 1 \in 1..n /\ ~(j <= j - 1)
      BY <1>2, <1>4, <2>2, <3>2
    <3>4. f[j - 1] = g[j - 1]
      BY <2>3, <3>1, <3>3
    <3> QED BY <1>2, <1>4, <2>2, <3>2, <3>3, <3>4
  <2>5. f[n] = g[n] /\ n + 1 # 1 /\ n + 1 \in 1..n + 1 /\ (n + 1) - 1 = n
    BY <1>2, <1>6, <2>3, <2>4
  <2>6. g[n + 1] = g[n] \o x
    BY <1>2, <1>4, <2>5
  <2> QED BY <1>1, <1>3, <2>1, <2>5, <2>6
<1> QED BY <1>5, <1>6

LEMMA FlattenType ==
  ASSUME NEW F, NEW q \in Seq(Seq(F))
  PROVE  FlattenSeq(q) \in Seq(F)
<1>1. PICK n : n = Len(q)
  OBVIOUS
<1>2. n \in Nat
  BY <1>1
<1>3. CASE n = 0
  <2>1. PICK S : S = Seq(F)
    OBVIOUS
  <2>2. q \in Seq(S) /\ Len(q) = 0
    BY <1>1, <1>3, <2>1
  <2>3. q = <<>>
    BY ONLY <2>2
  <2>4. FlattenSeq(q) = <<>>
    BY <2>3 DEF FlattenSeq
  <2> QED BY <2>4
<1>4. CASE n # 0
  <2>1. PICK f : IsFlattened(q, n, f) /\ FlattenSeq(q) = f[n]
    BY <1>1, <1>2, <1>4, FlattenIs
  <2>2. \A i \in 1..n : f[i] = IF i = 1 THEN q[i] ELSE f[i - 1] \o q[i]
    BY <1>2, <2>1, FlattenedValue
  <2>3. PICK B : B = {i \in 1..n : f[i] \notin Seq(F)}
    OBVIOUS
  <2>4. ASSUME B # {} PROVE FALSE
    <3>1. PICK j \in B : \A m \in B : j <= m
      <4>1. B \in SUBSET Nat
        BY <1>2, <2>3
      <4> QED BY <2>4, <4>1, LeastMember
    <3>2. j \in 1..n /\ f[j] \notin Seq(F) /\ q[j] \in Seq(F)
      BY <1>1, <1>2, <2>3
    <3>3. j # 1 /\ j - 1 \in 1..n /\ ~(j <= j - 1)
      BY <1>2, <2>2, <3>2
    <3>4. f[j - 1] \in Seq(F)
      BY <2>3, <3>1, <3>3
    <3>5. f[j - 1] \o q[j] \in Seq(F)
      BY <3>2, <3>4
    <3> QED BY <1>2, <2>2, <3>2, <3>3, <3>5
  <2> QED BY <1>2, <1>4, <2>1, <2>3, <2>4
<1> QED BY <1>3, <1>4

-----------------------------------------------------------------------------
(* The frames of a stack of states.                                               *)
Flat(ss) == FlattenSeq([i \in 1..Len(ss) |-> Frames(ss[i])])

Between == {"IMPLICIT_DOCUMENT_START", "DOCUMENT_START", "DIRECTIVES"}

(* The states that stand for frames: all of these but the last, and the last.     *)
Framed ==
    {"DOCUMENT_END"} \cup ItemStates \cup KeyStates \cup ValueStates \cup PairKeyStates
      \cup PairValueStates

Lead(x) == IF x \in PairKeyStates \cup PairValueStates THEN <<"item">> ELSE <<>>

Tip(x) ==
    CASE x = "DOCUMENT_END" -> "done"
      [] x \in ItemStates   -> "item"
      [] x \in KeyStates \cup PairKeyStates -> "key"
      [] OTHER              -> "value"

Frame == {"stream", "root", "done", "item", "key", "value"}

LEMMA AppendOne == ASSUME NEW S, NEW a \in S PROVE Append(<<>>, a) = <<a>>
  OBVIOUS

LEMMA AppendTwo ==
  ASSUME NEW S, NEW a \in S, NEW b \in S
  PROVE  Append(<<a>>, b) = <<a, b>>
<1>1. PICK s, t : s = Append(<<a>>, b) /\ t = <<a, b>>
  OBVIOUS
<1>2. <<a>> \in Seq(S) /\ Len(<<a>>) = 1 /\ <<a>>[1] = a
  OBVIOUS
<1>3. s \in Seq(S) /\ Len(s) = 2 /\ s[1] = a /\ s[2] = b
  BY <1>1, <1>2
<1>4. t \in Seq(S) /\ Len(t) = 2 /\ t[1] = a /\ t[2] = b
  BY <1>1
<1>5. \A i \in 1..2 : s[i] = t[i]
  BY <1>3, <1>4
<1>6. s = t
  BY <1>3, <1>4, <1>5
<1> QED BY <1>1, <1>6

LEMMA FramesAre ==
  /\ \A x : Frames(x) \in Seq(Frame)
  /\ \A x \in Framed : /\ Frames(x) = Append(Lead(x), Tip(x))
                       /\ Lead(x) \in Seq(Frame) /\ Tip(x) \in {"done", "item", "key", "value"}
  /\ \A x \in Between : Frames(x) = <<>>
<1>1. \A x : Frames(x) \in Seq(Frame)
  <2>1. /\ <<>> \in Seq(Frame) /\ <<"done">> \in Seq(Frame) /\ <<"item">> \in Seq(Frame)
        /\ <<"key">> \in Seq(Frame) /\ <<"value">> \in Seq(Frame)
        /\ <<"item", "key">> \in Seq(Frame) /\ <<"item", "value">> \in Seq(Frame)
    BY DEF Frame
  <2> QED BY <2>1 DEF Frames
<1>2. ASSUME NEW x \in Framed
      PROVE  /\ Frames(x) = Append(Lead(x), Tip(x))
             /\ Lead(x) \in Seq(Frame) /\ Tip(x) \in {"done", "item", "key", "value"}
  <2>1. /\ Append(<<>>, "done") = <<"done">> /\ Append(<<>>, "item") = <<"item">>
        /\ Append(<<>>, "key") = <<"key">> /\ Append(<<>>, "value") = <<"value">>
        /\ Append(<<"item">>, "key") = <<"item", "key">>
        /\ Append(<<"item">>, "value") = <<"item", "value">>
        /\ <<>> \in Seq(Frame) /\ <<"item">> \in Seq(Frame)
    <3>1. "done" \in Frame /\ "item" \in Frame /\ "key" \in Frame /\ "value" \in Frame
      BY DEF Frame
    <3> QED BY <3>1, AppendOne, AppendTwo
  <2>2. CASE x = "DOCUMENT_END"
    BY <2>1, <2>2 DEF Frames, Lead, Tip, PairKeyStates, PairValueStates, ItemStates,
         KeyStates, ValueStates
  <2>3. CASE x \in ItemStates
    BY <2>1, <2>3 DEF Frames, Lead, Tip, PairKeyStates, PairValueStates, ItemStates,
         KeyStates, ValueStates
  <2>4. CASE x \in KeyStates
    BY <2>1, <2>4 DEF Frames, Lead, Tip, PairKeyStates, PairValueStates, ItemStates,
         KeyStates, ValueStates
  <2>5. CASE x \in ValueStates
    BY <2>1, <2>5 DEF Frames, Lead, Tip, PairKeyStates, PairValueStates, ItemStates,
         KeyStates, ValueStates
  <2>6. CASE x \in PairKeyStates
    BY <2>1, <2>6 DEF Frames, Lead, Tip, PairKeyStates, PairValueStates, ItemStates,
         KeyStates, ValueStates
  <2>7. CASE x \in PairValueStates
    BY <2>1, <2>7 DEF Frames, Lead, Tip, PairKeyStates, PairValueStates, ItemStates,
         KeyStates, ValueStates

  <2> QED BY <2>2, <2>3, <2>4, <2>5, <2>6, <2>7 DEF Framed
<1>3. \A x \in Between : Frames(x) = <<>>
  BY DEF Between, Frames, PairKeyStates, PairValueStates, ItemStates, KeyStates, ValueStates
<1> QED BY <1>1, <1>2, <1>3

LEMMA FlatEmpty == Flat(<<>>) = <<>>
<1>1. Len(<<>>) = 0 /\ [i \in 1..0 |-> Frames(<<>>[i])] = <<>>
  OBVIOUS
<1> QED BY <1>1 DEF Flat, FlattenSeq

LEMMA FlatFrames ==
  ASSUME NEW S, NEW ss \in Seq(S)
  PROVE  Flat(ss) \in Seq(Frame)
<1>1. PICK q : q = [i \in 1..Len(ss) |-> Frames(ss[i])]
  OBVIOUS
<1>2. q \in Seq(Seq(Frame))
  BY <1>1, FramesAre
<1>3. FlattenSeq(q) \in Seq(Frame)
  BY <1>2, FlattenType
<1> QED BY <1>1, <1>3 DEF Flat

LEMMA FlatAppended ==
  ASSUME NEW S, NEW ss \in Seq(S), NEW x \in S
  PROVE  Flat(Append(ss, x)) = Flat(ss) \o Frames(x)
<1>1. PICK n, q, t, r : /\ n = Len(ss) /\ q = [i \in 1..n |-> Frames(ss[i])]
                        /\ t = Append(ss, x) /\ r = [i \in 1..Len(t) |-> Frames(t[i])]
  OBVIOUS
<1>2. /\ n \in Nat /\ Len(t) = n + 1 /\ t[n + 1] = x
      /\ \A i \in 1..n : t[i] = ss[i]
  BY <1>1, Appended
<1>3. q \in Seq(Seq(Frame)) /\ Len(q) = n /\ Frames(x) \in Seq(Frame)
  BY <1>1, <1>2, FramesAre
<1>4. r = Append(q, Frames(x))
  <2>1. r \in Seq(Seq(Frame)) /\ Len(r) = n + 1
    BY <1>1, <1>2, FramesAre
  <2>2. PICK a : a = Append(q, Frames(x))
    OBVIOUS
  <2>3. /\ a \in Seq(Seq(Frame)) /\ Len(a) = n + 1 /\ a[n + 1] = Frames(x)
        /\ \A i \in 1..n : a[i] = q[i]
    BY <1>3, <2>2, Appended
  <2>4. \A i \in 1..n + 1 : r[i] = a[i]
    BY <1>1, <1>2, <2>3
  <2>5. PICK S2 : S2 = Seq(Frame)
    OBVIOUS
  <2>6. r \in Seq(S2) /\ a \in Seq(S2) /\ Len(r) = Len(a) /\ \A i \in 1..Len(r) : r[i] = a[i]
    BY <2>1, <2>3, <2>4, <2>5
  <2>7. r = a
    BY ONLY <2>6
  <2> QED BY <2>2, <2>7
<1>5. FlattenSeq(r) = FlattenSeq(q) \o Frames(x)
  BY <1>3, <1>4, FlattenAppend
<1> QED BY <1>1, <1>5 DEF Flat

LEMMA AppendConcat ==
  ASSUME NEW a \in Seq(Frame), NEW b \in Seq(Frame), NEW x \in Frame
  PROVE  a \o Append(b, x) = Append(a \o b, x)
<1>1. <<x>> \in Seq(Frame) /\ Append(b, x) = b \o <<x>>
  BY AppendIsConcat
<1>2. a \o b \in Seq(Frame)
  BY ConcatProperties
<1>3. Append(a \o b, x) = (a \o b) \o <<x>>
  BY <1>2, AppendIsConcat
<1>4. a \o (b \o <<x>>) = (a \o b) \o <<x>>
  BY <1>1, ConcatAssociative
<1> QED BY <1>1, <1>3, <1>4

LEMMA AppendConcats ==
  ASSUME NEW a \in Seq(Frame), NEW b \in Seq(Frame), NEW c \in Seq(Frame), NEW x \in Frame
  PROVE  a \o (b \o Append(c, x)) = Append((a \o b) \o c, x)
<1>1. PICK d, e : d = Append(c, x) /\ e = a \o b
  OBVIOUS
<1>2. d \in Seq(Frame) /\ e \in Seq(Frame)
  BY <1>1, ConcatProperties
<1>3. a \o (b \o d) = (a \o b) \o d
  BY SMTT(30), <1>2, ConcatAssociative
<1>4. e \o Append(c, x) = Append(e \o c, x)
  BY <1>2, AppendConcat
<1> QED BY <1>1, <1>3, <1>4

(* The last frame, and another one in its place.                                  *)
LEMMA LastReplaced ==
  ASSUME NEW u \in Seq(Frame), NEW a \in Frame, NEW b \in Frame, NEW n, n = Append(u, a)
  PROVE  [n EXCEPT ![Len(n)] = b] = Append(u, b)
<1>1. PICK k : k = Len(u)
  OBVIOUS
<1>2. /\ k \in Nat /\ n \in Seq(Frame) /\ n # <<>> /\ Len(n) = k + 1 /\ n[k + 1] = a
      /\ \A i \in 1..k : n[i] = u[i]
  BY <1>1, Appended
<1>3. PICK m, t : m = [n EXCEPT ![k + 1] = b] /\ t = Append(u, b)
  OBVIOUS
<1>4. /\ t \in Seq(Frame) /\ Len(t) = k + 1 /\ t[k + 1] = b /\ \A i \in 1..k : t[i] = u[i]
  BY <1>1, <1>3, Appended
<1>5. m \in Seq(Frame) /\ Len(m) = k + 1 /\ \A i \in 1..k + 1 : m[i] = t[i]
  <2>1. k + 1 \in 1..Len(n)
    BY <1>2
  <2>2. m \in Seq(Frame) /\ Len(m) = Len(n) /\ \A i \in 1..Len(n) : m[i] = IF i = k + 1 THEN b ELSE n[i]
    BY ONLY <1>2, <1>3, <2>1, ExceptSeq, b \in Frame
  <2> QED BY <1>2, <1>4, <2>2
<1>6. m = t
  BY <1>4, <1>5, SeqEqual
<1> QED BY <1>2, <1>3, <1>6

LEMMA LastOff ==
  ASSUME NEW u \in Seq(Frame), NEW a \in Frame, NEW n, n = Append(u, a)
  PROVE  n # <<>> /\ n[Len(n)] = a /\ SubSeq(n, 1, Len(n) - 1) = u
<1>1. PICK k, s : k = Len(u) /\ s = SubSeq(n, 1, Len(n) - 1)
  OBVIOUS
<1>2. /\ k \in Nat /\ n \in Seq(Frame) /\ n # <<>> /\ Len(n) = k + 1 /\ n[k + 1] = a
      /\ \A i \in 1..k : n[i] = u[i]
  BY <1>1, Appended
<1>3. s \in Seq(Frame) /\ Len(s) = k /\ \A i \in 1..k : s[i] = u[i]
  BY <1>1, <1>2, Popped
<1>4. s = u
  BY <1>1, <1>3, SeqEqual
<1> QED BY <1>1, <1>2, <1>4

Under(ss) == <<"stream">> \o Flat(ss)

NestOf(x, ss) ==
    IF x \in {"STREAM_START", "END"} THEN <<>>
    ELSE <<"stream">> \o
         IF x \in {"NODE", "DOCUMENT_CONTENT"}
         THEN [Flat(ss) EXCEPT ![Len(Flat(ss))] = Awaiting(@)]
         ELSE Flat(ss) \o Frames(x)

LEMMA FrameMembers ==
  /\ <<"stream">> \in Seq(Frame)
  /\ \A x \in Framed : Tip(x) \in Frame
  BY FramesAre DEF Frame

LEMMA NestIs == Nest = NestOf(state, states)
  BY Zenon DEF Nest, NestOf, Stacked, Flat

LEMMA NestIsNext == Nest' = NestOf(state', states')
  BY Zenon DEF Nest, NestOf, Stacked, Flat

LEMMA UnderFrames ==
  ASSUME NEW S, NEW ss \in Seq(S)
  PROVE  Under(ss) \in Seq(Frame)
<1>1. <<"stream">> \in Seq(Frame) /\ Flat(ss) \in Seq(Frame)
  BY FlatFrames DEF Frame
<1> QED BY <1>1, ConcatProperties DEF Under

LEMMA NestFramed ==
  ASSUME NEW S, NEW ss \in Seq(S), NEW x \in Framed
  PROVE  /\ Under(ss) \o Lead(x) \in Seq(Frame)
         /\ NestOf(x, ss) = Append(Under(ss) \o Lead(x), Tip(x))
<1>1. PICK a, b, c, t : a = <<"stream">> /\ b = Flat(ss) /\ c = Lead(x) /\ t = Tip(x)
  OBVIOUS
<1>2. /\ a \in Seq(Frame) /\ b \in Seq(Frame) /\ c \in Seq(Frame) /\ t \in Frame
      /\ Frames(x) = Append(c, t)
  <2>1. b \in Seq(Frame)
    BY <1>1, FlatFrames
  <2> QED BY <1>1, <2>1, FramesAre, FrameMembers
<1>3. a \o (b \o Append(c, t)) = Append((a \o b) \o c, t) /\ (a \o b) \o c \in Seq(Frame)
  <2>1. a \o b \in Seq(Frame)
    BY <1>2, ConcatProperties
  <2>2. (a \o b) \o c \in Seq(Frame)
    BY <1>2, <2>1, ConcatProperties
  <2>3. a \o (b \o Append(c, t)) = Append((a \o b) \o c, t)
    BY ONLY <1>2, AppendConcats
  <2> QED BY <2>2, <2>3
<1>4. x \notin {"STREAM_START", "END", "NODE", "DOCUMENT_CONTENT"}
  BY DEF Framed, ItemStates, KeyStates, ValueStates, PairKeyStates, PairValueStates
<1> QED BY <1>1, <1>2, <1>3, <1>4 DEF NestOf, Under

LEMMA UnderAppended ==
  ASSUME NEW S, NEW ss \in Seq(S), NEW x \in S, x \in Framed
  PROVE  Under(Append(ss, x)) = Append(Under(ss) \o Lead(x), Tip(x))
<1>1. PICK a, b, c, t : a = <<"stream">> /\ b = Flat(ss) /\ c = Lead(x) /\ t = Tip(x)
  OBVIOUS
<1>2. /\ a \in Seq(Frame) /\ b \in Seq(Frame) /\ c \in Seq(Frame) /\ t \in Frame
      /\ Frames(x) = Append(c, t)
  <2>1. b \in Seq(Frame)
    BY <1>1, FlatFrames
  <2> QED BY <1>1, <2>1, FramesAre, FrameMembers
<1>3. a \o (b \o Append(c, t)) = Append((a \o b) \o c, t)
  BY <1>2, AppendConcats
<1>4. Flat(Append(ss, x)) = b \o Append(c, t)
  BY <1>1, <1>2, FlatAppended
<1> QED BY <1>1, <1>3, <1>4 DEF Under

LEMMA NestWaiting ==
  ASSUME NEW S, NEW ss \in Seq(S), NEW x \in S, x \in Framed, NEW y \in {"NODE", "DOCUMENT_CONTENT"}
  PROVE  NestOf(y, Append(ss, x)) = Append(Under(ss) \o Lead(x), Awaiting(Tip(x)))
<1>1. PICK a, b, c, t, w : /\ a = <<"stream">> /\ b = Flat(ss) /\ c = Lead(x) /\ t = Tip(x)
                           /\ w = Awaiting(t)
  OBVIOUS
<1>2. /\ a \in Seq(Frame) /\ b \in Seq(Frame) /\ c \in Seq(Frame) /\ t \in Frame
      /\ Frames(x) = Append(c, t) /\ w \in Frame
  <2>1. b \in Seq(Frame)
    BY <1>1, FlatFrames
  <2>2. w \in Frame
    BY <1>1, FramesAre DEF Frame, Awaiting
  <2> QED BY <1>1, <2>1, <2>2, FramesAre, FrameMembers
<1>3. PICK u, n : u = b \o c /\ n = Append(u, t)
  OBVIOUS
<1>4. u \in Seq(Frame) /\ b \o Append(c, t) = n
  BY <1>2, <1>3, AppendConcat, ConcatProperties
<1>5. Flat(Append(ss, x)) = n
  BY <1>1, <1>2, <1>4, FlatAppended
<1>6. n[Len(n)] = t /\ [n EXCEPT ![Len(n)] = w] = Append(u, w)
  <2>1. n[Len(n)] = t
    BY <1>2, <1>3, <1>4, LastOff
  <2>2. [n EXCEPT ![Len(n)] = w] = Append(u, w)
    <3>1. u \in Seq(Frame) /\ t \in Frame /\ w \in Frame /\ n = Append(u, t)
      BY <1>2, <1>3, <1>4
    <3> QED BY ONLY <3>1, LastReplaced
  <2> QED BY <2>1, <2>2
<1>7. a \o Append(u, w) = Append(a \o u, w) /\ a \o u = (a \o b) \o c
  <2>1. a \o (b \o c) = (a \o b) \o c
    BY ONLY SMTT(30), <1>2, ConcatAssociative
  <2>2. a \o Append(u, w) = Append(a \o u, w)
    BY ONLY <1>2, <1>4, AppendConcat
  <2> QED BY <1>3, <2>1, <2>2
<1>8. NestOf(y, Append(ss, x)) = a \o [n EXCEPT ![Len(n)] = Awaiting(n[Len(n)])]
  <2>1. y \in {"NODE", "DOCUMENT_CONTENT"} /\ y \notin {"STREAM_START", "END"}
    OBVIOUS
  <2> QED BY <1>1, <1>5, <2>1 DEF NestOf
<1> QED BY <1>1, <1>6, <1>7, <1>8 DEF Under

LEMMA NestBetween ==
  ASSUME NEW x \in Between
  PROVE  NestOf(x, <<>>) = <<"stream">>
<1>1. x \notin {"STREAM_START", "END", "NODE", "DOCUMENT_CONTENT"} /\ Frames(x) = <<>>
  BY FramesAre DEF Between
<1>2. <<>> \o <<>> = <<>> /\ <<"stream">> \o <<>> = <<"stream">>
  OBVIOUS
<1> QED BY <1>1, <1>2, FlatEmpty DEF NestOf

LEMMA UnderEmpty == Under(<<>>) = <<"stream">>
<1>1. <<"stream">> \o <<>> = <<"stream">>
  OBVIOUS
<1> QED BY <1>1, FlatEmpty DEF Under

-----------------------------------------------------------------------------
(* The steps of the events, with the frames below the last one kept.              *)
LEMMA LastOfNest ==
  ASSUME NEW u \in Seq(Frame), NEW a \in Frame, NEW b \in Frame, Nest = Append(u, a)
  PROVE  /\ TheEvents!Top = a /\ TheEvents!Replace(b) = Append(u, b) /\ Nest # <<>>
         /\ SubSeq(Nest, 1, Len(Nest) - 1) = u
<1>1. PICK n : n = Nest
  OBVIOUS
<1>2. n # <<>> /\ n[Len(n)] = a /\ SubSeq(n, 1, Len(n) - 1) = u
  BY <1>1, LastOff
<1>3. [n EXCEPT ![Len(n)] = b] = Append(u, b)
  <2>1. u \in Seq(Frame) /\ a \in Frame /\ b \in Frame /\ n = Append(u, a)
    BY <1>1
  <2> QED BY ONLY <2>1, LastReplaced
<1> QED BY <1>1, <1>2, <1>3 DEF TheEvents!Top, TheEvents!Replace

LEMMA FilledFrames ==
  /\ TheEvents!Filled("root") = "done" /\ TheEvents!Filled("item") = "item"
  /\ TheEvents!Filled("key") = "value" /\ TheEvents!Filled("value") = "key"
  /\ Awaiting("done") = "root" /\ Awaiting("item") = "item"
  /\ Awaiting("key") = "value" /\ Awaiting("value") = "key"
  /\ {"root", "done", "item", "key", "value"} \subseteq Frame
  BY DEF TheEvents!Filled, Awaiting, Frame

LEMMA LeafStep ==
  ASSUME NEW u \in Seq(Frame), NEW a \in {"root", "item", "key", "value"},
         Nest = Append(u, a), Nest' = Append(u, TheEvents!Filled(a)),
         event' \in {"SCALAR", "ALIAS"}
  PROVE  TheEvents!Step
<1>1. PICK b : b = TheEvents!Filled(a)
  OBVIOUS
<1>2. a \in Frame /\ b \in Frame
  BY <1>1, FilledFrames
<1>3. TheEvents!Top = a /\ TheEvents!Replace(b) = Append(u, b) /\ Nest # <<>>
  BY <1>2, LastOfNest
<1>4. TheEvents!Leaf
  BY <1>1, <1>3 DEF TheEvents!Leaf, TheEvents!Expects
<1> QED BY <1>4 DEF TheEvents!Step

LEMMA BeginStep ==
  ASSUME NEW u \in Seq(Frame), NEW a \in {"root", "item", "key", "value"},
         NEW frame, Nest = Append(u, a),
         Nest' = Append(Append(u, TheEvents!Filled(a)), frame),
         \/ event' = "SEQUENCE-START" /\ frame = "item"
         \/ event' = "MAPPING-START" /\ frame = "key"
  PROVE  TheEvents!Step
<1>1. PICK b : b = TheEvents!Filled(a)
  OBVIOUS
<1>2. a \in Frame /\ b \in Frame
  BY <1>1, FilledFrames
<1>3. TheEvents!Top = a /\ TheEvents!Replace(b) = Append(u, b) /\ Nest # <<>>
  BY <1>2, LastOfNest
<1>4. TheEvents!Begin("SEQUENCE-START", "item") \/ TheEvents!Begin("MAPPING-START", "key")
  BY <1>1, <1>3 DEF TheEvents!Begin, TheEvents!Expects
<1> QED BY <1>4 DEF TheEvents!Step

LEMMA EndStep ==
  ASSUME NEW u \in Seq(Frame), NEW frame, Nest = Append(u, frame), Nest' = u,
         \/ event' = "SEQUENCE-END" /\ frame = "item"
         \/ event' = "MAPPING-END" /\ frame = "key"
  PROVE  TheEvents!Step
<1>1. frame \in Frame
  BY FilledFrames
<1>2. TheEvents!Top = frame /\ Nest # <<>> /\ SubSeq(Nest, 1, Len(Nest) - 1) = u
  BY <1>1, LastOfNest
<1>3. TheEvents!End("SEQUENCE-END", "item") \/ TheEvents!End("MAPPING-END", "key")
  BY <1>2 DEF TheEvents!End
<1> QED BY <1>3 DEF TheEvents!Step

-----------------------------------------------------------------------------
(* What a step of the parser does to the frames: it is one of these.              *)
(* The same frames, or all of them empty.                                         *)
Rests ==
    /\ states' = states /\ event' = event
    /\ \/ state \in Framed /\ state' \in Framed /\ Lead(state') = Lead(state) /\ Tip(state') = Tip(state)
       \/ states = <<>> /\ state \in Between /\ state' \in Between
       \/ state \in {"NODE", "DOCUMENT_CONTENT"} /\ state' \in {"NODE", "DOCUMENT_CONTENT"}

Enters(after) ==
    /\ state \in Framed /\ after \in Pushed
    /\ Lead(state) = Lead(after) /\ Tip(state) = Awaiting(Tip(after))
    /\ state' = "NODE" /\ states' = Append(states, after) /\ event' = event

Fills ==
    /\ state \in Framed \ {"DOCUMENT_END"} /\ state' \in Framed /\ states' = states
    /\ event' = "SCALAR" /\ Lead(state') = Lead(state) /\ Tip(state') = TheEvents!Filled(Tip(state))

Completes ==
    /\ state \in {"NODE", "DOCUMENT_CONTENT"}
    /\ state' = states[Len(states)] /\ states' = SubSeq(states, 1, Len(states) - 1)
    /\ event' \in {"SCALAR", "ALIAS"}

Collects ==
    /\ state = "NODE" /\ states' = states
    /\ state' \in Framed /\ Lead(state') = <<>>
    /\ \/ event' = "SEQUENCE-START" /\ Tip(state') = "item"
       \/ event' = "MAPPING-START" /\ Tip(state') = "key"

Ends ==
    /\ state \in Framed /\ Lead(state) = <<>>
    /\ \/ event' = "SEQUENCE-END" /\ Tip(state) = "item"
       \/ event' = "MAPPING-END" /\ Tip(state) = "key"
    /\ state' = states[Len(states)] /\ states' = SubSeq(states, 1, Len(states) - 1)

Pairs ==
    /\ states' = states /\ state \in ItemStates /\ state' \in PairKeyStates
    /\ event' = "MAPPING-START"

PairEnds ==
    /\ states' = states /\ state \in PairKeyStates /\ state' \in ItemStates
    /\ event' = "MAPPING-END"

Streams ==
    \/ state = "STREAM_START" /\ state' \in Between /\ states' = states /\ event' = "STREAM-START"
    \/ state \in Between /\ state' = "END" /\ states' = states /\ event' = "STREAM-END"
    \/ /\ state \in Between /\ state' \in {"NODE", "DOCUMENT_CONTENT"}
       /\ states' = Append(states, "DOCUMENT_END") /\ event' = "DOCUMENT-START"
    \/ /\ state = "DOCUMENT_END" /\ state' \in Between /\ states' = states
       /\ event' = "DOCUMENT-END"

Frees == error' # "none" /\ state' = state /\ states' = states /\ event' = event

Turn ==
    \/ Rests \/ (\E after : Enters(after)) \/ Fills \/ Completes \/ Collects \/ Ends
    \/ Pairs \/ PairEnds \/ Streams \/ Frees

StartInv == state = "STREAM_START" => event = "none"

-----------------------------------------------------------------------------
LEMMA NestTop ==
  ASSUME StackOK, state \in Framed
  PROVE  /\ Under(states) \o Lead(state) \in Seq(Frame)
         /\ Nest = Append(Under(states) \o Lead(state), Tip(state))
         /\ Tip(state) \in {"done", "item", "key", "value"}
<1>1. PICK x, ss : x = state /\ ss = states
  OBVIOUS
<1>2. ss \in Seq(Pushed \cup {"DOCUMENT_END"}) /\ x \in Framed
  BY <1>1 DEF StackOK
<1>3. Under(ss) \o Lead(x) \in Seq(Frame) /\ NestOf(x, ss) = Append(Under(ss) \o Lead(x), Tip(x))
  BY <1>2, NestFramed
<1>4. Tip(x) \in {"done", "item", "key", "value"}
  BY <1>2, FramesAre
<1> QED BY <1>1, <1>3, <1>4, NestIs

LEMMA NestTopNext ==
  ASSUME StackOK', state' \in Framed
  PROVE  Nest' = Append(Under(states') \o Lead(state'), Tip(state'))
<1>1. PICK x, ss : x = state' /\ ss = states'
  OBVIOUS
<1>2. ss \in Seq(Pushed \cup {"DOCUMENT_END"}) /\ x \in Framed
  BY <1>1 DEF StackOK
<1>3. NestOf(x, ss) = Append(Under(ss) \o Lead(x), Tip(x))
  BY <1>2, NestFramed
<1>4. Nest' = NestOf(x, ss)
  BY <1>1, NestIsNext
<1> QED BY <1>1, <1>3, <1>4

LEMMA PushedFramed == Pushed \cup {"DOCUMENT_END"} \subseteq Framed
  BY DEF Pushed, Framed, ItemStates, KeyStates, ValueStates, PairKeyStates, PairValueStates

Rest(ss) == SubSeq(ss, 1, Len(ss) - 1)

LEMMA PushBack ==
  ASSUME NEW S, NEW ss \in Seq(S), ss # <<>>
  PROVE  ss = Append(Rest(ss), ss[Len(ss)]) /\ Rest(ss) \in Seq(S) /\ ss[Len(ss)] \in S
<1>1. PICK p, t : p = SubSeq(ss, 1, Len(ss) - 1) /\ t = ss[Len(ss)]
  OBVIOUS
<1>2. p \in Seq(S) /\ t \in S
  BY <1>1, Popped
<1>3. PICK k, r : k = Len(ss) /\ r = Append(p, t)
  OBVIOUS
<1>4. k \in Nat /\ k > 0 /\ Len(p) = k - 1 /\ \A i \in 1..k - 1 : p[i] = ss[i]
  BY <1>1, <1>3, Popped
<1>5. r \in Seq(S) /\ Len(r) = k /\ r[k] = t /\ \A i \in 1..k - 1 : r[i] = p[i]
  BY <1>2, <1>3, <1>4, Appended
<1>6. \A i \in 1..k : r[i] = ss[i]
  BY <1>1, <1>3, <1>4, <1>5
<1>7. r = ss
  BY <1>3, <1>5, <1>6, SeqEqual
<1> QED BY <1>1, <1>2, <1>3, <1>7 DEF Rest

(* A stack within a document: what is below its top, and what the top stands for. *)
LEMMA NestBelow ==
  ASSUME NEW ss \in Seq(Pushed \cup {"DOCUMENT_END"}), ss # <<>>
  PROVE  /\ Rest(ss) \in Seq(Pushed \cup {"DOCUMENT_END"})
         /\ ss[Len(ss)] \in Framed
         /\ Under(Rest(ss)) \o Lead(ss[Len(ss)]) \in Seq(Frame)
         /\ Under(ss) = Append(Under(Rest(ss)) \o Lead(ss[Len(ss)]), Tip(ss[Len(ss)]))
         /\ NestOf(ss[Len(ss)], Rest(ss)) = Under(ss)
<1>1. PICK S, p, t : S = Pushed \cup {"DOCUMENT_END"} /\ p = Rest(ss) /\ t = ss[Len(ss)]
  OBVIOUS
<1>2. p \in Seq(S) /\ t \in S /\ ss = Append(p, t)
  BY <1>1, PushBack
<1>3. t \in Framed
  BY <1>1, <1>2, PushedFramed
<1>4. Under(p) \o Lead(t) \in Seq(Frame) /\ NestOf(t, p) = Append(Under(p) \o Lead(t), Tip(t))
  BY <1>2, <1>3, NestFramed
<1>5. Under(ss) = Append(Under(p) \o Lead(t), Tip(t))
  BY <1>2, <1>3, UnderAppended
<1> QED BY <1>1, <1>2, <1>3, <1>4, <1>5

(* Within a node, what the state to return to awaits.                             *)
LEMMA NestNode ==
  ASSUME NEW x \in {"NODE", "DOCUMENT_CONTENT"}, NEW ss \in Seq(Pushed \cup {"DOCUMENT_END"}),
         ss # <<>>
  PROVE  NestOf(x, ss) = Append(Under(Rest(ss)) \o Lead(ss[Len(ss)]), Awaiting(Tip(ss[Len(ss)])))
<1>1. PICK S, p, t : S = Pushed \cup {"DOCUMENT_END"} /\ p = Rest(ss) /\ t = ss[Len(ss)]
  OBVIOUS
<1>2. p \in Seq(S) /\ t \in S /\ ss = Append(p, t)
  BY <1>1, PushBack
<1>3. t \in Framed
  BY <1>1, <1>2, PushedFramed
<1>4. NestOf(x, Append(p, t)) = Append(Under(p) \o Lead(t), Awaiting(Tip(t)))
  BY <1>2, <1>3, NestWaiting
<1> QED BY <1>1, <1>2, <1>4

LEMMA PairFrames ==
  /\ \A x \in ItemStates : x \in Framed /\ Lead(x) = <<>> /\ Tip(x) = "item"
  /\ \A x \in PairKeyStates : x \in Framed /\ Lead(x) = <<"item">> /\ Tip(x) = "key"
  /\ \A x \in KeyStates : x \in Framed /\ Lead(x) = <<>> /\ Tip(x) = "key"
  /\ \A x \in ValueStates : x \in Framed /\ Lead(x) = <<>> /\ Tip(x) = "value"
  /\ \A x \in PairValueStates : x \in Framed /\ Lead(x) = <<"item">> /\ Tip(x) = "value"
  /\ "DOCUMENT_END" \in Framed /\ Lead("DOCUMENT_END") = <<>> /\ Tip("DOCUMENT_END") = "done"
  BY DEF Framed, Lead, Tip, ItemStates, KeyStates, ValueStates, PairKeyStates, PairValueStates

LEMMA SameNest ==
  ASSUME state' = state, states' = states PROVE Nest' = Nest
  BY NestIs, NestIsNext

LEMMA RestsStep ==
  ASSUME StackOK, StackOK', Rests PROVE Nest' = Nest /\ event' = event
<1>1. states' = states /\ event' = event
  BY DEF Rests
<1>2. CASE state \in Framed /\ state' \in Framed /\ Lead(state') = Lead(state) /\ Tip(state') = Tip(state)
  BY <1>1, <1>2, NestTop, NestTopNext
<1>3. CASE states = <<>> /\ state \in Between /\ state' \in Between
  BY <1>1, <1>3, NestBetween, NestIs, NestIsNext
<1>4. CASE state \in {"NODE", "DOCUMENT_CONTENT"} /\ state' \in {"NODE", "DOCUMENT_CONTENT"}
  <2>1. PICK x, y, ss : x = state /\ y = state' /\ ss = states
    OBVIOUS
  <2>2. NestOf(x, ss) = NestOf(y, ss)
    BY <1>4, <2>1 DEF NestOf
  <2> QED BY <1>1, <2>1, <2>2, NestIs, NestIsNext
<1> QED BY <1>1, <1>2, <1>3, <1>4 DEF Rests

LEMMA EntersStep ==
  ASSUME StackOK, NEW after, Enters(after) PROVE Nest' = Nest /\ event' = event
<1>1. PICK S, ss : S = Pushed \cup {"DOCUMENT_END"} /\ ss = states
  OBVIOUS
<1>2. ss \in Seq(S) /\ after \in S /\ after \in Framed
  BY <1>1, PushedFramed DEF StackOK, Enters
<1>3. NestOf("NODE", Append(ss, after)) = Append(Under(ss) \o Lead(after), Awaiting(Tip(after)))
  BY <1>2, NestWaiting
<1>4. Nest = Append(Under(ss) \o Lead(state), Tip(state))
  BY <1>1, NestTop DEF Enters
<1>5. Nest' = NestOf("NODE", Append(ss, after))
  BY <1>1, NestIsNext DEF Enters
<1> QED BY <1>3, <1>4, <1>5 DEF Enters

LEMMA FillsStep ==
  ASSUME StackOK, StackOK', Fills PROVE TheEvents!Step
<1>1. PICK u, a : u = Under(states) \o Lead(state) /\ a = Tip(state)
  OBVIOUS
<1>2. u \in Seq(Frame) /\ Nest = Append(u, a) /\ a \in {"done", "item", "key", "value"}
  BY <1>1, NestTop DEF Fills
<1>3. a # "done"
  <2>1. state \in Framed \ {"DOCUMENT_END"}
    BY DEF Fills
  <2> QED BY <1>1, <2>1 DEF Tip, Framed, ItemStates, KeyStates, ValueStates, PairKeyStates, PairValueStates
<1>4. Nest' = Append(u, TheEvents!Filled(a))
  BY <1>1, NestTopNext DEF Fills
<1> QED BY <1>2, <1>3, <1>4, LeafStep DEF Fills

LEMMA CompletesStep ==
  ASSUME StackOK, Completes PROVE TheEvents!Step
<1>1. PICK x, ss : x = state /\ ss = states
  OBVIOUS
<1>2. ss \in Seq(Pushed \cup {"DOCUMENT_END"}) /\ ss # <<>> /\ x \in {"NODE", "DOCUMENT_CONTENT"}
  BY <1>1 DEF StackOK, Completes, Outside
<1>3. PICK p, t : /\ p = Rest(ss) /\ t = ss[Len(ss)]
                  /\ t \in Framed /\ Under(p) \o Lead(t) \in Seq(Frame)
                  /\ NestOf(x, ss) = Append(Under(p) \o Lead(t), Awaiting(Tip(t)))
                  /\ Under(ss) = Append(Under(p) \o Lead(t), Tip(t))
                  /\ NestOf(t, p) = Under(ss)
  BY <1>2, NestNode, NestBelow
<1>4. PICK u, a, b : u = Under(p) \o Lead(t) /\ a = Awaiting(Tip(t)) /\ b = Tip(t)
  OBVIOUS
<1>5. /\ u \in Seq(Frame) /\ Nest = Append(u, a) /\ Nest' = Append(u, b)
  BY <1>1, <1>3, <1>4, NestIs, NestIsNext DEF Completes, Rest
<1>6. a \in {"root", "item", "key", "value"} /\ TheEvents!Filled(a) = b
  <2>1. b \in {"done", "item", "key", "value"}
    BY <1>3, <1>4, FramesAre
  <2> QED BY <1>4, <2>1, FilledFrames
<1> QED BY <1>5, <1>6, LeafStep DEF Completes

LEMMA CollectsStep ==
  ASSUME StackOK, StackOK', Collects PROVE TheEvents!Step
<1>1. PICK x, ss : x = state /\ ss = states
  OBVIOUS
<1>2. ss \in Seq(Pushed \cup {"DOCUMENT_END"}) /\ ss # <<>> /\ x \in {"NODE", "DOCUMENT_CONTENT"}
  BY <1>1 DEF StackOK, Collects, Outside
<1>3. PICK p, t : /\ t \in Framed /\ Under(p) \o Lead(t) \in Seq(Frame)
                  /\ NestOf(x, ss) = Append(Under(p) \o Lead(t), Awaiting(Tip(t)))
                  /\ Under(ss) = Append(Under(p) \o Lead(t), Tip(t))
  BY <1>2, NestNode, NestBelow
<1>4. PICK u, a, b, v : /\ u = Under(p) \o Lead(t) /\ a = Awaiting(Tip(t)) /\ b = Tip(t)
                        /\ v = Under(ss)
  OBVIOUS
<1>5. a \in {"root", "item", "key", "value"} /\ TheEvents!Filled(a) = b
  <2>1. b \in {"done", "item", "key", "value"}
    BY <1>3, <1>4, FramesAre
  <2> QED BY <1>4, <2>1, FilledFrames
<1>6. Nest = Append(u, a) /\ v = Append(u, b) /\ u \in Seq(Frame)
  BY <1>1, <1>3, <1>4, NestIs
<1>7. Nest' = Append(v, Tip(state'))
  <2>1. Nest' = Append(Under(states') \o Lead(state'), Tip(state'))
    BY NestTopNext DEF Collects
  <2>2. v \in Seq(Frame)
    BY <1>2, <1>4, UnderFrames
  <2>3. v \o <<>> = v
    BY <2>2
  <2> QED BY <1>1, <1>4, <2>1, <2>3 DEF Collects
<1>8. PICK frame : frame = Tip(state')
  OBVIOUS
<1>9. Nest' = Append(Append(u, TheEvents!Filled(a)), frame)
  BY <1>5, <1>6, <1>7, <1>8
<1>10. \/ event' = "SEQUENCE-START" /\ frame = "item"
       \/ event' = "MAPPING-START" /\ frame = "key"
  BY <1>8 DEF Collects
<1> QED BY <1>5, <1>6, <1>9, <1>10, BeginStep

LEMMA EndsStep ==
  ASSUME StackOK, Ends PROVE TheEvents!Step
<1>1. PICK x, ss : x = state /\ ss = states
  OBVIOUS
<1>2. /\ ss \in Seq(Pushed \cup {"DOCUMENT_END"}) /\ x \in Framed /\ x # "DOCUMENT_END"
  BY <1>1, PairFrames DEF StackOK, Ends
<1>3. ss # <<>>
  BY <1>1, <1>2 DEF StackOK, Outside, Framed, ItemStates, KeyStates, ValueStates, PairKeyStates,
       PairValueStates
<1>4. NestOf(ss[Len(ss)], SubSeq(ss, 1, Len(ss) - 1)) = Under(ss)
  BY <1>2, <1>3, NestBelow DEF Rest
<1>5. Nest' = Under(ss)
  BY <1>1, <1>4, NestIsNext DEF Ends
<1>6. Under(ss) \in Seq(Frame)
  BY <1>2, UnderFrames
<1>7. Nest = Append(Under(ss), Tip(state))
  <2>1. Under(ss) \o <<>> = Under(ss)
    BY <1>6
  <2> QED BY <1>1, <2>1, NestTop DEF Ends
<1> QED BY <1>5, <1>6, <1>7, EndStep DEF Ends

LEMMA PairNests ==
  ASSUME NEW ss \in Seq(Pushed \cup {"DOCUMENT_END"}), NEW x \in ItemStates, NEW y \in PairKeyStates
  PROVE  /\ Under(ss) \in Seq(Frame)
         /\ NestOf(x, ss) = Append(Under(ss), "item")
         /\ NestOf(y, ss) = Append(Append(Under(ss), "item"), "key")
<1>1. PICK u : u = Under(ss)
  OBVIOUS
<1>2. u \in Seq(Frame)
  BY <1>1, UnderFrames
<1>3. NestOf(x, ss) = Append(u \o <<>>, "item") /\ NestOf(y, ss) = Append(u \o <<"item">>, "key")
  <2>1. NestOf(x, ss) = Append(Under(ss) \o Lead(x), Tip(x))
    BY PairFrames, NestFramed
  <2>2. NestOf(y, ss) = Append(Under(ss) \o Lead(y), Tip(y))
    BY PairFrames, NestFramed
  <2> QED BY <1>1, <2>1, <2>2, PairFrames
<1>4. u \o <<>> = u /\ u \o <<"item">> = Append(u, "item")
  <2>1. "item" \in Frame
    BY DEF Frame
  <2> QED BY <1>2, <2>1, AppendIsConcat
<1> QED BY <1>1, <1>2, <1>3, <1>4

LEMMA PairsStep ==
  ASSUME StackOK, Pairs PROVE TheEvents!Step
<1>1. PICK u : u = Under(states)
  OBVIOUS
<1>2. /\ u \in Seq(Frame) /\ Nest = Append(u, "item")
      /\ Nest' = Append(Append(u, "item"), "key")
  <2>1. PICK x, y, ss : x = state /\ y = state' /\ ss = states
    OBVIOUS
  <2>2. /\ ss \in Seq(Pushed \cup {"DOCUMENT_END"}) /\ x \in ItemStates /\ y \in PairKeyStates
    BY <2>1 DEF StackOK, Pairs
  <2>3. /\ Under(ss) \in Seq(Frame)
        /\ NestOf(x, ss) = Append(Under(ss), "item")
        /\ NestOf(y, ss) = Append(Append(Under(ss), "item"), "key")
    BY <2>2, PairNests
  <2> QED BY <1>1, <2>1, <2>3, NestIs, NestIsNext DEF Pairs
<1>3. Nest' = Append(Append(u, TheEvents!Filled("item")), "key")
  BY <1>2, FilledFrames
<1> QED BY <1>2, <1>3, BeginStep DEF Pairs

LEMMA PairEndsStep ==
  ASSUME StackOK, PairEnds PROVE TheEvents!Step
<1>1. PICK u, v : u = Under(states) /\ v = Append(u, "item")
  OBVIOUS
<1>2. u \in Seq(Frame) /\ Nest = Append(v, "key") /\ Nest' = v
  <2>1. PICK x, y, ss : x = state /\ y = state' /\ ss = states
    OBVIOUS
  <2>2. ss \in Seq(Pushed \cup {"DOCUMENT_END"}) /\ x \in PairKeyStates /\ y \in ItemStates
    BY <2>1 DEF StackOK, PairEnds
  <2>3. /\ Under(ss) \in Seq(Frame)
        /\ NestOf(y, ss) = Append(Under(ss), "item")
        /\ NestOf(x, ss) = Append(Append(Under(ss), "item"), "key")
    BY <2>2, PairNests
  <2> QED BY <1>1, <2>1, <2>3, NestIs, NestIsNext DEF PairEnds
<1>3. v \in Seq(Frame)
  BY <1>1, <1>2 DEF Frame
<1> QED BY <1>2, <1>3, EndStep DEF PairEnds

LEMMA StreamsStep ==
  ASSUME StackOK, StackOK', StartInv, Streams PROVE TheEvents!Step
<1>b. \A x \in Between : x \in Outside
  BY DEF Between, Outside
<1>1. CASE state = "STREAM_START" /\ state' \in Between /\ states' = states /\ event' = "STREAM-START"
  <2>1. states = <<>> /\ event = "none"
    BY <1>1 DEF StackOK, Outside, StartInv
  <2>2. Nest' = <<"stream">>
    BY <1>1, <2>1, NestBetween, NestIsNext
  <2>3. TheEvents!StreamStart
    BY <1>1, <2>1, <2>2 DEF TheEvents!StreamStart
  <2> QED BY <2>3 DEF TheEvents!Step
<1>2. CASE state \in Between /\ state' = "END" /\ states' = states /\ event' = "STREAM-END"
  <2>1. states = <<>>
    BY <1>2, <1>b DEF StackOK
  <2>2. Nest = <<"stream">> /\ Nest' = <<>>
    <3>1. NestOf("END", <<>>) = <<>>
      BY DEF NestOf
    <3> QED BY <1>2, <2>1, <3>1, NestBetween, NestIs, NestIsNext
  <2>3. TheEvents!StreamEnd
    BY <1>2, <2>2 DEF TheEvents!StreamEnd
  <2> QED BY <2>3 DEF TheEvents!Step
<1>3. CASE /\ state \in Between /\ state' \in {"NODE", "DOCUMENT_CONTENT"}
           /\ states' = Append(states, "DOCUMENT_END") /\ event' = "DOCUMENT-START"
  <2>1. states = <<>>
    BY <1>3, <1>b DEF StackOK
  <2>2. Nest = <<"stream">>
    BY <1>3, <2>1, NestBetween, NestIs
  <2>3. PICK S : S = {"DOCUMENT_END"}
    OBVIOUS
  <2>4. <<>> \in Seq(S) /\ "DOCUMENT_END" \in S
    BY <2>3
  <2>5. NestOf(state', Append(<<>>, "DOCUMENT_END")) = Append(Under(<<>>) \o <<>>, Awaiting("done"))
    BY ZenonT(60), <1>3, <2>4, NestWaiting, PairFrames
  <2>6. Nest' = Append(<<"stream">>, "root")
    <3>1. <<"stream">> \o <<>> = <<"stream">>
      OBVIOUS
    <3> QED BY <1>3, <2>1, <2>5, <3>1, UnderEmpty, FilledFrames, NestIsNext
  <2>7. TheEvents!DocumentStart
    BY <1>3, <2>2, <2>6 DEF TheEvents!DocumentStart
  <2> QED BY <2>7 DEF TheEvents!Step
<1>4. CASE /\ state = "DOCUMENT_END" /\ state' \in Between /\ states' = states
           /\ event' = "DOCUMENT-END"
  <2>1. states = <<>>
    BY <1>4 DEF StackOK, Outside
  <2>2. Nest' = <<"stream">>
    BY <1>4, <2>1, NestBetween, NestIsNext
  <2>3. Nest = Append(<<"stream">> \o <<>>, "done")
    BY <1>4, <2>1, NestTop, PairFrames, UnderEmpty
  <2>4. Nest = <<"stream", "done">>
    <3>1. <<"stream">> \o <<>> = <<"stream">>
      OBVIOUS
    <3>2. "stream" \in Frame /\ "done" \in Frame
      BY DEF Frame
    <3> QED BY <2>3, <3>1, <3>2, AppendTwo
  <2>5. TheEvents!DocumentEnd
    BY <1>4, <2>2, <2>4 DEF TheEvents!DocumentEnd
  <2> QED BY <2>5 DEF TheEvents!Step
<1> QED BY <1>1, <1>2, <1>3, <1>4 DEF Streams

LEMMA TurnStep ==
  ASSUME StackOK, StackOK', StartInv, Turn
  PROVE  TheEvents!Step \/ (Nest' = Nest /\ event' = event)
<1>1. CASE Rests
  BY <1>1, RestsStep
<1>2. CASE \E after : Enters(after)
  BY <1>2, EntersStep
<1>3. CASE Fills \/ Completes \/ Collects \/ Ends
  BY <1>3, FillsStep, CompletesStep, CollectsStep, EndsStep
<1>4. CASE Pairs \/ PairEnds \/ Streams
  BY <1>4, PairsStep, PairEndsStep, StreamsStep
<1>5. CASE Frees
  BY <1>5, SameNest DEF Frees
<1> QED BY <1>1, <1>2, <1>3, <1>4, <1>5 DEF Turn

(* Each state with its frames.                                                    *)
LEMMA Sorted ==
  /\ \A x \in {"BLOCK_SEQUENCE_FIRST_ENTRY", "BLOCK_SEQUENCE_ENTRY", "BLOCK_SEQUENCE_ENTRY-",
               "INDENTLESS_SEQUENCE_ENTRY", "INDENTLESS_SEQUENCE_ENTRY-",
               "FLOW_SEQUENCE_FIRST_ENTRY", "FLOW_SEQUENCE_ENTRY", "FLOW_SEQUENCE_ENTRY[",
               "FLOW_SEQUENCE_ENTRY,"} :
        x \in ItemStates /\ x \in Framed \ {"DOCUMENT_END"} /\ Lead(x) = <<>> /\ Tip(x) = "item"
  /\ \A x \in {"BLOCK_MAPPING_FIRST_KEY", "BLOCK_MAPPING_KEY", "BLOCK_MAPPING_KEY?",
               "FLOW_MAPPING_FIRST_KEY", "FLOW_MAPPING_KEY", "FLOW_MAPPING_KEY{",
               "FLOW_MAPPING_KEY,", "FLOW_MAPPING_KEY?"} :
        x \in Framed \ {"DOCUMENT_END"} /\ Lead(x) = <<>> /\ Tip(x) = "key"
  /\ \A x \in {"BLOCK_MAPPING_VALUE", "BLOCK_MAPPING_VALUE:", "FLOW_MAPPING_VALUE",
               "FLOW_MAPPING_VALUE:", "FLOW_MAPPING_EMPTY_VALUE"} :
        x \in Framed \ {"DOCUMENT_END"} /\ Lead(x) = <<>> /\ Tip(x) = "value"
  /\ \A x \in {"FLOW_SEQUENCE_ENTRY_MAPPING_KEY", "FLOW_SEQUENCE_ENTRY_MAPPING_END"} :
        x \in PairKeyStates /\ x \in Framed \ {"DOCUMENT_END"} /\ Lead(x) = <<"item">> /\ Tip(x) = "key"
  /\ \A x \in {"FLOW_SEQUENCE_ENTRY_MAPPING_VALUE", "FLOW_SEQUENCE_ENTRY_MAPPING_VALUE:"} :
        x \in Framed \ {"DOCUMENT_END"} /\ Lead(x) = <<"item">> /\ Tip(x) = "value"
<1>1. "DOCUMENT_END" \notin ItemStates \cup KeyStates \cup ValueStates \cup PairKeyStates
                              \cup PairValueStates
  BY DEF ItemStates, KeyStates, ValueStates, PairKeyStates, PairValueStates
<1> QED BY ZenonT(60), <1>1, PairFrames DEF ItemStates, KeyStates, ValueStates, PairKeyStates, PairValueStates

LEMMA DocumentTurns ==
  ASSUME \/ StreamStart \/ ImplicitDocument \/ ExtraDocumentEnd \/ ExplicitDocument
         \/ StreamEnd \/ VersionDirective \/ TagDirective \/ DocumentStart \/ NoDocumentStart
         \/ DocumentContent \/ DocumentEnd,
         StackOK
  PROVE  Turn
<1>o. /\ \A s \in {"IMPLICIT_DOCUMENT_START", "DOCUMENT_START", "DIRECTIVES"} : s \in Between
      /\ \A s \in Between : s \in Outside
  BY DEF Between, Outside
<1>1. CASE StreamStart
  BY <1>1, <1>o DEF StreamStart, Goes, Turn, Streams
<1>2. CASE ImplicitDocument
  BY <1>2, <1>o DEF ImplicitDocument, Turn, Streams
<1>3. CASE ExtraDocumentEnd
  BY <1>3, <1>o DEF ExtraDocumentEnd, Within, Turn, Rests, StackOK
<1>4. CASE ExplicitDocument
  BY <1>4, <1>o DEF ExplicitDocument, Turn, Rests, StackOK
<1>5. CASE StreamEnd
  BY <1>5, <1>o DEF StreamEnd, Goes, Turn, Streams
<1>6. CASE VersionDirective
  BY <1>6, <1>o DEF VersionDirective, Fail, Turn, Rests, Frees, StackOK
<1>7. CASE TagDirective
  BY <1>7, <1>o DEF TagDirective, Fail, Turn, Rests, Frees, StackOK
<1>8. CASE DocumentStart
  BY <1>8, <1>o DEF DocumentStart, Goes, Turn, Streams
<1>9. CASE NoDocumentStart
  BY <1>9 DEF NoDocumentStart, Fail, Turn, Frees
<1>10. CASE DocumentContent
  BY <1>10 DEF DocumentContent, Returns, Goes, Turn, Completes, Rests
<1>11. CASE DocumentEnd
  BY <1>11, <1>o DEF DocumentEnd, Goes, Turn, Streams
<1> QED BY <1>1, <1>2, <1>3, <1>4, <1>5, <1>6, <1>7, <1>8, <1>9, <1>10, <1>11

LEMMA NodeTurns ==
  ASSUME \/ NodeProperty \/ Alias \/ Scalar \/ (\E kind \in DOMAIN Opening : Collection(kind))
         \/ PropertiesOnly \/ NodeMissing
  PROVE  Turn
<1>1. CASE NodeProperty
  BY <1>1 DEF NodeProperty, Turn, Rests
<1>2. CASE Alias \/ Scalar \/ PropertiesOnly
  BY <1>2 DEF Alias, Scalar, PropertiesOnly, NoContent, Content, Returns, Goes, Turn, Completes
<1>3. ASSUME NEW kind \in DOMAIN Opening, Collection(kind) PROVE Turn
  <2>1. /\ state = "NODE" /\ states' = states
        /\ state' = Opening[kind].to /\ event' = Opening[kind].ev
    BY <1>3 DEF Collection, Content, Goes
  <2>2. \/ /\ Opening[kind].ev = "SEQUENCE-START"
           /\ Opening[kind].to \in {"FLOW_SEQUENCE_FIRST_ENTRY", "BLOCK_SEQUENCE_FIRST_ENTRY",
                                    "INDENTLESS_SEQUENCE_ENTRY"}
        \/ /\ Opening[kind].ev = "MAPPING-START"
           /\ Opening[kind].to \in {"FLOW_MAPPING_FIRST_KEY", "BLOCK_MAPPING_FIRST_KEY"}
    BY DEF Opening
  <2>3. Collects
    BY ZenonT(60), <2>1, <2>2, Sorted DEF Collects
  <2> QED BY <2>3 DEF Turn
<1>4. CASE NodeMissing
  BY <1>4 DEF NodeMissing, Fail, Turn, Frees
<1> QED BY <1>1, <1>2, <1>3, <1>4

(* States with the same frames; and a state with the one that a call within it     *)
(* returns to.                                                                    *)
Alike(x, y) == x \in Framed /\ y \in Framed /\ Lead(y) = Lead(x) /\ Tip(y) = Tip(x)

Returning(x, y) ==
    /\ x \in Framed \ {"DOCUMENT_END"} /\ y \in Framed /\ y \in Pushed
    /\ Lead(x) = Lead(y) /\ Tip(x) = Awaiting(Tip(y)) /\ Tip(y) = TheEvents!Filled(Tip(x))

LEMMA AlikeStates ==
  /\ Alike("BLOCK_SEQUENCE_ENTRY", "BLOCK_SEQUENCE_ENTRY-")
  /\ Alike("INDENTLESS_SEQUENCE_ENTRY", "INDENTLESS_SEQUENCE_ENTRY-")
  /\ Alike("BLOCK_MAPPING_KEY", "BLOCK_MAPPING_KEY?")
  /\ Alike("BLOCK_MAPPING_VALUE", "BLOCK_MAPPING_VALUE:")
  /\ Alike("FLOW_SEQUENCE_ENTRY", "FLOW_SEQUENCE_ENTRY,")
  /\ Alike("FLOW_SEQUENCE_ENTRY_MAPPING_VALUE", "FLOW_SEQUENCE_ENTRY_MAPPING_VALUE:")
  /\ Alike("FLOW_MAPPING_KEY", "FLOW_MAPPING_KEY,")
  /\ Alike("FLOW_MAPPING_KEY{", "FLOW_MAPPING_KEY?")
  /\ Alike("FLOW_MAPPING_KEY,", "FLOW_MAPPING_KEY?")
  /\ Alike("FLOW_MAPPING_VALUE", "FLOW_MAPPING_VALUE:")
  BY ZenonT(60), Sorted DEF Alike

LEMMA ReturningStates ==
  /\ Returning("BLOCK_SEQUENCE_ENTRY-", "BLOCK_SEQUENCE_ENTRY")
  /\ Returning("INDENTLESS_SEQUENCE_ENTRY-", "INDENTLESS_SEQUENCE_ENTRY")
  /\ Returning("BLOCK_MAPPING_KEY?", "BLOCK_MAPPING_VALUE")
  /\ Returning("BLOCK_MAPPING_VALUE:", "BLOCK_MAPPING_KEY")
  /\ Returning("BLOCK_MAPPING_VALUE", "BLOCK_MAPPING_KEY")
  /\ Returning("FLOW_SEQUENCE_ENTRY[", "FLOW_SEQUENCE_ENTRY")
  /\ Returning("FLOW_SEQUENCE_ENTRY,", "FLOW_SEQUENCE_ENTRY")
  /\ Returning("FLOW_SEQUENCE_ENTRY_MAPPING_KEY", "FLOW_SEQUENCE_ENTRY_MAPPING_VALUE")
  /\ Returning("FLOW_SEQUENCE_ENTRY_MAPPING_VALUE:", "FLOW_SEQUENCE_ENTRY_MAPPING_END")
  /\ Returning("FLOW_SEQUENCE_ENTRY_MAPPING_VALUE", "FLOW_SEQUENCE_ENTRY_MAPPING_END")
  /\ Returning("FLOW_MAPPING_KEY{", "FLOW_MAPPING_EMPTY_VALUE")
  /\ Returning("FLOW_MAPPING_KEY,", "FLOW_MAPPING_EMPTY_VALUE")
  /\ Returning("FLOW_MAPPING_KEY?", "FLOW_MAPPING_VALUE")
  /\ Returning("FLOW_MAPPING_VALUE:", "FLOW_MAPPING_KEY")
  /\ Returning("FLOW_MAPPING_VALUE", "FLOW_MAPPING_KEY")
  /\ Returning("FLOW_MAPPING_EMPTY_VALUE", "FLOW_MAPPING_KEY")
<1>1. \A s \in {"BLOCK_SEQUENCE_ENTRY", "INDENTLESS_SEQUENCE_ENTRY", "BLOCK_MAPPING_KEY",
            "BLOCK_MAPPING_VALUE", "FLOW_SEQUENCE_ENTRY", "FLOW_SEQUENCE_ENTRY_MAPPING_VALUE",
            "FLOW_SEQUENCE_ENTRY_MAPPING_END", "FLOW_MAPPING_KEY", "FLOW_MAPPING_VALUE",
            "FLOW_MAPPING_EMPTY_VALUE"} : s \in Pushed
  BY DEF Pushed
<1>2. ASSUME NEW x \in {"BLOCK_SEQUENCE_ENTRY-", "INDENTLESS_SEQUENCE_ENTRY-",
                        "FLOW_SEQUENCE_ENTRY[", "FLOW_SEQUENCE_ENTRY,"},
             NEW y \in {"BLOCK_SEQUENCE_ENTRY", "INDENTLESS_SEQUENCE_ENTRY", "FLOW_SEQUENCE_ENTRY"}
      PROVE  Returning(x, y)
  <2>1. x \in Framed \ {"DOCUMENT_END"} /\ Lead(x) = <<>> /\ Tip(x) = "item"
    BY ZenonT(60), Sorted
  <2>2. y \in Framed /\ y \in Pushed /\ Lead(y) = <<>> /\ Tip(y) = "item"
    BY ZenonT(60), <1>1, Sorted
  <2> QED BY <2>1, <2>2, FilledFrames DEF Returning
<1>3. ASSUME NEW x \in {"BLOCK_MAPPING_KEY?", "FLOW_MAPPING_KEY{", "FLOW_MAPPING_KEY,",
                        "FLOW_MAPPING_KEY?"},
             NEW y \in {"BLOCK_MAPPING_VALUE", "FLOW_MAPPING_VALUE", "FLOW_MAPPING_EMPTY_VALUE"}
      PROVE  Returning(x, y)
  <2>1. x \in Framed \ {"DOCUMENT_END"} /\ Lead(x) = <<>> /\ Tip(x) = "key"
    BY Sorted
  <2>2. y \in Framed /\ y \in Pushed /\ Lead(y) = <<>> /\ Tip(y) = "value"
    BY <1>1, Sorted
  <2> QED BY <2>1, <2>2, FilledFrames DEF Returning
<1>4. ASSUME NEW x \in {"BLOCK_MAPPING_VALUE", "BLOCK_MAPPING_VALUE:", "FLOW_MAPPING_VALUE",
                        "FLOW_MAPPING_VALUE:", "FLOW_MAPPING_EMPTY_VALUE"},
             NEW y \in {"BLOCK_MAPPING_KEY", "FLOW_MAPPING_KEY"}
      PROVE  Returning(x, y)
  <2>1. x \in Framed \ {"DOCUMENT_END"} /\ Lead(x) = <<>> /\ Tip(x) = "value"
    BY Sorted
  <2>2. y \in Framed /\ y \in Pushed /\ Lead(y) = <<>> /\ Tip(y) = "key"
    BY <1>1, Sorted
  <2> QED BY <2>1, <2>2, FilledFrames DEF Returning
<1>5. Returning("FLOW_SEQUENCE_ENTRY_MAPPING_KEY", "FLOW_SEQUENCE_ENTRY_MAPPING_VALUE")
  BY <1>1, Sorted, FilledFrames DEF Returning
<1>6. ASSUME NEW x \in {"FLOW_SEQUENCE_ENTRY_MAPPING_VALUE", "FLOW_SEQUENCE_ENTRY_MAPPING_VALUE:"}
      PROVE  Returning(x, "FLOW_SEQUENCE_ENTRY_MAPPING_END")
  BY <1>1, Sorted, FilledFrames DEF Returning
<1> QED BY <1>2, <1>3, <1>4, <1>5, <1>6

LEMMA CallTurn ==
  ASSUME NEW after, NEW block, NEW indentless, ParseNode(after, block, indentless),
         Returning(state, after)
  PROVE  Turn
<1>1. Enters(after)
  BY DEF ParseNode, Enters, Returning
<1> QED BY <1>1 DEF Turn

LEMMA IndicatorTurn ==
  ASSUME NEW from, NEW on, NEW to, Indicator(from, on, to), Alike(from, to)
  PROVE  Turn
  BY DEF Indicator, Within, Turn, Rests, Alike

LEMMA EmptyTurn ==
  ASSUME NEW to, EmptyScalar(to), Returning(state, to)
  PROVE  Turn
  BY DEF EmptyScalar, Goes, Turn, Fills, Returning

LEMMA FollowsTurn ==
  ASSUME NEW from, NEW enders, NEW block, NEW indentless, NEW after,
         Follows(from, enders, block, indentless, after), Returning(from, after)
  PROVE  Turn
<1>1. CASE ParseNode(after, block, indentless) /\ state = from
  BY <1>1, CallTurn
<1>2. CASE EmptyScalar(after) /\ state = from
  BY <1>2, EmptyTurn
<1> QED BY <1>1, <1>2 DEF Follows

LEMMA NoValueTurn ==
  ASSUME NEW from, NEW after, NoValue(from, after), Returning(from, after)
  PROVE  Turn
  BY EmptyTurn DEF NoValue

Closing(from, ev) ==
    \A s \in from : /\ s \in Framed /\ Lead(s) = <<>>
                    /\ \/ ev = "SEQUENCE-END" /\ Tip(s) = "item"
                       \/ ev = "MAPPING-END" /\ Tip(s) = "key"

LEMMA ClosingStates ==
  /\ Closing({"BLOCK_SEQUENCE_ENTRY"}, "SEQUENCE-END")
  /\ Closing({"BLOCK_MAPPING_KEY"}, "MAPPING-END")
  /\ Closing({"FLOW_SEQUENCE_ENTRY", "FLOW_SEQUENCE_ENTRY[", "FLOW_SEQUENCE_ENTRY,"}, "SEQUENCE-END")
  /\ Closing({"FLOW_MAPPING_KEY", "FLOW_MAPPING_KEY{", "FLOW_MAPPING_KEY,"}, "MAPPING-END")
  BY ZenonT(60), Sorted DEF Closing

LEMMA ClosesTurn ==
  ASSUME NEW from, NEW on, NEW ev, Closes(from, on, ev), Closing(from, ev)
  PROVE  Turn
  BY DEF Closes, Returns, Goes, Turn, Ends, Closing

LEMMA UnexpectedTurn ==
  ASSUME NEW from, NEW expected, Unexpected(from, expected) PROVE Turn
  BY DEF Unexpected, Fail, Turn, Frees

LEMMA BlockTurns ==
  ASSUME Opened \/ BlockSequence \/ IndentlessSequence \/ BlockMappingKey \/ BlockMappingValue
  PROVE  Turn
<1>1. CASE Opened
  BY ZenonT(60), <1>1, Sorted DEF Opened, First, Within, Turn, Rests
<1>2. CASE BlockSequence
  <2>1. CASE Closes({"BLOCK_SEQUENCE_ENTRY"}, "BLOCK-END", "SEQUENCE-END")
    BY <2>1, ClosingStates, ClosesTurn
  <2> QED BY <1>2, <2>1, AlikeStates, ReturningStates, IndicatorTurn, FollowsTurn, UnexpectedTurn
      DEF BlockSequence
<1>3. CASE IndentlessSequence
  <2>1. CASE IndentlessEnd
    BY <2>1, Sorted DEF IndentlessEnd, Returns, Goes, Turn, Ends
  <2> QED BY <1>3, <2>1, AlikeStates, ReturningStates, IndicatorTurn, FollowsTurn
      DEF IndentlessSequence
<1>4. CASE BlockMappingKey
  <2>1. CASE Closes({"BLOCK_MAPPING_KEY"}, "BLOCK-END", "MAPPING-END")
    BY <2>1, ClosingStates, ClosesTurn
  <2> QED BY <1>4, <2>1, AlikeStates, ReturningStates, IndicatorTurn, FollowsTurn, UnexpectedTurn
      DEF BlockMappingKey
<1>5. CASE BlockMappingValue
  BY <1>5, AlikeStates, ReturningStates, IndicatorTurn, FollowsTurn, NoValueTurn
     DEF BlockMappingValue
<1> QED BY <1>1, <1>2, <1>3, <1>4, <1>5

LEMMA FlowTurns ==
  ASSUME FlowSequence \/ FlowPair \/ FlowMappingKey \/ FlowMappingValue
  PROVE  Turn
<1>1. CASE FlowSequence
  <2>1. CASE /\ state \in {"FLOW_SEQUENCE_ENTRY[", "FLOW_SEQUENCE_ENTRY,"}
             /\ Goes("FLOW_SEQUENCE_ENTRY_MAPPING_KEY", "MAPPING-START")
             /\ UNCHANGED <<states, marks, tag_directives>>
    BY <2>1, Sorted DEF Goes, Turn, Pairs
  <2>2. CASE /\ state \in {"FLOW_SEQUENCE_ENTRY[", "FLOW_SEQUENCE_ENTRY,"}
             /\ ParseNode("FLOW_SEQUENCE_ENTRY", FALSE, FALSE)
    BY <2>2, ReturningStates, CallTurn
  <2>3. CASE Closes({"FLOW_SEQUENCE_ENTRY", "FLOW_SEQUENCE_ENTRY[", "FLOW_SEQUENCE_ENTRY,"},
                    "FLOW-SEQUENCE-END", "SEQUENCE-END")
    BY <2>3, ClosingStates, ClosesTurn
  <2> QED BY <1>1, <2>1, <2>2, <2>3, AlikeStates, IndicatorTurn, UnexpectedTurn DEF FlowSequence
<1>2. CASE FlowPair
  <2>1. CASE /\ state = "FLOW_SEQUENCE_ENTRY_MAPPING_KEY"
             /\ ParseNode("FLOW_SEQUENCE_ENTRY_MAPPING_VALUE", FALSE, FALSE)
    BY <2>1, ReturningStates, CallTurn
  <2>2. CASE /\ state = "FLOW_SEQUENCE_ENTRY_MAPPING_KEY"
             /\ Goes("FLOW_SEQUENCE_ENTRY_MAPPING_VALUE", "SCALAR")
             /\ UNCHANGED <<states, marks, tag_directives>>
    BY <2>2, ReturningStates DEF Goes, Turn, Fills, Returning
  <2>3. CASE /\ state = "FLOW_SEQUENCE_ENTRY_MAPPING_END"
             /\ Goes("FLOW_SEQUENCE_ENTRY", "MAPPING-END")
             /\ UNCHANGED <<states, marks, tag_directives>>
    BY <2>3, Sorted DEF Goes, Turn, PairEnds
  <2> QED BY <1>2, <2>1, <2>2, <2>3, AlikeStates, ReturningStates, IndicatorTurn, FollowsTurn,
             NoValueTurn DEF FlowPair
<1>3. CASE FlowMappingKey
  <2>1. ASSUME NEW from \in {"FLOW_MAPPING_KEY{", "FLOW_MAPPING_KEY,"}, state = from,
               ParseNode("FLOW_MAPPING_EMPTY_VALUE", FALSE, FALSE)
        PROVE  Turn
    BY <2>1, ReturningStates, CallTurn
  <2>2. ASSUME NEW from \in {"FLOW_MAPPING_KEY{", "FLOW_MAPPING_KEY,"},
               Indicator(from, "KEY", "FLOW_MAPPING_KEY?")
        PROVE  Turn
    BY <2>2, AlikeStates, IndicatorTurn
  <2>3. CASE Closes({"FLOW_MAPPING_KEY", "FLOW_MAPPING_KEY{", "FLOW_MAPPING_KEY,"},
                    "FLOW-MAPPING-END", "MAPPING-END")
    BY <2>3, ClosingStates, ClosesTurn
  <2> QED BY <1>3, <2>1, <2>2, <2>3, AlikeStates, ReturningStates, IndicatorTurn, FollowsTurn,
             UnexpectedTurn DEF FlowMappingKey
<1>4. CASE FlowMappingValue
  BY <1>4, AlikeStates, ReturningStates, IndicatorTurn, FollowsTurn, NoValueTurn, EmptyTurn
     DEF FlowMappingValue
<1> QED BY <1>1, <1>2, <1>3, <1>4

LEMMA ParseTurn == StackOK /\ Parse => Turn
  BY DocumentTurns, NodeTurns, BlockTurns, FlowTurns DEF Parse

LEMMA NestInit == Init => TheEvents!Init /\ StartInv
<1> SUFFICES ASSUME Init PROVE TheEvents!Init /\ StartInv
  OBVIOUS
<1>1. state = "STREAM_START" /\ event = "none"
  BY DEF Init, ParserInit
<1>2. Nest = <<>>
  BY <1>1 DEF Nest
<1> QED BY <1>1, <1>2 DEF TheEvents!Init, StartInv

LEMMA NestStep ==
  StackOK /\ StackOK' /\ StartInv /\ [Next]_vars => [TheEvents!Step]_(TheEvents!evVars) /\ StartInv'
<1> SUFFICES ASSUME StackOK, StackOK', StartInv, [Next]_vars
             PROVE  (TheEvents!Step \/ (Nest' = Nest /\ event' = event)) /\ StartInv'
  BY DEF TheEvents!evVars
<1>1. CASE Parse
  <2>1. Turn
    BY <1>1, ParseTurn
  <2>2. StartInv'
    <3>1. CASE Frees
      BY <3>1 DEF Frees, StartInv
    <3>2. "STREAM_START" \notin Framed \cup Between \cup {"NODE", "DOCUMENT_CONTENT", "END"}
      BY DEF Framed, Between, ItemStates, KeyStates, ValueStates, PairKeyStates, PairValueStates
    <3>3. CASE Completes \/ Ends
      <4>1. states # <<>>
        <5>1. "DOCUMENT_END" \notin ItemStates \cup KeyStates /\ Lead("DOCUMENT_END") = <<>>
                /\ Tip("DOCUMENT_END") = "done"
          BY PairFrames DEF ItemStates, KeyStates
        <5>2. \A x \in Framed : x \notin Outside \/ x = "DOCUMENT_END"
          BY DEF Framed, Outside, ItemStates, KeyStates, ValueStates, PairKeyStates, PairValueStates
        <5>3. "NODE" \notin Outside /\ "DOCUMENT_CONTENT" \notin Outside
          BY DEF Outside
        <5> QED BY <3>3, <5>1, <5>2, <5>3 DEF Completes, Ends, StackOK
      <4>2. states[Len(states)] \in Framed
        BY <4>1, NestBelow DEF StackOK
      <4> QED BY <3>2, <3>3, <4>2 DEF Completes, Ends, StartInv
    <3>4. CASE Pairs \/ PairEnds
      BY <3>2, <3>4, PairFrames DEF Pairs, PairEnds, StartInv
    <3> QED BY <2>1, <3>1, <3>2, <3>3, <3>4 DEF Turn, Rests, Enters, Fills, Collects, Streams, StartInv
  <2> QED BY <2>1, <2>2, TurnStep
<1>2. CASE UNCHANGED parVars
  BY <1>2, SameNest DEF parVars, StartInv
<1> QED BY <1>1, <1>2 DEF Next, vars

(* WellNestedHolds: whatever the text, the events are those of a well-nested stream:  *)
(* the parser implements YamlEvents.                                              *)
THEOREM WellNestedHolds == Spec => WellNested
  BY NestInit, NestStep, StackHolds, PTL DEF Spec, WellNested, TheEvents!WellNested

-----------------------------------------------------------------------------
(* The scanner in the reader: its state between two steps of the parser.          *)
Unstarted ==
    /\ tokens = <<>> /\ tokens_parsed = 0 /\ token_available = FALSE
    /\ scanner.index = 0 /\ scanner.column = 0 /\ scanner.flow_level = 0
    /\ scanner.late = FALSE /\ scanner.ended = FALSE /\ scanner.by_tok = << >>
    /\ state = "STREAM_START" /\ states = <<>>

(* What holds of the scanner and the queue between two steps.                     *)
ScannerOK ==
    /\ DOMAIN scanner = ScannerFields
    /\ error \in {"none", "scanner", "parser"}
    /\ token_available \in BOOLEAN
    /\ scanner.started => \E s, a : s = Current /\ a = token_available /\ Good(s, a)
    /\ ~scanner.started => Unstarted

LEMMA ScannerOKInit == Init => ScannerOK
<1> SUFFICES ASSUME Init PROVE ScannerOK
  OBVIOUS
<1>1. /\ DOMAIN scanner = ScannerFields /\ ~scanner.started
      /\ scanner.index = 0 /\ scanner.column = 0 /\ scanner.flow_level = 0
      /\ scanner.late = FALSE /\ scanner.ended = FALSE /\ scanner.by_tok = << >>
  BY DEF Init, ScannerInit, ScannerFields
<1>2. /\ tokens = <<>> /\ tokens_parsed = 0 /\ token_available = FALSE /\ error = "none"
      /\ state = "STREAM_START" /\ states = <<>>
  BY DEF Init, QueueInit, ParserInit
<1> QED BY <1>1, <1>2 DEF ScannerOK, Unstarted

LEMMA BecomesKeeps ==
  ASSUME DOMAIN scanner = ScannerFields, NEW s, DOMAIN s = Fields, Becomes(s),
         s.error = "none" => s.parsed = tokens_parsed
  PROVE  /\ DOMAIN scanner' = ScannerFields /\ error' = s.error
         /\ \E t : /\ t = Current'
                   /\ s.error = "none" => Keeps(s, t, {"error"})
                   /\ s.error # "none" => \E c : c = Current /\ Keeps(c, t, {"error"})
<1>1. PICK t : t = Current'
  OBVIOUS
<1>2. /\ DOMAIN t = Fields
      /\ \A f \in ScannerFields : t[f] = scanner'[f]
      /\ t.tokens = tokens' /\ t.parsed = tokens_parsed' /\ t.error = error'
  BY <1>1 DEF Current, Fields, ScannerFields
<1>3. PICK c : c = Current
  OBVIOUS
<1>4. /\ DOMAIN c = Fields
      /\ \A f \in ScannerFields : c[f] = scanner[f]
      /\ c.tokens = tokens /\ c.parsed = tokens_parsed
  BY <1>3, CurrentFields
<1>5. Fields \ {"error"} = ScannerFields \cup {"tokens", "parsed"}
  BY DEF Fields, ScannerFields
<1>6. CASE s.error = "none"
  <2>1. /\ tokens' = s.tokens /\ tokens_parsed' = tokens_parsed /\ error' = s.error
        /\ s.parsed = tokens_parsed
        /\ scanner' = [f \in ScannerFields |-> s[f]]
    BY <1>6 DEF Becomes
  <2>2. \A f \in ScannerFields : t[f] = s[f]
    BY <1>2, <2>1
  <2>3. Keeps(s, t, {"error"})
    BY <1>2, <1>5, <2>1, <2>2 DEF Keeps
  <2> QED BY <1>1, <1>6, <2>1, <2>3
<1>7. CASE s.error # "none"
  <2>1. /\ tokens' = tokens /\ tokens_parsed' = tokens_parsed /\ error' = s.error
        /\ scanner' = scanner
    BY <1>7 DEF Becomes
  <2>2. \A f \in ScannerFields : t[f] = c[f]
    BY <1>2, <1>4, <2>1
  <2>3. Keeps(c, t, {"error"})
    BY <1>2, <1>4, <1>5, <2>1, <2>2 DEF Keeps
  <2> QED BY <1>1, <1>3, <1>7, <2>1, <2>3
<1> QED BY <1>6, <1>7

(* A call of the scanner that comes to s.                                         *)
LEMMA BecomesGood ==
  ASSUME ScannerOK, scanner.started, NEW c, c = Current, NEW s, DOMAIN s = Fields,
         s.error = "none" => s.parsed = tokens_parsed, Becomes(s), NEW a \in BOOLEAN, a = token_available',
         s.error \in {"none", "scanner"},
         Good(c, FALSE), s.error # "none" => a = FALSE,
         s.error = "none" => Good(s, a) /\ Surplus(s) = Surplus(c) /\ s.started = c.started
  PROVE  ScannerOK' /\ scanner'.started /\ \E t : t = Current' /\ Surplus(t) = Surplus(c)
<1>0. DOMAIN scanner = ScannerFields
  BY DEF ScannerOK
<1>1. /\ DOMAIN scanner' = ScannerFields /\ error' = s.error
      /\ \E t : /\ t = Current'
                /\ s.error = "none" => Keeps(s, t, {"error"})
                /\ s.error # "none" => \E d : d = Current /\ Keeps(d, t, {"error"})
  BY <1>0, BecomesKeeps
<1>2. PICK t : /\ t = Current'
               /\ s.error = "none" => Keeps(s, t, {"error"})
               /\ s.error # "none" => Keeps(c, t, {"error"})
  BY <1>1
<1>3. c.started
  BY DEF Current
<1>4. Good(t, a) /\ Surplus(t) = Surplus(c) /\ t.started
  <2>1. CASE s.error = "none"
    BY <1>2, <1>3, <2>1, SameGood
  <2>2. CASE s.error # "none"
    BY <1>2, <1>3, <2>2, SameGood
  <2> QED BY <2>1, <2>2
<1>5. scanner'.started
  BY <1>2, <1>4 DEF Current
<1>6. ScannerOK'
  BY <1>1, <1>2, <1>4, <1>5 DEF ScannerOK
<1> QED BY <1>2, <1>4, <1>5, <1>6

(* The scanner fetches, started or not.                                           *)
LEMMA StartStep ==
  ASSUME ScannerOK, error = "none", ~scanner.started, Becomes(StreamStarted(Current)),
         UNCHANGED <<token_available, parVars>>
  PROVE  ScannerOK' /\ scanner'.started /\ \E t : t = Current' /\ Surplus(t) = -1
<1>0. DOMAIN scanner = ScannerFields /\ Unstarted
  BY DEF ScannerOK
<1>1. PICK c, s : c = Current /\ s = StreamStarted(c)
  OBVIOUS
<1>2. /\ DOMAIN c = Fields /\ c.tokens = <<>> /\ c.parsed = 0 /\ c.index = 0 /\ c.column = 0
      /\ c.flow_level = 0 /\ c.late = FALSE /\ c.ended = FALSE /\ c.error = "none"
  BY <1>0, <1>1 DEF Current, Unstarted, Fields, ScannerFields
<1>3. Good(s, FALSE) /\ Surplus(s) = -1 /\ DOMAIN s = Fields /\ s.parsed = 0 /\ s.started = TRUE
      /\ s.error = "none"
  BY ZenonT(60), <1>1, <1>2, StartGood
<1>4. s.parsed = tokens_parsed /\ Becomes(s)
  BY <1>0, <1>1, <1>3 DEF Unstarted
<1>5. /\ DOMAIN scanner' = ScannerFields /\ error' = s.error
      /\ \E t : t = Current' /\ Keeps(s, t, {"error"})
  BY <1>0, <1>3, <1>4, BecomesKeeps
<1>6. PICK t : t = Current' /\ Keeps(s, t, {"error"})
  BY <1>5
<1>7. Good(t, FALSE) /\ Surplus(t) = -1 /\ t.started
  BY <1>3, <1>6, SameGood
<1>8. scanner'.started /\ token_available' = FALSE
  BY <1>0, <1>6, <1>7 DEF Current, Unstarted
<1>9. ScannerOK'
  BY <1>3, <1>5, <1>6, <1>7, <1>8 DEF ScannerOK
<1> QED BY <1>6, <1>7, <1>8, <1>9

LEMMA CurrentIs ==
  ASSUME ScannerOK, scanner.started, NEW c, c = Current
  PROVE  /\ Good(c, token_available) /\ DOMAIN c = Fields /\ c.parsed = tokens_parsed
         /\ c.tokens = tokens /\ c.error = error /\ c.started = scanner.started
         /\ c.ended = scanner.ended /\ c.index = scanner.index /\ c.by_tok = scanner.by_tok
         /\ c.simple_keys = scanner.simple_keys /\ c.late = scanner.late
         /\ c.levels = scanner.levels /\ c.flow_level = scanner.flow_level
<1>1. Good(c, token_available)
  BY DEF ScannerOK
<1>2. DOMAIN c = Fields
  BY CurrentFields DEF ScannerOK
<1> QED BY <1>1, <1>2 DEF Current

(* The head of the queue is held back, or the queue is short.                     *)
LEMMA FetchQuiet ==
  ASSUME ScannerOK, scanner.started, error = "none", ~token_available, NEW c, c = Current,
         Len(tokens) < 3 \/ (HeadChecked.error = "none" /\ HeadMayBeKey(HeadChecked))
  PROVE  Len(c.tokens) < 3 \/ ((\A j : ~Waits(c, j)) /\ ~c.ended)
<1>1. /\ Good(c, token_available) /\ c.parsed = tokens_parsed /\ c.tokens = tokens
      /\ c.by_tok = scanner.by_tok /\ DOMAIN c = Fields
  BY CurrentIs
<1>0. Good(c, FALSE)
  BY <1>1 DEF Good
<1>2. CASE Len(tokens) < 3
  BY <1>1, <1>2
<1>3. CASE HeadChecked.error = "none" /\ HeadMayBeKey(HeadChecked)
  <2>1. PICK h : h = HeadChecked
    OBVIOUS
  <2>2. h.error = "none" /\ c.parsed \in DOMAIN h.by_tok /\ h.simple_keys[h.by_tok[c.parsed]].possible
    BY <1>1, <1>3, <2>1 DEF HeadMayBeKey
  <2>3. h = IF c.parsed \in DOMAIN c.by_tok THEN Checked(c, c.by_tok[c.parsed]) ELSE c
    BY <1>1, <2>1 DEF HeadChecked
  <2>4. c.parsed \in DOMAIN c.by_tok
    BY <2>2, <2>3
  <2>5. PICK k : k = c.by_tok[c.parsed]
    OBVIOUS
  <2>6. h = Checked(c, k)
    BY <2>3, <2>4, <2>5
  <2>7. Fit(c, NextNumber(c)) /\ k \in 1..Len(c.simple_keys)
    BY <1>0, <2>4, <2>5, HeadLevel DEF Good
  <2>8. h.by_tok = c.by_tok
    BY <2>2, <2>6, <2>7, CheckedFits DEF Keeps, Fields, ScannerFields
  <2>9. h.simple_keys[k].possible
    BY <2>2, <2>5, <2>8
  <2> QED BY <1>0, <2>2, <2>4, <2>5, <2>6, <2>9, HeldQuiet
<1> QED BY <1>2, <1>3

LEMMA LexemeStep ==
  ASSUME ScannerOK, scanner.started, error = "none", ~token_available, NEW c, c = Current,
         Len(c.tokens) < 3 \/ ((\A j : ~Waits(c, j)) /\ ~c.ended),
         ~scanner.ended, scanner.index < Len(Kinds),
         NEW x \in Lexeme(scanner.index + 1),
         NEW t, t = Pass(Fetch(UnrollIndent(Reach(c, x), x.column), x), x), Becomes(t),
         UNCHANGED token_available
  PROVE  ScannerOK' /\ scanner'.started /\ \E d : d = Current' /\ Surplus(d) = Surplus(c)
<1>1. /\ Good(c, token_available) /\ c.parsed = tokens_parsed /\ DOMAIN c = Fields
      /\ c.ended = scanner.ended /\ c.index = scanner.index /\ c.error = "none"
  BY CurrentIs
<1>0. Good(c, FALSE)
  BY <1>1 DEF Good
<1>2. /\ x.kind \in DOMAIN Lexical /\ x.fresh \in BOOLEAN /\ x.column \in Nat
      /\ x.breaks \in {0, 1}
  <2>1. c.index \in Nat
    BY <1>0 DEF Good, Fit, KeysOK
  <2>2. Kinds \in Seq(SUBSET DOMAIN Lexical) /\ MaxColumn \in Nat
    BY ScannerAssumption
  <2>3. PICK i \in Nat : i = scanner.index
    BY <1>1, <2>1
  <2>4. i + 1 \in 1..Len(Kinds) /\ Len(Kinds) \in Nat
    BY <2>2, <2>3
  <2>5. Kinds[i + 1] \subseteq DOMAIN Lexical
    BY <2>2, <2>4
  <2>6. x \in [kind : Kinds[i + 1], fresh : BOOLEAN, column : 0..(MaxColumn + Len(Kinds)),
               breaks : {0, 1}]
    BY <2>3 DEF Lexeme
  <2> QED BY <2>2, <2>4, <2>5, <2>6
<1>3. DOMAIN t = Fields /\ t.error \in {"none", "scanner"}
  <2>1. PICK r, u, f : r = Reach(c, x) /\ u = UnrollIndent(r, x.column) /\ f = Fetch(u, x)
    OBVIOUS
  <2>2. DOMAIN r = Fields /\ r.error = c.error
    BY <1>1, <2>1, ReachSound
  <2>3. Sound(r, u)
    BY <2>1, <2>2, UnrollSound
  <2>4. Sound(u, f)
    BY <2>1, <2>3, FetchSound DEF Sound
  <2>5. DOMAIN t = Fields /\ t.error = f.error
    <3>1. t = Pass(f, x) /\ DOMAIN f = Fields
      BY <2>1, <2>4 DEF Sound
    <3> QED BY <3>1, PassSound
  <2> QED BY <1>1, <2>2, <2>3, <2>4, <2>5 DEF Sound
<1>4. t.error = "none" => Good(t, FALSE) /\ Surplus(t) = Surplus(c) /\ Keeps(c, t, Scanning)
  <2> SUFFICES ASSUME t.error = "none"
               PROVE  Good(t, FALSE) /\ Surplus(t) = Surplus(c) /\ Keeps(c, t, Scanning)
    OBVIOUS
  <2>1. Len(c.tokens) < 3 \/ \A j : ~Waits(c, j)
    OBVIOUS
  <2> QED BY <1>0, <1>1, <1>2, <2>1, LexemeGood
<1>5. t.error = "none" => t.started = c.started
  BY <1>4 DEF Keeps, Scanning, Fields, ScannerFields
<1>6. t.error = "none" => t.parsed = tokens_parsed
  BY <1>1, <1>4 DEF Keeps, Scanning, Fields, ScannerFields
<1>7. FALSE \in BOOLEAN /\ token_available' = FALSE
  BY DEF ScannerOK
<1> QED BY <1>0, <1>3, <1>4, <1>5, <1>6, <1>7, BecomesGood

LEMMA TextEndStep ==
  ASSUME ScannerOK, scanner.started, error = "none", ~token_available, NEW c, c = Current,
         Len(c.tokens) < 3 \/ ((\A j : ~Waits(c, j)) /\ ~c.ended),
         NEW t, t = FetchOutside([ForceNewLine(c) EXCEPT !.ended = TRUE], Token("STREAM-END")),
         Becomes(t), UNCHANGED token_available
  PROVE  ScannerOK' /\ scanner'.started /\ \E d : d = Current' /\ Surplus(d) = Surplus(c)
<1>1. /\ Good(c, token_available) /\ c.parsed = tokens_parsed /\ DOMAIN c = Fields
      /\ c.error = "none"
  BY CurrentIs
<1>0. Good(c, FALSE)
  BY <1>1 DEF Good
<1>3. DOMAIN t = Fields /\ t.error \in {"none", "scanner"}
  <2>1. PICK v, e : v = ForceNewLine(c) /\ e = [v EXCEPT !.ended = TRUE]
    OBVIOUS
  <2>2. v = c \/ \E b : b = Break(c) /\ v = [b EXCEPT !.column = 0]
    BY <2>1 DEF ForceNewLine
  <2>3. DOMAIN v = Fields /\ v.error = c.error
    BY <1>1, <2>2, BreakSound DEF Fields, ScannerFields
  <2>4. DOMAIN e = Fields /\ e.error = v.error
    BY <2>1, <2>3 DEF Fields, ScannerFields
  <2>5. Sound(e, t)
    BY <2>1, <2>4, OutsideSound
  <2> QED BY <1>1, <2>3, <2>4, <2>5 DEF Sound
<1>4. t.error = "none" => Good(t, FALSE) /\ Surplus(t) = Surplus(c) /\ Keeps(c, t, Scanning)
  BY <1>0, EndGood
<1>5. t.error = "none" => t.started = c.started
  BY <1>4 DEF Keeps, Scanning, Fields, ScannerFields
<1>6. t.error = "none" => t.parsed = tokens_parsed
  BY <1>1, <1>4 DEF Keeps, Scanning, Fields, ScannerFields
<1>7. FALSE \in BOOLEAN /\ token_available' = FALSE
  BY DEF ScannerOK
<1> QED BY <1>0, <1>3, <1>4, <1>5, <1>6, <1>7, BecomesGood

LEMMA ReleaseStep ==
  ASSUME ScannerOK, scanner.started, error = "none", ~token_available, NEW c, c = Current,
         ~(Len(tokens) < 3), ~(HeadChecked.error = "none" /\ HeadMayBeKey(HeadChecked)),
         Becomes(HeadChecked), token_available' = (HeadChecked.error = "none")
  PROVE  ScannerOK' /\ scanner'.started /\ \E d : d = Current' /\ Surplus(d) = Surplus(c)
<1>1. /\ Good(c, token_available) /\ c.parsed = tokens_parsed /\ c.tokens = tokens
      /\ c.by_tok = scanner.by_tok /\ DOMAIN c = Fields /\ c.error = "none"
  BY CurrentIs
<1>0. Good(c, FALSE)
  BY <1>1 DEF Good
<1>2. PICK h : h = HeadChecked
  OBVIOUS
<1>3. h = IF c.parsed \in DOMAIN c.by_tok THEN Checked(c, c.by_tok[c.parsed]) ELSE c
  BY <1>1, <1>2 DEF HeadChecked
<1>4. DOMAIN h = Fields /\ h.error \in {"none", "scanner"}
  <2>1. Sound(c, c)
    BY <1>1 DEF Sound
  <2>2. Sound(c, h)
    BY <1>1, <1>3, <2>1, CheckedSound
  <2> QED BY <1>1, <2>2 DEF Sound
<1>5. h.error = "none" => Good(h, TRUE) /\ Surplus(h) = Surplus(c) /\ Keeps(c, h, {"simple_keys"})
  <2> SUFFICES ASSUME h.error = "none"
               PROVE  Good(h, TRUE) /\ Surplus(h) = Surplus(c) /\ Keeps(c, h, {"simple_keys"})
    OBVIOUS
  <2>1. ~(c.parsed \in DOMAIN h.by_tok /\ h.simple_keys[h.by_tok[c.parsed]].possible)
    BY <1>1, <1>2 DEF HeadMayBeKey
  <2>2. c.tokens # <<>>
    BY <1>1
  <2> QED BY <1>0, <1>3, <2>1, <2>2, ReleaseGood
<1>6. h.error = "none" => h.started = c.started /\ h.parsed = tokens_parsed
  BY <1>1, <1>5 DEF Keeps, Fields, ScannerFields
<1>7. PICK a \in BOOLEAN : a = (h.error = "none") /\ a = token_available'
  BY <1>2
<1>8. h.error = "none" => Good(h, a)
  BY <1>5, <1>7
<1>9. h.error # "none" => a = FALSE
  BY <1>7
<1> QED BY <1>0, <1>2, <1>4, <1>5, <1>6, <1>7, <1>8, <1>9, BecomesGood

(* A step of the scanner.                                                         *)
LEMMA ScanStep ==
  ASSUME ScannerOK, Scan, UNCHANGED parVars
  PROVE  /\ ScannerOK'
         /\ scanner.started =>
               scanner'.started /\ \E s, t : s = Current /\ t = Current' /\ Surplus(t) = Surplus(s)
         /\ ~scanner.started => scanner'.started /\ \E t : t = Current' /\ Surplus(t) = -1
<1>1. error = "none" /\ ~token_available
  BY DEF Scan
<1>2. PICK c : c = Current
  OBVIOUS
<1>3. CASE ~scanner.started
  <2>1. Len(tokens) < 3
    BY <1>3 DEF ScannerOK, Unstarted
  <2>2. Becomes(StreamStarted(Current)) /\ UNCHANGED <<token_available, parVars>>
    BY <1>3, <2>1 DEF Scan, FetchNextToken
  <2> QED BY <1>1, <1>3, <2>2, StartStep
<1>4. CASE scanner.started
  <2>1. CASE Len(tokens) < 3 \/ (HeadChecked.error = "none" /\ HeadMayBeKey(HeadChecked))
    <3>1. Len(c.tokens) < 3 \/ ((\A j : ~Waits(c, j)) /\ ~c.ended)
      BY <1>1, <1>2, <1>4, <2>1, FetchQuiet
    <3>2. FetchNextToken /\ UNCHANGED token_available
      BY <2>1 DEF Scan
    <3>3. CASE /\ ~scanner.ended /\ scanner.index < Len(Kinds)
               /\ \E x \in Lexeme(scanner.index + 1) :
                     Becomes(Pass(Fetch(UnrollIndent(Reach(c, x), x.column), x), x))
      <4>1. PICK x \in Lexeme(scanner.index + 1) :
               Becomes(Pass(Fetch(UnrollIndent(Reach(c, x), x.column), x), x))
        BY <3>3
      <4>2. PICK t : t = Pass(Fetch(UnrollIndent(Reach(c, x), x.column), x), x)
        OBVIOUS
      <4>3. Becomes(t)
        BY <4>1, <4>2
      <4>4. ScannerOK' /\ scanner'.started /\ \E d : d = Current' /\ Surplus(d) = Surplus(c)
        BY <1>1, <1>2, <1>4, <3>1, <3>2, <3>3, <4>2, <4>3, LexemeStep
      <4> QED BY <1>2, <1>4, <4>4
    <3>4. CASE Becomes(FetchOutside([ForceNewLine(c) EXCEPT !.ended = TRUE], Token("STREAM-END")))
      <4>1. PICK t : t = FetchOutside([ForceNewLine(c) EXCEPT !.ended = TRUE], Token("STREAM-END"))
        OBVIOUS
      <4>2. Becomes(t)
        BY <3>4, <4>1
      <4>3. ScannerOK' /\ scanner'.started /\ \E d : d = Current' /\ Surplus(d) = Surplus(c)
        BY <1>1, <1>2, <1>4, <3>1, <3>2, <4>1, <4>2, TextEndStep
      <4> QED BY <1>2, <1>4, <4>3
    <3> QED BY <1>2, <1>4, <3>2, <3>3, <3>4 DEF FetchNextToken
  <2>2. CASE ~(Len(tokens) < 3 \/ (HeadChecked.error = "none" /\ HeadMayBeKey(HeadChecked)))
    <3>1. Becomes(HeadChecked) /\ token_available' = (HeadChecked.error = "none")
      BY <2>2 DEF Scan
    <3>2. ScannerOK' /\ scanner'.started /\ \E d : d = Current' /\ Surplus(d) = Surplus(c)
      BY <1>1, <1>2, <1>4, <2>2, <3>1, ReleaseStep
    <3> QED BY <1>2, <1>4, <3>2
  <2> QED BY <2>1, <2>2
<1> QED BY <1>3, <1>4

-----------------------------------------------------------------------------
(* The weight of a token is what it adds to the number of open blocks. A step of  *)
(* the parser is balanced when the blocks it opens and closes are those of the    *)
(* token it takes.                                                                *)
(* What taking a token changes in the blocks that the queue opens.                *)
Weight(token) == One(token, BlockStarts) - One(token, {"BLOCK-END"})

(* The parser goes on with d blocks more.                                         *)
Shifts(d) ==
    \/ /\ states' = states /\ state' \notin DOMAIN Openers
       /\ Own(BlockPoints, state') = Own(BlockPoints, state) + d
    \/ \E after \in Pushed \cup {"DOCUMENT_END"} :
          /\ states' = Append(states, after) /\ state' \notin DOMAIN Openers
          /\ Own(BlockPoints, after) + Own(BlockPoints, state') = Own(BlockPoints, state) + d
    \/ /\ state \notin Outside
       /\ state' = states[Len(states)] /\ states' = SubSeq(states, 1, Len(states) - 1)
       /\ Own(BlockPoints, state) + d = 0

(* The token that opens a collection stays in the queue.                          *)
Announces ==
    /\ states' = states
    /\ Own(BlockPoints, state) = 0 /\ Own(BlockPoints, state') = 0
    /\ state' \in DOMAIN Openers => Head(tokens).typ = Openers[state']

Balanced ==
    /\ token_available /\ error = "none" /\ error' \in {"none", "parser"}
    /\ \/ error' = "parser" /\ Keep /\ state' = state /\ states' = states
       \/ error' = "none" /\ Keep /\ (Shifts(0) \/ Announces)
       \/ error' = "none" /\ Skip /\ \E d : d = Weight(Head(tokens)) /\ Shifts(d)

(* Tokens that open or end no block.                                              *)
Light(types) == types \cap (BlockStarts \cup {"BLOCK-END"}) = {}

LEMMA LightWeight ==
  ASSUME NEW types, Light(types), NEW token, token.typ \in types
  PROVE  Weight(token) = 0
  BY DEF Light, Weight, One

LEMMA Placed ==
  /\ \A x \in {"STREAM_START", "IMPLICIT_DOCUMENT_START", "DOCUMENT_START", "DIRECTIVES",
               "DOCUMENT_CONTENT", "DOCUMENT_END", "NODE", "END",
               "INDENTLESS_SEQUENCE_ENTRY", "INDENTLESS_SEQUENCE_ENTRY-",
               "FLOW_SEQUENCE_ENTRY", "FLOW_SEQUENCE_ENTRY[", "FLOW_SEQUENCE_ENTRY,",
               "FLOW_MAPPING_KEY", "FLOW_MAPPING_KEY{", "FLOW_MAPPING_KEY,", "FLOW_MAPPING_KEY?",
               "FLOW_MAPPING_VALUE", "FLOW_MAPPING_VALUE:", "FLOW_MAPPING_EMPTY_VALUE",
               "FLOW_SEQUENCE_ENTRY_MAPPING_KEY", "FLOW_SEQUENCE_ENTRY_MAPPING_END",
               "FLOW_SEQUENCE_ENTRY_MAPPING_VALUE", "FLOW_SEQUENCE_ENTRY_MAPPING_VALUE:"} :
        Own(BlockPoints, x) = 0 /\ x \notin DOMAIN Openers
  /\ \A x \in {"BLOCK_SEQUENCE_ENTRY", "BLOCK_SEQUENCE_ENTRY-", "BLOCK_MAPPING_KEY",
               "BLOCK_MAPPING_KEY?", "BLOCK_MAPPING_VALUE", "BLOCK_MAPPING_VALUE:"} :
        Own(BlockPoints, x) = 1 /\ x \notin DOMAIN Openers
  /\ \A x \in {"BLOCK_SEQUENCE_FIRST_ENTRY", "BLOCK_MAPPING_FIRST_KEY",
               "FLOW_SEQUENCE_FIRST_ENTRY", "FLOW_MAPPING_FIRST_KEY"} :
        Own(BlockPoints, x) = 0
  BY DEF Own, BlockPoints, Openers

LEMMA LightSkip ==
  ASSUME NEW types, Peek(types), Light(types), Skip, error' = error, Shifts(0)
  PROVE  Balanced
<1>1. Weight(Head(tokens)) = 0 /\ error = "none" /\ token_available
  BY LightWeight DEF Peek
<1> QED BY <1>1 DEF Balanced

LEMMA KeptBalanced ==
  ASSUME NEW types, Peek(types), Keep, error' = error, Shifts(0)
  PROVE  Balanced
  BY DEF Balanced, Peek

LEMMA FailBalanced ==
  ASSUME token_available, error = "none", Fail
  PROVE  Balanced
  BY DEF Balanced, Fail, Keep

LEMMA StateShifts ==
  ASSUME states' = states, state' \notin DOMAIN Openers,
         NEW d \in {0, 1}, d = Own(BlockPoints, state), d = Own(BlockPoints, state')
  PROVE  Shifts(0)
  BY DEF Shifts

LEMMA PushShifts ==
  ASSUME NEW after \in Pushed \cup {"DOCUMENT_END"}, states' = Append(states, after),
         state' \in {"NODE", "DOCUMENT_CONTENT"},
         NEW d \in {0, 1}, d = Own(BlockPoints, state), d = Own(BlockPoints, after)
  PROVE  Shifts(0)
<1>1. Own(BlockPoints, state') = 0 /\ state' \notin DOMAIN Openers
  BY Placed
<1>2. Own(BlockPoints, after) + Own(BlockPoints, state') = Own(BlockPoints, state) + 0
  BY <1>1
<1> QED BY <1>1, <1>2 DEF Shifts

LEMMA PopShifts ==
  ASSUME state \notin Outside, Own(BlockPoints, state) = 0, NEW ev, Returns(ev)
  PROVE  Shifts(0)
  BY DEF Shifts, Returns, Goes

LEMMA DocumentBalanced ==
  ASSUME \/ StreamStart \/ ImplicitDocument \/ ExtraDocumentEnd \/ ExplicitDocument
         \/ StreamEnd \/ VersionDirective \/ TagDirective \/ DocumentStart \/ NoDocumentStart
         \/ DocumentContent \/ DocumentEnd
  PROVE  Balanced
<1>0. /\ Light({"STREAM-START"}) /\ Light({"DOCUMENT-END"}) /\ Light({"STREAM-END"})
      /\ Light({"VERSION-DIRECTIVE"}) /\ Light({"TAG-DIRECTIVE"}) /\ Light({"DOCUMENT-START"})
  BY DEF Light, BlockStarts
<1>a. "DOCUMENT_END" \in Pushed \cup {"DOCUMENT_END"} /\ "DOCUMENT_CONTENT" \notin Outside
  BY DEF Outside
<1>1. CASE StreamStart
  <2>1. Shifts(0)
    BY <1>1, Placed, StateShifts DEF StreamStart, Goes
  <2> QED BY <1>0, <1>1, <2>1, LightSkip DEF StreamStart, Goes
<1>2. CASE ImplicitDocument
  <2>1. Shifts(0)
    BY <1>2, <1>a, Placed, PushShifts DEF ImplicitDocument
  <2> QED BY <1>2, <2>1, KeptBalanced DEF ImplicitDocument
<1>3. CASE ExtraDocumentEnd
  <2>1. Shifts(0)
    BY <1>3, Placed, StateShifts DEF ExtraDocumentEnd, Within
  <2> QED BY <1>0, <1>3, <2>1, LightSkip DEF ExtraDocumentEnd, Within
<1>4. CASE ExplicitDocument
  <2>1. Shifts(0)
    BY <1>4, Placed, StateShifts DEF ExplicitDocument
  <2> QED BY <1>4, <2>1, KeptBalanced DEF ExplicitDocument
<1>5. CASE StreamEnd
  <2>1. Shifts(0)
    BY <1>5, Placed, StateShifts DEF StreamEnd, Goes
  <2> QED BY <1>0, <1>5, <2>1, LightSkip DEF StreamEnd, Goes
<1>6. CASE VersionDirective
  <2>1. CASE Fail
    BY <1>6, <2>1, FailBalanced DEF VersionDirective, Peek
  <2>2. CASE Skip /\ UNCHANGED <<error, state, states>>
    <3>1. Shifts(0)
      BY <1>6, <2>2, Placed, StateShifts DEF VersionDirective
    <3> QED BY <1>0, <1>6, <2>2, <3>1, LightSkip DEF VersionDirective
  <2> QED BY <1>6, <2>1, <2>2 DEF VersionDirective
<1>7. CASE TagDirective
  <2>1. CASE Fail
    BY <1>7, <2>1, FailBalanced DEF TagDirective, Peek
  <2>2. CASE Skip /\ UNCHANGED <<error, state, states>>
    <3>1. Shifts(0)
      BY <1>7, <2>2, Placed, StateShifts DEF TagDirective
    <3> QED BY <1>0, <1>7, <2>2, <3>1, LightSkip DEF TagDirective
  <2> QED BY <1>7, <2>1, <2>2 DEF TagDirective
<1>8. CASE DocumentStart
  <2>1. Shifts(0)
    BY <1>8, <1>a, Placed, PushShifts DEF DocumentStart, Goes
  <2> QED BY <1>0, <1>8, <2>1, LightSkip DEF DocumentStart, Goes
<1>9. CASE NoDocumentStart
  BY <1>9, FailBalanced DEF NoDocumentStart, Peek
<1>10. CASE DocumentContent
  <2>1. CASE Returns("SCALAR")
    <3>1. Shifts(0)
      BY <1>10, <1>a, <2>1, Placed, PopShifts DEF DocumentContent
    <3> QED BY <1>10, <2>1, <3>1, KeptBalanced DEF DocumentContent, Returns, Goes
  <2>2. CASE state' = "NODE" /\ UNCHANGED <<error, states>>
    <3>1. Shifts(0)
      BY <1>10, <2>2, Placed, StateShifts DEF DocumentContent
    <3> QED BY <1>10, <2>2, <3>1, KeptBalanced DEF DocumentContent
  <2> QED BY <1>10, <2>1, <2>2 DEF DocumentContent
<1>11. CASE DocumentEnd
  <2>1. Shifts(0)
    BY <1>11, Placed, StateShifts DEF DocumentEnd, Goes
  <2>2. CASE Peek({"DOCUMENT-END"}) /\ Skip
    BY <1>0, <1>11, <2>1, <2>2, LightSkip DEF DocumentEnd, Goes
  <2>3. CASE Peek(TokenTypes \ {"DOCUMENT-END"}) /\ Keep
    BY <1>11, <2>1, <2>3, KeptBalanced DEF DocumentEnd, Goes
  <2> QED BY <1>11, <2>2, <2>3 DEF DocumentEnd
<1> QED BY <1>1, <1>2, <1>3, <1>4, <1>5, <1>6, <1>7, <1>8, <1>9, <1>10, <1>11

LEMMA NodeBalanced ==
  ASSUME \/ NodeProperty \/ Alias \/ Scalar \/ (\E kind \in DOMAIN Opening : Collection(kind))
         \/ PropertiesOnly \/ NodeMissing
  PROVE  Balanced
<1>0. Light({"ANCHOR"}) /\ Light({"TAG"}) /\ Light({"ALIAS"}) /\ Light({"SCALAR"})
  BY DEF Light, BlockStarts
<1>a. "NODE" \notin Outside /\ Own(BlockPoints, "NODE") = 0
  BY Placed DEF Outside
<1>1. CASE NodeProperty
  <2>1. Shifts(0)
    BY <1>1, Placed, StateShifts DEF NodeProperty
  <2>2. PICK types \in {{"ANCHOR"}, {"TAG"}} : Peek(types)
    BY <1>1 DEF NodeProperty, Property
  <2> QED BY <1>0, <1>1, <2>1, <2>2, LightSkip DEF NodeProperty
<1>2. CASE Alias
  <2>1. Shifts(0)
    BY <1>2, <1>a, PopShifts DEF Alias, Content
  <2> QED BY <1>0, <1>2, <2>1, LightSkip DEF Alias, Content, Returns, Goes
<1>3. CASE Scalar
  <2>1. Shifts(0)
    BY <1>3, <1>a, PopShifts DEF Scalar, Content
  <2> QED BY <1>0, <1>3, <2>1, LightSkip DEF Scalar, Content, Returns, Goes
<1>4. ASSUME NEW kind \in DOMAIN Opening, Collection(kind) PROVE Balanced
  <2>1. /\ state = "NODE" /\ Peek({Opening[kind].on}) /\ Keep /\ error' = error
        /\ state' = Opening[kind].to /\ states' = states
    BY <1>4 DEF Collection, Content, Goes
  <2>2. /\ Own(BlockPoints, Opening[kind].to) = 0
        /\ Opening[kind].to \in DOMAIN Openers => Opening[kind].on = Openers[Opening[kind].to]
    <3>1. \/ kind = "INDENTLESS" /\ Opening[kind].to = "INDENTLESS_SEQUENCE_ENTRY"
          \/ /\ Opening[kind].to = "FLOW_SEQUENCE_FIRST_ENTRY"
             /\ Opening[kind].on = "FLOW-SEQUENCE-START"
          \/ /\ Opening[kind].to = "FLOW_MAPPING_FIRST_KEY"
             /\ Opening[kind].on = "FLOW-MAPPING-START"
          \/ /\ Opening[kind].to = "BLOCK_SEQUENCE_FIRST_ENTRY"
             /\ Opening[kind].on = "BLOCK-SEQUENCE-START"
          \/ /\ Opening[kind].to = "BLOCK_MAPPING_FIRST_KEY"
             /\ Opening[kind].on = "BLOCK-MAPPING-START"
      BY DEF Opening
    <3>2. /\ Openers["FLOW_SEQUENCE_FIRST_ENTRY"] = "FLOW-SEQUENCE-START"
          /\ Openers["FLOW_MAPPING_FIRST_KEY"] = "FLOW-MAPPING-START"
          /\ Openers["BLOCK_SEQUENCE_FIRST_ENTRY"] = "BLOCK-SEQUENCE-START"
          /\ Openers["BLOCK_MAPPING_FIRST_KEY"] = "BLOCK-MAPPING-START"
      BY DEF Openers
    <3> QED BY <3>1, <3>2, Placed
  <2>3. Announces
    BY <1>a, <2>1, <2>2 DEF Announces, Peek
  <2> QED BY <2>1, <2>3 DEF Balanced, Peek
<1>5. CASE PropertiesOnly
  <2>1. Shifts(0)
    BY <1>5, <1>a, PopShifts DEF PropertiesOnly, NoContent, Content
  <2> QED BY <1>5, <2>1, KeptBalanced DEF PropertiesOnly, NoContent, Content, Returns, Goes
<1>6. CASE NodeMissing
  BY <1>6, FailBalanced DEF NodeMissing, NoContent, Content, Peek
<1> QED BY <1>1, <1>2, <1>3, <1>4, <1>5, <1>6

(* States of the same weight.                                                     *)
Even(x, y) ==
    /\ y \notin DOMAIN Openers
    /\ \E d \in {0, 1} : d = Own(BlockPoints, x) /\ d = Own(BlockPoints, y)

LEMMA EvenStates ==
  /\ Even("BLOCK_SEQUENCE_ENTRY", "BLOCK_SEQUENCE_ENTRY-")
  /\ Even("BLOCK_SEQUENCE_ENTRY-", "BLOCK_SEQUENCE_ENTRY")
  /\ Even("INDENTLESS_SEQUENCE_ENTRY", "INDENTLESS_SEQUENCE_ENTRY-")
  /\ Even("INDENTLESS_SEQUENCE_ENTRY-", "INDENTLESS_SEQUENCE_ENTRY")
  /\ Even("BLOCK_MAPPING_KEY", "BLOCK_MAPPING_KEY?")
  /\ Even("BLOCK_MAPPING_KEY?", "BLOCK_MAPPING_VALUE")
  /\ Even("BLOCK_MAPPING_VALUE", "BLOCK_MAPPING_VALUE:")
  /\ Even("BLOCK_MAPPING_VALUE:", "BLOCK_MAPPING_KEY")
  /\ Even("BLOCK_MAPPING_VALUE", "BLOCK_MAPPING_KEY")
  BY Placed DEF Even

LEMMA EvenFlowStates ==
  \A x, y \in {"FLOW_SEQUENCE_ENTRY", "FLOW_SEQUENCE_ENTRY[", "FLOW_SEQUENCE_ENTRY,",
               "FLOW_MAPPING_KEY", "FLOW_MAPPING_KEY{", "FLOW_MAPPING_KEY,", "FLOW_MAPPING_KEY?",
               "FLOW_MAPPING_VALUE", "FLOW_MAPPING_VALUE:", "FLOW_MAPPING_EMPTY_VALUE",
               "FLOW_SEQUENCE_ENTRY_MAPPING_KEY", "FLOW_SEQUENCE_ENTRY_MAPPING_END",
               "FLOW_SEQUENCE_ENTRY_MAPPING_VALUE", "FLOW_SEQUENCE_ENTRY_MAPPING_VALUE:"} :
     Even(x, y)
  BY ZenonT(60), Placed DEF Even

LEMMA IndicatorBalanced ==
  ASSUME NEW from, NEW on, Light({on}), NEW to, Indicator(from, on, to), Even(from, to)
  PROVE  Balanced
<1>1. Shifts(0)
  BY StateShifts DEF Indicator, Within, Even
<1> QED BY <1>1, LightSkip DEF Indicator, Within

LEMMA CallBalanced ==
  ASSUME NEW types, Peek(types), NEW after \in Pushed, NEW block, NEW indentless,
         ParseNode(after, block, indentless), Even(state, after)
  PROVE  Balanced
<1>1. Shifts(0)
  BY PushShifts DEF ParseNode, Even
<1> QED BY <1>1, KeptBalanced DEF ParseNode

LEMMA EmptyBalanced ==
  ASSUME NEW types, Peek(types), NEW to, EmptyScalar(to), Even(state, to)
  PROVE  Balanced
<1>1. Shifts(0)
  BY StateShifts DEF EmptyScalar, Goes, Even
<1> QED BY <1>1, KeptBalanced DEF EmptyScalar, Goes

LEMMA FollowsBalanced ==
  ASSUME NEW from, NEW enders, NEW block, NEW indentless, NEW after \in Pushed,
         Follows(from, enders, block, indentless, after), Even(from, after)
  PROVE  Balanced
<1>1. CASE state = from /\ Peek(TokenTypes \ enders) /\ ParseNode(after, block, indentless)
  BY <1>1, CallBalanced
<1>2. CASE state = from /\ Peek(enders) /\ EmptyScalar(after)
  BY <1>2, EmptyBalanced
<1> QED BY <1>1, <1>2 DEF Follows

LEMMA NoValueBalanced ==
  ASSUME NEW from, NEW after, NoValue(from, after), Even(from, after)
  PROVE  Balanced
  BY EmptyBalanced DEF NoValue

LEMMA UnexpectedBalanced ==
  ASSUME NEW from, NEW expected, Unexpected(from, expected) PROVE Balanced
  BY FailBalanced DEF Unexpected, Peek

(* A block ends with the token that ends it; a flow collection weighs nothing.    *)
LEMMA BlockClosesBalanced ==
  ASSUME NEW from \in {"BLOCK_SEQUENCE_ENTRY", "BLOCK_MAPPING_KEY"}, NEW ev,
         Closes({from}, "BLOCK-END", ev)
  PROVE  Balanced
<1>1. /\ state = from /\ Peek({"BLOCK-END"}) /\ Skip /\ Returns(ev)
  BY DEF Closes
<1>2. PICK h : h = Head(tokens)
  OBVIOUS
<1>3. Weight(h) = -1
  BY <1>1, <1>2 DEF Peek, Weight, One, BlockStarts
<1>4. state \notin Outside /\ Own(BlockPoints, state) = 1
  BY <1>1, Placed DEF Outside
<1>5. Shifts(-1)
  BY <1>1, <1>4 DEF Shifts, Returns, Goes
<1>6. \E d : d = Weight(Head(tokens)) /\ Shifts(d)
  BY <1>2, <1>3, <1>5
<1> QED BY <1>1, <1>6 DEF Balanced, Peek, Returns, Goes

LEMMA FlowClosesBalanced ==
  ASSUME NEW from, NEW on, Light({on}), NEW ev, Closes(from, on, ev),
         \A x \in from : x \notin Outside /\ Own(BlockPoints, x) = 0
  PROVE  Balanced
<1>1. Shifts(0)
  BY PopShifts DEF Closes
<1> QED BY <1>1, LightSkip DEF Closes, Returns, Goes

(* The first entry takes the token that opened the collection.                    *)
LEMMA FirstBalanced ==
  ASSUME OpenerAtHand, NEW from \in DOMAIN Openers, NEW to, First(from, to),
         to \notin DOMAIN Openers,
         NEW d, d = Own(BlockPoints, to),
         \A token : token.typ = Openers[from] => Weight(token) = d
  PROVE  Balanced
<1>1. /\ state = from /\ Skip /\ state' = to /\ states' = states /\ error' = error
      /\ token_available /\ error = "none"
  BY DEF First, Within
<1>2. PICK h : h = Head(tokens)
  OBVIOUS
<1>3. Weight(h) = d
  BY <1>1, <1>2 DEF OpenerAtHand
<1>4. Own(BlockPoints, state) = 0 /\ d \in {0, 1}
  BY <1>1, Placed DEF Own, Openers
<1>5. Shifts(d)
  BY <1>1, <1>4 DEF Shifts
<1>6. \E e : e = Weight(Head(tokens)) /\ Shifts(e)
  BY <1>2, <1>3, <1>5
<1> QED BY <1>1, <1>6 DEF Balanced

LEMMA OpenedBalanced ==
  ASSUME OpenerAtHand, Opened PROVE Balanced
<1>0. DOMAIN Openers = {"BLOCK_SEQUENCE_FIRST_ENTRY", "BLOCK_MAPPING_FIRST_KEY",
                        "FLOW_SEQUENCE_FIRST_ENTRY", "FLOW_MAPPING_FIRST_KEY"}
  BY DEF Openers
<1>1. /\ Openers["FLOW_SEQUENCE_FIRST_ENTRY"] = "FLOW-SEQUENCE-START"
      /\ Openers["FLOW_MAPPING_FIRST_KEY"] = "FLOW-MAPPING-START"
      /\ Openers["BLOCK_SEQUENCE_FIRST_ENTRY"] = "BLOCK-SEQUENCE-START"
      /\ Openers["BLOCK_MAPPING_FIRST_KEY"] = "BLOCK-MAPPING-START"
  BY DEF Openers
<1>2. /\ \A token : token.typ \in BlockStarts => Weight(token) = 1
      /\ \A token : token.typ \in {"FLOW-SEQUENCE-START", "FLOW-MAPPING-START"} => Weight(token) = 0
  BY DEF Weight, One, BlockStarts
<1>3. /\ \A token : token.typ = "BLOCK-SEQUENCE-START" => Weight(token) = 1
      /\ \A token : token.typ = "BLOCK-MAPPING-START" => Weight(token) = 1
      /\ \A token : token.typ = "FLOW-SEQUENCE-START" => Weight(token) = 0
      /\ \A token : token.typ = "FLOW-MAPPING-START" => Weight(token) = 0
  BY <1>2 DEF BlockStarts
<1>4. ASSUME First("BLOCK_SEQUENCE_FIRST_ENTRY", "BLOCK_SEQUENCE_ENTRY") PROVE Balanced
  <2>1. "BLOCK_SEQUENCE_FIRST_ENTRY" \in DOMAIN Openers
    BY <1>0
  <2>2. "BLOCK_SEQUENCE_ENTRY" \notin DOMAIN Openers /\ Own(BlockPoints, "BLOCK_SEQUENCE_ENTRY") = 1
    BY Placed
  <2>3. PICK d : d = Own(BlockPoints, "BLOCK_SEQUENCE_ENTRY")
    OBVIOUS
  <2>4. \A token : token.typ = Openers["BLOCK_SEQUENCE_FIRST_ENTRY"] => Weight(token) = d
    BY <1>1, <1>3, <2>2, <2>3
  <2> QED BY <1>4, <2>1, <2>2, <2>3, <2>4, FirstBalanced
<1>5. ASSUME First("BLOCK_MAPPING_FIRST_KEY", "BLOCK_MAPPING_KEY") PROVE Balanced
  <2>1. "BLOCK_MAPPING_FIRST_KEY" \in DOMAIN Openers
    BY <1>0
  <2>2. "BLOCK_MAPPING_KEY" \notin DOMAIN Openers /\ Own(BlockPoints, "BLOCK_MAPPING_KEY") = 1
    BY Placed
  <2>3. PICK d : d = Own(BlockPoints, "BLOCK_MAPPING_KEY")
    OBVIOUS
  <2>4. \A token : token.typ = Openers["BLOCK_MAPPING_FIRST_KEY"] => Weight(token) = d
    BY <1>1, <1>3, <2>2, <2>3
  <2> QED BY <1>5, <2>1, <2>2, <2>3, <2>4, FirstBalanced
<1>6. ASSUME First("FLOW_SEQUENCE_FIRST_ENTRY", "FLOW_SEQUENCE_ENTRY[") PROVE Balanced
  <2>1. "FLOW_SEQUENCE_FIRST_ENTRY" \in DOMAIN Openers
    BY <1>0
  <2>2. "FLOW_SEQUENCE_ENTRY[" \notin DOMAIN Openers /\ Own(BlockPoints, "FLOW_SEQUENCE_ENTRY[") = 0
    BY Placed
  <2>3. PICK d : d = Own(BlockPoints, "FLOW_SEQUENCE_ENTRY[")
    OBVIOUS
  <2>4. \A token : token.typ = Openers["FLOW_SEQUENCE_FIRST_ENTRY"] => Weight(token) = d
    BY <1>1, <1>3, <2>2, <2>3
  <2> QED BY <1>6, <2>1, <2>2, <2>3, <2>4, FirstBalanced
<1>7. ASSUME First("FLOW_MAPPING_FIRST_KEY", "FLOW_MAPPING_KEY{") PROVE Balanced
  <2>1. PICK from, to : from = "FLOW_MAPPING_FIRST_KEY" /\ to = "FLOW_MAPPING_KEY{"
    OBVIOUS
  <2>2. from \in DOMAIN Openers /\ Openers[from] = "FLOW-MAPPING-START" /\ First(from, to)
    BY <1>0, <1>1, <1>7, <2>1
  <2>3. to \notin DOMAIN Openers /\ Own(BlockPoints, to) = 0
    BY <2>1, Placed
  <2>4. PICK d : d = Own(BlockPoints, to)
    OBVIOUS
  <2>5. \A token : token.typ = Openers[from] => Weight(token) = d
    BY <1>3, <2>2, <2>3, <2>4
  <2> QED BY <2>2, <2>3, <2>4, <2>5, FirstBalanced
<1> QED BY <1>4, <1>5, <1>6, <1>7 DEF Opened

LEMMA LightTokens ==
  /\ Light({"BLOCK-ENTRY"}) /\ Light({"KEY"}) /\ Light({"VALUE"}) /\ Light({"FLOW-ENTRY"})
  /\ Light({"FLOW-SEQUENCE-END"}) /\ Light({"FLOW-MAPPING-END"})
  BY DEF Light, BlockStarts

LEMMA PushedPoints ==
  /\ "BLOCK_SEQUENCE_ENTRY" \in Pushed /\ "INDENTLESS_SEQUENCE_ENTRY" \in Pushed
  /\ "BLOCK_MAPPING_KEY" \in Pushed /\ "BLOCK_MAPPING_VALUE" \in Pushed
  /\ "FLOW_SEQUENCE_ENTRY" \in Pushed /\ "FLOW_SEQUENCE_ENTRY_MAPPING_VALUE" \in Pushed
  /\ "FLOW_SEQUENCE_ENTRY_MAPPING_END" \in Pushed /\ "FLOW_MAPPING_KEY" \in Pushed
  /\ "FLOW_MAPPING_VALUE" \in Pushed /\ "FLOW_MAPPING_EMPTY_VALUE" \in Pushed
  BY DEF Pushed

LEMMA BlockBalanced ==
  ASSUME BlockSequence \/ IndentlessSequence \/ BlockMappingKey \/ BlockMappingValue
  PROVE  Balanced
<1>1. CASE BlockSequence
  <2>1. ASSUME Indicator("BLOCK_SEQUENCE_ENTRY", "BLOCK-ENTRY", "BLOCK_SEQUENCE_ENTRY-")
        PROVE  Balanced
    BY <2>1, LightTokens, EvenStates, IndicatorBalanced
  <2>2. ASSUME Follows("BLOCK_SEQUENCE_ENTRY-", {"BLOCK-ENTRY", "BLOCK-END"}, TRUE, FALSE,
                       "BLOCK_SEQUENCE_ENTRY")
        PROVE  Balanced
    BY <2>2, PushedPoints, EvenStates, FollowsBalanced
  <2>3. ASSUME Closes({"BLOCK_SEQUENCE_ENTRY"}, "BLOCK-END", "SEQUENCE-END") PROVE Balanced
    BY <2>3, BlockClosesBalanced
  <2> QED BY <1>1, <2>1, <2>2, <2>3, UnexpectedBalanced DEF BlockSequence
<1>2. CASE IndentlessSequence
  <2>1. ASSUME Indicator("INDENTLESS_SEQUENCE_ENTRY", "BLOCK-ENTRY", "INDENTLESS_SEQUENCE_ENTRY-")
        PROVE  Balanced
    BY <2>1, LightTokens, EvenStates, IndicatorBalanced
  <2>2. ASSUME Follows("INDENTLESS_SEQUENCE_ENTRY-", PairEnders \cup {"BLOCK-ENTRY"}, TRUE, FALSE,
                       "INDENTLESS_SEQUENCE_ENTRY")
        PROVE  Balanced
    BY <2>2, PushedPoints, EvenStates, FollowsBalanced
  <2>3. CASE IndentlessEnd
    <3>1. state \notin Outside /\ Own(BlockPoints, state) = 0
      BY <2>3, Placed DEF IndentlessEnd, Outside
    <3>2. Shifts(0)
      BY <2>3, <3>1, PopShifts DEF IndentlessEnd
    <3> QED BY <2>3, <3>2, KeptBalanced DEF IndentlessEnd, Returns, Goes
  <2> QED BY <1>2, <2>1, <2>2, <2>3 DEF IndentlessSequence
<1>3. CASE BlockMappingKey
  <2>1. ASSUME Indicator("BLOCK_MAPPING_KEY", "KEY", "BLOCK_MAPPING_KEY?") PROVE Balanced
    BY <2>1, LightTokens, EvenStates, IndicatorBalanced
  <2>2. ASSUME Follows("BLOCK_MAPPING_KEY?", PairEnders, TRUE, TRUE, "BLOCK_MAPPING_VALUE")
        PROVE  Balanced
    BY <2>2, PushedPoints, EvenStates, FollowsBalanced
  <2>3. ASSUME Closes({"BLOCK_MAPPING_KEY"}, "BLOCK-END", "MAPPING-END") PROVE Balanced
    BY <2>3, BlockClosesBalanced
  <2> QED BY <1>3, <2>1, <2>2, <2>3, UnexpectedBalanced DEF BlockMappingKey
<1>4. CASE BlockMappingValue
  <2>1. ASSUME Indicator("BLOCK_MAPPING_VALUE", "VALUE", "BLOCK_MAPPING_VALUE:") PROVE Balanced
    BY <2>1, LightTokens, EvenStates, IndicatorBalanced
  <2>2. ASSUME Follows("BLOCK_MAPPING_VALUE:", PairEnders, TRUE, TRUE, "BLOCK_MAPPING_KEY")
        PROVE  Balanced
    BY <2>2, PushedPoints, EvenStates, FollowsBalanced
  <2>3. ASSUME NoValue("BLOCK_MAPPING_VALUE", "BLOCK_MAPPING_KEY") PROVE Balanced
    BY <2>3, EvenStates, NoValueBalanced
  <2> QED BY <1>4, <2>1, <2>2, <2>3 DEF BlockMappingValue
<1> QED BY <1>1, <1>2, <1>3, <1>4

LEMMA FlowBalanced ==
  ASSUME FlowSequence \/ FlowPair \/ FlowMappingKey \/ FlowMappingValue
  PROVE  Balanced
<1>a. \A x \in {"FLOW_SEQUENCE_ENTRY", "FLOW_SEQUENCE_ENTRY[", "FLOW_SEQUENCE_ENTRY,",
                "FLOW_MAPPING_KEY", "FLOW_MAPPING_KEY{", "FLOW_MAPPING_KEY,"} :
         x \notin Outside /\ Own(BlockPoints, x) = 0
  BY Placed DEF Outside
<1>1. CASE FlowSequence
  <2>1. ASSUME Indicator("FLOW_SEQUENCE_ENTRY", "FLOW-ENTRY", "FLOW_SEQUENCE_ENTRY,")
        PROVE  Balanced
    BY <2>1, LightTokens, EvenFlowStates, IndicatorBalanced
  <2>2. ASSUME Closes({"FLOW_SEQUENCE_ENTRY", "FLOW_SEQUENCE_ENTRY[", "FLOW_SEQUENCE_ENTRY,"},
                      "FLOW-SEQUENCE-END", "SEQUENCE-END")
        PROVE  Balanced
    <3>1. PICK from : from = {"FLOW_SEQUENCE_ENTRY", "FLOW_SEQUENCE_ENTRY[", "FLOW_SEQUENCE_ENTRY,"}
      OBVIOUS
    <3>2. \A x \in from : x \notin Outside /\ Own(BlockPoints, x) = 0
      BY <1>a, <3>1
    <3>3. Closes(from, "FLOW-SEQUENCE-END", "SEQUENCE-END")
      BY <2>2, <3>1
    <3> QED BY <3>2, <3>3, LightTokens, FlowClosesBalanced
  <2>3. CASE /\ state \in {"FLOW_SEQUENCE_ENTRY[", "FLOW_SEQUENCE_ENTRY,"} /\ Peek({"KEY"})
             /\ Skip /\ Goes("FLOW_SEQUENCE_ENTRY_MAPPING_KEY", "MAPPING-START")
             /\ UNCHANGED states
    <3>1. Shifts(0)
      BY <2>3, Placed, StateShifts DEF Goes
    <3> QED BY <2>3, <3>1, LightTokens, LightSkip DEF Goes
  <2>4. CASE /\ state \in {"FLOW_SEQUENCE_ENTRY[", "FLOW_SEQUENCE_ENTRY,"}
             /\ Peek(TokenTypes \ {"KEY", "FLOW-SEQUENCE-END"})
             /\ ParseNode("FLOW_SEQUENCE_ENTRY", FALSE, FALSE)
    <3>1. Even(state, "FLOW_SEQUENCE_ENTRY")
      BY <2>4, EvenFlowStates
    <3> QED BY <2>4, <3>1, PushedPoints, CallBalanced
  <2> QED BY <1>1, <2>1, <2>2, <2>3, <2>4, UnexpectedBalanced DEF FlowSequence
<1>2. CASE FlowPair
  <2>1. CASE /\ state = "FLOW_SEQUENCE_ENTRY_MAPPING_KEY" /\ Peek(TokenTypes \ PairKeyEnders)
             /\ ParseNode("FLOW_SEQUENCE_ENTRY_MAPPING_VALUE", FALSE, FALSE)
    <3>1. Even(state, "FLOW_SEQUENCE_ENTRY_MAPPING_VALUE")
      BY <2>1, EvenFlowStates
    <3> QED BY <2>1, <3>1, PushedPoints, CallBalanced
  <2>2. CASE /\ state = "FLOW_SEQUENCE_ENTRY_MAPPING_KEY" /\ Peek(PairKeyEnders) /\ Skip
             /\ Goes("FLOW_SEQUENCE_ENTRY_MAPPING_VALUE", "SCALAR") /\ UNCHANGED states
    <3>1. Shifts(0)
      BY <2>2, Placed, StateShifts DEF Goes
    <3>2. Light(PairKeyEnders)
      BY DEF Light, PairKeyEnders, BlockStarts
    <3> QED BY <2>2, <3>1, <3>2, LightSkip DEF Goes
  <2>3. ASSUME Indicator("FLOW_SEQUENCE_ENTRY_MAPPING_VALUE", "VALUE",
                         "FLOW_SEQUENCE_ENTRY_MAPPING_VALUE:")
        PROVE  Balanced
    BY <2>3, LightTokens, EvenFlowStates, IndicatorBalanced
  <2>4. ASSUME Follows("FLOW_SEQUENCE_ENTRY_MAPPING_VALUE:", {"FLOW-ENTRY", "FLOW-SEQUENCE-END"},
                       FALSE, FALSE, "FLOW_SEQUENCE_ENTRY_MAPPING_END")
        PROVE  Balanced
    BY <2>4, PushedPoints, EvenFlowStates, FollowsBalanced
  <2>5. ASSUME NoValue("FLOW_SEQUENCE_ENTRY_MAPPING_VALUE", "FLOW_SEQUENCE_ENTRY_MAPPING_END")
        PROVE  Balanced
    BY <2>5, EvenFlowStates, NoValueBalanced
  <2>6. CASE /\ state = "FLOW_SEQUENCE_ENTRY_MAPPING_END" /\ Peek(TokenTypes) /\ Keep
             /\ Goes("FLOW_SEQUENCE_ENTRY", "MAPPING-END") /\ UNCHANGED states
    <3>1. Shifts(0)
      BY <2>6, Placed, StateShifts DEF Goes
    <3> QED BY <2>6, <3>1, KeptBalanced DEF Goes
  <2> QED BY <1>2, <2>1, <2>2, <2>3, <2>4, <2>5, <2>6 DEF FlowPair
<1>3. CASE FlowMappingKey
  <2>1. ASSUME Indicator("FLOW_MAPPING_KEY", "FLOW-ENTRY", "FLOW_MAPPING_KEY,") PROVE Balanced
    BY <2>1, LightTokens, EvenFlowStates, IndicatorBalanced
  <2>2. ASSUME Closes({"FLOW_MAPPING_KEY", "FLOW_MAPPING_KEY{", "FLOW_MAPPING_KEY,"},
                      "FLOW-MAPPING-END", "MAPPING-END")
        PROVE  Balanced
    <3>1. PICK from : from = {"FLOW_MAPPING_KEY", "FLOW_MAPPING_KEY{", "FLOW_MAPPING_KEY,"}
      OBVIOUS
    <3>2. \A x \in from : x \notin Outside /\ Own(BlockPoints, x) = 0
      BY <1>a, <3>1
    <3>3. Closes(from, "FLOW-MAPPING-END", "MAPPING-END")
      BY <2>2, <3>1
    <3> QED BY <3>2, <3>3, LightTokens, FlowClosesBalanced
  <2>3. ASSUME NEW from \in {"FLOW_MAPPING_KEY{", "FLOW_MAPPING_KEY,"},
               Indicator(from, "KEY", "FLOW_MAPPING_KEY?")
        PROVE  Balanced
    BY <2>3, LightTokens, EvenFlowStates, IndicatorBalanced
  <2>4. ASSUME NEW from \in {"FLOW_MAPPING_KEY{", "FLOW_MAPPING_KEY,"}, state = from,
               Peek(TokenTypes \ {"KEY", "FLOW-MAPPING-END"}),
               ParseNode("FLOW_MAPPING_EMPTY_VALUE", FALSE, FALSE)
        PROVE  Balanced
    <3>1. Even(state, "FLOW_MAPPING_EMPTY_VALUE")
      BY <2>4, EvenFlowStates
    <3> QED BY <2>4, <3>1, PushedPoints, CallBalanced
  <2>5. ASSUME Follows("FLOW_MAPPING_KEY?", {"VALUE", "FLOW-ENTRY", "FLOW-MAPPING-END"},
                       FALSE, FALSE, "FLOW_MAPPING_VALUE")
        PROVE  Balanced
    BY <2>5, PushedPoints, EvenFlowStates, FollowsBalanced
  <2> QED BY <1>3, <2>1, <2>2, <2>3, <2>4, <2>5, UnexpectedBalanced DEF FlowMappingKey
<1>4. CASE FlowMappingValue
  <2>1. ASSUME Indicator("FLOW_MAPPING_VALUE", "VALUE", "FLOW_MAPPING_VALUE:") PROVE Balanced
    BY <2>1, LightTokens, EvenFlowStates, IndicatorBalanced
  <2>2. ASSUME Follows("FLOW_MAPPING_VALUE:", {"FLOW-ENTRY", "FLOW-MAPPING-END"}, FALSE, FALSE,
                       "FLOW_MAPPING_KEY")
        PROVE  Balanced
    BY <2>2, PushedPoints, EvenFlowStates, FollowsBalanced
  <2>3. ASSUME NoValue("FLOW_MAPPING_VALUE", "FLOW_MAPPING_KEY") PROVE Balanced
    BY <2>3, EvenFlowStates, NoValueBalanced
  <2>4. CASE /\ state = "FLOW_MAPPING_EMPTY_VALUE" /\ Peek(TokenTypes)
             /\ EmptyScalar("FLOW_MAPPING_KEY")
    <3>1. Even(state, "FLOW_MAPPING_KEY")
      BY <2>4, EvenFlowStates
    <3> QED BY <2>4, <3>1, EmptyBalanced
  <2> QED BY <1>4, <2>1, <2>2, <2>3, <2>4 DEF FlowMappingValue
<1> QED BY <1>1, <1>2, <1>3, <1>4

LEMMA ParseBalanced == OpenerAtHand /\ Parse => Balanced
  BY DocumentBalanced, NodeBalanced, OpenedBalanced, BlockBalanced, FlowBalanced DEF Parse

-----------------------------------------------------------------------------
(* The scanner and the parser together.                                           *)
(* The blocks the parser is in, with those that wait in the queue, are the indents. *)
BalanceOK ==
    error = "none" /\ scanner.started =>
       \E s : /\ s = Current
              /\ Cardinality(Below(BlockPoints, states)) + Own(BlockPoints, state) + Surplus(s) = -1

LEMMA SurplusInt ==
  ASSUME NEW s, NEW a, Good(s, a)
  PROVE  Surplus(s) \in Int
<1>1. /\ s.tokens \in Seq(Tok) /\ s.levels \in Seq(Int)
  BY DEF Good, Fit, Typed, Grown
<1>2. PICK l : l = s.levels
  OBVIOUS
<1>3. Len(l) \in Nat
  BY <1>1, <1>2
<1>4. Cnt(s.tokens, BlockStarts) \in Nat /\ Cnt(s.tokens, {"BLOCK-END"}) \in Nat
  BY <1>1, CntType
<1> QED BY <1>2, <1>3, <1>4 DEF Surplus

LEMMA OwnInt == \A P, x : Own(P, x) \in {0, 1}
  BY DEF Own

LEMMA WeightInt == \A x : Weight(x) \in Int
  BY DEF Weight, One

(* What shifts by d adds d to the blocks the parser is in.                        *)
LEMMA ShiftsAdd ==
  ASSUME StackOK, NEW d \in Int, Shifts(d)
  PROVE  /\ Cardinality(Below(BlockPoints, states')) + Own(BlockPoints, state')
               = Cardinality(Below(BlockPoints, states)) + Own(BlockPoints, state) + d
         /\ Cardinality(Below(BlockPoints, states)) \in Nat
         /\ state' \notin DOMAIN Openers
<1>1. states \in Seq(Pushed \cup {"DOCUMENT_END"}) /\ (states = <<>> <=> state \in Outside)
  BY DEF StackOK
<1>2. PICK n : n = Cardinality(Below(BlockPoints, states)) /\ n \in Nat
  BY <1>1, BelowFinite
<1>3. PICK o, p \in {0, 1} : o = Own(BlockPoints, state) /\ p = Own(BlockPoints, state')
  BY OwnInt
<1>4. CASE states' = states /\ state' \notin DOMAIN Openers
             /\ Own(BlockPoints, state') = Own(BlockPoints, state) + d
  <2>1. p = o + d
    BY <1>3, <1>4
  <2>2. Cardinality(Below(BlockPoints, states')) = n
    BY <1>2, <1>4
  <2> QED BY <1>2, <1>3, <1>4, <2>1, <2>2
<1>5. ASSUME NEW after \in Pushed \cup {"DOCUMENT_END"},
             states' = Append(states, after), state' \notin DOMAIN Openers,
             Own(BlockPoints, after) + Own(BlockPoints, state') = Own(BlockPoints, state) + d
      PROVE  Cardinality(Below(BlockPoints, states')) + p = n + o + d
  <2>1. Cardinality(Below(BlockPoints, states')) = n + Own(BlockPoints, after)
    BY <1>1, <1>2, <1>5, BelowAppended
  <2>2. PICK q \in {0, 1} : q = Own(BlockPoints, after)
    BY OwnInt
  <2>3. q + p = o + d
    BY <1>3, <1>5, <2>2
  <2> QED BY <1>2, <2>1, <2>2, <2>3
<1>6. CASE /\ state \notin Outside /\ state' = states[Len(states)]
           /\ states' = SubSeq(states, 1, Len(states) - 1) /\ Own(BlockPoints, state) + d = 0
  <2>1. states # <<>>
    BY <1>1, <1>6
  <2>2. n = Cardinality(Below(BlockPoints, states')) + p
    BY <1>1, <1>2, <1>3, <1>6, <2>1, BelowPopped
  <2>3. o + d = 0
    BY <1>3, <1>6
  <2>4. Cardinality(Below(BlockPoints, states')) + p = n + o + d
    BY <1>2, <2>2, <2>3
  <2>5. state' \in Pushed \cup {"DOCUMENT_END"}
    BY <1>1, <1>6, <2>1, Popped
  <2>6. state' \notin DOMAIN Openers
    BY <2>5 DEF Pushed, Openers
  <2> QED BY <1>2, <1>3, <2>4, <2>6
<1> QED BY <1>2, <1>3, <1>4, <1>5, <1>6 DEF Shifts

(* What the scanner sees when a step of the parser leaves its own fields alone.    *)
LEMMA ParserKeeps ==
  ASSUME DOMAIN scanner = ScannerFields, UNCHANGED scanner, NEW c, c = Current, NEW t, t = Current'
  PROVE  /\ Keeps(c, t, {"tokens", "parsed", "error"})
         /\ c.tokens = tokens /\ c.parsed = tokens_parsed /\ c.error = error
         /\ t.tokens = tokens' /\ t.parsed = tokens_parsed' /\ t.error = error'
<1>1. /\ DOMAIN t = Fields
      /\ \A f \in ScannerFields : t[f] = scanner'[f]
      /\ t.tokens = tokens' /\ t.parsed = tokens_parsed' /\ t.error = error'
  BY DEF Current, Fields, ScannerFields
<1>2. /\ DOMAIN c = Fields
      /\ \A f \in ScannerFields : c[f] = scanner[f]
      /\ c.tokens = tokens /\ c.parsed = tokens_parsed /\ c.error = error
  BY DEF Current, Fields, ScannerFields
<1>3. Fields \ {"tokens", "parsed", "error"} = ScannerFields
  BY DEF Fields, ScannerFields
<1>4. \A f \in ScannerFields : t[f] = c[f]
  BY <1>1, <1>2
<1> QED BY <1>1, <1>2, <1>3, <1>4 DEF Keeps

(* A step of the parser that takes nothing.                                       *)
LEMMA KeepStep ==
  ASSUME ScannerOK, scanner.started, Keep, UNCHANGED scanner, error' \in {"none", "parser"}
  PROVE  /\ ScannerOK' /\ scanner'.started
         /\ \E s, t : s = Current /\ t = Current' /\ Surplus(t) = Surplus(s) /\ Surplus(s) \in Int
<1>1. PICK c, t : c = Current /\ t = Current'
  OBVIOUS
<1>2. /\ DOMAIN scanner = ScannerFields /\ Good(c, token_available) /\ DOMAIN c = Fields
      /\ c.started
  BY <1>1, CurrentIs DEF ScannerOK
<1>3. Keeps(c, t, {"error"})
  <2>1. tokens' = tokens /\ tokens_parsed' = tokens_parsed
    BY DEF Keep, queue
  <2>2. /\ Keeps(c, t, {"tokens", "parsed", "error"})
        /\ t.tokens = c.tokens /\ t.parsed = c.parsed
    BY <1>1, <1>2, <2>1, ParserKeeps
  <2> QED BY <2>2 DEF Keeps
<1>4. Good(t, token_available) /\ Surplus(t) = Surplus(c)
  BY <1>2, <1>3, SameGood
<1>5. token_available' = token_available /\ scanner' = scanner
  BY DEF Keep, queue
<1>6. ScannerOK'
  BY <1>1, <1>2, <1>4, <1>5 DEF ScannerOK
<1> QED BY <1>1, <1>2, <1>4, <1>5, <1>6, SurplusInt

(* A step of the parser that takes the head of the queue.                         *)
LEMMA SkipStep ==
  ASSUME ScannerOK, scanner.started, Skip, UNCHANGED <<scanner, error>>, token_available,
         error = "none"
  PROVE  /\ ScannerOK' /\ scanner'.started
         /\ \E s, t : /\ s = Current /\ t = Current'
                      /\ Surplus(t) = Surplus(s) - Weight(Head(tokens)) /\ Surplus(s) \in Int
<1>1. PICK c, t : c = Current /\ t = Current'
  OBVIOUS
<1>2. /\ DOMAIN scanner = ScannerFields /\ Good(c, token_available) /\ DOMAIN c = Fields
      /\ c.started /\ c.tokens = tokens
  BY <1>1, CurrentIs DEF ScannerOK
<1>3. Good(c, TRUE)
  <2>1. token_available = TRUE
    BY DEF ScannerOK
  <2> QED BY <1>2, <2>1
<1>4. Keeps(c, t, {"tokens", "parsed"}) /\ t.tokens = Tail(c.tokens) /\ t.parsed = c.parsed + 1
  <2>1. tokens' = Tail(tokens) /\ tokens_parsed' = tokens_parsed + 1
    BY DEF Skip
  <2>2. /\ Keeps(c, t, {"tokens", "parsed", "error"})
        /\ t.tokens = Tail(c.tokens) /\ t.parsed = c.parsed + 1 /\ t.error = c.error
    BY <1>1, <1>2, <2>1, ParserKeeps
  <2> QED BY <2>2 DEF Keeps
<1>5. PICK h : h = Head(tokens)
  OBVIOUS
<1>6. /\ Good(t, FALSE)
      /\ Surplus(t) = Surplus(c) - One(h, BlockStarts) + One(h, {"BLOCK-END"})
  BY <1>2, <1>3, <1>4, <1>5, TakenGood
<1>7. Surplus(t) = Surplus(c) - Weight(h) /\ Surplus(c) \in Int
  <2>1. PICK a, b \in {0, 1} : a = One(h, BlockStarts) /\ b = One(h, {"BLOCK-END"})
    BY DEF One
  <2>2. PICK x \in Int : x = Surplus(c)
    BY <1>2, SurplusInt
  <2>3. Weight(h) = a - b
    BY <2>1 DEF Weight
  <2> QED BY <1>6, <2>1, <2>2, <2>3
<1>8. token_available' = FALSE /\ scanner' = scanner /\ error' = "none"
  BY DEF Skip
<1>9. ScannerOK'
  BY <1>1, <1>2, <1>6, <1>8 DEF ScannerOK
<1> QED BY <1>1, <1>2, <1>5, <1>7, <1>8, <1>9

ReaderOK == StackOK /\ ScannerOK /\ OpenerAtHand /\ BalanceOK

LEMMA ReaderInit == Init => ReaderOK
<1> SUFFICES ASSUME Init PROVE ReaderOK
  OBVIOUS
<1>1. state = "STREAM_START" /\ ~scanner.started
  BY DEF Init, ParserInit, ScannerInit
<1>2. OpenerAtHand
  BY <1>1 DEF OpenerAtHand, Openers
<1>3. BalanceOK
  BY <1>1 DEF BalanceOK
<1> QED BY <1>2, <1>3, StackInit, ScannerOKInit DEF ReaderOK

LEMMA ScanReads ==
  ASSUME ReaderOK, StackOK', Scan, UNCHANGED parVars
  PROVE  ReaderOK'
<1>1. /\ ScannerOK'
      /\ scanner.started =>
            scanner'.started /\ \E s, t : s = Current /\ t = Current' /\ Surplus(t) = Surplus(s)
      /\ ~scanner.started => scanner'.started /\ \E t : t = Current' /\ Surplus(t) = -1
  BY ScanStep DEF ReaderOK
<1>2. state' = state /\ states' = states /\ error = "none" /\ ~token_available
  BY DEF parVars, Scan
<1>3. OpenerAtHand'
  BY <1>2 DEF ReaderOK, OpenerAtHand
<1>4. BalanceOK'
  <2>1. CASE scanner.started
    <3>1. PICK s : /\ s = Current
                   /\ Cardinality(Below(BlockPoints, states)) + Own(BlockPoints, state)
                         + Surplus(s) = -1
      BY <1>2, <2>1 DEF ReaderOK, BalanceOK
    <3>2. PICK t : t = Current' /\ Surplus(t) = Surplus(s)
      BY <1>1, <2>1, <3>1
    <3>3. Cardinality(Below(BlockPoints, states')) + Own(BlockPoints, state') + Surplus(t) = -1
      BY <1>2, <3>1, <3>2
    <3> QED BY <3>2, <3>3 DEF BalanceOK
  <2>2. CASE ~scanner.started
    <3>1. PICK t : t = Current' /\ Surplus(t) = -1
      BY <1>1, <2>2
    <3>2. state = "STREAM_START" /\ states = <<>>
      BY <2>2 DEF ReaderOK, ScannerOK, Unstarted
    <3>3. Below(BlockPoints, states') = {}
      <4>1. Len(states') = 0 /\ 0..0 - 1 = {}
        BY <1>2, <3>2
      <4> QED BY <4>1 DEF Below
    <3>4. Cardinality(Below(BlockPoints, states')) = 0 /\ Own(BlockPoints, state') = 0
      BY <1>2, <3>2, <3>3, Placed, FS_EmptySet
    <3>5. Cardinality(Below(BlockPoints, states')) + Own(BlockPoints, state') + Surplus(t) = -1
      BY <3>1, <3>4
    <3> QED BY <3>1, <3>5 DEF BalanceOK
  <2> QED BY <2>1, <2>2
<1> QED BY <1>1, <1>3, <1>4 DEF ReaderOK

LEMMA ParseReads ==
  ASSUME ReaderOK, StackOK', Parse, UNCHANGED scanner
  PROVE  ReaderOK'
<1>1. Balanced
  BY ParseBalanced DEF ReaderOK
<1>2. token_available /\ error = "none" /\ error' \in {"none", "parser"}
  BY <1>1 DEF Balanced
<1>3. scanner.started
  BY <1>2 DEF ReaderOK, ScannerOK, Unstarted
<1>4. PICK c : /\ c = Current
               /\ Cardinality(Below(BlockPoints, states)) + Own(BlockPoints, state)
                     + Surplus(c) = -1
  BY <1>2, <1>3 DEF ReaderOK, BalanceOK
<1>5. PICK n \in Nat, o \in {0, 1} :
         n = Cardinality(Below(BlockPoints, states)) /\ o = Own(BlockPoints, state)
  BY BelowFinite, OwnInt DEF ReaderOK, StackOK
<1>6. ASSUME Keep
      PROVE  /\ ScannerOK' /\ scanner'.started
             /\ \E t : t = Current' /\ Surplus(t) = Surplus(c) /\ Surplus(c) \in Int
  BY <1>2, <1>3, <1>4, <1>6, KeepStep DEF ReaderOK
<1>7. CASE error' = "parser" /\ Keep /\ state' = state /\ states' = states
  <2>1. OpenerAtHand'
    BY <1>7 DEF ReaderOK, OpenerAtHand, Keep, queue
  <2> QED BY <1>6, <1>7, <2>1 DEF ReaderOK, BalanceOK
<1>8. CASE error' = "none" /\ Keep /\ Shifts(0)
  <2>1. /\ Cardinality(Below(BlockPoints, states')) + Own(BlockPoints, state') = n + o + 0
        /\ state' \notin DOMAIN Openers
    BY <1>5, <1>8, ShiftsAdd DEF ReaderOK
  <2>2. PICK t : t = Current' /\ Surplus(t) = Surplus(c)
    BY <1>6, <1>8
  <2>3. Cardinality(Below(BlockPoints, states')) + Own(BlockPoints, state') + Surplus(t) = -1
    BY <1>4, <1>5, <2>1, <2>2
  <2>4. BalanceOK'
    BY <2>2, <2>3 DEF BalanceOK
  <2>5. OpenerAtHand'
    BY <2>1 DEF OpenerAtHand
  <2> QED BY <1>6, <1>8, <2>4, <2>5 DEF ReaderOK
<1>9. CASE error' = "none" /\ Keep /\ Announces
  <2>1. /\ Cardinality(Below(BlockPoints, states')) = n
        /\ Own(BlockPoints, state') = 0 /\ Own(BlockPoints, state) = 0
    BY <1>5, <1>9 DEF Announces
  <2>2. PICK t : t = Current' /\ Surplus(t) = Surplus(c)
    BY <1>6, <1>9
  <2>3. Cardinality(Below(BlockPoints, states')) + Own(BlockPoints, state') + Surplus(t) = -1
    BY <1>4, <1>5, <2>1, <2>2
  <2>4. BalanceOK'
    BY <2>2, <2>3 DEF BalanceOK
  <2>5. OpenerAtHand'
    BY <1>2, <1>9 DEF OpenerAtHand, Announces, Keep, queue
  <2> QED BY <1>6, <1>9, <2>4, <2>5 DEF ReaderOK
<1>10. CASE error' = "none" /\ Skip /\ \E d : d = Weight(Head(tokens)) /\ Shifts(d)
  <2>1. PICK d : d = Weight(Head(tokens)) /\ Shifts(d)
    BY <1>10
  <2>2. d \in Int
    BY <2>1, WeightInt
  <2>3. /\ Cardinality(Below(BlockPoints, states')) + Own(BlockPoints, state') = n + o + d
        /\ state' \notin DOMAIN Openers
    BY <1>5, <2>1, <2>2, ShiftsAdd DEF ReaderOK
  <2>4. /\ ScannerOK' /\ scanner'.started
        /\ \E s, t : /\ s = Current /\ t = Current'
                     /\ Surplus(t) = Surplus(s) - Weight(Head(tokens)) /\ Surplus(s) \in Int
    BY <1>2, <1>3, <1>10, SkipStep DEF ReaderOK
  <2>5. PICK t, x : x \in Int /\ t = Current' /\ x = Surplus(c) /\ Surplus(t) = x - d
    BY <1>4, <2>1, <2>4
  <2>6. Cardinality(Below(BlockPoints, states')) + Own(BlockPoints, state') + Surplus(t) = -1
    <3>1. n + o + x = -1
      BY <1>4, <1>5, <2>5
    <3> QED BY <1>5, <2>2, <2>3, <2>5, <3>1
  <2>7. BalanceOK'
    BY <2>5, <2>6 DEF BalanceOK
  <2>8. OpenerAtHand'
    BY <2>3 DEF OpenerAtHand
  <2> QED BY <2>4, <2>7, <2>8 DEF ReaderOK
<1> QED BY <1>1, <1>7, <1>8, <1>9, <1>10 DEF Balanced

LEMMA ReaderStep == ReaderOK /\ [Next]_vars => ReaderOK'
<1> SUFFICES ASSUME ReaderOK, [Next]_vars PROVE ReaderOK'
  OBVIOUS
<1>1. StackOK'
  BY StackStep DEF ReaderOK
<1>2. CASE Scan /\ UNCHANGED parVars
  BY <1>1, <1>2, ScanReads
<1>3. CASE Parse /\ UNCHANGED scanner
  BY <1>1, <1>3, ParseReads
<1>4. CASE UNCHANGED vars
  <2>1. /\ tokens' = tokens /\ tokens_parsed' = tokens_parsed /\ token_available' = token_available
        /\ error' = error /\ scanner' = scanner /\ state' = state /\ states' = states
    BY <1>4 DEF vars, queue, parVars
  <2>2. \E c : c = Current /\ c = Current'
    BY <2>1 DEF Current
  <2>3. ScannerOK'
    BY <2>1, <2>2 DEF ReaderOK, ScannerOK, Unstarted
  <2>4. OpenerAtHand'
    BY <2>1 DEF ReaderOK, OpenerAtHand
  <2>5. BalanceOK'
    BY <2>1, <2>2 DEF ReaderOK, BalanceOK
  <2> QED BY <1>1, <2>3, <2>4, <2>5 DEF ReaderOK
<1> QED BY <1>2, <1>3, <1>4 DEF Next

(* ReaderHolds: the inductive invariant of the scanner, the queue and the parser.  *)
THEOREM ReaderHolds == Spec => []ReaderOK
  BY ReaderInit, ReaderStep, PTL DEF Spec

LEMMA KeysIndexedMean == ReaderOK => KeysIndexed
<1> SUFFICES ASSUME ReaderOK, NEW n \in DOMAIN scanner.by_tok, n >= tokens_parsed
             PROVE  scanner.by_tok[n] \in DOMAIN scanner.simple_keys
  BY DEF KeysIndexed
<1>1. scanner.started
  <2>1. CASE ~scanner.started
    <3>1. scanner.by_tok = << >>
      BY <2>1 DEF ReaderOK, ScannerOK, Unstarted
    <3> QED BY <3>1
  <2> QED BY <2>1
<1>2. PICK c : c = Current
  OBVIOUS
<1>3. /\ Good(c, token_available) /\ c.by_tok = scanner.by_tok
      /\ c.simple_keys = scanner.simple_keys /\ c.parsed = tokens_parsed
  BY <1>1, <1>2, CurrentIs DEF ReaderOK
<1>4. /\ Leads(c.simple_keys, c.by_tok, c.parsed) /\ c.simple_keys \in Seq(KeyRecord)
  BY <1>3 DEF Good, Fit, KeysOK
<1>5. c.by_tok[n] \in 1..Len(c.simple_keys)
  BY <1>3, <1>4 DEF Leads
<1> QED BY <1>3, <1>4, <1>5

LEMMA KeysInTimeMean == ReaderOK => KeysInTime
<1> SUFFICES ASSUME ReaderOK PROVE scanner.late = FALSE
  BY DEF KeysInTime
<1>1. CASE scanner.started
  <2>1. PICK c : c = Current
    OBVIOUS
  <2>2. Good(c, token_available) /\ c.late = scanner.late
    BY <1>1, <2>1, CurrentIs DEF ReaderOK
  <2> QED BY <2>2 DEF Good
<1>2. CASE ~scanner.started
  BY <1>2 DEF ReaderOK, ScannerOK, Unstarted
<1> QED BY <1>1, <1>2

LEMMA EndReachedMean == ReaderOK => EndReached
<1> SUFFICES ASSUME ReaderOK PROVE Count({"STREAM-END"}) <= 3
  BY DEF EndReached
<1>1. Count({"STREAM-END"}) = Cnt(tokens, {"STREAM-END"})
  BY DEF Count, Cnt, At
<1>2. CASE scanner.started
  <2>1. PICK c : c = Current
    OBVIOUS
  <2>2. Good(c, token_available) /\ c.tokens = tokens
    BY <1>2, <2>1, CurrentIs DEF ReaderOK
  <2> QED BY <1>1, <2>2 DEF Good, StreamEnds
<1>3. CASE ~scanner.started
  <2>1. tokens = <<>>
    BY <1>3 DEF ReaderOK, ScannerOK, Unstarted
  <2>2. {i \in DOMAIN tokens : tokens[i].typ \in {"STREAM-END"}} = {}
    BY <2>1
  <2>3. Count({"STREAM-END"}) = 0
    BY <2>2, FS_EmptySet DEF Count
  <2> QED BY <2>3
<1> QED BY <1>2, <1>3

LEMMA BlocksMean == ReaderOK => BlocksMatch
<1> SUFFICES ASSUME ReaderOK, error = "none", scanner.started
             PROVE  Open(BlockPoints) + Count(BlockStarts) - Count({"BLOCK-END"})
                       = Len(scanner.levels) - 1
  BY DEF BlocksMatch
<1>1. PICK c : /\ c = Current
               /\ Cardinality(Below(BlockPoints, states)) + Own(BlockPoints, state)
                     + Surplus(c) = -1
  BY DEF ReaderOK, BalanceOK
<1>2. Good(c, token_available) /\ c.tokens = tokens /\ c.levels = scanner.levels
  BY <1>1, CurrentIs DEF ReaderOK
<1>3. tokens \in Seq(Tok) /\ scanner.levels \in Seq(Int)
  BY <1>2 DEF Good, Fit, Typed, Grown
<1>4. PICK a, b, l, n \in Nat : /\ a = Cnt(tokens, BlockStarts) /\ b = Cnt(tokens, {"BLOCK-END"})
                                /\ l = Len(scanner.levels) /\ n = Open(BlockPoints)
  <2>1. Cnt(tokens, BlockStarts) \in Nat /\ Cnt(tokens, {"BLOCK-END"}) \in Nat
    BY <1>3, CntType
  <2>2. Len(scanner.levels) \in Nat
    BY <1>3
  <2>3. Open(BlockPoints) = Cardinality(Below(BlockPoints, states)) + Own(BlockPoints, state)
    BY OpenIs DEF ReaderOK
  <2>4. Cardinality(Below(BlockPoints, states)) \in Nat
    BY BelowFinite DEF ReaderOK, StackOK
  <2>5. Own(BlockPoints, state) \in {0, 1}
    BY OwnInt
  <2> QED BY <2>1, <2>2, <2>3, <2>4, <2>5
<1>5. Surplus(c) = a - b - l
  BY <1>2, <1>4 DEF Surplus
<1>6. Count(BlockStarts) = a /\ Count({"BLOCK-END"}) = b
  BY <1>4 DEF Count, Cnt, At
<1>7. n + (a - b - l) = -1
  <2>1. Open(BlockPoints) = Cardinality(Below(BlockPoints, states)) + Own(BlockPoints, state)
    BY OpenIs DEF ReaderOK
  <2> QED BY <1>1, <1>4, <1>5, <2>1
<1>8. n + a - b = l - 1
  <2>1. n \in Nat /\ a \in Nat /\ b \in Nat /\ l \in Nat /\ n + (a - b - l) = -1
    BY <1>7
  <2> QED BY ONLY <2>1
<1> QED BY <1>4, <1>6, <1>8

(* KeysIndexedHolds: fetch_more_tokens never indexes simple_keys out of range: what   *)
(* simple_keys_by_tok says of a token in the queue is a level that exists.         *)
THEOREM KeysIndexedHolds == Spec => []KeysIndexed
  BY ReaderHolds, KeysIndexedMean, PTL

(* KeysInTimeHolds: no ':' makes a key of a token that the parser has taken, unless *)
(* it opened a flow collection.                                                    *)
THEOREM KeysInTimeHolds == Spec => []KeysInTime
  BY ReaderHolds, KeysInTimeMean, PTL

(* EndReachedHolds: fetch_stream_end is called three times at most before the parser *)
(* takes a token: no key at the head of the queue waits beyond the end of the text. *)
THEOREM EndReachedHolds == Spec => []EndReached
  BY ReaderHolds, EndReachedMean, PTL

(* OpenerAtHandHolds: where parserc.go skips the token that opened a collection      *)
(* without looking, in a flow mapping without asking for one, it is that token.    *)
THEOREM OpenerAtHandHolds == Spec => []OpenerAtHand
<1>1. ReaderOK => OpenerAtHand
  BY DEF ReaderOK
<1> QED BY <1>1, ReaderHolds, PTL

(* BlocksMatchHolds: the blocks the parser is in, with those whose tokens it has not *)
(* taken yet, are the indents of the scanner.                                      *)
THEOREM BlocksMatchHolds == Spec => []BlocksMatch
  BY ReaderHolds, BlocksMean, PTL

-----------------------------------------------------------------------------
(* The other fields that have a type.                                             *)
(* What a step of the parser may do to the marks and the handles.                 *)
Effects ==
    /\ marks' \in {marks, marks + 1} \/ (state \in Marked /\ marks' = marks - 1)
    /\ \/ tag_directives' \in {tag_directives, {}, tag_directives \cup DefaultHandles}
       \/ Peek({"TAG-DIRECTIVE"}) /\ tag_directives' = tag_directives \cup {Head(tokens).val}

LEMMA ParseEffects == Parse => Effects
<1>1. ASSUME NEW from, NEW on, NEW to, Indicator(from, on, to) PROVE Effects
  BY <1>1 DEF Indicator, Within, Effects
<1>2. ASSUME NEW after, NEW block, NEW indentless, ParseNode(after, block, indentless)
      PROVE  Effects
  BY <1>2 DEF ParseNode, Effects
<1>3. ASSUME NEW to, EmptyScalar(to) PROVE Effects
  BY <1>3 DEF EmptyScalar, Effects
<1>4. ASSUME NEW from, NEW enders, NEW b, NEW i, NEW after, Follows(from, enders, b, i, after)
      PROVE  Effects
  BY <1>2, <1>3, <1>4 DEF Follows
<1>5. ASSUME NEW from, NEW on, NEW ev, Closes(from, on, ev), \A x \in from : x \in Marked
      PROVE  Effects
  BY <1>5 DEF Closes, Effects
<1>6. ASSUME NEW from \in Marked, NEW expected, Unexpected(from, expected) PROVE Effects
  BY <1>6 DEF Unexpected, Fail, Effects
<1>7. ASSUME NEW from, NEW after, NoValue(from, after) PROVE Effects
  BY <1>3, <1>7 DEF NoValue
<1>8. ASSUME NEW from, NEW to, First(from, to) PROVE Effects
  BY <1>8 DEF First, Within, Effects
<1>9. ASSUME \/ StreamStart \/ ImplicitDocument \/ ExtraDocumentEnd \/ ExplicitDocument
             \/ StreamEnd \/ VersionDirective \/ TagDirective \/ DocumentStart
             \/ NoDocumentStart \/ DocumentContent \/ DocumentEnd
      PROVE  Effects
  BY <1>9
     DEF StreamStart, ImplicitDocument, ExtraDocumentEnd, ExplicitDocument, StreamEnd,
         VersionDirective, TagDirective, DocumentStart, NoDocumentStart, DocumentContent,
         DocumentEnd, Within, Fail, Effects
<1>10. ASSUME NodeProperty \/ Alias \/ Scalar \/ (\E kind \in DOMAIN Opening : Collection(kind))
               \/ PropertiesOnly \/ NodeMissing
       PROVE  Effects
  BY <1>10 DEF NodeProperty, Alias, Scalar, Collection, PropertiesOnly, NodeMissing, Fail, Effects
<1>11. CASE Opened
  BY <1>8, <1>11 DEF Opened
<1>12. CASE IndentlessEnd
  BY <1>12 DEF IndentlessEnd, Effects
<1>13. CASE BlockSequence \/ BlockMappingKey
  <2>1. ASSUME NEW from \in {"BLOCK_SEQUENCE_ENTRY", "BLOCK_MAPPING_KEY"}, NEW ev,
               Closes({from}, "BLOCK-END", ev)
        PROVE  Effects
    <3>1. \A x \in {from} : x \in Marked
      BY Enumerated
    <3> QED BY <1>5, <2>1, <3>1
  <2> QED BY <1>1, <1>4, <1>6, <1>13, <2>1, Enumerated DEF BlockSequence, BlockMappingKey
<1>14. CASE IndentlessSequence \/ BlockMappingValue
  BY <1>1, <1>4, <1>7, <1>12, <1>14 DEF IndentlessSequence, BlockMappingValue
<1>15. ASSUME NEW from, \/ from = {"FLOW_SEQUENCE_ENTRY", "FLOW_SEQUENCE_ENTRY[", "FLOW_SEQUENCE_ENTRY,"}
                        \/ from = {"FLOW_MAPPING_KEY", "FLOW_MAPPING_KEY{", "FLOW_MAPPING_KEY,"},
              NEW on, NEW ev, Closes(from, on, ev)
       PROVE  Effects
  <2>1. \A x \in {"FLOW_SEQUENCE_ENTRY", "FLOW_SEQUENCE_ENTRY[", "FLOW_SEQUENCE_ENTRY,"} : x \in Marked
    BY Enumerated
  <2>2. \A x \in {"FLOW_MAPPING_KEY", "FLOW_MAPPING_KEY{", "FLOW_MAPPING_KEY,"} : x \in Marked
    BY Enumerated
  <2>3. \A x \in from : x \in Marked
    <3>1. CASE from = {"FLOW_SEQUENCE_ENTRY", "FLOW_SEQUENCE_ENTRY[", "FLOW_SEQUENCE_ENTRY,"}
      BY <2>1, <3>1, Zenon
    <3>2. CASE from = {"FLOW_MAPPING_KEY", "FLOW_MAPPING_KEY{", "FLOW_MAPPING_KEY,"}
      BY <2>2, <3>2, Zenon
    <3> QED BY <1>15, <3>1, <3>2
  <2> QED BY <1>5, <1>15, <2>3
<1>16. CASE FlowSequence
  <2>1. CASE UNCHANGED <<states, marks, tag_directives>>
    BY <2>1 DEF Effects
  <2>2. ASSUME NEW x \in Marked, NEW y, Unexpected(x, y) PROVE Effects
    BY <1>6, <2>2
  <2> QED BY <1>1, <1>2, <1>15, <1>16, <2>1, <2>2, Enumerated DEF FlowSequence
<1>17. CASE FlowPair
  <2>1. CASE UNCHANGED <<states, marks, tag_directives>>
    BY <2>1 DEF Effects
  <2> QED BY <1>1, <1>2, <1>4, <1>7, <1>17, <2>1 DEF FlowPair
<1>18. CASE FlowMappingKey
  BY <1>1, <1>2, <1>4, <1>6, <1>15, <1>18, Enumerated DEF FlowMappingKey
<1>19. CASE FlowMappingValue
  BY <1>1, <1>3, <1>4, <1>7, <1>19 DEF FlowMappingValue
<1> QED BY <1>9, <1>10, <1>11, <1>13, <1>14, <1>16, <1>17, <1>18, <1>19 DEF Parse

(* The number of marks and the handles, errors included.                          *)
KeptOK ==
    /\ marks \in Nat
    /\ tag_directives \subseteq (DefaultHandles \cup {"!h!"})

LEMMA KeptInit == Init => KeptOK
  BY DEF Init, ParserInit, KeptOK

LEMMA KeptStep == ReaderOK /\ MarksInv /\ KeptOK /\ [Next]_vars => KeptOK'
<1> SUFFICES ASSUME ReaderOK, MarksInv, KeptOK, [Next]_vars PROVE KeptOK'
  OBVIOUS
<1>1. CASE Parse
  <2>1. Effects /\ error = "none"
    BY <1>1, ParseEffects, ErrorStops
  <2>2. marks' \in Nat
    <3>1. CASE marks' \in {marks, marks + 1}
      BY <3>1 DEF KeptOK
    <3>2. CASE state \in Marked /\ marks' = marks - 1
      <4>1. PICK n \in Nat : n = Cardinality(Below(Marked, states))
        BY BelowFinite DEF ReaderOK, StackOK
      <4>2. marks = n + 1
        BY <2>1, <3>2, <4>1 DEF MarksInv, Own
      <4> QED BY <3>2, <4>1, <4>2
    <3> QED BY <2>1, <3>1, <3>2 DEF Effects
  <2>3. tag_directives' \subseteq (DefaultHandles \cup {"!h!"})
    <3>1. CASE tag_directives' \in {tag_directives, {}, tag_directives \cup DefaultHandles}
      BY <3>1 DEF KeptOK
    <3>2. CASE Peek({"TAG-DIRECTIVE"}) /\ tag_directives' = tag_directives \cup {Head(tokens).val}
      <4>1. token_available /\ Head(tokens).typ = "TAG-DIRECTIVE"
        BY <3>2 DEF Peek
      <4>2. scanner.started
        BY <4>1 DEF ReaderOK, ScannerOK, Unstarted
      <4>3. PICK c : c = Current
        OBVIOUS
      <4>4. Good(c, TRUE) /\ c.tokens = tokens
        <5>1. token_available = TRUE
          BY <4>1 DEF ReaderOK, ScannerOK
        <5> QED BY <4>2, <4>3, <5>1, CurrentIs DEF ReaderOK
      <4>5. tokens \in Seq(Tok) /\ tokens # <<>>
        BY <4>4 DEF Good, Fit, Typed, AtHand
      <4>6. Head(tokens) \in Tok
        BY <4>5
      <4>7. Head(tokens).val = "!h!"
        BY <4>1, <4>6 DEF Tok
      <4> QED BY <3>2, <4>7 DEF KeptOK
    <3> QED BY <2>1, <3>1, <3>2 DEF Effects
  <2> QED BY <2>2, <2>3 DEF KeptOK
<1>2. CASE UNCHANGED parVars
  BY <1>2 DEF parVars, KeptOK
<1> QED BY <1>1, <1>2 DEF Next, vars

LEMMA TypeMeans == ReaderOK /\ KeptOK => TypeOK
<1> SUFFICES ASSUME ReaderOK, KeptOK PROVE TypeOK
  OBVIOUS
<1>1. state \in States /\ states \in Seq(States)
  <2>1. Pushed \cup {"DOCUMENT_END"} \subseteq States
    <3>1. "DOCUMENT_END" \in States
      BY DEF States, StreamStates
    <3> QED BY <3>1, PushedStates
  <2>2. states \in Seq(Pushed \cup {"DOCUMENT_END"}) /\ state \in States
    BY DEF ReaderOK, StackOK
  <2> QED BY <2>1, <2>2
<1>2. token_available \in BOOLEAN /\ error \in {"none", "scanner", "parser"}
  BY DEF ReaderOK, ScannerOK
<1>3. CASE ~scanner.started
  <2>1. tokens = <<>> /\ tokens_parsed = 0
    BY <1>3 DEF ReaderOK, ScannerOK, Unstarted
  <2>2. tokens \in Seq([typ : TokenTypes, val : {"", "1.1", "1.2", "!", "!h!"}])
    BY <2>1
  <2> QED BY <1>1, <1>2, <1>3, <2>1, <2>2 DEF TypeOK, KeptOK
<1>4. CASE scanner.started
  <2>1. PICK c : c = Current
    OBVIOUS
  <2>2. /\ Good(c, token_available) /\ c.tokens = tokens /\ c.parsed = tokens_parsed
        /\ c.simple_keys = scanner.simple_keys /\ c.levels = scanner.levels
        /\ c.flow_level = scanner.flow_level
    BY <1>4, <2>1, CurrentIs DEF ReaderOK
  <2>3. tokens \in Seq(Tok) /\ tokens_parsed \in Nat
    BY <2>2 DEF Good, Fit, Typed, KeysOK
  <2>4. tokens \in Seq([typ : TokenTypes, val : {"", "1.1", "1.2", "!", "!h!"}])
    <3>1. PICK R, T : R = [typ : TokenTypes, val : {"", "1.1", "1.2", "!", "!h!"}] /\ T = Tok
      OBVIOUS
    <3>2. T \subseteq R
      BY <3>1 DEF Tok
    <3>3. tokens \in Seq(T)
      BY <2>3, <3>1
    <3>4. tokens \in Seq(R)
      BY ONLY <3>2, <3>3
    <3> QED BY <3>1, <3>4
  <2>5. /\ Len(scanner.simple_keys) = scanner.flow_level + 1
        /\ scanner.levels[1] = -1
        /\ \A i \in 2..Len(scanner.levels) : scanner.levels[i - 1] < scanner.levels[i]
    BY <2>2 DEF Good, Fit, Typed, Grown
  <2> QED BY <1>1, <1>2, <2>3, <2>4, <2>5 DEF TypeOK, KeptOK
<1> QED BY <1>3, <1>4

(* ReaderTypes: whatever the text, the fields of yaml_parser_t have their types; there *)
(* is a simple key for every flow level, and the indents grow from that of the stream. *)
THEOREM ReaderTypes == Spec => []TypeOK
  BY ReaderInit, ReaderStep, MarksInit, MarksStep, KeptInit, KeptStep, TypeMeans, PTL
     DEF Spec, ReaderOK

=============================================================================
