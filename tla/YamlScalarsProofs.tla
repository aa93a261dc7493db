------------------------- MODULE YamlScalarsProofs -------------------------
(* What the emitter writes for a string, the scanner reads as that string: for     *)
(* strings of any length, in every style and place, and for every indent from two  *)
(* to nine.  The proof has three parts.                                            *)
(* What is written is cut into pieces, one for each character of the string, and   *)
(* Layout says where in the text each piece stands (TextIs): the emitter is a map  *)
(* on the characters, as each piece depends on the characters next to it alone.    *)
(* Sound is the type invariant with what was asked for and written; TypeOK,        *)
(* Settles and Advances follow from it.                                            *)
(* Reads says, style by style, what the scanner has read when it is at character k *)
(* of the string, or in the blanks, breaks or indentation before it: together with *)
(* what waits to be added, exactly the first k - 1 characters.  Each step leads    *)
(* from one such state to another or, at the end of the scalar, to the string.     *)
EXTENDS YamlScalars, SequenceTheorems, WellFoundedInduction, TLAPS

-----------------------------------------------------------------------------
(* Sequences of sequences.                                                         *)
(* The least member of a set of numbers, by which the inductions go.              *)
LEMMA LessThan == \A x, y \in Nat : x < y <=> <<x, y>> \in OpToRel(<, Nat)
  BY DEF OpToRel

LEMMA LeastMember ==
  ASSUME NEW T \in SUBSET Nat, T # {}
  PROVE  \E m \in T : \A n \in T : m <= n
<1>1. PICK R : R = OpToRel(<, Nat)
  OBVIOUS
<1>2. IsWellFoundedOn(R, Nat)
  BY <1>1, NatLessThanWellFounded
<1>3. PICK m \in T : \A n \in T : <<n, m>> \notin R
  BY <1>2, WFMin
<1>4. \A n \in T : ~(n < m)
  BY <1>1, <1>3, LessThan
<1> QED BY <1>3, <1>4

(* FlattenSeq by the function that it is defined with.                             *)
IsFlattened(q, k, f) ==
    f = [i \in 1..k |-> IF i = 1 THEN q[i] ELSE f[i - 1] \o q[i]]

LEMMA FlattenedValue ==
  ASSUME NEW q, NEW k \in Nat, NEW f, IsFlattened(q, k, f)
  PROVE  \A i \in 1..k : f[i] = IF i = 1 THEN q[i] ELSE f[i - 1] \o q[i]
<1>1. PICK g : g = [i \in 1..k |-> IF i = 1 THEN q[i] ELSE f[i - 1] \o q[i]]
  OBVIOUS
<1>2. f = g
  BY <1>1 DEF IsFlattened
<1>3. \A i \in 1..k : g[i] = IF i = 1 THEN q[i] ELSE f[i - 1] \o q[i]
  BY <1>1
<1> QED BY <1>2, <1>3

LEMMA FlattenedExists ==
  ASSUME NEW q, NEW n \in Nat
  PROVE  \E f : IsFlattened(q, n, f)
<1> DEFINE Bad == {k \in Nat : ~ \E f : IsFlattened(q, k, f)}
<1> SUFFICES ASSUME Bad # {} PROVE FALSE
  OBVIOUS
<1>1. PICK k \in Bad : \A m \in Bad : k <= m
  <2> HIDE DEF Bad
  <2>1. Bad \in SUBSET Nat
    BY DEF Bad
  <2> QED BY <2>1, LeastMember
<1>2. k # 0
  <2>1. 1..0 = {}
    OBVIOUS
  <2>2. IsFlattened(q, 0, [i \in {} |-> 0])
    BY <2>1 DEF IsFlattened
  <2> QED BY <1>1, <2>2
<1>3. k \in Nat /\ k - 1 \in Nat /\ k - 1 \notin Bad
  BY <1>1, <1>2
<1>4. PICK f : IsFlattened(q, k - 1, f)
  BY <1>3
<1>5. PICK g : g = [i \in 1..k |-> IF i = 1 THEN q[i] ELSE f[i - 1] \o q[i]]
  OBVIOUS
<1>6. \A i \in 1..k - 1 : f[i] = IF i = 1 THEN q[i] ELSE f[i - 1] \o q[i]
  BY <1>3, <1>4, FlattenedValue
<1>7. \A i \in 1..k - 1 : g[i] = f[i]
  BY <1>3, <1>5, <1>6
<1>8. \A i \in 1..k : i # 1 => g[i - 1] = f[i - 1]
  BY <1>3, <1>7
<1>9. [i \in 1..k |-> IF i = 1 THEN q[i] ELSE f[i - 1] \o q[i]]
        = [i \in 1..k |-> IF i = 1 THEN q[i] ELSE g[i - 1] \o q[i]]
  BY <1>8
<1>10. IsFlattened(q, k, g)
  BY <1>5, <1>9 DEF IsFlattened
<1> QED BY <1>1, <1>10

LEMMA FlattenIs ==
  ASSUME NEW q, NEW n \in Nat, n = Len(q), n # 0
  PROVE  \E f : IsFlattened(q, n, f) /\ FlattenSeq(q) = f[n]
<1>1. PICK f : f = CHOOSE g : IsFlattened(q, n, g)
  OBVIOUS
<1>2. IsFlattened(q, n, f)
  BY <1>1, FlattenedExists
<1>3. FlattenSeq(q) = f[n]
  BY <1>1 DEF FlattenSeq, IsFlattened
<1> QED BY <1>2, <1>3

(* The pieces q stand in t one after the other, piece k from off[k].               *)
LaidOut(t, q, n, off) ==
    /\ \A k \in 1..(n + 1) : off[k] \in Nat \ {0}
    /\ \A k \in 1..n : off[k + 1] = off[k] + Len(q[k])
    /\ off[n + 1] <= Len(t) + 1
    /\ \A k \in 1..n : \A j \in 1..Len(q[k]) :
          off[k] + j - 1 \in 1..Len(t) /\ t[off[k] + j - 1] = q[k][j]

(* Between first and last there is nothing else in t.                              *)
Covered(t, q, n, first, last) ==
    \A p \in first..last : \E k \in 1..n : \E j \in 1..Len(q[k]) : t[p] = q[k][j]

(* Two sequences one after the other.                                              *)
LEMMA Concatenated ==
  ASSUME NEW S, NEW a \in Seq(S), NEW b \in Seq(S)
  PROVE  /\ a \o b \in Seq(S) /\ Len(a \o b) = Len(a) + Len(b)
         /\ Len(a) \in Nat /\ Len(b) \in Nat
         /\ \A i \in 1..Len(a) : (a \o b)[i] = a[i]
         /\ \A i \in 1..Len(b) : (a \o b)[Len(a) + i] = b[i]
         /\ \A i \in Len(a) + 1..Len(a) + Len(b) : (a \o b)[i] = b[i - Len(a)]
  OBVIOUS

LEMMA FlattenGrows ==
  ASSUME NEW S, NEW i \in Nat, i # 0, NEW q, NEW x \in Seq(S), q[i + 1] = x,
         NEW f \in Seq(S), NEW off,
         LaidOut(f, q, i, off), Covered(f, q, i, 1, Len(f)),
         \A k \in 1..i : Len(q[k]) \in Nat,
         off[i + 1] = Len(f) + 1, off[i + 2] = Len(f \o x) + 1
  PROVE  LaidOut(f \o x, q, i + 1, off) /\ Covered(f \o x, q, i + 1, 1, Len(f \o x))
<1>1. PICK g, l, m : g = f \o x /\ l = Len(f) /\ m = Len(x)
  OBVIOUS
<1>2. /\ g \in Seq(S) /\ Len(g) = l + m /\ l \in Nat /\ m \in Nat
      /\ \A p \in 1..l : g[p] = f[p]
      /\ \A j \in 1..m : g[l + j] = x[j]
      /\ \A p \in l + 1..l + m : g[p] = x[p - l]
  BY <1>1, Concatenated
<1>3. off[i + 1] = l + 1 /\ off[i + 2] = l + m + 1 /\ (i + 1) + 1 = i + 2
  BY <1>1, <1>2
<1>4. /\ \A k \in 1..(i + 1) : off[k] \in Nat \ {0}
      /\ \A k \in 1..i : off[k + 1] = off[k] + Len(q[k])
      /\ \A k \in 1..i : \A j \in 1..Len(q[k]) :
            off[k] + j - 1 \in 1..l /\ f[off[k] + j - 1] = q[k][j]
  BY <1>1 DEF LaidOut
<1>5. /\ \A k \in 1..((i + 1) + 1) : off[k] \in Nat \ {0}
      /\ \A k \in 1..(i + 1) : off[k + 1] = off[k] + Len(q[k])
  <2>1. off[i + 2] \in Nat \ {0} /\ off[i + 2] = off[i + 1] + Len(q[i + 1])
    BY <1>1, <1>2, <1>3
  <2>2. \A k \in 1..((i + 1) + 1) : k \in 1..(i + 1) \/ k = i + 2
    OBVIOUS
  <2>3. \A k \in 1..(i + 1) : k \in 1..i \/ k = i + 1
    OBVIOUS
  <2> QED BY <1>3, <1>4, <2>1, <2>2, <2>3
<1>6. ASSUME NEW k \in 1..(i + 1), NEW j \in 1..Len(q[k])
      PROVE  off[k] + j - 1 \in 1..l + m /\ g[off[k] + j - 1] = q[k][j]
  <2>1. CASE k = i + 1
    <3>1. j \in 1..m /\ x[j] = q[k][j] /\ off[k] = l + 1
      BY <1>1, <1>3, <2>1
    <3>2. g[l + j] = x[j]
      BY ONLY <1>2, <3>1
    <3>3. off[k] + j - 1 = l + j /\ l + j \in 1..l + m
      BY ONLY <1>2, <3>1
    <3> QED BY ONLY <3>1, <3>2, <3>3
  <2>2. CASE k \in 1..i
    <3>1. off[k] + j - 1 \in 1..l /\ f[off[k] + j - 1] = q[k][j]
      BY <1>4, <2>2
    <3>2. PICK p : p = off[k] + j - 1
      OBVIOUS
    <3>3. p \in 1..l /\ g[p] = f[p]
      BY <1>2, <3>1, <3>2
    <3> QED BY <1>2, <3>1, <3>2, <3>3
  <2> QED BY <2>1, <2>2
<1>7. LaidOut(g, q, i + 1, off)
  BY <1>2, <1>3, <1>5, <1>6 DEF LaidOut
<1>8. ASSUME NEW p \in 1..Len(g)
      PROVE  \E k \in 1..(i + 1) : \E j \in 1..Len(q[k]) : g[p] = q[k][j]
  <2>1. CASE p \in 1..l
    <3>1. PICK k \in 1..i : \E j \in 1..Len(q[k]) : f[p] = q[k][j]
      BY <1>1, <2>1 DEF Covered
    <3>2. k \in 1..(i + 1) /\ g[p] = f[p]
      BY <1>2, <2>1
    <3> QED BY <3>1, <3>2
  <2>2. CASE p \in l + 1..l + m
    <3>1. p - l \in 1..m /\ g[p] = x[p - l] /\ i + 1 \in 1..(i + 1)
      BY <1>2, <2>2
    <3> QED BY <1>1, <3>1
  <2>3. p \in 1..l \/ p \in l + 1..l + m
    BY <1>2
  <2> QED BY <2>1, <2>2, <2>3
<1> QED BY <1>1, <1>7, <1>8 DEF Covered

(* The pieces of a sequence of sequences lie in it one after the other.            *)
LEMMA FlattenLaidOut ==
  ASSUME NEW S, NEW q \in Seq(Seq(S)), NEW n, n = Len(q)
  PROVE  /\ FlattenSeq(q) \in Seq(S)
         /\ Covered(FlattenSeq(q), q, n, 1, Len(FlattenSeq(q)))
         /\ \E off : /\ LaidOut(FlattenSeq(q), q, n, off)
                     /\ off[1] = 1 /\ off[n + 1] = Len(FlattenSeq(q)) + 1
<1>1. n \in Nat /\ \A k \in 1..n : q[k] \in Seq(S) /\ Len(q[k]) \in Nat
  OBVIOUS
<1>2. CASE n = 0
  <2>1. PICK Q : Q = Seq(S)
    OBVIOUS
  <2>2. q \in Seq(Q) /\ Len(q) = 0
    BY <1>2, <2>1
  <2>3. q = <<>>
    BY ONLY <2>2
  <2>4. FlattenSeq(q) = <<>>
    BY <2>3 DEF FlattenSeq
  <2>5. PICK off : off = [k \in 1..1 |-> 1]
    OBVIOUS
  <2>6. off[1] = 1 /\ off[0 + 1] = 1 /\ 1..0 = {} /\ Len(<<>>) = 0
    BY <2>5
  <2>7. LaidOut(<<>>, q, 0, off) /\ Covered(<<>>, q, 0, 1, Len(<<>>))
    BY ONLY <2>6 DEF LaidOut, Covered
  <2>8. <<>> \in Seq(S)
    OBVIOUS
  <2> QED BY <1>2, <2>4, <2>6, <2>7, <2>8
<1>3. CASE n # 0
  <2>1. PICK f : IsFlattened(q, n, f) /\ FlattenSeq(q) = f[n]
    BY <1>1, <1>3, FlattenIs
  <2>2. \A i \in 1..n : f[i] = IF i = 1 THEN q[i] ELSE f[i - 1] \o q[i]
    <3>1. n \in Nat /\ IsFlattened(q, n, f)
      BY <1>1, <2>1
    <3> QED BY ONLY <3>1, FlattenedValue
  <2>3. PICK off : off = [k \in 1..(n + 1) |-> IF k = 1 THEN 1 ELSE Len(f[k - 1]) + 1]
    OBVIOUS
  <2>4. off[1] = 1 /\ \A i \in 1..n : off[i + 1] = Len(f[i]) + 1
    BY <1>1, <2>3
  <2> DEFINE Good(i) == f[i] \in Seq(S) /\ LaidOut(f[i], q, i, off) /\ Covered(f[i], q, i, 1, Len(f[i]))
  <2>5. Good(1)
    <3>1. f[1] = q[1] /\ q[1] \in Seq(S) /\ Len(q[1]) \in Nat /\ 1 \in 1..n
      BY <1>1, <1>3, <2>2
    <3>2. off[1] = 1 /\ off[1 + 1] = Len(q[1]) + 1
      BY <2>4, <3>1
    <3>3. LaidOut(q[1], q, 1, off)
      BY ONLY <3>1, <3>2 DEF LaidOut
    <3>4. Covered(q[1], q, 1, 1, Len(q[1]))
      BY ONLY <3>1 DEF Covered
    <3> QED BY <3>1, <3>3, <3>4
  <2>6. ASSUME NEW i \in 1..n, i + 1 <= n, Good(i)
        PROVE  Good(i + 1)
    <3>1. /\ i \in Nat /\ i # 0 /\ i + 1 \in 1..n /\ i + 1 # 1 /\ (i + 1) - 1 = i
          /\ (i + 1) + 1 = i + 2
      BY <1>1, <2>6
    <3>2. PICK a, x : a = f[i] /\ x = q[i + 1]
      OBVIOUS
    <3>3. f[i + 1] = a \o x /\ x \in Seq(S) /\ a \in Seq(S)
      BY <1>1, <2>2, <2>6, <3>1, <3>2
    <3>4. a \o x \in Seq(S)
      BY <3>3
    <3>5. off[i + 1] = Len(a) + 1 /\ off[i + 2] = Len(a \o x) + 1
      BY <2>4, <3>1, <3>2, <3>3
    <3>6. LaidOut(a, q, i, off) /\ Covered(a, q, i, 1, Len(a))
      BY <2>6, <3>2
    <3>7. \A k \in 1..i : Len(q[k]) \in Nat
      BY <1>1, <3>1
    <3>8. LaidOut(a \o x, q, i + 1, off) /\ Covered(a \o x, q, i + 1, 1, Len(a \o x))
      BY ONLY <3>1, <3>2, <3>3, <3>5, <3>6, <3>7, FlattenGrows
    <3> QED BY <3>3, <3>4, <3>8
  <2> HIDE DEF Good
  <2>7. Good(n)
    <3>1. PICK B : B = {i \in 1..n : ~Good(i)}
      OBVIOUS
    <3>2. ASSUME B # {} PROVE FALSE
      <4>1. PICK j \in B : \A m \in B : j <= m
        <5>1. B \in SUBSET Nat
          BY <1>1, <3>1
        <5> QED BY <3>2, <5>1, LeastMember
      <4>2. j \in 1..n /\ ~Good(j)
        BY <3>1
      <4>3. j # 1 /\ j - 1 \in 1..n /\ ~(j <= j - 1) /\ (j - 1) + 1 = j /\ (j - 1) + 1 <= n
        BY <1>1, <2>5, <4>2
      <4>4. Good(j - 1)
        BY <3>1, <4>1, <4>3
      <4>5. Good((j - 1) + 1)
        BY <2>6, <4>3, <4>4
      <4> QED BY <4>2, <4>3, <4>5
    <3> QED BY <1>1, <1>3, <3>1, <3>2
  <2>8. off[n + 1] = Len(f[n]) + 1
    BY <1>1, <1>3, <2>4
  <2> QED BY <2>1, <2>4, <2>7, <2>8 DEF Good
<1> QED BY <1>2, <1>3

-----------------------------------------------------------------------------
(* What is written, character by character.                                        *)
(* The places, one by one.                                                         *)
LEMMA PlacesAre ==
  /\ DOMAIN Places = {"root", "value", "item", "key", "explicit", "flow"}
  /\ Places["root"].before = <<>> /\ Places["root"].after = <<>>
  /\ Places["root"].parent = -1 /\ ~Places["root"].flow /\ ~Places["root"].key
  /\ Places["value"].before = <<"a", ":", "space">> /\ Places["value"].after = <<"b">>
  /\ Places["value"].parent = 0 /\ ~Places["value"].flow /\ ~Places["value"].key
  /\ Places["item"].before = <<"-", "space">> /\ Places["item"].after = <<"-", "space", "b">>
  /\ Places["item"].parent = 0 /\ ~Places["item"].flow /\ ~Places["item"].key
  /\ Places["key"].before = <<>> /\ Places["key"].after = <<":", "space", "b">>
  /\ Places["key"].parent = -1 /\ ~Places["key"].flow /\ Places["key"].key
  /\ Places["explicit"].before = <<"?", "space">> /\ Places["explicit"].after = <<":", "space", "b">>
  /\ Places["explicit"].parent = 0 /\ ~Places["explicit"].flow /\ ~Places["explicit"].key
  /\ Places["flow"].before = <<"[">> /\ Places["flow"].after = <<"]">>
  /\ Places["flow"].parent = -1 /\ Places["flow"].flow /\ ~Places["flow"].key
  BY DEF Places, RootPlace, ValuePlace, ItemPlace, KeyPlace, ExplicitKeyPlace, FlowItemPlace

(* Lines are indented by the indent or by twice as much.                           *)
LEMMA MarginIs ==
  ASSUME NEW where \in DOMAIN Places, NEW best \in 2..9
  PROVE  /\ Indent(where, best) \in Nat /\ Indent(where, best) >= 2
         /\ where \in {"root", "value", "key", "explicit"} => Indent(where, best) = best
         /\ where = "item" => Indent(where, best) = 2
<1>1. where \in {"root", "value", "item", "key", "explicit", "flow"} /\ best \in Nat /\ best >= 2
  BY PlacesAre
<1> QED BY ONLY <1>1 DEF Indent

(* What readerc.go lets pass.                                                      *)
Printable == Characters \ {"ctl"}

LEMMA RangeDigits == Range(Digits) = {"1", "2", "3", "4", "5", "6", "7", "8", "9"}
<1>1. DOMAIN Digits = 1..9
  BY DEF Digits
<1>2. \A n \in 1..9 : Digits[n] \in {"1", "2", "3", "4", "5", "6", "7", "8", "9"}
  BY DEF Digits
<1>3. /\ Digits[1] = "1" /\ Digits[2] = "2" /\ Digits[3] = "3" /\ Digits[4] = "4" /\ Digits[5] = "5"
      /\ Digits[6] = "6" /\ Digits[7] = "7" /\ Digits[8] = "8" /\ Digits[9] = "9"
  BY DEF Digits
<1> QED BY <1>1, <1>2, <1>3 DEF Range

LEMMA Known ==
  /\ "z" \notin Characters
  /\ "space" \in Printable /\ "\t" \in Printable /\ "\n" \in Printable /\ "LS" \in Printable
  /\ "-" \in Printable /\ "+" \in Printable /\ ":" \in Printable /\ "\\" \in Printable
  /\ "'" \in Printable /\ "dquote" \in Printable /\ "|" \in Printable /\ ">" \in Printable
  /\ "[" \in Printable /\ "]" \in Printable /\ "a" \in Printable /\ "b" \in Printable
  /\ "n" \in Printable /\ "L" \in Printable /\ "t" \in Printable /\ "x" \in Printable
  /\ "?" \in Printable
  /\ "01" \in Printable
  /\ Range(Digits) \subseteq Printable
  BY RangeDigits, OthersAssumption DEF Characters, Printable, Blank, Break, Indicators

LEMMA SpacesAre ==
  ASSUME NEW m \in Nat
  PROVE  /\ Spaces(m) \in Seq(Printable) /\ Len(Spaces(m)) = m
         /\ \A j \in 1..m : Spaces(m)[j] = "space"
<1>1. Spaces(m) = [j \in 1..m |-> "space"]
  BY DEF Spaces
<1>2. "space" \in Printable
  BY Known
<1> QED BY <1>1, <1>2

(* What is written for v[i].                                                       *)
Piece(v, style, margin, i) ==
    IF style = "plain" THEN Unfolded(v, i, <<v[i]>>, margin)
    ELSE IF style = "single" THEN Unfolded(v, i, Doubled(v[i]), margin)
    ELSE IF style = "double" THEN Escape(v[i])
    ELSE IF v[i] \in Break
         THEN IF style = "folded" /\ Twice(v, i) THEN <<"\n", v[i]>> ELSE <<v[i]>>
         ELSE LineStart(v, i, margin) \o <<v[i]>>

Pieces(v, style, margin) == [i \in DOMAIN v |-> Piece(v, style, margin, i)]

(* What is written before the first piece and after the last.                      *)
Opening(v, style, best) ==
    IF style = "plain" THEN <<>>
    ELSE IF style = "single" THEN <<"'">>
    ELSE IF style = "double" THEN <<"dquote">>
    ELSE IF style = "literal" THEN <<"|">> \o Hints(v, best)
    ELSE <<">">> \o Hints(v, best)

Closing(style) ==
    IF style = "single" THEN <<"'">> ELSE IF style = "double" THEN <<"dquote">> ELSE <<>>

StyleNames == {"plain", "single", "double", "literal", "folded"}

(* Sequences that are not empty stay so.                                           *)
LEMMA Longer ==
  ASSUME NEW S, NEW a \in Seq(S), NEW b \in Seq(S), Len(b) >= 1
  PROVE  a \o b \in Seq(S) /\ Len(a \o b) >= 1
  OBVIOUS

LEMMA OneCharacter ==
  ASSUME NEW c \in Printable
  PROVE  <<c>> \in Seq(Printable) /\ Len(<<c>>) >= 1
  OBVIOUS

LEMMA DoubledIs ==
  ASSUME NEW c \in Printable
  PROVE  Doubled(c) \in Seq(Printable) /\ Len(Doubled(c)) >= 1
  BY Known, OneCharacter DEF Doubled

LEMMA UnfoldedIs ==
  ASSUME NEW v, NEW i, NEW c \in Seq(Printable), Len(c) >= 1, NEW margin \in Nat
  PROVE  /\ Unfolded(v, i, c, margin) \in Seq(Printable) /\ Len(Unfolded(v, i, c, margin)) >= 1
<1>1. CASE v[i] \in Break
  <2>1. v[i] \in Printable
    BY <1>1, Known DEF Break
  <2>2. <<"\n", "\n">> \in Seq(Printable) /\ Len(<<"\n", "\n">>) >= 1
    BY Known
  <2> QED BY <1>1, <2>1, <2>2, OneCharacter DEF Unfolded
<1>2. CASE v[i] \notin Break
  <2>1. PICK b : b = Spaces(margin)
    OBVIOUS
  <2>2. b \in Seq(Printable)
    BY <2>1, SpacesAre
  <2>3. b \o c \in Seq(Printable) /\ Len(b \o c) >= 1
    BY <2>2, Longer
  <2> QED BY <1>2, <2>1, <2>3 DEF Unfolded
<1> QED BY <1>1, <1>2

LEMMA EscapeIs ==
  ASSUME NEW c \in Characters
  PROVE  Escape(c) \in Seq(Printable) /\ Len(Escape(c)) >= 1
<1>1. CASE c \in {"\n", "LS", "\t", "ctl", "dquote", "\\"}
  BY <1>1, Known DEF Escape
<1>2. CASE c \notin {"\n", "LS", "\t", "ctl", "dquote", "\\"}
  <2>1. c \in Printable
    BY <1>2 DEF Printable
  <2> QED BY <1>2, <2>1, OneCharacter DEF Escape
<1> QED BY <1>1, <1>2

LEMMA LineStartIs ==
  ASSUME NEW v, NEW i, NEW margin \in Nat
  PROVE  LineStart(v, i, margin) \in Seq(Printable)
<1>1. PICK b : b = Spaces(margin)
  OBVIOUS
<1>2. b \in Seq(Printable)
  BY <1>1, SpacesAre
<1>3. <<"\n">> \in Seq(Printable) /\ <<>> \in Seq(Printable)
  BY Known
<1>4. <<"\n">> \o b \in Seq(Printable)
  BY <1>2, <1>3
<1> QED BY <1>1, <1>2, <1>3, <1>4 DEF LineStart

(* No piece is empty, and what can be printed stays so.                            *)
LEMMA PieceIs ==
  ASSUME NEW v, NEW style \in StyleNames, NEW i, NEW margin \in Nat,
         v[i] \in Characters, style = "double" \/ v[i] # "ctl"
  PROVE  /\ Piece(v, style, margin, i) \in Seq(Printable)
         /\ Len(Piece(v, style, margin, i)) >= 1
<1>1. CASE style = "double"
  <2>1. Escape(v[i]) \in Seq(Printable) /\ Len(Escape(v[i])) >= 1
    BY EscapeIs
  <2> QED BY <1>1, <2>1 DEF Piece
<1>2. CASE style # "double"
  <2>1. PICK c : c = v[i] /\ c \in Printable
    BY <1>2 DEF Printable
  <2>2. <<c>> \in Seq(Printable) /\ Len(<<c>>) >= 1
    BY <2>1, OneCharacter
  <2>3. PICK d : d = Doubled(c) /\ d \in Seq(Printable) /\ Len(d) >= 1
    BY <2>1, DoubledIs
  <2>4. CASE style = "plain"
    <3>1. PICK b : b = <<c>> /\ b \in Seq(Printable) /\ Len(b) >= 1
      BY <2>2
    <3>2. Unfolded(v, i, b, margin) \in Seq(Printable) /\ Len(Unfolded(v, i, b, margin)) >= 1
      BY <3>1, UnfoldedIs
    <3> QED BY <2>1, <2>4, <3>1, <3>2 DEF Piece
  <2>5. CASE style = "single"
    <3>1. Unfolded(v, i, d, margin) \in Seq(Printable) /\ Len(Unfolded(v, i, d, margin)) >= 1
      BY <2>3, UnfoldedIs
    <3> QED BY <2>1, <2>3, <2>5, <3>1 DEF Piece
  <2>6. CASE style \in {"literal", "folded"}
    <3>1. PICK a, b : a = LineStart(v, i, margin) /\ b = <<c>>
      OBVIOUS
    <3>2. a \in Seq(Printable) /\ b \in Seq(Printable) /\ Len(b) >= 1
      BY <2>2, <3>1, LineStartIs
    <3>3. a \o b \in Seq(Printable) /\ Len(a \o b) >= 1
      BY <3>2, Longer
    <3>4. <<"\n", c>> \in Seq(Printable) /\ Len(<<"\n", c>>) >= 1
      BY <2>1, Known
    <3> QED BY <2>1, <2>2, <2>6, <3>1, <3>3, <3>4 DEF Piece
  <2> QED BY <1>2, <2>4, <2>5, <2>6 DEF StyleNames
<1> QED BY <1>1, <1>2

LEMMA HintsAre ==
  ASSUME NEW v, NEW best \in 2..9
  PROVE  Hints(v, best) \in Seq(Printable)
<1>1. PICK a, b : /\ a = IF v[1] \in {"space"} \cup Break THEN <<Digits[best]>> ELSE <<>>
                  /\ b = IF Last(v) \notin Break THEN <<"-">>
                         ELSE IF At(v, Len(v) - 1) \in Break \cup {"z"} THEN <<"+">> ELSE <<>>
  OBVIOUS
<1>2. Digits[best] \in Printable
  <2>1. DOMAIN Digits = 1..9 /\ best \in 1..9
    BY DEF Digits
  <2> QED BY <2>1, Known DEF Range
<1>3. /\ <<Digits[best]>> \in Seq(Printable) /\ <<"-">> \in Seq(Printable)
      /\ <<"+">> \in Seq(Printable) /\ <<>> \in Seq(Printable)
  BY <1>2, Known
<1>4. a \in Seq(Printable) /\ b \in Seq(Printable)
  BY ONLY <1>1, <1>3
<1>5. Hints(v, best) = a \o b
  BY <1>1 DEF Hints
<1>6. a \o b \in Seq(Printable)
  BY ONLY <1>4
<1> QED BY <1>5, <1>6

LEMMA OpeningIs ==
  ASSUME NEW v, NEW style \in StyleNames, NEW best \in 2..9
  PROVE  /\ Opening(v, style, best) \in Seq(Printable)
         /\ Closing(style) \in Seq(Printable)
<1>1. /\ <<>> \in Seq(Printable) /\ <<"'">> \in Seq(Printable) /\ <<"dquote">> \in Seq(Printable)
      /\ <<"|">> \in Seq(Printable) /\ <<">">> \in Seq(Printable)
  BY Known
<1>2. Closing(style) \in Seq(Printable)
  BY <1>1 DEF Closing
<1>3. CASE style \in {"literal", "folded"}
  <2>1. PICK h : h = Hints(v, best)
    OBVIOUS
  <2>2. h \in Seq(Printable)
    BY <1>3, <2>1, HintsAre
  <2>3. <<"|">> \o h \in Seq(Printable) /\ <<">">> \o h \in Seq(Printable)
    BY <1>1, <2>2
  <2> QED BY <1>2, <1>3, <2>1, <2>3 DEF Opening
<1> QED BY <1>1, <1>2, <1>3 DEF Opening, StyleNames

Blocks == {"literal", "folded"}

LEMMA PiecesAre ==
  ASSUME NEW v, v \in Seq(Characters), NEW style \in StyleNames, NEW margin \in Nat,
         style = "double" \/ ~Has(v, {"ctl"})
  PROVE  /\ Pieces(v, style, margin) \in Seq(Seq(Printable))
         /\ Len(Pieces(v, style, margin)) = Len(v) /\ Len(v) \in Nat /\ DOMAIN v = 1..Len(v)
         /\ \A i \in 1..Len(v) : /\ Pieces(v, style, margin)[i] = Piece(v, style, margin, i)
                                 /\ Len(Piece(v, style, margin, i)) >= 1
<1>1. PICK n : n = Len(v) /\ n \in Nat /\ DOMAIN v = 1..n /\ \A i \in 1..n : v[i] \in Characters
  OBVIOUS
<1>2. ASSUME NEW i \in 1..n
      PROVE  Piece(v, style, margin, i) \in Seq(Printable) /\ Len(Piece(v, style, margin, i)) >= 1
  <2>1. v[i] \in Characters /\ (style = "double" \/ v[i] # "ctl")
    BY <1>1, <1>2 DEF Has
  <2> QED BY ONLY <2>1, PieceIs, style \in StyleNames, margin \in Nat
<1>3. PICK P, q : P = Seq(Printable) /\ q = Pieces(v, style, margin)
  OBVIOUS
<1>4. q = [i \in 1..n |-> Piece(v, style, margin, i)]
  BY <1>1, <1>3 DEF Pieces
<1>5. \A i \in 1..n : q[i] = Piece(v, style, margin, i) /\ q[i] \in P
  BY <1>2, <1>3, <1>4
<1>6. q = [i \in 1..n |-> q[i]] /\ n \in Nat /\ \A i \in 1..n : q[i] \in P
  BY <1>1, <1>4, <1>5
<1>7. q \in Seq(P) /\ Len(q) = n
  BY ONLY <1>6
<1> QED BY <1>1, <1>2, <1>3, <1>5, <1>7

LEMMA NothingMore ==
  ASSUME NEW S, NEW a \in Seq(S)
  PROVE  <<>> \o a = a /\ a \o <<>> = a
  BY ConcatEmptySeq

Grouped(w, o, f, c) == w = (o \o f) \o c

(* Every style writes an opening, the pieces, and a closing.                       *)
LEMMA WrittenIs ==
  ASSUME NEW v, NEW style \in StyleNames, NEW margin, NEW best,
         NEW o, o = Opening(v, style, best), NEW c, c = Closing(style),
         NEW f, f = FlattenSeq(Pieces(v, style, margin)),
         o \in Seq(Printable), c \in Seq(Printable), f \in Seq(Printable)
  PROVE  Grouped(Written(v, style, margin, best), o, f, c)
<1>1. CASE style = "plain"
  <2>1. [i \in DOMAIN v |-> Unfolded(v, i, <<v[i]>>, margin)] = Pieces(v, style, margin)
    BY <1>1 DEF Pieces, Piece
  <2>2. Written(v, style, margin, best) = f /\ o = <<>> /\ c = <<>>
    BY <1>1, <2>1 DEF Written, WritePlain, Opening, Closing
  <2>3. (<<>> \o f) \o <<>> = f
    BY NothingMore
  <2> QED BY <2>2, <2>3 DEF Grouped
<1>2. CASE style = "single"
  <2>1. [i \in DOMAIN v |-> Unfolded(v, i, Doubled(v[i]), margin)] = Pieces(v, style, margin)
    BY <1>2 DEF Pieces, Piece
  <2>2. Written(v, style, margin, best) = (<<"'">> \o f) \o <<"'">>
    BY <1>2, <2>1 DEF Written, WriteSingleQuoted
  <2> QED BY <1>2, <2>2 DEF Opening, Closing, Grouped
<1>3. CASE style = "double"
  <2>1. [i \in DOMAIN v |-> Escape(v[i])] = Pieces(v, style, margin)
    BY <1>3 DEF Pieces, Piece
  <2>2. Written(v, style, margin, best) = (<<"dquote">> \o f) \o <<"dquote">>
    BY <1>3, <2>1 DEF Written, WriteDoubleQuoted
  <2> QED BY <1>3, <2>2 DEF Opening, Closing, Grouped
<1>4. CASE style = "literal"
  <2>1. [i \in DOMAIN v |->
           IF v[i] \in Break THEN <<v[i]>> ELSE LineStart(v, i, margin) \o <<v[i]>>]
        = Pieces(v, style, margin)
    BY <1>4 DEF Pieces, Piece
  <2>2. Written(v, style, margin, best) = o \o f /\ c = <<>>
    BY <1>4, <2>1 DEF Written, WriteLiteral, Opening, Closing
  <2>3. (o \o f) \o <<>> = o \o f
    <3>1. o \o f \in Seq(Printable)
      OBVIOUS
    <3> QED BY <3>1, NothingMore
  <2> QED BY <2>2, <2>3 DEF Grouped
<1>5. CASE style = "folded"
  <2>1. [i \in DOMAIN v |->
           IF v[i] \in Break THEN IF Twice(v, i) THEN <<"\n", v[i]>> ELSE <<v[i]>>
           ELSE LineStart(v, i, margin) \o <<v[i]>>]
        = Pieces(v, style, margin)
    BY <1>5 DEF Pieces, Piece
  <2>2. Written(v, style, margin, best) = o \o f /\ c = <<>>
    BY <1>5, <2>1 DEF Written, WriteFolded, Opening, Closing
  <2>3. (o \o f) \o <<>> = o \o f
    <3>1. o \o f \in Seq(Printable)
      OBVIOUS
    <3> QED BY <3>1, NothingMore
  <2> QED BY <2>2, <2>3 DEF Grouped
<1> QED BY <1>1, <1>2, <1>3, <1>4, <1>5 DEF StyleNames

LEMMA Associative ==
  ASSUME NEW S, NEW a \in Seq(S), NEW b \in Seq(S), NEW c \in Seq(S)
  PROVE  (a \o b) \o c = a \o (b \o c)
  BY ConcatAssociative

SixSequences(S, a, o, f, c, l, z) ==
    /\ a \in Seq(S) /\ o \in Seq(S) /\ f \in Seq(S) /\ c \in Seq(S) /\ l \in Seq(S) /\ z \in Seq(S)

GroupedOne(t, a, o, f, c, l, z) == t = ((a \o ((o \o f) \o c)) \o l) \o z

GroupedTwo(t, a, o, f, c, l, z) == t = (a \o o) \o (f \o ((c \o l) \o z))

LEMMA Regrouped ==
  ASSUME NEW S, NEW a, NEW o, NEW f, NEW c, NEW l, NEW z, SixSequences(S, a, o, f, c, l, z),
         NEW t, GroupedOne(t, a, o, f, c, l, z)
  PROVE  GroupedTwo(t, a, o, f, c, l, z)
<1>1. PICK of, ofc, lz, clz, fclz, cl, ao :
        /\ of = o \o f /\ ofc = of \o c /\ lz = l \o z /\ clz = c \o lz /\ fclz = f \o clz
        /\ cl = c \o l /\ ao = a \o o
  OBVIOUS
<1>0. a \in Seq(S) /\ o \in Seq(S) /\ f \in Seq(S) /\ c \in Seq(S) /\ l \in Seq(S) /\ z \in Seq(S)
  BY DEF SixSequences
<1>2. of \in Seq(S) /\ lz \in Seq(S) /\ cl \in Seq(S) /\ ao \in Seq(S)
  BY <1>0, <1>1
<1>3. ofc \in Seq(S) /\ clz \in Seq(S)
  BY <1>0, <1>1, <1>2
<1>4. fclz \in Seq(S) /\ a \o ofc \in Seq(S)
  BY <1>0, <1>1, <1>3
<1>5. ((a \o ofc) \o l) \o z = (a \o ofc) \o (l \o z)
  <2>1. PICK b : b = a \o ofc
    OBVIOUS
  <2>2. b \in Seq(S) /\ l \in Seq(S) /\ z \in Seq(S)
    BY <1>0, <1>4, <2>1
  <2>3. (b \o l) \o z = b \o (l \o z)
    BY ONLY <2>2, Associative
  <2> QED BY ONLY <2>1, <2>3, Zenon
<1>6. (a \o ofc) \o lz = a \o (ofc \o lz)
  <2>1. a \in Seq(S) /\ ofc \in Seq(S) /\ lz \in Seq(S)
    BY <1>0, <1>1, <1>2, <1>3, <1>4
  <2> QED BY ONLY <2>1, Associative
<1>7. (of \o c) \o lz = of \o (c \o lz)
  <2>1. of \in Seq(S) /\ c \in Seq(S) /\ lz \in Seq(S)
    BY <1>0, <1>1, <1>2, <1>3, <1>4
  <2> QED BY ONLY <2>1, Associative
<1>8. (o \o f) \o clz = o \o (f \o clz)
  <2>1. o \in Seq(S) /\ f \in Seq(S) /\ clz \in Seq(S)
    BY <1>0, <1>1, <1>2, <1>3, <1>4
  <2> QED BY ONLY <2>1, Associative
<1>9. a \o (o \o fclz) = (a \o o) \o fclz
  <2>1. a \in Seq(S) /\ o \in Seq(S) /\ fclz \in Seq(S)
    BY <1>0, <1>1, <1>2, <1>3, <1>4
  <2> QED BY ONLY <2>1, Associative
<1>10. (c \o l) \o z = c \o (l \o z)
  <2>1. c \in Seq(S) /\ l \in Seq(S) /\ z \in Seq(S)
    BY <1>0, <1>1, <1>2, <1>3, <1>4
  <2> QED BY ONLY <2>1, Associative
<1>11. ((a \o ofc) \o l) \o z = ao \o (f \o (cl \o z))
  BY ONLY <1>1, <1>5, <1>6, <1>7, <1>8, <1>9, <1>10, Zenon
<1> QED BY ONLY <1>1, <1>11, GroupedOne(t, a, o, f, c, l, z), Zenon DEF GroupedOne, GroupedTwo

(* What stands in the text after the pieces.                                       *)
Line(v, style, where) ==
    IF \/ Places[where].key \/ Places[where].flow
       \/ style \in Blocks /\ v[Len(v)] \in Break
    THEN <<>> ELSE <<"\n">>

Rest(v, style, where) == (Closing(style) \o Line(v, style, where)) \o Places[where].after

LEMMA Joined ==
  ASSUME NEW S, NEW a, NEW b, NEW l, NEW m, a \in Seq(S), b \in Seq(S), l = Len(a), m = Len(b)
  PROVE  /\ a \o b \in Seq(S) /\ Len(a \o b) = l + m /\ l \in Nat /\ m \in Nat
         /\ \A i \in 1..l : (a \o b)[i] = a[i]
         /\ \A i \in 1..m : (a \o b)[l + i] = b[i]
<1>1. a \in Seq(S) /\ b \in Seq(S)
  OBVIOUS
<1>2. /\ a \o b \in Seq(S) /\ Len(a \o b) = Len(a) + Len(b) /\ Len(a) \in Nat /\ Len(b) \in Nat
      /\ \A i \in 1..Len(a) : (a \o b)[i] = a[i]
      /\ \A i \in 1..Len(b) : (a \o b)[Len(a) + i] = b[i]
  BY ONLY <1>1, Concatenated
<1> QED BY ONLY <1>2, l = Len(a), m = Len(b)

LEMMA SpacesBefore ==
  ASSUME NEW c, NEW margin \in Nat, NEW s, s = Spaces(margin), NEW t, t = s \o <<c>>
  PROVE  /\ Len(t) = margin + 1
         /\ \A j \in 1..margin : t[j] = "space"
         /\ t[margin + 1] = c
<1>1. PICK S, C : S = {"space"} \cup {c} /\ C = <<c>>
  OBVIOUS
<1>2. s \in Seq(S) /\ margin = Len(s) /\ \A j \in 1..margin : s[j] = "space"
  BY <1>1 DEF Spaces
<1>3. C \in Seq(S) /\ 1 = Len(C) /\ C[1] = c
  BY <1>1
<1>4. t = s \o C
  BY <1>1
<1>5. /\ Len(s \o C) = Len(s) + Len(C) /\ \A j \in 1..Len(s) : (s \o C)[j] = s[j]
      /\ \A j \in 1..Len(C) : (s \o C)[Len(s) + j] = C[j]
  <2>1. s \in Seq(S) /\ C \in Seq(S)
    BY <1>2, <1>3
  <2> QED BY ONLY <2>1, Joined
<1>6. margin \in Nat
  OBVIOUS
<1>7. /\ Len(t) = margin + 1 /\ \A j \in 1..margin : t[j] = s[j]
      /\ \A j \in 1..1 : t[margin + j] = C[j]
  BY ONLY <1>2, <1>3, <1>4, <1>5
<1> QED BY ONLY <1>2, <1>3, <1>6, <1>7

SpacesFrom(t, p, margin) == \A j \in 1..margin : t[j + p] = "space"

FirstLine(t, margin, c) == t = (<<"\n">> \o Spaces(margin)) \o <<c>>

LEMMA LineStartBefore ==
  ASSUME NEW c, NEW margin \in Nat, NEW t, FirstLine(t, margin, c)
  PROVE  /\ Len(t) = margin + 2
         /\ t[1] = "\n" /\ SpacesFrom(t, 1, margin)
         /\ t[margin + 2] = c
<1>1. PICK S, C, N, b, s : /\ S = {"space", "\n"} \cup {c} /\ C = <<c>> /\ N = <<"\n">>
                           /\ b = Spaces(margin) /\ s = <<"\n">> \o b
  OBVIOUS
<1>2. b \in Seq(S) /\ margin = Len(b) /\ \A j \in 1..margin : b[j] = "space"
  BY <1>1 DEF Spaces
<1>3. C \in Seq(S) /\ 1 = Len(C) /\ C[1] = c
  BY <1>1
<1>4. N \in Seq(S) /\ 1 = Len(N) /\ N[1] = "\n"
  BY <1>1
<1>5. s = N \o b /\ t = s \o C
  BY <1>1 DEF FirstLine
<1>6. /\ s \in Seq(S) /\ Len(s) = 1 + margin /\ \A j \in 1..1 : s[j] = N[j]
      /\ \A j \in 1..margin : s[1 + j] = b[j]
  <2>1. N \in Seq(S) /\ b \in Seq(S)
    BY <1>2, <1>4
  <2>2. /\ N \o b \in Seq(S) /\ Len(N \o b) = Len(N) + Len(b)
        /\ \A j \in 1..Len(N) : (N \o b)[j] = N[j]
        /\ \A j \in 1..Len(b) : (N \o b)[Len(N) + j] = b[j]
    BY ONLY <2>1, Joined
  <2> QED BY ONLY <1>2, <1>4, <1>5, <2>2
<1>7. /\ Len(t) = 1 + margin + 1 /\ \A j \in 1..(1 + margin) : t[j] = s[j]
      /\ \A j \in 1..1 : t[1 + margin + j] = C[j]
  <2>1. s \in Seq(S) /\ C \in Seq(S)
    BY <1>3, <1>6
  <2>2. /\ Len(s \o C) = Len(s) + Len(C)
        /\ \A j \in 1..Len(s) : (s \o C)[j] = s[j]
        /\ \A j \in 1..Len(C) : (s \o C)[Len(s) + j] = C[j]
    BY ONLY <2>1, Joined
  <2> QED BY ONLY <1>3, <1>5, <1>6, <2>2
<1>8. margin \in Nat
  OBVIOUS
<1>9. Len(t) = margin + 2 /\ t[1] = "\n" /\ t[margin + 2] = c
  BY ONLY <1>2, <1>3, <1>4, <1>6, <1>7, <1>8
<1>10. \A j \in 1..margin : t[j + 1] = "space"
  BY ONLY <1>2, <1>3, <1>4, <1>6, <1>7, <1>8
<1> QED BY ONLY <1>9, <1>10 DEF SpacesFrom

LEMMA LastOfPiece ==
  ASSUME NEW v, NEW style \in {"plain", "literal", "folded"}, NEW i \in Nat, NEW margin \in Nat,
         NEW p, p = Piece(v, style, margin, i)
  PROVE  p[Len(p)] = v[i]
<1>1. PICK c : c = v[i]
  OBVIOUS
<1>2. ASSUME p = <<c>> PROVE p[Len(p)] = c
  BY ONLY <1>2
<1>3. ASSUME p = <<"\n", c>> PROVE p[Len(p)] = c
  BY ONLY <1>3
<1>4. ASSUME p = Spaces(margin) \o <<c>> PROVE p[Len(p)] = c
  <2>1. PICK s : s = Spaces(margin) /\ p = s \o <<c>>
    BY <1>4
  <2>2. margin \in Nat
    OBVIOUS
  <2>3. Len(p) = margin + 1 /\ p[margin + 1] = c
    BY ONLY <2>1, <2>2, SpacesBefore, SMTT(60)
  <2> QED BY ONLY <2>3
<1>5. ASSUME p = (<<"\n">> \o Spaces(margin)) \o <<c>> PROVE p[Len(p)] = c
  <2>1. margin \in Nat
    OBVIOUS
  <2>2. Len(p) = margin + 2 /\ p[margin + 2] = c
    <3>1. FirstLine(p, margin, c)
      BY ONLY <1>5, Zenon DEF FirstLine
    <3> QED BY ONLY <2>1, <3>1, LineStartBefore
  <2> QED BY ONLY <2>2
<1>6. p = <<c>> \/ p = <<"\n", c>> \/ p = Spaces(margin) \o <<c>>
      \/ p = (<<"\n">> \o Spaces(margin)) \o <<c>>
  <2>1. CASE style = "plain"
    BY <1>1, <2>1 DEF Piece, Unfolded
  <2>2. CASE style # "plain"
    <3>1. <<>> \o <<c>> = <<c>>
      OBVIOUS
    <3> QED BY <1>1, <2>2, <3>1 DEF Piece, LineStart
  <2> QED BY <2>1, <2>2
<1> QED BY ONLY <1>1, <1>2, <1>3, <1>4, <1>5, <1>6

-----------------------------------------------------------------------------
(* What the styles are granted for, and the text.                                  *)
(* What select_scalar_style grants.                                                *)
Granted(v, style, where) ==
    /\ style \in StyleNames
    /\ Places[where].key /\ Has(v, Break) => style = "double"
    /\ style = "plain" => PlainAllowed(v, Places[where].flow) /\ ~(v = <<>> /\ Places[where].key)
    /\ style = "single" => SingleQuotedAllowed(v)
    /\ style \in Blocks => BlockAllowed(v) /\ ~Places[where].flow /\ ~Places[where].key

(* What select_scalar_style chooses is granted.                                    *)
LEMMA Selected ==
  ASSUME NEW v, NEW style \in StyleNames, NEW where
  PROVE  Granted(v, SelectStyle(v, style, where), where)
<1>1. PICK key, flow, hasbreak, plain, single, inblock, empty :
        /\ key = Places[where].key /\ flow = Places[where].flow /\ hasbreak = Has(v, Break)
        /\ plain = PlainAllowed(v, flow) /\ single = SingleQuotedAllowed(v)
        /\ inblock = BlockAllowed(v) /\ empty = (v = <<>>)
  OBVIOUS
<1>2. PICK m, p, s, f :
        /\ m = IF key /\ hasbreak THEN "double" ELSE style
        /\ p = IF m = "plain" /\ (~plain \/ (empty /\ key)) THEN "single" ELSE m
        /\ s = IF p = "single" /\ ~single THEN "double" ELSE p
        /\ f = IF s \in Blocks /\ (~inblock \/ flow \/ key) THEN "double" ELSE s
  OBVIOUS
<1>3. SelectStyle(v, style, where) = f
  BY <1>1, <1>2 DEF SelectStyle, Blocks
<1>4. /\ f \in StyleNames
      /\ key /\ hasbreak => f = "double"
      /\ f = "plain" => plain /\ ~(empty /\ key)
      /\ f = "single" => single
      /\ f \in Blocks => inblock /\ ~flow /\ ~key
  BY <1>2 DEF StyleNames, Blocks
<1> QED BY <1>1, <1>3, <1>4 DEF Granted

(* What it grants it grants again.                                                 *)
LEMMA SelectedAgain ==
  ASSUME NEW v, NEW style, NEW where, Granted(v, style, where)
  PROVE  SelectStyle(v, style, where) = style
<1>1. /\ style \in StyleNames
      /\ Places[where].key /\ Has(v, Break) => style = "double"
      /\ style = "plain" => PlainAllowed(v, Places[where].flow) /\ ~(v = <<>> /\ Places[where].key)
      /\ style = "single" => SingleQuotedAllowed(v)
      /\ style \in Blocks => BlockAllowed(v) /\ ~Places[where].flow /\ ~Places[where].key
  BY DEF Granted
<1> QED BY <1>1 DEF SelectStyle, StyleNames, Blocks

LEMMA Unprintable ==
  ASSUME NEW v, v \in Seq(Characters), NEW style, NEW where, Granted(v, style, where)
  PROVE  style = "double" \/ ~Has(v, {"ctl"})
<1>1. CASE style = "plain"
  <2>1. v = <<>> \/ ~Has(v, Break \cup {"\t", "ctl"})
    BY <1>1 DEF Granted, PlainAllowed
  <2> QED BY <2>1 DEF Has
<1>2. CASE style = "single"
  <2>1. ~Has(v, {"\t", "ctl"})
    BY <1>2 DEF Granted, SingleQuotedAllowed
  <2> QED BY <2>1 DEF Has
<1>3. CASE style \in Blocks
  BY <1>3 DEF Granted, BlockAllowed
<1>4. style \in StyleNames
  BY DEF Granted
<1> QED BY <1>1, <1>2, <1>3, <1>4 DEF StyleNames, Blocks

(* The text, and where what was written for each character stands in it.           *)
Layout(v, style, where, best, t, off) ==
    LET n == Len(v)
        margin == Indent(where, best)
        rest == Rest(v, style, where)
    IN /\ off[1] = Len(Places[where].before) + Len(Opening(v, style, best)) + 1
       /\ \A k \in 1..(n + 1) : off[k] \in Nat
       /\ \A k \in 1..n : off[k + 1] = off[k] + Len(Piece(v, style, margin, k))
       /\ \A k \in 1..n : \A j \in 1..Len(Piece(v, style, margin, k)) :
             At(t, off[k] + j - 1) = Piece(v, style, margin, k)[j]
       /\ \A j \in 1..Len(rest) : At(t, off[n + 1] + j - 1) = rest[j]
       /\ At(t, off[n + 1] + Len(rest)) = "z"
       /\ \A j \in 1..Len(Opening(v, style, best)) :
             At(t, Len(Places[where].before) + j) = Opening(v, style, best)[j]

LEMMA NotEmpty ==
  ASSUME NEW S, NEW v, v \in Seq(S), v # <<>>
  PROVE  Len(v) \in Nat /\ Len(v) >= 1 /\ DOMAIN v = 1..Len(v)
  OBVIOUS

(* The scalar ends a line by itself if it is a block and its string does.          *)
LEMMA LastOfScalar ==
  ASSUME NEW v, v \in Seq(Characters), NEW style, NEW where, Granted(v, style, where),
         NEW margin \in Nat, NEW o, NEW f, NEW c, NEW w,
         o \in Seq(Printable), f \in Seq(Printable), c \in Seq(Printable),
         f = FlattenSeq(Pieces(v, style, margin)), c = Closing(style), w = (o \o f) \o c,
         style = "plain" => o = <<>>
  PROVE  w # <<>> /\ Last(w) \in Break <=> style \in Blocks /\ v[Len(v)] \in Break
<1>0. style \in StyleNames
  BY DEF Granted
<1>1. CASE style \in {"single", "double"}
  <2>1. Len(c) = 1 /\ c[1] \notin Break
    BY <1>1 DEF Closing, Break
  <2>2. PICK e : e = o \o f
    OBVIOUS
  <2>3. e \in Seq(Printable) /\ c \in Seq(Printable)
    <3>1. o \in Seq(Printable) /\ f \in Seq(Printable)
      OBVIOUS
    <3>2. o \o f \in Seq(Printable)
      BY ONLY <3>1
    <3> QED BY <2>2, <3>2
  <2>4. /\ Len(e \o c) = Len(e) + Len(c) /\ Len(e) \in Nat
        /\ \A i \in 1..Len(c) : (e \o c)[Len(e) + i] = c[i]
    BY ONLY <2>3, Joined
  <2>5. w = e \o c
    BY <2>2
  <2>6. w[Len(w)] = c[1]
    BY ONLY <2>1, <2>4, <2>5
  <2> QED BY <1>1, <2>1, <2>6 DEF Blocks, Last
<1>2. CASE style \in {"plain", "literal", "folded"}
  <2>1. c = <<>>
    BY <1>2 DEF Closing
  <2>2. o \in Seq(Printable) /\ f \in Seq(Printable)
    OBVIOUS
  <2>3. PICK e : e = o \o f /\ e \in Seq(Printable)
    <3>1. o \o f \in Seq(Printable)
      BY ONLY <2>2
    <3> QED BY <3>1
  <2>4. w = e
    <3>1. w = e \o <<>>
      BY <2>1, <2>3
    <3> QED BY ONLY <2>3, <3>1, NothingMore
  <2>5. /\ Pieces(v, style, margin) \in Seq(Seq(Printable))
        /\ Len(Pieces(v, style, margin)) = Len(v) /\ Len(v) \in Nat
        /\ \A i \in 1..Len(v) : /\ Pieces(v, style, margin)[i] = Piece(v, style, margin, i)
                                /\ Len(Piece(v, style, margin, i)) >= 1
    BY <1>0, PiecesAre, Unprintable
  <2>6. CASE v = <<>>
    <3>1. style = "plain"
      BY <1>2, <2>6 DEF Granted, Blocks, BlockAllowed
    <3>2. Pieces(v, style, margin) = <<>>
      BY <2>6 DEF Pieces
    <3>3. f = <<>> /\ o = <<>>
      BY <3>1, <3>2 DEF FlattenSeq
    <3>4. w = <<>>
      BY <2>3, <2>4, <3>3
    <3> QED BY <3>1, <3>4 DEF Blocks
  <2>7. CASE v # <<>>
    <3>1. PICK n, q : n = Len(v) /\ q = Pieces(v, style, margin) /\ n \in Nat /\ n >= 1
      <4>1. v \in Seq(Characters) /\ v # <<>>
        BY <2>7
      <4>2. Len(v) \in Nat /\ Len(v) >= 1
        BY ONLY <4>1, NotEmpty
      <4> QED BY <4>2
    <3>2. q \in Seq(Seq(Printable)) /\ n = Len(q)
      BY <2>5, <3>1
    <3>3. PICK off : LaidOut(FlattenSeq(q), q, n, off) /\ off[n + 1] = Len(FlattenSeq(q)) + 1
      BY ONLY <3>2, FlattenLaidOut
    <3>4. PICK p : p = Piece(v, style, margin, n)
      OBVIOUS
    <3>5. q[n] = p /\ Len(p) >= 1 /\ Len(p) \in Nat
      <4>1. q[n] = p /\ Len(p) >= 1
        BY <2>5, <3>1, <3>4
      <4>2. p \in Seq(Printable)
        <5>1. v[n] \in Characters /\ n \in DOMAIN v
          <6>1. v \in Seq(Characters) /\ n = Len(v) /\ n >= 1 /\ n \in Nat
            BY <3>1
          <6> QED BY ONLY <6>1
        <5>2. style = "double" \/ v[n] # "ctl"
          BY <5>1, Unprintable DEF Has
        <5>3. margin \in Nat /\ n \in Nat
          BY <3>1
        <5> QED BY ONLY <1>0, <3>4, <5>1, <5>2, <5>3, PieceIs
      <4>3. Len(p) \in Nat
        BY ONLY <4>2
      <4> QED BY <4>1, <4>3
    <3>6. p[Len(p)] = v[n]
      <4>1. margin \in Nat /\ n \in Nat
        BY <3>1
      <4> QED BY ONLY <1>2, <3>4, <4>1, LastOfPiece
    <3>7. /\ n \in 1..n /\ off[n + 1] = off[n] + Len(p) /\ off[n] \in Nat
          /\ f[off[n] + Len(p) - 1] = p[Len(p)] /\ off[n + 1] = Len(f) + 1
      <4>1. f = FlattenSeq(q) /\ n \in 1..n /\ n \in 1..(n + 1) /\ Len(p) \in 1..Len(p)
        BY <3>1, <3>5
      <4>2. /\ off[n] \in Nat /\ off[n + 1] = off[n] + Len(q[n])
            /\ \A j \in 1..Len(q[n]) : f[off[n] + j - 1] = q[n][j]
        BY <3>3, <4>1 DEF LaidOut
      <4> QED BY ONLY <3>3, <3>5, <4>1, <4>2
    <3>8. f[Len(f)] = v[n] /\ Len(f) >= 1
      <4>1. Len(f) \in Nat
        BY ONLY <2>2
      <4>2. off[n] + Len(p) - 1 = Len(f) /\ off[n] \in Nat \ {0}
        <5>1. off[n] \in Nat \ {0}
          BY <3>3, <3>7 DEF LaidOut
        <5> QED BY ONLY <3>5, <3>7, <4>1, <5>1
      <4> QED BY ONLY <3>5, <3>6, <3>7, <4>1, <4>2
    <3>9. w[Len(w)] = v[n] /\ w # <<>>
      <4>1. /\ Len(o \o f) = Len(o) + Len(f) /\ Len(o) \in Nat
            /\ \A i \in 1..Len(f) : (o \o f)[Len(o) + i] = f[i]
        BY ONLY <2>2, Joined
      <4>2. Len(w) = Len(o) + Len(f) /\ w[Len(o) + Len(f)] = f[Len(f)] /\ Len(f) \in Nat
        BY <2>2, <2>3, <2>4, <3>8, <4>1
      <4>3. Len(w) # 0
        BY ONLY <3>8, <4>1, <4>2
      <4> QED BY <3>8, <4>2, <4>3
    <3>10. style = "plain" => v[n] \notin Break
      <4>1. ASSUME style = "plain" PROVE ~Has(v, Break \cup {"\t", "ctl"})
        BY <2>7, <4>1 DEF Granted, PlainAllowed
      <4>2. n \in DOMAIN v
        BY <3>1
      <4> QED BY <4>1, <4>2 DEF Has
    <3> QED BY <1>2, <3>1, <3>9, <3>10 DEF Blocks, Last
  <2> QED BY <2>6, <2>7
<1> QED BY <1>0, <1>1, <1>2 DEF StyleNames

(* A character of a sequence, or the end.                                          *)
LEMMA AtIs ==
  ASSUME NEW S, NEW t, t \in Seq(S)
  PROVE  /\ Len(t) \in Nat
         /\ \A i \in 1..Len(t) : At(t, i) = t[i] /\ t[i] \in S
         /\ \A i : i \notin 1..Len(t) => At(t, i) = "z"
<1>1. Len(t) \in Nat /\ DOMAIN t = 1..Len(t) /\ \A i \in 1..Len(t) : t[i] \in S
  OBVIOUS
<1> QED BY <1>1 DEF At

(* Four sequences one after the other.                                             *)
LEMMA FourJoined ==
  ASSUME NEW S, NEW b, NEW o, NEW f, NEW r,
         b \in Seq(S), o \in Seq(S), f \in Seq(S), r \in Seq(S),
         NEW t, t = (b \o o) \o (f \o r)
  PROVE  /\ t \in Seq(S) /\ Len(t) = Len(b) + Len(o) + Len(f) + Len(r)
         /\ Len(b) \in Nat /\ Len(o) \in Nat /\ Len(f) \in Nat /\ Len(r) \in Nat
         /\ \A j \in 1..Len(o) : t[Len(b) + j] = o[j]
         /\ \A j \in 1..Len(f) : t[Len(b) + Len(o) + j] = f[j]
         /\ \A j \in 1..Len(r) : t[Len(b) + Len(o) + Len(f) + j] = r[j]
<1>1. PICK x, y : x = b \o o /\ y = f \o r
  OBVIOUS
<1>2. /\ x \in Seq(S) /\ Len(x) = Len(b) + Len(o) /\ Len(b) \in Nat /\ Len(o) \in Nat
      /\ \A j \in 1..Len(o) : x[Len(b) + j] = o[j]
  <2>1. b \in Seq(S) /\ o \in Seq(S)
    OBVIOUS
  <2>2. /\ b \o o \in Seq(S) /\ Len(b \o o) = Len(b) + Len(o) /\ Len(b) \in Nat /\ Len(o) \in Nat
        /\ \A j \in 1..Len(o) : (b \o o)[Len(b) + j] = o[j]
    BY ONLY <2>1, Joined
  <2> QED BY ONLY <1>1, <2>2
<1>3. /\ y \in Seq(S) /\ Len(y) = Len(f) + Len(r) /\ Len(f) \in Nat /\ Len(r) \in Nat
      /\ \A j \in 1..Len(f) : y[j] = f[j]
      /\ \A j \in 1..Len(r) : y[Len(f) + j] = r[j]
  <2>1. f \in Seq(S) /\ r \in Seq(S)
    OBVIOUS
  <2>2. /\ f \o r \in Seq(S) /\ Len(f \o r) = Len(f) + Len(r) /\ Len(f) \in Nat /\ Len(r) \in Nat
        /\ \A j \in 1..Len(f) : (f \o r)[j] = f[j]
        /\ \A j \in 1..Len(r) : (f \o r)[Len(f) + j] = r[j]
    BY ONLY <2>1, Joined
  <2> QED BY ONLY <1>1, <2>2
<1>4. /\ t \in Seq(S) /\ Len(t) = Len(x) + Len(y)
      /\ \A j \in 1..Len(x) : t[j] = x[j]
      /\ \A j \in 1..Len(y) : t[Len(x) + j] = y[j]
  <2>1. x \in Seq(S) /\ y \in Seq(S)
    BY <1>2, <1>3
  <2>2. /\ x \o y \in Seq(S) /\ Len(x \o y) = Len(x) + Len(y)
        /\ \A j \in 1..Len(x) : (x \o y)[j] = x[j]
        /\ \A j \in 1..Len(y) : (x \o y)[Len(x) + j] = y[j]
    BY ONLY <2>1, Joined
  <2>3. t = x \o y
    BY <1>1
  <2> QED BY ONLY <2>2, <2>3
<1>5. PICK lb, lo, lf, lr : lb = Len(b) /\ lo = Len(o) /\ lf = Len(f) /\ lr = Len(r)
  OBVIOUS
<1>6. /\ Len(x) = lb + lo /\ Len(y) = lf + lr /\ lb \in Nat /\ lo \in Nat /\ lf \in Nat /\ lr \in Nat
      /\ \A j \in 1..lo : x[lb + j] = o[j]
      /\ \A j \in 1..lf : y[j] = f[j]
      /\ \A j \in 1..lr : y[lf + j] = r[j]
  BY ONLY <1>2, <1>3, <1>5
<1>7. ASSUME NEW j \in 1..lo PROVE t[lb + j] = o[j]
  <2>1. lb + j \in 1..Len(x)
    BY ONLY <1>6, <1>7
  <2> QED BY ONLY <1>4, <1>6, <1>7, <2>1
<1>8. ASSUME NEW j \in 1..lf PROVE t[lb + lo + j] = f[j]
  <2>1. j \in 1..Len(y)
    BY ONLY <1>6, <1>8
  <2> QED BY ONLY <1>4, <1>6, <1>8, <2>1
<1>9. ASSUME NEW j \in 1..lr PROVE t[lb + lo + lf + j] = r[j]
  <2>1. lf + j \in 1..Len(y)
    BY ONLY <1>6, <1>9
  <2>3. t[Len(x) + (lf + j)] = y[lf + j]
    BY ONLY <1>4, <2>1
  <2>4. y[lf + j] = r[j]
    BY ONLY <1>6, <1>9
  <2>2. Len(x) + (lf + j) = lb + lo + lf + j
    <3>1. Len(x) = lb + lo /\ lb \in Nat /\ lo \in Nat /\ lf \in Nat /\ j \in Nat
      BY ONLY <1>6, <1>9
    <3> QED BY ONLY <3>1
  <2> QED BY ONLY <2>2, <2>3, <2>4
<1> QED BY <1>4, <1>5, <1>6, <1>7, <1>8, <1>9

(* After d characters of t there is f.                                             *)
StandsAt(t, d, f, l) == \A j \in 1..l : At(t, d + j) = f[j]

Moved(off, first, n, d) == off = [k \in 1..(n + 1) |-> d + first[k]]

Standing(t, q, n, off, first, d) ==
    /\ \A k \in 1..(n + 1) : off[k] \in Nat /\ off[k] = d + first[k]
    /\ \A k \in 1..n : off[k + 1] = off[k] + Len(q[k])
    /\ \A k \in 1..n : \A j \in 1..Len(q[k]) : At(t, off[k] + j - 1) = q[k][j]

(* Pieces that are laid out in f are, further to the right, where f is a part.     *)
LEMMA Shifted ==
  ASSUME NEW q, NEW n \in Nat, NEW f, NEW t, NEW d \in Nat, NEW first, NEW l \in Nat,
         LaidOut(f, q, n, first), Len(f) = l, \A k \in 1..n : Len(q[k]) \in Nat,
         StandsAt(t, d, f, l), NEW off, Moved(off, first, n, d)
  PROVE  Standing(t, q, n, off, first, d)
<1>1. /\ \A k \in 1..(n + 1) : first[k] \in Nat \ {0}
      /\ \A k \in 1..n : first[k + 1] = first[k] + Len(q[k])
      /\ \A k \in 1..n : \A j \in 1..Len(q[k]) :
            first[k] + j - 1 \in 1..l /\ f[first[k] + j - 1] = q[k][j]
  BY DEF LaidOut
<1>2. \A k \in 1..(n + 1) : off[k] \in Nat /\ off[k] = d + first[k]
  BY <1>1 DEF Moved
<1>3. ASSUME NEW k \in 1..n PROVE off[k + 1] = off[k] + Len(q[k])
  <2>1. k \in 1..(n + 1) /\ k + 1 \in 1..(n + 1)
    OBVIOUS
  <2>2. first[k + 1] = first[k] + Len(q[k]) /\ off[k + 1] = d + first[k + 1] /\ off[k] = d + first[k]
        /\ first[k] \in Nat /\ first[k + 1] \in Nat
    BY <1>1, <1>2, <2>1
  <2>3. PICK x : x = Len(q[k]) /\ first[k + 1] = first[k] + x
    BY <2>2
  <2>4. q[k] = q[k] /\ d \in Nat /\ x \in Nat
    BY <2>3
  <2> QED BY ONLY <2>2, <2>3, <2>4
<1>4. ASSUME NEW k \in 1..n, NEW j \in 1..Len(q[k]) PROVE At(t, off[k] + j - 1) = q[k][j]
  <2>1. PICK i : i = first[k] + j - 1 /\ i \in 1..l /\ f[i] = q[k][j]
    BY <1>1, <1>4
  <2>2. off[k] = d + first[k] /\ first[k] \in Nat /\ d \in Nat /\ j \in Int
    BY <1>1, <1>2
  <2>3. off[k] + j - 1 = d + i
    BY ONLY <2>1, <2>2
  <2> QED BY <2>1, <2>3 DEF StandsAt
<1> QED BY <1>2, <1>3, <1>4 DEF Standing

(* The text of a scalar in its place.                                              *)
LEMMA TextIs ==
  ASSUME NEW v, v \in Seq(Characters), NEW style, NEW where \in DOMAIN Places,
         Granted(v, style, where), NEW best \in 2..9,
         NEW t, t = WriteAt(v, style, where, best)
  PROVE  /\ t \in Seq(Printable) /\ \E off : Layout(v, style, where, best, t, off)
         /\ Len(Places[where].before) \in 0..Len(t)
<1>1. style \in StyleNames
  BY DEF Granted
<1>2. PICK margin : margin = Indent(where, best) /\ margin \in Nat
  BY MarginIs
<1>3. PICK b, a, o, c, l, r :
        /\ b = Places[where].before /\ a = Places[where].after
        /\ o = Opening(v, style, best) /\ c = Closing(style) /\ l = Line(v, style, where)
        /\ r = Rest(v, style, where)
  OBVIOUS
<1>4. o \in Seq(Printable) /\ c \in Seq(Printable)
  BY <1>1, <1>3, OpeningIs
<1>5. b \in Seq(Printable) /\ a \in Seq(Printable) /\ l \in Seq(Printable)
  <2>1. /\ <<>> \in Seq(Printable) /\ <<"\n">> \in Seq(Printable) /\ <<"a", ":", "space">> \in Seq(Printable)
        /\ <<"b">> \in Seq(Printable) /\ <<"-", "space">> \in Seq(Printable)
        /\ <<"-", "space", "b">> \in Seq(Printable) /\ <<":", "space", "b">> \in Seq(Printable)
        /\ <<"[">> \in Seq(Printable) /\ <<"]">> \in Seq(Printable)
        /\ <<"?", "space">> \in Seq(Printable)
    BY Known
  <2>2. where \in {"root", "value", "item", "key", "explicit", "flow"}
    BY PlacesAre
  <2>3. b \in Seq(Printable)
    BY ONLY <1>3, <2>1, <2>2, PlacesAre
  <2>4. a \in Seq(Printable)
    BY ONLY <1>3, <2>1, <2>2, PlacesAre
  <2>5. l \in Seq(Printable)
    BY <1>3, <2>1 DEF Line
  <2> QED BY <2>3, <2>4, <2>5
<1>6. r \in Seq(Printable) /\ r = (c \o l) \o a
  <2>1. r = (c \o l) \o a
    BY <1>3 DEF Rest
  <2>2. c \in Seq(Printable) /\ l \in Seq(Printable) /\ a \in Seq(Printable)
    BY <1>4, <1>5
  <2>3. PICK y : y = c \o l
    OBVIOUS
  <2>4. y \in Seq(Printable)
    BY ONLY <2>2, <2>3
  <2>5. y \o a \in Seq(Printable)
    BY ONLY <2>2, <2>4
  <2> QED BY <2>1, <2>3, <2>5
<1>7. PICK n, q, f : n = Len(v) /\ q = Pieces(v, style, margin) /\ f = FlattenSeq(q)
  OBVIOUS
<1>8. /\ q \in Seq(Seq(Printable)) /\ n = Len(q) /\ n \in Nat /\ DOMAIN v = 1..n
      /\ \A i \in 1..n : q[i] = Piece(v, style, margin, i)
  BY <1>1, <1>2, <1>7, PiecesAre, Unprintable
<1>9. \A i \in 1..n : Len(q[i]) \in Nat
  <2>1. PICK P : P = Seq(Printable)
    OBVIOUS
  <2>2. q \in Seq(P) /\ n = Len(q)
    BY <1>8, <2>1
  <2>3. \A i \in 1..n : q[i] \in P
    BY ONLY <2>2
  <2> QED BY <2>1, <2>3
<1>10. f \in Seq(Printable)
  BY ONLY <1>7, <1>8, FlattenLaidOut
<1>11. PICK first : LaidOut(f, q, n, first) /\ first[1] = 1 /\ first[n + 1] = Len(f) + 1
  BY ONLY <1>7, <1>8, FlattenLaidOut
<1>12. PICK w : w = (o \o f) \o c
  OBVIOUS
<1>13. Written(v, style, margin, best) = w
  <2>1. o = Opening(v, style, best) /\ c = Closing(style) /\ f = FlattenSeq(Pieces(v, style, margin))
    BY <1>3, <1>7
  <2>2. Grouped(Written(v, style, margin, best), o, f, c)
    BY ONLY <1>1, <1>4, <1>10, <2>1, WrittenIs
  <2> QED BY ONLY <1>12, <2>2, Zenon DEF Grouped
<1>14. w # <<>> /\ Last(w) \in Break <=> style \in Blocks /\ v[Len(v)] \in Break
  <2>1. style = "plain" => o = <<>>
    BY <1>3 DEF Opening
  <2>2. /\ v \in Seq(Characters) /\ Granted(v, style, where) /\ margin \in Nat
        /\ f = FlattenSeq(Pieces(v, style, margin)) /\ c = Closing(style)
    BY <1>2, <1>3, <1>7
  <2> QED BY ONLY <1>4, <1>10, <1>12, <2>1, <2>2, LastOfScalar
<1>15. t = ((b \o w) \o l) \o a
  <2>1. l = (IF \/ Places[where].key \/ Places[where].flow \/ (w # <<>> /\ Last(w) \in Break)
             THEN <<>> ELSE <<"\n">>)
    BY <1>3, <1>14 DEF Line
  <2> QED BY <1>2, <1>3, <1>13, <2>1 DEF WriteAt
<1>16. t = (b \o o) \o (f \o r)
  <2>1. SixSequences(Printable, b, o, f, c, l, a)
    BY <1>4, <1>5, <1>10 DEF SixSequences
  <2>2. GroupedOne(t, b, o, f, c, l, a)
    BY ONLY <1>12, <1>15, Zenon DEF GroupedOne
  <2>3. GroupedTwo(t, b, o, f, c, l, a)
    BY ONLY <2>1, <2>2, Regrouped
  <2> QED BY ONLY <1>6, <2>3, Zenon DEF GroupedTwo
<1>17. /\ t \in Seq(Printable) /\ Len(t) = Len(b) + Len(o) + Len(f) + Len(r)
       /\ Len(b) \in Nat /\ Len(o) \in Nat /\ Len(f) \in Nat /\ Len(r) \in Nat
       /\ \A j \in 1..Len(o) : t[Len(b) + j] = o[j]
       /\ \A j \in 1..Len(f) : t[Len(b) + Len(o) + j] = f[j]
       /\ \A j \in 1..Len(r) : t[Len(b) + Len(o) + Len(f) + j] = r[j]
  <2>1. b \in Seq(Printable) /\ o \in Seq(Printable) /\ f \in Seq(Printable) /\ r \in Seq(Printable)
    BY <1>4, <1>5, <1>6, <1>10
  <2> QED BY ONLY <1>16, <2>1, FourJoined
<1>18. PICK d, lb, lo, lf, lr, lt :
         d = lb + lo /\ lb = Len(b) /\ lo = Len(o) /\ lf = Len(f) /\ lr = Len(r) /\ lt = Len(t)
  OBVIOUS
<1>19. /\ d \in Nat /\ lt = d + lf + lr /\ lb \in Nat /\ lo \in Nat /\ lf \in Nat /\ lr \in Nat
       /\ lt \in Nat
  BY ONLY <1>17, <1>18
<1>20. (\A i \in 1..lt : At(t, i) = t[i]) /\ (\A i : i \notin 1..lt => At(t, i) = "z")
  <2>1. t \in Seq(Printable)
    BY <1>17
  <2>2. /\ \A i \in 1..Len(t) : At(t, i) = t[i]
        /\ \A i : i \notin 1..Len(t) => At(t, i) = "z"
    BY ONLY <2>1, AtIs
  <2> QED BY ONLY <1>18, <2>2
<1>21. \A j \in 1..lo : At(t, lb + j) = o[j]
  <2>1. ASSUME NEW j \in 1..lo PROVE lb + j \in 1..lt /\ t[lb + j] = o[j]
    <3>1. lb + j \in 1..lt
      BY ONLY <1>18, <1>19, <2>1
    <3>2. t[lb + j] = o[j]
      BY ONLY <1>17, <1>18, <2>1
    <3> QED BY ONLY <3>1, <3>2
  <2> QED BY ONLY <1>20, <2>1
<1>22. \A j \in 1..lf : At(t, d + j) = f[j]
  <2>1. ASSUME NEW j \in 1..lf PROVE d + j \in 1..lt /\ t[d + j] = f[j]
    <3>1. d + j \in 1..lt
      BY ONLY <1>19, <2>1
    <3>2. t[lb + lo + j] = f[j]
      BY ONLY <1>17, <1>18, <2>1
    <3> QED BY ONLY <1>18, <3>1, <3>2
  <2> QED BY ONLY <1>20, <2>1
<1>23. \A j \in 1..lr : At(t, d + lf + j) = r[j]
  <2>1. ASSUME NEW j \in 1..lr PROVE d + lf + j \in 1..lt /\ t[d + lf + j] = r[j]
    <3>1. d + lf + j \in 1..lt
      BY ONLY <1>19, <2>1
    <3>2. t[lb + lo + lf + j] = r[j]
      BY ONLY <1>17, <1>18, <2>1
    <3> QED BY ONLY <1>18, <3>1, <3>2
  <2> QED BY ONLY <1>20, <2>1
<1>24. PICK off : off = [k \in 1..(n + 1) |-> d + first[k]]
  OBVIOUS
<1>25. /\ \A k \in 1..(n + 1) : off[k] \in Nat /\ off[k] = d + first[k]
       /\ \A k \in 1..n : off[k + 1] = off[k] + Len(q[k])
       /\ \A k \in 1..n : \A j \in 1..Len(q[k]) : At(t, off[k] + j - 1) = q[k][j]
  <2>1. n \in Nat /\ d \in Nat /\ lf \in Nat /\ Len(f) = lf /\ LaidOut(f, q, n, first)
    BY <1>8, <1>11, <1>18, <1>19
  <2>2. StandsAt(t, d, f, lf) /\ Moved(off, first, n, d)
    BY ONLY <1>22, <1>24 DEF StandsAt, Moved
  <2>3. Standing(t, q, n, off, first, d)
    BY ONLY <1>9, <2>1, <2>2, Shifted
  <2> QED BY ONLY <2>3 DEF Standing
<1>26. off[1] = lb + lo + 1 /\ off[n + 1] = d + lf + 1
  <2>1. 1 \in 1..(n + 1) /\ n + 1 \in 1..(n + 1)
    BY <1>8
  <2>2. off[1] = d + first[1] /\ off[n + 1] = d + first[n + 1]
    BY <1>25, <2>1
  <2>3. first[1] = 1 /\ first[n + 1] = lf + 1
    BY <1>11, <1>18
  <2>4. d = lb + lo /\ lb \in Nat /\ lo \in Nat /\ lf \in Nat
    BY ONLY <1>18, <1>19
  <2> QED BY ONLY <2>2, <2>3, <2>4
<1>27. \A j \in 1..lr : At(t, off[n + 1] + j - 1) = r[j]
  <2>1. ASSUME NEW j \in 1..lr PROVE At(t, off[n + 1] + j - 1) = r[j]
    <3>1. off[n + 1] + j - 1 = d + lf + j
      BY ONLY <1>19, <1>26, <2>1
    <3> QED BY <1>23, <2>1, <3>1
  <2> QED BY <2>1
<1>28. At(t, off[n + 1] + lr) = "z"
  <2>1. off[n + 1] + lr \notin 1..lt
    BY ONLY <1>19, <1>26
  <2> QED BY <1>20, <2>1
<1>29. /\ \A k \in 1..n : off[k + 1] = off[k] + Len(Piece(v, style, margin, k))
       /\ \A k \in 1..n : \A j \in 1..Len(Piece(v, style, margin, k)) :
             At(t, off[k] + j - 1) = Piece(v, style, margin, k)[j]
  BY <1>8, <1>25
<1>30. Layout(v, style, where, best, t, off)
  BY ONLY <1>2, <1>3, <1>7, <1>18, <1>21, <1>25, <1>26, <1>27, <1>28, <1>29 DEF Layout
<1>31. Len(b) \in 0..Len(t)
  BY ONLY <1>17
<1> QED BY <1>3, <1>17, <1>30, <1>31

-----------------------------------------------------------------------------
(* The scanner's variables: types.                                                 *)
(* What is asked for, what was written for it, and the types.                      *)
InputOK ==
    /\ value \in Seq(Characters) /\ asked \in StyleNames
    /\ place \in DOMAIN Places /\ best_indent \in 2..9

OutputOK ==
    IF phase = "asked"
    THEN index = 1 /\ column = 0
    ELSE Granted(value, chosen, place) /\ text = WriteAt(value, chosen, place, best_indent)

Sound ==
    /\ InputOK /\ OutputOK /\ TypeOK
    /\ phase # "read" => result \in Seq(Characters)

LEMMA Appended ==
  ASSUME NEW S, NEW s, NEW c, s \in Seq(S), c \in S
  PROVE  Append(s, c) \in Seq(S) /\ s \o <<c>> \in Seq(S) /\ Append(s, c) = s \o <<c>>
  OBVIOUS

LEMMA Both ==
  ASSUME NEW S, NEW s, NEW t, s \in Seq(S), t \in Seq(S)
  PROVE  s \o t \in Seq(S)
  OBVIOUS

LEMMA Wider ==
  ASSUME NEW S, NEW T, NEW s, s \in Seq(S), S \subseteq T
  PROVE  s \in Seq(T)
  OBVIOUS

(* What the scanner sees.                                                          *)
LEMMA Seen ==
  ASSUME text \in Seq(Printable)
  PROVE  /\ \A i : At(text, i) \in Printable \cup {"z"}
         /\ \A i : At(text, i) # "z" => i \in 1..Len(text) /\ At(text, i) \in Printable
         /\ Len(text) \in Nat
<1>1. text \in Seq(Printable)
  OBVIOUS
<1>2. /\ Len(text) \in Nat
      /\ \A i \in 1..Len(text) : At(text, i) = text[i] /\ text[i] \in Printable
      /\ \A i : i \notin 1..Len(text) => At(text, i) = "z"
  BY ONLY <1>1, AtIs
<1> QED BY ONLY <1>2

(* The phases between words.                                                       *)
LEMMA GapOfIs ==
  /\ DOMAIN GapOf = {"word", "single", "double"}
  /\ GapOf["word"] = "gap" /\ GapOf["single"] = "single_gap" /\ GapOf["double"] = "double_gap"
  /\ Range(GapOf) = {"gap", "single_gap", "double_gap"}
<1>1. /\ DOMAIN GapOf = {"word", "single", "double"}
      /\ GapOf["word"] = "gap" /\ GapOf["single"] = "single_gap" /\ GapOf["double"] = "double_gap"
  BY DEF GapOf
<1> QED BY <1>1 DEF Range

LEMMA InitSound == Init => Sound
<1> SUFFICES ASSUME Init PROVE Sound
  OBVIOUS
<1>1. /\ value \in Values /\ place \in DOMAIN Places /\ best_indent \in Indents
      /\ asked \in StyleNames
  <2>1. ASSUME NEW r \in BOOLEAN, NEW f PROVE StyleOf(value, r, f) \in StyleNames
    BY DEF StyleOf, StyleNames
  <2> QED BY <2>1, StylesAssumption DEF Init, StyleNames
<1>2. InputOK
  <2>1. value \in Seq(Characters)
    BY <1>1, ValuesAssumption
  <2>2. best_indent \in 2..9
    BY <1>1, IndentsAssumption
  <2> QED BY <1>1, <2>1, <2>2 DEF InputOK
<1>3. OutputOK
  BY DEF Init, OutputOK
<1>4. /\ <<>> \in Seq(Characters \ {"ctl"}) /\ <<>> \in Seq(Characters) /\ <<>> \in Seq(Blank)
      /\ <<>> \in Seq(Break) /\ Len(<<>>) = 0
  OBVIOUS
<1>5. /\ phase = "asked" /\ chosen = "none" /\ text = <<>> /\ index = 1 /\ column = 0 /\ result = <<>>
      /\ whitespaces = <<>> /\ leading_break = <<>> /\ trailing_breaks = <<>>
      /\ leading_blanks = FALSE
      /\ indent = 0 /\ max_indent = 0 /\ chomping = "clip"
  BY DEF Init
<1>6. TypeOK /\ result \in Seq(Characters)
  <2>1. /\ text \in Seq(Characters \ {"ctl"}) /\ result \in Seq(Characters)
        /\ whitespaces \in Seq(Blank) /\ leading_break \in Seq(Break) /\ trailing_breaks \in Seq(Break)
    BY <1>4, <1>5
  <2>2. index \in 1..(Len(text) + 1) /\ column \in 0..(index - 1)
    BY <1>4, <1>5
  <2>3. phase \in {"asked"} /\ chosen \in {"none"} /\ chomping \in {"clip"} /\ indent \in Nat
        /\ max_indent \in Nat /\ leading_blanks \in BOOLEAN
    BY <1>5
  <2> QED BY ONLY <2>1, <2>2, <2>3 DEF TypeOK
<1> QED BY <1>2, <1>3, <1>6 DEF Sound

(* Steps of the scanner: what was asked for and written stays, and every variable  *)
(* keeps its type if those that the step changes do.                               *)
Phases == {"asked", "written", "word", "gap", "single", "single_gap", "double", "double_gap",
           "breaks", "line", "read"}

MarkOK == index \in 1..(Len(text) + 1) /\ column \in 0..(index - 1)
ResultOK == phase \in Phases /\ result \in Seq(Characters) \cup {Error} /\ (phase # "read" => result \in Seq(Characters))
GapOK ==
    /\ whitespaces \in Seq(Blank) /\ leading_break \in Seq(Break) /\ trailing_breaks \in Seq(Break)
    /\ leading_blanks \in BOOLEAN
BlockOK == indent \in Nat /\ max_indent \in Nat /\ chomping \in {"clip", "+", "-"}
WrittenOK ==
    /\ chosen \in {"none", "plain", "single", "double", "literal", "folded"}
    /\ text \in Seq(Printable)

(* Sound by groups of variables.                                                   *)
LEMMA SoundIs ==
  Sound <=> InputOK /\ OutputOK /\ WrittenOK /\ MarkOK /\ ResultOK /\ GapOK /\ BlockOK
  BY DEF Sound, TypeOK, WrittenOK, MarkOK, ResultOK, GapOK, BlockOK, Phases, Printable

LEMMA SoundIsNext ==
  Sound' <=> InputOK' /\ OutputOK' /\ WrittenOK' /\ MarkOK' /\ ResultOK' /\ GapOK' /\ BlockOK'
  BY DEF Sound, TypeOK, WrittenOK, MarkOK, ResultOK, GapOK, BlockOK, Phases, Printable

LEMMA MarkStays == MarkOK /\ UNCHANGED <<text, index, column>> => MarkOK'
  BY DEF MarkOK

LEMMA GapStays == GapOK /\ UNCHANGED gap => GapOK'
  BY DEF GapOK, gap

LEMMA GapEmptied == NoGap => GapOK'
<1>1. <<>> \in Seq(Blank) /\ <<>> \in Seq(Break)
  OBVIOUS
<1> QED BY ONLY <1>1 DEF GapOK, NoGap

LEMMA BlockStays == BlockOK /\ UNCHANGED block => BlockOK'
  BY DEF BlockOK, block

(* No step of the scanner changes what was asked for and written.                  *)
LEMMA ScannerStep ==
  ASSUME Sound, phase # "asked", UNCHANGED input, UNCHANGED output, phase' # "asked"
  PROVE  InputOK' /\ OutputOK' /\ WrittenOK'
<1>1. /\ value' = value /\ asked' = asked /\ place' = place /\ best_indent' = best_indent
      /\ chosen' = chosen /\ text' = text
  BY DEF input, output
<1>2. InputOK /\ WrittenOK /\ OutputOK
  BY SoundIs
<1>3. InputOK' /\ WrittenOK'
  BY ONLY <1>1, <1>2 DEF InputOK, WrittenOK
<1>4. Granted(value, chosen, place) /\ text = WriteAt(value, chosen, place, best_indent)
  BY <1>2 DEF OutputOK
<1>5. OutputOK'
  BY <1>1, <1>4 DEF OutputOK
<1> QED BY <1>3, <1>5

LEMMA Moves ==
  ASSUME MarkOK, Len(text) \in Nat, NEW n \in Nat, Skip(n), text' = text,
         index + n \in 1..(Len(text) + 1)
  PROVE  MarkOK'
  BY DEF MarkOK, Skip

LEMMA MovesLine ==
  ASSUME MarkOK, Len(text) \in Nat, SkipLine, text' = text, index \in 1..Len(text)
  PROVE  MarkOK'
  BY DEF MarkOK, SkipLine

LEMMA JointIs == GapOK => Joint \in Seq(Characters)
<1> SUFFICES ASSUME GapOK PROVE Joint \in Seq(Characters)
  OBVIOUS
<1>1. Blank \subseteq Characters /\ Break \subseteq Characters /\ "space" \in Characters
  BY DEF Characters, Blank
<1>2. whitespaces \in Seq(Characters)
  <2>1. whitespaces \in Seq(Blank)
    BY DEF GapOK
  <2> QED BY ONLY <1>1, <2>1, Wider
<1>3. leading_break \in Seq(Characters)
  <2>1. leading_break \in Seq(Break)
    BY DEF GapOK
  <2> QED BY ONLY <1>1, <2>1, Wider
<1>4. trailing_breaks \in Seq(Characters)
  <2>1. trailing_breaks \in Seq(Break)
    BY DEF GapOK
  <2> QED BY ONLY <1>1, <2>1, Wider
<1>5. leading_break \o trailing_breaks \in Seq(Characters)
  BY ONLY <1>3, <1>4, Both
<1>6. <<"space">> \in Seq(Characters)
  BY <1>1
<1> QED BY ONLY <1>2, <1>4, <1>5, <1>6 DEF Joint

LEMMA EmitSound == Sound /\ Emit => Sound'
<1> SUFFICES ASSUME Sound, Emit PROVE Sound'
  OBVIOUS
<1>1. InputOK /\ OutputOK /\ WrittenOK /\ MarkOK /\ ResultOK /\ GapOK /\ BlockOK
  BY SoundIs
<1>2. /\ phase = "asked" /\ phase' = "written" /\ chosen' = SelectStyle(value, asked, place)
      /\ text' = WriteAt(value, chosen', place, best_indent)
      /\ index' = index + Len(Places[place].before) /\ column' = column + Len(Places[place].before)
      /\ value' = value /\ asked' = asked /\ place' = place /\ best_indent' = best_indent
      /\ result' = result /\ UNCHANGED gap /\ UNCHANGED block
  BY DEF Emit, Skip, Where, input
<1>3. InputOK'
  BY <1>1, <1>2 DEF InputOK
<1>4. Granted(value, chosen', place)
  <2>1. asked \in StyleNames
    BY <1>1 DEF InputOK
  <2> QED BY <1>2, <2>1, Selected
<1>5. OutputOK'
  BY <1>2, <1>4 DEF OutputOK
<1>6. text' \in Seq(Printable) /\ Len(Places[place].before) \in 0..Len(text')
  <2>1. PICK s, t : s = chosen' /\ t = text'
    OBVIOUS
  <2>2. /\ value \in Seq(Characters) /\ place \in DOMAIN Places /\ Granted(value, s, place)
        /\ best_indent \in 2..9 /\ t = WriteAt(value, s, place, best_indent)
    BY <1>1, <1>2, <1>4, <2>1 DEF InputOK
  <2>3. t \in Seq(Printable) /\ Len(Places[place].before) \in 0..Len(t)
    BY ONLY <2>2, TextIs
  <2> QED BY <2>1, <2>3
<1>7. WrittenOK'
  <2>1. chosen' \in StyleNames
    BY <1>4 DEF Granted
  <2> QED BY <1>6, <2>1 DEF WrittenOK, StyleNames
<1>8. MarkOK'
  <2>1. index = 1 /\ column = 0
    BY <1>1, <1>2 DEF OutputOK
  <2>2. Len(text') \in Nat
    <3>1. PICK t : t = text'
      OBVIOUS
    <3>2. t \in Seq(Printable)
      BY <1>6, <3>1
    <3>3. Len(t) \in Nat
      BY ONLY <3>2
    <3> QED BY <3>1, <3>3
  <2>3. PICK l, m : l = Len(text') /\ m = Len(Places[place].before)
    OBVIOUS
  <2>4. l \in Nat /\ m \in 0..l /\ index' = 1 + m /\ column' = 0 + m
    BY <1>2, <1>6, <2>1, <2>2, <2>3
  <2>5. index' \in 1..(l + 1) /\ column' \in 0..(index' - 1)
    BY ONLY <2>4
  <2> QED BY <2>3, <2>5 DEF MarkOK
<1>9. ResultOK'
  BY <1>1, <1>2 DEF ResultOK, Phases
<1> QED BY <1>1, <1>2, <1>3, <1>5, <1>7, <1>8, <1>9, GapStays, BlockStays, SoundIsNext

-----------------------------------------------------------------------------
(* The steps, one by one.                                                          *)
LEMMA MaxOfTwo ==
  ASSUME NEW a \in Int, NEW b \in Int
  PROVE  Max({a, b}) = IF a >= b THEN a ELSE b
<1>1. PICK m : m = (IF a >= b THEN a ELSE b) /\ m \in {a, b} /\ m >= a /\ m >= b /\ m \in Int
  OBVIOUS
<1>2. \A x : (x \in {a, b} /\ \A y \in {a, b} : x >= y) => x = m
  BY <1>1
<1>3. Max({a, b}) = CHOOSE x \in {a, b} : \A y \in {a, b} : x >= y
  BY DEF Max
<1> QED BY <1>1, <1>2, <1>3

LEMMA ParentIs ==
  ASSUME NEW where \in DOMAIN Places
  PROVE  Places[where].parent \in {-1, 0} /\ Max({Places[where].parent, 0}) = 0
<1>1. Places[where].parent \in {-1, 0}
  BY PlacesAre
<1>2. PICK p : p = Places[where].parent /\ p \in Int /\ p <= 0
  BY <1>1
<1>3. Max({p, 0}) = 0
  BY <1>2, MaxOfTwo
<1> QED BY <1>1, <1>2, <1>3

LEMMA IncrementIs == Hinted(Range(Digits)) => Increment \in 1..9 /\ Hinted({Digits[Increment]})
<1> SUFFICES ASSUME Hinted(Range(Digits)) PROVE Increment \in 1..9 /\ Hinted({Digits[Increment]})
  OBVIOUS
<1>1. DOMAIN Digits = 1..9
  BY DEF Digits
<1>2. \E n \in 1..9 : Hinted({Digits[n]})
  BY <1>1 DEF Hinted, Range
<1> QED BY <1>1, <1>2 DEF Increment

(* The deepest of four depths.                                                     *)
LEMMA MaxOfFour ==
  ASSUME NEW a \in Int, NEW b \in Int, NEW c \in Int, NEW d \in Int
  PROVE  /\ Max({a, b, c, d}) \in {a, b, c, d}
         /\ Max({a, b, c, d}) >= a /\ Max({a, b, c, d}) >= b
         /\ Max({a, b, c, d}) >= c /\ Max({a, b, c, d}) >= d
<1>1. \E m \in {a, b, c, d} : m >= a /\ m >= b /\ m >= c /\ m >= d
  <2>1. PICK x : x = (IF a >= b THEN a ELSE b) /\ x \in {a, b} /\ x >= a /\ x >= b /\ x \in Int
    OBVIOUS
  <2>2. PICK y : y = (IF c >= d THEN c ELSE d) /\ y \in {c, d} /\ y >= c /\ y >= d /\ y \in Int
    OBVIOUS
  <2>3. CASE x >= y
    BY <2>1, <2>2, <2>3
  <2>4. CASE ~(x >= y)
    BY <2>1, <2>2, <2>4
  <2> QED BY <2>3, <2>4
<1>2. \E m \in {a, b, c, d} : \A y \in {a, b, c, d} : m >= y
  BY <1>1
<1>3. PICK m : m = Max({a, b, c, d})
  OBVIOUS
<1>4. m \in {a, b, c, d} /\ \A y \in {a, b, c, d} : m >= y
  BY <1>2, <1>3 DEF Max
<1> QED BY <1>3, <1>4

LEMMA DeterminedIs ==
  ASSUME BlockOK, MarkOK, place \in DOMAIN Places
  PROVE  Determined \in Nat
<1>1. indent \in Nat /\ max_indent \in Nat /\ column \in Nat
  BY DEF BlockOK, MarkOK
<1>2. PICK p : p = Where.parent + 1 /\ p \in Nat
  <2>1. Where.parent \in {-1, 0}
    BY ParentIs DEF Where
  <2> QED BY <2>1
<1>3. Max({max_indent, column, p, 1}) \in {max_indent, column, p, 1}
  <2>1. max_indent \in Int /\ column \in Int /\ p \in Int /\ 1 \in Int
    BY <1>1, <1>2
  <2> QED BY ONLY <2>1, MaxOfFour
<1> QED BY <1>1, <1>2, <1>3 DEF Determined

LEMMA FetchPlainSound == Sound /\ FetchPlain => Sound'
<1> SUFFICES ASSUME Sound, FetchPlain PROVE Sound'
  OBVIOUS
<1>1. InputOK /\ OutputOK /\ WrittenOK /\ MarkOK /\ ResultOK /\ GapOK /\ BlockOK
  BY SoundIs
<1>2. /\ \A i : At(text, i) \in Printable \cup {"z"}
      /\ \A i : At(text, i) # "z" => i \in 1..Len(text) /\ At(text, i) \in Printable
      /\ Len(text) \in Nat
  BY <1>1, Seen DEF WrittenOK
<1>3. UNCHANGED input /\ UNCHANGED output /\ text' = text /\ phase # "asked" /\ phase' # "asked"
  BY GapOfIs DEF FetchPlain, output, Finish, InGap
<1>4. InputOK' /\ OutputOK' /\ WrittenOK'
  BY <1>3, ScannerStep
<1>5. ResultOK'
  <2>1. <<>> \in Seq(Characters)
    OBVIOUS
  <2> QED BY <1>1, <2>1 DEF FetchPlain, ResultOK, Phases, Finish
<1>6. MarkOK'
  BY <1>1, <1>3, MarkStays DEF FetchPlain, mark
<1>7. GapOK'
  BY <1>1, <1>3, GapStays DEF FetchPlain
<1>8. BlockOK'
  BY <1>1, <1>3, BlockStays DEF FetchPlain
<1> QED BY <1>4, <1>5, <1>6, <1>7, <1>8, SoundIsNext

LEMMA FetchQuotedSound == Sound /\ FetchQuoted => Sound'
<1> SUFFICES ASSUME Sound, FetchQuoted PROVE Sound'
  OBVIOUS
<1>1. InputOK /\ OutputOK /\ WrittenOK /\ MarkOK /\ ResultOK /\ GapOK /\ BlockOK
  BY SoundIs
<1>2. /\ \A i : At(text, i) \in Printable \cup {"z"}
      /\ \A i : At(text, i) # "z" => i \in 1..Len(text) /\ At(text, i) \in Printable
      /\ Len(text) \in Nat
  BY <1>1, Seen DEF WrittenOK
<1>3. UNCHANGED input /\ UNCHANGED output /\ text' = text /\ phase # "asked" /\ phase' # "asked"
  BY GapOfIs DEF FetchQuoted, output, Finish, InGap
<1>4. InputOK' /\ OutputOK' /\ WrittenOK'
  BY <1>3, ScannerStep
<1>5. ResultOK'
  BY <1>1 DEF FetchQuoted, ResultOK, Phases
<1>6. MarkOK'
  <2>1. Skip(1) /\ index + 1 \in 1..(Len(text) + 1)
    BY <1>1, <1>2 DEF FetchQuoted, Here, MarkOK
  <2> QED BY <1>1, <1>2, <1>3, <2>1, Moves
<1>7. GapOK'
  BY <1>1, <1>3, GapStays DEF FetchQuoted
<1>8. BlockOK'
  BY <1>1, <1>3, BlockStays DEF FetchQuoted
<1> QED BY <1>4, <1>5, <1>6, <1>7, <1>8, SoundIsNext

LEMMA FetchBlockSound == Sound /\ FetchBlock => Sound'
<1> SUFFICES ASSUME Sound, FetchBlock PROVE Sound'
  OBVIOUS
<1>1. InputOK /\ OutputOK /\ WrittenOK /\ MarkOK /\ ResultOK /\ GapOK /\ BlockOK
  BY SoundIs
<1>2. /\ \A i : At(text, i) \in Printable \cup {"z"}
      /\ \A i : At(text, i) # "z" => i \in 1..Len(text) /\ At(text, i) \in Printable
      /\ Len(text) \in Nat
  BY <1>1, Seen DEF WrittenOK
<1>3. UNCHANGED input /\ UNCHANGED output /\ text' = text /\ phase # "asked" /\ phase' # "asked"
  BY GapOfIs DEF FetchBlock, output, Finish, InGap
<1>4. InputOK' /\ OutputOK' /\ WrittenOK'
  BY <1>3, ScannerStep
<1>5. ResultOK'
  BY <1>1 DEF FetchBlock, ResultOK, Phases, Finish
<1>6. MarkOK'
  <2>1. CASE UNCHANGED mark
    BY <1>1, <1>3, <2>1, MarkStays DEF mark
  <2>2. CASE At(text, HeaderEnd) \in Break /\ index' = HeaderEnd + 1 /\ column' = 0
    <3>1. HeaderEnd \in 1..Len(text)
      <4>1. "z" \notin Break
        BY DEF Break
      <4> QED BY <1>2, <2>2, <4>1
    <3>2. PICK h, l : h = HeaderEnd /\ l = Len(text)
      OBVIOUS
    <3>3. h \in 1..l /\ l \in Nat /\ index' = h + 1 /\ column' = 0
      BY <1>2, <2>2, <3>1, <3>2
    <3>4. index' \in 1..(l + 1) /\ column' \in 0..(index' - 1)
      BY ONLY <3>3
    <3> QED BY <1>3, <3>2, <3>4 DEF MarkOK
  <2> QED BY <2>1, <2>2 DEF FetchBlock
<1>7. GapOK'
  BY <1>1, <1>3, GapStays DEF FetchBlock
<1>8. BlockOK'
  <2>1. chomping' \in {"clip", "+", "-"} /\ max_indent' = max_indent
    BY DEF FetchBlock
  <2>2. indent' = 0 \/ (indent' = Max({Where.parent, 0}) + Increment /\ Hinted(Range(Digits)))
    BY DEF FetchBlock
  <2>3. ASSUME Hinted(Range(Digits)) PROVE Increment \in 1..9
    BY <2>3, IncrementIs
  <2>4. Max({Where.parent, 0}) = 0
    BY <1>1, ParentIs DEF Where, InputOK
  <2> QED BY <1>1, <2>1, <2>2, <2>3, <2>4 DEF BlockOK
<1> QED BY <1>4, <1>5, <1>6, <1>7, <1>8, SoundIsNext

LEMMA PlainCharacterSound == Sound /\ PlainCharacter => Sound'
<1> SUFFICES ASSUME Sound, PlainCharacter PROVE Sound'
  OBVIOUS
<1>1. InputOK /\ OutputOK /\ WrittenOK /\ MarkOK /\ ResultOK /\ GapOK /\ BlockOK
  BY SoundIs
<1>2. /\ \A i : At(text, i) \in Printable \cup {"z"}
      /\ \A i : At(text, i) # "z" => i \in 1..Len(text) /\ At(text, i) \in Printable
      /\ Len(text) \in Nat
  BY <1>1, Seen DEF WrittenOK
<1>3. UNCHANGED input /\ UNCHANGED output /\ text' = text /\ phase # "asked" /\ phase' # "asked"
  BY GapOfIs DEF PlainCharacter, output, Finish, InGap
<1>4. InputOK' /\ OutputOK' /\ WrittenOK'
  BY <1>3, ScannerStep
<1>5. ResultOK'
  <2>1. Here \in Characters
    BY <1>2 DEF PlainCharacter, EndsPlain, Here, Printable, Blankz
  <2>2. PICK j, r, h : j = Joint /\ r = result /\ h = Here
    OBVIOUS
  <2>3. j \in Seq(Characters)
    BY <1>1, <2>2, JointIs
  <2>4. r \in Seq(Characters)
    BY <1>1, <2>2 DEF PlainCharacter, ResultOK
  <2>5. r \o j \in Seq(Characters)
    BY ONLY <2>3, <2>4, Both
  <2>6. PICK x : x = r \o j
    OBVIOUS
  <2>7. x \o <<h>> \in Seq(Characters)
    <3>1. x \in Seq(Characters) /\ h \in Characters
      BY <2>1, <2>2, <2>5, <2>6
    <3> QED BY ONLY <3>1, Appended
  <2>8. result' = x \o <<h>>
    BY <2>2, <2>6 DEF PlainCharacter
  <2> QED BY <1>1, <2>7, <2>8 DEF PlainCharacter, ResultOK, Phases
<1>6. MarkOK'
  <2>1. Skip(1) /\ index + 1 \in 1..(Len(text) + 1)
    BY <1>1, <1>2 DEF PlainCharacter, Here, MarkOK, EndsPlain, Blankz
  <2> QED BY <1>1, <1>2, <1>3, <2>1, Moves
<1>7. GapOK'
  BY GapEmptied DEF PlainCharacter
<1>8. BlockOK'
  BY <1>1, <1>3, BlockStays DEF PlainCharacter
<1> QED BY <1>4, <1>5, <1>6, <1>7, <1>8, SoundIsNext

LEMMA PlainEndSound == Sound /\ PlainEnd => Sound'
<1> SUFFICES ASSUME Sound, PlainEnd PROVE Sound'
  OBVIOUS
<1>1. InputOK /\ OutputOK /\ WrittenOK /\ MarkOK /\ ResultOK /\ GapOK /\ BlockOK
  BY SoundIs
<1>2. /\ \A i : At(text, i) \in Printable \cup {"z"}
      /\ \A i : At(text, i) # "z" => i \in 1..Len(text) /\ At(text, i) \in Printable
      /\ Len(text) \in Nat
  BY <1>1, Seen DEF WrittenOK
<1>3. UNCHANGED input /\ UNCHANGED output /\ text' = text /\ phase # "asked" /\ phase' # "asked"
  BY GapOfIs DEF PlainEnd, output, Finish, InGap
<1>4. InputOK' /\ OutputOK' /\ WrittenOK'
  BY <1>3, ScannerStep
<1>5. ResultOK'
  BY <1>1 DEF PlainEnd, ResultOK, Phases, Finish
<1>6. MarkOK'
  BY <1>1, <1>3, MarkStays DEF PlainEnd, mark
<1>7. GapOK'
  BY <1>1, <1>3, GapStays DEF PlainEnd
<1>8. BlockOK'
  BY <1>1, <1>3, BlockStays DEF PlainEnd
<1> QED BY <1>4, <1>5, <1>6, <1>7, <1>8, SoundIsNext

LEMMA PlainResumeSound == Sound /\ PlainResume => Sound'
<1> SUFFICES ASSUME Sound, PlainResume PROVE Sound'
  OBVIOUS
<1>1. InputOK /\ OutputOK /\ WrittenOK /\ MarkOK /\ ResultOK /\ GapOK /\ BlockOK
  BY SoundIs
<1>2. /\ \A i : At(text, i) \in Printable \cup {"z"}
      /\ \A i : At(text, i) # "z" => i \in 1..Len(text) /\ At(text, i) \in Printable
      /\ Len(text) \in Nat
  BY <1>1, Seen DEF WrittenOK
<1>3. UNCHANGED input /\ UNCHANGED output /\ text' = text /\ phase # "asked" /\ phase' # "asked"
  BY GapOfIs DEF PlainResume, output, Finish, InGap
<1>4. InputOK' /\ OutputOK' /\ WrittenOK'
  BY <1>3, ScannerStep
<1>5. ResultOK'
  BY <1>1 DEF PlainResume, ResultOK, Phases, Finish
<1>6. MarkOK'
  BY <1>1, <1>3, MarkStays DEF PlainResume, mark
<1>7. GapOK'
  BY <1>1, <1>3, GapStays DEF PlainResume
<1>8. BlockOK'
  BY <1>1, <1>3, BlockStays DEF PlainResume
<1> QED BY <1>4, <1>5, <1>6, <1>7, <1>8, SoundIsNext

LEMMA ConsumeBlankSound == Sound /\ ConsumeBlank => Sound'
<1> SUFFICES ASSUME Sound, ConsumeBlank PROVE Sound'
  OBVIOUS
<1>1. InputOK /\ OutputOK /\ WrittenOK /\ MarkOK /\ ResultOK /\ GapOK /\ BlockOK
  BY SoundIs
<1>2. /\ \A i : At(text, i) \in Printable \cup {"z"}
      /\ \A i : At(text, i) # "z" => i \in 1..Len(text) /\ At(text, i) \in Printable
      /\ Len(text) \in Nat
  BY <1>1, Seen DEF WrittenOK
<1>3. UNCHANGED input /\ UNCHANGED output /\ text' = text /\ phase # "asked" /\ phase' # "asked"
  BY GapOfIs DEF ConsumeBlank, output, Finish, InGap
<1>4. InputOK' /\ OutputOK' /\ WrittenOK'
  BY <1>3, ScannerStep
<1>5. ResultOK'
  <2>1. phase' \in Phases
    BY <1>1, GapOfIs DEF ConsumeBlank, InGap, Phases, Finish, ResultOK
  <2>2. (result' = result /\ phase # "read") \/ (result' = Error /\ phase' = "read")
    BY GapOfIs DEF ConsumeBlank, InGap, Finish
  <2> QED BY <1>1, <2>1, <2>2 DEF ResultOK
<1>6. MarkOK'
  <2>1. Skip(1) /\ index + 1 \in 1..(Len(text) + 1)
    BY <1>1, <1>2 DEF ConsumeBlank, Here, MarkOK, Blank
  <2> QED BY <1>1, <1>2, <1>3, <2>1, Moves
<1>7. GapOK'
  <2>1. /\ leading_break' = leading_break /\ trailing_breaks' = trailing_breaks
        /\ leading_blanks' = leading_blanks /\ Here \in Blank
        /\ whitespaces' = whitespaces \/ whitespaces' = Append(whitespaces, Here)
    BY DEF ConsumeBlank
  <2>2. PICK w, h : w = whitespaces /\ h = Here
    OBVIOUS
  <2>3. w \in Seq(Blank) /\ h \in Blank
    BY <1>1, <2>1, <2>2 DEF GapOK
  <2>4. Append(w, h) \in Seq(Blank)
    BY ONLY <2>3, Appended
  <2>5. whitespaces' \in Seq(Blank)
    BY ONLY <2>1, <2>2, <2>3, <2>4
  <2> QED BY <1>1, <2>1, <2>5 DEF GapOK
<1>8. BlockOK'
  BY <1>1, <1>3, BlockStays DEF ConsumeBlank
<1> QED BY <1>4, <1>5, <1>6, <1>7, <1>8, SoundIsNext

LEMMA ConsumeBreakSound == Sound /\ ConsumeBreak => Sound'
<1> SUFFICES ASSUME Sound, ConsumeBreak PROVE Sound'
  OBVIOUS
<1>1. InputOK /\ OutputOK /\ WrittenOK /\ MarkOK /\ ResultOK /\ GapOK /\ BlockOK
  BY SoundIs
<1>2. /\ \A i : At(text, i) \in Printable \cup {"z"}
      /\ \A i : At(text, i) # "z" => i \in 1..Len(text) /\ At(text, i) \in Printable
      /\ Len(text) \in Nat
  BY <1>1, Seen DEF WrittenOK
<1>3. UNCHANGED input /\ UNCHANGED output /\ text' = text /\ phase # "asked" /\ phase' # "asked"
  BY GapOfIs DEF ConsumeBreak, output, Finish, InGap
<1>4. InputOK' /\ OutputOK' /\ WrittenOK'
  BY <1>3, ScannerStep
<1>5. ResultOK'
  <2>1. phase' \in Phases /\ result' = result /\ phase # "read"
    BY <1>1, GapOfIs DEF ConsumeBreak, InGap, Phases, ResultOK
  <2> QED BY <1>1, <2>1 DEF ResultOK
<1>6. MarkOK'
  <2>1. SkipLine /\ index \in 1..Len(text)
    BY <1>1, <1>2 DEF ConsumeBreak, Here, MarkOK, Break
  <2> QED BY <1>1, <1>2, <1>3, <2>1, MovesLine
<1>7. GapOK'
  <2>1. PICK t, h : t = trailing_breaks /\ h = Here
    OBVIOUS
  <2>2. t \in Seq(Break) /\ h \in Break
    BY <1>1, <2>1 DEF GapOK, ConsumeBreak
  <2>3. Append(t, h) \in Seq(Break) /\ <<h>> \in Seq(Break)
    <3>1. Append(t, h) \in Seq(Break)
      BY ONLY <2>2, Appended
    <3>2. <<h>> \in Seq(Break)
      BY ONLY <2>2
    <3> QED BY <3>1, <3>2
  <2>4. <<>> \in Seq(Blank)
    OBVIOUS
  <2>5. /\ leading_blanks' = TRUE
        /\ \/ trailing_breaks' = Append(t, h) /\ whitespaces' = whitespaces /\ leading_break' = leading_break
           \/ whitespaces' = <<>> /\ leading_break' = <<h>> /\ trailing_breaks' = trailing_breaks
    BY <2>1 DEF ConsumeBreak
  <2>6. /\ whitespaces \in Seq(Blank) /\ leading_break \in Seq(Break) /\ trailing_breaks \in Seq(Break)
    BY <1>1 DEF GapOK
  <2>7. whitespaces' \in Seq(Blank)
    BY ONLY <2>4, <2>5, <2>6
  <2>8. leading_break' \in Seq(Break) /\ trailing_breaks' \in Seq(Break)
    BY ONLY <2>3, <2>5, <2>6
  <2> QED BY <2>5, <2>7, <2>8 DEF GapOK
<1>8. BlockOK'
  BY <1>1, <1>3, BlockStays DEF ConsumeBreak
<1> QED BY <1>4, <1>5, <1>6, <1>7, <1>8, SoundIsNext

LEMMA QuotedEndSound == Sound /\ QuotedEnd => Sound'
<1> SUFFICES ASSUME Sound, QuotedEnd PROVE Sound'
  OBVIOUS
<1>1. InputOK /\ OutputOK /\ WrittenOK /\ MarkOK /\ ResultOK /\ GapOK /\ BlockOK
  BY SoundIs
<1>2. /\ \A i : At(text, i) \in Printable \cup {"z"}
      /\ \A i : At(text, i) # "z" => i \in 1..Len(text) /\ At(text, i) \in Printable
      /\ Len(text) \in Nat
  BY <1>1, Seen DEF WrittenOK
<1>3. UNCHANGED input /\ UNCHANGED output /\ text' = text /\ phase # "asked" /\ phase' # "asked"
  BY GapOfIs DEF QuotedEnd, output, Finish, InGap
<1>4. InputOK' /\ OutputOK' /\ WrittenOK'
  BY <1>3, ScannerStep
<1>5. ResultOK'
  BY <1>1 DEF QuotedEnd, ResultOK, Phases, Finish
<1>6. MarkOK'
  BY <1>1, <1>3, MarkStays DEF QuotedEnd, mark
<1>7. GapOK'
  BY <1>1, <1>3, GapStays DEF QuotedEnd
<1>8. BlockOK'
  BY <1>1, <1>3, BlockStays DEF QuotedEnd
<1> QED BY <1>4, <1>5, <1>6, <1>7, <1>8, SoundIsNext

LEMMA QuotedCharacterSound == Sound /\ QuotedCharacter => Sound'
<1> SUFFICES ASSUME Sound, QuotedCharacter PROVE Sound'
  OBVIOUS
<1>1. InputOK /\ OutputOK /\ WrittenOK /\ MarkOK /\ ResultOK /\ GapOK /\ BlockOK
  BY SoundIs
<1>2. /\ \A i : At(text, i) \in Printable \cup {"z"}
      /\ \A i : At(text, i) # "z" => i \in 1..Len(text) /\ At(text, i) \in Printable
      /\ Len(text) \in Nat
  BY <1>1, Seen DEF WrittenOK
<1>3. UNCHANGED input /\ UNCHANGED output /\ text' = text /\ phase # "asked" /\ phase' # "asked"
  BY GapOfIs DEF QuotedCharacter, output, Finish, InGap
<1>4. InputOK' /\ OutputOK' /\ WrittenOK'
  BY <1>3, ScannerStep
<1>5. ResultOK'
  <2>1. CASE result' = Error /\ phase' = "read"
    BY <2>1 DEF ResultOK, Phases
  <2>2. CASE phase' = phase /\ \E c \in Characters : result' = Append(result, c)
    <3>1. PICK c \in Characters : result' = Append(result, c)
      BY <2>2
    <3>2. PICK r : r = result /\ r \in Seq(Characters)
      BY <1>1 DEF QuotedCharacter, ResultOK
    <3>3. Append(r, c) \in Seq(Characters)
      BY ONLY <3>2, Appended
    <3> QED BY <1>1, <2>2, <3>1, <3>2, <3>3 DEF ResultOK
  <2>3. Here \in Characters
    BY <1>2 DEF QuotedCharacter, Here, Printable, Blankz
  <2>4. ASSUME EscapeKnown PROVE Unescape(There) \in Characters
    BY <2>4 DEF EscapeKnown, Unescape, Characters, Break, Blank, Indicators
  <2> QED BY <2>1, <2>2, <2>3, <2>4 DEF QuotedCharacter, Finish
<1>6. MarkOK'
  <2>1. index \in 1..Len(text)
    BY <1>1, <1>2 DEF QuotedCharacter, Here, MarkOK, Blankz
  <2>2. ASSUME There # "z" PROVE index + 1 \in 1..Len(text)
    BY <1>2, <2>2 DEF There
  <2>3. CASE UNCHANGED mark
    BY <1>1, <1>3, <2>3, MarkStays DEF mark
  <2>4. CASE EscapeKnown /\ Skip(IF There = "x" THEN 3 ELSE 2)
    <3>1. index + 1 \in 1..Len(text)
      BY <2>2, <2>4 DEF EscapeKnown
    <3>2. There = "x" => index + 2 \in 1..Len(text)
      <4>1. There = "x" => At(text, index + 2) = "01"
        BY <2>4 DEF EscapeKnown
      <4> QED BY <1>2, <4>1
    <3>3. PICK n : n = IF There = "x" THEN 3 ELSE 2
      OBVIOUS
    <3>4. n \in Nat /\ index + n \in 1..(Len(text) + 1) /\ Skip(n)
      BY <1>2, <2>1, <2>4, <3>1, <3>2, <3>3
    <3> QED BY <1>1, <1>2, <1>3, <3>4, Moves
  <2>5. CASE Skip(IF Here = Quote THEN 2 ELSE 1)
    <3>1. Here = Quote => There = "'"
      BY DEF QuotedCharacter, ClosesQuoted
    <3>2. Here = Quote => index + 1 \in 1..Len(text)
      BY <2>2, <3>1
    <3>3. PICK n : n = IF Here = Quote THEN 2 ELSE 1
      OBVIOUS
    <3>4. n \in Nat /\ index + n \in 1..(Len(text) + 1) /\ Skip(n)
      BY <1>2, <2>1, <2>5, <3>2, <3>3
    <3> QED BY <1>1, <1>2, <1>3, <3>4, Moves
  <2> QED BY <2>3, <2>4, <2>5 DEF QuotedCharacter
<1>7. GapOK'
  BY <1>1, <1>3, GapStays DEF QuotedCharacter
<1>8. BlockOK'
  BY <1>1, <1>3, BlockStays DEF QuotedCharacter
<1> QED BY <1>4, <1>5, <1>6, <1>7, <1>8, SoundIsNext

LEMMA QuotedResumeSound == Sound /\ QuotedResume => Sound'
<1> SUFFICES ASSUME Sound, QuotedResume PROVE Sound'
  OBVIOUS
<1>1. InputOK /\ OutputOK /\ WrittenOK /\ MarkOK /\ ResultOK /\ GapOK /\ BlockOK
  BY SoundIs
<1>2. /\ \A i : At(text, i) \in Printable \cup {"z"}
      /\ \A i : At(text, i) # "z" => i \in 1..Len(text) /\ At(text, i) \in Printable
      /\ Len(text) \in Nat
  BY <1>1, Seen DEF WrittenOK
<1>3. UNCHANGED input /\ UNCHANGED output /\ text' = text /\ phase # "asked" /\ phase' # "asked"
  BY GapOfIs DEF QuotedResume, output, Finish, InGap
<1>4. InputOK' /\ OutputOK' /\ WrittenOK'
  BY <1>3, ScannerStep
<1>5. ResultOK'
  <2>1. PICK j, r : j = Joint /\ r = result
    OBVIOUS
  <2>2. j \in Seq(Characters)
    BY <1>1, <2>1, JointIs
  <2>3. r \in Seq(Characters)
    BY <1>1, <2>1 DEF QuotedResume, ResultOK
  <2>4. r \o j \in Seq(Characters)
    BY ONLY <2>2, <2>3, Both
  <2> QED BY <1>1, <2>1, <2>4 DEF QuotedResume, ResultOK, Phases, Finish
<1>6. MarkOK'
  BY <1>1, <1>3, MarkStays DEF QuotedResume, mark
<1>7. GapOK'
  BY GapEmptied DEF QuotedResume
<1>8. BlockOK'
  BY <1>1, <1>3, BlockStays DEF QuotedResume
<1> QED BY <1>4, <1>5, <1>6, <1>7, <1>8, SoundIsNext

LEMMA IndentationSound == Sound /\ Indentation => Sound'
<1> SUFFICES ASSUME Sound, Indentation PROVE Sound'
  OBVIOUS
<1>1. InputOK /\ OutputOK /\ WrittenOK /\ MarkOK /\ ResultOK /\ GapOK /\ BlockOK
  BY SoundIs
<1>2. /\ \A i : At(text, i) \in Printable \cup {"z"}
      /\ \A i : At(text, i) # "z" => i \in 1..Len(text) /\ At(text, i) \in Printable
      /\ Len(text) \in Nat
  BY <1>1, Seen DEF WrittenOK
<1>3. UNCHANGED input /\ UNCHANGED output /\ text' = text /\ phase # "asked" /\ phase' # "asked"
  BY GapOfIs DEF Indentation, output, Finish, InGap
<1>4. InputOK' /\ OutputOK' /\ WrittenOK'
  BY <1>3, ScannerStep
<1>5. ResultOK'
  BY <1>1 DEF Indentation, ResultOK, Phases
<1>6. MarkOK'
  <2>1. Skip(1) /\ index + 1 \in 1..(Len(text) + 1)
    BY <1>1, <1>2 DEF Indentation, Here, MarkOK
  <2> QED BY <1>1, <1>2, <1>3, <2>1, Moves
<1>7. GapOK'
  BY <1>1, <1>3, GapStays DEF Indentation
<1>8. BlockOK'
  BY <1>1, <1>3, BlockStays DEF Indentation
<1> QED BY <1>4, <1>5, <1>6, <1>7, <1>8, SoundIsNext

LEMMA EmptyLineSound == Sound /\ EmptyLine => Sound'
<1> SUFFICES ASSUME Sound, EmptyLine PROVE Sound'
  OBVIOUS
<1>1. InputOK /\ OutputOK /\ WrittenOK /\ MarkOK /\ ResultOK /\ GapOK /\ BlockOK
  BY SoundIs
<1>2. /\ \A i : At(text, i) \in Printable \cup {"z"}
      /\ \A i : At(text, i) # "z" => i \in 1..Len(text) /\ At(text, i) \in Printable
      /\ Len(text) \in Nat
  BY <1>1, Seen DEF WrittenOK
<1>3. UNCHANGED input /\ UNCHANGED output /\ text' = text /\ phase # "asked" /\ phase' # "asked"
  BY GapOfIs DEF EmptyLine, output, Finish, InGap
<1>4. InputOK' /\ OutputOK' /\ WrittenOK'
  BY <1>3, ScannerStep
<1>5. ResultOK'
  BY <1>1 DEF EmptyLine, ResultOK, Phases
<1>6. MarkOK'
  <2>1. SkipLine /\ index \in 1..Len(text)
    BY <1>1, <1>2 DEF EmptyLine, Here, MarkOK, Break
  <2> QED BY <1>1, <1>2, <1>3, <2>1, MovesLine
<1>7. GapOK'
  <2>1. /\ whitespaces' = whitespaces /\ leading_break' = leading_break
        /\ leading_blanks' = leading_blanks /\ Here \in Break
        /\ trailing_breaks' = Append(trailing_breaks, Here)
    BY DEF EmptyLine
  <2>2. PICK t, h : t = trailing_breaks /\ h = Here
    OBVIOUS
  <2>3. t \in Seq(Break) /\ h \in Break
    BY <1>1, <2>1, <2>2 DEF GapOK
  <2>4. Append(t, h) \in Seq(Break)
    BY ONLY <2>3, Appended
  <2>5. trailing_breaks' \in Seq(Break)
    BY ONLY <2>1, <2>2, <2>4
  <2> QED BY <1>1, <2>1, <2>5 DEF GapOK
<1>8. BlockOK'
  <2>1. max_indent \in Nat /\ column \in Nat
    BY <1>1 DEF BlockOK, MarkOK
  <2>2. Max({max_indent, column}) \in Nat
    BY <2>1, MaxOfTwo
  <2> QED BY <1>1, <2>2 DEF EmptyLine, BlockOK
<1> QED BY <1>4, <1>5, <1>6, <1>7, <1>8, SoundIsNext

LEMMA BlockLineSound == Sound /\ BlockLine => Sound'
<1> SUFFICES ASSUME Sound, BlockLine PROVE Sound'
  OBVIOUS
<1>1. InputOK /\ OutputOK /\ WrittenOK /\ MarkOK /\ ResultOK /\ GapOK /\ BlockOK
  BY SoundIs
<1>2. /\ \A i : At(text, i) \in Printable \cup {"z"}
      /\ \A i : At(text, i) # "z" => i \in 1..Len(text) /\ At(text, i) \in Printable
      /\ Len(text) \in Nat
  BY <1>1, Seen DEF WrittenOK
<1>3. UNCHANGED input /\ UNCHANGED output /\ text' = text /\ phase # "asked" /\ phase' # "asked"
  BY GapOfIs DEF BlockLine, output, Finish, InGap
<1>4. InputOK' /\ OutputOK' /\ WrittenOK'
  BY <1>3, ScannerStep
<1>9. PICK r0 : r0 = result
  OBVIOUS
<1>5. ResultOK'
  <2>1. PICK l, t, s : l = leading_break /\ t = trailing_breaks /\ s = <<"space">>
    OBVIOUS
  <2>2. r0 \in Seq(Characters) /\ <<>> \in Seq(Characters) /\ s \in Seq(Characters)
    <3>1. <<>> \in Seq(Characters) /\ <<"space">> \in Seq(Characters)
      BY DEF Characters, Blank
    <3> QED BY <1>1, <1>9, <2>1, <3>1 DEF BlockLine, ResultOK
  <2>3. l \in Seq(Characters) /\ t \in Seq(Characters)
    <3>1. l \in Seq(Break) /\ t \in Seq(Break) /\ Break \subseteq Characters
      BY <1>1, <2>1 DEF GapOK, Characters
    <3> QED BY ONLY <3>1, Wider
  <2>4. ASSUME NEW x, x \in Seq(Characters), NEW y, y \in Seq(Characters)
        PROVE  (r0 \o x) \o y \in Seq(Characters)
    <3>1. PICK z : z = r0 \o x
      OBVIOUS
    <3>2. z \in Seq(Characters)
      BY ONLY <2>2, <2>4, <3>1, Both
    <3>3. z \o y \in Seq(Characters)
      BY ONLY <2>4, <3>2, Both
    <3> QED BY <3>1, <3>3
  <2>5. \/ result' = Error /\ phase' = "read"
        \/ \E x, y \in {<<>>, s, l, t} : result' = (r0 \o x) \o y /\ phase' \in {"line", "read"}
    <3>1. CASE Indenting /\ Here = "\t"
      BY <3>1 DEF BlockLine, Finish
    <3>2. CASE ~(Indenting /\ Here = "\t") /\ column = Determined /\ Here # "z"
      <4>1. PICK folds : folds = (/\ At(text, Len(Where.before) + 1) = ">"
                                 /\ ~leading_blanks /\ Here \notin Blank
                                 /\ leading_break = <<"\n">>)
        OBVIOUS
      <4>2. PICK joint : joint = IF ~folds THEN leading_break
                                 ELSE IF trailing_breaks = <<>> THEN <<"space">> ELSE <<>>
        OBVIOUS
      <4>3. result' = result \o joint \o trailing_breaks /\ phase' = "line"
        BY <3>2, <4>1, <4>2 DEF BlockLine
      <4>4. joint \in {<<>>, s, l, t} /\ t \in {<<>>, s, l, t}
        BY <2>1, <4>2
      <4> QED BY <1>9, <2>1, <4>3, <4>4
    <3>3. CASE ~(Indenting /\ Here = "\t") /\ ~(column = Determined /\ Here # "z")
      <4>1. PICK x, y : /\ x = (IF chomping = "-" THEN <<>> ELSE leading_break)
                        /\ y = (IF chomping = "+" THEN trailing_breaks ELSE <<>>)
        OBVIOUS
      <4>2. result' = result \o x \o y /\ phase' = "read"
        BY <3>3, <4>1 DEF BlockLine, Finish
      <4>3. x \in {<<>>, s, l, t} /\ y \in {<<>>, s, l, t}
        BY <2>1, <4>1
      <4> QED BY <1>9, <4>2, <4>3
    <3> QED BY <3>1, <3>2, <3>3
  <2>6. CASE result' = Error /\ phase' = "read"
    BY <2>6 DEF ResultOK, Phases
  <2>7. CASE \E x, y \in {<<>>, s, l, t} : result' = (r0 \o x) \o y /\ phase' \in {"line", "read"}
    <3>1. PICK x \in {<<>>, s, l, t}, y \in {<<>>, s, l, t} :
            result' = (r0 \o x) \o y /\ phase' \in {"line", "read"}
      BY <2>7
    <3>2. x \in Seq(Characters) /\ y \in Seq(Characters)
      BY <2>2, <2>3
    <3>3. result' \in Seq(Characters)
      BY <2>4, <3>1, <3>2
    <3> QED BY <3>1, <3>3 DEF ResultOK, Phases
  <2> QED BY <2>5, <2>6, <2>7
<1>6. MarkOK'
  BY <1>1, <1>3, MarkStays DEF BlockLine, mark
<1>7. GapOK'
  <2>1. CASE UNCHANGED gap
    BY <1>1, <2>1, GapStays
  <2>2. CASE /\ leading_break' = <<>> /\ trailing_breaks' = <<>> /\ leading_blanks' = (Here \in Blank)
             /\ whitespaces' = whitespaces
    <3>1. <<>> \in Seq(Break)
      OBVIOUS
    <3> QED BY <1>1, <2>2, <3>1 DEF GapOK
  <2> QED BY <2>1, <2>2 DEF BlockLine
<1>8. BlockOK'
  <2>1. CASE UNCHANGED block
    BY <1>1, <2>1, BlockStays
  <2>2. CASE indent' = Determined /\ max_indent' = max_indent /\ chomping' = chomping
    <3>1. Determined \in Nat
      BY <1>1, DeterminedIs DEF InputOK
    <3> QED BY <1>1, <2>2, <3>1 DEF BlockOK
  <2> QED BY <2>1, <2>2 DEF BlockLine
<1> QED BY <1>4, <1>5, <1>6, <1>7, <1>8, SoundIsNext

LEMMA BlockCharacterSound == Sound /\ BlockCharacter => Sound'
<1> SUFFICES ASSUME Sound, BlockCharacter PROVE Sound'
  OBVIOUS
<1>1. InputOK /\ OutputOK /\ WrittenOK /\ MarkOK /\ ResultOK /\ GapOK /\ BlockOK
  BY SoundIs
<1>2. /\ \A i : At(text, i) \in Printable \cup {"z"}
      /\ \A i : At(text, i) # "z" => i \in 1..Len(text) /\ At(text, i) \in Printable
      /\ Len(text) \in Nat
  BY <1>1, Seen DEF WrittenOK
<1>3. UNCHANGED input /\ UNCHANGED output /\ text' = text /\ phase # "asked" /\ phase' # "asked"
  BY GapOfIs DEF BlockCharacter, output, Finish, InGap
<1>4. InputOK' /\ OutputOK' /\ WrittenOK'
  BY <1>3, ScannerStep
<1>5. ResultOK'
  <2>1. Here \in Characters
    BY <1>2 DEF BlockCharacter, Here, Printable
  <2>2. PICK r, h : r = result /\ h = Here
    OBVIOUS
  <2>3. r \in Seq(Characters) /\ h \in Characters
    BY <1>1, <2>1, <2>2 DEF BlockCharacter, ResultOK
  <2>4. Append(r, h) \in Seq(Characters)
    BY ONLY <2>3, Appended
  <2> QED BY <1>1, <2>2, <2>4 DEF BlockCharacter, ResultOK, Phases
<1>6. MarkOK'
  <2>1. Skip(1) /\ index + 1 \in 1..(Len(text) + 1)
    BY <1>1, <1>2 DEF BlockCharacter, Here, MarkOK
  <2> QED BY <1>1, <1>2, <1>3, <2>1, Moves
<1>7. GapOK'
  BY <1>1, <1>3, GapStays DEF BlockCharacter
<1>8. BlockOK'
  BY <1>1, <1>3, BlockStays DEF BlockCharacter
<1> QED BY <1>4, <1>5, <1>6, <1>7, <1>8, SoundIsNext

LEMMA BlockLineEndSound == Sound /\ BlockLineEnd => Sound'
<1> SUFFICES ASSUME Sound, BlockLineEnd PROVE Sound'
  OBVIOUS
<1>1. InputOK /\ OutputOK /\ WrittenOK /\ MarkOK /\ ResultOK /\ GapOK /\ BlockOK
  BY SoundIs
<1>2. /\ \A i : At(text, i) \in Printable \cup {"z"}
      /\ \A i : At(text, i) # "z" => i \in 1..Len(text) /\ At(text, i) \in Printable
      /\ Len(text) \in Nat
  BY <1>1, Seen DEF WrittenOK
<1>3. UNCHANGED input /\ UNCHANGED output /\ text' = text /\ phase # "asked" /\ phase' # "asked"
  BY GapOfIs DEF BlockLineEnd, output, Finish, InGap
<1>4. InputOK' /\ OutputOK' /\ WrittenOK'
  BY <1>3, ScannerStep
<1>5. ResultOK'
  BY <1>1 DEF BlockLineEnd, ResultOK, Phases
<1>6. MarkOK'
  <2>1. CASE Here = "z"
    BY <1>1, <1>3, <2>1, MarkStays DEF BlockLineEnd, mark
  <2>2. CASE Here # "z"
    <3>1. SkipLine /\ index \in 1..Len(text)
      BY <1>1, <1>2, <2>2 DEF BlockLineEnd, Here, MarkOK, Break
    <3> QED BY <1>1, <1>2, <1>3, <3>1, MovesLine
  <2> QED BY <2>1, <2>2
<1>7. GapOK'
  <2>1. PICK h : h = Here
    OBVIOUS
  <2>2. h \in Break => <<h>> \in Seq(Break)
    OBVIOUS
  <2>3. leading_break' = leading_break \/ (leading_break' = <<h>> /\ h \in Break)
    BY <2>1 DEF BlockLineEnd
  <2> QED BY <1>1, <2>2, <2>3 DEF BlockLineEnd, GapOK
<1>8. BlockOK'
  BY <1>1 DEF BlockLineEnd, BlockOK
<1> QED BY <1>4, <1>5, <1>6, <1>7, <1>8, SoundIsNext

LEMMA BeforeIs ==
  ASSUME NEW where \in DOMAIN Places
  PROVE  /\ Len(Places[where].before) = IF where = "value" THEN 3
                                         ELSE IF where \in {"item", "explicit"} THEN 2 ELSE IF where = "flow" THEN 1 ELSE 0
         /\ Len(Places[where].before) \in Nat
<1>1. Len(<<>>) = 0 /\ Len(<<"a", ":", "space">>) = 3 /\ Len(<<"-", "space">>) = 2
      /\ Len(<<"?", "space">>) = 2 /\ Len(<<"[">>) = 1
  OBVIOUS
<1>2. where \in {"root", "value", "item", "key", "explicit", "flow"}
  BY PlacesAre
<1>3. \/ where \in {"root", "key"} /\ Places[where].before = <<>>
      \/ where = "value" /\ Places[where].before = <<"a", ":", "space">>
      \/ where = "item" /\ Places[where].before = <<"-", "space">>
      \/ where = "explicit" /\ Places[where].before = <<"?", "space">>
      \/ where = "flow" /\ Places[where].before = <<"[">>
  BY <1>2, PlacesAre
<1>4. PICK b : b = Places[where].before
  OBVIOUS
<1>5. CASE where \in {"root", "key"} /\ b = <<>>
  BY <1>4, <1>5
<1>6. CASE where = "value" /\ b = <<"a", ":", "space">>
  BY <1>4, <1>6
<1>7. CASE where = "item" /\ b = <<"-", "space">>
  BY <1>4, <1>7
<1>8. CASE where = "flow" /\ b = <<"[">>
  BY <1>4, <1>8
<1>9. CASE where = "explicit" /\ b = <<"?", "space">>
  BY <1>4, <1>9
<1> QED BY <1>3, <1>4, <1>5, <1>6, <1>7, <1>8, <1>9

LEMMA NextIs ==
  Next =>
    \/ Emit
    \/ FetchPlain
    \/ PlainCharacter
    \/ PlainEnd
    \/ PlainResume
    \/ FetchQuoted
    \/ QuotedCharacter
    \/ QuotedEnd
    \/ QuotedResume
    \/ FetchBlock
    \/ Indentation
    \/ EmptyLine
    \/ BlockLine
    \/ BlockCharacter
    \/ BlockLineEnd
    \/ ConsumeBlank
    \/ ConsumeBreak
    \/ UNCHANGED vars
  BY DEF Next, Plain, Quoted, Block, Done

LEMMA SoundStays == Sound /\ UNCHANGED vars => Sound'
<1> SUFFICES ASSUME Sound, UNCHANGED vars PROVE Sound'
  OBVIOUS
<1>1. InputOK /\ OutputOK /\ WrittenOK /\ MarkOK /\ ResultOK /\ GapOK /\ BlockOK
  BY SoundIs
<1>2. /\ UNCHANGED input /\ UNCHANGED output /\ UNCHANGED mark /\ UNCHANGED gap /\ UNCHANGED block
      /\ phase' = phase /\ result' = result
  BY DEF vars
<1>3. text' = text /\ index' = index /\ column' = column /\ chosen' = chosen
      /\ value' = value /\ asked' = asked /\ place' = place /\ best_indent' = best_indent
  BY <1>2 DEF output, mark, input
<1>4. InputOK'
  BY <1>1, <1>3 DEF InputOK
<1>5. OutputOK'
  BY <1>1, <1>2, <1>3 DEF OutputOK
<1>6. WrittenOK'
  BY <1>1, <1>3 DEF WrittenOK
<1>7. MarkOK'
  BY <1>1, <1>3, MarkStays
<1>8. ResultOK'
  BY <1>1, <1>2 DEF ResultOK
<1>9. GapOK' /\ BlockOK'
  BY <1>1, <1>2, GapStays, BlockStays
<1> QED BY <1>4, <1>5, <1>6, <1>7, <1>8, <1>9, SoundIsNext

(* Sound is inductive.                                                             *)
LEMMA SoundStep == Sound /\ [Next]_vars => Sound'
<1> SUFFICES ASSUME Sound, [Next]_vars PROVE Sound'
  OBVIOUS
<1>1. CASE Emit
  BY <1>1, EmitSound
<1>2. CASE FetchPlain
  BY <1>2, FetchPlainSound
<1>3. CASE PlainCharacter
  BY <1>3, PlainCharacterSound
<1>4. CASE PlainEnd
  BY <1>4, PlainEndSound
<1>5. CASE PlainResume
  BY <1>5, PlainResumeSound
<1>6. CASE FetchQuoted
  BY <1>6, FetchQuotedSound
<1>7. CASE QuotedCharacter
  BY <1>7, QuotedCharacterSound
<1>8. CASE QuotedEnd
  BY <1>8, QuotedEndSound
<1>9. CASE QuotedResume
  BY <1>9, QuotedResumeSound
<1>10. CASE FetchBlock
  BY <1>10, FetchBlockSound
<1>11. CASE Indentation
  BY <1>11, IndentationSound
<1>12. CASE EmptyLine
  BY <1>12, EmptyLineSound
<1>13. CASE BlockLine
  BY <1>13, BlockLineSound
<1>14. CASE BlockCharacter
  BY <1>14, BlockCharacterSound
<1>15. CASE BlockLineEnd
  BY <1>15, BlockLineEndSound
<1>16. CASE ConsumeBlank
  BY <1>16, ConsumeBlankSound
<1>17. CASE ConsumeBreak
  BY <1>17, ConsumeBreakSound
<1>18. CASE UNCHANGED vars
  BY <1>18, SoundStays
<1> QED BY NextIs, <1>1, <1>2, <1>3, <1>4, <1>5, <1>6, <1>7, <1>8, <1>9, <1>10, <1>11, <1>12, <1>13, <1>14, <1>15, <1>16, <1>17, <1>18

(* TypeOK: the scanner's variables keep their types, and the text is never anything *)
(* that the reader refuses, because a scalar with such characters is quoted.        *)
THEOREM TypeCorrect == Spec => []TypeOK
<1>1. Init => Sound
  BY InitSound
<1>2. Sound /\ [Next]_vars => Sound'
  BY SoundStep
<1>3. Sound => TypeOK
  BY DEF Sound
<1> QED BY <1>1, <1>2, <1>3, PTL DEF Spec

(* Settles: select_scalar_style, asked for the style that it chose, chooses it.     *)
THEOREM StyleSettles == Spec => []Settles
<1>1. Init => Sound
  BY InitSound
<1>2. Sound /\ [Next]_vars => Sound'
  BY SoundStep
<1>3. Sound => Settles
  BY SelectedAgain DEF Sound, OutputOK, Settles
<1> QED BY <1>1, <1>2, <1>3, PTL DEF Spec

LEMMA StageIs ==
  /\ phase = "asked" => Stage = 4
  /\ phase = "written" => Stage = 3
  /\ phase = "breaks" /\ Here = "z" => Stage = 1
  /\ phase = "breaks" /\ Here # "z" => Stage = 3
  /\ phase \in {"gap", "single_gap", "double_gap", "line"} => Stage = 2
  /\ phase \in {"word", "single", "double"} => Stage = 1
  /\ phase = "read" => Stage = 0
  BY GapOfIs DEF Stage

LEMMA StageIsNext ==
  /\ phase' = "asked" => Stage' = 4
  /\ phase' = "written" => Stage' = 3
  /\ phase' = "breaks" /\ At(text', index') = "z" => Stage' = 1
  /\ phase' = "breaks" /\ At(text', index') # "z" => Stage' = 3
  /\ phase' \in {"gap", "single_gap", "double_gap", "line"} => Stage' = 2
  /\ phase' \in {"word", "single", "double"} => Stage' = 1
  /\ phase' = "read" => Stage' = 0
  BY GapOfIs DEF Stage, Here

LEMMA Forward ==
  ASSUME Sound, NEW n \in Nat \ {0}, Skip(n)
  PROVE  index' > index
  BY DEF Sound, TypeOK, Skip

(* Every step goes forward in the text, or comes nearer to the next that does.     *)
LEMMA AdvancesStep ==
  Sound /\ Next => (index' > index \/ (index' = index /\ Stage' < Stage)) \/ UNCHANGED vars
<1> SUFFICES ASSUME Sound, Next
             PROVE  (index' > index \/ (index' = index /\ Stage' < Stage)) \/ UNCHANGED vars
  OBVIOUS
<1>0. index \in Nat
  <2>1. PICK l : l = Len(text) + 1
    OBVIOUS
  <2>2. index \in 1..l
    BY <2>1 DEF Sound, TypeOK
  <2> QED BY ONLY <2>2
<1>1. CASE Emit
  <2>1. PICK l : l = Len(Where.before) /\ l \in Nat
    <3>1. place \in DOMAIN Places
      BY DEF Sound, InputOK
    <3> QED BY <3>1, BeforeIs DEF Where
  <2>2. phase = "asked" /\ phase' = "written" /\ index' = index + l
    BY <1>1, <2>1 DEF Emit, Skip
  <2>3. Stage = 4 /\ Stage' = 3
    BY <2>2, StageIs, StageIsNext
  <2> QED BY <1>0, <2>1, <2>2, <2>3
<1>2. CASE FetchPlain
  BY <1>0, <1>2, StageIs, StageIsNext DEF FetchPlain, Finish, mark
<1>3. CASE PlainCharacter
  BY <1>0, <1>3 DEF PlainCharacter, Skip
<1>4. CASE PlainEnd
  BY <1>0, <1>4, StageIs, StageIsNext DEF PlainEnd, Finish, mark
<1>5. CASE PlainResume
  BY <1>0, <1>5, StageIs, StageIsNext DEF PlainResume, Finish, mark
<1>6. CASE FetchQuoted
  BY <1>0, <1>6 DEF FetchQuoted, Skip
<1>7. CASE QuotedCharacter
  <2>1. CASE UNCHANGED mark /\ phase' = "read"
    BY <1>7, <2>1, StageIs, StageIsNext DEF QuotedCharacter, mark
  <2>2. CASE \E n \in 1..3 : Skip(n)
    BY <1>0, <2>2 DEF Skip
  <2> QED BY <1>7, <2>1, <2>2 DEF QuotedCharacter, Finish
<1>8. CASE QuotedEnd
  BY <1>0, <1>8, StageIs, StageIsNext DEF QuotedEnd, Finish, mark
<1>9. CASE QuotedResume
  BY <1>0, <1>9, StageIs, StageIsNext DEF QuotedResume, Finish, Quote, mark
<1>10. CASE FetchBlock
  <2>1. CASE UNCHANGED mark /\ phase' = "read"
    BY <1>10, <2>1, StageIs, StageIsNext DEF FetchBlock, mark
  <2>2. CASE index' = HeaderEnd + 1
    BY <1>0, <2>2 DEF HeaderEnd
  <2> QED BY <1>10, <2>1, <2>2 DEF FetchBlock, Finish
<1>11. CASE Indentation
  BY <1>0, <1>11 DEF Indentation, Skip
<1>12. CASE EmptyLine
  BY <1>0, <1>12 DEF EmptyLine, SkipLine
<1>13. CASE BlockLine
  <2>1. phase = "breaks" /\ index' = index
    BY <1>13 DEF BlockLine, mark
  <2>2. phase' = "read" \/ (phase' = "line" /\ Here # "z")
    BY <1>13 DEF BlockLine, Finish
  <2> QED BY <2>1, <2>2, StageIs, StageIsNext
<1>14. CASE BlockCharacter
  BY <1>0, <1>14 DEF BlockCharacter, Skip
<1>15. CASE BlockLineEnd
  <2>1. CASE Here # "z"
    BY <1>0, <1>15, <2>1 DEF BlockLineEnd, SkipLine
  <2>2. CASE Here = "z"
    <3>1. phase = "line" /\ phase' = "breaks" /\ index' = index /\ text' = text
      BY <1>15, <2>2 DEF BlockLineEnd, mark, output
    <3>2. At(text', index') = "z"
      BY <2>2, <3>1 DEF Here
    <3> QED BY <3>1, <3>2, StageIs, StageIsNext
  <2> QED BY <2>1, <2>2
<1>16. CASE ConsumeBlank
  BY <1>0, <1>16 DEF ConsumeBlank, Skip
<1>17. CASE ConsumeBreak
  BY <1>0, <1>17 DEF ConsumeBreak, SkipLine
<1> QED BY NextIs, <1>1, <1>2, <1>3, <1>4, <1>5, <1>6, <1>7, <1>8, <1>9, <1>10, <1>11, <1>12, <1>13, <1>14, <1>15, <1>16, <1>17

(* Advances: a step that does not read a character comes nearer to the next that    *)
(* does, so that no loop of the scanner goes on for ever.                           *)
THEOREM ScannerAdvances == Spec => Advances
<1>1. Init => Sound
  BY InitSound
<1>2. Sound /\ [Next]_vars => Sound'
  BY SoundStep
<1>3. Sound /\ [Next]_vars => [index' > index \/ (index' = index /\ Stage' < Stage)]_vars
  BY AdvancesStep
<1> QED BY <1>1, <1>2, <1>3, PTL DEF Spec, Advances

-----------------------------------------------------------------------------
(* Plain scalars.                                                                  *)
(* What has been read when the scanner comes to character k of the string.         *)
Before(v, k) == SubSeq(v, 1, k - 1)

LEMMA BeforeFirst ==
  ASSUME NEW v
  PROVE  Before(v, 1) = <<>>
  BY SubSeqEmpty DEF Before

LEMMA BeforeEnd ==
  ASSUME NEW S, NEW v, v \in Seq(S), NEW n, n = Len(v)
  PROVE  Before(v, n + 1) = v
<1>1. v \in Seq(S) /\ n \in Nat
  OBVIOUS
<1>2. SubSeq(v, 1, Len(v)) = v
  BY ONLY <1>1, SubSeqFull
<1>3. (n + 1) - 1 = n
  BY <1>1
<1> QED BY ONLY <1>2, <1>3, n = Len(v) DEF Before

(* One character more.                                                             *)
LEMMA BeforeNext ==
  ASSUME NEW S, NEW v, v \in Seq(S), NEW k \in 1..Len(v)
  PROVE  /\ Before(v, k) \in Seq(S)
         /\ Append(Before(v, k), v[k]) = Before(v, k + 1)
         /\ Before(v, k) \o <<v[k]>> = Before(v, k + 1)
<1>1. v \in Seq(S) /\ k \in 1..Len(v) /\ 1 \in 1..Len(v) /\ k \in 1..Len(v) /\ k \in Nat /\ Len(v) \in Nat
  OBVIOUS
<1>2. SubSeq(v, 1, k) = SubSeq(v, 1, k - 1) \o <<v[k]>>
  BY ONLY <1>1, SubSeqRecursiveSecond
<1>3. (k + 1) - 1 = k
  BY <1>1
<1>4. SubSeq(v, 1, k - 1) \in Seq(S) /\ v[k] \in S
  BY <1>1
<1>5. PICK b : b = SubSeq(v, 1, k - 1)
  OBVIOUS
<1>6. Append(b, v[k]) = b \o <<v[k]>>
  <2>1. b \in Seq(S) /\ v[k] \in S
    BY <1>4, <1>5
  <2> QED BY ONLY <2>1, Appended
<1> QED BY ONLY <1>2, <1>3, <1>4, <1>5, <1>6 DEF Before

(* Steady: pieces of one character each.                                           *)
LEMMA Steady ==
  ASSUME NEW n \in Nat, NEW off, NEW b \in Nat, off[1] = b + 1,
         \A k \in 1..n : off[k + 1] = off[k] + 1
  PROVE  \A k \in 1..(n + 1) : off[k] = b + k
<1>1. PICK B : B = {k \in 1..(n + 1) : off[k] # b + k}
  OBVIOUS
<1>2. ASSUME B # {} PROVE FALSE
  <2>1. PICK j \in B : \A m \in B : j <= m
    <3>1. B \in SUBSET Nat
      BY <1>1
    <3> QED BY <1>2, <3>1, LeastMember
  <2>2. j \in 1..(n + 1) /\ off[j] # b + j
    BY <1>1
  <2>3. j # 1
    BY <2>2
  <2>4. PICK i : i = j - 1 /\ i \in 1..n /\ i \in 1..(n + 1) /\ j = i + 1 /\ ~(j <= i)
    BY <2>2, <2>3
  <2>5. i \notin B
    BY <2>1, <2>4
  <2>6. off[i] = b + i
    BY <1>1, <2>4, <2>5
  <2>7. off[i + 1] = off[i] + 1
    BY <2>4
  <2>8. off[j] = b + j
    BY ONLY <2>4, <2>6, <2>7, b \in Nat
  <2> QED BY <2>2, <2>8
<1> QED BY <1>1, <1>2

(* What stands after a scalar that is not a block.                                 *)
LEMMA RestOfPlain ==
  ASSUME NEW v, NEW where \in DOMAIN Places, NEW r, r = Rest(v, "plain", where)
  PROVE  /\ where = "root" => Len(r) = 1 /\ r[1] = "\n"
         /\ where = "value" => Len(r) = 2 /\ r[1] = "\n" /\ r[2] = "b"
         /\ where = "item" => Len(r) = 4 /\ r[1] = "\n" /\ r[2] = "-" /\ r[3] = "space"
         /\ where = "key" => Len(r) = 3 /\ r[1] = ":" /\ r[2] = "space"
         /\ where = "explicit" => Len(r) = 4 /\ r[1] = "\n" /\ r[2] = ":" /\ r[3] = "space"
         /\ where = "flow" => Len(r) = 1 /\ r[1] = "]"
<1>1. r = (<<>> \o Line(v, "plain", where)) \o Places[where].after
  BY DEF Rest, Closing
<1>2. Line(v, "plain", where) = (IF where \in {"key", "flow"} THEN <<>> ELSE <<"\n">>)
  BY PlacesAre DEF Line, Blocks
<1>3. ASSUME where = "root" PROVE r = (<<>> \o <<"\n">>) \o <<>>
  BY <1>1, <1>2, <1>3, PlacesAre
<1>4. ASSUME where = "value" PROVE r = (<<>> \o <<"\n">>) \o <<"b">>
  BY <1>1, <1>2, <1>4, PlacesAre
<1>5. ASSUME where = "item" PROVE r = (<<>> \o <<"\n">>) \o <<"-", "space", "b">>
  BY <1>1, <1>2, <1>5, PlacesAre
<1>6. ASSUME where = "key" PROVE r = (<<>> \o <<>>) \o <<":", "space", "b">>
  BY <1>1, <1>2, <1>6, PlacesAre
<1>7. ASSUME where = "flow" PROVE r = (<<>> \o <<>>) \o <<"]">>
  BY <1>1, <1>2, <1>7, PlacesAre
<1>8. ASSUME where = "root" PROVE Len(r) = 1 /\ r[1] = "\n"
  BY ONLY <1>3, <1>8
<1>9. ASSUME where = "value" PROVE Len(r) = 2 /\ r[1] = "\n" /\ r[2] = "b"
  BY ONLY <1>4, <1>9
<1>10. ASSUME where = "item" PROVE Len(r) = 4 /\ r[1] = "\n" /\ r[2] = "-" /\ r[3] = "space"
  BY ONLY <1>5, <1>10
<1>11. ASSUME where = "key" PROVE Len(r) = 3 /\ r[1] = ":" /\ r[2] = "space"
  BY ONLY <1>6, <1>11
<1>12. ASSUME where = "flow" PROVE Len(r) = 1 /\ r[1] = "]"
  BY ONLY <1>7, <1>12
<1>13. ASSUME where = "explicit" PROVE r = (<<>> \o <<"\n">>) \o <<":", "space", "b">>
  BY <1>1, <1>2, <1>13, PlacesAre
<1>14. ASSUME where = "explicit" PROVE Len(r) = 4 /\ r[1] = "\n" /\ r[2] = ":" /\ r[3] = "space"
  BY ONLY <1>13, <1>14
<1> QED BY <1>8, <1>9, <1>10, <1>11, <1>12, <1>14

(* What a plain scalar may contain.                                                *)
PlainContents(v, n, flow) ==
    /\ \A i \in 1..n : v[i] \in Characters \ {"ctl", "\t", "\n", "LS"}
    /\ v[1] # "space" /\ v[n] # "space" /\ v[1] \notin Indicators
    /\ v[1] = "-" => n >= 2 /\ v[2] # "space"
    /\ ~flow /\ v[1] = "?" => n >= 2 /\ v[2] # "space"
    /\ ~flow => \A i \in 1..n : v[i] = ":" => i < n /\ v[i + 1] # "space"
    /\ flow => \A i \in 1..n : v[i] \notin {"comma", "?", "[", "]", "lbrace", "rbrace", ":"}
    /\ \A i \in 2..n : v[i] = "#" => v[i - 1] # "space"
    /\ ~(n >= 3 /\ v[1] = "-" /\ v[2] = "-" /\ v[3] = "-")

LEMMA PlainContains ==
  ASSUME NEW v, v \in Seq(Characters), v # <<>>, NEW flow, PlainAllowed(v, flow), NEW n, n = Len(v)
  PROVE  n \in Nat /\ n >= 1 /\ PlainContents(v, n, flow)
<1>0. v \in Seq(Characters) /\ v # <<>>
  OBVIOUS
<1>1. Len(v) \in Nat /\ Len(v) >= 1 /\ DOMAIN v = 1..Len(v)
  BY ONLY <1>0, NotEmpty
<1>2. n \in Nat /\ n >= 1 /\ DOMAIN v = 1..n
  BY <1>1
<1>3. \A i \in 1..n : v[i] \in Characters
  <2>1. \A i \in 1..Len(v) : v[i] \in Characters
    BY ONLY <1>0
  <2> QED BY <2>1
<1>4. /\ ~Bounded(v) /\ ~Has(v, Break \cup {"\t", "ctl"})
      /\ IF flow THEN ~FlowIndicators(v) ELSE ~BlockIndicators(v)
  BY DEF PlainAllowed
<1>5. \A i \in 1..n : v[i] \notin Break \cup {"\t", "ctl"}
  BY <1>2, <1>4 DEF Has
<1>6. v[1] # "space" /\ v[n] # "space"
  <2>1. PICK h : h = <<Head(v), Last(v)>>
    OBVIOUS
  <2>2. h[1] = v[1] /\ h[2] = v[n] /\ 1 \in DOMAIN h /\ 2 \in DOMAIN h
    <3>1. h[1] = Head(v) /\ h[2] = Last(v) /\ 1 \in DOMAIN h /\ 2 \in DOMAIN h
      BY <2>1
    <3>2. Head(v) = v[1]
      BY ONLY <1>0
    <3> QED BY <3>1, <3>2 DEF Last
  <2>3. \A i \in DOMAIN h : h[i] \notin {"space"} \cup Break
    BY <1>4, <2>1 DEF Bounded, Has
  <2> QED BY <2>2, <2>3
<1>7. ~Everywhere(v)
  BY <1>4 DEF FlowIndicators, BlockIndicators
<1>8. \A i : i \notin 1..n => At(v, i) = "z"
  BY <1>2 DEF At
<1>9. \A i \in 1..n : At(v, i) = v[i]
  BY <1>2 DEF At
<1>10. \A i \in 1..n : ~Followed(v, i) => i < n /\ v[i + 1] # "space"
  <2>1. ASSUME NEW i \in 1..n, ~Followed(v, i) PROVE i < n /\ v[i + 1] # "space"
    <3>1. At(v, i + 1) \notin {"space", "\t", "z"}
      BY <2>1 DEF Followed, Blank
    <3>2. i + 1 \in 1..n
      BY <1>8, <3>1
    <3>3. i + 1 <= n /\ At(v, i + 1) = v[i + 1]
      BY <1>9, <3>2
    <3>4. i < n
      BY ONLY <1>2, <2>1, <3>3
    <3> QED BY <3>1, <3>3, <3>4
  <2> QED BY <2>1
<1>11. v[1] \notin Indicators /\ (v[1] = "-" => ~Followed(v, 1))
  BY <1>7 DEF Everywhere
<1>12. \A i \in 2..n : v[i] = "#" => v[i - 1] # "space"
  <2>1. \A i \in 2..n : v[i] = "#" => ~Preceded(v, i)
    BY <1>2, <1>7 DEF Everywhere
  <2> QED BY <2>1 DEF Preceded, Blankz, Blank
<1>13. ~(n >= 3 /\ v[1] = "-" /\ v[2] = "-" /\ v[3] = "-")
  <2>1. ASSUME n >= 3, v[1] = "-", v[2] = "-", v[3] = "-" PROVE FALSE
    <3>1. SubSeq(v, 1, 3) = <<"-", "-", "-">>
      <4>1. PICK s : s = SubSeq(v, 1, 3)
        OBVIOUS
      <4>2. s \in Seq(Characters) /\ Len(s) = 3 /\ s[1] = v[1] /\ s[2] = v[2] /\ s[3] = v[3]
        BY ONLY <1>0, <1>2, <2>1, <4>1, n = Len(v)
      <4>3. PICK d : d = <<"-", "-", "-">>
        OBVIOUS
      <4>4. "-" \in Characters
        BY DEF Characters
      <4>5. d \in Seq(Characters) /\ Len(d) = 3 /\ d[1] = "-" /\ d[2] = "-" /\ d[3] = "-"
        BY <4>3, <4>4
      <4>6. Len(s) = Len(d) /\ \A i \in 1..Len(s) : s[i] = d[i]
        BY ONLY <2>1, <4>2, <4>5
      <4>7. s \in Seq(Characters) /\ d \in Seq(Characters)
        BY <4>2, <4>5
      <4>8. s = d
        BY ONLY <4>6, <4>7, SeqEqual
      <4> QED BY <4>1, <4>3, <4>8
    <3> QED BY <1>7, <2>1, <3>1 DEF Everywhere, DocumentMark
  <2> QED BY <2>1
<1>14. ~flow => /\ (v[1] = "?" => ~Followed(v, 1))
                /\ \A i \in 1..n : v[i] = ":" => ~Followed(v, i)
  BY <1>2, <1>4 DEF BlockIndicators
<1>15. flow => \A i \in 1..n : v[i] \notin {"comma", "?", "[", "]", "lbrace", "rbrace", ":"}
  BY <1>2, <1>4 DEF FlowIndicators, Has
<1>16. 1 \in 1..n
  BY <1>2
<1>17. v[1] = "-" => n >= 2 /\ v[2] # "space"
  BY <1>2, <1>10, <1>11, <1>16
<1>18. ~flow /\ v[1] = "?" => n >= 2 /\ v[2] # "space"
  BY <1>2, <1>10, <1>14, <1>16
<1>19. ~flow => \A i \in 1..n : v[i] = ":" => i < n /\ v[i + 1] # "space"
  BY <1>10, <1>14
<1>20. \A i \in 1..n : v[i] \in Characters \ {"ctl", "\t", "\n", "LS"}
  BY <1>3, <1>5 DEF Break
<1> QED BY <1>2, <1>6, <1>11, <1>12, <1>13, <1>15, <1>17, <1>18, <1>19, <1>20 DEF PlainContents

(* A plain scalar is written as it is.                                             *)
PlainLaid(v, where, t, n, b, r) ==
    /\ \A k \in 1..n : At(t, b + k) = v[k]
    /\ \A j \in 1..Len(r) : At(t, b + n + j) = r[j]
    /\ At(t, b + n + Len(r) + 1) = "z"
    /\ v # <<>> => PlainContents(v, n, Places[where].flow)
    /\ n \in Nat /\ b \in Nat
(* The text of a plain scalar, character by character.                             *)
LEMMA PlainText ==
  ASSUME NEW v, v \in Seq(Characters), NEW where \in DOMAIN Places, Granted(v, "plain", where),
         NEW best \in 2..9, NEW t, t = WriteAt(v, "plain", where, best),
         NEW n, n = Len(v), NEW b, b = Len(Places[where].before), NEW r, r = Rest(v, "plain", where)
  PROVE  PlainLaid(v, where, t, n, b, r)
<1>1. /\ n \in Nat /\ DOMAIN v = 1..n
      /\ v # <<>> => PlainContents(v, n, Places[where].flow)
      /\ v = <<>> => n = 0
  <2>1. v \in Seq(Characters) /\ n = Len(v)
    OBVIOUS
  <2>2. n \in Nat /\ DOMAIN v = 1..n /\ (v = <<>> => n = 0)
    BY ONLY <2>1
  <2>3. ASSUME v # <<>> PROVE PlainContents(v, n, Places[where].flow)
    <3>1. PICK f : f = Places[where].flow /\ PlainAllowed(v, f)
      BY DEF Granted
    <3>2. PlainContents(v, n, f)
      BY ONLY <2>1, <2>3, <3>1, PlainContains
    <3> QED BY <3>1, <3>2
  <2> QED BY <2>2, <2>3
<1>2. b \in Nat
  BY BeforeIs
<1>3. PICK margin : margin = Indent(where, best) /\ margin \in Nat
  BY MarginIs
<1>4. \A k \in 1..n : v[k] \notin Break
  <2>1. v # <<>> => \A k \in 1..n : v[k] \in Characters \ {"ctl", "\t", "\n", "LS"}
    BY <1>1 DEF PlainContents
  <2>2. v = <<>> => 1..n = {}
    BY <1>1
  <2> QED BY <2>1, <2>2 DEF Break
<1>5. \A k \in 1..n : Piece(v, "plain", margin, k) = <<v[k]>>
  <2>1. ASSUME NEW k \in 1..n PROVE Piece(v, "plain", margin, k) = <<v[k]>>
    <3>1. At(v, k - 1) \notin Break
      BY <1>1, <1>4 DEF At, Break
    <3> QED BY <1>4, <3>1 DEF Piece, Unfolded
  <2> QED BY <2>1
<1>6. \A k \in 1..n : Len(Piece(v, "plain", margin, k)) = 1 /\ Piece(v, "plain", margin, k)[1] = v[k]
  <2>1. ASSUME NEW k \in 1..n
        PROVE Len(Piece(v, "plain", margin, k)) = 1 /\ Piece(v, "plain", margin, k)[1] = v[k]
    <3>1. PICK c : c = v[k]
      OBVIOUS
    <3>2. Piece(v, "plain", margin, k) = <<c>>
      BY <1>5, <2>1, <3>1
    <3> QED BY <3>1, <3>2
  <2> QED BY <2>1
<1>7. PICK off : Layout(v, "plain", where, best, t, off)
  BY TextIs
<1>8. Opening(v, "plain", best) = <<>>
  BY DEF Opening
<1>9. /\ off[1] = b + 1
      /\ \A k \in 1..n : off[k + 1] = off[k] + 1
      /\ \A k \in 1..n : At(t, off[k] + 1 - 1) = v[k]
      /\ \A j \in 1..Len(r) : At(t, off[n + 1] + j - 1) = r[j]
      /\ At(t, off[n + 1] + Len(r)) = "z"
  <2>1. /\ off[1] = Len(Places[where].before) + Len(Opening(v, "plain", best)) + 1
        /\ \A k \in 1..n : off[k + 1] = off[k] + Len(Piece(v, "plain", margin, k))
        /\ \A k \in 1..n : \A j \in 1..Len(Piece(v, "plain", margin, k)) :
             At(t, off[k] + j - 1) = Piece(v, "plain", margin, k)[j]
        /\ \A j \in 1..Len(r) : At(t, off[n + 1] + j - 1) = r[j]
        /\ At(t, off[n + 1] + Len(r)) = "z"
    BY <1>3, <1>7 DEF Layout
  <2>2. off[1] = b + 1
    BY <1>2, <1>8, <2>1
  <2>3. \A k \in 1..n : off[k + 1] = off[k] + 1
    BY ONLY <1>6, <2>1
  <2>4. \A k \in 1..n : At(t, off[k] + 1 - 1) = v[k]
    BY <1>6, <2>1
  <2> QED BY <2>1, <2>2, <2>3, <2>4
<1>10. \A k \in 1..(n + 1) : off[k] = b + k
  <2>1. n \in Nat /\ b \in Nat /\ off[1] = b + 1 /\ \A k \in 1..n : off[k + 1] = off[k] + 1
    BY <1>1, <1>2, <1>9
  <2> QED BY ONLY <2>1, Steady
<1>11. \A k \in 1..n : At(t, b + k) = v[k]
  <2>1. ASSUME NEW k \in 1..n PROVE At(t, b + k) = v[k]
    <3>1. k \in 1..(n + 1) /\ k \in Nat
      BY <1>1
    <3>2. off[k] = b + k
      BY <1>10, <3>1
    <3>3. off[k] + 1 - 1 = b + k
      BY ONLY <1>2, <3>1, <3>2
    <3> QED BY <1>9, <2>1, <3>3
  <2> QED BY <2>1
<1>12. off[n + 1] = b + n + 1
  <2>1. n + 1 \in 1..(n + 1)
    BY <1>1
  <2> QED BY <1>1, <1>2, <1>10, <2>1
<1>13. \A j \in 1..Len(r) : At(t, b + n + j) = r[j]
  <2>1. ASSUME NEW j \in 1..Len(r) PROVE At(t, b + n + j) = r[j]
    <3>1. off[n + 1] + j - 1 = b + n + j
      BY ONLY <1>1, <1>2, <1>12, <2>1
    <3> QED BY <1>9, <2>1, <3>1
  <2> QED BY <2>1
<1>14. At(t, b + n + Len(r) + 1) = "z"
  <2>1. Len(r) \in Nat
    BY RestOfPlain, PlacesAre
  <2>2. off[n + 1] + Len(r) = b + n + Len(r) + 1
    BY ONLY <1>1, <1>2, <1>12, <2>1
  <2> QED BY <1>9, <2>2
<1> QED BY <1>1, <1>2, <1>11, <1>13, <1>14 DEF PlainLaid

(* The result and the blanks after it are what stands before character k.          *)
Spans(r, w, v, k) == r \o w = Before(v, k)

(* One character more.                                                             *)
LEMMA SpansNext ==
  ASSUME NEW v, NEW k, NEW r, NEW w, NEW x,
         v \in Seq(Characters), k \in 1..Len(v), r \in Seq(Characters), w \in Seq(Characters),
         Spans(r, w, v, k), x = Append(w, v[k])
  PROVE  Spans(r, x, v, k + 1)
<1>1. /\ v \in Seq(Characters) /\ k \in 1..Len(v) /\ r \in Seq(Characters) /\ w \in Seq(Characters)
      /\ r \o w = Before(v, k)
  BY DEF Spans
<1>2. PICK c : c = v[k] /\ c \in Characters
  <2>1. v \in Seq(Characters) /\ k \in 1..Len(v)
    BY ONLY <1>1
  <2> QED BY ONLY <2>1
<1>3. r \in Seq(Characters) /\ w \in Seq(Characters) /\ <<c>> \in Seq(Characters)
  BY <1>1, <1>2
<1>4. (r \o w) \o <<c>> = r \o (w \o <<c>>)
  BY ONLY <1>3, Associative
<1>5. x = w \o <<c>>
  <2>1. Append(w, c) = w \o <<c>>
    BY ONLY <1>2, <1>3, Appended
  <2> QED BY ONLY <1>2, <2>1, x = Append(w, v[k]), Zenon
<1>6. Before(v, k) \o <<c>> = Before(v, k + 1)
  <2>1. v \in Seq(Characters) /\ k \in 1..Len(v)
    BY ONLY <1>1
  <2>2. Before(v, k) \o <<v[k]>> = Before(v, k + 1)
    BY ONLY <2>1, BeforeNext
  <2> QED BY ONLY <1>2, <2>2, Zenon
<1> QED BY ONLY <1>1, <1>4, <1>5, <1>6, Zenon DEF Spans

(* What the scanner has in front of it while it reads a plain scalar.              *)
PlainAhead(n, b) ==
    /\ chosen = "plain" /\ value \in Seq(Characters) /\ n = Len(value) /\ n \in Nat
    /\ b = Len(Where.before) /\ b \in Nat
    /\ \A k \in 1..n : At(text, b + k) = value[k]
    /\ value # <<>> => PlainContents(value, n, Where.flow)
    /\ place \in DOMAIN Places /\ ~(value = <<>> /\ place \in {"key", "flow"})
    /\ place = "root" => b = 0 /\ At(text, b + n + 1) = "\n" /\ At(text, b + n + 2) = "z"
    /\ place = "value" => b = 3 /\ At(text, b + n + 1) = "\n" /\ At(text, b + n + 2) = "b"
    /\ place = "item" => b = 2 /\ At(text, b + n + 1) = "\n" /\ At(text, b + n + 2) = "-"
                         /\ At(text, b + n + 3) = "space"
    /\ place = "key" => b = 0 /\ At(text, b + n + 1) = ":" /\ At(text, b + n + 2) = "space"
    /\ place = "explicit" => b = 2 /\ At(text, b + n + 1) = "\n" /\ At(text, b + n + 2) = ":"
                             /\ At(text, b + n + 3) = "space"
    /\ place = "flow" => b = 1 /\ At(text, b + n + 1) = "]"

LEMMA PlainIsAhead ==
  ASSUME Sound, phase # "asked", chosen = "plain"
  PROVE  \E n, b : PlainAhead(n, b)
<1>1. /\ value \in Seq(Characters) /\ place \in DOMAIN Places /\ best_indent \in 2..9
      /\ Granted(value, "plain", place) /\ text = WriteAt(value, "plain", place, best_indent)
  BY DEF Sound, InputOK, OutputOK
<1>2. PICK n, b, r : n = Len(value) /\ b = Len(Places[place].before) /\ r = Rest(value, "plain", place)
  OBVIOUS
<1>3. /\ \A k \in 1..n : At(text, b + k) = value[k]
      /\ \A j \in 1..Len(r) : At(text, b + n + j) = r[j]
      /\ At(text, b + n + Len(r) + 1) = "z"
      /\ value # <<>> => PlainContents(value, n, Places[place].flow)
      /\ n \in Nat /\ b \in Nat
  <2>1. PlainLaid(value, place, text, n, b, r)
    BY ONLY <1>1, <1>2, PlainText
  <2> QED BY ONLY <2>1 DEF PlainLaid
<1>4. ~(value = <<>> /\ place \in {"key", "flow"})
  BY <1>1, PlacesAre DEF Granted, PlainAllowed
<1>5. /\ place = "root" => Len(r) = 1 /\ r[1] = "\n"
      /\ place = "value" => Len(r) = 2 /\ r[1] = "\n" /\ r[2] = "b"
      /\ place = "item" => Len(r) = 4 /\ r[1] = "\n" /\ r[2] = "-" /\ r[3] = "space"
      /\ place = "key" => Len(r) = 3 /\ r[1] = ":" /\ r[2] = "space"
      /\ place = "explicit" => Len(r) = 4 /\ r[1] = "\n" /\ r[2] = ":" /\ r[3] = "space"
      /\ place = "flow" => Len(r) = 1 /\ r[1] = "]"
  BY <1>1, <1>2, RestOfPlain
<1>6. b = IF place = "value" THEN 3 ELSE IF place \in {"item", "explicit"} THEN 2
          ELSE IF place = "flow" THEN 1 ELSE 0
  BY <1>1, <1>2, BeforeIs
<1>7. place = "root" => b = 0 /\ At(text, b + n + 1) = "\n" /\ At(text, b + n + 2) = "z"
  <2> SUFFICES ASSUME place = "root"
               PROVE  b = 0 /\ At(text, b + n + 1) = "\n" /\ At(text, b + n + 2) = "z"
    OBVIOUS
  <2>1. Len(r) = 1 /\ r[1] = "\n" /\ 1 \in 1..Len(r)
    BY <1>5
  <2>2. At(text, b + n + 1) = "\n"
    BY ONLY <1>3, <2>1
  <2>3. b + n + Len(r) + 1 = b + n + 2
    BY ONLY <1>3, <2>1
  <2> QED BY <1>3, <1>6, <2>2, <2>3
<1>8. place = "value" => b = 3 /\ At(text, b + n + 1) = "\n" /\ At(text, b + n + 2) = "b"
  <2> SUFFICES ASSUME place = "value"
               PROVE  b = 3 /\ At(text, b + n + 1) = "\n" /\ At(text, b + n + 2) = "b"
    OBVIOUS
  <2>1. r[1] = "\n" /\ r[2] = "b" /\ 1 \in 1..Len(r) /\ 2 \in 1..Len(r)
    BY <1>5
  <2>2. At(text, b + n + 1) = r[1] /\ At(text, b + n + 2) = r[2]
    BY ONLY <1>3, <2>1
  <2> QED BY <1>6, <2>1, <2>2
<1>9. place = "item" => b = 2 /\ At(text, b + n + 1) = "\n" /\ At(text, b + n + 2) = "-"
                         /\ At(text, b + n + 3) = "space"
  <2> SUFFICES ASSUME place = "item"
               PROVE  b = 2 /\ At(text, b + n + 1) = "\n" /\ At(text, b + n + 2) = "-"
                      /\ At(text, b + n + 3) = "space"
    OBVIOUS
  <2>1. r[1] = "\n" /\ r[2] = "-" /\ r[3] = "space" /\ 1 \in 1..Len(r) /\ 2 \in 1..Len(r) /\ 3 \in 1..Len(r)
    BY <1>5
  <2> QED BY <1>3, <1>6, <2>1
<1>10. place = "key" => b = 0 /\ At(text, b + n + 1) = ":" /\ At(text, b + n + 2) = "space"
  <2> SUFFICES ASSUME place = "key"
               PROVE  b = 0 /\ At(text, b + n + 1) = ":" /\ At(text, b + n + 2) = "space"
    OBVIOUS
  <2>1. r[1] = ":" /\ r[2] = "space" /\ 1 \in 1..Len(r) /\ 2 \in 1..Len(r)
    <3>1. Len(r) = 3 /\ r[1] = ":" /\ r[2] = "space"
      BY <1>5
    <3> QED BY ONLY <3>1
  <2>2. At(text, b + n + 1) = r[1] /\ At(text, b + n + 2) = r[2]
    BY ONLY <1>3, <2>1
  <2> QED BY <1>6, <2>1, <2>2
<1>11. place = "flow" => b = 1 /\ At(text, b + n + 1) = "]"
  BY <1>3, <1>5, <1>6
<1>12. chosen = "plain"
  OBVIOUS
<1>13. Where = Places[place]
  BY DEF Where
<1>14. place = "explicit" => b = 2 /\ At(text, b + n + 1) = "\n" /\ At(text, b + n + 2) = ":"
                              /\ At(text, b + n + 3) = "space"
  <2> SUFFICES ASSUME place = "explicit"
               PROVE  b = 2 /\ At(text, b + n + 1) = "\n" /\ At(text, b + n + 2) = ":"
                      /\ At(text, b + n + 3) = "space"
    OBVIOUS
  <2>1. r[1] = "\n" /\ r[2] = ":" /\ r[3] = "space" /\ 1 \in 1..Len(r) /\ 2 \in 1..Len(r) /\ 3 \in 1..Len(r)
    BY <1>5
  <2> QED BY <1>3, <1>6, <2>1
<1>16. PlainAhead(n, b)
  <2>1. /\ chosen = "plain" /\ value \in Seq(Characters) /\ n = Len(value) /\ n \in Nat
        /\ b = Len(Where.before) /\ b \in Nat
    BY <1>1, <1>2, <1>3, <1>12, <1>13, Zenon
  <2>2. value # <<>> => PlainContents(value, n, Where.flow)
    BY ONLY <1>3, <1>13, Zenon
  <2> QED BY ONLY <1>1, <1>3, <1>4, <1>7, <1>8, <1>9, <1>10, <1>11, <1>14, <2>1, <2>2, Zenon
             DEF PlainAhead
<1> QED BY ONLY <1>16, Zenon

(* Which steps there are in each phase.                                            *)
LEMMA StepsOf ==
  ASSUME Next
  PROVE  /\ phase = "asked" => Emit
         /\ phase = "written" => FetchPlain \/ FetchQuoted \/ FetchBlock
         /\ phase = "word" => PlainCharacter \/ PlainEnd \/ ConsumeBlank \/ ConsumeBreak
         /\ phase = "gap" => PlainResume \/ ConsumeBlank \/ ConsumeBreak
         /\ phase \in {"single", "double"} =>
               QuotedCharacter \/ QuotedEnd \/ ConsumeBlank \/ ConsumeBreak
         /\ phase \in {"single_gap", "double_gap"} => QuotedResume \/ ConsumeBlank \/ ConsumeBreak
         /\ phase = "breaks" => Indentation \/ EmptyLine \/ BlockLine
         /\ phase = "line" => BlockCharacter \/ BlockLineEnd
         /\ phase = "read" => UNCHANGED vars
<1>1. \/ Emit \/ FetchPlain \/ PlainCharacter \/ PlainEnd \/ PlainResume
      \/ FetchQuoted \/ QuotedCharacter \/ QuotedEnd \/ QuotedResume
      \/ FetchBlock \/ Indentation \/ EmptyLine \/ BlockLine \/ BlockCharacter \/ BlockLineEnd
      \/ ConsumeBlank \/ ConsumeBreak \/ (phase = "read" /\ UNCHANGED vars)
  BY DEF Next, Plain, Quoted, Block, Done
<1>2. /\ Emit => phase = "asked"
      /\ FetchPlain \/ FetchQuoted \/ FetchBlock => phase = "written"
      /\ PlainCharacter \/ PlainEnd => phase = "word"
      /\ PlainResume => phase = "gap"
      /\ QuotedCharacter \/ QuotedEnd => phase \in {"single", "double"}
      /\ QuotedResume => phase \in {"single_gap", "double_gap"}
      /\ Indentation \/ EmptyLine \/ BlockLine => phase = "breaks"
      /\ BlockCharacter \/ BlockLineEnd => phase = "line"
  BY DEF Emit, FetchPlain, PlainCharacter, PlainEnd, PlainResume, FetchQuoted, QuotedCharacter,
         QuotedEnd, QuotedResume, FetchBlock, Indentation, EmptyLine, BlockLine, BlockCharacter,
         BlockLineEnd
<1>3. ConsumeBlank \/ ConsumeBreak =>
         phase \in {"word", "single", "double", "gap", "single_gap", "double_gap"}
  BY GapOfIs DEF ConsumeBlank, ConsumeBreak, InGap
<1> QED BY ONLY <1>1, <1>2, <1>3

(* No blanks or breaks are waiting to be added to the result.                      *)
Clean ==
    /\ whitespaces = <<>> /\ leading_break = <<>> /\ trailing_breaks = <<>>
    /\ leading_blanks = FALSE

(* The scanner is where the scalar begins.                                         *)
Started ==
    /\ phase = "written" /\ index = Len(Where.before) + 1 /\ column = Len(Where.before)
    /\ Clean /\ result = <<>> /\ max_indent = 0

(* The scanner is at character k of a plain scalar ...                             *)
PlainIn(v, n, b, k) ==
    /\ k \in 1..(n + 1) /\ index = b + k /\ column = b + k - 1
    /\ leading_blanks = FALSE /\ leading_break = <<>> /\ trailing_breaks = <<>>
    /\ result \o whitespaces = Before(v, k)
    /\ \/ phase = "word" /\ (whitespaces # <<>> => k <= n /\ v[k] # "space")
       \/ phase = "gap" /\ k \in 2..n /\ v[k - 1] = "space"

(* ... or at the beginning of the line after it.                                   *)
PlainPast(v, n, b) ==
    /\ index = b + n + 2 /\ column = 0 /\ result = v /\ leading_blanks = TRUE
    /\ place \in {"root", "value", "item", "explicit"}
    /\ phase = "gap" \/ (phase = "word" /\ place = "root")

LEMMA PlainCharacters ==
  ASSUME NEW n, NEW b, PlainAhead(n, b), NEW k \in 1..n, NEW v, v = value
  PROVE  /\ v[k] \in Characters \ {"ctl", "\t", "\n", "LS", "z"} /\ v # <<>>
         /\ At(text, b + k) = v[k]
         /\ k < n => At(text, b + k + 1) = v[k + 1] /\ v[k + 1] \in Characters \ {"ctl", "\t", "\n", "LS", "z"}
         /\ n \in Nat \ {0} /\ b \in Nat
<1>1. v \in Seq(Characters) /\ n = Len(v) /\ n \in Nat /\ b \in Nat
  BY DEF PlainAhead
<1>2. n # 0 /\ k + 1 \in 1..(n + 1)
  BY <1>1
<1>3. v # <<>>
  BY <1>1, <1>2
<1>4. \A i \in 1..n : v[i] \in Characters \ {"ctl", "\t", "\n", "LS"}
  BY <1>3 DEF PlainAhead, PlainContents
<1>5. \A i \in 1..n : At(text, b + i) = v[i]
  BY DEF PlainAhead
<1>6. k < n => k + 1 \in 1..n /\ b + k + 1 = b + (k + 1)
  BY <1>1
<1> QED BY <1>1, <1>2, <1>3, <1>4, <1>5, <1>6, Known

(* A plain scalar is read to its end, from the first character ...                 *)
LEMMA PlainStarts ==
  ASSUME Sound, Started, NEW n, NEW b, PlainAhead(n, b), Next, NEW v, v = value
  PROVE  (phase' = "read" /\ result' = v) \/ PlainIn(v, n, b, 1)'
<1>1. /\ chosen = "plain" /\ v \in Seq(Characters) /\ n = Len(v) /\ n \in Nat
      /\ b = Len(Where.before) /\ b \in Nat /\ place \in DOMAIN Places
      /\ v # <<>> => PlainContents(v, n, Where.flow)
      /\ ~(v = <<>> /\ place \in {"key", "flow"})
      /\ place \in {"root", "value", "item", "explicit"} => At(text, b + n + 1) = "\n"
      /\ place \in {"root", "key"} => b = 0
      /\ place = "key" => At(text, b + n + 1) = ":"
      /\ place = "flow" => b = 1
      /\ place = "value" => b = 3
      /\ place \in {"item", "explicit"} => b = 2
  BY DEF PlainAhead
<1>2. /\ index = b + 1 /\ column = b /\ result = <<>> /\ phase = "written"
      /\ whitespaces = <<>> /\ leading_break = <<>> /\ trailing_breaks = <<>> /\ leading_blanks = FALSE
  BY <1>1 DEF Started, Clean
<1>3. FetchPlain \/ FetchQuoted \/ FetchBlock
  BY <1>2, StepsOf
<1>4. place \in {"root", "value", "item", "key", "explicit", "flow"}
  BY <1>1, PlacesAre
<1>5. CASE n = 0
  <2>1. v = <<>>
    <3>1. v \in Seq(Characters) /\ Len(v) = 0
      BY <1>1, <1>5
    <3> QED BY ONLY <3>1
  <2>2. Here = "\n"
    BY <1>1, <1>2, <1>4, <1>5, <2>1 DEF Here
  <2>3. FetchPlain
    BY <1>3, <2>2 DEF FetchQuoted, FetchBlock
  <2> QED BY <2>1, <2>2, <2>3 DEF FetchPlain, Finish, Blankz, Break
<1>6. CASE n # 0
  <2>1. 1 \in 1..n
    BY <1>1, <1>6
  <2>2. /\ v[1] \in Characters \ {"ctl", "\t", "\n", "LS", "z"} /\ v # <<>> /\ At(text, b + 1) = v[1]
        /\ 1 < n => At(text, b + 1 + 1) = v[1 + 1] /\ v[1 + 1] \in Characters \ {"ctl", "\t", "\n", "LS", "z"}
    BY <2>1, PlainCharacters
  <2>3. Here = v[1]
    BY <1>2, <2>2 DEF Here
  <2>4. 1 < n => There = v[2] /\ v[2] \in Characters \ {"ctl", "\t", "\n", "LS", "z"}
    BY <1>1, <1>2, <2>2 DEF There
  <2>5. PlainContents(v, n, Where.flow)
    BY <1>1, <2>2
  <2>6. /\ v[1] # "space" /\ v[1] \notin Indicators
        /\ v[1] = "-" => n >= 2 /\ v[2] # "space"
        /\ ~Where.flow /\ v[1] = "?" => n >= 2 /\ v[2] # "space"
        /\ ~Where.flow /\ v[1] = ":" => 1 < n /\ v[1 + 1] # "space"
        /\ Where.flow => v[1] \notin {"comma", "?", "[", "]", "lbrace", "rbrace", ":"}
        /\ ~(n >= 3 /\ v[1] = "-" /\ v[2] = "-" /\ v[3] = "-")
    BY <2>1, <2>5 DEF PlainContents
  <2>7. v[1] \notin Blankz
    BY <2>2, <2>6 DEF Blankz, Blank, Break
  <2>8. 1 < n /\ v[2] # "space" => There \notin Blankz
    BY <2>4 DEF Blankz, Blank, Break
  <2>9. PlainBegins
    BY <1>1, <2>3, <2>6, <2>7, <2>8 DEF PlainBegins
  <2>10. ~DocumentIndicator
    <3>1. ASSUME DocumentIndicator PROVE FALSE
      <4>1. column = 0 /\ v[1] = "-" /\ There = "-" /\ At(text, index + 2) = "-"
        BY <2>3, <3>1 DEF DocumentIndicator
      <4>2. b = 0 /\ place \in {"root", "key"} /\ n >= 2 /\ v[2] = "-"
        BY <1>1, <1>2, <1>4, <2>4, <2>6, <4>1
      <4>3. CASE n >= 3
        <5>1. 3 \in 1..n
          BY <1>1, <4>3
        <5>2. At(text, b + 3) = v[3]
          BY <5>1, PlainCharacters
        <5> QED BY <1>2, <2>6, <4>1, <4>2, <4>3, <5>2
      <4>4. CASE n = 2
        BY <1>1, <1>2, <4>1, <4>2, <4>4
      <4> QED BY <1>1, <4>2, <4>3, <4>4
    <3> QED BY <3>1
  <2>11. FetchPlain
    BY <1>3, <2>3, <2>6 DEF FetchQuoted, FetchBlock, Indicators
  <2>12. /\ phase' = "word" /\ result' = result /\ index' = index /\ column' = column
         /\ whitespaces' = whitespaces /\ leading_break' = leading_break
         /\ trailing_breaks' = trailing_breaks /\ leading_blanks' = leading_blanks
    BY <2>3, <2>7, <2>9, <2>10, <2>11 DEF FetchPlain, mark, gap
  <2>13. result' \o whitespaces' = Before(v, 1)
    <3>1. <<>> \o <<>> = <<>>
      OBVIOUS
    <3> QED BY <1>2, <2>12, <3>1, BeforeFirst
  <2> QED BY <1>1, <1>2, <2>12, <2>13 DEF PlainIn
<1> QED BY <1>5, <1>6

(* ... through every character ...                                                 *)
LEMMA PlainGoesOn ==
  ASSUME Sound, NEW n, NEW b, PlainAhead(n, b), NEW v, v = value, NEW k \in 1..n, PlainIn(v, n, b, k),
         Next
  PROVE  PlainIn(v, n, b, k + 1)' \/ PlainIn(v, n, b, k)'
<1>1. /\ v[k] \in Characters \ {"ctl", "\t", "\n", "LS", "z"} /\ v # <<>> /\ At(text, b + k) = v[k]
      /\ k < n => At(text, b + k + 1) = v[k + 1] /\ v[k + 1] \in Characters \ {"ctl", "\t", "\n", "LS", "z"}
      /\ n \in Nat \ {0} /\ b \in Nat
  BY PlainCharacters
<1>2. /\ v \in Seq(Characters) /\ n = Len(v) /\ PlainContents(v, n, Where.flow) /\ place \in DOMAIN Places
      /\ place \in {"root", "key"} => b = 0
  BY <1>1 DEF PlainAhead
<1>3. /\ index = b + k /\ column = b + k - 1
      /\ leading_blanks = FALSE /\ leading_break = <<>> /\ trailing_breaks = <<>>
      /\ result \o whitespaces = Before(v, k)
      /\ \/ phase = "word" /\ (whitespaces # <<>> => k <= n /\ v[k] # "space")
         \/ phase = "gap" /\ k \in 2..n /\ v[k - 1] = "space"
  BY DEF PlainIn
<1>4. Here = v[k] /\ (k < n => There = v[k + 1])
  BY <1>1, <1>3 DEF Here, There
<1>5. result \in Seq(Characters) /\ whitespaces \in Seq(Characters)
  <2>1. result \in Seq(Characters) /\ whitespaces \in Seq(Blank)
    BY <1>3 DEF Sound, TypeOK
  <2>2. Blank \subseteq Characters
    BY DEF Characters
  <2>3. whitespaces \in Seq(Characters)
    BY ONLY <2>1, <2>2, Wider
  <2> QED BY <2>1, <2>3
<1>6. /\ v[n] # "space"
      /\ ~Where.flow => \A i \in 1..n : v[i] = ":" => i < n /\ v[i + 1] # "space"
      /\ Where.flow => \A i \in 1..n : v[i] \notin {"comma", "?", "[", "]", "lbrace", "rbrace", ":"}
      /\ \A i \in 2..n : v[i] = "#" => v[i - 1] # "space"
  BY <1>2 DEF PlainContents
<1>7. v[k] \notin Break /\ v[k] # "z"
  BY <1>1 DEF Break
<1>8. ~ConsumeBreak
  BY <1>4, <1>7 DEF ConsumeBreak
<1>9. v[k] # "space" => v[k] \notin Blankz /\ v[k] \notin Blank
  BY <1>1 DEF Blankz, Blank, Break
<1>10. k + 1 \in 1..(n + 1) /\ b + k + 1 = b + (k + 1) /\ b + k - 1 + 1 = b + (k + 1) - 1
  BY <1>1
<1>11. CASE v[k] = "space"
  <2>1. k < n
    BY <1>1, <1>6, <1>11
  <2>2. Here \in Blank /\ EndsPlain
    BY <1>4, <1>11 DEF Blank, Blankz, EndsPlain
  <2>3. ConsumeBlank
    BY <1>3, <1>8, <2>2, StepsOf DEF PlainCharacter, PlainEnd, PlainResume
  <2>4. /\ phase' = "gap" /\ result' = result /\ whitespaces' = Append(whitespaces, v[k])
        /\ index' = index + 1 /\ column' = column + 1
        /\ leading_break' = leading_break /\ trailing_breaks' = trailing_breaks
        /\ leading_blanks' = leading_blanks
    BY <1>3, <1>4, <2>3, GapOfIs DEF ConsumeBlank, Skip, InGap
  <2>5. result \o Append(whitespaces, v[k]) = Before(v, k + 1)
    <3>1. PICK r, w, x : r = result /\ w = whitespaces /\ x = Append(w, v[k])
      OBVIOUS
    <3>2. /\ v \in Seq(Characters) /\ k \in 1..Len(v) /\ r \in Seq(Characters) /\ w \in Seq(Characters)
      BY <1>2, <1>5, <3>1
    <3>3. Spans(r, w, v, k)
      BY ONLY <1>3, <3>1, Zenon DEF Spans
    <3>4. Spans(r, x, v, k + 1)
      BY ONLY <3>1, <3>2, <3>3, SpansNext
    <3> QED BY ONLY <3>1, <3>4, Zenon DEF Spans
  <2>6. result' \o whitespaces' = Before(v, k + 1)
    BY ONLY <2>4, <2>5, Zenon
  <2>7. k + 1 \in 2..n /\ (k + 1) - 1 = k
    BY <1>1, <2>1
  <2> QED BY <1>3, <1>10, <1>11, <2>4, <2>6, <2>7 DEF PlainIn
<1>12. CASE v[k] # "space"
  <2>1. Here \notin Blank /\ ~ConsumeBlank
    BY <1>4, <1>9, <1>12 DEF ConsumeBlank
  <2>2. CASE phase = "word"
    <3>1. v[k] = ":" => There \notin Blankz
      BY <1>1, <1>4, <1>6 DEF Blankz, Blank, Break
    <3>2. Where.flow => v[k] \notin {"comma", "?", "[", "]", "lbrace", "rbrace"}
      BY <1>6
    <3>3. ~EndsPlain
      BY <1>4, <1>9, <1>12, <3>1, <3>2 DEF EndsPlain
    <3>4. PlainCharacter
      BY <1>8, <2>1, <2>2, <3>3, StepsOf DEF PlainEnd
    <3>5. /\ phase' = "word" /\ result' = result \o Joint \o <<v[k]>> /\ NoGap
          /\ index' = index + 1 /\ column' = column + 1
      BY <1>4, <2>2, <3>4 DEF PlainCharacter, Skip
    <3>6. Joint = whitespaces
      BY <1>3 DEF Joint
    <3>7. result' = Before(v, k + 1)
      <4>1. v \in Seq(Characters) /\ k \in 1..Len(v)
        BY <1>2
      <4>2. Before(v, k) \o <<v[k]>> = Before(v, k + 1)
        BY ONLY <4>1, BeforeNext
      <4>3. result' = Before(v, k) \o <<v[k]>>
        BY ONLY <1>3, <3>5, <3>6, Zenon
      <4> QED BY ONLY <4>2, <4>3, Zenon
    <3>8. whitespaces' = <<>> /\ leading_break' = <<>> /\ trailing_breaks' = <<>> /\ leading_blanks' = FALSE
      BY <3>5 DEF NoGap
    <3>9. result' \o whitespaces' = Before(v, k + 1)
      <4>1. v \in Seq(Characters) /\ k \in 1..Len(v)
        BY <1>2
      <4>2. PICK a : a = Before(v, k + 1) /\ a \in Seq(Characters)
        <5>1. Before(v, k) \in Seq(Characters) /\ v[k] \in Characters
          <6>1. Before(v, k) \in Seq(Characters)
            BY ONLY <4>1, BeforeNext
          <6> QED BY <1>1, <6>1
        <5>2. PICK p, c : p = Before(v, k) /\ c = v[k]
          OBVIOUS
        <5>3. p \in Seq(Characters) /\ c \in Characters
          BY <5>1, <5>2
        <5>4. Append(p, c) \in Seq(Characters)
          BY ONLY <5>3
        <5>5. Append(Before(v, k), v[k]) = Before(v, k + 1)
          BY ONLY <4>1, BeforeNext
        <5>6. Before(v, k + 1) \in Seq(Characters)
          BY ONLY <5>2, <5>4, <5>5
        <5> QED BY ONLY <5>6
      <4>3. a \o <<>> = a
        BY ONLY <4>2, NothingMore
      <4> QED BY ONLY <3>7, <3>8, <4>2, <4>3, Zenon
    <3> QED BY <1>3, <1>10, <3>5, <3>8, <3>9 DEF PlainIn
  <2>3. CASE phase = "gap"
    <3>1. k \in 2..n /\ v[k - 1] = "space"
      BY <1>3, <2>3
    <3>2. Here # "#" /\ v[k] # "#"
      BY <1>4, <1>6, <3>1
    <3>3. column # 0 /\ ~DocumentIndicator
      BY <1>1, <1>3, <3>1 DEF DocumentIndicator
    <3>4. ~(column < Where.parent + 1)
      <4>1. PICK p : p = Where.parent /\ p \in {-1, 0}
        BY <1>2, ParentIs DEF Where
      <4> QED BY <1>1, <1>3, <3>1, <4>1
    <3>5. PlainResume
      BY <1>8, <2>1, <2>3, StepsOf
    <3>6. /\ phase' = "word" /\ result' = result /\ index' = index /\ column' = column
          /\ whitespaces' = whitespaces /\ leading_break' = leading_break
          /\ trailing_breaks' = trailing_breaks /\ leading_blanks' = leading_blanks
      BY <3>2, <3>3, <3>4, <3>5 DEF PlainResume, mark, gap
    <3>7. result' \o whitespaces' = Before(v, k)
      BY ONLY <1>3, <3>6, Zenon
    <3> QED BY <1>1, <1>3, <1>12, <3>6, <3>7 DEF PlainIn
  <2> QED BY <1>3, <2>2, <2>3
<1> QED BY <1>11, <1>12

(* ... to what comes after the last.                                               *)
LEMMA PlainComesToEnd ==
  ASSUME Sound, NEW n, NEW b, PlainAhead(n, b), NEW v, v = value, PlainIn(v, n, b, n + 1), Next
  PROVE  (phase' = "read" /\ result' = v) \/ PlainPast(v, n, b)'
<1>1. /\ v \in Seq(Characters) /\ n = Len(v) /\ n \in Nat /\ b \in Nat /\ place \in DOMAIN Places
      /\ place \in {"root", "value", "item", "explicit"} => At(text, b + n + 1) = "\n"
      /\ place = "key" => At(text, b + n + 1) = ":" /\ At(text, b + n + 2) = "space"
      /\ place = "flow" => At(text, b + n + 1) = "]"
  BY DEF PlainAhead
<1>2. /\ index = b + (n + 1)
      /\ leading_blanks = FALSE /\ leading_break = <<>> /\ trailing_breaks = <<>>
      /\ result \o whitespaces = Before(v, n + 1)
      /\ phase = "word" /\ whitespaces = <<>>
  BY <1>1 DEF PlainIn
<1>3. result = v
  <2>1. result \in Seq(Characters)
    BY <1>2 DEF Sound
  <2>2. result \o <<>> = result
    BY ONLY <2>1, NothingMore
  <2>3. v \in Seq(Characters) /\ n = Len(v)
    BY <1>1
  <2>4. Before(v, n + 1) = v
    BY ONLY <2>3, BeforeEnd
  <2> QED BY ONLY <1>2, <2>2, <2>4, Zenon
<1>4. place \in {"root", "value", "item", "key", "explicit", "flow"}
  BY <1>1, PlacesAre
<1>5. Here = At(text, b + n + 1) /\ There = At(text, b + n + 2)
  BY <1>1, <1>2 DEF Here, There
<1>6. PlainCharacter \/ PlainEnd \/ ConsumeBlank \/ ConsumeBreak
  BY <1>2, StepsOf
<1>7. CASE place \in {"root", "value", "item", "explicit"}
  <2>1. Here = "\n"
    BY <1>1, <1>5, <1>7
  <2>2. ConsumeBreak
    BY <1>6, <2>1 DEF PlainCharacter, PlainEnd, ConsumeBlank, EndsPlain, Blankz, Blank, Break
  <2>3. /\ phase' = "gap" /\ index' = index + 1 /\ column' = 0 /\ result' = result
        /\ leading_blanks' = TRUE /\ place' = place
    BY <1>2, <2>2, GapOfIs DEF ConsumeBreak, SkipLine, InGap, input
  <2>4. index' = b + n + 2
    BY <1>1, <1>2, <2>3
  <2> QED BY <1>3, <1>7, <2>3, <2>4 DEF PlainPast
<1>8. CASE place \in {"key", "flow"}
  <2>1. EndsPlain /\ Here \notin Blank \cup Break
    <3>1. CASE place = "key"
      BY <1>1, <1>5, <3>1 DEF EndsPlain, Blankz, Blank, Break
    <3>2. CASE place = "flow"
      <4>1. Where.flow
        BY <3>2, PlacesAre DEF Where
      <4> QED BY <1>1, <1>5, <3>2, <4>1 DEF EndsPlain, Blankz, Blank, Break
    <3> QED BY <1>8, <3>1, <3>2
  <2>2. PlainEnd
    BY <1>6, <2>1 DEF PlainCharacter, ConsumeBlank, ConsumeBreak
  <2> QED BY <1>3, <2>2 DEF PlainEnd, Finish
<1> QED BY <1>4, <1>7, <1>8

LEMMA PlainStops ==
  ASSUME NEW n, NEW b, PlainAhead(n, b), NEW v, PlainPast(v, n, b), Next
  PROVE  (phase' = "read" /\ result' = v) \/ PlainPast(v, n, b)'
<1>1. /\ n \in Nat /\ b \in Nat /\ place \in {"root", "value", "item", "explicit"}
      /\ place = "root" => At(text, b + n + 2) = "z"
      /\ place = "value" => At(text, b + n + 2) = "b"
      /\ place = "item" => At(text, b + n + 2) = "-" /\ At(text, b + n + 3) = "space"
      /\ place = "explicit" => At(text, b + n + 2) = ":"
  BY DEF PlainAhead, PlainPast
<1>2. /\ index = b + n + 2 /\ column = 0 /\ result = v /\ leading_blanks = TRUE
      /\ phase = "gap" \/ (phase = "word" /\ place = "root")
  BY DEF PlainPast
<1>3. Here = At(text, b + n + 2) /\ There = At(text, b + n + 3)
  BY <1>1, <1>2 DEF Here, There
<1>4. Here \notin Blank \cup Break
  BY <1>1, <1>3 DEF Blank, Break
<1>5. CASE phase = "word"
  <2>1. EndsPlain
    BY <1>1, <1>2, <1>3, <1>5 DEF EndsPlain, Blankz
  <2>2. PlainEnd
    BY <1>4, <1>5, <2>1, StepsOf DEF PlainCharacter, ConsumeBlank, ConsumeBreak
  <2> QED BY <1>2, <2>2 DEF PlainEnd, Finish
<1>6. CASE phase = "gap"
  <2>1. PlainResume
    BY <1>4, <1>6, StepsOf DEF ConsumeBlank, ConsumeBreak
  <2>2. CASE place = "root"
    <3>1. Where.parent = -1 /\ ~Where.flow
      BY <2>2, PlacesAre DEF Where
    <3>2. ~DocumentIndicator /\ Here # "#" /\ ~(column < Where.parent + 1)
      BY <1>1, <1>2, <1>3, <2>2, <3>1 DEF DocumentIndicator
    <3>3. /\ phase' = "word" /\ result' = result /\ index' = index /\ column' = column
          /\ leading_blanks' = leading_blanks /\ place' = place
      BY <2>1, <3>2 DEF PlainResume, mark, gap, input
    <3> QED BY <1>1, <1>2, <2>2, <3>3 DEF PlainPast
  <2>3. CASE place \in {"value", "item", "explicit"}
    <3>1. Where.parent = 0 /\ ~Where.flow
      BY <2>3, PlacesAre DEF Where
    <3>2. column < Where.parent + 1
      BY <1>2, <3>1
    <3> QED BY <1>2, <2>1, <3>1, <3>2 DEF PlainResume, Finish
  <2> QED BY <1>1, <2>2, <2>3
<1> QED BY <1>2, <1>5, <1>6

(* Where the scanner is in a plain scalar.                                         *)
PlainReads ==
    \E n, b, v : /\ v = value /\ n = Len(value) /\ b = Len(Where.before)
                 /\ PlainPast(v, n, b) \/ \E k \in 1..(n + 1) : PlainIn(v, n, b, k)

(* The string and its place stay.                                                  *)
LEMMA PlainReadsNext ==
  ASSUME NEW v, NEW n, NEW b, v = value, n = Len(value), b = Len(Where.before),
         UNCHANGED input,
         PlainPast(v, n, b)' \/ \E k \in 1..(n + 1) : PlainIn(v, n, b, k)'
  PROVE  PlainReads'
<1>1. /\ v = value' /\ n = Len(value') /\ b = Len(Where'.before)
  BY DEF input, Where
<1> QED BY <1>1 DEF PlainReads

(* What was asked for and written stays.                                           *)
LEMMA Keeps ==
  ASSUME Next, phase # "asked"
  PROVE  UNCHANGED input /\ UNCHANGED output
<1>1. ~Emit
  BY DEF Emit
<1>2. UNCHANGED vars => UNCHANGED input /\ UNCHANGED output
  BY DEF vars
<1> QED BY <1>1, <1>2, NextIs DEF FetchPlain, PlainCharacter, PlainEnd, PlainResume, FetchQuoted,
      QuotedCharacter, QuotedEnd, QuotedResume, FetchBlock, Indentation, EmptyLine, BlockLine,
      BlockCharacter, BlockLineEnd, ConsumeBlank, ConsumeBreak

(* Every step of a plain scalar.                                                   *)
LEMMA PlainStep ==
  ASSUME Sound, chosen = "plain", Started \/ PlainReads, Next, phase \notin {"asked", "read"}
  PROVE  (phase' = "read" /\ result' = value) \/ PlainReads'
<1>1. PICK n, b : PlainAhead(n, b)
  BY PlainIsAhead
<1>2. PICK v : v = value /\ n = Len(value) /\ b = Len(Where.before) /\ n \in Nat
  BY <1>1 DEF PlainAhead
<1>3. UNCHANGED input
  BY Keeps
<1>4. 1 \in 1..(n + 1) /\ n + 1 \in 1..(n + 1) /\ \A k \in 1..n : k \in 1..(n + 1) /\ k + 1 \in 1..(n + 1)
  BY <1>2
<1>5. \/ phase' = "read" /\ result' = value
      \/ PlainPast(v, n, b)' \/ \E k \in 1..(n + 1) : PlainIn(v, n, b, k)'
  <2>1. CASE Started
    BY <1>1, <1>2, <1>4, <2>1, PlainStarts
  <2>2. CASE PlainPast(v, n, b)
    BY <1>1, <1>2, <2>2, PlainStops
  <2>3. CASE \E k \in 1..(n + 1) : PlainIn(v, n, b, k)
    <3>1. PICK k \in 1..(n + 1) : PlainIn(v, n, b, k)
      BY <2>3
    <3>2. CASE k \in 1..n
      BY <1>1, <1>2, <1>4, <3>1, <3>2, PlainGoesOn
    <3>3. CASE k = n + 1
      BY <1>1, <1>2, <3>1, <3>3, PlainComesToEnd
    <3> QED BY <1>2, <3>2, <3>3
  <2> QED BY <1>2, <2>1, <2>2, <2>3 DEF PlainReads
<1> QED BY <1>2, <1>3, <1>5, PlainReadsNext

-----------------------------------------------------------------------------
(* Double-quoted scalars.                                                          *)
(* How a character stands in a double-quoted scalar, from p to before q.           *)
Escapes == {"\n", "LS", "\t", "dquote", "\\"}

EscapedAt(c, t, p, q) ==
    \/ /\ c \in Escapes /\ q = p + 2 /\ At(t, p) = "\\"
       /\ At(t, p + 1) \in {"n", "L", "t", "dquote", "\\"} /\ Unescape(At(t, p + 1)) = c
    \/ /\ c = "ctl" /\ q = p + 3 /\ At(t, p) = "\\" /\ At(t, p + 1) = "x" /\ At(t, p + 2) = "01"
    \/ /\ c \notin Escapes \cup {"ctl"} /\ q = p + 1 /\ At(t, p) = c

(* The piece of a character stands in the text.                                    *)
LEMMA EscapeStands ==
  ASSUME NEW c, NEW t, NEW p \in Nat, NEW e, e = Escape(c), NEW q, q = p + Len(e),
         \A j \in 1..Len(e) : At(t, p + j - 1) = e[j]
  PROVE  EscapedAt(c, t, p, q)
<1>1. p + 1 - 1 = p /\ p + 2 - 1 = p + 1 /\ p + 3 - 1 = p + 2
  OBVIOUS
<1>2. ASSUME NEW d, e = <<"\\", d>>, d \in {"n", "L", "t", "dquote", "\\"}
      PROVE  q = p + 2 /\ At(t, p) = "\\" /\ At(t, p + 1) = d
  <2>1. Len(e) = 2 /\ e[1] = "\\" /\ e[2] = d
    BY ONLY <1>2
  <2>2. 1 \in 1..2 /\ 2 \in 1..2
    OBVIOUS
  <2>3. q = p + 2 /\ At(t, p + 1 - 1) = "\\" /\ At(t, p + 2 - 1) = d
    BY <2>1, <2>2
  <2> QED BY <1>1, <2>3
<1>3. CASE c \in Escapes
  <2>1. \/ c = "\n" /\ e = <<"\\", "n">>
        \/ c = "LS" /\ e = <<"\\", "L">>
        \/ c = "\t" /\ e = <<"\\", "t">>
        \/ c = "dquote" /\ e = <<"\\", "dquote">>
        \/ c = "\\" /\ e = <<"\\", "\\">>
    BY <1>3 DEF Escape, Escapes
  <2>2. \E d \in {"n", "L", "t", "dquote", "\\"} : e = <<"\\", d>> /\ Unescape(d) = c
    BY <2>1 DEF Unescape
  <2>3. PICK d \in {"n", "L", "t", "dquote", "\\"} : e = <<"\\", d>> /\ Unescape(d) = c
    BY <2>2
  <2>4. q = p + 2 /\ At(t, p) = "\\" /\ At(t, p + 1) = d
    BY <1>2, <2>3
  <2> QED BY <1>3, <2>3, <2>4 DEF EscapedAt
<1>4. CASE c = "ctl"
  <2>1. e = <<"\\", "x", "01">>
    BY <1>4 DEF Escape
  <2>2. Len(e) = 3 /\ e[1] = "\\" /\ e[2] = "x" /\ e[3] = "01"
    BY ONLY <2>1
  <2>3. q = p + 3 /\ At(t, p + 1 - 1) = "\\" /\ At(t, p + 2 - 1) = "x" /\ At(t, p + 3 - 1) = "01"
    BY <2>2
  <2> QED BY <1>1, <1>4, <2>3 DEF EscapedAt
<1>5. CASE c \notin Escapes \cup {"ctl"}
  <2>1. e = <<c>>
    BY <1>5 DEF Escape, Escapes
  <2>2. Len(e) = 1 /\ e[1] = c
    BY ONLY <2>1
  <2>3. q = p + 1 /\ At(t, p + 1 - 1) = c
    BY <2>2
  <2> QED BY <1>1, <1>5, <2>3 DEF EscapedAt
<1> QED BY <1>3, <1>4, <1>5

(* A quote closes the scalar, and no other follows.                                *)
LEMMA RestOfQuoted ==
  ASSUME NEW v, NEW style \in {"single", "double"}, NEW where \in DOMAIN Places,
         NEW r, r = Rest(v, style, where)
  PROVE  /\ 1 \in 1..Len(r) /\ r[1] = (IF style = "single" THEN "'" ELSE "dquote")
         /\ 2 \in 1..Len(r) /\ r[2] \in {"\n", ":", "]"}
<1>1. PICK c : c = (IF style = "single" THEN "'" ELSE "dquote")
  OBVIOUS
<1>2. r = (<<c>> \o Line(v, style, where)) \o Places[where].after
  BY <1>1 DEF Rest, Closing
<1>3. Line(v, style, where) = (IF where \in {"key", "flow"} THEN <<>> ELSE <<"\n">>)
  BY PlacesAre DEF Line, Blocks
<1>4. ASSUME where = "root" PROVE r = (<<c>> \o <<"\n">>) \o <<>>
  BY <1>2, <1>3, <1>4, PlacesAre
<1>5. ASSUME where = "value" PROVE r = (<<c>> \o <<"\n">>) \o <<"b">>
  BY <1>2, <1>3, <1>5, PlacesAre
<1>6. ASSUME where = "item" PROVE r = (<<c>> \o <<"\n">>) \o <<"-", "space", "b">>
  BY <1>2, <1>3, <1>6, PlacesAre
<1>7. ASSUME where = "key" PROVE r = (<<c>> \o <<>>) \o <<":", "space", "b">>
  BY <1>2, <1>3, <1>7, PlacesAre
<1>8. ASSUME where = "flow" PROVE r = (<<c>> \o <<>>) \o <<"]">>
  BY <1>2, <1>3, <1>8, PlacesAre
<1>9. ASSUME where = "root" PROVE Len(r) = 2 /\ r[1] = c /\ r[2] = "\n"
  BY ONLY <1>4, <1>9
<1>10. ASSUME where = "value" PROVE Len(r) = 3 /\ r[1] = c /\ r[2] = "\n"
  BY ONLY <1>5, <1>10
<1>11. ASSUME where = "item" PROVE Len(r) = 5 /\ r[1] = c /\ r[2] = "\n"
  BY ONLY <1>6, <1>11
<1>12. ASSUME where = "key" PROVE Len(r) = 4 /\ r[1] = c /\ r[2] = ":"
  BY ONLY <1>7, <1>12
<1>13. ASSUME where = "flow" PROVE Len(r) = 2 /\ r[1] = c /\ r[2] = "]"
  BY ONLY <1>8, <1>13
<1>14. where \in {"root", "value", "item", "key", "explicit", "flow"}
  BY PlacesAre
<1>15. ASSUME where = "explicit" PROVE r = (<<c>> \o <<"\n">>) \o <<":", "space", "b">>
  BY <1>2, <1>3, <1>15, PlacesAre
<1>16. ASSUME where = "explicit" PROVE Len(r) = 5 /\ r[1] = c /\ r[2] = "\n"
  BY ONLY <1>15, <1>16
<1> QED BY ONLY <1>1, <1>9, <1>10, <1>11, <1>12, <1>13, <1>14, <1>16

(* What the scanner has in front of it while it reads a double-quoted scalar.      *)
DoubleAhead(n, off) ==
    /\ value \in Seq(Characters) /\ n = Len(value) /\ n \in Nat
    /\ Len(Where.before) \in Nat /\ off[1] = Len(Where.before) + 2
    /\ At(text, Len(Where.before) + 1) = "dquote"
    /\ \A k \in 1..(n + 1) : off[k] \in Nat
    /\ \A k \in 1..n : EscapedAt(value[k], text, off[k], off[k + 1])
    /\ At(text, off[n + 1]) = "dquote"

LEMMA DoubleIsAhead ==
  ASSUME Sound, phase # "asked", chosen = "double"
  PROVE  \E n, off : DoubleAhead(n, off)
<1>1. /\ value \in Seq(Characters) /\ place \in DOMAIN Places /\ best_indent \in 2..9
      /\ Granted(value, "double", place) /\ text = WriteAt(value, "double", place, best_indent)
  BY DEF Sound, InputOK, OutputOK
<1>2. PICK n : n = Len(value) /\ n \in Nat
  BY <1>1
<1>3. PICK off : Layout(value, "double", place, best_indent, text, off)
  BY <1>1, TextIs
<1>4. PICK b, m, r, o : /\ b = Len(Places[place].before) /\ m = Indent(place, best_indent)
                        /\ r = Rest(value, "double", place) /\ o = Opening(value, "double", best_indent)
  OBVIOUS
<1>5. /\ off[1] = b + Len(o) + 1
      /\ \A k \in 1..(n + 1) : off[k] \in Nat
      /\ \A k \in 1..n : off[k + 1] = off[k] + Len(Piece(value, "double", m, k))
      /\ \A k \in 1..n : \A j \in 1..Len(Piece(value, "double", m, k)) :
             At(text, off[k] + j - 1) = Piece(value, "double", m, k)[j]
      /\ \A j \in 1..Len(r) : At(text, off[n + 1] + j - 1) = r[j]
      /\ \A j \in 1..Len(o) : At(text, b + j) = o[j]
  BY ONLY <1>2, <1>3, <1>4 DEF Layout
<1>6. b \in Nat
  BY <1>1, <1>4, BeforeIs
<1>7. Len(o) = 1 /\ o[1] = "dquote"
  <2>1. o = <<"dquote">>
    BY <1>4 DEF Opening
  <2> QED BY ONLY <2>1
<1>8. off[1] = b + 2 /\ At(text, b + 1) = "dquote"
  BY <1>5, <1>6, <1>7
<1>9. ASSUME NEW k \in 1..n PROVE EscapedAt(value[k], text, off[k], off[k + 1])
  <2>1. PICK e, p, q : e = Escape(value[k]) /\ p = off[k] /\ q = off[k + 1]
    OBVIOUS
  <2>2. Piece(value, "double", m, k) = e
    BY <2>1 DEF Piece
  <2>3. p \in Nat
    BY <1>2, <1>5, <2>1
  <2>4. q = p + Len(e) /\ \A j \in 1..Len(e) : At(text, p + j - 1) = e[j]
    BY <1>5, <2>1, <2>2
  <2>5. EscapedAt(value[k], text, p, q)
    BY ONLY <2>1, <2>3, <2>4, EscapeStands
  <2> QED BY <2>1, <2>5
<1>10. At(text, off[n + 1]) = "dquote"
  <2>1. 1 \in 1..Len(r) /\ r[1] = "dquote"
    BY <1>1, <1>4, RestOfQuoted
  <2>2. off[n + 1] \in Nat
    BY <1>2, <1>5
  <2>3. off[n + 1] + 1 - 1 = off[n + 1]
    BY <2>2
  <2> QED BY <1>5, <2>1, <2>3
<1>11. b = Len(Where.before)
  BY <1>4 DEF Where
<1>12. DoubleAhead(n, off)
  BY ONLY <1>1, <1>2, <1>5, <1>6, <1>8, <1>9, <1>10, <1>11 DEF DoubleAhead
<1> QED BY <1>12

(* The scanner is at character k of a double-quoted scalar.                        *)
DoubleIn(v, n, off, k) ==
    /\ k \in 1..(n + 1) /\ index = off[k] /\ column >= 1
    /\ leading_blanks = FALSE /\ leading_break = <<>> /\ trailing_breaks = <<>>
    /\ result \o whitespaces = Before(v, k)
    /\ (phase = "double" /\ whitespaces = <<>>) \/ phase = "double_gap"

(* Of a result with nothing after it.                                              *)
LEMMA NothingWaits ==
  ASSUME NEW r, r \in Seq(Characters), NEW w, w = <<>>
  PROVE  r \o w = r
  BY ONLY r \in Seq(Characters), w = <<>>, NothingMore

LEMMA BeforeIsText ==
  ASSUME NEW v, v \in Seq(Characters), NEW n, n = Len(v), NEW k \in 1..(n + 1)
  PROVE  Before(v, k) \in Seq(Characters)
<1>1. v \in Seq(Characters) /\ n = Len(v) /\ n \in Nat /\ k \in 1..(n + 1)
  OBVIOUS
<1>2. CASE k = n + 1
  <2>1. Before(v, n + 1) = v
    BY ONLY <1>1, BeforeEnd
  <2> QED BY ONLY <1>1, <1>2, <2>1
<1>3. CASE k # n + 1
  <2>1. v \in Seq(Characters) /\ k \in 1..Len(v)
    BY <1>1, <1>3
  <2> QED BY ONLY <2>1, BeforeNext
<1> QED BY <1>2, <1>3

(* The opening quote.                                                              *)
LEMMA DoubleStarts ==
  ASSUME Sound, Started, NEW n, NEW off, DoubleAhead(n, off), Next, NEW v, v = value
  PROVE  DoubleIn(v, n, off, 1)'
<1>1. /\ n \in Nat /\ Len(Where.before) \in Nat /\ off[1] = Len(Where.before) + 2
      /\ At(text, Len(Where.before) + 1) = "dquote"
  BY DEF DoubleAhead
<1>2. /\ index = Len(Where.before) + 1 /\ column = Len(Where.before) /\ result = <<>> /\ phase = "written"
      /\ whitespaces = <<>> /\ leading_break = <<>> /\ trailing_breaks = <<>> /\ leading_blanks = FALSE
  BY DEF Started, Clean
<1>3. Here = "dquote"
  BY <1>1, <1>2 DEF Here
<1>4. FetchQuoted
  BY <1>2, <1>3, StepsOf DEF FetchPlain, FetchBlock
<1>5. /\ phase' = "double" /\ index' = index + 1 /\ column' = column + 1 /\ result' = result
      /\ whitespaces' = whitespaces /\ leading_break' = leading_break
      /\ trailing_breaks' = trailing_breaks /\ leading_blanks' = leading_blanks
  BY <1>3, <1>4 DEF FetchQuoted, Skip, gap
<1>6. index' = off[1] /\ column' >= 1 /\ 1 \in 1..(n + 1)
  BY <1>1, <1>2, <1>5
<1>7. result' \o whitespaces' = Before(v, 1)
  <2>1. <<>> \o <<>> = <<>>
    OBVIOUS
  <2> QED BY <1>2, <1>5, <2>1, BeforeFirst
<1> QED BY <1>2, <1>5, <1>6, <1>7 DEF DoubleIn

(* A blank of the string is a blank of the text.                                   *)
LEMMA DoubleBlank ==
  ASSUME Sound, NEW n, NEW off, DoubleAhead(n, off), NEW v, v = value, NEW k \in 1..n,
         DoubleIn(v, n, off, k), v[k] = "space", Next
  PROVE  DoubleIn(v, n, off, k + 1)'
<1>1. /\ v \in Seq(Characters) /\ n = Len(v) /\ n \in Nat
      /\ EscapedAt(v[k], text, off[k], off[k + 1])
      /\ k + 1 \in 1..(n + 1)
  BY DEF DoubleAhead
<1>2. At(text, off[k]) = "space" /\ off[k + 1] = off[k] + 1
  BY <1>1 DEF EscapedAt, Escapes
<1>3. /\ index = off[k] /\ column >= 1
      /\ leading_blanks = FALSE /\ leading_break = <<>> /\ trailing_breaks = <<>>
      /\ result \o whitespaces = Before(v, k)
      /\ phase \in {"double", "double_gap"}
  BY DEF DoubleIn
<1>4. Here = "space" /\ Here \in Blank /\ Here \notin Break
  BY <1>2, <1>3 DEF Here, Blank, Break
<1>5. ConsumeBlank
  BY <1>3, <1>4, StepsOf DEF QuotedCharacter, QuotedEnd, QuotedResume, ConsumeBreak, Blankz,
     ClosesQuoted, Quote
<1>6. /\ phase' = "double_gap" /\ result' = result /\ whitespaces' = Append(whitespaces, v[k])
      /\ index' = index + 1 /\ column' = column + 1
      /\ leading_break' = leading_break /\ trailing_breaks' = trailing_breaks
      /\ leading_blanks' = leading_blanks
  BY <1>3, <1>4, <1>5, GapOfIs DEF ConsumeBlank, Skip, InGap
<1>7. column' >= 1 /\ column \in Nat
  <2>1. column \in Nat
    BY DEF Sound, TypeOK
  <2> QED BY <1>3, <1>6, <2>1
<1>8. result' \o whitespaces' = Before(v, k + 1)
  <2>1. PICK r, w, x : r = result /\ w = whitespaces /\ x = Append(w, v[k])
    OBVIOUS
  <2>2. /\ v \in Seq(Characters) /\ k \in 1..Len(v) /\ r \in Seq(Characters) /\ w \in Seq(Characters)
    <3>1. r \in Seq(Characters) /\ w \in Seq(Blank)
      BY <1>3, <2>1 DEF Sound, TypeOK
    <3>2. Blank \subseteq Characters
      BY DEF Characters
    <3>3. w \in Seq(Characters)
      BY ONLY <3>1, <3>2, Wider
    <3> QED BY <1>1, <3>1, <3>3
  <2>3. Spans(r, w, v, k)
    BY ONLY <1>3, <2>1, Zenon DEF Spans
  <2>4. Spans(r, x, v, k + 1)
    BY ONLY <2>1, <2>2, <2>3, SpansNext
  <2>5. result' = r /\ whitespaces' = x
    BY ONLY <1>6, <2>1, Zenon
  <2> QED BY ONLY <2>4, <2>5, Zenon DEF Spans
<1>9. index' = off[k + 1]
  BY <1>2, <1>3, <1>6
<1> QED BY <1>1, <1>3, <1>6, <1>7, <1>8, <1>9 DEF DoubleIn

(* Any other character is read by itself, however it is escaped.                   *)
LEMMA DoubleCharacter ==
  ASSUME Sound, NEW n, NEW off, DoubleAhead(n, off), NEW v, v = value, NEW k \in 1..n,
         DoubleIn(v, n, off, k), v[k] # "space", phase = "double", Next
  PROVE  DoubleIn(v, n, off, k + 1)'
<1>1. /\ v \in Seq(Characters) /\ n = Len(v) /\ n \in Nat /\ v[k] \in Characters
      /\ EscapedAt(v[k], text, off[k], off[k + 1])
      /\ k + 1 \in 1..(n + 1)
  BY DEF DoubleAhead
<1>2. /\ index = off[k] /\ column >= 1 /\ column \in Nat
      /\ leading_blanks = FALSE /\ leading_break = <<>> /\ trailing_breaks = <<>>
      /\ result \o whitespaces = Before(v, k) /\ whitespaces = <<>>
  BY DEF DoubleIn, Sound, TypeOK
<1>3. result = Before(v, k)
  <2>1. PICK r, w : r = result /\ w = whitespaces
    OBVIOUS
  <2>2. r \in Seq(Characters) /\ w = <<>>
    BY <1>2, <2>1 DEF Sound
  <2>3. r \o w = r
    BY ONLY <2>2, NothingWaits
  <2> QED BY ONLY <1>2, <2>1, <2>3, Zenon
<1>4. Here = At(text, off[k]) /\ There = At(text, off[k] + 1)
  BY <1>2 DEF Here, There
<1>5. \/ /\ v[k] \in Escapes /\ off[k + 1] = off[k] + 2 /\ Here = "\\"
         /\ There \in {"n", "L", "t", "dquote", "\\"} /\ Unescape(There) = v[k]
      \/ /\ v[k] = "ctl" /\ off[k + 1] = off[k] + 3 /\ Here = "\\" /\ There = "x"
         /\ At(text, off[k] + 2) = "01"
      \/ v[k] \notin Escapes \cup {"ctl"} /\ off[k + 1] = off[k] + 1 /\ Here = v[k]
  BY <1>1, <1>4 DEF EscapedAt
<1>6. Quote = "dquote"
  BY DEF Quote
<1>7. Here \notin Blankz /\ ~ClosesQuoted
  BY <1>1, <1>5, <1>6, Known DEF Blankz, Blank, Break, Escapes, ClosesQuoted
<1>8. QuotedCharacter
  BY <1>7, StepsOf DEF QuotedEnd, ConsumeBlank, ConsumeBreak, Blankz
<1>9. /\ whitespaces' = whitespaces /\ leading_break' = leading_break
      /\ trailing_breaks' = trailing_breaks /\ leading_blanks' = leading_blanks
  BY <1>8 DEF QuotedCharacter, gap
<1>10. /\ phase' = "double" /\ result' = Append(result, v[k])
       /\ index' = off[k + 1] /\ column' >= 1
  <2>1. CASE Here = "\\"
    <3>1. EscapeKnown /\ Unescape(There) = v[k] /\ off[k + 1] = off[k] + (IF There = "x" THEN 3 ELSE 2)
      BY <1>2, <1>5, <2>1 DEF EscapeKnown, Unescape, Escapes
    <3>2. /\ result' = Append(result, Unescape(There)) /\ phase' = phase
          /\ index' = index + (IF There = "x" THEN 3 ELSE 2)
          /\ column' = column + (IF There = "x" THEN 3 ELSE 2)
      BY <1>8, <2>1, <3>1 DEF QuotedCharacter, Skip
    <3>3. column' >= 1
      BY <1>2, <3>2
    <3> QED BY <1>2, <3>1, <3>2, <3>3
  <2>2. CASE Here # "\\"
    <3>1. Here = v[k] /\ Here # Quote /\ off[k + 1] = off[k] + 1
      BY <1>5, <1>6, <2>2 DEF Escapes
    <3>2. /\ result' = Append(result, Here) /\ phase' = phase
          /\ index' = index + 1 /\ column' = column + 1
      BY <1>8, <2>2, <3>1 DEF QuotedCharacter, Skip
    <3>3. column' >= 1
      BY <1>2, <3>2
    <3> QED BY <1>2, <3>1, <3>2, <3>3
  <2> QED BY <2>1, <2>2
<1>11. result' \o whitespaces' = Before(v, k + 1)
  <2>1. v \in Seq(Characters) /\ k \in 1..Len(v) /\ n = Len(v) /\ k + 1 \in 1..(n + 1)
    BY <1>1
  <2>2. Append(Before(v, k), v[k]) = Before(v, k + 1)
    BY ONLY <2>1, BeforeNext
  <2>3. PICK a, w : a = Before(v, k + 1) /\ w = whitespaces'
    OBVIOUS
  <2>4. a \in Seq(Characters) /\ w = <<>>
    <3>1. Before(v, k + 1) \in Seq(Characters)
      BY ONLY <2>1, BeforeIsText
    <3> QED BY ONLY <1>2, <1>9, <2>3, <3>1
  <2>5. a \o w = a
    BY ONLY <2>4, NothingWaits
  <2>6. result' = a
    BY ONLY <1>3, <1>10, <2>2, <2>3, Zenon
  <2> QED BY ONLY <2>3, <2>5, <2>6, Zenon
<1> QED BY <1>1, <1>2, <1>9, <1>10, <1>11 DEF DoubleIn

(* The blanks are added before it.                                                 *)
LEMMA DoubleResumes ==
  ASSUME Sound, NEW n, NEW off, DoubleAhead(n, off), NEW v, v = value, NEW k \in 1..(n + 1),
         DoubleIn(v, n, off, k), k \in 1..n => v[k] # "space", phase = "double_gap", Next
  PROVE  DoubleIn(v, n, off, k)'
<1>1. /\ v \in Seq(Characters) /\ n = Len(v) /\ n \in Nat
      /\ k \in 1..n => EscapedAt(v[k], text, off[k], off[k + 1]) /\ v[k] \in Characters
      /\ k = n + 1 => At(text, off[k]) = "dquote"
  BY DEF DoubleAhead
<1>2. /\ index = off[k] /\ column >= 1 /\ column \in Nat
      /\ leading_blanks = FALSE /\ leading_break = <<>> /\ trailing_breaks = <<>>
      /\ result \o whitespaces = Before(v, k)
  BY DEF DoubleIn, Sound, TypeOK
<1>3. Here \notin Blankz
  <2>1. CASE k \in 1..n
    <3>1. Here = "\\" \/ (v[k] \notin Escapes \cup {"ctl"} /\ Here = v[k])
      BY <1>1, <1>2, <2>1 DEF EscapedAt, Here
    <3> QED BY <1>1, <2>1, <3>1, Known DEF Blankz, Blank, Break, Escapes
  <2>2. CASE k = n + 1
    BY <1>1, <1>2, <2>2 DEF Here, Blankz, Blank, Break
  <2> QED BY <1>1, <2>1, <2>2
<1>4. QuotedResume
  BY <1>3, StepsOf DEF ConsumeBlank, ConsumeBreak, Blankz
<1>5. ~DocumentIndicator /\ Here # "z"
  BY <1>2, <1>3 DEF DocumentIndicator, Blankz
<1>6. /\ phase' = "double" /\ result' = result \o Joint /\ index' = index /\ column' = column
      /\ whitespaces' = <<>> /\ leading_break' = <<>> /\ trailing_breaks' = <<>> /\ leading_blanks' = FALSE
  BY <1>4, <1>5 DEF QuotedResume, Quote, NoGap, mark
<1>7. Joint = whitespaces
  BY <1>2 DEF Joint
<1>8. result' = Before(v, k)
  BY ONLY <1>2, <1>6, <1>7, Zenon
<1>9. result' \o whitespaces' = Before(v, k)
  <2>1. v \in Seq(Characters) /\ n = Len(v) /\ k \in 1..(n + 1)
    BY <1>1
  <2>2. Before(v, k) \in Seq(Characters)
    BY ONLY <2>1, BeforeIsText
  <2>3. PICK r, w : r = result' /\ w = whitespaces'
    OBVIOUS
  <2>4. r \in Seq(Characters) /\ w = <<>>
    BY ONLY <1>6, <1>8, <2>2, <2>3
  <2>5. r \o w = r
    BY ONLY <2>4, NothingWaits
  <2> QED BY ONLY <1>8, <2>3, <2>5, Zenon
<1> QED BY <1>2, <1>6, <1>9 DEF DoubleIn

(* The closing quote ends it.                                                      *)
LEMMA DoubleEnds ==
  ASSUME Sound, NEW n, NEW off, DoubleAhead(n, off), NEW v, v = value,
         DoubleIn(v, n, off, n + 1), phase = "double", Next
  PROVE  phase' = "read" /\ result' = v
<1>1. v \in Seq(Characters) /\ n = Len(v) /\ n \in Nat /\ At(text, off[n + 1]) = "dquote"
  BY DEF DoubleAhead
<1>2. index = off[n + 1] /\ result \o whitespaces = Before(v, n + 1) /\ whitespaces = <<>>
  BY DEF DoubleIn
<1>3. result = v
  <2>1. PICK r, w : r = result /\ w = whitespaces
    OBVIOUS
  <2>2. r \in Seq(Characters) /\ w = <<>>
    BY <1>2, <2>1 DEF Sound
  <2>3. r \o w = r
    BY ONLY <2>2, NothingWaits
  <2>4. v \in Seq(Characters) /\ n = Len(v)
    BY <1>1
  <2>5. Before(v, n + 1) = v
    BY ONLY <2>4, BeforeEnd
  <2> QED BY ONLY <1>2, <2>1, <2>3, <2>5, Zenon
<1>4. Here = "dquote" /\ Quote = "dquote"
  BY <1>1, <1>2 DEF Here, Quote
<1>5. ClosesQuoted
  BY <1>4 DEF ClosesQuoted
<1>6. QuotedEnd
  BY <1>4, <1>5, StepsOf DEF QuotedCharacter, ConsumeBlank, ConsumeBreak, Blank, Break
<1> QED BY <1>3, <1>4, <1>6 DEF QuotedEnd, Finish

DoubleReads ==
    \E n, off, v : v = value /\ n = Len(value) /\ DoubleAhead(n, off) /\ \E k \in 1..(n + 1) : DoubleIn(v, n, off, k)

LEMMA DoubleAheadNext ==
  ASSUME NEW n, NEW off, DoubleAhead(n, off), UNCHANGED input, UNCHANGED output
  PROVE  DoubleAhead(n, off)'
  BY DEF DoubleAhead, input, output, Where

(* Every step of a double-quoted scalar.                                           *)
LEMMA DoubleStep ==
  ASSUME Sound, chosen = "double", Started \/ DoubleReads, Next, phase \notin {"asked", "read"}
  PROVE  (phase' = "read" /\ result' = value) \/ DoubleReads'
<1>1. UNCHANGED input /\ UNCHANGED output
  BY Keeps
<1>2. ASSUME NEW n, NEW off, NEW v, v = value, n = Len(value), DoubleAhead(n, off),
             \E k \in 1..(n + 1) : DoubleIn(v, n, off, k)'
      PROVE  DoubleReads'
  <2>1. DoubleAhead(n, off)'
    BY <1>1, <1>2, DoubleAheadNext
  <2>2. v = value' /\ n = Len(value')
    BY <1>1, <1>2 DEF input
  <2> QED BY <1>2, <2>1, <2>2 DEF DoubleReads
<1>3. CASE Started
  <2>1. PICK n, off : DoubleAhead(n, off)
    BY DoubleIsAhead
  <2>2. PICK v : v = value /\ n = Len(value) /\ n \in Nat /\ 1 \in 1..(n + 1)
    BY <2>1 DEF DoubleAhead
  <2>3. DoubleIn(v, n, off, 1)'
    BY <1>3, <2>1, <2>2, DoubleStarts
  <2> QED BY <1>2, <2>1, <2>2, <2>3
<1>4. CASE DoubleReads
  <2>1. PICK n, off, v : v = value /\ n = Len(value) /\ DoubleAhead(n, off)
                         /\ \E k \in 1..(n + 1) : DoubleIn(v, n, off, k)
    BY <1>4 DEF DoubleReads
  <2>2. PICK k \in 1..(n + 1) : DoubleIn(v, n, off, k)
    BY <2>1
  <2>3. n \in Nat /\ phase \in {"double", "double_gap"}
    BY <2>1, <2>2 DEF DoubleAhead, DoubleIn
  <2>4. k \in 1..n => k + 1 \in 1..(n + 1)
    BY <2>3
  <2>5. CASE k \in 1..n /\ v[k] = "space"
    BY <1>2, <2>1, <2>2, <2>4, <2>5, DoubleBlank
  <2>6. CASE k \in 1..n /\ v[k] # "space" /\ phase = "double"
    BY <1>2, <2>1, <2>2, <2>4, <2>6, DoubleCharacter
  <2>7. CASE (k \in 1..n => v[k] # "space") /\ phase = "double_gap"
    BY <1>2, <2>1, <2>2, <2>7, DoubleResumes
  <2>8. CASE k = n + 1 /\ phase = "double"
    BY <2>1, <2>2, <2>8, DoubleEnds
  <2> QED BY <2>3, <2>5, <2>6, <2>7, <2>8
<1> QED BY <1>3, <1>4

-----------------------------------------------------------------------------
(* Single-quoted scalars.                                                          *)
(* The indentation before character k, of n, if a line begins there.               *)
Lead(v, k, n, margin) ==
    IF k \in 2..n /\ v[k] \notin Break /\ v[k - 1] \in Break THEN margin ELSE 0

(* How character k stands in a single-quoted scalar, from p to before q.           *)
SingleAt(v, k, n, margin, t, p, q) ==
    /\ v[k] = "\n" /\ ~(k \in 2..n /\ v[k - 1] \in Break) =>
          q = p + 2 /\ At(t, p) = "\n" /\ At(t, p + 1) = "\n"
    /\ v[k] \in Break /\ (v[k] = "\n" => k \in 2..n /\ v[k - 1] \in Break) =>
          q = p + 1 /\ At(t, p) = v[k]
    /\ v[k] \notin Break =>
          /\ \A j \in 0..(Lead(v, k, n, margin) - 1) : At(t, p + j) = "space"
          /\ At(t, p + Lead(v, k, n, margin)) = v[k]
          /\ v[k] # "'" => q = p + Lead(v, k, n, margin) + 1
          /\ v[k] = "'" => /\ At(t, p + Lead(v, k, n, margin) + 1) = "'"
                           /\ q = p + Lead(v, k, n, margin) + 2

(* A sequence in the text from p.                                                  *)
LiesAt(t, p, e) == \A j \in 1..Len(e) : At(t, p + j - 1) = e[j]

LEMMA Lies ==
  ASSUME NEW t, NEW p \in Nat, NEW e, LiesAt(t, p, e), NEW i \in Nat, i + 1 \in 1..Len(e)
  PROVE  At(t, p + i) = e[i + 1]
<1>1. p + (i + 1) - 1 = p + i
  OBVIOUS
<1> QED BY <1>1 DEF LiesAt

LEMMA DoubledHas ==
  ASSUME NEW c, c \in Printable, NEW d, d = Doubled(c)
  PROVE  /\ d \in Seq(Printable) /\ d[1] = c
         /\ c # "'" => Len(d) = 1
         /\ c = "'" => Len(d) = 2 /\ d[2] = "'"
<1>1. d \in Seq(Printable)
  BY DoubledIs
<1>2. CASE c = "'"
  <2>1. d = <<"'", "'">>
    BY <1>2 DEF Doubled
  <2>2. Len(d) = 2 /\ d[1] = "'" /\ d[2] = "'"
    BY ONLY <2>1
  <2> QED BY <1>1, <1>2, <2>2
<1>3. CASE c # "'"
  <2>1. d = <<c>>
    BY <1>3 DEF Doubled
  <2>2. Len(d) = 1 /\ d[1] = c
    BY ONLY <2>1
  <2> QED BY <1>1, <1>3, <2>2
<1> QED BY <1>2, <1>3

(* The indentation and what comes after it.                                        *)
IndentedBy(e, margin, d) == e = Spaces(margin) \o d

LEMMA Indented ==
  ASSUME NEW margin \in Nat, NEW d, d \in Seq(Printable), NEW e, IndentedBy(e, margin, d),
         NEW l, l = Len(d)
  PROVE  /\ Len(e) = margin + l /\ l \in Nat
         /\ \A j \in 1..margin : e[j] = "space"
         /\ \A j \in 1..l : e[margin + j] = d[j]
<1>1. PICK s : s = Spaces(margin)
  OBVIOUS
<1>2. s \in Seq(Printable) /\ margin = Len(s) /\ \A j \in 1..margin : s[j] = "space"
  BY <1>1, SpacesAre
<1>3. s \in Seq(Printable) /\ d \in Seq(Printable) /\ margin = Len(s) /\ l = Len(d)
  BY <1>2
<1>4. /\ Len(s \o d) = margin + l /\ l \in Nat
      /\ \A i \in 1..margin : (s \o d)[i] = s[i]
      /\ \A i \in 1..l : (s \o d)[margin + i] = d[i]
  BY ONLY <1>3, Joined
<1>5. e = s \o d
  BY <1>1 DEF IndentedBy
<1> QED BY ONLY <1>2, <1>4, <1>5

(* The piece of a character stands in the text.                                    *)
LEMMA SingleStands ==
  ASSUME NEW v, NEW n, n = Len(v), v \in Seq(Characters), NEW k \in 1..n, v[k] # "ctl",
         NEW margin \in Nat, NEW t, NEW p \in Nat,
         NEW e, e = Unfolded(v, k, Doubled(v[k]), margin), NEW q, q = p + Len(e),
         LiesAt(t, p, e)
  PROVE  SingleAt(v, k, n, margin, t, p, q)
<1>1. n \in Nat /\ DOMAIN v = 1..n /\ v[k] \in Printable
  <2>1. v \in Seq(Characters) /\ n = Len(v) /\ k \in 1..Len(v)
    OBVIOUS
  <2>2. n \in Nat /\ DOMAIN v = 1..n /\ v[k] \in Characters
    BY ONLY <2>1
  <2> QED BY <2>2 DEF Printable
<1>2. At(v, k - 1) \in Break <=> k \in 2..n /\ v[k - 1] \in Break
  BY <1>1 DEF At, Break
<1>3. CASE v[k] = "\n" /\ ~(k \in 2..n /\ v[k - 1] \in Break)
  <2>1. e = <<"\n", "\n">>
    BY <1>2, <1>3 DEF Unfolded, Break
  <2>2. Len(e) = 2 /\ e[1] = "\n" /\ e[2] = "\n"
    BY ONLY <2>1
  <2>3. At(t, p + 0) = e[0 + 1] /\ At(t, p + 1) = e[1 + 1]
    <3>1. /\ 0 \in Nat /\ 1 \in Nat /\ 0 + 1 \in 1..Len(e) /\ 1 + 1 \in 1..Len(e)
          /\ p \in Nat /\ LiesAt(t, p, e)
      BY <2>2
    <3>2. At(t, p + 0) = e[0 + 1]
      BY ONLY <3>1, Lies
    <3>3. At(t, p + 1) = e[1 + 1]
      BY ONLY <3>1, Lies
    <3> QED BY ONLY <3>2, <3>3
  <2>4. q = p + 2 /\ At(t, p) = "\n" /\ At(t, p + 1) = "\n"
    BY <2>2, <2>3
  <2> QED BY <1>3, <2>4 DEF SingleAt, Break
<1>4. CASE v[k] \in Break /\ (v[k] = "\n" => k \in 2..n /\ v[k - 1] \in Break)
  <2>1. e = <<v[k]>>
    BY <1>2, <1>4 DEF Unfolded
  <2>2. Len(e) = 1 /\ e[1] = v[k]
    BY ONLY <2>1
  <2>3. At(t, p + 0) = e[0 + 1]
    <3>1. 0 \in Nat /\ 0 + 1 \in 1..Len(e) /\ p \in Nat /\ LiesAt(t, p, e)
      BY <2>2
    <3> QED BY ONLY <3>1, Lies
  <2>4. q = p + 1 /\ At(t, p) = v[k]
    BY <2>2, <2>3
  <2> QED BY <1>4, <2>4 DEF SingleAt
<1>5. CASE v[k] \notin Break
  <2>1. PICK c, d, l, m : c = v[k] /\ d = Doubled(c) /\ l = Len(d) /\ m = Lead(v, k, n, margin)
    OBVIOUS
  <2>2. /\ d \in Seq(Printable) /\ d[1] = c
        /\ c # "'" => Len(d) = 1
        /\ c = "'" => Len(d) = 2 /\ d[2] = "'"
    <3>1. c \in Printable /\ d = Doubled(c)
      BY <1>1, <2>1
    <3> QED BY ONLY <3>1, DoubledHas
  <2>3. m \in Nat /\ (m = margin \/ m = 0)
    BY <2>1 DEF Lead
  <2>4. /\ Len(e) = m + l /\ l \in Nat
        /\ \A j \in 1..m : e[j] = "space"
        /\ \A j \in 1..l : e[m + j] = d[j]
    <3>1. CASE At(v, k - 1) \in Break
      <4>1. m = margin /\ e = Spaces(margin) \o d
        BY <1>2, <1>5, <2>1, <3>1 DEF Lead, Unfolded
      <4>2. margin \in Nat /\ d \in Seq(Printable) /\ l = Len(d) /\ IndentedBy(e, margin, d)
        BY <2>1, <2>2, <4>1 DEF IndentedBy
      <4>3. /\ Len(e) = margin + l /\ l \in Nat
            /\ \A j \in 1..margin : e[j] = "space"
            /\ \A j \in 1..l : e[margin + j] = d[j]
        BY ONLY <4>2, Indented
      <4> QED BY ONLY <4>1, <4>3
    <3>2. CASE At(v, k - 1) \notin Break
      <4>1. m = 0 /\ e = d
        BY <1>2, <1>5, <2>1, <3>2 DEF Lead, Unfolded
      <4>2. l \in Nat
        BY <2>1, <2>2
      <4>3. \A j \in 1..l : m + j = j
        BY <4>1, <4>2
      <4> QED BY <2>1, <4>1, <4>2, <4>3
    <3> QED BY <3>1, <3>2
  <2>5. \A j \in 0..(m - 1) : At(t, p + j) = "space"
    <3>1. ASSUME NEW j \in 0..(m - 1) PROVE At(t, p + j) = "space"
      <4>1. j \in Nat /\ j + 1 \in 1..Len(e) /\ j + 1 \in 1..m
        BY <2>3, <2>4
      <4>2. p \in Nat /\ LiesAt(t, p, e)
        OBVIOUS
      <4>3. At(t, p + j) = e[j + 1]
        <5>1. At(t, p + (j + 1) - 1) = e[j + 1]
          BY ONLY <4>1, <4>2 DEF LiesAt
        <5>2. p + (j + 1) - 1 = p + j
          BY ONLY <4>1, <4>2
        <5> QED BY ONLY <5>1, <5>2
      <4>4. e[j + 1] = "space"
        BY ONLY <2>4, <4>1
      <4> QED BY ONLY <4>3, <4>4
    <3> QED BY <3>1
  <2>6. At(t, p + m) = c
    <3>1. l \in {1, 2} /\ m \in Nat /\ Len(e) = m + l
      BY <2>1, <2>2, <2>3, <2>4
    <3>2. 1 \in 1..l /\ m + 1 \in 1..Len(e)
      BY ONLY <3>1
    <3>3. p \in Nat /\ LiesAt(t, p, e)
      OBVIOUS
    <3>4. At(t, p + m) = e[m + 1]
      <4>1. At(t, p + (m + 1) - 1) = e[m + 1]
        BY ONLY <3>2, <3>3 DEF LiesAt
      <4>2. p + (m + 1) - 1 = p + m
        BY ONLY <3>1, <3>3
      <4> QED BY ONLY <4>1, <4>2
    <3>5. e[m + 1] = c
      BY ONLY <2>2, <2>4, <3>2
    <3> QED BY ONLY <3>4, <3>5
  <2>7. c = "'" => At(t, p + m + 1) = "'" /\ q = p + m + 2
    <3>1. ASSUME c = "'" PROVE At(t, p + m + 1) = "'" /\ q = p + m + 2
      <4>1. 2 \in 1..l /\ (m + 1) + 1 \in 1..Len(e) /\ m + 1 \in Nat /\ (m + 1) + 1 = m + 2
            /\ p + (m + 1) = p + m + 1 /\ l = 2
        <5>1. l = 2 /\ m \in Nat /\ Len(e) = m + l /\ p \in Nat
          BY <2>1, <2>2, <2>3, <2>4, <3>1
        <5> QED BY ONLY <5>1
      <4>2. At(t, p + (m + 1)) = e[(m + 1) + 1]
        <5>1. p \in Nat /\ LiesAt(t, p, e)
          OBVIOUS
        <5>2. At(t, p + ((m + 1) + 1) - 1) = e[(m + 1) + 1]
          BY ONLY <4>1, <5>1 DEF LiesAt
        <5>3. p + ((m + 1) + 1) - 1 = p + (m + 1)
          BY ONLY <4>1, <5>1
        <5> QED BY ONLY <5>2, <5>3
      <4>3. e[m + 2] = d[2]
        BY <2>4, <4>1
      <4>4. q = p + m + 2
        BY <2>3, <2>4, <4>1
      <4> QED BY <2>2, <3>1, <4>1, <4>2, <4>3, <4>4
    <3> QED BY <3>1
  <2>8. c # "'" => q = p + m + 1
    <3>1. ASSUME c # "'" PROVE q = p + m + 1
      <4>1. l = 1 /\ m \in Nat /\ Len(e) = m + l /\ p \in Nat /\ q = p + Len(e)
        BY <2>1, <2>2, <2>3, <2>4, <3>1
      <4> QED BY ONLY <4>1
    <3> QED BY <3>1
  <2> QED BY <1>5, <2>1, <2>5, <2>6, <2>7, <2>8 DEF SingleAt, Break
<1> QED BY <1>3, <1>4, <1>5

(* What the scanner has in front of it while it reads a single-quoted scalar.      *)
SingleAhead(n, off, margin) ==
    /\ value \in Seq(Characters) /\ n = Len(value) /\ n \in Nat /\ margin \in Nat \ {0}
    /\ Len(Where.before) \in Nat /\ off[1] = Len(Where.before) + 2
    /\ At(text, Len(Where.before) + 1) = "'"
    /\ \A k \in 1..(n + 1) : off[k] \in Nat
    /\ \A k \in 1..n : SingleAt(value, k, n, margin, text, off[k], off[k + 1])
    /\ At(text, off[n + 1]) = "'" /\ At(text, off[n + 1] + 1) # "'"
    /\ \A k \in 1..n : value[k] \in Characters \ {"\t", "ctl", "z"}
    /\ \A k \in 2..n : value[k - 1] \in Break => value[k] # "space"
    /\ \A k \in 2..n : value[k - 1] = "space" => value[k] \notin Break

LEMMA SingleIsAhead ==
  ASSUME Sound, phase # "asked", chosen = "single"
  PROVE  \E n, off, margin : SingleAhead(n, off, margin)
<1>1. /\ value \in Seq(Characters) /\ place \in DOMAIN Places /\ best_indent \in 2..9
      /\ Granted(value, "single", place) /\ text = WriteAt(value, "single", place, best_indent)
  BY DEF Sound, InputOK, OutputOK
<1>2. PICK n, v : n = Len(value) /\ n \in Nat /\ v = value
  BY <1>1
<1>3. PICK off : Layout(v, "single", place, best_indent, text, off)
  BY <1>1, <1>2, TextIs
<1>4. PICK b, m, r, o : /\ b = Len(Places[place].before) /\ m = Indent(place, best_indent)
                        /\ r = Rest(v, "single", place) /\ o = Opening(v, "single", best_indent)
  OBVIOUS
<1>5. /\ off[1] = b + Len(o) + 1
      /\ \A k \in 1..(n + 1) : off[k] \in Nat
      /\ \A k \in 1..n : off[k + 1] = off[k] + Len(Piece(v, "single", m, k))
      /\ \A k \in 1..n : \A j \in 1..Len(Piece(v, "single", m, k)) :
             At(text, off[k] + j - 1) = Piece(v, "single", m, k)[j]
      /\ \A j \in 1..Len(r) : At(text, off[n + 1] + j - 1) = r[j]
      /\ \A j \in 1..Len(o) : At(text, b + j) = o[j]
  BY ONLY <1>2, <1>3, <1>4 DEF Layout
<1>6. b \in Nat /\ m \in Nat \ {0}
  <2>1. b \in Nat
    BY <1>1, <1>4, BeforeIs
  <2>2. m \in Nat /\ m >= 2
    BY <1>1, <1>4, MarginIs
  <2> QED BY <2>1, <2>2
<1>7. Len(o) = 1 /\ o[1] = "'"
  <2>1. o = <<"'">>
    BY <1>4 DEF Opening
  <2> QED BY ONLY <2>1
<1>8. off[1] = b + 2 /\ At(text, b + 1) = "'"
  BY <1>5, <1>6, <1>7
<1>9. /\ \A k \in 1..n : v[k] \in Characters \ {"\t", "ctl", "z"}
      /\ \A k \in 2..n : v[k - 1] \in Break => v[k] # "space"
      /\ \A k \in 2..n : v[k - 1] = "space" => v[k] \notin Break
  <2>1. SingleQuotedAllowed(v)
    BY <1>1, <1>2 DEF Granted
  <2>2. v \in Seq(Characters) /\ n = Len(v)
    BY <1>1, <1>2
  <2>3. DOMAIN v = 1..n /\ \A k \in 1..n : v[k] \in Characters
    BY ONLY <2>2
  <2>4. \A k \in 1..n : v[k] \notin {"\t", "ctl"}
    BY <2>1, <2>3 DEF SingleQuotedAllowed, Has
  <2>5. /\ \A k \in 2..n : v[k - 1] \in Break => v[k] # "space"
        /\ \A k \in 2..n : v[k - 1] = "space" => v[k] \notin Break
    BY <2>1, <2>2 DEF SingleQuotedAllowed, Adjacent
  <2> QED BY <2>3, <2>4, <2>5, Known
<1>10. ASSUME NEW k \in 1..n PROVE SingleAt(v, k, n, m, text, off[k], off[k + 1])
  <2>1. PICK e, p, q : e = Unfolded(v, k, Doubled(v[k]), m) /\ p = off[k] /\ q = off[k + 1]
    OBVIOUS
  <2>2. Piece(v, "single", m, k) = e
    BY <2>1 DEF Piece
  <2>3. p \in Nat /\ v[k] # "ctl" /\ m \in Nat /\ k \in 1..n
    BY <1>2, <1>5, <1>6, <1>9, <2>1
  <2>4. q = p + Len(e) /\ LiesAt(text, p, e)
    BY <1>5, <2>1, <2>2 DEF LiesAt
  <2>5. n = Len(v) /\ v \in Seq(Characters)
    BY <1>1, <1>2
  <2>6. PICK t : t = text
    OBVIOUS
  <2>7. SingleAt(v, k, n, m, t, p, q)
    BY ONLY <2>1, <2>3, <2>4, <2>5, <2>6, SingleStands
  <2> QED BY <2>1, <2>6, <2>7
<1>11. At(text, off[n + 1]) = "'" /\ At(text, off[n + 1] + 1) # "'"
  <2>1. 1 \in 1..Len(r) /\ r[1] = "'" /\ 2 \in 1..Len(r) /\ r[2] # "'"
    BY <1>1, <1>4, RestOfQuoted
  <2>2. off[n + 1] \in Nat
    BY <1>2, <1>5
  <2>3. off[n + 1] + 1 - 1 = off[n + 1] /\ off[n + 1] + 2 - 1 = off[n + 1] + 1
    BY <2>2
  <2> QED BY <1>5, <2>1, <2>3
<1>12. b = Len(Where.before)
  BY <1>4 DEF Where
<1>13. SingleAhead(n, off, m)
  BY ONLY <1>1, <1>2, <1>5, <1>6, <1>8, <1>9, <1>10, <1>11, <1>12 DEF SingleAhead
<1> QED BY <1>13

(* The scanner is at character k of a single-quoted scalar, past the indentation,  *)
(* with nothing between it and what was read; ...                                  *)
SingleIn(v, n, off, margin, k) ==
    /\ phase = "single" /\ k \in 1..(n + 1) /\ index = off[k] + Lead(v, k, n, margin)
    /\ Clean /\ result = Before(v, k)
    /\ k \in 2..n /\ v[k] \in Break => v[k - 1] \notin Break

(* after blanks; ...                                                               *)
SingleBlanks(v, n, off, k) ==
    /\ phase = "single_gap" /\ k \in 2..(n + 1) /\ v[k - 1] = "space" /\ index = off[k] /\ column >= 1
    /\ leading_blanks = FALSE /\ leading_break = <<>> /\ trailing_breaks = <<>>
    /\ result \o whitespaces = Before(v, k)

(* in the middle of a break that is written twice; ...                             *)
SingleTwice(v, n, off, k) ==
    /\ phase = "single_gap" /\ k \in 1..n /\ v[k] = "\n" /\ (k \in 2..n => v[k - 1] \notin Break)
    /\ index = off[k] + 1 /\ column = 0
    /\ leading_blanks = TRUE /\ leading_break = <<"\n">> /\ trailing_breaks = <<>> /\ whitespaces = <<>>
    /\ result = Before(v, k)

(* after breaks, j characters into the indentation.  What is kept of the breaks.    *)
Folded(w, l, t) == w = (IF l = <<"\n">> THEN t ELSE l \o t)
SingleBreaks(v, n, off, margin, k, j) ==
    /\ phase = "single_gap" /\ k \in 2..(n + 1) /\ v[k - 1] \in Break
    /\ j \in 0..Lead(v, k, n, margin) /\ index = off[k] + j /\ column = j
    /\ leading_blanks = TRUE /\ whitespaces = <<>>
    /\ leading_break = <<"\n">> => trailing_breaks # <<>>
    /\ \E w : Folded(w, leading_break, trailing_breaks) /\ Spans(result, w, v, k)

LEMMA LeadIs ==
  ASSUME NEW v, NEW k, NEW n, NEW margin \in Nat
  PROVE  /\ Lead(v, k, n, margin) \in {0, margin}
         /\ ~(k \in 2..n) \/ v[k] \in Break \/ v[k - 1] \notin Break => Lead(v, k, n, margin) = 0
         /\ k \in 2..n /\ v[k] \notin Break /\ v[k - 1] \in Break => Lead(v, k, n, margin) = margin
  BY DEF Lead

(* What the string is at the character the scanner is at.                          *)
LEMMA SingleFacts ==
  ASSUME NEW n, NEW off, NEW margin, SingleAhead(n, off, margin), NEW v, v = value
  PROVE  /\ v \in Seq(Characters) /\ n = Len(v) /\ n \in Nat /\ margin \in Nat \ {0}
         /\ \A k \in 1..(n + 1) : off[k] \in Nat
         /\ \A k \in 1..n : SingleAt(v, k, n, margin, text, off[k], off[k + 1])
         /\ At(text, off[n + 1]) = "'" /\ At(text, off[n + 1] + 1) # "'"
         /\ \A k \in 1..n : v[k] \in Characters \ {"\t", "ctl", "z"}
         /\ \A k \in 2..n : v[k - 1] \in Break => v[k] # "space"
         /\ \A k \in 2..n : v[k - 1] = "space" => v[k] \notin Break
  BY DEF SingleAhead

(* The opening quote.                                                              *)
LEMMA SingleStarts ==
  ASSUME Sound, Started, NEW n, NEW off, NEW margin, SingleAhead(n, off, margin), Next, NEW v, v = value
  PROVE  SingleIn(v, n, off, margin, 1)'
<1>1. /\ n \in Nat /\ Len(Where.before) \in Nat /\ off[1] = Len(Where.before) + 2
      /\ At(text, Len(Where.before) + 1) = "'"
  BY DEF SingleAhead
<1>2. /\ index = Len(Where.before) + 1 /\ result = <<>> /\ phase = "written"
      /\ whitespaces = <<>> /\ leading_break = <<>> /\ trailing_breaks = <<>> /\ leading_blanks = FALSE
  BY DEF Started, Clean
<1>3. Here = "'"
  BY <1>1, <1>2 DEF Here
<1>4. FetchQuoted
  BY <1>2, <1>3, StepsOf DEF FetchPlain, FetchBlock
<1>5. /\ phase' = "single" /\ index' = index + 1 /\ result' = result
      /\ whitespaces' = whitespaces /\ leading_break' = leading_break
      /\ trailing_breaks' = trailing_breaks /\ leading_blanks' = leading_blanks
  BY <1>3, <1>4 DEF FetchQuoted, Skip, gap
<1>6. Lead(v, 1, n, margin) = 0
  BY <1>1 DEF Lead
<1>7. index' = off[1] + Lead(v, 1, n, margin) /\ 1 \in 1..(n + 1) /\ ~(1 \in 2..n)
  BY <1>1, <1>2, <1>5, <1>6
<1> QED BY <1>2, <1>5, <1>7, BeforeFirst DEF SingleIn, Clean

(* A blank, after a character ...                                                  *)
LEMMA SingleBlank ==
  ASSUME Sound, NEW n, NEW off, NEW margin, SingleAhead(n, off, margin), NEW v, v = value,
         NEW k \in 1..n, SingleIn(v, n, off, margin, k) \/ SingleBlanks(v, n, off, k), v[k] = "space", Next
  PROVE  SingleBlanks(v, n, off, k + 1)'
<1>1. /\ v \in Seq(Characters) /\ n = Len(v) /\ n \in Nat /\ margin \in Nat /\ off[k] \in Nat
      /\ SingleAt(v, k, n, margin, text, off[k], off[k + 1])
      /\ \A i \in 2..n : v[i - 1] \in Break => v[i] # "space"
      /\ k + 1 \in 2..(n + 1) /\ (k + 1) - 1 = k
  BY SingleFacts
<1>2. Lead(v, k, n, margin) = 0
  BY <1>1, LeadIs
<1>3. At(text, off[k]) = "space" /\ off[k + 1] = off[k] + 1
  BY <1>1, <1>2 DEF SingleAt, Break
<1>4. /\ index = off[k]
      /\ leading_blanks = FALSE /\ leading_break = <<>> /\ trailing_breaks = <<>>
      /\ phase \in {"single", "single_gap"}
  BY <1>1, <1>2 DEF SingleIn, SingleBlanks, Clean
<1>5. PICK r, w, x : r = result /\ w = whitespaces /\ x = Append(w, v[k])
  OBVIOUS
<1>6. r \in Seq(Characters) /\ w \in Seq(Characters)
  <2>1. r \in Seq(Characters) /\ w \in Seq(Blank)
    BY <1>4, <1>5 DEF Sound, TypeOK
  <2>2. Blank \subseteq Characters
    BY DEF Characters
  <2>3. w \in Seq(Characters)
    BY ONLY <2>1, <2>2, Wider
  <2> QED BY <2>1, <2>3
<1>7. Spans(r, w, v, k)
  <2>1. CASE SingleIn(v, n, off, margin, k)
    <3>1. r = Before(v, k) /\ w = <<>>
      BY <1>5, <2>1 DEF SingleIn, Clean
    <3>2. r \o w = r
      BY ONLY <1>6, <3>1, NothingWaits
    <3> QED BY ONLY <3>1, <3>2, Zenon DEF Spans
  <2>2. CASE SingleBlanks(v, n, off, k)
    <3>1. result \o whitespaces = Before(v, k)
      BY <2>2 DEF SingleBlanks
    <3> QED BY ONLY <1>5, <3>1, Zenon DEF Spans
  <2> QED BY <2>1, <2>2
<1>8. Here = "space" /\ Here \in Blank /\ Here \notin Break
  BY <1>3, <1>4 DEF Here, Blank, Break
<1>9. ConsumeBlank
  BY <1>4, <1>8, StepsOf DEF QuotedCharacter, QuotedEnd, QuotedResume, ConsumeBreak, Blankz,
     ClosesQuoted, Quote
<1>10. /\ phase' = "single_gap" /\ result' = result /\ whitespaces' = Append(whitespaces, v[k])
       /\ index' = index + 1 /\ column' = column + 1
       /\ leading_break' = leading_break /\ trailing_breaks' = trailing_breaks
       /\ leading_blanks' = leading_blanks
  BY <1>4, <1>8, <1>9, GapOfIs DEF ConsumeBlank, Skip, InGap
<1>11. column' >= 1
  <2>1. column \in Nat
    BY DEF Sound, TypeOK
  <2> QED BY <1>10, <2>1
<1>12. result' \o whitespaces' = Before(v, k + 1)
  <2>1. v \in Seq(Characters) /\ k \in 1..Len(v)
    BY <1>1
  <2>2. Spans(r, x, v, k + 1)
    BY ONLY <1>5, <1>6, <1>7, <2>1, SpansNext
  <2>3. result' = r /\ whitespaces' = x
    BY ONLY <1>5, <1>10, Zenon
  <2> QED BY ONLY <2>2, <2>3, Zenon DEF Spans
<1>13. index' = off[k + 1]
  BY <1>3, <1>4, <1>10
<1> QED BY <1>1, <1>4, <1>10, <1>11, <1>12, <1>13 DEF SingleBlanks

(* ... and the character after the blanks.                                         *)
LEMMA SingleResumes ==
  ASSUME Sound, NEW n, NEW off, NEW margin, SingleAhead(n, off, margin), NEW v, v = value,
         NEW k \in 1..(n + 1), SingleBlanks(v, n, off, k), k \in 1..n => v[k] # "space", Next
  PROVE  SingleIn(v, n, off, margin, k)'
<1>1. /\ v \in Seq(Characters) /\ n = Len(v) /\ n \in Nat /\ margin \in Nat /\ off[k] \in Nat
      /\ k \in 1..n => SingleAt(v, k, n, margin, text, off[k], off[k + 1])
                       /\ v[k] \in Characters \ {"\t", "ctl", "z"}
      /\ \A i \in 2..n : v[i - 1] = "space" => v[i] \notin Break
      /\ At(text, off[n + 1]) = "'"
  BY SingleFacts
<1>2. /\ phase = "single_gap" /\ k \in 2..(n + 1) /\ v[k - 1] = "space" /\ index = off[k] /\ column >= 1
      /\ leading_blanks = FALSE /\ leading_break = <<>> /\ trailing_breaks = <<>>
      /\ result \o whitespaces = Before(v, k)
  BY DEF SingleBlanks
<1>3. Lead(v, k, n, margin) = 0 /\ (k \in 2..n => v[k] \notin Break)
  <2>1. v[k - 1] \notin Break /\ margin \in Nat
    BY <1>1, <1>2 DEF Break
  <2>2. Lead(v, k, n, margin) = 0
    BY ONLY <2>1 DEF Lead
  <2> QED BY <1>1, <1>2, <2>2
<1>4. Here \notin Blankz
  <2>1. CASE k \in 1..n
    <3>1. Here = v[k]
      BY <1>1, <1>2, <1>3, <2>1 DEF SingleAt, Here
    <3> QED BY <1>1, <1>2, <1>3, <2>1, <3>1 DEF Blankz, Blank
  <2>2. CASE k = n + 1
    BY <1>1, <1>2, <2>2 DEF Here, Blankz, Blank, Break
  <2> QED BY <1>1, <2>1, <2>2
<1>5. QuotedResume
  BY <1>2, <1>4, StepsOf DEF ConsumeBlank, ConsumeBreak, Blankz
<1>6. ~DocumentIndicator /\ Here # "z"
  BY <1>2, <1>4 DEF DocumentIndicator, Blankz
<1>7. /\ phase' = "single" /\ result' = result \o Joint /\ index' = index
      /\ whitespaces' = <<>> /\ leading_break' = <<>> /\ trailing_breaks' = <<>> /\ leading_blanks' = FALSE
  BY <1>2, <1>5, <1>6 DEF QuotedResume, Quote, NoGap, mark
<1>8. Joint = whitespaces
  BY <1>2 DEF Joint
<1>9. result' = Before(v, k)
  BY ONLY <1>2, <1>7, <1>8, Zenon
<1>10. index' = off[k] + Lead(v, k, n, margin)
  BY <1>1, <1>2, <1>3, <1>7
<1> QED BY <1>2, <1>3, <1>7, <1>9, <1>10 DEF SingleIn, Clean

(* A character that is neither a blank nor a break; a quote is written twice.      *)
LEMMA SingleCharacter ==
  ASSUME Sound, NEW n, NEW off, NEW margin, SingleAhead(n, off, margin), NEW v, v = value,
         NEW k \in 1..n, SingleIn(v, n, off, margin, k), v[k] # "space", v[k] \notin Break, Next
  PROVE  SingleIn(v, n, off, margin, k + 1)'
<1>1. /\ v \in Seq(Characters) /\ n = Len(v) /\ n \in Nat /\ margin \in Nat /\ off[k] \in Nat
      /\ SingleAt(v, k, n, margin, text, off[k], off[k + 1])
      /\ v[k] \in Characters \ {"\t", "ctl", "z"}
      /\ k + 1 \in 1..(n + 1) /\ (k + 1) - 1 = k
  BY SingleFacts
<1>2. PICK m : m = Lead(v, k, n, margin) /\ m \in Nat
  BY <1>1, LeadIs
<1>3. /\ At(text, off[k] + m) = v[k]
      /\ v[k] # "'" => off[k + 1] = off[k] + m + 1
      /\ v[k] = "'" => At(text, off[k] + m + 1) = "'" /\ off[k + 1] = off[k] + m + 2
  BY <1>1, <1>2 DEF SingleAt
<1>4. /\ phase = "single" /\ index = off[k] + m /\ result = Before(v, k)
      /\ whitespaces = <<>> /\ leading_break = <<>> /\ trailing_breaks = <<>> /\ leading_blanks = FALSE
  BY <1>2 DEF SingleIn, Clean
<1>5. Here = v[k] /\ (v[k] = "'" => There = "'") /\ Quote = "'"
  BY <1>1, <1>2, <1>3, <1>4 DEF Here, There, Quote
<1>6. Here \notin Blankz /\ ~ClosesQuoted
  BY <1>1, <1>5 DEF Blankz, Blank, ClosesQuoted
<1>7. QuotedCharacter
  BY <1>4, <1>6, StepsOf DEF QuotedEnd, ConsumeBlank, ConsumeBreak, Blankz
<1>8. /\ phase' = "single" /\ result' = Append(result, v[k])
      /\ index' = index + (IF v[k] = "'" THEN 2 ELSE 1)
      /\ whitespaces' = whitespaces /\ leading_break' = leading_break
      /\ trailing_breaks' = trailing_breaks /\ leading_blanks' = leading_blanks
  BY <1>4, <1>5, <1>7 DEF QuotedCharacter, Skip, gap
<1>9. Lead(v, k + 1, n, margin) = 0
  BY <1>1, LeadIs
<1>10. index' = off[k + 1] + Lead(v, k + 1, n, margin)
  <2>1. index' = off[k + 1]
    BY <1>1, <1>2, <1>3, <1>4, <1>8
  <2>2. off[k + 1] \in Nat
    BY <1>1, <1>2, <1>3
  <2> QED BY <1>9, <2>1, <2>2
<1>11. result' = Before(v, k + 1)
  <2>1. v \in Seq(Characters) /\ k \in 1..Len(v)
    BY <1>1
  <2>2. Append(Before(v, k), v[k]) = Before(v, k + 1)
    BY ONLY <2>1, BeforeNext
  <2> QED BY ONLY <1>4, <1>8, <2>2, Zenon
<1> QED BY <1>1, <1>4, <1>8, <1>10, <1>11 DEF SingleIn, Clean

(* The closing quote.                                                              *)
LEMMA SingleEnds ==
  ASSUME Sound, NEW n, NEW off, NEW margin, SingleAhead(n, off, margin), NEW v, v = value,
         SingleIn(v, n, off, margin, n + 1), Next
  PROVE  phase' = "read" /\ result' = v
<1>1. /\ v \in Seq(Characters) /\ n = Len(v) /\ n \in Nat /\ margin \in Nat /\ off[n + 1] \in Nat
      /\ At(text, off[n + 1]) = "'" /\ At(text, off[n + 1] + 1) # "'"
  BY SingleFacts
<1>2. Lead(v, n + 1, n, margin) = 0
  BY <1>1 DEF Lead
<1>3. phase = "single" /\ index = off[n + 1] /\ result = Before(v, n + 1)
  BY <1>1, <1>2 DEF SingleIn
<1>4. result = v
  <2>1. v \in Seq(Characters) /\ n = Len(v)
    BY <1>1
  <2>2. Before(v, n + 1) = v
    BY ONLY <2>1, BeforeEnd
  <2> QED BY ONLY <1>3, <2>2, Zenon
<1>5. Here = "'" /\ There # "'" /\ Quote = "'"
  BY <1>1, <1>3 DEF Here, There, Quote
<1>6. ClosesQuoted
  BY <1>5 DEF ClosesQuoted
<1>7. QuotedEnd
  BY <1>3, <1>5, <1>6, StepsOf DEF QuotedCharacter, ConsumeBlank, ConsumeBreak, Blank, Break
<1> QED BY <1>4, <1>5, <1>7 DEF QuotedEnd, Finish

LEMMA FoldedFirst ==
  ASSUME NEW c, c \in Break, c # "\n", NEW l, l = <<c>>, NEW t, t = <<>>
  PROVE  Folded(l, l, t) /\ l # <<"\n">> /\ l \in Seq(Characters)
<1>1. l # <<"\n">> /\ l \in Seq(Break)
  BY DEF Break
<1>2. l \in Seq(Break) /\ t = <<>>
  BY <1>1
<1>3. l \o t = l
  BY ONLY <1>2, NothingMore
<1>4. Break \subseteq Characters /\ l \in Seq(Break)
  BY <1>1 DEF Characters
<1>5. l \in Seq(Characters)
  BY ONLY <1>4, Wider
<1> QED BY <1>1, <1>3, <1>5 DEF Folded

Grows(s, c, u) == u = Append(s, c)

LEMMA FoldedNext ==
  ASSUME NEW l, NEW t, NEW c, l \in Seq(Break), t \in Seq(Break), c \in Break,
         NEW w, Folded(w, l, t), NEW u, Grows(t, c, u), NEW x, Grows(w, c, x)
  PROVE  Folded(x, l, u) /\ u # <<>> /\ w \in Seq(Characters)
<1>1. l \in Seq(Break) /\ t \in Seq(Break) /\ c \in Break /\ <<c>> \in Seq(Break)
  OBVIOUS
<1>2. u \in Seq(Break) /\ u = t \o <<c>> /\ u # <<>>
  <2>1. Append(t, c) \in Seq(Break) /\ Append(t, c) = t \o <<c>> /\ Append(t, c) # <<>>
    BY ONLY <1>1
  <2> QED BY ONLY <2>1, Grows(t, c, u), Zenon DEF Grows
<1>3. w \in Seq(Break)
  <2>1. l \o t \in Seq(Break)
    BY ONLY <1>1
  <2> QED BY <1>1, <2>1 DEF Folded
<1>4. x = w \o <<c>>
  <2>1. Append(w, c) = w \o <<c>>
    BY ONLY <1>1, <1>3
  <2> QED BY ONLY <2>1, Grows(w, c, x), Zenon DEF Grows
<1>5. (l \o t) \o <<c>> = l \o (t \o <<c>>)
  BY ONLY <1>1, Associative
<1>6. Folded(x, l, u)
  <2>1. CASE l = <<"\n">>
    BY <1>2, <1>4, <2>1, Zenon DEF Folded
  <2>2. CASE l # <<"\n">>
    BY <1>2, <1>4, <1>5, <2>2, Zenon DEF Folded
  <2> QED BY <2>1, <2>2
<1>7. w \in Seq(Characters)
  <2>1. Break \subseteq Characters
    BY DEF Characters
  <2> QED BY ONLY <1>3, <2>1, Wider
<1> QED BY <1>2, <1>6, <1>7

(* A break after a character: if it would be folded it is written twice.           *)
LEMMA SingleFirstBreak ==
  ASSUME Sound, NEW n, NEW off, NEW margin, SingleAhead(n, off, margin), NEW v, v = value,
         NEW k \in 1..n, SingleIn(v, n, off, margin, k), v[k] \in Break, Next
  PROVE  SingleTwice(v, n, off, k)' \/ SingleBreaks(v, n, off, margin, k + 1, 0)'
<1>1. /\ v \in Seq(Characters) /\ n = Len(v) /\ n \in Nat /\ margin \in Nat /\ off[k] \in Nat
      /\ SingleAt(v, k, n, margin, text, off[k], off[k + 1])
      /\ k + 1 \in 2..(n + 1) /\ (k + 1) - 1 = k
  BY SingleFacts
<1>2. Lead(v, k, n, margin) = 0 /\ 0 \in 0..Lead(v, k + 1, n, margin)
  <2>1. Lead(v, k + 1, n, margin) \in {0, margin}
    BY <1>1, LeadIs
  <2>2. Lead(v, k, n, margin) = 0
    BY <1>1, LeadIs
  <2> QED BY <1>1, <2>1, <2>2
<1>3. /\ phase = "single" /\ index = off[k] /\ result = Before(v, k)
      /\ whitespaces = <<>> /\ leading_break = <<>> /\ trailing_breaks = <<>> /\ leading_blanks = FALSE
      /\ k \in 2..n => v[k - 1] \notin Break
  BY <1>1, <1>2 DEF SingleIn, Clean
<1>4. /\ At(text, off[k]) = v[k]
      /\ v[k] = "\n" => off[k + 1] = off[k] + 2
      /\ v[k] # "\n" => off[k + 1] = off[k] + 1
  BY <1>1, <1>3 DEF SingleAt
<1>5. Here = v[k] /\ Here \notin Blank /\ Quote = "'" /\ Here # "'" /\ Here # "z"
  BY <1>3, <1>4 DEF Here, Blank, Break, Quote
<1>6. ConsumeBreak
  BY <1>3, <1>5, StepsOf DEF QuotedEnd, QuotedCharacter, ConsumeBlank, Blankz, ClosesQuoted
<1>7. /\ phase' = "single_gap" /\ index' = index + 1 /\ column' = 0 /\ result' = result
      /\ leading_blanks' = TRUE /\ leading_break' = <<v[k]>> /\ whitespaces' = <<>>
      /\ trailing_breaks' = <<>>
  BY <1>3, <1>5, <1>6, GapOfIs DEF ConsumeBreak, SkipLine, InGap
<1>8. CASE v[k] = "\n"
  BY <1>1, <1>3, <1>7, <1>8 DEF SingleTwice
<1>9. CASE v[k] # "\n"
  <2>1. PICK r, l, t, c : r = result' /\ l = leading_break' /\ t = trailing_breaks' /\ c = v[k]
    OBVIOUS
  <2>2. c \in Break /\ c # "\n" /\ l = <<c>> /\ t = <<>>
    BY <1>7, <1>9, <2>1
  <2>3. Folded(l, l, t) /\ l # <<"\n">>
    BY ONLY <2>2, FoldedFirst
  <2>4. Spans(r, l, v, k + 1)
    <3>1. r \in Seq(Characters)
      BY <1>3, <1>7, <2>1 DEF Sound
    <3>2. v \in Seq(Characters) /\ k \in 1..Len(v) /\ c \in Characters
      BY <1>1, <2>2 DEF Characters
    <3>3. Append(Before(v, k), v[k]) = Before(v, k + 1)
      BY ONLY <3>2, BeforeNext
    <3>4. Append(r, c) = r \o <<c>>
      BY ONLY <3>1, <3>2, Appended
    <3>5. r = Before(v, k)
      BY ONLY <1>3, <1>7, <2>1, Zenon
    <3> QED BY ONLY <2>1, <2>2, <3>3, <3>4, <3>5, Zenon DEF Spans
  <2>5. \E w : Folded(w, leading_break', trailing_breaks') /\ Spans(result', w, v, k + 1)
    BY ONLY <2>1, <2>3, <2>4, Zenon
  <2>6. v[(k + 1) - 1] \in Break
    BY <1>1
  <2>7. index' = off[k + 1] + 0 /\ column' = 0 /\ leading_break' # <<"\n">>
    <3>1. index' = off[k + 1] /\ off[k + 1] \in Nat
      BY <1>1, <1>3, <1>4, <1>7, <1>9
    <3> QED BY <1>7, <2>1, <2>3, <3>1
  <2> QED BY <1>1, <1>2, <1>7, <2>5, <2>6, <2>7 DEF SingleBreaks
<1> QED BY <1>8, <1>9

(* The second of two breaks that are one.                                          *)
LEMMA SingleSecondBreak ==
  ASSUME Sound, NEW n, NEW off, NEW margin, SingleAhead(n, off, margin), NEW v, v = value,
         NEW k \in 1..n, SingleTwice(v, n, off, k), Next
  PROVE  SingleBreaks(v, n, off, margin, k + 1, 0)'
<1>1. /\ v \in Seq(Characters) /\ n = Len(v) /\ n \in Nat /\ margin \in Nat /\ off[k] \in Nat
      /\ SingleAt(v, k, n, margin, text, off[k], off[k + 1])
      /\ k + 1 \in 2..(n + 1) /\ (k + 1) - 1 = k
  BY SingleFacts
<1>2. 0 \in 0..Lead(v, k + 1, n, margin)
  <2>1. Lead(v, k + 1, n, margin) \in {0, margin}
    BY <1>1, LeadIs
  <2> QED BY <1>1, <2>1
<1>3. /\ phase = "single_gap" /\ v[k] = "\n" /\ (k \in 2..n => v[k - 1] \notin Break)
      /\ index = off[k] + 1 /\ column = 0
      /\ leading_blanks = TRUE /\ leading_break = <<"\n">> /\ trailing_breaks = <<>> /\ whitespaces = <<>>
      /\ result = Before(v, k)
  BY DEF SingleTwice
<1>4. At(text, off[k] + 1) = "\n" /\ off[k + 1] = off[k] + 2
  BY <1>1, <1>3 DEF SingleAt
<1>5. Here = "\n"
  BY <1>3, <1>4 DEF Here
<1>6. ConsumeBreak
  BY <1>3, <1>5, StepsOf DEF QuotedResume, ConsumeBlank, Blank, Break
<1>7. /\ phase' = "single_gap" /\ index' = index + 1 /\ column' = 0 /\ result' = result
      /\ leading_blanks' = TRUE /\ leading_break' = leading_break /\ whitespaces' = whitespaces
      /\ trailing_breaks' = Append(trailing_breaks, Here)
  BY <1>3, <1>5, <1>6, GapOfIs DEF ConsumeBreak, SkipLine, InGap
<1>8. PICK r, l, t, u, c : r = result' /\ l = leading_break' /\ t = trailing_breaks
                           /\ u = trailing_breaks' /\ c = v[k]
  OBVIOUS
<1>9. l = <<"\n">> /\ t = <<>> /\ u = Append(t, c) /\ c \in Break
  BY <1>3, <1>5, <1>7, <1>8 DEF Break
<1>10. Folded(u, l, u) /\ u # <<>> /\ u = <<c>>
  <2>1. t = <<>> /\ u = Append(t, c)
    BY <1>9
  <2>2. u = <<c>> /\ u # <<>>
    BY ONLY <2>1
  <2> QED BY <1>9, <2>2 DEF Folded
<1>11. Spans(r, u, v, k + 1)
  <2>1. r \in Seq(Characters)
    BY <1>3, <1>7, <1>8 DEF Sound
  <2>2. v \in Seq(Characters) /\ k \in 1..Len(v) /\ c \in Characters
    BY <1>1, <1>9 DEF Characters
  <2>3. Append(Before(v, k), v[k]) = Before(v, k + 1)
    BY ONLY <2>2, BeforeNext
  <2>4. Append(r, c) = r \o <<c>>
    BY ONLY <2>1, <2>2, Appended
  <2>5. r = Before(v, k)
    BY ONLY <1>3, <1>7, <1>8, Zenon
  <2> QED BY ONLY <1>8, <1>10, <2>3, <2>4, <2>5, Zenon DEF Spans
<1>12. \E w : Folded(w, leading_break', trailing_breaks') /\ Spans(result', w, v, k + 1)
  BY ONLY <1>8, <1>10, <1>11, Zenon
<1>13. v[(k + 1) - 1] \in Break
  BY <1>1, <1>3 DEF Break
<1>14. index' = off[k + 1] + 0 /\ column' = 0 /\ trailing_breaks' # <<>>
  BY <1>1, <1>3, <1>4, <1>7, <1>8, <1>10
<1> QED BY <1>1, <1>2, <1>3, <1>7, <1>12, <1>13, <1>14 DEF SingleBreaks

(* A break after another is written once, and kept.                                *)
LEMMA SingleMoreBreak ==
  ASSUME Sound, NEW n, NEW off, NEW margin, SingleAhead(n, off, margin), NEW v, v = value,
         NEW k \in 1..n, SingleBreaks(v, n, off, margin, k, 0), v[k] \in Break, Next
  PROVE  SingleBreaks(v, n, off, margin, k + 1, 0)'
<1>1. /\ v \in Seq(Characters) /\ n = Len(v) /\ n \in Nat /\ margin \in Nat /\ off[k] \in Nat
      /\ SingleAt(v, k, n, margin, text, off[k], off[k + 1])
      /\ k + 1 \in 2..(n + 1) /\ (k + 1) - 1 = k
  BY SingleFacts
<1>2. 0 \in 0..Lead(v, k + 1, n, margin)
  <2>1. Lead(v, k + 1, n, margin) \in {0, margin}
    BY <1>1, LeadIs
  <2> QED BY <1>1, <2>1
<1>3. /\ phase = "single_gap" /\ k \in 2..(n + 1) /\ v[k - 1] \in Break
      /\ index = off[k] + 0 /\ column = 0
      /\ leading_blanks = TRUE /\ whitespaces = <<>>
  BY DEF SingleBreaks
<1>4. PICK w : Folded(w, leading_break, trailing_breaks) /\ Spans(result, w, v, k)
  BY DEF SingleBreaks
<1>5. At(text, off[k]) = v[k] /\ off[k + 1] = off[k] + 1 /\ index = off[k]
  BY <1>1, <1>3 DEF SingleAt
<1>6. Here = v[k]
  BY <1>5 DEF Here
<1>7. ConsumeBreak
  BY <1>3, <1>6, StepsOf DEF QuotedResume, ConsumeBlank, Blank, Break
<1>8. /\ phase' = "single_gap" /\ index' = index + 1 /\ column' = 0 /\ result' = result
      /\ leading_blanks' = TRUE /\ leading_break' = leading_break /\ whitespaces' = whitespaces
      /\ trailing_breaks' = Append(trailing_breaks, Here)
  BY <1>3, <1>6, <1>7, GapOfIs DEF ConsumeBreak, SkipLine, InGap
<1>9. PICK r, l, t, u, c, x : r = result /\ l = leading_break /\ t = trailing_breaks
                              /\ u = trailing_breaks' /\ c = v[k] /\ x = Append(w, c)
  OBVIOUS
<1>10. l \in Seq(Break) /\ t \in Seq(Break) /\ u = Append(t, c) /\ c \in Break /\ Folded(w, l, t)
  BY <1>4, <1>6, <1>8, <1>9 DEF Sound, TypeOK
<1>11. x = Append(w, c)
  BY <1>9
<1>12. Folded(x, l, u) /\ u # <<>> /\ w \in Seq(Characters)
  <2>1. Grows(t, c, u) /\ Grows(w, c, x) /\ l \in Seq(Break) /\ t \in Seq(Break) /\ c \in Break /\ Folded(w, l, t)
    BY <1>10, <1>11, Zenon DEF Grows
  <2> QED BY ONLY <2>1, FoldedNext, Zenon
<1>13. r \in Seq(Characters) /\ v \in Seq(Characters) /\ k \in 1..Len(v)
  BY <1>1, <1>3, <1>9 DEF Sound
<1>14. Spans(r, w, v, k) /\ x = Append(w, v[k])
  BY ONLY <1>4, <1>9, Zenon
<1>15. Spans(r, x, v, k + 1)
  BY ONLY <1>12, <1>13, <1>14, SpansNext
<1>16. \E y : Folded(y, leading_break', trailing_breaks') /\ Spans(result', y, v, k + 1)
  BY ONLY <1>8, <1>9, <1>12, <1>15, Zenon
<1>17. v[(k + 1) - 1] \in Break
  BY <1>1
<1>18. index' = off[k + 1] + 0 /\ column' = 0 /\ trailing_breaks' # <<>>
  BY <1>1, <1>5, <1>8, <1>9, <1>12
<1> QED BY <1>1, <1>2, <1>3, <1>8, <1>16, <1>17, <1>18 DEF SingleBreaks

(* The indentation of the line ...                                                 *)
LEMMA SingleIndentation ==
  ASSUME Sound, NEW n, NEW off, NEW margin, SingleAhead(n, off, margin), NEW v, v = value,
         NEW k \in 1..n, NEW j \in Nat, SingleBreaks(v, n, off, margin, k, j), j < Lead(v, k, n, margin), Next
  PROVE  SingleBreaks(v, n, off, margin, k, j + 1)'
<1>1. /\ n \in Nat /\ margin \in Nat /\ off[k] \in Nat
      /\ SingleAt(v, k, n, margin, text, off[k], off[k + 1])
  BY SingleFacts
<1>2. PICK m : m = Lead(v, k, n, margin)
  OBVIOUS
<1>3. m \in Nat /\ m # 0 /\ v[k] \notin Break
  <2>1. Lead(v, k, n, margin) \in {0, margin} /\ (v[k] \in Break => Lead(v, k, n, margin) = 0)
    BY <1>1, LeadIs
  <2> QED BY <1>1, <1>2, <2>1
<1>4. /\ phase = "single_gap" /\ index = off[k] + j /\ column = j
      /\ leading_blanks = TRUE /\ whitespaces = <<>>
  BY DEF SingleBreaks
<1>5. At(text, off[k] + j) = "space"
  <2>1. j \in 0..(m - 1)
    BY <1>2, <1>3
  <2> QED BY <1>1, <1>2, <1>3, <2>1 DEF SingleAt
<1>6. Here = "space"
  BY <1>4, <1>5 DEF Here
<1>7. ConsumeBlank
  BY <1>4, <1>6, StepsOf DEF QuotedResume, ConsumeBreak, Blank, Break
<1>8. /\ phase' = "single_gap" /\ index' = index + 1 /\ column' = column + 1 /\ result' = result
      /\ leading_blanks' = TRUE /\ leading_break' = leading_break /\ whitespaces' = whitespaces
      /\ trailing_breaks' = trailing_breaks
  BY <1>4, <1>6, <1>7, GapOfIs DEF ConsumeBlank, Skip, InGap
<1>9. j + 1 \in 0..m /\ index' = off[k] + (j + 1) /\ column' = j + 1
  <2>1. m \in Nat /\ j \in Nat /\ j < m /\ off[k] \in Nat
    BY <1>1, <1>2, <1>3
  <2> QED BY ONLY <1>4, <1>8, <2>1
<1>10. SingleBreaks(v, n, off, margin, k, j)
  OBVIOUS
<1>11. /\ k \in 2..(n + 1) /\ v[k - 1] \in Break
       /\ leading_break' = <<"\n">> => trailing_breaks' # <<>>
       /\ \E w : Folded(w, leading_break', trailing_breaks') /\ Spans(result', w, v, k)
  BY ONLY <1>8, <1>10 DEF SingleBreaks
<1>12. whitespaces' = <<>>
  BY ONLY <1>4, <1>8
<1> QED BY ONLY <1>2, <1>8, <1>9, <1>11, <1>12 DEF SingleBreaks

(* ... and the character after it.                                                 *)
LEMMA SingleLine ==
  ASSUME Sound, NEW n, NEW off, NEW margin, SingleAhead(n, off, margin), NEW v, v = value,
         NEW k \in 1..(n + 1), SingleBreaks(v, n, off, margin, k, Lead(v, k, n, margin)),
         k \in 1..n => v[k] \notin Break, Next
  PROVE  SingleIn(v, n, off, margin, k)'
<1>1. /\ n \in Nat /\ margin \in Nat \ {0} /\ off[k] \in Nat
      /\ k \in 1..n => SingleAt(v, k, n, margin, text, off[k], off[k + 1])
                       /\ v[k] \in Characters \ {"\t", "ctl", "z"}
      /\ \A i \in 2..n : v[i - 1] \in Break => v[i] # "space"
      /\ At(text, off[n + 1]) = "'"
  BY SingleFacts
<1>2. PICK m : m = Lead(v, k, n, margin)
  OBVIOUS
<1>3. /\ phase = "single_gap" /\ k \in 2..(n + 1) /\ v[k - 1] \in Break
      /\ index = off[k] + m /\ column = m
      /\ leading_blanks = TRUE /\ whitespaces = <<>>
      /\ leading_break = <<"\n">> => trailing_breaks # <<>>
  BY <1>2 DEF SingleBreaks
<1>4. PICK w : Folded(w, leading_break, trailing_breaks) /\ Spans(result, w, v, k)
  BY DEF SingleBreaks
<1>5. /\ Here \notin Blankz
      /\ column # 0 \/ Here = "'"
  <2>1. CASE k \in 1..n
    <3>1. m = margin
      BY <1>1, <1>2, <1>3, <2>1, LeadIs
    <3>2. Here = v[k]
      BY <1>1, <1>2, <1>3, <2>1 DEF SingleAt, Here
    <3> QED BY <1>1, <1>3, <2>1, <3>1, <3>2 DEF Blankz, Blank
  <2>2. CASE k = n + 1
    <3>1. m = 0
      BY <1>1, <1>2, <2>2 DEF Lead
    <3>2. Here = "'"
      BY <1>1, <1>3, <2>2, <3>1 DEF Here
    <3> QED BY <3>2 DEF Blankz, Blank, Break
  <2> QED BY <1>1, <2>1, <2>2
<1>6. QuotedResume
  BY <1>3, <1>5, StepsOf DEF ConsumeBlank, ConsumeBreak, Blankz
<1>7. ~DocumentIndicator /\ Here # "z"
  BY <1>5 DEF DocumentIndicator, Blankz
<1>8. /\ phase' = "single" /\ result' = result \o Joint /\ index' = index
      /\ whitespaces' = <<>> /\ leading_break' = <<>> /\ trailing_breaks' = <<>> /\ leading_blanks' = FALSE
  BY <1>3, <1>6, <1>7 DEF QuotedResume, Quote, NoGap, mark
<1>9. Joint = w
  BY <1>3, <1>4 DEF Joint, Folded
<1>10. result' = Before(v, k)
  BY ONLY <1>4, <1>8, <1>9, Zenon DEF Spans
<1> QED BY <1>1, <1>2, <1>3, <1>8, <1>10 DEF SingleIn, Clean

SingleReading(v, n, off, margin, k) ==
    \/ SingleIn(v, n, off, margin, k)
    \/ SingleBlanks(v, n, off, k)
    \/ SingleTwice(v, n, off, k)
    \/ \E j \in Nat : SingleBreaks(v, n, off, margin, k, j)

SingleReads ==
    \E n, off, margin, v :
        /\ v = value /\ n = Len(value) /\ SingleAhead(n, off, margin)
        /\ \E k \in 1..(n + 1) : SingleReading(v, n, off, margin, k)

LEMMA SingleAheadNext ==
  ASSUME NEW n, NEW off, NEW margin, SingleAhead(n, off, margin), UNCHANGED input, UNCHANGED output
  PROVE  SingleAhead(n, off, margin)'
  BY DEF SingleAhead, input, output, Where

(* From each state to the next.                                                    *)
LEMMA SingleGoesOn ==
  ASSUME Sound, NEW n, NEW off, NEW margin, SingleAhead(n, off, margin), NEW v, v = value,
         NEW k \in 1..(n + 1), SingleReading(v, n, off, margin, k), Next
  PROVE  (phase' = "read" /\ result' = v) \/ \E i \in 1..(n + 1) : SingleReading(v, n, off, margin, i)'
<1>1. /\ n \in Nat /\ margin \in Nat /\ (k \in 1..n => k + 1 \in 1..(n + 1))
      /\ \A i \in 2..n : v[i - 1] = "space" => v[i] \notin Break
  BY SingleFacts
<1>2. CASE SingleIn(v, n, off, margin, k)
  <2>1. CASE k \in 1..n /\ v[k] = "space"
    <3>1. SingleBlanks(v, n, off, k + 1)'
      BY <1>2, <2>1, SingleBlank
    <3> QED BY <1>1, <2>1, <3>1 DEF SingleReading
  <2>2. CASE k \in 1..n /\ v[k] \in Break
    <3>1. SingleTwice(v, n, off, k)' \/ SingleBreaks(v, n, off, margin, k + 1, 0)'
      BY <1>2, <2>2, SingleFirstBreak
    <3> QED BY <1>1, <2>2, <3>1 DEF SingleReading
  <2>3. CASE k \in 1..n /\ v[k] # "space" /\ v[k] \notin Break
    <3>1. SingleIn(v, n, off, margin, k + 1)'
      BY <1>2, <2>3, SingleCharacter
    <3> QED BY <1>1, <2>3, <3>1 DEF SingleReading
  <2>4. CASE k = n + 1
    BY <1>2, <2>4, SingleEnds
  <2> QED BY <1>1, <2>1, <2>2, <2>3, <2>4
<1>3. CASE SingleBlanks(v, n, off, k)
  <2>1. CASE k \in 1..n /\ v[k] = "space"
    <3>1. SingleBlanks(v, n, off, k + 1)'
      BY <1>3, <2>1, SingleBlank
    <3> QED BY <1>1, <2>1, <3>1 DEF SingleReading
  <2>2. CASE k \in 1..n => v[k] # "space"
    <3>1. SingleIn(v, n, off, margin, k)'
      BY <1>3, <2>2, SingleResumes
    <3> QED BY <3>1 DEF SingleReading
  <2> QED BY <2>1, <2>2
<1>4. CASE SingleTwice(v, n, off, k)
  <2>1. k \in 1..n
    BY <1>4 DEF SingleTwice
  <2>2. SingleBreaks(v, n, off, margin, k + 1, 0)'
    BY <1>4, <2>1, SingleSecondBreak
  <2> QED BY <1>1, <2>1, <2>2 DEF SingleReading
<1>5. CASE \E j \in Nat : SingleBreaks(v, n, off, margin, k, j)
  <2>1. PICK j \in Nat : SingleBreaks(v, n, off, margin, k, j)
    BY <1>5
  <2>2. PICK m : m = Lead(v, k, n, margin)
    OBVIOUS
  <2>3. j \in 0..m /\ m \in Nat
    <3>1. m \in {0, margin}
      BY <1>1, <2>2, LeadIs
    <3> QED BY <1>1, <2>1, <2>2, <3>1 DEF SingleBreaks
  <2>4. CASE j < m
    <3>1. k \in 1..n
      BY <1>1, <2>2, <2>3, <2>4, LeadIs
    <3>2. SingleBreaks(v, n, off, margin, k, j + 1)'
      BY <2>1, <2>2, <2>4, <3>1, SingleIndentation
    <3>3. j + 1 \in Nat
      OBVIOUS
    <3> QED BY <3>2, <3>3 DEF SingleReading
  <2>5. CASE j = m /\ k \in 1..n /\ v[k] \in Break
    <3>1. j = 0
      BY <1>1, <2>2, <2>5, LeadIs
    <3>2. SingleBreaks(v, n, off, margin, k + 1, 0)'
      BY <2>1, <2>5, <3>1, SingleMoreBreak
    <3> QED BY <1>1, <2>5, <3>2 DEF SingleReading
  <2>6. CASE j = m /\ (k \in 1..n => v[k] \notin Break)
    <3>1. SingleIn(v, n, off, margin, k)'
      BY <2>1, <2>2, <2>6, SingleLine
    <3> QED BY <3>1 DEF SingleReading
  <2> QED BY <2>3, <2>4, <2>5, <2>6
<1> QED BY <1>2, <1>3, <1>4, <1>5 DEF SingleReading

(* Every step of a single-quoted scalar.                                           *)
LEMMA SingleStep ==
  ASSUME Sound, chosen = "single", Started \/ SingleReads, Next, phase \notin {"asked", "read"}
  PROVE  (phase' = "read" /\ result' = value) \/ SingleReads'
<1>1. UNCHANGED input /\ UNCHANGED output
  BY Keeps
<1>2. ASSUME NEW n, NEW off, NEW margin, NEW v, v = value, n = Len(value), SingleAhead(n, off, margin),
             \E k \in 1..(n + 1) : SingleReading(v, n, off, margin, k)'
      PROVE  SingleReads'
  <2>1. SingleAhead(n, off, margin)'
    BY <1>1, <1>2, SingleAheadNext
  <2>2. v = value' /\ n = Len(value')
    BY <1>1, <1>2 DEF input
  <2> QED BY <1>2, <2>1, <2>2 DEF SingleReads
<1>3. CASE Started
  <2>1. PICK n, off, margin : SingleAhead(n, off, margin)
    BY SingleIsAhead
  <2>2. PICK v : v = value /\ n = Len(value) /\ n \in Nat /\ 1 \in 1..(n + 1)
    BY <2>1 DEF SingleAhead
  <2>3. SingleIn(v, n, off, margin, 1)'
    BY <1>3, <2>1, <2>2, SingleStarts
  <2> QED BY <1>2, <2>1, <2>2, <2>3 DEF SingleReading
<1>4. CASE SingleReads
  <2>1. PICK n, off, margin, v : v = value /\ n = Len(value) /\ SingleAhead(n, off, margin)
                         /\ \E k \in 1..(n + 1) : SingleReading(v, n, off, margin, k)
    BY <1>4 DEF SingleReads
  <2>2. (phase' = "read" /\ result' = v) \/ \E i \in 1..(n + 1) : SingleReading(v, n, off, margin, i)'
    BY <2>1, SingleGoesOn
  <2> QED BY <1>2, <2>1, <2>2
<1> QED BY <1>3, <1>4

-----------------------------------------------------------------------------
(* Block scalars: what is written.                                                 *)
(* The indentation before character k, if a line of a block scalar begins there.   *)
BlockLead(v, k, n, margin) ==
    IF k \in 1..n /\ v[k] \notin Break /\ (k = 1 \/ v[k - 1] \in Break) THEN margin ELSE 0

Again(v, k, style) == style = "folded" /\ Twice(v, k)

(* How character k stands in a block scalar, from p to before q.                   *)
BlockAt(v, k, n, margin, style, t, p, q) ==
    /\ v[k] \in Break /\ Again(v, k, style) => q = p + 2 /\ At(t, p) = "\n" /\ At(t, p + 1) = v[k]
    /\ v[k] \in Break /\ ~Again(v, k, style) => q = p + 1 /\ At(t, p) = v[k]
    /\ v[k] \notin Break =>
          /\ \A j \in 0..(BlockLead(v, k, n, margin) - 1) : At(t, p + j) = "space"
          /\ At(t, p + BlockLead(v, k, n, margin)) = v[k]
          /\ q = p + BlockLead(v, k, n, margin) + 1

Begun(e, k, m, margin, c) ==
    \/ k = 1 /\ m = margin /\ e = (<<"\n">> \o Spaces(margin)) \o <<c>>
    \/ k # 1 /\ m = margin /\ e = Spaces(margin) \o <<c>>
    \/ k # 1 /\ m = 0 /\ e = <<c>>

LEMMA OfLine ==
  ASSUME NEW v, NEW n \in Nat, NEW k \in 1..n, NEW style \in Blocks, NEW margin \in Nat,
         v[1] \notin Break,
         NEW e, e = Piece(v, style, margin, k), NEW c, c = v[k], NEW m, m = BlockLead(v, k, n, margin),
         c \notin Break
  PROVE  Begun(e, k, m, margin, c)
<1>1. e = LineStart(v, k, margin) \o <<c>>
  BY DEF Piece, Blocks
<1>2. CASE k = 1
  BY <1>1, <1>2 DEF LineStart, BlockLead, Begun
<1>3. CASE k # 1 /\ v[k - 1] \in Break
  BY <1>1, <1>3 DEF LineStart, BlockLead, Begun
<1>4. CASE k # 1 /\ v[k - 1] \notin Break
  <2>1. PICK a : a = LineStart(v, k, margin)
    OBVIOUS
  <2>2. a = <<>>
    BY <1>4, <2>1 DEF LineStart
  <2>3. a \o <<c>> = <<c>>
    BY ONLY <2>2
  <2> QED BY <1>1, <1>4, <2>1, <2>3 DEF BlockLead, Begun
<1> QED BY <1>2, <1>3, <1>4

(* The piece of a character stands in the text.                                    *)
LEMMA BlockStands ==
  ASSUME NEW v, NEW n \in Nat, NEW k \in 1..n, NEW style \in Blocks, NEW margin \in Nat,
         v[1] \notin Break, NEW t, NEW p \in Nat,
         NEW e, e = Piece(v, style, margin, k), NEW o, o = (IF k = 1 THEN p - 1 ELSE p), o \in Nat,
         NEW q, q = o + Len(e), LiesAt(t, o, e)
  PROVE  BlockAt(v, k, n, margin, style, t, p, q)
<1>1. PICK c, m : c = v[k] /\ m = BlockLead(v, k, n, margin)
  OBVIOUS
<1>2. CASE c \in Break /\ Again(v, k, style)
  <2>1. e = <<"\n", c>> /\ o = p
    BY <1>1, <1>2 DEF Piece, Again, Blocks
  <2>2. Len(e) = 2 /\ e[1] = "\n" /\ e[2] = c
    BY ONLY <2>1
  <2>3. At(t, o + 0) = e[0 + 1] /\ At(t, o + 1) = e[1 + 1]
    <3>1. 0 \in Nat /\ 0 + 1 \in 1..Len(e) /\ o \in Nat /\ LiesAt(t, o, e)
      BY <2>2
    <3>2. 1 \in Nat /\ 1 + 1 \in 1..Len(e) /\ o \in Nat /\ LiesAt(t, o, e)
      BY <2>2
    <3>3. At(t, o + 0) = e[0 + 1]
      BY ONLY <3>1, Lies
    <3>4. At(t, o + 1) = e[1 + 1]
      BY ONLY <3>2, Lies
    <3> QED BY <3>3, <3>4
  <2>4. q = p + 2 /\ At(t, p) = "\n" /\ At(t, p + 1) = c
    BY <2>1, <2>2, <2>3
  <2> QED BY <1>1, <1>2, <2>4 DEF BlockAt
<1>3. CASE c \in Break /\ ~Again(v, k, style)
  <2>1. e = <<c>> /\ o = p
    BY <1>1, <1>3 DEF Piece, Again, Blocks
  <2>2. Len(e) = 1 /\ e[1] = c
    BY ONLY <2>1
  <2>3. At(t, o + 0) = e[0 + 1]
    <3>1. 0 \in Nat /\ 0 + 1 \in 1..Len(e) /\ o \in Nat /\ LiesAt(t, o, e)
      BY <2>2
    <3> QED BY ONLY <3>1, Lies
  <2>4. q = p + 1 /\ At(t, p) = c
    BY <2>1, <2>2, <2>3
  <2> QED BY <1>1, <1>3, <2>4 DEF BlockAt
<1>4. CASE c \notin Break
  <2>0. m \in Nat /\ o \in Nat /\ p \in Nat
    <3>1. m \in {0, margin}
      BY <1>1 DEF BlockLead
    <3> QED BY <3>1
  <2>1. \/ k = 1 /\ m = margin /\ e = (<<"\n">> \o Spaces(margin)) \o <<c>>
        \/ k # 1 /\ m = margin /\ e = Spaces(margin) \o <<c>>
        \/ k # 1 /\ m = 0 /\ e = <<c>>
    <3>1. Begun(e, k, m, margin, c)
      BY <1>1, <1>4, OfLine
    <3> QED BY ONLY <3>1, Zenon DEF Begun
  <2>2. PICK a : a = (IF k = 1 THEN 1 ELSE 0) /\ a \in Nat /\ o + a = p
    <3>1. (k = 1 => o + 1 = p) /\ (k # 1 => o + 0 = p) /\ 1 \in Nat /\ 0 \in Nat
      BY <2>0
    <3> QED BY ONLY <3>1
  <2>3. Len(e) = a + m + 1 /\ (\A j \in 1..m : e[a + j] = "space") /\ e[a + m + 1] = c
    <3>1. CASE k = 1
      <4>0. margin \in Nat
        OBVIOUS
      <4>1. FirstLine(e, margin, c)
        BY ONLY <2>1, <3>1, Zenon DEF FirstLine
      <4>2. Len(e) = margin + 2 /\ (\A j \in 1..margin : e[j + 1] = "space") /\ e[margin + 2] = c
        <5>1. Len(e) = margin + 2 /\ e[margin + 2] = c
          BY ONLY <4>0, <4>1, LineStartBefore
        <5>2. SpacesFrom(e, 1, margin)
          BY ONLY <4>0, <4>1, LineStartBefore
        <5> QED BY <5>1, <5>2 DEF SpacesFrom
      <4>3. a = 1 /\ m = margin /\ margin \in Nat
        BY <2>1, <2>2, <3>1
      <4>4. a + m + 1 = margin + 2 /\ \A j \in 1..margin : a + j = j + 1
        BY ONLY <4>3
      <4> QED BY ONLY <4>2, <4>3, <4>4
    <3>2. CASE k # 1 /\ m = margin /\ e = Spaces(margin) \o <<c>>
      <4>1. margin \in Nat /\ e = Spaces(margin) \o <<c>>
        BY <3>2
      <4>2. Len(e) = margin + 1 /\ (\A j \in 1..margin : e[j] = "space") /\ e[margin + 1] = c
        BY ONLY <4>1, SpacesBefore
      <4>3. a = 0 /\ m = margin /\ margin \in Nat
        BY <2>2, <3>2
      <4>4. a + m + 1 = margin + 1 /\ \A j \in 1..margin : a + j = j
        BY ONLY <4>3
      <4> QED BY ONLY <4>2, <4>3, <4>4
    <3>3. CASE k # 1 /\ m = 0 /\ e = <<c>>
      <4>1. e = <<c>> /\ a = 0 /\ m = 0
        BY <2>2, <3>3
      <4> QED BY ONLY <4>1
    <3> QED BY <2>1, <3>1, <3>2, <3>3
  <2>4. ASSUME NEW i \in Nat, i <= m PROVE At(t, p + i) = e[a + i + 1]
    <3>1. /\ a + i \in Nat /\ (a + i) + 1 \in 1..Len(e) /\ o + (a + i) = p + i /\ (a + i) + 1 = a + i + 1
          /\ o \in Nat /\ LiesAt(t, o, e)
      <4>1. a \in Nat /\ i \in Nat /\ m \in Nat /\ i <= m /\ o \in Nat /\ o + a = p /\ Len(e) = a + m + 1
        BY <2>0, <2>2, <2>3, <2>4
      <4>2. a + i \in Nat /\ (a + i) + 1 \in 1..(a + m + 1) /\ o + (a + i) = p + i /\ (a + i) + 1 = a + i + 1
        BY ONLY <4>1
      <4> QED BY <4>1, <4>2
    <3>2. PICK h : h = a + i
      OBVIOUS
    <3>3. o \in Nat /\ LiesAt(t, o, e) /\ h \in Nat /\ h + 1 \in 1..Len(e)
      BY ONLY <3>1, <3>2
    <3>4. At(t, o + h) = e[h + 1]
      BY ONLY <3>3, Lies
    <3> QED BY ONLY <3>1, <3>2, <3>4
  <2>5. \A j \in 0..(m - 1) : At(t, p + j) = "space"
    <3>1. ASSUME NEW j \in 0..(m - 1) PROVE At(t, p + j) = "space"
      <4>1. j \in Nat /\ j <= m /\ j + 1 \in 1..m /\ a + (j + 1) = a + j + 1
        BY <2>0, <2>2
      <4> QED BY <2>3, <2>4, <4>1
    <3> QED BY <3>1
  <2>6. At(t, p + m) = c
    BY <2>0, <2>3, <2>4
  <2>7. q = p + m + 1
    <3>1. Len(e) = a + m + 1 /\ q = o + Len(e) /\ o + a = p /\ a \in Nat /\ m \in Nat /\ o \in Nat
      BY <2>0, <2>2, <2>3
    <3> QED BY ONLY <3>1
  <2> QED BY <1>1, <1>4, <2>5, <2>6, <2>7 DEF BlockAt
<1> QED BY <1>1, <1>2, <1>3, <1>4

(* The line after the indicator: what it ends with and its hints.                  *)
Header(t, p, h, d, s) ==
    /\ At(t, h) = "\n"
    /\ d = "none" /\ s = "none" => h = p + 1
    /\ d = "none" /\ s # "none" => h = p + 2 /\ At(t, p + 1) = s
    /\ d # "none" /\ s = "none" => h = p + 2 /\ At(t, p + 1) = d
    /\ d # "none" /\ s # "none" => h = p + 3 /\ At(t, p + 1) = d /\ At(t, p + 2) = s

DigitOf(v, best) == IF v[1] = "space" THEN Digits[best] ELSE "none"

SignOf(v, n) == IF v[n] \notin Break THEN "-" ELSE IF v[n - 1] \in Break THEN "+" ELSE "none"

(* The indicator and its hints.                                                    *)
LEMMA BlockOpens ==
  ASSUME NEW v, NEW n, n = Len(v), v \in Seq(Characters), n # 0, v[1] \notin Break,
         NEW style \in Blocks, NEW best \in 2..9, NEW o, o = Opening(v, style, best),
         NEW d, d = DigitOf(v, best), NEW s, s = SignOf(v, n)
  PROVE  /\ o[1] = (IF style = "folded" THEN ">" ELSE "|")
         /\ d = "none" /\ s = "none" => Len(o) = 1
         /\ d = "none" /\ s # "none" => Len(o) = 2 /\ o[2] = s
         /\ d # "none" /\ s = "none" => Len(o) = 2 /\ o[2] = d
         /\ d # "none" /\ s # "none" => Len(o) = 3 /\ o[2] = d /\ o[3] = s
<1>1. n \in Nat /\ n >= 1 /\ DOMAIN v = 1..n
  <2>1. v \in Seq(Characters) /\ n = Len(v) /\ n # 0
    OBVIOUS
  <2> QED BY ONLY <2>1
<1>2. At(v, n - 1) \in Break \cup {"z"} <=> n = 1 \/ v[n - 1] \in Break
  <2>1. CASE n = 1
    BY <1>1, <2>1 DEF At
  <2>2. CASE n # 1
    <3>1. n - 1 \in 1..n
      BY <1>1, <2>2
    <3>2. v[n - 1] # "z"
      <4>1. v \in Seq(Characters) /\ n - 1 \in 1..Len(v)
        BY <3>1
      <4>2. v[n - 1] \in Characters
        BY ONLY <4>1
      <4> QED BY <4>2, Known
    <3> QED BY <1>1, <2>2, <3>1, <3>2 DEF At
  <2> QED BY <2>1, <2>2
<1>3. PICK i : i = (IF style = "folded" THEN ">" ELSE "|")
  OBVIOUS
<1>4. PICK x, y : /\ x = (IF v[1] = "space" THEN <<Digits[best]>> ELSE <<>>)
                  /\ y = (IF s = "none" THEN <<>> ELSE <<s>>)
  OBVIOUS
<1>5. Hints(v, best) = x \o y
  <2>1. Last(v) = v[n]
    BY DEF Last
  <2>2. n = 1 => v[n] \notin Break
    OBVIOUS
  <2>3. y = (IF v[n] \notin Break THEN <<"-">>
             ELSE IF At(v, n - 1) \in Break \cup {"z"} THEN <<"+">> ELSE <<>>)
    BY <1>2, <1>4, <2>2 DEF SignOf
  <2>4. x = (IF v[1] \in {"space"} \cup Break THEN <<Digits[best]>> ELSE <<>>)
    BY <1>4
  <2> QED BY <2>1, <2>3, <2>4 DEF Hints
<1>6. o = <<i>> \o (x \o y)
  BY <1>3, <1>5 DEF Opening, Blocks
<1>7. Digits[best] # "none"
  BY DEF Digits
<1>8. /\ d = "none" => x = <<>>
      /\ d # "none" => x = <<d>>
      /\ s = "none" => y = <<>>
      /\ s # "none" => y = <<s>>
  BY <1>4, <1>7 DEF DigitOf
<1>9. ASSUME x = <<>>, y = <<>> PROVE Len(o) = 1 /\ o[1] = i
  BY ONLY <1>6, <1>9
<1>10. ASSUME x = <<>>, y = <<s>> PROVE Len(o) = 2 /\ o[1] = i /\ o[2] = s
  BY ONLY <1>6, <1>10
<1>11. ASSUME x = <<d>>, y = <<>> PROVE Len(o) = 2 /\ o[1] = i /\ o[2] = d
  BY ONLY <1>6, <1>11
<1>12. ASSUME x = <<d>>, y = <<s>> PROVE Len(o) = 3 /\ o[1] = i /\ o[2] = d /\ o[3] = s
  BY ONLY <1>6, <1>12
<1> QED BY <1>3, <1>8, <1>9, <1>10, <1>11, <1>12

(* What follows is neither indented nor empty.                                     *)
LEMMA RestOfBlock ==
  ASSUME NEW v, NEW style \in Blocks, NEW where \in {"root", "value", "item", "explicit"},
         NEW r, r = Rest(v, style, where)
  PROVE  /\ v[Len(v)] \in Break => Len(r) = 0 \/ (1 \in 1..Len(r) /\ r[1] \in {"b", "-", ":"})
         /\ v[Len(v)] \notin Break =>
               /\ 1 \in 1..Len(r) /\ r[1] = "\n"
               /\ Len(r) = 1 \/ (2 \in 1..Len(r) /\ r[2] \in {"b", "-", ":"})
<1>1. PICK l : l = (IF v[Len(v)] \in Break THEN <<>> ELSE <<"\n">>)
  OBVIOUS
<1>2. Line(v, style, where) = l
  BY <1>1, PlacesAre DEF Line, Blocks
<1>3. r = (<<>> \o l) \o Places[where].after
  BY <1>2 DEF Rest, Closing, Blocks
<1>4. ASSUME where = "root" PROVE r = (<<>> \o l) \o <<>>
  BY <1>3, <1>4, PlacesAre
<1>5. ASSUME where = "value" PROVE r = (<<>> \o l) \o <<"b">>
  BY <1>3, <1>5, PlacesAre
<1>6. ASSUME where = "item" PROVE r = (<<>> \o l) \o <<"-", "space", "b">>
  BY <1>3, <1>6, PlacesAre
<1>9. ASSUME where = "explicit" PROVE r = (<<>> \o l) \o <<":", "space", "b">>
  BY <1>3, <1>9, PlacesAre
<1>7. CASE v[Len(v)] \in Break
  <2>1. l = <<>>
    BY <1>1, <1>7
  <2>2. ASSUME where = "root" PROVE Len(r) = 0
    BY ONLY <1>4, <2>1, <2>2
  <2>3. ASSUME where = "value" PROVE Len(r) = 1 /\ r[1] = "b"
    BY ONLY <1>5, <2>1, <2>3
  <2>4. ASSUME where = "item" PROVE Len(r) = 3 /\ r[1] = "-"
    BY ONLY <1>6, <2>1, <2>4
  <2>5. ASSUME where = "explicit" PROVE Len(r) = 3 /\ r[1] = ":"
    BY ONLY <1>9, <2>1, <2>5
  <2> QED BY <1>7, <2>2, <2>3, <2>4, <2>5
<1>8. CASE v[Len(v)] \notin Break
  <2>1. l = <<"\n">>
    BY <1>1, <1>8
  <2>2. ASSUME where = "root" PROVE Len(r) = 1 /\ r[1] = "\n"
    BY ONLY <1>4, <2>1, <2>2
  <2>3. ASSUME where = "value" PROVE Len(r) = 2 /\ r[1] = "\n" /\ r[2] = "b"
    BY ONLY <1>5, <2>1, <2>3
  <2>4. ASSUME where = "item" PROVE Len(r) = 4 /\ r[1] = "\n" /\ r[2] = "-"
    BY ONLY <1>6, <2>1, <2>4
  <2>5. ASSUME where = "explicit" PROVE Len(r) = 4 /\ r[1] = "\n" /\ r[2] = ":"
    BY ONLY <1>9, <2>1, <2>5
  <2> QED BY <1>8, <2>2, <2>3, <2>4, <2>5
<1> QED BY <1>7, <1>8

(* What the scanner has in front of it while it reads a block scalar.              *)
BlockAhead(v, n, pos, margin, style) ==
    /\ v \in Seq(Characters) /\ n = Len(v) /\ n \in Nat \ {0} /\ margin \in Nat /\ margin >= 2
    /\ style \in Blocks /\ style = chosen /\ place \in {"root", "value", "item", "explicit"} /\ best_indent \in 2..9
    /\ Len(Where.before) \in Nat
    /\ At(text, Len(Where.before) + 1) = (IF style = "folded" THEN ">" ELSE "|")
    /\ Header(text, Len(Where.before) + 1, pos[1] - 1, DigitOf(v, best_indent), SignOf(v, n))
    /\ \A k \in 1..(n + 1) : pos[k] \in Nat
    /\ \A k \in 1..n : BlockAt(v, k, n, margin, style, text, pos[k], pos[k + 1])
    /\ v[n] \in Break => At(text, pos[n + 1]) \in {"z", "b", "-", ":"}
    /\ v[n] \notin Break => At(text, pos[n + 1]) = "\n" /\ At(text, pos[n + 1] + 1) \in {"z", "b", "-", ":"}
    /\ \A k \in 1..n : v[k] \in Characters \ {"ctl", "z"}
    /\ v[1] \notin Break \cup {"\t"}
    /\ v[1] = "space" => margin = best_indent
    /\ ~Misread(v, style, place, best_indent)

LEMMA BlockIsAhead ==
  ASSUME Sound, phase # "asked", chosen \in Blocks, ~Misread(value, chosen, place, best_indent)
  PROVE  \E v, n, pos, margin, style : v = value /\ BlockAhead(v, n, pos, margin, style)
<1>1. /\ value \in Seq(Characters) /\ place \in DOMAIN Places /\ best_indent \in 2..9
      /\ Granted(value, chosen, place) /\ text = WriteAt(value, chosen, place, best_indent)
  BY DEF Sound, InputOK, OutputOK
<1>2. PICK v, n, style, best, where, t :
        v = value /\ n = Len(v) /\ style = chosen /\ best = best_indent /\ where = place /\ t = text
  OBVIOUS
<1>3. /\ v \in Seq(Characters) /\ where \in DOMAIN Places /\ best \in 2..9 /\ style \in Blocks
      /\ Granted(v, style, where) /\ t = WriteAt(v, style, where, best)
      /\ ~Misread(v, style, where, best) /\ n = Len(v)
  BY <1>1, <1>2
<1>4. BlockAllowed(v) /\ ~Places[where].flow /\ ~Places[where].key
  BY <1>3 DEF Granted
<1>5. where \in {"root", "value", "item", "explicit"}
  BY <1>3, <1>4, PlacesAre
<1>6. n \in Nat \ {0} /\ DOMAIN v = 1..n /\ \A k \in 1..n : v[k] \in Characters \ {"ctl", "z"}
  <2>1. v \in Seq(Characters) /\ n = Len(v) /\ v # <<>>
    BY <1>3, <1>4 DEF BlockAllowed
  <2>2. n \in Nat \ {0} /\ DOMAIN v = 1..n /\ \A k \in 1..n : v[k] \in Characters
    BY ONLY <2>1
  <2>3. \A k \in 1..n : v[k] # "ctl"
    BY <1>4, <2>2 DEF BlockAllowed, Has
  <2> QED BY <2>2, <2>3, Known
<1>7. PICK off : Layout(v, style, where, best, t, off)
  <2>1. /\ v \in Seq(Characters) /\ where \in DOMAIN Places /\ best \in 2..9
        /\ Granted(v, style, where) /\ t = WriteAt(v, style, where, best)
    BY <1>3
  <2> QED BY ONLY <2>1, TextIs
<1>8. PICK b, m, r, o : /\ b = Len(Places[where].before) /\ m = Indent(where, best)
                        /\ r = Rest(v, style, where) /\ o = Opening(v, style, best)
  OBVIOUS
<1>9. /\ off[1] = b + Len(o) + 1
      /\ \A k \in 1..(n + 1) : off[k] \in Nat
      /\ \A k \in 1..n : off[k + 1] = off[k] + Len(Piece(v, style, m, k))
      /\ \A k \in 1..n : \A j \in 1..Len(Piece(v, style, m, k)) :
             At(t, off[k] + j - 1) = Piece(v, style, m, k)[j]
      /\ \A j \in 1..Len(r) : At(t, off[n + 1] + j - 1) = r[j]
      /\ At(t, off[n + 1] + Len(r)) = "z"
      /\ \A j \in 1..Len(o) : At(t, b + j) = o[j]
  BY ONLY <1>3, <1>7, <1>8 DEF Layout
<1>10. b \in Nat /\ m \in Nat /\ m >= 2 /\ (where \in {"root", "value", "explicit"} => m = best)
  <2>1. b \in Nat
    BY <1>3, <1>8, BeforeIs
  <2> QED BY <1>3, <1>8, <2>1, MarginIs
<1>11. v[1] \notin Break \cup {"\t"} /\ (v[1] = "space" => m = best)
  BY <1>3, <1>8 DEF Misread, Blocks
<1>12. PICK d, s : d = DigitOf(v, best) /\ s = SignOf(v, n)
  OBVIOUS
<1>13. /\ o[1] = (IF style = "folded" THEN ">" ELSE "|")
       /\ d = "none" /\ s = "none" => Len(o) = 1
       /\ d = "none" /\ s # "none" => Len(o) = 2 /\ o[2] = s
       /\ d # "none" /\ s = "none" => Len(o) = 2 /\ o[2] = d
       /\ d # "none" /\ s # "none" => Len(o) = 3 /\ o[2] = d /\ o[3] = s
  <2>1. /\ n = Len(v) /\ v \in Seq(Characters) /\ n # 0 /\ v[1] \notin Break /\ style \in Blocks
        /\ best \in 2..9 /\ o = Opening(v, style, best) /\ d = DigitOf(v, best) /\ s = SignOf(v, n)
    BY <1>3, <1>6, <1>8, <1>11, <1>12
  <2> QED BY ONLY <2>1, BlockOpens
<1>14. PICK pos : pos = [k \in 1..(n + 1) |-> IF k = 1 THEN off[1] + 1 ELSE off[k]]
  OBVIOUS
<1>15. /\ 1 \in 1..(n + 1) /\ n + 1 \in 1..(n + 1) /\ n + 1 # 1 /\ n \in 1..n
       /\ \A k \in 1..n : k \in 1..(n + 1) /\ k + 1 \in 1..(n + 1) /\ k + 1 # 1
  BY <1>6
<1>16. /\ \A k \in 1..(n + 1) : pos[k] \in Nat
       /\ pos[1] = off[1] + 1 /\ pos[n + 1] = off[n + 1]
       /\ \A k \in 1..n : pos[k + 1] = off[k + 1] /\ (k # 1 => pos[k] = off[k])
  <2>1. \A k \in 1..(n + 1) : pos[k] = IF k = 1 THEN off[1] + 1 ELSE off[k]
    BY ONLY <1>14
  <2>2. \A k \in 1..(n + 1) : off[k] \in Nat
    BY ONLY <1>9
  <2>3. \A k \in 1..(n + 1) : pos[k] \in Nat
    BY ONLY <1>15, <2>1, <2>2
  <2>4. pos[1] = off[1] + 1 /\ pos[n + 1] = off[n + 1]
    BY ONLY <1>15, <2>1
  <2>5. \A k \in 1..n : pos[k + 1] = off[k + 1] /\ (k # 1 => pos[k] = off[k])
    BY ONLY <1>15, <2>1
  <2> QED BY ONLY <2>3, <2>4, <2>5
<1>17. ASSUME NEW k \in 1..n PROVE BlockAt(v, k, n, m, style, t, pos[k], pos[k + 1])
  <2>1. PICK e, p, q, a : e = Piece(v, style, m, k) /\ p = pos[k] /\ q = pos[k + 1] /\ a = off[k]
    OBVIOUS
  <2>2. a \in Nat /\ p \in Nat /\ a = (IF k = 1 THEN p - 1 ELSE p)
    <3>1. a \in Nat /\ p \in Nat /\ (k # 1 => p = a)
      BY <1>9, <1>15, <1>16, <2>1
    <3>2. k = 1 => p = a + 1
      BY <1>16, <2>1
    <3> QED BY ONLY <3>1, <3>2
  <2>3. q = a + Len(e) /\ LiesAt(t, a, e)
    BY <1>9, <1>16, <2>1 DEF LiesAt
  <2>4. /\ n \in Nat /\ k \in 1..n /\ style \in Blocks /\ m \in Nat /\ v[1] \notin Break /\ p \in Nat
        /\ e = Piece(v, style, m, k) /\ a = (IF k = 1 THEN p - 1 ELSE p) /\ a \in Nat
        /\ q = a + Len(e) /\ LiesAt(t, a, e)
    BY <1>3, <1>6, <1>10, <1>11, <2>1, <2>2, <2>3
  <2>5. BlockAt(v, k, n, m, style, t, p, q)
    BY ONLY <2>4, BlockStands
  <2> QED BY <2>1, <2>5
<1>18. /\ v[n] \in Break => At(t, pos[n + 1]) \in {"z", "b", "-", ":"}
       /\ v[n] \notin Break => At(t, pos[n + 1]) = "\n" /\ At(t, pos[n + 1] + 1) \in {"z", "b", "-", ":"}
  <2>1. PICK a, l : a = off[n + 1] /\ l = Len(r) /\ a \in Nat
    BY <1>9, <1>15
  <2>2. pos[n + 1] = a /\ (\A j \in 1..l : At(t, a + j - 1) = r[j]) /\ At(t, a + l) = "z"
    BY <1>9, <1>16, <2>1
  <2>3. a + 1 - 1 = a /\ a + 2 - 1 = a + 1 /\ a + 0 = a
    BY <2>1
  <2>4. /\ v[n] \in Break => l = 0 \/ (1 \in 1..l /\ r[1] \in {"b", "-", ":"})
        /\ v[n] \notin Break => /\ 1 \in 1..l /\ r[1] = "\n"
                                /\ l = 1 \/ (2 \in 1..l /\ r[2] \in {"b", "-", ":"})
    BY <1>3, <1>5, <1>8, <2>1, RestOfBlock
  <2>5. 1 \in 1..l => At(t, a) = r[1]
    BY <2>2, <2>3
  <2>6. 2 \in 1..l => At(t, a + 1) = r[2]
    BY <2>2, <2>3
  <2>7. /\ l = 0 => At(t, a) = "z"
        /\ l = 1 => At(t, a + 1) = "z"
    BY <2>2, <2>3
  <2> QED BY <2>2, <2>4, <2>5, <2>6, <2>7
<1>19. At(t, b + 1) = (IF style = "folded" THEN ">" ELSE "|") /\ Header(t, b + 1, pos[1] - 1, d, s)
  <2>0. PICK l : l = Len(o)
    OBVIOUS
  <2>1. l = Len(o) /\ l \in 1..3
    <3>1. Len(o) = 1 \/ Len(o) = 2 \/ Len(o) = 3
      BY ONLY <1>13
    <3>2. l = 1 \/ l = 2 \/ l = 3
      BY ONLY <2>0, <3>1
    <3>3. l \in 1..3
      BY ONLY <3>2
    <3> QED BY <2>0, <3>3
  <2>2. \A j \in 1..l : At(t, b + j) = o[j]
    BY <1>9, <2>1
  <2>3. At(t, b + 1) = o[1] /\ (l >= 2 => At(t, b + 2) = o[2]) /\ (l = 3 => At(t, b + 3) = o[3])
    BY <2>1, <2>2
  <2>4. pos[1] - 1 = b + 1 + l /\ pos[1] - 1 = off[1]
    BY <1>9, <1>10, <1>16, <2>1
  <2>5. At(t, off[1]) = "\n"
    <3>1. PICK e, c, k : e = Piece(v, style, m, 1) /\ c = v[1] /\ k = BlockLead(v, 1, n, m)
      OBVIOUS
    <3>2. /\ n \in Nat /\ 1 \in 1..n /\ style \in Blocks /\ m \in Nat /\ v[1] \notin Break
          /\ e = Piece(v, style, m, 1) /\ c = v[1] /\ k = BlockLead(v, 1, n, m) /\ c \notin Break
      BY <1>3, <1>6, <1>10, <1>11, <3>1
    <3>3. Begun(e, 1, k, m, c)
      BY ONLY <3>2, OfLine
    <3>4. FirstLine(e, m, c) /\ m \in Nat
      BY ONLY <3>2, <3>3, Zenon DEF Begun, FirstLine
    <3>5. Len(e) = m + 2 /\ e[1] = "\n"
      BY ONLY <3>4, LineStartBefore
    <3>6. 1 \in 1..n /\ 1 \in 1..Len(e) /\ off[1] + 1 - 1 = off[1]
      BY <1>9, <1>15, <3>2, <3>4, <3>5
    <3> QED BY <1>9, <3>1, <3>5, <3>6
  <2>6. b + 1 + 1 = b + 2 /\ b + 1 + 2 = b + 3 /\ b + 1 + 3 = b + 4
    BY <1>10
  <2> QED BY <1>13, <2>1, <2>3, <2>4, <2>5, <2>6 DEF Header
<1>20. b = Len(Where.before)
  BY <1>2, <1>8 DEF Where
<1>21. /\ Header(text, Len(Where.before) + 1, pos[1] - 1, DigitOf(v, best_indent), SignOf(v, n))
       /\ At(text, Len(Where.before) + 1) = (IF style = "folded" THEN ">" ELSE "|")
       /\ Len(Where.before) \in Nat
  BY ONLY <1>2, <1>10, <1>12, <1>19, <1>20
<1>22. \A k \in 1..n : BlockAt(v, k, n, m, style, text, pos[k], pos[k + 1])
  BY ONLY <1>2, <1>17
<1>23. BlockAhead(v, n, pos, m, style)
  BY ONLY <1>2, <1>3, <1>5, <1>6, <1>10, <1>11, <1>16, <1>18, <1>21, <1>22 DEF BlockAhead
<1> QED BY <1>2, <1>23

(* The line that character k belongs to, the break at its end included.            *)
LEMMA LineBegins ==
  ASSUME NEW v, NEW k \in Nat, k >= 1, k = 1 \/ v[k - 1] \in Break
  PROVE  LineOfBlank(v, k) <=> v[k] \in Blank
<1>1. ASSUME v[k] \in Blank PROVE LineOfBlank(v, k)
  <2>1. k \in 1..k /\ \A l \in k..(k - 1) : FALSE
    OBVIOUS
  <2> QED BY <1>1, <2>1 DEF LineOfBlank
<1>2. ASSUME LineOfBlank(v, k) PROVE v[k] \in Blank
  <2>1. PICK j \in 1..k : v[j] \in Blank /\ \A l \in j..(k - 1) : v[l] \notin Break
    BY <1>2 DEF LineOfBlank
  <2>2. CASE j = k
    BY <2>1, <2>2
  <2>3. CASE j # k
    <3>1. k - 1 \in j..(k - 1) /\ k # 1
      BY <2>3
    <3> QED BY <2>1, <3>1
  <2> QED BY <2>2, <2>3
<1> QED BY <1>1, <1>2

LEMMA LineGoesOn ==
  ASSUME NEW v, NEW k \in Nat, k >= 1, v[k] \notin Break
  PROVE  LineOfBlank(v, k + 1) <=> LineOfBlank(v, k)
<1>1. (k + 1) - 1 = k
  OBVIOUS
<1>2. ASSUME LineOfBlank(v, k) PROVE LineOfBlank(v, k + 1)
  <2>1. PICK j \in 1..k : /\ v[j] \in Blank /\ (j = 1 \/ v[j - 1] \in Break)
                          /\ \A l \in j..(k - 1) : v[l] \notin Break
    BY <1>2 DEF LineOfBlank
  <2>2. j \in 1..(k + 1) /\ \A l \in j..k : v[l] \notin Break
    <3>1. \A l \in j..k : l \in j..(k - 1) \/ l = k
      OBVIOUS
    <3> QED BY <2>1, <3>1
  <2> QED BY <1>1, <2>1, <2>2 DEF LineOfBlank
<1>3. ASSUME LineOfBlank(v, k + 1) PROVE LineOfBlank(v, k)
  <2>1. PICK j \in 1..(k + 1) : /\ v[j] \in Blank /\ (j = 1 \/ v[j - 1] \in Break)
                                /\ \A l \in j..((k + 1) - 1) : v[l] \notin Break
    BY <1>3 DEF LineOfBlank
  <2>2. j # k + 1
    <3>1. j = k + 1 => j # 1 /\ v[j - 1] \notin Break
      BY <1>1
    <3> QED BY <2>1, <3>1
  <2>3. j \in 1..k /\ \A l \in j..(k - 1) : l \in j..((k + 1) - 1)
    BY <2>2
  <2> QED BY <2>1, <2>3 DEF LineOfBlank
<1> QED BY <1>2, <1>3

-----------------------------------------------------------------------------
(* Block scalars: what is read.                                                    *)
Gathered(w, l, t) == w = l \o t

LEMMA GatheredNext ==
  ASSUME NEW l, NEW t, NEW c, l \in Seq(Break), t \in Seq(Break), c \in Break,
         NEW w, Gathered(w, l, t), NEW u, Grows(t, c, u), NEW x, Grows(w, c, x)
  PROVE  Gathered(x, l, u) /\ w \in Seq(Characters)
<1>1. l \in Seq(Break) /\ t \in Seq(Break) /\ c \in Break /\ <<c>> \in Seq(Break)
  OBVIOUS
<1>2. u = t \o <<c>>
  <2>1. Append(t, c) = t \o <<c>>
    BY ONLY <1>1
  <2> QED BY ONLY <2>1, Grows(t, c, u), Zenon DEF Grows
<1>3. w \in Seq(Break)
  <2>1. l \o t \in Seq(Break)
    BY ONLY <1>1
  <2> QED BY <1>1, <2>1 DEF Gathered
<1>4. x = w \o <<c>>
  <2>1. Append(w, c) = w \o <<c>>
    BY ONLY <1>1, <1>3
  <2> QED BY ONLY <2>1, Grows(w, c, x), Zenon DEF Grows
<1>5. (l \o t) \o <<c>> = l \o (t \o <<c>>)
  BY ONLY <1>1, Associative
<1>6. Gathered(x, l, u)
  BY <1>2, <1>4, <1>5, Zenon DEF Gathered
<1>7. w \in Seq(Characters)
  <2>1. Break \subseteq Characters
    BY DEF Characters
  <2> QED BY ONLY <1>3, <2>1, Wider
<1> QED BY <1>6, <1>7

(* The scanner is j characters into the first line of a block scalar; ...          *)
BlockFirst(v, pos, margin, j) ==
    /\ phase = "breaks" /\ j \in 0..margin /\ index = pos[1] + j /\ column = j
    /\ Clean /\ result = <<>> /\ max_indent = 0
    /\ indent = (IF v[1] = "space" THEN margin ELSE 0)

(* at character k, past the indentation; ...                                       *)
BlockIn(v, n, pos, margin, k) ==
    /\ phase = "line" /\ k \in 1..(n + 1)
    /\ k # 1 /\ v[k - 1] \in Break => k # n + 1 /\ v[k] \notin Break
    /\ index = pos[k] + BlockLead(v, k, n, margin)
    /\ result = Before(v, k) /\ leading_break = <<>> /\ trailing_breaks = <<>>
    /\ indent = margin /\ (leading_blanks <=> LineOfBlank(v, k))

(* in the middle of a break that is written twice; ...                             *)
BlockTwice(v, n, pos, margin, style, k) ==
    /\ phase = "breaks" /\ k \in 2..n /\ v[k] \in Break /\ v[k - 1] \notin Break /\ Again(v, k, style)
    /\ index = pos[k] + 1 /\ column = 0
    /\ result = Before(v, k) /\ leading_break = <<"\n">> /\ trailing_breaks = <<>>
    /\ indent = margin /\ (leading_blanks <=> LineOfBlank(v, k))

(* after the breaks from m to before k, j characters into the indentation; ...     *)
BlockBreaks(v, n, pos, margin, style, m, k, j) ==
    /\ phase = "breaks" /\ m \in 2..n /\ k \in (m + 1)..(n + 1)
    /\ v[m - 1] \notin Break /\ \A i \in m..(k - 1) : v[i] \in Break
    /\ j \in 0..BlockLead(v, k, n, margin) /\ index = pos[k] + j /\ column = j
    /\ result = Before(v, m) /\ leading_break = <<v[m]>>
    /\ IF Again(v, m, style) THEN trailing_breaks # <<>> /\ Spans(result, trailing_breaks, v, k)
       ELSE \E w : Gathered(w, leading_break, trailing_breaks) /\ Spans(result, w, v, k)
    /\ indent = margin /\ (leading_blanks <=> LineOfBlank(v, m))

(* or at the line after it, if it does not end with a break itself.                *)
BlockPast(v, n, pos, margin) ==
    /\ phase = "breaks" /\ v[n] \notin Break /\ index = pos[n + 1] + 1 /\ column = 0
    /\ result = v /\ leading_break = <<"\n">> /\ trailing_breaks = <<>> /\ indent = margin

Chomped(v, n) == chomping = (IF SignOf(v, n) = "none" THEN "clip" ELSE SignOf(v, n))

LEMMA BlockLeadIs ==
  ASSUME NEW v, NEW k, NEW n, NEW margin \in Nat
  PROVE  /\ BlockLead(v, k, n, margin) \in {0, margin}
         /\ k \notin 1..n \/ v[k] \in Break \/ (k # 1 /\ v[k - 1] \notin Break) => BlockLead(v, k, n, margin) = 0
         /\ k \in 1..n /\ v[k] \notin Break /\ (k = 1 \/ v[k - 1] \in Break) => BlockLead(v, k, n, margin) = margin
<1>1. BlockLead(v, k, n, margin) \in {0, margin}
  BY DEF BlockLead
<1>2. k \notin 1..n \/ v[k] \in Break \/ (k # 1 /\ v[k - 1] \notin Break) => BlockLead(v, k, n, margin) = 0
  BY DEF BlockLead
<1>3. k \in 1..n /\ v[k] \notin Break /\ (k = 1 \/ v[k - 1] \in Break) => BlockLead(v, k, n, margin) = margin
  BY DEF BlockLead
<1> QED BY <1>1, <1>2, <1>3

LEMMA DigitsDiffer ==
  ASSUME NEW a \in 1..9, NEW b \in 1..9, Digits[a] = Digits[b]
  PROVE  a = b
  BY DEF Digits

(* What the scanner finds in the hints.                                            *)
LEMMA HintsFound ==
  ASSUME index \in Nat, NEW h, NEW d, NEW s, NEW best \in 1..9,
         Header(text, index, h, d, s), d \in {"none", Digits[best]}, s \in {"none", "+", "-"}
  PROVE  /\ HeaderEnd = h
         /\ Hinted({"+"}) <=> s = "+"
         /\ Hinted({"-"}) <=> s = "-"
         /\ Hinted(Range(Digits)) <=> d # "none"
         /\ d # "none" => Increment = best
<1>1. PICK D : D = Range(Digits)
  OBVIOUS
<1>2. /\ "+" \notin D /\ "-" \notin D /\ "\n" \notin D /\ "none" \notin D
      /\ Digits[best] \in D /\ DOMAIN Digits = 1..9
  <2>1. DOMAIN Digits = 1..9
    BY DEF Digits
  <2> QED BY <1>1, <2>1, RangeDigits DEF Range
<1>3. PICK i, t : i = index /\ t = text /\ i \in Nat
  OBVIOUS
<1>4. d = "none" \/ d \in D
  BY <1>2
<1>5. /\ At(t, h) = "\n"
      /\ d = "none" /\ s = "none" => h = i + 1
      /\ d = "none" /\ s # "none" => h = i + 2 /\ At(t, i + 1) = s
      /\ d # "none" /\ s = "none" => h = i + 2 /\ At(t, i + 1) = d
      /\ d # "none" /\ s # "none" => h = i + 3 /\ At(t, i + 1) = d /\ At(t, i + 2) = s
  BY <1>3 DEF Header
<1>6. HeaderEnd = h
  BY <1>1, <1>2, <1>3, <1>4, <1>5 DEF HeaderEnd, There, Signs
<1>7. ASSUME NEW X PROVE Hinted(X) <=> (d # "none" /\ d \in X) \/ (s # "none" /\ s \in X)
  <2>1. Hinted(X) <=> \E j \in (i + 1)..(h - 1) : At(t, j) \in X
    BY <1>3, <1>6 DEF Hinted
  <2>2. CASE d = "none" /\ s = "none"
    <3>1. (i + 1)..(h - 1) = {}
      BY <1>3, <1>5, <2>2
    <3> QED BY <2>1, <2>2, <3>1
  <2>3. CASE (d = "none" /\ s # "none") \/ (d # "none" /\ s = "none")
    <3>1. (i + 1)..(h - 1) = {i + 1}
      BY <1>3, <1>5, <2>3
    <3> QED BY <1>5, <2>1, <2>3, <3>1
  <2>4. CASE d # "none" /\ s # "none"
    <3>1. (i + 1)..(h - 1) = {i + 1, i + 2}
      BY <1>3, <1>5, <2>4
    <3> QED BY <1>5, <2>1, <2>4, <3>1
  <2> QED BY <2>2, <2>3, <2>4
<1>8. /\ Hinted({"+"}) <=> s = "+"
      /\ Hinted({"-"}) <=> s = "-"
      /\ Hinted(Range(Digits)) <=> d # "none"
  BY <1>1, <1>2, <1>4, <1>7
<1>9. ASSUME d # "none" PROVE Increment = best
  <2>1. Increment \in 1..9 /\ Hinted({Digits[Increment]})
    BY <1>8, <1>9, IncrementIs
  <2>2. PICK a : a = Increment
    OBVIOUS
  <2>3. Digits[a] \in D
    BY <1>1, <1>2, <2>1, <2>2 DEF Range
  <2>4. Hinted({Digits[a]})
    BY <2>1, <2>2
  <2>5. Digits[a] = d \/ Digits[a] = s
    BY <1>7, <2>4
  <2>6. Digits[a] = Digits[best]
    BY <1>2, <1>9, <2>3, <2>5
  <2> QED BY <2>1, <2>2, <2>6, DigitsDiffer
<1> QED BY <1>6, <1>8, <1>9

(* BlockAhead, fact by fact.                                                       *)
LEMMA BlockFacts ==
  ASSUME NEW v, NEW n, NEW pos, NEW margin, NEW style, BlockAhead(v, n, pos, margin, style)
  PROVE  /\ v \in Seq(Characters) /\ n = Len(v) /\ n \in Nat \ {0} /\ margin \in Nat /\ margin >= 2
         /\ style \in Blocks /\ style = chosen /\ place \in {"root", "value", "item", "explicit"}
         /\ At(text, Len(Where.before) + 1) = (IF style = "folded" THEN ">" ELSE "|")
         /\ \A k \in 1..(n + 1) : pos[k] \in Nat
         /\ \A k \in 1..n : BlockAt(v, k, n, margin, style, text, pos[k], pos[k + 1])
         /\ v[n] \in Break => At(text, pos[n + 1]) \in {"z", "b", "-", ":"}
         /\ v[n] \notin Break => At(text, pos[n + 1]) = "\n" /\ At(text, pos[n + 1] + 1) \in {"z", "b", "-", ":"}
         /\ \A k \in 1..n : v[k] \in Characters \ {"ctl", "z"}
         /\ v[1] \notin Break \cup {"\t"}
  BY DEF BlockAhead

(* The indicator and the hints are read.                                           *)
LEMMA BlockStarts ==
  ASSUME Sound, Started, NEW v, NEW n, NEW pos, NEW margin, NEW style,
         BlockAhead(v, n, pos, margin, style), Next
  PROVE  BlockFirst(v, pos, margin, 0)' /\ Chomped(v, n)'
<1>1. PICK b, h, d, s : /\ b = Len(Where.before) /\ h = pos[1] - 1 /\ d = DigitOf(v, best_indent)
                        /\ s = SignOf(v, n)
  OBVIOUS
<1>2. /\ b \in Nat /\ margin \in Nat /\ pos[1] \in Nat /\ best_indent \in 1..9
      /\ At(text, b + 1) \in {">", "|"} /\ Header(text, b + 1, h, d, s)
      /\ v[1] = "space" => margin = best_indent
      /\ place \in {"root", "value", "item", "explicit"}
  <2>1. n \in Nat /\ 1 \in 1..(n + 1) /\ \A k \in 1..(n + 1) : pos[k] \in Nat
    BY DEF BlockAhead
  <2> QED BY <1>1, <2>1 DEF BlockAhead
<1>3. /\ index = b + 1 /\ result = <<>> /\ phase = "written" /\ Clean /\ max_indent = 0
  BY <1>1 DEF Started
<1>4. Here \in {">", "|"} /\ ~Where.flow
  BY <1>2, <1>3, PlacesAre DEF Here, Where
<1>5. FetchBlock
  BY <1>3, <1>4, StepsOf DEF FetchPlain, FetchQuoted
<1>6. d \in {"none", Digits[best_indent]} /\ s \in {"none", "+", "-"} /\ (d # "none" <=> v[1] = "space")
  <2>1. Digits[best_indent] # "none"
    BY <1>2 DEF Digits
  <2> QED BY <1>1, <2>1 DEF DigitOf, SignOf
<1>7. /\ HeaderEnd = h
      /\ Hinted({"+"}) <=> s = "+"
      /\ Hinted({"-"}) <=> s = "-"
      /\ Hinted(Range(Digits)) <=> d # "none"
      /\ d # "none" => Increment = best_indent
  <2>1. PICK best : best = best_indent
    OBVIOUS
  <2>2. index \in Nat /\ best \in 1..9 /\ Header(text, index, h, d, s) /\ d \in {"none", Digits[best]}
    BY <1>2, <1>3, <1>6, <2>1
  <2> QED BY <1>6, <2>1, <2>2, HintsFound
<1>8. Max({Where.parent, 0}) = 0
  BY <1>2, ParentIs, PlacesAre DEF Where
<1>9. At(text, HeaderEnd) \in Break
  BY <1>2, <1>7 DEF Header, Break
<1>10. /\ phase' = "breaks" /\ index' = h + 1 /\ column' = 0 /\ result' = result
       /\ max_indent' = max_indent /\ gap' = gap
       /\ chomping' = (IF s = "+" THEN "+" ELSE IF s = "-" THEN "-" ELSE "clip")
       /\ indent' = (IF v[1] = "space" THEN margin ELSE 0)
  <2>1. indent' = (IF Hinted(Range(Digits)) THEN Max({Where.parent, 0}) + Increment ELSE 0)
    BY <1>5 DEF FetchBlock
  <2>2. indent' = (IF v[1] = "space" THEN margin ELSE 0)
    <3>1. CASE v[1] = "space"
      <4>1. Increment = margin /\ 0 + margin = margin
        BY <1>2, <1>6, <1>7, <3>1
      <4> QED BY <1>6, <1>7, <1>8, <2>1, <3>1, <4>1
    <3>2. CASE v[1] # "space"
      BY <1>6, <1>7, <2>1, <3>2
    <3> QED BY <3>1, <3>2
  <2> QED BY <1>5, <1>7, <1>9, <2>2 DEF FetchBlock
<1>11. index' = pos[1] + 0 /\ 0 \in 0..margin
  BY <1>1, <1>2, <1>10
<1>12. Clean'
  BY <1>3, <1>10 DEF Clean, gap
<1>13. Chomped(v, n)'
  BY <1>1, <1>6, <1>10 DEF Chomped
<1> QED BY <1>3, <1>10, <1>11, <1>12, <1>13 DEF BlockFirst

(* The indentation of the first line ...                                           *)
LEMMA BlockFirstIndents ==
  ASSUME Sound, NEW v, NEW n, NEW pos, NEW margin, NEW style, BlockAhead(v, n, pos, margin, style),
         NEW j \in Nat, j < margin, BlockFirst(v, pos, margin, j), Next
  PROVE  BlockFirst(v, pos, margin, j + 1)'
<1>1. /\ n \in Nat \ {0} /\ margin \in Nat /\ 1 \in 1..n /\ pos[1] \in Nat /\ v[1] \notin Break
      /\ BlockAt(v, 1, n, margin, style, text, pos[1], pos[1 + 1])
  <2>1. n \in Nat \ {0} /\ 1 \in 1..n /\ 1 \in 1..(n + 1)
    BY BlockFacts
  <2> QED BY <2>1, BlockFacts
<1>2. BlockLead(v, 1, n, margin) = margin
  BY <1>1, BlockLeadIs
<1>3. At(text, pos[1] + j) = "space"
  <2>1. j \in 0..(margin - 1)
    BY <1>1
  <2> QED BY <1>1, <1>2, <2>1 DEF BlockAt
<1>4. /\ phase = "breaks" /\ index = pos[1] + j /\ column = j /\ Clean /\ result = <<>> /\ max_indent = 0
      /\ indent \in {0, margin} /\ indent = (IF v[1] = "space" THEN margin ELSE 0)
  BY DEF BlockFirst
<1>5. Here = "space" /\ Indenting
  BY <1>3, <1>4 DEF Here, Indenting
<1>6. Indentation
  BY <1>4, <1>5, StepsOf DEF EmptyLine, BlockLine, Break
<1>7. /\ phase' = phase /\ index' = index + 1 /\ column' = column + 1 /\ result' = result
      /\ gap' = gap /\ max_indent' = max_indent /\ indent' = indent
  BY <1>6 DEF Indentation, Skip, block
<1>8. Clean'
  BY <1>4, <1>7 DEF Clean, gap
<1>9. j + 1 \in 0..margin /\ index' = pos[1] + (j + 1) /\ column' = j + 1
  BY <1>1, <1>4, <1>7
<1> QED BY <1>4, <1>7, <1>8, <1>9 DEF BlockFirst

(* ... which is the indent of the scalar.                                          *)
LEMMA BlockFirstLine ==
  ASSUME Sound, NEW v, NEW n, NEW pos, NEW margin, NEW style, BlockAhead(v, n, pos, margin, style),
         BlockFirst(v, pos, margin, margin), Next
  PROVE  BlockIn(v, n, pos, margin, 1)'
<1>1. /\ n \in Nat \ {0} /\ margin \in Nat /\ margin >= 2 /\ 1 \in 1..n /\ 1 \in 1..(n + 1) /\ pos[1] \in Nat
      /\ v[1] \in Characters \ {"ctl", "z"} /\ v[1] \notin Break \cup {"\t"}
      /\ BlockAt(v, 1, n, margin, style, text, pos[1], pos[1 + 1])
      /\ place \in DOMAIN Places
  <2>1. n \in Nat \ {0} /\ 1 \in 1..n /\ 1 \in 1..(n + 1)
    BY BlockFacts
  <2>2. place \in DOMAIN Places
    BY BlockFacts, PlacesAre
  <2> QED BY <2>1, <2>2, BlockFacts
<1>2. BlockLead(v, 1, n, margin) = margin
  BY <1>1, BlockLeadIs
<1>3. At(text, pos[1] + margin) = v[1]
  BY <1>1, <1>2 DEF BlockAt
<1>4. /\ phase = "breaks" /\ index = pos[1] + margin /\ column = margin /\ result = <<>> /\ max_indent = 0
      /\ leading_break = <<>> /\ trailing_breaks = <<>>
      /\ indent = (IF v[1] = "space" THEN margin ELSE 0)
  BY DEF BlockFirst, Clean
<1>5. Here = v[1] /\ Here \notin Break /\ Here # "\t" /\ Here # "z" /\ ~(Indenting /\ Here = "space")
  BY <1>1, <1>3, <1>4 DEF Here, Indenting
<1>6. BlockLine
  BY <1>4, <1>5, StepsOf DEF EmptyLine, Indentation
<1>7. Determined = margin
  <2>1. CASE v[1] = "space"
    BY <1>1, <1>4, <2>1 DEF Determined
  <2>2. CASE v[1] # "space"
    <3>1. Where.parent \in {-1, 0}
      BY <1>1, ParentIs DEF Where
    <3>2. PICK p : p = Where.parent + 1 /\ p \in {0, 1}
      BY <3>1
    <3>3. 0 \in Int /\ margin \in Int /\ p \in Int /\ 1 \in Int
      BY <1>1, <3>2
    <3>4. PICK m : m = Max({0, margin, p, 1})
      OBVIOUS
    <3>5. m \in {0, margin, p, 1} /\ m >= margin
      BY ONLY <3>3, <3>4, MaxOfFour
    <3>6. m = margin
      BY <1>1, <3>2, <3>5
    <3> QED BY <1>4, <2>2, <3>2, <3>4, <3>6 DEF Determined
  <2> QED BY <2>1, <2>2
<1>8. /\ phase' = "line" /\ index' = index /\ indent' = margin
      /\ leading_break' = <<>> /\ trailing_breaks' = <<>> /\ leading_blanks' = (Here \in Blank)
  BY <1>4, <1>5, <1>6, <1>7 DEF BlockLine, mark
<1>9. result' = <<>>
  <2>1. PICK joint : (joint = leading_break \/ joint = <<>> \/ leading_break = <<"\n">>)
                     /\ result' = result \o joint \o trailing_breaks
    BY <1>4, <1>5, <1>6, <1>7 DEF BlockLine
  <2>2. <<>> # <<"\n">>
    OBVIOUS
  <2>3. joint = <<>>
    BY <1>4, <2>1, <2>2
  <2>4. <<>> \o <<>> \o <<>> = <<>>
    OBVIOUS
  <2> QED BY <1>4, <2>1, <2>3, <2>4
<1>10. LineOfBlank(v, 1) <=> v[1] \in Blank
  BY LineBegins
<1>11. leading_blanks' <=> LineOfBlank(v, 1)
  BY <1>5, <1>8, <1>10
<1>12. index' = pos[1] + BlockLead(v, 1, n, margin)
  BY <1>2, <1>4, <1>8
<1> QED BY <1>1, <1>8, <1>9, <1>11, <1>12, BeforeFirst DEF BlockIn

(* A character of a line; ...                                                      *)
LEMMA BlockCharacters ==
  ASSUME Sound, NEW v, NEW n, NEW pos, NEW margin, NEW style, BlockAhead(v, n, pos, margin, style),
         NEW k \in 1..n, v[k] \notin Break, BlockIn(v, n, pos, margin, k), Next
  PROVE  BlockIn(v, n, pos, margin, k + 1)'
<1>1. /\ n \in Nat \ {0} /\ margin \in Nat /\ k \in Nat /\ k >= 1 /\ pos[k] \in Nat /\ v \in Seq(Characters) /\ n = Len(v)
      /\ v[k] \in Characters \ {"ctl", "z"} /\ BlockAt(v, k, n, margin, style, text, pos[k], pos[k + 1])
      /\ k + 1 \in 1..(n + 1) /\ k + 1 # 1 /\ (k + 1) - 1 = k
  <2>1. n \in Nat \ {0} /\ k \in 1..(n + 1)
    BY BlockFacts
  <2> QED BY <2>1, BlockFacts
<1>2. PICK m : m = BlockLead(v, k, n, margin) /\ m \in Nat
  <2>1. BlockLead(v, k, n, margin) \in {0, margin}
    BY <1>1, BlockLeadIs
  <2> QED BY <1>1, <2>1
<1>3. At(text, pos[k] + m) = v[k] /\ pos[k + 1] = pos[k] + m + 1
  BY <1>1, <1>2 DEF BlockAt
<1>4. /\ phase = "line" /\ index = pos[k] + m /\ result = Before(v, k)
      /\ leading_break = <<>> /\ trailing_breaks = <<>> /\ indent = margin
      /\ (leading_blanks <=> LineOfBlank(v, k))
  BY <1>2 DEF BlockIn
<1>5. Here = v[k] /\ Here \notin Break \cup {"z"}
  BY <1>1, <1>3, <1>4 DEF Here
<1>6. BlockCharacter
  BY <1>4, <1>5, StepsOf DEF BlockLineEnd
<1>7. /\ phase' = "line" /\ result' = Append(result, v[k]) /\ index' = index + 1
      /\ leading_break' = leading_break /\ trailing_breaks' = trailing_breaks
      /\ leading_blanks' = leading_blanks /\ indent' = indent
  BY <1>4, <1>5, <1>6 DEF BlockCharacter, Skip, gap, block
<1>8. result' = Before(v, k + 1)
  <2>1. v \in Seq(Characters) /\ k \in 1..Len(v)
    BY <1>1
  <2>2. Append(Before(v, k), v[k]) = Before(v, k + 1)
    BY ONLY <2>1, BeforeNext
  <2> QED BY ONLY <1>4, <1>7, <2>2, Zenon
<1>9. BlockLead(v, k + 1, n, margin) = 0
  BY <1>1, BlockLeadIs
<1>10. index' = pos[k + 1] + BlockLead(v, k + 1, n, margin)
  <2>1. index' = pos[k + 1] /\ pos[k + 1] \in Nat
    BY <1>1, <1>2, <1>3, <1>4, <1>7
  <2> QED BY <1>9, <2>1
<1>11. leading_blanks' <=> LineOfBlank(v, k + 1)
  <2>1. LineOfBlank(v, k + 1) <=> LineOfBlank(v, k)
    BY <1>1, LineGoesOn
  <2> QED BY <1>4, <1>7, <2>1
<1> QED BY <1>1, <1>4, <1>7, <1>8, <1>10, <1>11 DEF BlockIn

LEMMA GatheredFirst ==
  ASSUME NEW c, c \in Break, NEW l, l = <<c>>, NEW t, t = <<>>
  PROVE  Gathered(l, l, t)
<1>1. l \in Seq(Break) /\ t = <<>>
  OBVIOUS
<1>2. l \o t = l
  BY ONLY <1>1, NothingMore
<1> QED BY <1>2 DEF Gathered

(* One break, after what was read before it.                                       *)
LEMMA SpansOne ==
  ASSUME NEW v, v \in Seq(Characters), NEW k, k \in 1..Len(v), NEW r, r = Before(v, k), NEW c, c = v[k],
         NEW l, l = <<c>>
  PROVE  Spans(r, l, v, k + 1)
<1>1. v \in Seq(Characters) /\ k \in 1..Len(v)
  OBVIOUS
<1>2. Append(Before(v, k), v[k]) = Before(v, k + 1) /\ Before(v, k) \in Seq(Characters)
  BY ONLY <1>1, BeforeNext
<1>3. c \in Characters
  BY ONLY <1>1, c = v[k]
<1>4. r \in Seq(Characters)
  BY ONLY <1>2, r = Before(v, k), Zenon
<1>5. Append(r, c) = r \o <<c>>
  BY ONLY <1>3, <1>4, Appended
<1> QED BY ONLY <1>2, <1>5, r = Before(v, k), c = v[k], l = <<c>>, Zenon DEF Spans

(* ... the first break after one, ...                                              *)
LEMMA BlockEndsLine ==
  ASSUME Sound, NEW v, NEW n, NEW pos, NEW margin, NEW style, BlockAhead(v, n, pos, margin, style),
         NEW k \in 1..n, v[k] \in Break, BlockIn(v, n, pos, margin, k), Next
  PROVE  BlockTwice(v, n, pos, margin, style, k)' \/ BlockBreaks(v, n, pos, margin, style, k, k + 1, 0)'
<1>1. /\ n \in Nat \ {0} /\ margin \in Nat /\ k \in Nat /\ pos[k] \in Nat /\ v \in Seq(Characters) /\ n = Len(v)
      /\ v[1] \notin Break /\ BlockAt(v, k, n, margin, style, text, pos[k], pos[k + 1])
      /\ k + 1 \in 1..(n + 1)
  <2>1. n \in Nat \ {0} /\ k \in 1..(n + 1)
    BY BlockFacts
  <2> QED BY <2>1, BlockFacts
<1>2. k # 1 /\ v[k - 1] \notin Break /\ k \in 2..n
  BY <1>1 DEF BlockIn
<1>3. BlockLead(v, k, n, margin) = 0
  BY <1>1, BlockLeadIs
<1>4. /\ phase = "line" /\ index = pos[k] /\ result = Before(v, k)
      /\ leading_break = <<>> /\ trailing_breaks = <<>> /\ indent = margin
      /\ (leading_blanks <=> LineOfBlank(v, k))
  BY <1>1, <1>3 DEF BlockIn
<1>5. /\ Again(v, k, style) => At(text, pos[k]) = "\n" /\ pos[k + 1] = pos[k] + 2
      /\ ~Again(v, k, style) => At(text, pos[k]) = v[k] /\ pos[k + 1] = pos[k] + 1
  BY <1>1 DEF BlockAt
<1>6. Here = At(text, pos[k]) /\ Here \in Break
  BY <1>4, <1>5 DEF Here, Break
<1>7. BlockLineEnd
  BY <1>4, <1>6, StepsOf DEF BlockCharacter
<1>8. /\ phase' = "breaks" /\ index' = index + 1 /\ column' = 0 /\ result' = result
      /\ leading_break' = <<Here>> /\ trailing_breaks' = trailing_breaks
      /\ leading_blanks' = leading_blanks /\ indent' = indent
  <2>1. Here # "z"
    BY <1>6 DEF Break
  <2> QED BY <1>7, <2>1 DEF BlockLineEnd, SkipLine
<1>9. CASE Again(v, k, style)
  BY <1>2, <1>4, <1>5, <1>6, <1>8, <1>9 DEF BlockTwice
<1>10. CASE ~Again(v, k, style)
  <2>1. PICK r, l, t, c : r = result' /\ l = leading_break' /\ t = trailing_breaks' /\ c = v[k]
    OBVIOUS
  <2>2. c \in Break /\ l = <<c>> /\ t = <<>>
    BY <1>4, <1>5, <1>6, <1>8, <1>10, <2>1
  <2>3. Gathered(l, l, t)
    BY ONLY <2>2, GatheredFirst
  <2>4. v \in Seq(Characters) /\ k \in 1..Len(v) /\ r = Before(v, k) /\ c = v[k] /\ l = <<c>>
    BY <1>1, <1>4, <1>8, <2>1, <2>2
  <2>5. Spans(r, l, v, k + 1)
    BY ONLY <2>4, SpansOne
  <2>6. \E w : Gathered(w, leading_break', trailing_breaks') /\ Spans(result', w, v, k + 1)
    BY ONLY <2>1, <2>3, <2>5, Zenon
  <2>7. 0 \in 0..BlockLead(v, k + 1, n, margin) /\ index' = pos[k + 1] + 0 /\ column' = 0
    <3>1. BlockLead(v, k + 1, n, margin) \in {0, margin}
      BY <1>1, BlockLeadIs
    <3>2. index' = pos[k + 1] /\ pos[k + 1] \in Nat
      BY <1>1, <1>4, <1>5, <1>8, <1>10
    <3> QED BY <1>1, <1>8, <3>1, <3>2
  <2>8. k + 1 \in (k + 1)..(n + 1) /\ \A i \in k..((k + 1) - 1) : v[i] \in Break
    <3>1. \A i \in k..((k + 1) - 1) : i = k
      BY <1>1
    <3> QED BY <1>1, <3>1
  <2>9. leading_break' = <<v[k]>>
    BY <2>1, <2>2
  <2> QED BY <1>2, <1>4, <1>8, <1>10, <2>6, <2>7, <2>8, <2>9 DEF BlockBreaks
<1> QED BY <1>9, <1>10

(* ... or nothing: the break that is not of the string.                            *)
LEMMA BlockComesToEnd ==
  ASSUME Sound, NEW v, NEW n, NEW pos, NEW margin, NEW style, BlockAhead(v, n, pos, margin, style),
         BlockIn(v, n, pos, margin, n + 1), Next
  PROVE  BlockPast(v, n, pos, margin)'
<1>1. /\ n \in Nat \ {0} /\ margin \in Nat /\ pos[n + 1] \in Nat /\ v \in Seq(Characters) /\ n = Len(v)
      /\ v[n] \notin Break => At(text, pos[n + 1]) = "\n"
  <2>1. n \in Nat \ {0} /\ n + 1 \in 1..(n + 1)
    BY BlockFacts
  <2> QED BY <2>1, BlockFacts
<1>2. n + 1 # 1 /\ (n + 1) - 1 = n /\ n + 1 \notin 1..n
  BY <1>1
<1>3. v[n] \notin Break /\ BlockLead(v, n + 1, n, margin) = 0
  BY <1>1, <1>2, BlockLeadIs DEF BlockIn
<1>4. /\ phase = "line" /\ index = pos[n + 1] /\ result = Before(v, n + 1)
      /\ trailing_breaks = <<>> /\ indent = margin
  BY <1>1, <1>3 DEF BlockIn
<1>5. Here = "\n" /\ Here \in Break
  BY <1>1, <1>3, <1>4 DEF Here, Break
<1>6. BlockLineEnd
  BY <1>4, <1>5, StepsOf DEF BlockCharacter
<1>7. /\ phase' = "breaks" /\ index' = index + 1 /\ column' = 0 /\ result' = result
      /\ leading_break' = <<"\n">> /\ trailing_breaks' = trailing_breaks /\ indent' = indent
  BY <1>5, <1>6 DEF BlockLineEnd, SkipLine
<1>8. result' = v
  <2>1. v \in Seq(Characters) /\ n = Len(v)
    BY <1>1
  <2>2. Before(v, n + 1) = v
    BY ONLY <2>1, BeforeEnd
  <2> QED BY ONLY <1>4, <1>7, <2>2, Zenon
<1> QED BY <1>3, <1>4, <1>7, <1>8 DEF BlockPast

(* The second of two breaks that are one.                                          *)
LEMMA BlockSecond ==
  ASSUME Sound, NEW v, NEW n, NEW pos, NEW margin, NEW style, BlockAhead(v, n, pos, margin, style),
         NEW k \in 1..n, BlockTwice(v, n, pos, margin, style, k), Next
  PROVE  BlockBreaks(v, n, pos, margin, style, k, k + 1, 0)'
<1>1. /\ n \in Nat \ {0} /\ margin \in Nat /\ k \in Nat /\ pos[k] \in Nat /\ v \in Seq(Characters) /\ n = Len(v)
      /\ BlockAt(v, k, n, margin, style, text, pos[k], pos[k + 1])
      /\ k + 1 \in 1..(n + 1)
  <2>1. n \in Nat \ {0} /\ k \in 1..(n + 1)
    BY BlockFacts
  <2> QED BY <2>1, BlockFacts
<1>2. /\ phase = "breaks" /\ k \in 2..n /\ v[k] \in Break /\ v[k - 1] \notin Break /\ Again(v, k, style)
      /\ index = pos[k] + 1 /\ column = 0
      /\ result = Before(v, k) /\ leading_break = <<"\n">> /\ trailing_breaks = <<>>
      /\ indent = margin /\ (leading_blanks <=> LineOfBlank(v, k))
  BY DEF BlockTwice
<1>3. v[k] = "\n" /\ At(text, pos[k] + 1) = v[k] /\ pos[k + 1] = pos[k] + 2
  BY <1>1, <1>2 DEF BlockAt, Again, Twice
<1>4. Here = v[k] /\ Here \in Break
  BY <1>2, <1>3 DEF Here
<1>5. EmptyLine
  BY <1>2, <1>4, StepsOf DEF Indentation, BlockLine, Break
<1>6. /\ phase' = phase /\ index' = index + 1 /\ column' = 0 /\ result' = result
      /\ leading_break' = leading_break /\ trailing_breaks' = Append(trailing_breaks, v[k])
      /\ leading_blanks' = leading_blanks /\ indent' = indent
  BY <1>4, <1>5 DEF EmptyLine, SkipLine
<1>7. PICK r, t, u, c : r = result' /\ t = trailing_breaks /\ u = trailing_breaks' /\ c = v[k]
  OBVIOUS
<1>8. u = <<c>> /\ u # <<>>
  <2>1. t = <<>> /\ u = Append(t, c)
    BY <1>2, <1>6, <1>7
  <2> QED BY ONLY <2>1
<1>9. v \in Seq(Characters) /\ k \in 1..Len(v) /\ r = Before(v, k) /\ c = v[k] /\ u = <<c>>
  BY <1>1, <1>2, <1>6, <1>7, <1>8
<1>10. Spans(r, u, v, k + 1)
  BY ONLY <1>9, SpansOne
<1>11. trailing_breaks' # <<>> /\ Spans(result', trailing_breaks', v, k + 1)
  BY ONLY <1>7, <1>8, <1>10, Zenon
<1>12. 0 \in 0..BlockLead(v, k + 1, n, margin) /\ index' = pos[k + 1] + 0 /\ column' = 0
  <2>1. BlockLead(v, k + 1, n, margin) \in {0, margin}
    BY <1>1, BlockLeadIs
  <2>2. index' = pos[k + 1] /\ pos[k + 1] \in Nat
    BY <1>1, <1>2, <1>3, <1>6
  <2> QED BY <1>1, <1>6, <2>1, <2>2
<1>13. k + 1 \in (k + 1)..(n + 1) /\ \A i \in k..((k + 1) - 1) : v[i] \in Break
  <2>1. \A i \in k..((k + 1) - 1) : i = k
    BY <1>1
  <2> QED BY <1>1, <1>2, <2>1
<1>14. leading_break' = <<v[k]>>
  BY <1>2, <1>3, <1>6
<1> QED BY <1>2, <1>6, <1>11, <1>12, <1>13, <1>14 DEF BlockBreaks

(* What Misread leaves out: a break is folded just where it is written twice, and  *)
(* of several at the end none is.                                                  *)
LEMMA FoldsAgree ==
  ASSUME NEW v, NEW n, NEW pos, NEW margin, NEW style, BlockAhead(v, n, pos, margin, style),
         NEW m \in 2..n, NEW k \in (m + 1)..(n + 1), v[m - 1] \notin Break,
         \A i \in m..(k - 1) : v[i] \in Break
  PROVE  /\ Again(v, m, style) => style = "folded" /\ v[m] = "\n" /\ ~LineOfBlank(v, m)
         /\ Again(v, m, style) /\ k # n + 1 => v[k] \notin Blank
         /\ Again(v, m, style) /\ k = n + 1 => k = m + 1
         /\ ~Again(v, m, style) /\ style = "folded" /\ v[m] = "\n" /\ ~LineOfBlank(v, m)
            /\ k # n + 1 /\ v[k] \notin Break => v[k] \in Blank
<1>1. /\ v \in Seq(Characters) /\ n = Len(v) /\ n \in Nat \ {0}
      /\ \A i \in 1..n : v[i] \in Characters \ {"ctl", "z"}
      /\ v[1] \notin Break \cup {"\t"} /\ ~Misread(v, style, place, best_indent)
  BY DEF BlockAhead
<1>2. DOMAIN v = 1..n
  <2>1. v \in Seq(Characters) /\ n = Len(v)
    BY <1>1
  <2> QED BY ONLY <2>1
<1>3. /\ m \in Nat /\ k \in Nat /\ m < k /\ m \in 2..Len(v) /\ k \in 3..(Len(v) + 1)
      /\ m - 1 \in 1..n /\ m \in 1..n /\ (k # n + 1 => k \in 1..n) /\ k \in 1..(n + 1)
  BY <1>1
<1>4. style = "folded" => ~Misfolded(v, m, k)
  BY <1>1, <1>3 DEF Misread
<1>5. /\ At(v, m - 1) = v[m - 1] /\ At(v, m - 1) # "z"
      /\ k # n + 1 => At(v, k) = v[k] /\ v[k] # "z"
  BY <1>1, <1>2, <1>3 DEF At
<1>6. Twice(v, m) <=> v[m] = "\n" /\ ~LineOfBlank(v, m) /\ v[1] # "space"
  <2>1. (\E i \in 1..n : v[i] \notin Blank \cup Break /\ \A l \in 1..(i - 1) : v[l] \in Break)
           <=> v[1] \notin Blank \cup Break
    <3>1. ASSUME NEW i \in 1..n, v[i] \notin Blank \cup Break, \A l \in 1..(i - 1) : v[l] \in Break
          PROVE  v[1] \notin Blank \cup Break
      <4>1. i = 1 \/ 1 \in 1..(i - 1)
        BY <1>1
      <4> QED BY <1>1, <3>1, <4>1
    <3>2. ASSUME v[1] \notin Blank \cup Break
          PROVE  \E i \in 1..n : v[i] \notin Blank \cup Break /\ \A l \in 1..(i - 1) : v[l] \in Break
      <4>1. 1 \in 1..n /\ \A l \in 1..(1 - 1) : v[l] \in Break
        BY <1>1
      <4> QED BY <3>2, <4>1
    <3> QED BY <3>1, <3>2
  <2>2. v[1] \notin Blank \cup Break <=> v[1] # "space"
    BY <1>1 DEF Blank
  <2>3. Twice(v, m) <=> v[m] = "\n" /\ ~LineOfBlank(v, m) /\ v[1] \notin Blank \cup Break
    BY <1>2, <1>5, <2>1 DEF Twice
  <2> QED BY <2>2, <2>3
<1>7. style = "folded" /\ v[m] = "\n" /\ ~LineOfBlank(v, m) =>
        /\ v[1] = "space" => At(v, k) \in Blankz
        /\ v[1] # "space" => At(v, k) \notin Blank /\ ~(k = Len(v) + 1 /\ k > m + 1)
  BY <1>3, <1>4 DEF Misfolded
<1>8. Again(v, m, style) => style = "folded" /\ v[m] = "\n" /\ ~LineOfBlank(v, m) /\ v[1] # "space"
  BY <1>6 DEF Again
<1>9. ~Again(v, m, style) /\ style = "folded" /\ v[m] = "\n" /\ ~LineOfBlank(v, m) => v[1] = "space"
  BY <1>6 DEF Again
<1>10. Again(v, m, style) /\ k = n + 1 => k = m + 1
  <2>1. ASSUME k = Len(v) + 1, ~(k > m + 1) PROVE k = m + 1
    BY <1>3, <2>1
  <2> QED BY <1>1, <1>7, <1>8, <2>1
<1>11. ~Again(v, m, style) /\ style = "folded" /\ v[m] = "\n" /\ ~LineOfBlank(v, m)
         /\ k # n + 1 /\ v[k] \notin Break => v[k] \in Blank
  BY <1>5, <1>7, <1>9 DEF Blankz
<1> QED BY <1>5, <1>7, <1>8, <1>10, <1>11

(* An empty line.                                                                  *)
LEMMA BlockEmpty ==
  ASSUME Sound, NEW v, NEW n, NEW pos, NEW margin, NEW style, BlockAhead(v, n, pos, margin, style),
         NEW m, NEW k \in 1..n, v[k] \in Break, BlockBreaks(v, n, pos, margin, style, m, k, 0), Next
  PROVE  BlockBreaks(v, n, pos, margin, style, m, k + 1, 0)'
<1>1. /\ n \in Nat \ {0} /\ margin \in Nat /\ k \in Nat /\ pos[k] \in Nat /\ v \in Seq(Characters) /\ n = Len(v)
      /\ BlockAt(v, k, n, margin, style, text, pos[k], pos[k + 1])
      /\ k + 1 \in 1..(n + 1)
  <2>1. n \in Nat \ {0} /\ k \in 1..(n + 1)
    BY BlockFacts
  <2> QED BY <2>1, BlockFacts
<1>2. /\ phase = "breaks" /\ m \in 2..n /\ k \in (m + 1)..(n + 1)
      /\ v[m - 1] \notin Break /\ \A i \in m..(k - 1) : v[i] \in Break
      /\ index = pos[k] + 0 /\ column = 0
      /\ result = Before(v, m) /\ leading_break = <<v[m]>>
      /\ indent = margin /\ (leading_blanks <=> LineOfBlank(v, m))
  BY DEF BlockBreaks
<1>3. IF Again(v, m, style) THEN trailing_breaks # <<>> /\ Spans(result, trailing_breaks, v, k)
      ELSE \E w : Gathered(w, leading_break, trailing_breaks) /\ Spans(result, w, v, k)
  BY DEF BlockBreaks
<1>4. ~Again(v, k, style)
  <2>1. v[k - 1] \in Break /\ k - 1 \in 1..n
    BY <1>1, <1>2
  <2>2. k - 1 \in DOMAIN v
    <3>1. v \in Seq(Characters) /\ k - 1 \in 1..Len(v)
      BY <1>1, <2>1
    <3> QED BY ONLY <3>1
  <2> QED BY <2>1, <2>2 DEF Again, Twice, At
<1>5. At(text, pos[k]) = v[k] /\ pos[k + 1] = pos[k] + 1 /\ index = pos[k]
  BY <1>1, <1>2, <1>4 DEF BlockAt
<1>6. Here = v[k] /\ Here \in Break
  BY <1>5 DEF Here
<1>7. EmptyLine
  BY <1>2, <1>6, StepsOf DEF Indentation, BlockLine, Break
<1>8. /\ phase' = phase /\ index' = index + 1 /\ column' = 0 /\ result' = result
      /\ leading_break' = leading_break /\ trailing_breaks' = Append(trailing_breaks, v[k])
      /\ leading_blanks' = leading_blanks /\ indent' = indent
  BY <1>6, <1>7 DEF EmptyLine, SkipLine
<1>9. PICK r, l, t, u, c : r = result /\ l = leading_break /\ t = trailing_breaks /\ u = trailing_breaks' /\ c = v[k]
  OBVIOUS
<1>10. /\ l \in Seq(Break) /\ t \in Seq(Break) /\ c \in Break /\ Grows(t, c, u) /\ r \in Seq(Characters)
       /\ v \in Seq(Characters) /\ k \in 1..Len(v)
  BY <1>1, <1>2, <1>8, <1>9 DEF Sound, TypeOK, Grows
<1>11. u # <<>> /\ t \in Seq(Characters)
  <2>1. Append(t, c) # <<>>
    BY ONLY <1>10
  <2>2. Break \subseteq Characters /\ t \in Seq(Break)
    BY <1>10 DEF Characters
  <2>3. t \in Seq(Characters)
    BY ONLY <2>2, Wider
  <2> QED BY ONLY <1>10, <2>1, <2>3, Zenon DEF Grows
<1>12. IF Again(v, m, style) THEN trailing_breaks' # <<>> /\ Spans(result', trailing_breaks', v, k + 1)
       ELSE \E w : Gathered(w, leading_break', trailing_breaks') /\ Spans(result', w, v, k + 1)
  <2>1. CASE Again(v, m, style)
    <3>1. Spans(r, t, v, k) /\ u = Append(t, v[k])
      BY ONLY <1>3, <1>8, <1>9, <2>1, Zenon
    <3>2. Spans(r, u, v, k + 1)
      BY ONLY <1>10, <1>11, <3>1, SpansNext
    <3> QED BY ONLY <1>8, <1>9, <1>11, <2>1, <3>2, Zenon
  <2>2. CASE ~Again(v, m, style)
    <3>1. PICK w : Gathered(w, leading_break, trailing_breaks) /\ Spans(result, w, v, k)
      BY ONLY <1>3, <2>2, Zenon
    <3>2. PICK x : Grows(w, c, x) /\ x = Append(w, v[k])
      BY <1>9 DEF Grows
    <3>3. Gathered(w, l, t)
      BY ONLY <1>9, <3>1, Zenon
    <3>4. Gathered(x, l, u) /\ w \in Seq(Characters)
      BY ONLY <1>10, <3>2, <3>3, GatheredNext
    <3>5. Spans(r, w, v, k)
      BY ONLY <1>9, <3>1, Zenon
    <3>6. Spans(r, x, v, k + 1)
      BY ONLY <1>10, <3>2, <3>4, <3>5, SpansNext
    <3> QED BY ONLY <1>8, <1>9, <2>2, <3>4, <3>6, Zenon
  <2> QED BY ONLY <2>1, <2>2
<1>13. 0 \in 0..BlockLead(v, k + 1, n, margin) /\ index' = pos[k + 1] + 0 /\ column' = 0
  <2>1. BlockLead(v, k + 1, n, margin) \in {0, margin}
    BY <1>1, BlockLeadIs
  <2>2. index' = pos[k + 1] /\ pos[k + 1] \in Nat
    BY <1>1, <1>2, <1>5, <1>8
  <2> QED BY <1>1, <1>8, <2>1, <2>2
<1>14. k + 1 \in (m + 1)..(n + 1) /\ \A i \in m..((k + 1) - 1) : v[i] \in Break
  <2>1. \A i \in m..((k + 1) - 1) : i \in m..(k - 1) \/ i = k
    BY <1>1, <1>2
  <2> QED BY <1>1, <1>2, <2>1
<1> QED BY <1>2, <1>8, <1>12, <1>13, <1>14 DEF BlockBreaks

(* The indentation of the next line.                                               *)
LEMMA BlockIndents ==
  ASSUME Sound, NEW v, NEW n, NEW pos, NEW margin, NEW style, BlockAhead(v, n, pos, margin, style),
         NEW m, NEW k \in 1..n, NEW j \in Nat, j < BlockLead(v, k, n, margin),
         BlockBreaks(v, n, pos, margin, style, m, k, j), Next
  PROVE  BlockBreaks(v, n, pos, margin, style, m, k, j + 1)'
<1>1. /\ n \in Nat \ {0} /\ margin \in Nat /\ k \in Nat /\ pos[k] \in Nat
      /\ BlockAt(v, k, n, margin, style, text, pos[k], pos[k + 1])
  <2>1. n \in Nat \ {0} /\ k \in 1..(n + 1)
    BY BlockFacts
  <2> QED BY <2>1, BlockFacts
<1>2. PICK d : d = BlockLead(v, k, n, margin)
  OBVIOUS
<1>3. d = margin /\ v[k] \notin Break /\ d \in Nat
  <2>1. d \in {0, margin} /\ (v[k] \in Break => d = 0)
    BY <1>1, <1>2, BlockLeadIs
  <2> QED BY <1>1, <1>2, <2>1
<1>4. /\ phase = "breaks" /\ index = pos[k] + j /\ column = j /\ indent = margin
  BY DEF BlockBreaks
<1>5. At(text, pos[k] + j) = "space"
  <2>1. j \in 0..(d - 1)
    BY <1>2, <1>3
  <2> QED BY <1>1, <1>2, <1>3, <2>1 DEF BlockAt
<1>6. Here = "space" /\ Indenting
  BY <1>2, <1>3, <1>4, <1>5 DEF Here, Indenting
<1>7. Indentation
  BY <1>4, <1>6, StepsOf DEF EmptyLine, BlockLine, Break
<1>8. /\ phase' = phase /\ index' = index + 1 /\ column' = column + 1 /\ result' = result
      /\ leading_break' = leading_break /\ trailing_breaks' = trailing_breaks
      /\ leading_blanks' = leading_blanks /\ indent' = indent
  BY <1>7 DEF Indentation, Skip, gap, block
<1>9. j + 1 \in 0..d /\ index' = pos[k] + (j + 1) /\ column' = j + 1
  BY <1>1, <1>2, <1>3, <1>4, <1>8
<1>10. IF Again(v, m, style) THEN trailing_breaks' # <<>> /\ Spans(result', trailing_breaks', v, k)
       ELSE \E w : Gathered(w, leading_break', trailing_breaks') /\ Spans(result', w, v, k)
  <2>1. IF Again(v, m, style) THEN trailing_breaks # <<>> /\ Spans(result, trailing_breaks, v, k)
        ELSE \E w : Gathered(w, leading_break, trailing_breaks) /\ Spans(result, w, v, k)
    BY DEF BlockBreaks
  <2> QED BY ONLY <1>8, <2>1, Zenon
<1>11. /\ phase = "breaks" /\ m \in 2..n /\ k \in (m + 1)..(n + 1)
       /\ v[m - 1] \notin Break /\ \A i \in m..(k - 1) : v[i] \in Break
       /\ result = Before(v, m) /\ leading_break = <<v[m]>>
       /\ indent = margin /\ (leading_blanks <=> LineOfBlank(v, m))
  BY DEF BlockBreaks
<1> QED BY <1>2, <1>8, <1>9, <1>10, <1>11 DEF BlockBreaks

(* Three sequences one after the other, the second of which may be empty.          *)
InTurn(x, r, l, t) == x = r \o l \o t

LEMMA InTurnGathered ==
  ASSUME NEW r, NEW l, NEW t, NEW w, NEW x, NEW v, NEW k,
         r \in Seq(Characters), l \in Seq(Characters), t \in Seq(Characters),
         Gathered(w, l, t), Spans(r, w, v, k), InTurn(x, r, l, t)
  PROVE  x = Before(v, k)
<1>1. r \in Seq(Characters) /\ l \in Seq(Characters) /\ t \in Seq(Characters)
  OBVIOUS
<1>2. (r \o l) \o t = r \o (l \o t)
  BY ONLY <1>1, Associative
<1>3. w = l \o t /\ r \o w = Before(v, k) /\ x = (r \o l) \o t
  BY ONLY Gathered(w, l, t), Spans(r, w, v, k), InTurn(x, r, l, t), Zenon DEF Gathered, Spans, InTurn
<1> QED BY ONLY <1>2, <1>3, Zenon

LEMMA InTurnTrailing ==
  ASSUME NEW r, NEW l, NEW t, NEW x, NEW v, NEW k,
         r \in Seq(Characters), l = <<>>, t \in Seq(Characters),
         Spans(r, t, v, k), InTurn(x, r, l, t)
  PROVE  x = Before(v, k)
<1>1. r \in Seq(Characters)
  OBVIOUS
<1>2. r \o <<>> = r
  BY ONLY <1>1, NothingMore
<1>3. r \o t = Before(v, k) /\ x = (r \o l) \o t /\ l = <<>>
  BY ONLY l = <<>>, Spans(r, t, v, k), InTurn(x, r, l, t), Zenon DEF Spans, InTurn
<1> QED BY ONLY <1>2, <1>3, Zenon

LEMMA InTurnLeading ==
  ASSUME NEW r, NEW l, NEW t, NEW x, NEW v, NEW k,
         r \in Seq(Characters), l \in Seq(Characters), t = <<>>,
         Spans(r, l, v, k), InTurn(x, r, l, t)
  PROVE  x = Before(v, k)
<1>1. r \in Seq(Characters) /\ l \in Seq(Characters)
  OBVIOUS
<1>2. r \o l \in Seq(Characters)
  BY ONLY <1>1, Both
<1>3. (r \o l) \o <<>> = r \o l
  BY ONLY <1>2, NothingMore
<1>4. r \o l = Before(v, k) /\ x = (r \o l) \o t /\ t = <<>>
  BY ONLY t = <<>>, Spans(r, l, v, k), InTurn(x, r, l, t), Zenon DEF Spans, InTurn
<1> QED BY ONLY <1>3, <1>4, Zenon

(* The next line: what was between the two is added, folded or not.                *)
LEMMA BlockLineBegins ==
  ASSUME Sound, NEW v, NEW n, NEW pos, NEW margin, NEW style, BlockAhead(v, n, pos, margin, style),
         NEW m, NEW k \in 1..n, v[k] \notin Break,
         BlockBreaks(v, n, pos, margin, style, m, k, BlockLead(v, k, n, margin)), Next
  PROVE  BlockIn(v, n, pos, margin, k)'
<1>1. /\ n \in Nat \ {0} /\ margin \in Nat /\ margin >= 2 /\ k \in Nat /\ pos[k] \in Nat
      /\ v \in Seq(Characters) /\ n = Len(v) /\ v[k] \in Characters \ {"ctl", "z"}
      /\ BlockAt(v, k, n, margin, style, text, pos[k], pos[k + 1])
      /\ style \in Blocks
      /\ At(text, Len(Where.before) + 1) = (IF style = "folded" THEN ">" ELSE "|")
      /\ k \in 1..(n + 1) /\ k # n + 1
  <2>1. n \in Nat \ {0} /\ k \in 1..(n + 1) /\ k # n + 1
    BY BlockFacts
  <2> QED BY <2>1, BlockFacts
<1>2. /\ phase = "breaks" /\ m \in 2..n /\ k \in (m + 1)..(n + 1)
      /\ v[m - 1] \notin Break /\ \A i \in m..(k - 1) : v[i] \in Break
      /\ index = pos[k] + BlockLead(v, k, n, margin) /\ column = BlockLead(v, k, n, margin)
      /\ result = Before(v, m) /\ leading_break = <<v[m]>>
      /\ indent = margin /\ (leading_blanks <=> LineOfBlank(v, m))
  BY DEF BlockBreaks
<1>3. IF Again(v, m, style) THEN trailing_breaks # <<>> /\ Spans(result, trailing_breaks, v, k)
      ELSE \E w : Gathered(w, leading_break, trailing_breaks) /\ Spans(result, w, v, k)
  BY DEF BlockBreaks
<1>4. k # 1 /\ v[k - 1] \in Break
  BY <1>1, <1>2
<1>5. BlockLead(v, k, n, margin) = margin
  BY <1>1, <1>4, BlockLeadIs
<1>6. Here = v[k] /\ column = margin /\ Here \notin Break /\ Here # "z"
  BY <1>1, <1>2, <1>5 DEF BlockAt, Here
<1>7. ~Indenting /\ Determined = margin
  BY <1>1, <1>2, <1>6 DEF Indenting, Determined
<1>8. BlockLine
  BY <1>2, <1>6, <1>7, StepsOf DEF EmptyLine, Indentation
<1>9. /\ phase' = "line" /\ index' = index /\ indent' = margin
      /\ leading_break' = <<>> /\ trailing_breaks' = <<>> /\ leading_blanks' = (Here \in Blank)
  BY <1>6, <1>7, <1>8 DEF BlockLine, mark
<1>10. PICK folds, joint :
         /\ folds <=> /\ At(text, Len(Where.before) + 1) = ">" /\ ~leading_blanks /\ Here \notin Blank
                      /\ leading_break = <<"\n">>
         /\ joint = (IF ~folds THEN leading_break ELSE IF trailing_breaks = <<>> THEN <<"space">> ELSE <<>>)
         /\ InTurn(result', result, joint, trailing_breaks)
  BY <1>6, <1>7, <1>8 DEF BlockLine, InTurn
<1>11. leading_break = <<"\n">> <=> v[m] = "\n"
  BY <1>2
<1>12. folds <=> style = "folded" /\ ~LineOfBlank(v, m) /\ v[k] \notin Blank /\ v[m] = "\n"
  BY <1>1, <1>2, <1>6, <1>10, <1>11
<1>13. folds <=> Again(v, m, style)
  <2>1. /\ Again(v, m, style) => style = "folded" /\ v[m] = "\n" /\ ~LineOfBlank(v, m)
        /\ Again(v, m, style) /\ k # n + 1 => v[k] \notin Blank
        /\ ~Again(v, m, style) /\ style = "folded" /\ v[m] = "\n" /\ ~LineOfBlank(v, m)
            /\ k # n + 1 /\ v[k] \notin Break => v[k] \in Blank
    BY <1>2, FoldsAgree
  <2> QED BY <1>1, <1>12, <2>1
<1>14. PICK x, r, l, t : x = result' /\ r = result /\ l = leading_break /\ t = trailing_breaks
  OBVIOUS
<1>15. r \in Seq(Characters) /\ l \in Seq(Characters) /\ t \in Seq(Characters)
  <2>1. r \in Seq(Characters) /\ l \in Seq(Break) /\ t \in Seq(Break) /\ Break \subseteq Characters
    BY <1>2, <1>14 DEF Sound, TypeOK, Characters
  <2>2. l \in Seq(Characters) /\ t \in Seq(Characters)
    BY ONLY <2>1, Wider
  <2> QED BY <2>1, <2>2
<1>16. x = Before(v, k)
  <2>1. CASE folds
    <3>1. joint = <<>> /\ Spans(r, t, v, k) /\ InTurn(x, r, joint, t)
      BY ONLY <1>3, <1>10, <1>13, <1>14, <2>1, Zenon
    <3> QED BY ONLY <1>15, <3>1, InTurnTrailing
  <2>2. CASE ~folds
    <3>1. PICK w : Gathered(w, l, t) /\ Spans(r, w, v, k)
      BY ONLY <1>3, <1>13, <1>14, <2>2, Zenon
    <3>2. InTurn(x, r, l, t)
      BY ONLY <1>10, <1>14, <2>2, Zenon
    <3> QED BY ONLY <1>15, <3>1, <3>2, InTurnGathered
  <2> QED BY <2>1, <2>2
<1>17. leading_blanks' <=> LineOfBlank(v, k)
  <2>1. LineOfBlank(v, k) <=> v[k] \in Blank
    BY <1>1, <1>4, LineBegins
  <2> QED BY <1>6, <1>9, <2>1
<1>18. index' = pos[k] + BlockLead(v, k, n, margin)
  BY <1>2, <1>9
<1> QED BY <1>1, <1>9, <1>14, <1>16, <1>17, <1>18 DEF BlockIn

(* The end, after the breaks of the string: one is kept without a hint.            *)
LEMMA BlockEnds ==
  ASSUME Sound, NEW v, NEW n, NEW pos, NEW margin, NEW style, BlockAhead(v, n, pos, margin, style),
         NEW m, NEW j, BlockBreaks(v, n, pos, margin, style, m, n + 1, j), Chomped(v, n), Next
  PROVE  phase' = "read" /\ result' = v
<1>1. /\ n \in Nat \ {0} /\ margin \in Nat /\ margin >= 2 /\ pos[n + 1] \in Nat
      /\ v \in Seq(Characters) /\ n = Len(v) /\ n \in 1..n /\ n + 1 \notin 1..n
      /\ v[n] \in Break => At(text, pos[n + 1]) \in {"z", "b", "-", ":"}
  <2>1. n \in Nat \ {0} /\ n + 1 \in 1..(n + 1) /\ n \in 1..n /\ n + 1 \notin 1..n
    BY BlockFacts
  <2> QED BY <2>1, BlockFacts
<1>2. BlockLead(v, n + 1, n, margin) = 0
  BY <1>1, BlockLeadIs
<1>3. /\ phase = "breaks" /\ m \in 2..n /\ n + 1 \in (m + 1)..(n + 1)
      /\ v[m - 1] \notin Break /\ \A i \in m..((n + 1) - 1) : v[i] \in Break
      /\ j \in 0..BlockLead(v, n + 1, n, margin) /\ index = pos[n + 1] + j /\ column = j
      /\ result = Before(v, m) /\ leading_break = <<v[m]>> /\ indent = margin
  BY DEF BlockBreaks
<1>4. IF Again(v, m, style) THEN trailing_breaks # <<>> /\ Spans(result, trailing_breaks, v, n + 1)
      ELSE \E w : Gathered(w, leading_break, trailing_breaks) /\ Spans(result, w, v, n + 1)
  BY DEF BlockBreaks
<1>5. j = 0 /\ index = pos[n + 1] /\ column = 0
  BY <1>1, <1>2, <1>3
<1>6. v[n] \in Break /\ (m # n => v[n - 1] \in Break /\ n # m) /\ (m = n => v[n - 1] \notin Break)
  <2>1. n \in m..((n + 1) - 1) /\ (m # n => n - 1 \in m..((n + 1) - 1))
    BY <1>1, <1>3
  <2> QED BY <1>3, <2>1
<1>7. Here \in {"z", "b", "-", ":"}
  BY <1>1, <1>5, <1>6 DEF Here
<1>8. Here \notin Break /\ Here # "space" /\ Here # "\t" /\ Determined = margin /\ column # margin
  BY <1>1, <1>3, <1>5, <1>7 DEF Break, Determined
<1>9. BlockLine
  BY <1>3, <1>8, StepsOf DEF EmptyLine, Indentation
<1>10. PICK x, r, l, t, c, d : /\ x = result' /\ r = result /\ l = leading_break /\ t = trailing_breaks
                               /\ c = (IF chomping = "-" THEN <<>> ELSE leading_break)
                               /\ d = (IF chomping = "+" THEN trailing_breaks ELSE <<>>)
  OBVIOUS
<1>11. phase' = "read" /\ InTurn(x, r, c, d)
  BY <1>8, <1>9, <1>10 DEF BlockLine, Finish, InTurn
<1>12. r \in Seq(Characters) /\ l \in Seq(Characters) /\ t \in Seq(Characters)
  <2>1. r \in Seq(Characters) /\ l \in Seq(Break) /\ t \in Seq(Break) /\ Break \subseteq Characters
    BY <1>3, <1>10 DEF Sound, TypeOK, Characters
  <2>2. l \in Seq(Characters) /\ t \in Seq(Characters)
    BY ONLY <2>1, Wider
  <2> QED BY <2>1, <2>2
<1>13. x = Before(v, n + 1)
  <2>1. CASE m = n
    <3>1. chomping = "clip"
      BY <1>6, <2>1 DEF Chomped, SignOf
    <3>2. c = l /\ d = <<>>
      BY ONLY <1>10, <3>1
    <3>3. v \in Seq(Characters) /\ m \in 1..Len(v) /\ r = Before(v, m) /\ l = <<v[m]>>
      BY <1>1, <1>3, <1>10
    <3>4. Spans(r, l, v, m + 1)
      BY ONLY <3>3, SpansOne
    <3>5. Spans(r, l, v, n + 1) /\ InTurn(x, r, l, d)
      BY ONLY <1>11, <2>1, <3>2, <3>4, Zenon
    <3> QED BY ONLY <1>12, <3>2, <3>5, InTurnLeading
  <2>2. CASE m # n
    <3>1. chomping = "+"
      BY <1>6, <2>2 DEF Chomped, SignOf
    <3>2. c = l /\ d = t
      BY ONLY <1>10, <3>1
    <3>3. ~Again(v, m, style)
      <4>1. Again(v, m, style) /\ n + 1 = n + 1 => n + 1 = m + 1
        BY <1>3, FoldsAgree
      <4> QED BY <1>1, <1>3, <2>2, <4>1
    <3>4. PICK w : Gathered(w, l, t) /\ Spans(r, w, v, n + 1)
      BY ONLY <1>4, <1>10, <3>3, Zenon
    <3>5. InTurn(x, r, l, t)
      BY ONLY <1>11, <3>2, Zenon
    <3> QED BY ONLY <1>12, <3>4, <3>5, InTurnGathered
  <2> QED BY <2>1, <2>2
<1>14. Before(v, n + 1) = v
  <2>1. v \in Seq(Characters) /\ n = Len(v)
    BY <1>1
  <2> QED BY ONLY <2>1, BeforeEnd
<1> QED BY ONLY <1>10, <1>11, <1>13, <1>14, Zenon

(* The end, if the last break is not of the string.                                *)
LEMMA BlockStops ==
  ASSUME Sound, NEW v, NEW n, NEW pos, NEW margin, NEW style, BlockAhead(v, n, pos, margin, style),
         BlockPast(v, n, pos, margin), Chomped(v, n), Next
  PROVE  phase' = "read" /\ result' = v
<1>1. /\ n \in Nat \ {0} /\ margin \in Nat /\ margin >= 2 /\ pos[n + 1] \in Nat /\ v \in Seq(Characters)
      /\ v[n] \notin Break => At(text, pos[n + 1] + 1) \in {"z", "b", "-", ":"}
  <2>1. n \in Nat \ {0} /\ n + 1 \in 1..(n + 1)
    BY BlockFacts
  <2> QED BY <2>1, BlockFacts
<1>2. /\ phase = "breaks" /\ v[n] \notin Break /\ index = pos[n + 1] + 1 /\ column = 0
      /\ result = v /\ indent = margin
  BY DEF BlockPast
<1>3. Here \in {"z", "b", "-", ":"}
  BY <1>1, <1>2 DEF Here
<1>4. Here \notin Break /\ Here # "space" /\ Here # "\t" /\ Determined = margin /\ column # margin
  BY <1>1, <1>2, <1>3 DEF Break, Determined
<1>5. BlockLine
  BY <1>2, <1>4, StepsOf DEF EmptyLine, Indentation
<1>6. chomping = "-"
  BY <1>2 DEF Chomped, SignOf
<1>7. PICK x, r, e : x = result' /\ r = result /\ e = <<>>
  OBVIOUS
<1>8. phase' = "read" /\ InTurn(x, r, e, e)
  <2>1. phase' = "read" /\ result' = result \o <<>> \o <<>>
    BY <1>4, <1>5, <1>6 DEF BlockLine, Finish
  <2> QED BY ONLY <1>7, <2>1, Zenon DEF InTurn
<1>9. r \o <<>> = r
  <2>1. r \in Seq(Characters)
    BY <1>1, <1>2, <1>7
  <2> QED BY ONLY <2>1, NothingMore
<1> QED BY ONLY <1>2, <1>7, <1>8, <1>9, Zenon DEF InTurn

BlockReading(v, n, pos, margin, style) ==
    \/ \E j \in Nat : BlockFirst(v, pos, margin, j)
    \/ \E k \in 1..(n + 1) : BlockIn(v, n, pos, margin, k)
    \/ \E k \in 1..n : BlockTwice(v, n, pos, margin, style, k)
    \/ \E m \in 2..n, k \in 1..(n + 1), j \in Nat : BlockBreaks(v, n, pos, margin, style, m, k, j)
    \/ BlockPast(v, n, pos, margin)

BlockReads ==
    \E v, n, pos, margin, style :
        /\ v = value /\ BlockAhead(v, n, pos, margin, style)
        /\ Chomped(v, n) /\ BlockReading(v, n, pos, margin, style)

(* What was written stays.                                                         *)
LEMMA BlockAheadNext ==
  ASSUME NEW v, NEW n, NEW pos, NEW margin, NEW style, BlockAhead(v, n, pos, margin, style),
         UNCHANGED input, UNCHANGED output
  PROVE  BlockAhead(v, n, pos, margin, style)'
  BY DEF BlockAhead, input, output, Where

(* The hint at the end is read once.                                               *)
LEMMA ChompedStays ==
  ASSUME Next, phase \in {"breaks", "line"}, NEW v, NEW n, Chomped(v, n)
  PROVE  Chomped(v, n)'
<1>1. Indentation \/ EmptyLine \/ BlockLine \/ BlockCharacter \/ BlockLineEnd
  BY StepsOf
<1>2. chomping' = chomping
  BY <1>1 DEF Indentation, EmptyLine, BlockLine, BlockCharacter, BlockLineEnd, block
<1> QED BY <1>2 DEF Chomped

(* From each state to the next.                                                    *)
LEMMA BlockGoesOn ==
  ASSUME Sound, NEW v, NEW n, NEW pos, NEW margin, NEW style, BlockAhead(v, n, pos, margin, style),
         Chomped(v, n), BlockReading(v, n, pos, margin, style), Next
  PROVE  (phase' = "read" /\ result' = v) \/ BlockReading(v, n, pos, margin, style)'
<1>1. /\ n \in Nat \ {0} /\ margin \in Nat /\ 1 \in 1..(n + 1)
      /\ \A k \in 1..n : k \in 1..(n + 1) /\ k + 1 \in 1..(n + 1)
      /\ \A k \in 1..(n + 1) : k \in 1..n \/ k = n + 1
  <2>1. n \in Nat \ {0} /\ margin \in Nat
    BY BlockFacts
  <2> QED BY <2>1
<1>2. CASE \E j \in Nat : BlockFirst(v, pos, margin, j)
  <2>1. PICK j \in Nat : BlockFirst(v, pos, margin, j)
    BY <1>2
  <2>2. j \in 0..margin
    BY <2>1 DEF BlockFirst
  <2>3. CASE j < margin
    <3>1. BlockFirst(v, pos, margin, j + 1)' /\ j + 1 \in Nat
      BY <2>1, <2>3, BlockFirstIndents
    <3> QED BY <3>1 DEF BlockReading
  <2>4. CASE j = margin
    <3>1. BlockIn(v, n, pos, margin, 1)'
      BY <2>1, <2>4, BlockFirstLine
    <3> QED BY <1>1, <3>1 DEF BlockReading
  <2> QED BY <1>1, <2>2, <2>3, <2>4
<1>3. CASE \E k \in 1..(n + 1) : BlockIn(v, n, pos, margin, k)
  <2>1. PICK k \in 1..(n + 1) : BlockIn(v, n, pos, margin, k)
    BY <1>3
  <2>2. CASE k \in 1..n /\ v[k] \notin Break
    <3>1. BlockIn(v, n, pos, margin, k + 1)'
      BY <2>1, <2>2, BlockCharacters
    <3> QED BY <1>1, <2>2, <3>1 DEF BlockReading
  <2>3. CASE k \in 1..n /\ v[k] \in Break
    <3>1. BlockTwice(v, n, pos, margin, style, k)' \/ BlockBreaks(v, n, pos, margin, style, k, k + 1, 0)'
      BY <2>1, <2>3, BlockEndsLine
    <3>2. ASSUME BlockTwice(v, n, pos, margin, style, k)'
          PROVE  BlockReading(v, n, pos, margin, style)'
      BY <2>3, <3>2 DEF BlockReading
    <3>3. ASSUME BlockBreaks(v, n, pos, margin, style, k, k + 1, 0)'
          PROVE  BlockReading(v, n, pos, margin, style)'
      <4>1. k \in 2..n /\ k + 1 \in 1..(n + 1) /\ 0 \in Nat
        BY <1>1, <2>3, <3>3 DEF BlockBreaks
      <4> QED BY <3>3, <4>1 DEF BlockReading
    <3> QED BY <3>1, <3>2, <3>3
  <2>4. CASE k = n + 1
    <3>1. BlockPast(v, n, pos, margin)'
      BY <2>1, <2>4, BlockComesToEnd
    <3> QED BY <3>1 DEF BlockReading
  <2> QED BY <1>1, <2>2, <2>3, <2>4
<1>4. CASE \E k \in 1..n : BlockTwice(v, n, pos, margin, style, k)
  <2>1. PICK k \in 1..n : BlockTwice(v, n, pos, margin, style, k)
    BY <1>4
  <2>2. BlockBreaks(v, n, pos, margin, style, k, k + 1, 0)'
    BY <2>1, BlockSecond
  <2>3. k \in 2..n /\ k + 1 \in 1..(n + 1) /\ 0 \in Nat
    BY <1>1, <2>1 DEF BlockTwice
  <2> QED BY <2>2, <2>3 DEF BlockReading
<1>5. CASE \E m \in 2..n, k \in 1..(n + 1), j \in Nat : BlockBreaks(v, n, pos, margin, style, m, k, j)
  <2>1. PICK m \in 2..n, k \in 1..(n + 1), j \in Nat : BlockBreaks(v, n, pos, margin, style, m, k, j)
    BY <1>5
  <2>2. PICK l : l = BlockLead(v, k, n, margin)
    OBVIOUS
  <2>3. l \in Nat /\ j \in 0..l
    <3>1. l \in {0, margin}
      BY <1>1, <2>2, BlockLeadIs
    <3>2. j \in 0..l
      BY <2>1, <2>2 DEF BlockBreaks
    <3> QED BY <1>1, <3>1, <3>2
  <2>4. CASE k = n + 1
    BY <2>1, <2>4, BlockEnds
  <2>5. CASE k \in 1..n /\ j < l
    <3>1. BlockBreaks(v, n, pos, margin, style, m, k, j + 1)' /\ j + 1 \in Nat
      BY <2>1, <2>2, <2>5, BlockIndents
    <3> QED BY <2>1, <3>1 DEF BlockReading
  <2>6. CASE k \in 1..n /\ j = l /\ v[k] \in Break
    <3>1. j = 0
      BY <1>1, <2>2, <2>6, BlockLeadIs
    <3>2. BlockBreaks(v, n, pos, margin, style, m, k + 1, 0)' /\ 0 \in Nat
      BY <2>1, <2>6, <3>1, BlockEmpty
    <3> QED BY <1>1, <2>1, <2>6, <3>2 DEF BlockReading
  <2>7. CASE k \in 1..n /\ j = l /\ v[k] \notin Break
    <3>1. BlockIn(v, n, pos, margin, k)'
      BY <2>1, <2>2, <2>7, BlockLineBegins
    <3> QED BY <2>1, <3>1 DEF BlockReading
  <2> QED BY <1>1, <2>1, <2>3, <2>4, <2>5, <2>6, <2>7
<1>6. CASE BlockPast(v, n, pos, margin)
  BY <1>6, BlockStops
<1> QED BY <1>2, <1>3, <1>4, <1>5, <1>6 DEF BlockReading

(* Every step of a block scalar.                                                   *)
LEMMA BlockStep ==
  ASSUME Sound, chosen \in Blocks, ~Misread(value, chosen, place, best_indent),
         Started \/ BlockReads, Next, phase \notin {"asked", "read"}
  PROVE  (phase' = "read" /\ result' = value) \/ BlockReads'
<1>1. UNCHANGED input /\ UNCHANGED output
  BY Keeps
<1>2. ASSUME NEW v, NEW n, NEW pos, NEW margin, NEW style, v = value,
             BlockAhead(v, n, pos, margin, style), Chomped(v, n)',
             BlockReading(v, n, pos, margin, style)'
      PROVE  BlockReads'
  <2>1. BlockAhead(v, n, pos, margin, style)'
    BY <1>1, <1>2, BlockAheadNext
  <2>2. v = value'
    BY <1>1, <1>2 DEF input
  <2> QED BY <1>2, <2>1, <2>2 DEF BlockReads
<1>3. CASE Started
  <2>1. PICK v, n, pos, margin, style : v = value /\ BlockAhead(v, n, pos, margin, style)
    BY BlockIsAhead
  <2>2. BlockFirst(v, pos, margin, 0)' /\ Chomped(v, n)' /\ 0 \in Nat
    BY <1>3, <2>1, BlockStarts
  <2>3. BlockReading(v, n, pos, margin, style)'
    BY <2>2 DEF BlockReading
  <2> QED BY <1>2, <2>1, <2>2, <2>3
<1>4. CASE BlockReads
  <2>1. PICK v, n, pos, margin, style :
          /\ v = value /\ BlockAhead(v, n, pos, margin, style)
          /\ Chomped(v, n) /\ BlockReading(v, n, pos, margin, style)
    BY <1>4 DEF BlockReads
  <2>2. phase \in {"breaks", "line"}
    BY <2>1 DEF BlockReading, BlockFirst, BlockIn, BlockTwice, BlockBreaks, BlockPast
  <2>3. Chomped(v, n)'
    BY <2>1, <2>2, ChompedStays
  <2>4. (phase' = "read" /\ result' = v) \/ BlockReading(v, n, pos, margin, style)'
    BY <2>1, BlockGoesOn
  <2> QED BY <1>2, <2>1, <2>3, <2>4
<1> QED BY <1>3, <1>4

-----------------------------------------------------------------------------
(* All of them.                                                                    *)
(* The scanner holds what it has read: nothing before the scalar, of a scalar all  *)
(* the characters before the one it is at, and in the end all.                     *)
StyleReads ==
    /\ chosen = "plain" => PlainReads
    /\ chosen = "double" => DoubleReads
    /\ chosen = "single" => SingleReads
    /\ chosen \in Blocks /\ ~Misread(value, chosen, place, best_indent) => BlockReads

Reads ==
    /\ Sound
    /\ phase = "asked" => Clean /\ result = <<>> /\ max_indent = 0
    /\ phase = "written" => Started
    /\ phase \notin {"asked", "written", "read"} => StyleReads
    /\ phase = "read" /\ ~Misread(value, chosen, place, best_indent) => result = value

(* At the beginning.                                                               *)
LEMMA InitReads == Init => Reads
<1> SUFFICES ASSUME Init PROVE Reads
  OBVIOUS
<1>1. phase = "asked" /\ Clean /\ result = <<>> /\ max_indent = 0
  BY DEF Init, Clean
<1> QED BY <1>1, InitSound DEF Reads

(* The scanner starts where the scalar does.                                       *)
LEMMA EmitReads == Reads /\ Emit => Reads'
<1> SUFFICES ASSUME Reads, Emit PROVE Reads'
  OBVIOUS
<1>1. Sound' /\ Sound
  BY EmitSound DEF Reads
<1>2. /\ phase = "asked" /\ phase' = "written" /\ Clean /\ result = <<>> /\ max_indent = 0
      /\ index' = index + Len(Where.before) /\ column' = column + Len(Where.before)
      /\ Where' = Where /\ result' = result /\ UNCHANGED gap /\ UNCHANGED block
  BY DEF Reads, Emit, Skip, Where, input
<1>3. index = 1 /\ column = 0
  BY <1>1, <1>2 DEF Sound, OutputOK
<1>4. Len(Where.before) \in Nat
  <2>1. place \in DOMAIN Places
    BY <1>1 DEF Sound, InputOK
  <2> QED BY <2>1, PlacesAre DEF Where
<1>5. Clean' /\ result' = <<>> /\ max_indent' = 0
  BY <1>2 DEF Clean, gap, block
<1>6. index' = Len(Where'.before) + 1 /\ column' = Len(Where'.before)
  BY <1>2, <1>3, <1>4
<1>7. Started'
  BY <1>2, <1>5, <1>6 DEF Started
<1> QED BY <1>1, <1>2, <1>7 DEF Reads

(* None of these states is the last.                                               *)
LEMMA StillReading ==
  /\ PlainReads' => phase' # "read"
  /\ DoubleReads' => phase' # "read"
  /\ SingleReads' => phase' # "read"
  /\ BlockReads' => phase' # "read"
<1>1. PlainReads' => phase' # "read"
  BY DEF PlainReads, PlainPast, PlainIn
<1>2. DoubleReads' => phase' # "read"
  BY DEF DoubleReads, DoubleIn
<1>3. SingleReads' => phase' # "read"
  BY DEF SingleReads, SingleReading, SingleIn, SingleBlanks, SingleTwice, SingleBreaks
<1>4. BlockReads' => phase' # "read"
  BY DEF BlockReads, BlockReading, BlockFirst, BlockIn, BlockTwice, BlockBreaks, BlockPast
<1> QED BY <1>1, <1>2, <1>3, <1>4

(* The steps of the scanner.                                                       *)
LEMMA ScannerReads == Reads /\ Next /\ phase \notin {"asked", "read"} => Reads'
<1> SUFFICES ASSUME Reads, Next, phase \notin {"asked", "read"} PROVE Reads'
  OBVIOUS
<1>1. Sound /\ Sound' /\ (Started \/ StyleReads)
  BY SoundStep DEF Reads
<1>2. UNCHANGED input /\ UNCHANGED output
  BY Keeps
<1>3. /\ value' = value /\ place' = place /\ best_indent' = best_indent /\ chosen' = chosen
  BY <1>2 DEF input, output
<1>4. phase' \notin {"asked", "written"}
  <2>1. DOMAIN GapOf = {"word", "single", "double"} /\ Range(GapOf) = {"gap", "single_gap", "double_gap"}
        /\ GapOf["word"] = "gap" /\ GapOf["single"] = "single_gap" /\ GapOf["double"] = "double_gap"
    BY GapOfIs
  <2>2. ConsumeBlank \/ ConsumeBreak => phase' \notin {"asked", "written"}
    BY <2>1 DEF InGap, ConsumeBlank, ConsumeBreak, Finish
  <2>3. FetchPlain \/ FetchQuoted \/ FetchBlock => phase' \notin {"asked", "written"}
    BY DEF FetchPlain, FetchQuoted, FetchBlock, Finish
  <2>4. PlainCharacter \/ PlainEnd \/ PlainResume => phase' \notin {"asked", "written"}
    BY DEF PlainCharacter, PlainEnd, PlainResume, Finish
  <2>5. QuotedCharacter \/ QuotedEnd \/ QuotedResume => phase' \notin {"asked", "written"}
    BY DEF QuotedCharacter, QuotedEnd, QuotedResume, Finish
  <2>6. Indentation \/ EmptyLine \/ BlockLine => phase' \notin {"asked", "written"}
    BY DEF Indentation, EmptyLine, BlockLine, Finish
  <2>7. BlockCharacter \/ BlockLineEnd => phase' \notin {"asked", "written"}
    BY DEF BlockCharacter, BlockLineEnd
  <2>8. phase \in {"written", "word", "gap", "single", "single_gap", "double", "double_gap", "breaks", "line"}
    BY <1>1 DEF Sound, TypeOK
  <2> QED BY <2>2, <2>3, <2>4, <2>5, <2>6, <2>7, <2>8, StepsOf
<1>5. chosen \in {"plain", "single", "double"} \cup Blocks
  BY <1>1 DEF Sound, OutputOK, Granted, StyleNames, Blocks
<1>6. Misread(value, chosen, place, best_indent) => chosen \in Blocks
  BY DEF Misread, Blocks
<1>7. CASE Misread(value, chosen, place, best_indent)
  BY <1>1, <1>3, <1>4, <1>6, <1>7 DEF Reads, StyleReads, Blocks
<1>8. CASE ~Misread(value, chosen, place, best_indent)
  <2>1. ASSUME chosen = "plain" PROVE (phase' = "read" /\ result' = value) \/ PlainReads'
    BY <1>1, <2>1, PlainStep DEF StyleReads
  <2>2. ASSUME chosen = "double" PROVE (phase' = "read" /\ result' = value) \/ DoubleReads'
    BY <1>1, <2>2, DoubleStep DEF StyleReads
  <2>3. ASSUME chosen = "single" PROVE (phase' = "read" /\ result' = value) \/ SingleReads'
    BY <1>1, <2>3, SingleStep DEF StyleReads
  <2>4. ASSUME chosen \in Blocks PROVE (phase' = "read" /\ result' = value) \/ BlockReads'
    BY <1>1, <1>8, <2>4, BlockStep DEF StyleReads
  <2>5. (phase' = "read" /\ result' = value) \/ (phase' # "read" /\ StyleReads')
    BY <1>3, <1>5, <2>1, <2>2, <2>3, <2>4, StillReading DEF StyleReads, Blocks
  <2>6. (phase' = "read" /\ result' = value') \/ (phase' # "read" /\ StyleReads')
    BY <1>3, <2>5
  <2> QED BY <1>1, <1>4, <2>6 DEF Reads
<1> QED BY <1>7, <1>8

LEMMA ReadsStays == Reads /\ UNCHANGED vars => Reads'
<1> SUFFICES ASSUME Reads, UNCHANGED vars PROVE Reads'
  OBVIOUS
<1>1. Sound'
  BY SoundStays DEF Reads
<1>2. /\ value' = value /\ asked' = asked /\ place' = place /\ best_indent' = best_indent
      /\ chosen' = chosen /\ text' = text /\ phase' = phase /\ index' = index /\ column' = column
      /\ result' = result /\ whitespaces' = whitespaces /\ leading_break' = leading_break
      /\ trailing_breaks' = trailing_breaks /\ leading_blanks' = leading_blanks
      /\ indent' = indent /\ max_indent' = max_indent /\ chomping' = chomping
  BY DEF vars, input, output, mark, gap, block
<1>3. Where' = Where /\ (Clean => Clean')
  BY <1>2 DEF Where, Clean
<1>4. Started => Started'
  BY <1>2, <1>3 DEF Started
<1>5. ASSUME PlainReads PROVE PlainReads'
  <2>1. PICK n, b, v : /\ v = value /\ n = Len(value) /\ b = Len(Where.before)
                       /\ PlainPast(v, n, b) \/ \E k \in 1..(n + 1) : PlainIn(v, n, b, k)
    BY <1>5 DEF PlainReads
  <2>2. PlainPast(v, n, b) => PlainPast(v, n, b)'
    BY <1>2 DEF PlainPast
  <2>3. ASSUME NEW k \in 1..(n + 1), PlainIn(v, n, b, k) PROVE PlainIn(v, n, b, k)'
    BY <1>2, <2>3 DEF PlainIn
  <2>4. v = value' /\ n = Len(value') /\ b = Len(Where'.before)
    BY <1>2, <1>3, <2>1
  <2>5. PlainPast(v, n, b)' \/ \E k \in 1..(n + 1) : PlainIn(v, n, b, k)'
    BY <2>1, <2>2, <2>3
  <2> QED BY <2>4, <2>5 DEF PlainReads
<1>6. ASSUME DoubleReads PROVE DoubleReads'
  <2>1. PICK n, off, v : /\ v = value /\ n = Len(value) /\ DoubleAhead(n, off)
                         /\ \E k \in 1..(n + 1) : DoubleIn(v, n, off, k)
    BY <1>6 DEF DoubleReads
  <2>2. PICK k \in 1..(n + 1) : DoubleIn(v, n, off, k)
    BY <2>1
  <2>3. DoubleIn(v, n, off, k)'
    BY <1>2, <2>2 DEF DoubleIn
  <2>4. DoubleAhead(n, off)'
    BY <1>2, <2>1, DoubleAheadNext DEF input, output
  <2>5. v = value' /\ n = Len(value')
    BY <1>2, <2>1
  <2> QED BY <2>3, <2>4, <2>5 DEF DoubleReads
<1>7. ASSUME SingleReads PROVE SingleReads'
  <2>1. PICK n, off, margin, v : /\ v = value /\ n = Len(value) /\ SingleAhead(n, off, margin)
                                 /\ \E k \in 1..(n + 1) : SingleReading(v, n, off, margin, k)
    BY <1>7 DEF SingleReads
  <2>2. PICK k \in 1..(n + 1) : SingleReading(v, n, off, margin, k)
    BY <2>1
  <2>3. /\ SingleIn(v, n, off, margin, k) => SingleIn(v, n, off, margin, k)'
        /\ SingleBlanks(v, n, off, k) => SingleBlanks(v, n, off, k)'
        /\ SingleTwice(v, n, off, k) => SingleTwice(v, n, off, k)'
    BY <1>2, <1>3 DEF SingleIn, SingleBlanks, SingleTwice
  <2>4. ASSUME NEW j \in Nat, SingleBreaks(v, n, off, margin, k, j)
        PROVE  SingleBreaks(v, n, off, margin, k, j)'
    BY <1>2, <2>4 DEF SingleBreaks
  <2>5. SingleReading(v, n, off, margin, k)'
    BY <2>2, <2>3, <2>4 DEF SingleReading
  <2>6. SingleAhead(n, off, margin)'
    BY <1>2, <2>1, SingleAheadNext DEF input, output
  <2>7. v = value' /\ n = Len(value')
    BY <1>2, <2>1
  <2> QED BY <2>5, <2>6, <2>7 DEF SingleReads
<1>8. ASSUME BlockReads PROVE BlockReads'
  <2>1. PICK v, n, pos, margin, style :
          /\ v = value /\ BlockAhead(v, n, pos, margin, style)
          /\ Chomped(v, n) /\ BlockReading(v, n, pos, margin, style)
    BY <1>8 DEF BlockReads
  <2>2. ASSUME NEW j \in Nat, BlockFirst(v, pos, margin, j) PROVE BlockFirst(v, pos, margin, j)'
    BY <1>2, <1>3, <2>2 DEF BlockFirst
  <2>3. ASSUME NEW k \in 1..(n + 1), BlockIn(v, n, pos, margin, k) PROVE BlockIn(v, n, pos, margin, k)'
    BY <1>2, <2>3 DEF BlockIn
  <2>4. ASSUME NEW k \in 1..n, BlockTwice(v, n, pos, margin, style, k)
        PROVE  BlockTwice(v, n, pos, margin, style, k)'
    BY <1>2, <2>4 DEF BlockTwice
  <2>5. ASSUME NEW m \in 2..n, NEW k \in 1..(n + 1), NEW j \in Nat,
               BlockBreaks(v, n, pos, margin, style, m, k, j)
        PROVE  BlockBreaks(v, n, pos, margin, style, m, k, j)'
    BY <1>2, <2>5 DEF BlockBreaks
  <2>6. BlockPast(v, n, pos, margin) => BlockPast(v, n, pos, margin)'
    BY <1>2 DEF BlockPast
  <2>7. BlockReading(v, n, pos, margin, style)'
    BY <2>1, <2>2, <2>3, <2>4, <2>5, <2>6 DEF BlockReading
  <2>8. BlockAhead(v, n, pos, margin, style)'
    BY <1>2, <2>1, BlockAheadNext DEF input, output
  <2>9. v = value' /\ Chomped(v, n)'
    BY <1>2, <2>1 DEF Chomped
  <2> QED BY <2>7, <2>8, <2>9 DEF BlockReads
<1>9. StyleReads => StyleReads'
  BY <1>2, <1>5, <1>6, <1>7, <1>8 DEF StyleReads
<1> QED BY <1>1, <1>2, <1>3, <1>4, <1>9 DEF Reads

(* Reads is inductive.                                                             *)
LEMMA ReadsStep == Reads /\ [Next]_vars => Reads'
<1> SUFFICES ASSUME Reads, [Next]_vars PROVE Reads'
  OBVIOUS
<1>1. CASE UNCHANGED vars
  BY <1>1, ReadsStays
<1>2. CASE Next /\ phase = "asked"
  <2>1. Emit
    BY <1>2, StepsOf
  <2> QED BY <2>1, EmitReads
<1>3. CASE Next /\ phase = "read"
  <2>1. UNCHANGED vars
    BY <1>3, StepsOf
  <2> QED BY <2>1, ReadsStays
<1>4. CASE Next /\ phase \notin {"asked", "read"}
  BY <1>4, ScannerReads
<1> QED BY <1>1, <1>2, <1>3, <1>4

(* ReadsBack: what the emitter wrote for a string, in whatever style and place, the *)
(* scanner reads as that string, but for the block scalars of Misread.              *)
THEOREM ScalarsReadBack == Spec => []ReadsBack
<1>1. Init => Reads
  BY InitReads
<1>2. Reads /\ [Next]_vars => Reads'
  BY ReadsStep
<1>3. Reads => ReadsBack
  BY DEF Reads, ReadsBack
<1> QED BY <1>1, <1>2, <1>3, PTL DEF Spec
=============================================================================
