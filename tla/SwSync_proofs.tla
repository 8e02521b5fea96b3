---------------------------- MODULE SwSync_proofs ----------------------------
(***************************************************************************)
(* Theorems about SwSync for any number of points and tasks, any width of  *)
(* the word and any increments.                                            *)
(***************************************************************************)
EXTENDS SwSync, SequenceTheorems, FiniteSetTheorems, WellFoundedInduction, TLAPS

-----------------------------------------------------------------------------
(* Lists of points without repetition.                                      *)
Distinct(s) == \A i, j \in 1..Len(s) : s[i] = s[j] => i = j

IsList(s) == s \in Seq(Points) /\ Distinct(s)

LEMMA ListFacts ==
  ASSUME NEW s \in Seq(Points)
  PROVE  /\ Len(s) \in Nat /\ DOMAIN s = 1..Len(s)
         /\ \A i \in 1..Len(s) : s[i] \in Points /\ s[i] \in Range(s)
         /\ \A p \in Range(s) : p \in Points /\ \E i \in 1..Len(s) : s[i] = p
<1>1. Len(s) \in Nat /\ DOMAIN s = 1..Len(s) /\ \A i \in 1..Len(s) : s[i] \in Points
  BY LenProperties, ElementOfSeq
<1>2. QED BY <1>1 DEF Range

LEMMA Inserted ==
  ASSUME NEW s, IsList(s), NEW p \in Points, p \notin Range(s), NEW k \in 1..(Len(s) + 1)
  PROVE  LET t == InsertAt(s, k, p)
         IN  /\ IsList(t) /\ Len(t) = Len(s) + 1
             /\ Range(t) = Range(s) \cup {p}
             /\ \A i \in 1..Len(t) : t[i] = IF i < k THEN s[i] ELSE IF i = k THEN p ELSE s[i - 1]
<1> DEFINE a == SubSeq(s, 1, k - 1)
           b == SubSeq(s, k, Len(s))
           t == InsertAt(s, k, p)
<1>1. s \in Seq(Points) /\ Len(s) \in Nat /\ Distinct(s) /\ k \in Nat /\ k >= 1 /\ k <= Len(s) + 1
      /\ \A i \in 1..Len(s) : s[i] \in Points
  BY ListFacts DEF IsList
<1>2. /\ a \in Seq(Points) /\ Len(a) = k - 1
      /\ \A i \in 1..(k - 1) : a[i] = s[i]
  <2>1. \A i \in 1..(k - 1) : s[i] \in Points
    BY <1>1
  <2>2. /\ a \in Seq(Points) /\ Len(a) = (IF 1 <= k - 1 THEN k - 1 - 1 + 1 ELSE 0)
        /\ \A i \in 1..(k - 1 - 1 + 1) : a[i] = s[1 + i - 1]
    BY <1>1, <2>1, SubSeqProperties
  <2>3. QED BY <1>1, <2>2
<1>3. /\ b \in Seq(Points) /\ Len(b) = Len(s) - k + 1
      /\ \A i \in 1..(Len(s) - k + 1) : b[i] = s[k + i - 1]
  <2>1. \A i \in k..Len(s) : s[i] \in Points
    BY <1>1
  <2>2. /\ b \in Seq(Points) /\ Len(b) = (IF k <= Len(s) THEN Len(s) - k + 1 ELSE 0)
        /\ \A i \in 1..(Len(s) - k + 1) : b[i] = s[k + i - 1]
    BY <1>1, <2>1, SubSeqProperties
  <2>3. QED BY <1>1, <2>2
<1>4. <<p>> \in Seq(Points) /\ Len(<<p>>) = 1 /\ <<p>>[1] = p
  OBVIOUS
<1> HIDE DEF a, b
<1>5. /\ a \o <<p>> \in Seq(Points) /\ Len(a \o <<p>>) = k
      /\ \A i \in 1..k : (a \o <<p>>)[i] = IF i < k THEN s[i] ELSE p
  <2>1. /\ a \o <<p>> \in Seq(Points) /\ Len(a \o <<p>>) = Len(a) + Len(<<p>>)
        /\ \A i \in 1..(Len(a) + Len(<<p>>)) :
             (a \o <<p>>)[i] = IF i <= Len(a) THEN a[i] ELSE <<p>>[i - Len(a)]
    BY <1>2, <1>4, ConcatProperties
  <2>2. QED BY <1>1, <1>2, <1>4, <2>1
<1>6. t = (a \o <<p>>) \o b
  BY DEF InsertAt, a, b
<1> HIDE DEF t
<1>7. /\ t \in Seq(Points) /\ Len(t) = Len(s) + 1
      /\ \A i \in 1..(Len(s) + 1) : t[i] = IF i < k THEN s[i] ELSE IF i = k THEN p ELSE s[i - 1]
  <2> DEFINE c == a \o <<p>>
  <2>1. c \in Seq(Points) /\ Len(c) = k /\ \A i \in 1..k : c[i] = IF i < k THEN s[i] ELSE p
    BY <1>5
  <2>2. t = c \o b
    BY <1>6
  <2> HIDE DEF c
  <2>3. /\ t \in Seq(Points) /\ Len(t) = Len(c) + Len(b)
        /\ \A i \in 1..(Len(c) + Len(b)) : t[i] = IF i <= Len(c) THEN c[i] ELSE b[i - Len(c)]
    BY <2>1, <2>2, <1>3, ConcatProperties
  <2>4. ASSUME NEW i \in 1..(Len(s) + 1) PROVE t[i] = IF i < k THEN s[i] ELSE IF i = k THEN p ELSE s[i - 1]
    <3>1. CASE i <= k
      <4>1. i \in 1..k /\ i \in 1..(Len(c) + Len(b)) /\ i <= Len(c)
        BY <3>1, <1>1, <1>3, <2>1
      <4>2. t[i] = c[i]
        BY <4>1, <2>3
      <4>3. c[i] = IF i < k THEN s[i] ELSE p
        BY <4>1, <2>1
      <4>4. QED BY <3>1, <4>2, <4>3, <1>1
    <3>2. CASE i > k
      <4>1. t[i] = b[i - k]
        BY <3>2, <1>1, <1>3, <2>1, <2>3
      <4>2. i - k \in 1..(Len(s) - k + 1) /\ k + (i - k) - 1 = i - 1
        BY <3>2, <1>1
      <4>3. b[i - k] = s[k + (i - k) - 1]
        BY <4>2, <1>3
      <4>4. QED BY <3>2, <4>1, <4>2, <4>3, <1>1
    <3>3. QED BY <3>1, <3>2, <1>1
  <2>5. QED BY <2>1, <2>3, <2>4, <1>1, <1>3
<1>8. \A i \in 1..Len(s) : s[i] # p
  BY <1>1, ListFacts
<1>9. Distinct(t)
  <2> DEFINE src(i) == IF i < k THEN i ELSE i - 1
  <2>1. \A i \in 1..Len(t) : i # k => src(i) \in 1..Len(s) /\ t[i] = s[src(i)] /\ t[i] # p
    BY <1>1, <1>7, <1>8
  <2>2. t[k] = p
    BY <1>1, <1>7
  <2>3. ASSUME NEW i \in 1..Len(t), NEW j \in 1..Len(t), t[i] = t[j] PROVE i = j
    <3>1. CASE i = k \/ j = k
      BY <3>1, <2>1, <2>2, <2>3
    <3>2. CASE i # k /\ j # k
      <4>1. src(i) = src(j)
        BY <3>2, <2>1, <2>3, <1>1 DEF Distinct
      <4>2. QED BY <3>2, <4>1, <1>1, <1>7
    <3>3. QED BY <3>1, <3>2
  <2>4. QED BY <2>3 DEF Distinct
<1>10. ASSUME NEW q \in Range(t) PROVE q \in Range(s) \cup {p}
  <2>1. PICK i \in 1..Len(t) : t[i] = q
    BY <1>7, ListFacts
  <2>2. q = p \/ \E j \in 1..Len(s) : q = s[j]
    BY <2>1, <1>1, <1>7
  <2>3. QED BY <2>2, <1>1, ListFacts
<1>11. ASSUME NEW q \in Range(s) \cup {p} PROVE q \in Range(t)
  <2>1. CASE q = p
    BY <2>1, <1>1, <1>7, ListFacts
  <2>2. CASE q \in Range(s)
    <3>1. PICK i \in 1..Len(s) : s[i] = q
      BY <2>2, <1>1, ListFacts
    <3>2. CASE i < k
      <4>1. i \in 1..Len(t) /\ t[i] = q
        BY <3>1, <3>2, <1>1, <1>7
      <4>2. QED BY <4>1, <1>7, ListFacts
    <3>3. CASE i >= k
      <4>1. i + 1 \in 1..Len(t) /\ t[i + 1] = q
        BY <3>1, <3>3, <1>1, <1>7
      <4>2. QED BY <4>1, <1>7, ListFacts
    <3>4. QED BY <3>2, <3>3, <1>1
  <2>3. QED BY <1>11, <2>1, <2>2
<1>12. QED BY <1>7, <1>9, <1>10, <1>11 DEF IsList, t

LEMMA Split ==
  ASSUME NEW s, IsList(s), NEW k \in 0..Len(s)
  PROVE  LET a == SubSeq(s, 1, k)
             b == SubSeq(s, k + 1, Len(s))
         IN  /\ IsList(a) /\ Len(a) = k /\ \A i \in 1..k : a[i] = s[i]
             /\ IsList(b) /\ Len(b) = Len(s) - k /\ \A i \in 1..(Len(s) - k) : b[i] = s[k + i]
             /\ Range(a) = {s[i] : i \in 1..k}
             /\ Range(b) = Range(s) \ Range(a)
             /\ Range(a) \subseteq Range(s)
<1> DEFINE a == SubSeq(s, 1, k)
           b == SubSeq(s, k + 1, Len(s))
<1>1. s \in Seq(Points) /\ Len(s) \in Nat /\ Distinct(s) /\ k \in Nat /\ k <= Len(s)
      /\ \A i \in 1..Len(s) : s[i] \in Points
  BY ListFacts DEF IsList
<1>2. /\ a \in Seq(Points) /\ Len(a) = k
      /\ \A i \in 1..k : a[i] = s[i]
  <2>1. \A i \in 1..k : s[i] \in Points
    BY <1>1
  <2>2. /\ a \in Seq(Points) /\ Len(a) = (IF 1 <= k THEN k - 1 + 1 ELSE 0)
        /\ \A i \in 1..(k - 1 + 1) : a[i] = s[1 + i - 1]
    BY <1>1, <2>1, SubSeqProperties
  <2>3. QED BY <1>1, <2>2
<1>3. /\ b \in Seq(Points) /\ Len(b) = Len(s) - k
      /\ \A i \in 1..(Len(s) - k) : b[i] = s[k + i]
  <2>1. \A i \in (k + 1)..Len(s) : s[i] \in Points
    BY <1>1
  <2>2. /\ b \in Seq(Points) /\ Len(b) = (IF k + 1 <= Len(s) THEN Len(s) - (k + 1) + 1 ELSE 0)
        /\ \A i \in 1..(Len(s) - (k + 1) + 1) : b[i] = s[(k + 1) + i - 1]
    BY <1>1, <2>1, SubSeqProperties
  <2>3. QED BY <1>1, <2>2
<1> HIDE DEF a, b
<1>4. Distinct(a)
  BY <1>1, <1>2 DEF Distinct
<1>5. Distinct(b)
  <2>1. ASSUME NEW i \in 1..Len(b), NEW j \in 1..Len(b), b[i] = b[j] PROVE i = j
    <3>1. k + i \in 1..Len(s) /\ k + j \in 1..Len(s) /\ s[k + i] = s[k + j]
      BY <2>1, <1>1, <1>3
    <3>2. QED BY <3>1, <1>1 DEF Distinct
  <2>2. QED BY <2>1 DEF Distinct
<1>6. Range(a) = {s[i] : i \in 1..k}
  BY <1>1, <1>2 DEF Range
<1>7. ASSUME NEW p \in Range(b) PROVE p \in Range(s) \ Range(a)
  <2>1. PICK i \in 1..Len(b) : b[i] = p
    BY <1>3, ListFacts
  <2>2. k + i \in 1..Len(s) /\ s[k + i] = p /\ \A j \in 1..k : j # k + i
    BY <2>1, <1>1, <1>3
  <2>3. \A j \in 1..k : j \in 1..Len(s)
    BY <1>1
  <2>4. QED BY <2>2, <2>3, <1>1, <1>6, ListFacts DEF Distinct
<1>8. ASSUME NEW p \in Range(s) \ Range(a) PROVE p \in Range(b)
  <2>1. PICK i \in 1..Len(s) : s[i] = p
    BY <1>1, ListFacts
  <2>2. ~(i <= k)
    BY <2>1, <1>1, <1>6, <1>8
  <2>3. i - k \in 1..Len(b) /\ b[i - k] = p
    BY <2>1, <2>2, <1>1, <1>3
  <2>4. QED BY <2>3, <1>3, ListFacts
<1>9. Range(a) \subseteq Range(s)
  BY <1>1, <1>6, ListFacts
<1>10. QED BY <1>2, <1>3, <1>4, <1>5, <1>6, <1>7, <1>8, <1>9 DEF IsList, a, b

LEMMA Removed ==
  ASSUME NEW s, IsList(s), NEW p \in Points
  PROVE  LET t == Without(s, p)
         IN  /\ IsList(t) /\ Range(t) = Range(s) \ {p}
             /\ \/ t = s
                \/ \E k \in 1..Len(s) :
                     /\ Len(t) = Len(s) - 1
                     /\ \A i \in 1..Len(t) : t[i] = IF i < k THEN s[i] ELSE s[i + 1]
<1>1. CASE p \notin Range(s)
  BY <1>1 DEF Without
<1>2. CASE p \in Range(s)
  <2> DEFINE k == CHOOSE i \in 1..Len(s) : s[i] = p
             a == SubSeq(s, 1, k - 1)
             b == SubSeq(s, k + 1, Len(s))
             t == Without(s, p)
  <2>1. s \in Seq(Points) /\ Len(s) \in Nat /\ Distinct(s) /\ \A i \in 1..Len(s) : s[i] \in Points
    BY ListFacts DEF IsList
  <2>2. k \in 1..Len(s) /\ s[k] = p
    BY <1>2, <2>1, ListFacts
  <2>3. t = a \o b
    BY <1>2 DEF Without, RemoveAt
  <2> HIDE DEF k, t
  <2>4. /\ a \in Seq(Points) /\ Len(a) = k - 1 /\ \A i \in 1..(k - 1) : a[i] = s[i]
    <3>1. k - 1 \in 0..Len(s)
      BY <2>1, <2>2
    <3>2. QED BY <3>1, Split DEF IsList
  <2>5. /\ b \in Seq(Points) /\ Len(b) = Len(s) - k
        /\ \A i \in 1..(Len(s) - k) : b[i] = s[k + i]
    <3>1. k \in 0..Len(s)
      BY <2>1, <2>2
    <3>2. QED BY <3>1, Split DEF IsList
  <2> HIDE DEF a, b
  <2>6. /\ t \in Seq(Points) /\ Len(t) = Len(s) - 1
        /\ \A i \in 1..Len(t) : t[i] = IF i < k THEN s[i] ELSE s[i + 1]
    <3>1. /\ t \in Seq(Points) /\ Len(t) = Len(a) + Len(b)
          /\ \A i \in 1..(Len(a) + Len(b)) : t[i] = IF i <= Len(a) THEN a[i] ELSE b[i - Len(a)]
      BY <2>3, <2>4, <2>5, ConcatProperties
    <3>2. Len(t) = Len(s) - 1
      BY <3>1, <2>1, <2>2, <2>4, <2>5
    <3>3. ASSUME NEW i \in 1..Len(t), i < k PROVE t[i] = s[i]
      <4>1. i \in 1..(k - 1) /\ i \in 1..(Len(a) + Len(b)) /\ i <= Len(a)
        BY <3>1, <3>2, <3>3, <2>1, <2>2, <2>4
      <4>2. QED BY <4>1, <3>1, <2>4
    <3>4. ASSUME NEW i \in 1..Len(t), ~(i < k) PROVE t[i] = s[i + 1]
      <4>1. i \in 1..(Len(a) + Len(b)) /\ ~(i <= Len(a)) /\ i - Len(a) = i + 1 - k
        BY <3>1, <3>4, <2>2, <2>4
      <4>2. i + 1 - k \in 1..(Len(s) - k) /\ k + (i + 1 - k) = i + 1
        BY <3>2, <3>4, <2>1, <2>2
      <4>3. t[i] = b[i + 1 - k]
        BY <4>1, <3>1
      <4>4. b[i + 1 - k] = s[k + (i + 1 - k)]
        BY <4>2, <2>5
      <4>5. QED BY <4>2, <4>3, <4>4
    <3>5. QED BY <3>1, <3>2, <3>3, <3>4
  <2> DEFINE src(i) == IF i < k THEN i ELSE i + 1
  <2>7. \A i \in 1..Len(t) : src(i) \in 1..Len(s) /\ src(i) # k /\ t[i] = s[src(i)]
    BY <2>1, <2>2, <2>6
  <2>8. Distinct(t)
    <3>1. ASSUME NEW i \in 1..Len(t), NEW j \in 1..Len(t), t[i] = t[j] PROVE i = j
      <4>1. src(i) = src(j)
        BY <3>1, <2>1, <2>7 DEF Distinct
      <4>2. QED BY <4>1, <2>1, <2>2, <2>6
    <3>2. QED BY <3>1 DEF Distinct
  <2>9. ASSUME NEW q \in Range(t) PROVE q \in Range(s) \ {p}
    <3>1. PICK i \in 1..Len(t) : t[i] = q
      BY <2>6, ListFacts
    <3>2. q = s[src(i)] /\ src(i) \in 1..Len(s) /\ src(i) # k
      BY <3>1, <2>7
    <3>3. q # p
      BY <3>2, <2>1, <2>2 DEF Distinct
    <3>4. QED BY <3>2, <3>3, <2>1, ListFacts
  <2>10. ASSUME NEW q \in Range(s) \ {p} PROVE q \in Range(t)
    <3>1. PICK i \in 1..Len(s) : s[i] = q
      BY <2>1, <2>10, ListFacts
    <3>2. i # k
      BY <3>1, <2>2, <2>10
    <3>3. PICK j \in 1..Len(t) : src(j) = i
      <4>1. CASE i < k
        <5>1. i \in 1..Len(t)
          BY <4>1, <2>1, <2>2, <2>6
        <5>2. QED BY <5>1, <4>1
      <4>2. CASE i > k
        <5>1. i - 1 \in 1..Len(t) /\ src(i - 1) = i
          BY <4>2, <2>1, <2>2, <2>6
        <5>2. QED BY <5>1
      <4>3. QED BY <4>1, <4>2, <3>2, <2>1, <2>2
    <3>4. t[j] = q
      BY <3>1, <3>3, <2>7
    <3>5. QED BY <3>4, <2>6, ListFacts
  <2>11. QED BY <2>2, <2>6, <2>8, <2>9, <2>10 DEF IsList, t
<1>3. QED BY <1>1, <1>2

-----------------------------------------------------------------------------
(* How far sync_timeline_signal() walks.                                    *)
LEMMA LeastOfNaturals ==
  ASSUME NEW T \in SUBSET Nat, T # {}
  PROVE  \E x \in T : \A y \in T : x <= y
<1> DEFINE R == {ss \in Nat \X Nat : ss[1] < ss[2]}
<1>1. IsWellFoundedOn(R, Nat)
  BY NatLessThanWellFounded DEF OpToRel
<1>2. PICK x \in T : \A y \in T : <<y, x>> \notin R
  BY <1>1, WFMin
<1>3. ASSUME NEW y \in T PROVE x <= y
  <2>1. <<y, x>> \in Nat \X Nat /\ <<y, x>>[1] = y /\ <<y, x>>[2] = x
    OBVIOUS
  <2>2. ~(y < x)
    BY <1>2, <2>1
  <2>3. QED BY <2>2
<1>4. QED BY <1>3

LEMMA PassedFacts ==
  ASSUME pt_list \in Seq(Points), NEW v
  PROVE  /\ Passed(v) \in 0..Len(pt_list)
         /\ \A i \in 1..Passed(v) : ~Later(seqno[pt_list[i]], v)
         /\ Passed(v) < Len(pt_list) => Later(seqno[pt_list[Passed(v) + 1]], v)
<1> DEFINE n == Len(pt_list)
           Stops(k) == /\ \A i \in 1..k : ~Later(seqno[pt_list[i]], v)
                       /\ k < n => Later(seqno[pt_list[k + 1]], v)
           T == {i \in 1..n : Later(seqno[pt_list[i]], v)}
<1>1. n \in Nat
  BY ListFacts
<1>2. \E k \in 0..n : Stops(k)
  <2>1. CASE T = {}
    BY <2>1, <1>1
  <2>2. CASE T # {}
    <3>1. PICK x \in T : \A y \in T : x <= y
      <4>1. T \in SUBSET Nat
        BY <1>1
      <4> HIDE DEF T
      <4>2. QED BY <2>2, <4>1, LeastOfNaturals
    <3>2. x \in 1..n /\ x - 1 \in 0..n /\ (x - 1) + 1 = x
      BY <1>1
    <3>3. \A i \in 1..(x - 1) : i \in 1..n /\ i < x
      BY <3>2, <1>1
    <3>4. \A i \in 1..(x - 1) : i \notin T
      BY <3>1, <3>3, <1>1
    <3>5. Stops(x - 1)
      BY <3>2, <3>3, <3>4
    <3>6. QED BY <3>2, <3>5
  <2>3. QED BY <2>1, <2>2
<1>3. Passed(v) = CHOOSE k \in 0..n : Stops(k)
  BY DEF Passed
<1> HIDE DEF Stops
<1>4. Passed(v) \in 0..n /\ Stops(Passed(v))
  BY <1>2, <1>3
<1>5. QED BY <1>4 DEF Stops

-----------------------------------------------------------------------------
(* Who holds a reference.                                                   *)
Creators(p) == {t \in Tasks : pt[t] = p}
Walkers(p) == {t \in Tasks : p \in Range(signalled[t])}
Present == {p \in Points : phase[p] # "free"}

LEMMA TaskCount ==
  ASSUME NEW p
  PROVE  /\ Creators(p) \in SUBSET Tasks /\ Walkers(p) \in SUBSET Tasks
         /\ Cardinality(Creators(p)) \in Nat /\ Cardinality(Walkers(p)) \in Nat
<1>1. Creators(p) \in SUBSET Tasks /\ Walkers(p) \in SUBSET Tasks
  BY DEF Creators, Walkers
<1>2. IsFiniteSet(Creators(p)) /\ IsFiniteSet(Walkers(p))
  BY <1>1, PointAssumption, FS_Subset
<1>3. QED BY <1>1, <1>2, FS_CardinalityType

LEMMA TaskSets ==
  ASSUME NEW A \in SUBSET Tasks, NEW t \in Tasks
  PROVE  /\ Cardinality(A) \in Nat
         /\ t \notin A => Cardinality(A \cup {t}) = Cardinality(A) + 1
         /\ t \in A => Cardinality(A \ {t}) = Cardinality(A) - 1
         /\ t \in A => Cardinality(A) > 0
<1>1. IsFiniteSet(A)
  BY PointAssumption, FS_Subset
<1>2. Cardinality(A) \in Nat /\ Cardinality(A \ {t}) \in Nat
  <2>1. IsFiniteSet(A \ {t})
    BY <1>1, FS_RemoveElement
  <2>2. QED BY <1>1, <2>1, FS_CardinalityType
<1>3. Cardinality(A \cup {t}) = IF t \in A THEN Cardinality(A) ELSE Cardinality(A) + 1
  BY <1>1, FS_AddElement
<1>4. Cardinality(A \ {t}) = IF t \in A THEN Cardinality(A) - 1 ELSE Cardinality(A)
  BY <1>1, FS_RemoveElement
<1>5. QED BY <1>2, <1>3, <1>4

LEMMA PointSets ==
  ASSUME NEW A \in SUBSET Points, NEW p \in Points
  PROVE  /\ Cardinality(A) \in Nat
         /\ p \notin A => Cardinality(A \cup {p}) = Cardinality(A) + 1
         /\ p \in A => Cardinality(A \ {p}) = Cardinality(A) - 1
         /\ p \in A => Cardinality(A) > 0
<1>1. IsFiniteSet(A)
  BY PointAssumption, FS_Subset
<1>2. Cardinality(A) \in Nat /\ Cardinality(A \ {p}) \in Nat
  <2>1. IsFiniteSet(A \ {p})
    BY <1>1, FS_RemoveElement
  <2>2. QED BY <1>1, <2>1, FS_CardinalityType
<1>3. Cardinality(A \cup {p}) = IF p \in A THEN Cardinality(A) ELSE Cardinality(A) + 1
  BY <1>1, FS_AddElement
<1>4. Cardinality(A \ {p}) = IF p \in A THEN Cardinality(A) - 1 ELSE Cardinality(A)
  BY <1>1, FS_RemoveElement
<1>5. QED BY <1>2, <1>3, <1>4

(* A point a walk has still to put.  Only the one that is off its local     *)
(* list can be past the lock of its release.                                *)
Carried(t, p) == phase[p] \in {"used", "dying"} \/ (phase[p] = "unlinked" /\ Putting(t, p))

(* Where the points and the tasks are.                                      *)
Shape ==
  /\ IsList(pt_list) /\ \A t \in Tasks : IsList(signalled[t])
  /\ \A t \in Tasks : (pc[t] = "install") <=> (pt[t] # None)
  /\ \A t \in Tasks : pc[t] = "lost" \/ (pc[t] \in {"drop", "put"} <=> signalled[t] # <<>>)
  /\ \A p \in Range(pt_list) : phase[p] \in {"used", "dying"}
  /\ \A t \in Tasks : \A p \in Range(signalled[t]) : Carried(t, p)
  /\ \A p \in Points : phase[p] = "used" => refs[p] > 0

RefOK(p) ==
  IF phase[p] = "used"
  THEN refs[p] = files[p] + Cardinality(Creators(p)) + Cardinality(Walkers(p))
  ELSE refs[p] = 0 /\ files[p] = 0 /\ Creators(p) = {}

RefInv == TypeOK /\ Shape /\ (\A p \in Points : RefOK(p)) /\ TimelineKept

LEMMA AheadTyped ==
  ASSUME NEW a \in Word, NEW b \in Word
  PROVE  Ahead(a, b) \in Word /\ Advanced(a, b) \in Word
BY HalfAssumption DEF Ahead, Advanced, Word

(* A list has no fewer places than there are points on it.                  *)
LEMMA Counted ==
  ASSUME NEW s, IsList(s), NEW A \in SUBSET Range(s)
  PROVE  IsFiniteSet(A) /\ Cardinality(A) \in 0..Len(s)
<1>1. s \in Seq(Points) /\ Len(s) \in Nat /\ DOMAIN s = 1..Len(s)
  BY ListFacts DEF IsList
<1>2. s \in Surjection(1..Len(s), Range(s))
  BY <1>1, LenProperties, ListFacts DEF Surjection, Range
<1>3. ExistsSurjection(1..Len(s), Range(s))
  BY <1>2 DEF ExistsSurjection
<1>4. Cardinality(Range(s)) <= Len(s)
  BY <1>1, <1>3, FS_SurjCardinalityBound
<1>5. IsFiniteSet(Range(s))
  BY <1>1, <1>3, FS_NatSurjection
<1>6. IsFiniteSet(A) /\ Cardinality(A) <= Cardinality(Range(s))
  BY <1>5, FS_Subset
<1>7. Cardinality(A) \in Nat /\ Cardinality(Range(s)) \in Nat
  BY <1>5, <1>6, FS_CardinalityType
<1>8. QED BY <1>1, <1>4, <1>6, <1>7

LEMMA NoList == IsList(<<>>) /\ Range(<<>>) = {}
<1>1. <<>> \in Seq(Points) /\ Len(<<>>) = 0 /\ DOMAIN <<>> = {}
  BY EmptySeq
<1>2. QED BY <1>1 DEF IsList, Distinct, Range

LEMMA InitRefs == Init => RefInv
<1> SUFFICES ASSUME Init PROVE RefInv
  OBVIOUS
<1> USE DEF Init
<1>1. TypeOK
  <2>1. 0 \in Word /\ 0 \in Nat /\ 1 \in Nat
    BY HalfAssumption DEF Word
  <2>2. <<>> \in Seq(Points)
    BY EmptySeq
  <2>3. QED BY <2>1, <2>2 DEF TypeOK, Phases, Pc
<1>2. Shape
  BY NoList DEF Shape
<1>3. \A p \in Points : RefOK(p)
  BY PointAssumption DEF RefOK, Creators
<1>4. TimelineKept
  <2>1. {p \in Points : phase[p] # "free"} = {}
    <3>1. \A p \in Points : phase[p] = "free"
      OBVIOUS
    <3>2. QED BY <3>1, Zenon
  <2>2. kref = 1 /\ file
    OBVIOUS
  <2>3. QED BY <2>1, <2>2, FS_EmptySet DEF TimelineKept
<1>5. QED BY <1>1, <1>2, <1>3, <1>4 DEF RefInv

-----------------------------------------------------------------------------
(* Creating a point.                                                        *)
LEMMA CreateFacts ==
  ASSUME RefInv, NEW t \in Tasks, NEW p \in Points, Create(t, p)
  PROVE  /\ Creators(p)' = Creators(p) \cup {t} /\ t \notin Creators(p)
         /\ Cardinality(Creators(p)') = Cardinality(Creators(p)) + 1
         /\ \A q \in Points : q # p => Creators(q)' = Creators(q)
         /\ \A q \in Points : Walkers(q)' = Walkers(q)
         /\ signalled' = signalled /\ files' = files /\ file' = file /\ value' = value
         /\ pc' \in [Tasks -> Pc] /\ pt' \in [Tasks -> Points \cup {None}]
         /\ left' = left /\ total' = total /\ broken' = broken
         /\ \A u \in Tasks : (pc'[u] = "install") <=> (pt'[u] # None)
         /\ \A u \in Tasks : pc'[u] = "lost" \/ (pc'[u] \in {"drop", "put"} <=> signalled'[u] # <<>>)
<1> USE DEF RefInv, TypeOK
<1>1. /\ pc[t] = "idle" /\ pc' = [pc EXCEPT ![t] = "install"] /\ pt' = [pt EXCEPT ![t] = p]
      /\ signalled' = signalled /\ files' = files /\ file' = file /\ value' = value
      /\ left' = left /\ total' = total /\ broken' = broken
  BY DEF Create, TaskGoto, Intact
<1>2. pt[t] = None
  BY <1>1 DEF Shape
<1>3. Creators(p)' = Creators(p) \cup {t} /\ t \notin Creators(p)
  BY <1>1, <1>2, PointAssumption DEF Creators
<1>4. Cardinality(Creators(p)') = Cardinality(Creators(p)) + 1
  <2>1. Creators(p) \in SUBSET Tasks
    BY DEF Creators
  <2>2. Cardinality(Creators(p) \cup {t}) = Cardinality(Creators(p)) + 1
    BY <1>3, <2>1, TaskSets
  <2>3. QED BY <1>3, <2>2
<1>5. \A q \in Points : q # p => Creators(q)' = Creators(q)
  BY <1>1, <1>2, PointAssumption DEF Creators
<1>6. \A q \in Points : Walkers(q)' = Walkers(q)
  BY <1>1 DEF Walkers
<1>7. pc' \in [Tasks -> Pc] /\ pt' \in [Tasks -> Points \cup {None}]
  BY <1>1 DEF Pc
<1>8. \A u \in Tasks : (pc'[u] = "install") <=> (pt'[u] # None)
  BY <1>1, PointAssumption DEF Shape
<1>9. \A u \in Tasks : pc'[u] = "lost" \/ (pc'[u] \in {"drop", "put"} <=> signalled'[u] # <<>>)
  BY <1>1 DEF Shape
<1>10. QED BY <1>1, <1>3, <1>4, <1>5, <1>6, <1>7, <1>8, <1>9

(* A point that is free is nowhere.                                         *)
LEMMA FreeIsNowhere ==
  ASSUME RefInv, NEW p \in Points, phase[p] = "free"
  PROVE  p \notin Range(pt_list) /\ Creators(p) = {} /\ Walkers(p) = {} /\ files[p] = 0
<1>1. p \notin Range(pt_list) /\ Walkers(p) = {}
  BY DEF RefInv, Shape, Walkers, Carried
<1>2. QED BY <1>1 DEF RefInv, RefOK

LEMMA NewFacts ==
  ASSUME RefInv, NEW t \in Tasks, NEW p \in Points, NEW v \in Word, NEW s \in BOOLEAN,
         Create(t, p), New(p, v, s)
  PROVE  /\ \A q \in Points : RefOK(q)'
         /\ TimelineKept'
         /\ phase' \in [Points -> Phases] /\ seqno' \in [Points -> Word]
         /\ signaled' \in [Points -> BOOLEAN] /\ refs' \in [Points -> Nat] /\ kref' \in Nat
         /\ phase'[p] = "used" /\ refs'[p] > 0
         /\ \A q \in Points : q # p => phase'[q] = phase[q] /\ refs'[q] = refs[q]
<1> USE DEF RefInv, TypeOK
<1>1. /\ phase[p] = "free" /\ phase' = [phase EXCEPT ![p] = "used"]
      /\ seqno' = [seqno EXCEPT ![p] = v] /\ signaled' = [signaled EXCEPT ![p] = s]
      /\ refs' = [refs EXCEPT ![p] = 1] /\ kref' = kref + 1
  BY DEF New
<1>2. /\ phase' \in [Points -> Phases] /\ seqno' \in [Points -> Word]
      /\ signaled' \in [Points -> BOOLEAN] /\ refs' \in [Points -> Nat] /\ kref' \in Nat
      /\ phase'[p] = "used" /\ refs'[p] = 1
      /\ \A q \in Points : q # p => phase'[q] = phase[q] /\ refs'[q] = refs[q]
  BY <1>1 DEF Phases
<1>3. ASSUME NEW q \in Points PROVE RefOK(q)'
  <2>1. CASE q # p
    <3>1. /\ phase'[q] = phase[q] /\ refs'[q] = refs[q] /\ files'[q] = files[q]
          /\ Creators(q)' = Creators(q) /\ Walkers(q)' = Walkers(q)
      BY <2>1, <1>2, CreateFacts
    <3>2. RefOK(q)
      OBVIOUS
    <3>3. QED BY <3>1, <3>2 DEF RefOK
  <2>2. CASE q = p
    <3>1. /\ files'[p] = 0 /\ Walkers(p)' = {}
          /\ Cardinality(Creators(p)') = Cardinality(Creators(p)) + 1 /\ Creators(p) = {}
      BY <1>1, CreateFacts, FreeIsNowhere
    <3>3. Cardinality(Walkers(p)') = 0 /\ Cardinality(Creators(p)') = 1
      BY <3>1, FS_EmptySet
    <3>2. QED BY <2>2, <3>1, <3>3, <1>2 DEF RefOK
  <2>3. QED BY <2>1, <2>2
<1>4. TimelineKept'
  <2>1. Present' = Present \cup {p} /\ p \notin Present /\ Present \in SUBSET Points
    BY <1>1, <1>2 DEF Present
  <2>2. Cardinality(Present \cup {p}) = Cardinality(Present) + 1 /\ Cardinality(Present) \in Nat
    BY <2>1, PointSets
  <2>3. kref = Cardinality(Present) + (IF file THEN 1 ELSE 0)
    BY DEF TimelineKept, Present
  <2>4. kref' = Cardinality(Present') + (IF file' THEN 1 ELSE 0)
    BY <1>1, <2>1, <2>2, <2>3, CreateFacts
  <2>5. QED BY <2>4 DEF TimelineKept, Present
<1>5. QED BY <1>2, <1>3, <1>4

LEMMA CreateCarries ==
  ASSUME RefInv, NEW t \in Tasks, NEW p \in Points, Create(t, p),
         phase'[p] = "used",
         \A q \in Points : q # p => phase'[q] = phase[q]
  PROVE  \A u \in Tasks : \A q \in Range(signalled[u]) : Carried(u, q)'
<1> SUFFICES ASSUME NEW u \in Tasks, NEW q \in Range(signalled[u]) PROVE Carried(u, q)'
  OBVIOUS
<1>1. Carried(u, q) /\ q \in Points
  BY ListFacts DEF RefInv, Shape, IsList
<1>2. pc[u] = "put" => pc'[u] = "put"
  BY DEF Create, TaskGoto, RefInv, TypeOK
<1>3. signalled' = signalled
  BY DEF Create
<1>4. QED BY <1>1, <1>2, <1>3 DEF Carried, Putting

LEMMA PassedKeepsRefs ==
  ASSUME RefInv, NEW t \in Tasks, NEW p \in Points, NEW v \in Word, CreatePassed(t, p, v)
  PROVE  RefInv'
<1> USE DEF RefInv
<1>1. /\ Create(t, p) /\ New(p, v, TRUE) /\ UNCHANGED <<pt_list, target>>
  BY DEF CreatePassed
<1>2. TypeOK'
  BY <1>1, CreateFacts, NewFacts DEF TypeOK
<1>3. Shape'
  <2>1. \A q \in Points : phase[q] \in {"used", "dying"} => phase'[q] \in {"used", "dying"}
    BY <1>1, NewFacts
  <2>2. Range(pt_list) \subseteq Points /\ \A u \in Tasks : Range(signalled[u]) \subseteq Points
    BY ListFacts DEF Shape, IsList
  <2>3. \A q \in Points : phase'[q] = "used" => refs'[q] > 0
    <3>1. \A q \in Points : q # p => phase'[q] = phase[q] /\ refs'[q] = refs[q]
      BY <1>1, NewFacts
    <3>2. refs'[p] > 0
      BY <1>1, NewFacts
    <3>3. \A q \in Points : phase[q] = "used" => refs[q] > 0
      BY DEF Shape
    <3>4. QED BY <3>1, <3>2, <3>3
  <2>4. IsList(pt_list)' /\ \A u \in Tasks : IsList(signalled[u])'
    BY <1>1, CreateFacts DEF Shape, IsList, Distinct
  <2>5. \A q \in Range(pt_list') : phase'[q] \in {"used", "dying"}
    BY <1>1, <2>1, <2>2 DEF Shape
  <2>6. \A u \in Tasks : \A q \in Range(signalled'[u]) : Carried(u, q)'
    BY <1>1, CreateCarries, CreateFacts, NewFacts
  <2>7. QED BY <1>1, <2>3, <2>4, <2>5, <2>6, CreateFacts DEF Shape
<1>4. QED BY <1>1, <1>2, <1>3, NewFacts

LEMMA InsertKeepsRefs ==
  ASSUME RefInv, NEW t \in Tasks, NEW p \in Points, NEW v \in Word, CreateInsert(t, p, v)
  PROVE  RefInv'
<1> USE DEF RefInv
<1>1. /\ Create(t, p) /\ New(p, v, FALSE) /\ pt_list' = InsertAt(pt_list, Place(v), p)
      /\ target' = [target EXCEPT ![p] = total + Ahead(v, value)]
  BY DEF CreateInsert
<1>2. IsList(pt_list) /\ p \notin Range(pt_list)
  BY <1>1, FreeIsNowhere DEF Shape, New
<1>3. Place(v) \in 1..(Len(pt_list) + 1)
  <2>1. Place(v) \in 1..(Len(pt_list) + 1)
    <3> DEFINE A == {q \in Range(pt_list) : Later(v, seqno[q])}
    <3>1. A \in SUBSET Range(pt_list)
      OBVIOUS
    <3> HIDE DEF A
    <3>2. Cardinality(A) \in 0..Len(pt_list)
      BY <1>2, <3>1, Counted
    <3>3. Place(v) = 1 + Cardinality(A)
      BY DEF Place, A
    <3>4. QED BY <1>2, <3>2, <3>3, ListFacts DEF IsList
  <2>2. QED BY <2>1
<1>4. IsList(pt_list') /\ Range(pt_list') = Range(pt_list) \cup {p}
  BY <1>1, <1>2, <1>3, Inserted
<1>5. TypeOK'
  <2>1. total + Ahead(v, value) \in Nat
    <3>1. Ahead(v, value) \in Word
      BY AheadTyped DEF TypeOK
    <3>2. QED BY <3>1, HalfAssumption DEF TypeOK, Word
  <2>2. target' \in [Points -> Nat]
    BY <1>1, <2>1 DEF TypeOK
  <2>3. QED BY <1>1, <1>4, <2>2, CreateFacts, NewFacts DEF TypeOK, IsList
<1>6. Shape'
  <2>1. \A q \in Points : phase[q] \in {"used", "dying"} => phase'[q] \in {"used", "dying"}
    BY <1>1, NewFacts
  <2>2. Range(pt_list) \subseteq Points /\ \A u \in Tasks : Range(signalled[u]) \subseteq Points
    BY ListFacts DEF Shape, IsList
  <2>3. \A q \in Points : phase'[q] = "used" => refs'[q] > 0
    BY <1>1, NewFacts DEF Shape
  <2>4. \A q \in Range(pt_list') : phase'[q] \in {"used", "dying"}
    BY <1>1, <1>4, <2>1, <2>2, NewFacts DEF Shape
  <2>5. \A u \in Tasks : IsList(signalled'[u])
    BY <1>1, CreateFacts DEF Shape
  <2>6. \A u \in Tasks : \A q \in Range(signalled'[u]) : Carried(u, q)'
    BY <1>1, CreateCarries, CreateFacts, NewFacts
  <2>7. QED BY <1>1, <1>4, <2>3, <2>4, <2>5, <2>6, CreateFacts DEF Shape
<1>7. QED BY <1>1, <1>5, <1>6, NewFacts

LEMMA MergeKeepsRefs ==
  ASSUME RefInv, NEW t \in Tasks, NEW p \in Points, NEW v \in Word, CreateMerge(t, p, v)
  PROVE  RefInv'
<1> USE DEF RefInv
<1>1. /\ Create(t, p) /\ refs' = [refs EXCEPT ![p] = @ + 1] /\ refs[p] > 0
      /\ UNCHANGED <<phase, seqno, signaled, kref, pt_list, target>>
  BY DEF CreateMerge, Twin
<1>2. TypeOK'
  BY <1>1, CreateFacts DEF TypeOK
<1>3. Shape'
  <2>1. \A q \in Points : phase'[q] = "used" => refs'[q] > 0
    BY <1>1 DEF Shape, TypeOK
  <2>2. phase[p] = "used"
    BY <1>1 DEF RefOK
  <2>3. \A u \in Tasks : \A q \in Range(signalled'[u]) : Carried(u, q)'
    BY <1>1, <2>2, CreateCarries, CreateFacts
  <2>4. QED BY <1>1, <2>1, <2>3, CreateFacts DEF Shape, IsList, Distinct
<1>4. ASSUME NEW q \in Points PROVE RefOK(q)'
  <2>1. RefOK(q) /\ Cardinality(Creators(q)) \in Nat /\ Cardinality(Walkers(q)) \in Nat
    BY TaskCount
  <2>2. CASE q # p
    BY <1>1, <2>1, <2>2, CreateFacts DEF RefOK, TypeOK
  <2>3. CASE q = p
    <3>1. phase[p] = "used"
      BY <1>1, <2>1, <2>3 DEF RefOK
    <3>2. refs'[p] = refs[p] + 1 /\ files'[p] = files[p] /\ files[p] \in Nat
      BY <1>1, CreateFacts DEF TypeOK
    <3>3. QED BY <1>1, <2>1, <2>3, <3>1, <3>2, CreateFacts DEF RefOK
  <2>4. QED BY <2>2, <2>3
<1>5. TimelineKept'
  BY <1>1, CreateFacts DEF TimelineKept
<1>6. QED BY <1>2, <1>3, <1>4, <1>5

-----------------------------------------------------------------------------
(* Putting a reference.                                                     *)
LEMMA NobodyLeft ==
  ASSUME NEW A \in SUBSET Tasks, Cardinality(A) = 0
  PROVE  A = {}
<1>1. IsFiniteSet(A)
  BY PointAssumption, FS_Subset
<1>2. QED BY <1>1, FS_EmptySet

LEMMA DropFacts ==
  ASSUME RefInv, NEW p \in Points, phase[p] = "used", DropRef(p),
         files' \in [Points -> Nat],
         \A q \in Points : q # p => /\ files'[q] = files[q]
                                    /\ Creators(q)' = Creators(q) /\ Walkers(q)' = Walkers(q),
         files'[p] + Cardinality(Creators(p)') + Cardinality(Walkers(p)') + 1
           = files[p] + Cardinality(Creators(p)) + Cardinality(Walkers(p))
  PROVE  /\ \A q \in Points : RefOK(q)'
         /\ phase' \in [Points -> Phases] /\ refs' \in [Points -> Nat]
         /\ \A q \in Points : phase[q] \in {"used", "dying"} => phase'[q] \in {"used", "dying"}
         /\ \A q \in Points : phase[q] = "unlinked" => phase'[q] = "unlinked"
         /\ \A q \in Points : phase'[q] = "used" => refs'[q] > 0
         /\ Present' = Present
<1> USE DEF RefInv
<1>1. /\ refs' = [refs EXCEPT ![p] = @ - 1]
      /\ phase' = [phase EXCEPT ![p] = IF refs[p] = 1 THEN "dying" ELSE @]
  BY DEF DropRef
<1>2. refs[p] \in Nat /\ refs[p] > 0 /\ refs \in [Points -> Nat] /\ phase \in [Points -> Phases]
  BY DEF TypeOK, Shape
<1>3. refs[p] = files[p] + Cardinality(Creators(p)) + Cardinality(Walkers(p))
  BY DEF RefOK
<1>4. /\ refs' \in [Points -> Nat] /\ phase' \in [Points -> Phases]
      /\ refs'[p] = refs[p] - 1 /\ phase'[p] = (IF refs[p] = 1 THEN "dying" ELSE "used")
      /\ \A q \in Points : q # p => refs'[q] = refs[q] /\ phase'[q] = phase[q]
  <2>1. refs[p] - 1 \in Nat
    BY <1>2
  <2>2. refs' \in [Points -> Nat] /\ phase' \in [Points -> Phases]
    BY <1>1, <1>2, <2>1 DEF Phases
  <2>3. QED BY <1>1, <1>2, <2>2
<1>5. /\ Cardinality(Creators(p)') \in Nat /\ Cardinality(Walkers(p)') \in Nat
      /\ Creators(p)' \in SUBSET Tasks
  <2>1. /\ Creators(p)' \in SUBSET Tasks /\ Walkers(p)' \in SUBSET Tasks
    BY DEF Creators, Walkers
  <2>2. IsFiniteSet(Creators(p)') /\ IsFiniteSet(Walkers(p)')
    BY <2>1, PointAssumption, FS_Subset
  <2>3. QED BY <2>1, <2>2, FS_CardinalityType
<1>6. refs'[p] = files'[p] + Cardinality(Creators(p)') + Cardinality(Walkers(p)')
  BY <1>2, <1>3, <1>4, <1>5
<1>7. ASSUME NEW q \in Points PROVE RefOK(q)'
  <2>1. CASE q # p
    <3>1. RefOK(q)
      OBVIOUS
    <3>2. QED BY <2>1, <3>1, <1>4 DEF RefOK
  <2>2. CASE q = p
    <3>1. CASE refs[p] = 1
      <4>1. refs'[p] = 0 /\ files'[p] = 0 /\ Cardinality(Creators(p)') = 0
        BY <3>1, <1>4, <1>5, <1>6
      <4>2. Creators(p)' = {}
        BY <4>1, <1>5, NobodyLeft
      <4>3. QED BY <2>2, <3>1, <4>1, <4>2, <1>4 DEF RefOK
    <3>2. CASE refs[p] # 1
      BY <2>2, <3>2, <1>4, <1>6 DEF RefOK
    <3>3. QED BY <3>1, <3>2
  <2>3. QED BY <2>1, <2>2
<1>8. /\ \A q \in Points : phase[q] \in {"used", "dying"} => phase'[q] \in {"used", "dying"}
      /\ \A q \in Points : phase[q] = "unlinked" => phase'[q] = "unlinked"
  BY <1>4
<1>9. \A q \in Points : phase'[q] = "used" => refs'[q] > 0
  <2>1. \A q \in Points : phase[q] = "used" => refs[q] > 0
    BY DEF Shape
  <2>2. QED BY <2>1, <1>2, <1>4
<1>10. Present' = Present
  BY <1>4 DEF Present
<1>11. QED BY <1>4, <1>7, <1>8, <1>9, <1>10

(* What Shape says when a step leaves the lists or takes points off them.   *)
LEMMA ListsKept ==
  ASSUME RefInv,
         \A q \in Points : phase[q] \in {"used", "dying"} => phase'[q] \in {"used", "dying"},
         \A q \in Points : phase[q] = "unlinked" => phase'[q] = "unlinked",
         pt_list' = pt_list,
         \A u \in Tasks : \/ signalled'[u] = signalled[u] /\ (pc[u] = "put" => pc'[u] = "put")
                          \/ /\ IsList(signalled'[u])
                             /\ \A q \in Range(signalled'[u]) :
                                  q \in Range(signalled[u]) /\ ~Putting(u, q)
  PROVE  /\ IsList(pt_list') /\ \A u \in Tasks : IsList(signalled'[u])
         /\ \A q \in Range(pt_list') : phase'[q] \in {"used", "dying"}
         /\ \A u \in Tasks : \A q \in Range(signalled'[u]) : Carried(u, q)'
<1> USE DEF RefInv
<1>1. Range(pt_list) \subseteq Points /\ \A u \in Tasks : Range(signalled[u]) \subseteq Points
  BY ListFacts DEF Shape, IsList
<1>2. IsList(pt_list') /\ \A u \in Tasks : IsList(signalled'[u])
  BY DEF Shape
<1>3. \A q \in Range(pt_list') : phase'[q] \in {"used", "dying"}
  BY <1>1 DEF Shape
<1>4. ASSUME NEW u \in Tasks, NEW q \in Range(signalled'[u]) PROVE Carried(u, q)'
  <2>1. q \in Range(signalled[u])
    BY <1>4
  <2>2. Carried(u, q) /\ q \in Points
    BY <1>1, <2>1 DEF Shape
  <2>3. CASE phase[q] \in {"used", "dying"}
    BY <2>2, <2>3 DEF Carried
  <2>4. CASE phase[q] = "unlinked" /\ Putting(u, q)
    <3>1. signalled'[u] = signalled[u] /\ (pc[u] = "put" => pc'[u] = "put")
      BY <1>4, <2>4
    <3>2. QED BY <2>2, <2>4, <3>1 DEF Carried, Putting
  <2>5. QED BY <2>2, <2>3, <2>4 DEF Carried
<1>5. QED BY <1>2, <1>3, <1>4

LEMMA InstallKeepsRefs ==
  ASSUME RefInv, NEW t \in Tasks, NEW ok \in BOOLEAN, Install(t, ok)
  PROVE  RefInv'
<1> USE DEF RefInv
<1>1. /\ pc[t] = "install" /\ pc' = [pc EXCEPT ![t] = "idle"] /\ pt' = [pt EXCEPT ![t] = None]
      /\ UNCHANGED <<lineVars, seqno, signaled, left, signalled, history, broken>>
  BY DEF Install, TaskGoto, Intact
<1>2. PICK p \in Points : p = pt[t]
  BY <1>1 DEF Shape, TypeOK
<1>3. /\ Creators(p) \in SUBSET Tasks /\ t \in Creators(p)
      /\ Creators(p)' = Creators(p) \ {t}
      /\ \A q \in Points : q # p => Creators(q)' = Creators(q)
      /\ \A q \in Points : Walkers(q)' = Walkers(q)
  <2>1. pt \in [Tasks -> Points \cup {None}] /\ signalled' = signalled
    BY <1>1 DEF TypeOK
  <2>2. Creators(p) \in SUBSET Tasks /\ t \in Creators(p)
    BY <1>2 DEF Creators
  <2>3. ASSUME NEW q \in Points PROVE Creators(q)' = Creators(q) \ {t}
    BY <1>1, <2>1, PointAssumption DEF Creators
  <2>4. \A q \in Points : q # p => Creators(q)' = Creators(q)
    <3>1. \A q \in Points : q # p => t \notin Creators(q)
      BY <1>2 DEF Creators
    <3>2. QED BY <2>3, <3>1
  <2>5. \A q \in Points : Walkers(q)' = Walkers(q)
    BY <2>1 DEF Walkers
  <2>6. QED BY <1>2, <2>2, <2>3, <2>4, <2>5
<1>4. /\ Cardinality(Creators(p)') = Cardinality(Creators(p)) - 1
      /\ Cardinality(Creators(p)) \in Nat /\ Cardinality(Walkers(p)) \in Nat
  BY <1>3, TaskCount, TaskSets
<1>5. phase[p] = "used"
  BY <1>2, <1>3 DEF RefOK
<1>6. /\ pc' \in [Tasks -> Pc] /\ pt' \in [Tasks -> Points \cup {None}]
      /\ \A u \in Tasks : (pc'[u] = "install") <=> (pt'[u] # None)
      /\ \A u \in Tasks : pc'[u] = "lost" \/ (pc'[u] \in {"drop", "put"} <=> signalled'[u] # <<>>)
  BY <1>1 DEF Shape, TypeOK, Pc
<1>7. UNCHANGED <<file, kref, pt_list, signalled>>
  BY <1>1 DEF lineVars
<1>11. \A u \in Tasks : signalled'[u] = signalled[u] /\ (pc[u] = "put" => pc'[u] = "put")
  BY <1>1, <1>7 DEF TypeOK
<1>8. CASE ok
  <2>1. files' = [files EXCEPT ![p] = @ + 1] /\ UNCHANGED <<refs, phase>>
    BY <1>2, <1>8 DEF Install
  <2>2. ASSUME NEW q \in Points PROVE RefOK(q)'
    <3>1. CASE q # p
      BY <3>1, <1>3, <2>1 DEF RefOK, TypeOK
    <3>2. CASE q = p
      <4>1. files'[p] = files[p] + 1 /\ files[p] \in Nat
        BY <1>2, <2>1 DEF TypeOK
      <4>2. refs[p] = files[p] + Cardinality(Creators(p)) + Cardinality(Walkers(p))
        BY <1>2, <1>5 DEF RefOK
      <4>3. refs'[p] = files'[p] + Cardinality(Creators(p)') + Cardinality(Walkers(p)')
        BY <1>2, <1>3, <1>4, <2>1, <4>1, <4>2
      <4>4. QED BY <3>2, <4>3, <1>5, <2>1 DEF RefOK
    <3>3. QED BY <3>1, <3>2
  <2>3. Shape'
    BY <1>6, <1>7, <1>11, <2>1, ListsKept DEF Shape, IsList, Distinct
  <2>4. TypeOK'
    <3>1. files' \in [Points -> Nat]
      BY <1>2, <2>1 DEF TypeOK
    <3>2. QED BY <1>1, <1>6, <2>1, <3>1 DEF TypeOK, lineVars, history
  <2>5. TimelineKept'
    BY <1>7, <2>1 DEF TimelineKept
  <2>6. QED BY <2>2, <2>3, <2>4, <2>5
<1>9. CASE ~ok
  <2>1. DropRef(p) /\ files' = files
    BY <1>2, <1>9 DEF Install
  <2>2. /\ \A q \in Points : RefOK(q)'
        /\ phase' \in [Points -> Phases] /\ refs' \in [Points -> Nat]
        /\ \A q \in Points : phase[q] \in {"used", "dying"} => phase'[q] \in {"used", "dying"}
        /\ \A q \in Points : phase[q] = "unlinked" => phase'[q] = "unlinked"
        /\ \A q \in Points : phase'[q] = "used" => refs'[q] > 0
        /\ Present' = Present
    <3>1. files \in [Points -> Nat]
      BY DEF TypeOK
    <3>2. files'[p] + Cardinality(Creators(p)') + Cardinality(Walkers(p)') + 1
           = files[p] + Cardinality(Creators(p)) + Cardinality(Walkers(p))
      BY <1>2, <1>3, <1>4, <2>1, <3>1
    <3>3. QED BY <1>2, <1>3, <1>5, <2>1, <3>1, <3>2, DropFacts
  <2>3. Shape'
    BY <1>6, <1>7, <1>11, <2>2, ListsKept DEF Shape, IsList, Distinct
  <2>4. TypeOK'
    BY <1>1, <1>6, <2>1, <2>2 DEF TypeOK, lineVars, history
  <2>5. TimelineKept'
    BY <1>7, <2>2 DEF TimelineKept, Present
  <2>6. QED BY <2>2, <2>3, <2>4, <2>5
<1>10. QED BY <1>8, <1>9

LEMMA CloseKeepsRefs ==
  ASSUME RefInv, NEW p \in Points, CloseFence(p)
  PROVE  RefInv'
<1> USE DEF RefInv
<1>1. /\ files[p] > 0 /\ files' = [files EXCEPT ![p] = @ - 1] /\ DropRef(p)
      /\ UNCHANGED <<lineVars, seqno, signaled, taskVars, history, broken>>
  BY DEF CloseFence, Intact
<1>2. files \in [Points -> Nat] /\ files[p] \in Nat /\ files' \in [Points -> Nat]
      /\ files'[p] = files[p] - 1 /\ \A q \in Points : q # p => files'[q] = files[q]
  BY <1>1 DEF TypeOK
<1>3. phase[p] = "used"
  BY <1>1, <1>2 DEF RefOK
<1>4. UNCHANGED <<file, kref, pt_list, signalled, pc, pt>>
  BY <1>1 DEF lineVars, taskVars
<1>5. \A q \in Points : Creators(q)' = Creators(q) /\ Walkers(q)' = Walkers(q)
  BY <1>4 DEF Creators, Walkers
<1>6. /\ \A q \in Points : RefOK(q)'
      /\ phase' \in [Points -> Phases] /\ refs' \in [Points -> Nat]
      /\ \A q \in Points : phase[q] \in {"used", "dying"} => phase'[q] \in {"used", "dying"}
      /\ \A q \in Points : phase[q] = "unlinked" => phase'[q] = "unlinked"
      /\ \A q \in Points : phase'[q] = "used" => refs'[q] > 0
      /\ Present' = Present
  <2>1. Cardinality(Creators(p)) \in Nat /\ Cardinality(Walkers(p)) \in Nat
    BY TaskCount
  <2>2. files'[p] + Cardinality(Creators(p)') + Cardinality(Walkers(p)') + 1
           = files[p] + Cardinality(Creators(p)) + Cardinality(Walkers(p))
    BY <1>2, <1>5, <2>1
  <2>3. QED BY <1>1, <1>2, <1>3, <1>5, <2>2, DropFacts
<1>7. Shape'
  <2>1. \A u \in Tasks : signalled'[u] = signalled[u] /\ (pc[u] = "put" => pc'[u] = "put")
    BY <1>4
  <2>2. /\ \A u \in Tasks : (pc'[u] = "install") <=> (pt'[u] # None)
        /\ \A u \in Tasks : pc'[u] = "lost" \/ (pc'[u] \in {"drop", "put"} <=> signalled'[u] # <<>>)
    BY <1>4 DEF Shape
  <2>3. QED BY <1>4, <1>6, <2>1, <2>2, ListsKept DEF Shape, IsList, Distinct
<1>8. TypeOK'
  BY <1>1, <1>2, <1>6 DEF TypeOK, lineVars, taskVars, history
<1>9. TimelineKept'
  BY <1>4, <1>6 DEF TimelineKept, Present
<1>10. QED BY <1>6, <1>7, <1>8, <1>9

-----------------------------------------------------------------------------
(* sync_timeline_signal(): what it takes and what is left.                  *)
LEMMA SignalFacts ==
  ASSUME RefInv, NEW t \in Tasks, signalled[t] = <<>>, NEW rest \in Word, SignalStep(t, rest)
  PROVE  \E gone \in SUBSET Range(pt_list) :
           /\ IsList(signalled'[t]) /\ Range(signalled'[t]) = gone
           /\ signalled' \in [Tasks -> Seq(Points)]
           /\ \A u \in Tasks : u # t => signalled'[u] = signalled[u]
           /\ IsList(pt_list') /\ Range(pt_list') = Range(pt_list) \ gone
           /\ refs' = [p \in Points |-> IF p \in gone /\ refs[p] > 0 THEN refs[p] + 1 ELSE refs[p]]
           /\ signaled' = [p \in Points |-> signaled[p] \/ p \in gone]
           /\ target' = [p \in Points |-> IF p \in gone THEN 0 ELSE target[p]]
<1> USE DEF RefInv
<1> DEFINE v == Advanced(value, Chunk(rest))
           k == Passed(v)
           gone == {pt_list[i] : i \in 1..k}
<1>1. IsList(pt_list) /\ signalled \in [Tasks -> Seq(Points)]
  BY DEF Shape, TypeOK
<1>2. k \in 0..Len(pt_list)
  BY <1>1, PassedFacts DEF IsList
<1>3. /\ signalled' = [signalled EXCEPT ![t] = SubSeq(pt_list, 1, k)]
      /\ pt_list' = SubSeq(pt_list, k + 1, Len(pt_list))
      /\ refs' = [p \in Points |-> IF p \in gone /\ refs[p] > 0 THEN refs[p] + 1 ELSE refs[p]]
      /\ signaled' = [p \in Points |-> signaled[p] \/ p \in gone]
      /\ target' = [p \in Points |-> IF p \in gone THEN 0 ELSE target[p]]
  BY DEF SignalStep
<1> HIDE DEF k, gone
<1>4. /\ IsList(SubSeq(pt_list, 1, k)) /\ Range(SubSeq(pt_list, 1, k)) = gone
      /\ IsList(pt_list') /\ Range(pt_list') = Range(pt_list) \ gone /\ gone \subseteq Range(pt_list)
  BY <1>1, <1>2, <1>3, Split DEF gone
<1>5. /\ signalled' \in [Tasks -> Seq(Points)] /\ signalled'[t] = SubSeq(pt_list, 1, k)
      /\ \A u \in Tasks : u # t => signalled'[u] = signalled[u]
  BY <1>1, <1>3, <1>4 DEF IsList
<1>6. QED BY <1>3, <1>4, <1>5

LEMMA ChunkFacts ==
  ASSUME NEW rest \in Word
  PROVE  /\ Chunk(rest) \in Word /\ rest - Chunk(rest) \in Word /\ Chunk(rest) < Half
BY HalfAssumption DEF Chunk, Word

LEMMA SignalKeepsRefs ==
  ASSUME RefInv, NEW t \in Tasks, pc[t] \in {"idle", "signal"}, NEW rest \in Word,
         SignalStep(t, rest)
  PROVE  RefInv'
<1> USE DEF RefInv
<1>1. signalled[t] = <<>> /\ pt[t] = None
  BY DEF Shape
<1>2. PICK gone \in SUBSET Range(pt_list) :
           /\ IsList(signalled'[t]) /\ Range(signalled'[t]) = gone
           /\ signalled' \in [Tasks -> Seq(Points)]
           /\ \A u \in Tasks : u # t => signalled'[u] = signalled[u]
           /\ IsList(pt_list') /\ Range(pt_list') = Range(pt_list) \ gone
           /\ refs' = [p \in Points |-> IF p \in gone /\ refs[p] > 0 THEN refs[p] + 1 ELSE refs[p]]
           /\ signaled' = [p \in Points |-> signaled[p] \/ p \in gone]
           /\ target' = [p \in Points |-> IF p \in gone THEN 0 ELSE target[p]]
  BY <1>1, SignalFacts
<1>3. /\ value' = Advanced(value, Chunk(rest)) /\ total' = total + Chunk(rest)
      /\ left' = [left EXCEPT ![t] = rest - Chunk(rest)]
      /\ pc' = [pc EXCEPT ![t] = SignalPc(left'[t], signalled'[t])]
      /\ UNCHANGED <<file, kref, phase, seqno, files, pt, broken>>
  BY DEF SignalStep, Intact
<1>4. Range(pt_list) \subseteq Points /\ \A u \in Tasks : Range(signalled[u]) \subseteq Points
  BY ListFacts DEF Shape, IsList
<1>5. /\ Chunk(rest) \in Word /\ rest - Chunk(rest) \in Word
      /\ Advanced(value, Chunk(rest)) \in Word
  <2>1. Chunk(rest) \in Word /\ rest - Chunk(rest) \in Word /\ value \in Word
    BY ChunkFacts DEF TypeOK
  <2>2. QED BY <2>1, AheadTyped
<1>6. /\ pc' \in [Tasks -> Pc]
      /\ \A u \in Tasks : (pc'[u] = "install") <=> (pt'[u] # None)
      /\ \A u \in Tasks : pc'[u] = "lost" \/ (pc'[u] \in {"drop", "put"} <=> signalled'[u] # <<>>)
  BY <1>1, <1>2, <1>3 DEF Shape, TypeOK, Pc, SignalPc
<1>7. TypeOK'
  <2>1. refs' \in [Points -> Nat] /\ target' \in [Points -> Nat] /\ signaled' \in [Points -> BOOLEAN]
    BY <1>2 DEF TypeOK
  <2>2. total' \in Nat
    BY <1>3, <1>5, HalfAssumption DEF TypeOK, Word
  <2>3. left' \in [Tasks -> Word]
    BY <1>3, <1>5 DEF TypeOK
  <2>4. pt_list' \in Seq(Points)
    BY <1>2 DEF IsList
  <2>5. QED BY <1>2, <1>3, <1>5, <1>6, <2>1, <2>2, <2>3, <2>4 DEF TypeOK
<1>8. Shape'
  <2>1. \A u \in Tasks : IsList(signalled'[u])
    BY <1>2 DEF Shape
  <2>2. \A p \in Range(pt_list') : phase'[p] \in {"used", "dying"}
    BY <1>2, <1>3 DEF Shape
  <2>3. ASSUME NEW u \in Tasks, NEW p \in Range(signalled'[u]) PROVE Carried(u, p)'
    <3>1. CASE u = t
      BY <2>3, <3>1, <1>2, <1>3 DEF Shape, Carried
    <3>2. CASE u # t
      <4>1. Carried(u, p) /\ signalled'[u] = signalled[u] /\ pc'[u] = pc[u]
        BY <2>3, <3>2, <1>2, <1>3 DEF Shape, TypeOK
      <4>2. QED BY <4>1, <1>3 DEF Carried, Putting
    <3>3. QED BY <3>1, <3>2
  <2>4. ASSUME NEW p \in Points, phase'[p] = "used" PROVE refs'[p] > 0
    <3>1. refs[p] \in Nat /\ refs[p] > 0
      BY <2>4, <1>3 DEF Shape, TypeOK
    <3>2. QED BY <3>1, <1>2
  <2>5. QED BY <1>2, <1>6, <2>1, <2>2, <2>3, <2>4 DEF Shape, IsList, Distinct
<1>9. ASSUME NEW p \in Points PROVE RefOK(p)'
  <2>1. Creators(p)' = Creators(p)
    BY <1>3 DEF Creators
  <2>2. RefOK(p) /\ refs[p] \in Nat /\ files[p] \in Nat
    BY DEF TypeOK
  <2>3. t \notin Walkers(p)
    BY <1>1, NoList DEF Walkers
  <2>4. CASE p \in gone /\ refs[p] > 0
    <3>1. Walkers(p)' = Walkers(p) \cup {t}
      BY <1>2, <2>4 DEF Walkers
    <3>2. Cardinality(Walkers(p)') = Cardinality(Walkers(p)) + 1
      BY <2>3, <3>1, TaskCount, TaskSets
    <3>3. refs'[p] = refs[p] + 1 /\ phase[p] = "used"
      BY <1>2, <2>2, <2>4 DEF RefOK
    <3>4. refs'[p] = files'[p] + Cardinality(Creators(p)') + Cardinality(Walkers(p)')
      BY <1>3, <2>1, <2>2, <3>2, <3>3, TaskCount DEF RefOK
    <3>5. QED BY <1>3, <3>3, <3>4 DEF RefOK
  <2>5. CASE p \notin gone
    <3>1. Walkers(p)' = Walkers(p)
      BY <1>2, <2>3, <2>5 DEF Walkers
    <3>2. refs'[p] = refs[p]
      BY <1>2, <2>5
    <3>3. QED BY <1>3, <2>1, <2>2, <3>1, <3>2 DEF RefOK
  <2>6. CASE ~(refs[p] > 0)
    <3>1. phase[p] # "used" /\ refs'[p] = refs[p]
      BY <1>2, <2>6 DEF Shape
    <3>2. QED BY <1>3, <2>1, <2>2, <3>1 DEF RefOK
  <2>7. QED BY <2>4, <2>5, <2>6
<1>10. TimelineKept'
  BY <1>3 DEF TimelineKept
<1>11. QED BY <1>7, <1>8, <1>9, <1>10

LEMMA UnlinkedKeepsRefs ==
  ASSUME RefInv, NEW t \in Tasks, DropUnlink(t)
  PROVE  RefInv'
<1> USE DEF RefInv
<1>1. /\ pc[t] = "drop" /\ pc' = [pc EXCEPT ![t] = "put"]
      /\ UNCHANGED <<lineVars, pointVars, pt, left, signalled, history, broken>>
  BY DEF DropUnlink, TaskGoto, Intact
<1>2. UNCHANGED <<file, kref, value, pt_list, phase, seqno, signaled, refs, files>>
  BY <1>1 DEF lineVars, pointVars
<1>3. TypeOK' /\ TimelineKept'
  BY <1>1, <1>2 DEF TypeOK, TimelineKept, Pc, history
<1>4. Shape'
  <2>1. \A u \in Tasks : signalled'[u] = signalled[u] /\ (pc[u] = "put" => pc'[u] = "put")
    BY <1>1 DEF TypeOK
  <2>2. /\ \A u \in Tasks : (pc'[u] = "install") <=> (pt'[u] # None)
        /\ \A u \in Tasks : pc'[u] = "lost" \/ (pc'[u] \in {"drop", "put"} <=> signalled'[u] # <<>>)
    BY <1>1 DEF Shape, TypeOK
  <2>3. QED BY <1>1, <1>2, <2>1, <2>2, ListsKept DEF Shape
<1>5. \A q \in Points : RefOK(q)'
  BY <1>1, <1>2 DEF RefOK, Creators, Walkers
<1>6. QED BY <1>3, <1>4, <1>5

LEMMA HeadTaken ==
  ASSUME NEW s, IsList(s), s # <<>>
  PROVE  /\ Head(s) \in Points /\ Head(s) \in Range(s)
         /\ IsList(Tail(s)) /\ Range(Tail(s)) = Range(s) \ {Head(s)}
<1>1. s \in Seq(Points) /\ Len(s) \in Nat \ {0} /\ Tail(s) = SubSeq(s, 2, Len(s)) /\ Head(s) = s[1]
  BY EmptySeq, TailIsSubSeq DEF IsList
<1>2. 1 \in 0..Len(s)
  BY <1>1
<1>3. /\ IsList(SubSeq(s, 1 + 1, Len(s))) /\ Range(SubSeq(s, 1, 1)) = {s[i] : i \in 1..1}
      /\ Range(SubSeq(s, 1 + 1, Len(s))) = Range(s) \ Range(SubSeq(s, 1, 1))
      /\ Range(SubSeq(s, 1, 1)) \subseteq Range(s)
  BY <1>2, Split
<1>4. {s[i] : i \in 1..1} = {Head(s)}
  BY <1>1
<1>5. 1 + 1 = 2
  OBVIOUS
<1>6. Head(s) \in Range(s)
  BY <1>3, <1>4
<1>7. Range(s) \subseteq Points
  BY ListFacts DEF IsList
<1>8. QED BY <1>1, <1>3, <1>4, <1>5, <1>6, <1>7

LEMMA DropKeepsRefs ==
  ASSUME RefInv, NEW t \in Tasks, DropPut(t)
  PROVE  RefInv'
<1> USE DEF RefInv
<1> DEFINE s == signalled[t]
<1>1. /\ pc[t] = "put" /\ signalled' = [signalled EXCEPT ![t] = Tail(s)]
      /\ pc' = [pc EXCEPT ![t] = SignalPc(left[t], signalled'[t])]
      /\ UNCHANGED <<lineVars, seqno, signaled, files, pt, left, history, broken>>
  BY DEF DropPut, Taken, Intact
<1>2. s # <<>> /\ IsList(s) /\ signalled \in [Tasks -> Seq(Points)]
  BY <1>1 DEF Shape, TypeOK
<1>3. PICK p \in Points : p = Head(s)
  BY <1>2, HeadTaken
<1>4. IsList(Tail(s)) /\ Range(Tail(s)) = Range(s) \ {p} /\ p \in Range(s)
  BY <1>2, <1>3, HeadTaken
<1> HIDE DEF s
<1>5. /\ signalled' \in [Tasks -> Seq(Points)] /\ signalled'[t] = Tail(s)
      /\ \A u \in Tasks : u # t => signalled'[u] = signalled[u]
  BY <1>1, <1>2, <1>4 DEF IsList
<1>6. /\ Walkers(p)' = Walkers(p) \ {t} /\ t \in Walkers(p)
      /\ \A q \in Points : q # p => Walkers(q)' = Walkers(q)
  BY <1>4, <1>5 DEF Walkers, s
<1>7. \A q \in Points : Creators(q)' = Creators(q)
  BY <1>1 DEF Creators
<1>8. Cardinality(Walkers(p)') = Cardinality(Walkers(p)) - 1
  BY <1>6, TaskCount, TaskSets
<1>9. /\ pc' \in [Tasks -> Pc]
      /\ \A u \in Tasks : (pc'[u] = "install") <=> (pt'[u] # None)
      /\ \A u \in Tasks : pc'[u] = "lost" \/ (pc'[u] \in {"drop", "put"} <=> signalled'[u] # <<>>)
  BY <1>1, <1>5 DEF Shape, TypeOK, Pc, SignalPc
<1>10. UNCHANGED <<file, kref, pt_list>>
  BY <1>1 DEF lineVars
<1>11. /\ \A q \in Points : RefOK(q)'
       /\ phase' \in [Points -> Phases] /\ refs' \in [Points -> Nat]
       /\ \A q \in Points : phase[q] \in {"used", "dying"} => phase'[q] \in {"used", "dying"}
       /\ \A q \in Points : phase[q] = "unlinked" => phase'[q] = "unlinked"
       /\ \A q \in Points : phase'[q] = "used" => refs'[q] > 0
       /\ Present' = Present
  <2>1. CASE refs[p] > 0
    <3>1. DropRef(p) /\ files' = files
      BY <1>1, <1>3, <2>1 DEF DropPut, s
    <3>2. phase[p] = "used"
      BY <2>1 DEF RefOK
    <3>3. files \in [Points -> Nat]
      BY DEF TypeOK
    <3>4. files'[p] + Cardinality(Creators(p)') + Cardinality(Walkers(p)') + 1
           = files[p] + Cardinality(Creators(p)) + Cardinality(Walkers(p))
      BY <1>7, <1>8, <3>1, <3>3, TaskCount
    <3>5. QED BY <1>6, <1>7, <3>1, <3>2, <3>3, <3>4, DropFacts
  <2>2. CASE ~(refs[p] > 0)
    <3>1. UNCHANGED <<refs, phase, files>>
      BY <1>1, <1>3, <2>2 DEF DropPut, s
    <3>2. phase[p] # "used"
      BY <2>2 DEF Shape
    <3>3. ASSUME NEW q \in Points PROVE RefOK(q)'
      <4>1. RefOK(q) /\ Creators(q)' = Creators(q)
        BY <1>7
      <4>2. CASE q = p
        BY <4>1, <4>2, <3>1, <3>2 DEF RefOK
      <4>3. CASE q # p
        BY <4>1, <4>3, <3>1, <1>6 DEF RefOK
      <4>4. QED BY <4>2, <4>3
    <3>4. QED BY <3>1, <3>3 DEF TypeOK, Shape, Present
  <2>3. QED BY <2>1, <2>2
<1>12. Shape'
  <2>1. ASSUME NEW u \in Tasks, u # t
        PROVE  signalled'[u] = signalled[u] /\ (pc[u] = "put" => pc'[u] = "put")
    BY <2>1, <1>1, <1>5 DEF TypeOK
  <2>2. \A q \in Range(signalled'[t]) : q \in Range(signalled[t]) /\ ~Putting(t, q)
    BY <1>3, <1>4, <1>5 DEF Putting, s
  <2>3. IsList(signalled'[t])
    BY <1>4, <1>5
  <2>4. \A u \in Tasks : \/ signalled'[u] = signalled[u] /\ (pc[u] = "put" => pc'[u] = "put")
                         \/ /\ IsList(signalled'[u])
                            /\ \A q \in Range(signalled'[u]) :
                                 q \in Range(signalled[u]) /\ ~Putting(u, q)
    BY <2>1, <2>2, <2>3
  <2>5. pt_list' = pt_list
    BY <1>10
  <2>6. /\ IsList(pt_list') /\ \A u \in Tasks : IsList(signalled'[u])
        /\ \A q \in Range(pt_list') : phase'[q] \in {"used", "dying"}
        /\ \A u \in Tasks : \A q \in Range(signalled'[u]) : Carried(u, q)'
    BY <1>11, <2>4, <2>5, ListsKept
  <2>7. QED BY <1>9, <1>11, <2>6 DEF Shape, IsList, Distinct
<1>13. TypeOK'
  BY <1>1, <1>5, <1>9, <1>11 DEF TypeOK, lineVars, history
<1>14. TimelineKept'
  BY <1>10, <1>11 DEF TimelineKept, Present
<1>15. QED BY <1>11, <1>12, <1>13, <1>14

-----------------------------------------------------------------------------
(* The release of a point, queries, the end of the timeline.                *)
LEMMA UnlinkKeepsRefs ==
  ASSUME RefInv, NEW p \in Points, ReleaseUnlink(p)
  PROVE  RefInv'
<1> USE DEF RefInv
<1>1. /\ phase[p] = "dying" /\ ~OnSignalled(p) /\ pt_list' = Without(pt_list, p)
      /\ phase' = [phase EXCEPT ![p] = "unlinked"]
      /\ UNCHANGED <<file, kref, value, seqno, signaled, refs, files, taskVars, history, broken>>
  BY DEF ReleaseUnlink, Intact
<1>2. IsList(pt_list') /\ Range(pt_list') = Range(pt_list) \ {p}
  BY <1>1, Removed DEF Shape
<1>3. UNCHANGED <<pc, pt, left, signalled>>
  BY <1>1 DEF taskVars
<1>4. \A q \in Points : Creators(q)' = Creators(q) /\ Walkers(q)' = Walkers(q)
  BY <1>3 DEF Creators, Walkers
<1>5. /\ phase' \in [Points -> Phases] /\ phase'[p] = "unlinked"
      /\ \A q \in Points : q # p => phase'[q] = phase[q]
  BY <1>1 DEF TypeOK, Phases
<1>6. TypeOK'
  BY <1>1, <1>2, <1>3, <1>5 DEF TypeOK, history, IsList
<1>7. Shape'
  <2>1. \A q \in Points : phase'[q] = "used" => refs'[q] > 0
    <3>1. \A q \in Points : phase[q] = "used" => refs[q] > 0
      BY DEF Shape
    <3>2. QED BY <1>1, <1>5, <3>1
  <2>2. \A q \in Range(pt_list') : phase'[q] \in {"used", "dying"}
    <3>1. \A q \in Range(pt_list) : q \in Points /\ phase[q] \in {"used", "dying"}
      BY ListFacts DEF Shape, IsList
    <3>2. QED BY <1>2, <1>5, <3>1
  <2>3. ASSUME NEW u \in Tasks, NEW q \in Range(signalled'[u]) PROVE Carried(u, q)'
    <3>1. q \in Range(signalled[u]) /\ q \in Points /\ Carried(u, q)
      BY <1>3, <2>3, ListFacts DEF Shape, IsList
    <3>2. CASE q # p
      BY <1>3, <1>5, <3>1, <3>2 DEF Carried, Putting
    <3>3. CASE q = p
      <4>1. p \notin Linked(u)
        BY <1>1 DEF OnSignalled
      <4>2. pc[u] = "put" /\ p \notin Range(Tail(signalled[u]))
        BY <3>1, <3>3, <4>1 DEF Linked
      <4>3. IsList(signalled[u]) /\ signalled[u] # <<>>
        BY <4>2 DEF Shape
      <4>4. p = Head(signalled[u])
        BY <3>1, <3>3, <4>2, <4>3, HeadTaken
      <4>5. QED BY <1>3, <1>5, <3>3, <4>2, <4>4 DEF Carried, Putting
    <3>4. QED BY <3>2, <3>3
  <2>4. QED BY <1>2, <1>3, <2>1, <2>2, <2>3 DEF Shape, IsList, Distinct
<1>8. ASSUME NEW q \in Points PROVE RefOK(q)'
  BY <1>1, <1>4, <1>5 DEF RefOK
<1>9. TimelineKept'
  <2>1. Present' = Present
    BY <1>1, <1>5 DEF Present
  <2>2. QED BY <1>1, <2>1 DEF TimelineKept, Present
<1>10. QED BY <1>6, <1>7, <1>8, <1>9

LEMMA FreeKeepsRefs ==
  ASSUME RefInv, NEW p \in Points, ReleaseFree(p)
  PROVE  RefInv'
<1> USE DEF RefInv
<1>1. /\ phase[p] = "unlinked" /\ phase' = [phase EXCEPT ![p] = "free"]
      /\ seqno' = [seqno EXCEPT ![p] = 0] /\ signaled' = [signaled EXCEPT ![p] = FALSE]
      /\ target' = [target EXCEPT ![p] = 0] /\ kref' = kref - 1
      /\ UNCHANGED <<file, value, pt_list, refs, files, pt, left, total, broken>>
      /\ pc' = [u \in Tasks |-> IF Putting(u, p) THEN "lost" ELSE pc[u]]
      /\ signalled' = [u \in Tasks |-> IF Putting(u, p) THEN Tail(signalled[u]) ELSE signalled[u]]
  BY DEF ReleaseFree, Intact
<1>2. ASSUME NEW u \in Tasks
      PROVE  /\ IsList(signalled'[u]) /\ Range(signalled'[u]) = Range(signalled[u]) \ {p}
             /\ \/ pc'[u] = pc[u] /\ signalled'[u] = signalled[u]
                \/ pc[u] = "put" /\ pc'[u] = "lost"
             /\ \A q \in Range(signalled'[u]) : Carried(u, q)'
  <2>1. IsList(signalled[u]) /\ Range(signalled[u]) \subseteq Points
    BY ListFacts DEF Shape, IsList
  <2>2. \A q \in Range(signalled[u]) : Carried(u, q)
    BY DEF Shape
  <2>3. CASE Putting(u, p)
    <3>1. signalled[u] # <<>> /\ Head(signalled[u]) = p /\ pc[u] = "put"
      BY <2>3 DEF Putting, Shape
    <3>2. pc'[u] = "lost" /\ signalled'[u] = Tail(signalled[u])
      BY <1>1, <2>3
    <3>3. IsList(signalled'[u]) /\ Range(signalled'[u]) = Range(signalled[u]) \ {p}
      BY <2>1, <3>1, <3>2, HeadTaken
    <3>4. ASSUME NEW q \in Range(signalled'[u]) PROVE Carried(u, q)'
      <4>1. q \in Points /\ q # p /\ Carried(u, q)
        BY <2>1, <2>2, <3>3, <3>4
      <4>2. phase[q] \in {"used", "dying"} /\ phase'[q] = phase[q]
        BY <1>1, <3>1, <4>1 DEF Carried, Putting, TypeOK
      <4>3. QED BY <4>2 DEF Carried
    <3>5. QED BY <3>1, <3>2, <3>3, <3>4
  <2>4. CASE ~Putting(u, p)
    <3>1. pc'[u] = pc[u] /\ signalled'[u] = signalled[u]
      BY <1>1, <2>4
    <3>2. p \notin Range(signalled[u])
      BY <1>1, <2>2, <2>4 DEF Carried
    <3>3. ASSUME NEW q \in Range(signalled'[u]) PROVE Carried(u, q)'
      <4>1. q \in Points /\ q # p /\ Carried(u, q)
        BY <2>1, <2>2, <3>1, <3>2, <3>3
      <4>2. phase'[q] = phase[q]
        BY <1>1, <4>1 DEF TypeOK
      <4>3. QED BY <3>1, <4>1, <4>2 DEF Carried, Putting
    <3>4. QED BY <2>1, <3>1, <3>2, <3>3
  <2>5. QED BY <2>3, <2>4
<1>3. /\ \A q \in Points : Creators(q)' = Creators(q)
      /\ \A q \in Points : q # p => Walkers(q)' = Walkers(q)
  BY <1>1, <1>2 DEF Creators, Walkers
<1>4. /\ phase' \in [Points -> Phases] /\ phase'[p] = "free"
      /\ \A q \in Points : q # p => phase'[q] = phase[q]
  BY <1>1 DEF TypeOK, Phases
<1>5. TimelineKept' /\ kref' \in Nat
  <2>1. Present' = Present \ {p} /\ p \in Present /\ Present \in SUBSET Points
    BY <1>1, <1>4 DEF Present
  <2>2. /\ Cardinality(Present \ {p}) = Cardinality(Present) - 1
        /\ Cardinality(Present) \in Nat /\ Cardinality(Present) > 0
    BY <2>1, PointSets
  <2>3. kref = Cardinality(Present) + (IF file THEN 1 ELSE 0)
    BY DEF TimelineKept, Present
  <2>4. kref' = Cardinality(Present') + (IF file' THEN 1 ELSE 0) /\ kref' \in Nat
    BY <1>1, <2>1, <2>2, <2>3
  <2>5. QED BY <2>4 DEF TimelineKept, Present
<1>6. TypeOK'
  <2>1. 0 \in Word
    BY HalfAssumption DEF Word
  <2>2. seqno' \in [Points -> Word] /\ signaled' \in [Points -> BOOLEAN] /\ target' \in [Points -> Nat]
    BY <1>1, <2>1 DEF TypeOK
  <2>3. pc' \in [Tasks -> Pc] /\ signalled' \in [Tasks -> Seq(Points)]
    <3>1. \A u \in Tasks : signalled'[u] \in Seq(Points)
      BY <1>2 DEF IsList
    <3>2. QED BY <1>1, <3>1 DEF TypeOK, Pc
  <2>4. QED BY <1>1, <1>4, <1>5, <2>2, <2>3 DEF TypeOK
<1>7. Shape'
  <2>1. \A q \in Points : phase'[q] = "used" => refs'[q] > 0
    <3>1. \A q \in Points : phase[q] = "used" => refs[q] > 0
      BY DEF Shape
    <3>2. QED BY <1>1, <1>4, <3>1
  <2>2. \A q \in Range(pt_list') : phase'[q] \in {"used", "dying"}
    <3>1. \A q \in Range(pt_list) : q \in Points /\ phase[q] \in {"used", "dying"}
      BY ListFacts DEF Shape, IsList
    <3>2. QED BY <1>1, <1>4, <3>1
  <2>3. /\ \A u \in Tasks : (pc'[u] = "install") <=> (pt'[u] # None)
        /\ \A u \in Tasks : pc'[u] = "lost" \/ (pc'[u] \in {"drop", "put"} <=> signalled'[u] # <<>>)
    BY <1>1, <1>2 DEF Shape
  <2>4. IsList(pt_list')
    BY <1>1 DEF Shape
  <2>5. QED BY <1>2, <2>1, <2>2, <2>3, <2>4 DEF Shape
<1>8. ASSUME NEW q \in Points PROVE RefOK(q)'
  BY <1>1, <1>3, <1>4 DEF RefOK
<1>9. QED BY <1>5, <1>6, <1>7, <1>8

(* A step that leaves the references, the lists and the tasks alone.        *)
LEMMA QuietKeepsRefs ==
  ASSUME RefInv, UNCHANGED <<kref, file, pt_list, phase, seqno, refs, files, taskVars, value, total>>,
         signaled' \in [Points -> BOOLEAN], target' \in [Points -> Nat], broken' \in BOOLEAN
  PROVE  RefInv'
<1> USE DEF RefInv
<1>1. UNCHANGED <<pc, pt, left, signalled>>
  BY DEF taskVars
<1>2. TypeOK' /\ TimelineKept'
  BY <1>1 DEF TypeOK, TimelineKept
<1>3. Shape'
  BY <1>1 DEF Shape, IsList, Distinct, Carried, Putting
<1>4. \A q \in Points : RefOK(q)'
  BY <1>1 DEF RefOK, Creators, Walkers
<1>5. QED BY <1>2, <1>3, <1>4

LEMMA CloseTimelineKeepsRefs ==
  ASSUME RefInv, CloseTimeline
  PROVE  RefInv'
<1> USE DEF RefInv
<1>1. /\ file /\ file' = FALSE /\ kref' = kref - 1 /\ target' = [p \in Points |-> 0]
      /\ signaled' = [p \in Points |-> signaled[p] \/ p \in Range(pt_list)]
      /\ UNCHANGED <<value, pt_list, phase, seqno, refs, files, taskVars, total, broken>>
  BY DEF CloseTimeline, Intact
<1>2. UNCHANGED <<pc, pt, left, signalled>>
  BY <1>1 DEF taskVars
<1>3. TimelineKept' /\ kref' \in Nat
  <2>1. Present' = Present /\ Present \in SUBSET Points
    BY <1>1 DEF Present
  <2>2. Cardinality(Present) \in Nat
    BY <2>1, PointAssumption, FS_Subset, FS_CardinalityType
  <2>3. kref = Cardinality(Present) + 1
    BY <1>1 DEF TimelineKept, Present
  <2>4. kref' = Cardinality(Present') + (IF file' THEN 1 ELSE 0) /\ kref' \in Nat
    BY <1>1, <2>1, <2>2, <2>3
  <2>5. QED BY <2>4 DEF TimelineKept, Present
<1>4. TypeOK'
  BY <1>1, <1>2, <1>3 DEF TypeOK
<1>5. Shape'
  BY <1>1, <1>2 DEF Shape, IsList, Distinct, Carried, Putting
<1>6. \A q \in Points : RefOK(q)'
  BY <1>1, <1>2 DEF RefOK, Creators, Walkers
<1>7. QED BY <1>3, <1>4, <1>5, <1>6

LEMMA StepKeepsRefs == RefInv /\ [Next]_vars => RefInv'
<1> SUFFICES ASSUME RefInv, [Next]_vars PROVE RefInv'
  OBVIOUS
<1>0. TypeOK
  BY DEF RefInv
<1>1. ASSUME NEW t \in Tasks, NEW p \in Points, NEW v \in Word,
             CreatePassed(t, p, v) \/ CreateMerge(t, p, v) \/ CreateInsert(t, p, v)
      PROVE  RefInv'
  BY <1>1, PassedKeepsRefs, MergeKeepsRefs, InsertKeepsRefs
<1>2. ASSUME NEW t \in Tasks, NEW ok \in BOOLEAN, Install(t, ok) PROVE RefInv'
  BY <1>2, InstallKeepsRefs
<1>3. ASSUME NEW t \in Tasks, NEW n \in Steps, Inc(t, n) PROVE RefInv'
  <2>1. n \in Word
    BY StepAssumption DEF Word
  <2>2. QED BY <1>3, <2>1, SignalKeepsRefs DEF Inc
<1>4. ASSUME NEW t \in Tasks, IncMore(t) PROVE RefInv'
  <2>1. left[t] \in Word
    BY <1>0 DEF TypeOK
  <2>2. QED BY <1>4, <2>1, SignalKeepsRefs DEF IncMore
<1>5. ASSUME NEW t \in Tasks, DropUnlink(t) \/ DropPut(t) PROVE RefInv'
  BY <1>5, UnlinkedKeepsRefs, DropKeepsRefs
<1>6. ASSUME NEW p \in Points, ReleaseUnlink(p) \/ ReleaseFree(p) \/ CloseFence(p) PROVE RefInv'
  BY <1>6, UnlinkKeepsRefs, FreeKeepsRefs, CloseKeepsRefs
<1>7. ASSUME Break PROVE RefInv'
  BY <1>0, <1>7, QuietKeepsRefs DEF Break, TypeOK, lineVars, pointVars, history
<1>8. ASSUME NEW p \in Points, QueryFence(p) PROVE RefInv'
  <2>1. signaled' = [signaled EXCEPT ![p] = @ \/ ~Later(seqno[p], value)]
        /\ UNCHANGED <<lineVars, phase, seqno, refs, files, taskVars, history, broken>>
    BY <1>8 DEF QueryFence, Intact
  <2>2. signaled' \in [Points -> BOOLEAN]
    BY <1>0, <2>1 DEF TypeOK
  <2>3. QED BY <1>0, <2>1, <2>2, QuietKeepsRefs DEF TypeOK, lineVars, history
<1>9. ASSUME CloseTimeline PROVE RefInv'
  BY <1>9, CloseTimelineKeepsRefs
<1>10. ASSUME UNCHANGED vars PROVE RefInv'
  BY <1>0, <1>10, QuietKeepsRefs DEF vars, TypeOK, lineVars, pointVars, history
<1>11. QED BY <1>1, <1>2, <1>3, <1>4, <1>5, <1>6, <1>7, <1>8, <1>9, <1>10 
           DEF Next, ReleaseStep, ReleaseCorrupts, DropFreed

THEOREM RefInvariant == Spec => []RefInv
BY InitRefs, StepKeepsRefs, PTL DEF Spec

(* A point has one reference for each sync file, creator and walk that     *)
(* holds it, and none is left when its last was put: kref_put() in          *)
(* dma_fence_put() never runs twice for one holder.                         *)
THEOREM ReferencesExact == Spec => []RefsExact
<1>1. RefInv => RefsExact
  <2> SUFFICES ASSUME RefInv, NEW p \in Points
               PROVE  IF phase[p] = "used"
                      THEN refs[p] = files[p] + Cardinality({t \in Tasks : pt[t] = p})
                                     + Cardinality({t \in Tasks : p \in Range(signalled[t])})
                      ELSE refs[p] = 0 /\ files[p] = 0 /\ \A t \in Tasks : pt[t] # p
    BY DEF RefsExact
  <2>1. RefOK(p)
    BY DEF RefInv
  <2>2. QED BY <2>1 DEF RefOK, Creators, Walkers
<1>2. QED BY <1>1, RefInvariant, PTL

(* sync_timeline_free() runs when the file is closed and no point is left, *)
(* never before: the lock of a point lives as long as the point.            *)
THEOREM TimelineOutlivesPoints == Spec => []TimelineKept
<1>1. RefInv => TimelineKept
  BY DEF RefInv
<1>2. QED BY <1>1, RefInvariant, PTL

-----------------------------------------------------------------------------
(* Distances on the word, as long as they are less than half of it.         *)
LEMMA WordMod ==
  ASSUME NEW x \in 0..(4 * Half - 1)
  PROVE  x % (2 * Half) = IF x < 2 * Half THEN x ELSE x - 2 * Half
BY HalfAssumption

LEMMA AheadIs ==
  ASSUME NEW a \in Word, NEW b \in Word
  PROVE  Ahead(a, b) = IF a >= b THEN a - b ELSE a + 2 * Half - b
<1>1. a + 2 * Half - b \in 0..(4 * Half - 1)
  BY HalfAssumption DEF Word
<1>2. Ahead(a, b) = IF a + 2 * Half - b < 2 * Half THEN a + 2 * Half - b ELSE a - b
  <2> DEFINE x == a + 2 * Half - b
  <2>1. Ahead(a, b) = x % (2 * Half)
    BY DEF Ahead
  <2>2. x \in 0..(4 * Half - 1)
    BY <1>1
  <2>3. x - 2 * Half = a - b
    BY HalfAssumption DEF Word
  <2> HIDE DEF x
  <2>4. x % (2 * Half) = IF x < 2 * Half THEN x ELSE x - 2 * Half
    BY <2>2, WordMod, Zenon
  <2>5. Ahead(a, b) = IF x < 2 * Half THEN x ELSE a - b
    BY <2>1, <2>3, <2>4
  <2>6. QED BY <2>5 DEF x
<1>3. QED BY <1>2, HalfAssumption DEF Word

LEMMA AdvancedIs ==
  ASSUME NEW v \in Word, NEW n \in Word
  PROVE  Advanced(v, n) = IF v + n < 2 * Half THEN v + n ELSE v + n - 2 * Half
<1>1. v + n \in 0..(4 * Half - 1)
  BY HalfAssumption DEF Word
<1> DEFINE x == v + n
<1>2. Advanced(v, n) = x % (2 * Half)
  BY DEF Advanced
<1>0. x \in 0..(4 * Half - 1)
  BY <1>1
<1> HIDE DEF x
<1>3. x % (2 * Half) = IF x < 2 * Half THEN x ELSE x - 2 * Half
  BY <1>0, WordMod, Zenon
<1>4. Advanced(v, n) = IF x < 2 * Half THEN x ELSE x - 2 * Half
  BY <1>2, <1>3
<1>5. x = v + n
  BY DEF x
<1>6. QED BY <1>4, <1>5, HalfAssumption DEF Word

(* A step of less than half the word passes what it reaches.                *)
LEMMA StepPasses ==
  ASSUME NEW s \in Word, NEW v \in Word, NEW n \in 0..(Half - 1), Later(s, v)
  PROVE  /\ Later(s, Advanced(v, n)) <=> Ahead(s, v) > n
         /\ Ahead(s, v) > n => Ahead(s, Advanced(v, n)) = Ahead(s, v) - n
<1>1. n \in Word /\ Advanced(v, n) \in Word
  <2>1. n \in Word
    BY HalfAssumption DEF Word
  <2>2. QED BY <2>1, AheadTyped
<1>2. Ahead(s, v) \in 1..(Half - 1)
  BY DEF Later
<1>3. Ahead(s, v) = IF s >= v THEN s - v ELSE s + 2 * Half - v
  BY AheadIs
<1>4. Advanced(v, n) = IF v + n < 2 * Half THEN v + n ELSE v + n - 2 * Half
  BY <1>1, AdvancedIs
<1>5. Ahead(s, Advanced(v, n)) = IF s >= Advanced(v, n) THEN s - Advanced(v, n)
                                 ELSE s + 2 * Half - Advanced(v, n)
  BY <1>1, AheadIs
<1>6. Ahead(s, Advanced(v, n)) = IF Ahead(s, v) >= n THEN Ahead(s, v) - n
                                 ELSE Ahead(s, v) - n + 2 * Half
  BY <1>2, <1>3, <1>4, <1>5, HalfAssumption DEF Word
<1>7. QED BY <1>2, <1>6, HalfAssumption DEF Later

(* Among values ahead by less than half the word, later means farther.      *)
LEMMA LaterIsFarther ==
  ASSUME NEW r \in Word, NEW s \in Word, NEW v \in Word, Later(r, v), Later(s, v)
  PROVE  /\ Later(r, s) <=> Ahead(r, v) > Ahead(s, v)
         /\ (r = s) <=> (Ahead(r, v) = Ahead(s, v))
<1>1. Ahead(r, v) \in 1..(Half - 1) /\ Ahead(s, v) \in 1..(Half - 1)
  BY DEF Later
<1>2. /\ Ahead(r, v) = IF r >= v THEN r - v ELSE r + 2 * Half - v
      /\ Ahead(s, v) = IF s >= v THEN s - v ELSE s + 2 * Half - v
      /\ Ahead(r, s) = IF r >= s THEN r - s ELSE r + 2 * Half - s
  BY AheadIs
<1>3. Ahead(r, s) = IF Ahead(r, v) >= Ahead(s, v) THEN Ahead(r, v) - Ahead(s, v)
                    ELSE Ahead(r, v) - Ahead(s, v) + 2 * Half
  BY <1>1, <1>2, HalfAssumption DEF Word
<1>4. QED BY <1>1, <1>2, <1>3, HalfAssumption DEF Later, Word

-----------------------------------------------------------------------------
(* What is pending.                                                         *)
Dist(p) == Ahead(seqno[p], value)

Pending ==
  file => \A p \in Range(pt_list) :
            /\ Later(seqno[p], value) /\ target[p] = total + Dist(p) /\ ~signaled[p]

Sorted ==
  file => \A i, j \in 1..Len(pt_list) : i < j => Dist(pt_list[i]) <= Dist(pt_list[j])

Single ==
  \A p, q \in Range(pt_list) : seqno[p] = seqno[q] /\ refs[p] > 0 /\ refs[q] > 0 => p = q

DueListed ==
  \A p \in Points : refs[p] > 0 /\ ~signaled[p] => file /\ p \in Range(pt_list)

Busy == \A t \in Tasks : pc[t] # "idle" => file

PendInv == RefInv /\ Pending /\ Sorted /\ Single /\ DueListed /\ Busy

LEMMA DistTyped ==
  ASSUME PendInv, file, NEW p \in Range(pt_list)
  PROVE  Dist(p) \in 1..(Half - 1) /\ seqno[p] \in Word /\ value \in Word /\ p \in Points
<1>1. p \in Points
  BY ListFacts DEF PendInv, RefInv, Shape, IsList
<1>2. seqno[p] \in Word /\ value \in Word
  BY <1>1 DEF PendInv, RefInv, TypeOK
<1>3. QED BY <1>1, <1>2 DEF PendInv, Pending, Later, Dist

LEMMA InitPending == Init => PendInv
<1> SUFFICES ASSUME Init PROVE PendInv
  OBVIOUS
<1>1. RefInv
  BY InitRefs
<1>2. pt_list = <<>> /\ Range(pt_list) = {} /\ Len(pt_list) = 0
  BY NoList DEF Init
<1>3. refs = [p \in Points |-> 0] /\ pc = [t \in Tasks |-> "idle"]
  BY DEF Init
<1>4. QED BY <1>1, <1>2, <1>3 DEF PendInv, Pending, Sorted, Single, DueListed, Busy

(* A step that neither moves the timeline nor puts a point on the list.     *)
LEMMA PendingKept ==
  ASSUME PendInv, RefInv', file' => file, value' = value, total' = total, pt_list' = pt_list,
         \A p \in Range(pt_list) : /\ seqno'[p] = seqno[p]
                                   /\ file' => /\ target'[p] = target[p]
                                               /\ ~signaled[p] => ~signaled'[p]
                                   /\ refs'[p] > 0 => refs[p] > 0,
         DueListed', Busy'
  PROVE  PendInv'
<1>1. Pending'
  <2> SUFFICES ASSUME file', NEW p \in Range(pt_list)
               PROVE  Later(seqno'[p], value) /\ target'[p] = total + Ahead(seqno'[p], value) /\ ~signaled'[p]
    BY DEF Pending, Dist
  <2>1. Later(seqno[p], value) /\ target[p] = total + Ahead(seqno[p], value) /\ ~signaled[p]
    BY DEF PendInv, Pending, Dist
  <2>2. QED BY <2>1
<1>2. Sorted'
  <2> SUFFICES ASSUME file', NEW i \in 1..Len(pt_list), NEW j \in 1..Len(pt_list), i < j
               PROVE  Ahead(seqno'[pt_list[i]], value) <= Ahead(seqno'[pt_list[j]], value)
    BY DEF Sorted, Dist
  <2>1. pt_list[i] \in Range(pt_list) /\ pt_list[j] \in Range(pt_list)
    BY ListFacts DEF PendInv, RefInv, Shape, IsList
  <2>2. Ahead(seqno[pt_list[i]], value) <= Ahead(seqno[pt_list[j]], value)
    BY DEF PendInv, Sorted, Dist
  <2>3. QED BY <2>1, <2>2
<1>3. Single'
  BY DEF PendInv, Single
<1>4. QED BY <1>1, <1>2, <1>3 DEF PendInv

(* The place of a new point: behind all that come before it.                *)
LEMMA PlaceFacts ==
  ASSUME PendInv, file, NEW v \in Word, Later(v, value)
  PROVE  /\ Place(v) \in 1..(Len(pt_list) + 1)
         /\ \A i \in 1..Len(pt_list) : i < Place(v) <=> Dist(pt_list[i]) < Ahead(v, value)
<1> DEFINE n == Len(pt_list)
           B == {q \in Range(pt_list) : Later(v, seqno[q])}
           T == {i \in 1..n : Dist(pt_list[i]) >= Ahead(v, value)} \cup {n + 1}
<1>1. IsList(pt_list) /\ pt_list \in Seq(Points) /\ n \in Nat /\ value \in Word
  BY ListFacts DEF PendInv, RefInv, TypeOK, Shape, IsList
<1>2. Ahead(v, value) \in Word
  BY <1>1, AheadTyped
<1>3. \A q \in Range(pt_list) : Dist(q) \in Nat /\ (Later(v, seqno[q]) <=> Dist(q) < Ahead(v, value))
  <2> SUFFICES ASSUME NEW q \in Range(pt_list)
               PROVE  Dist(q) \in Nat /\ (Later(v, seqno[q]) <=> Dist(q) < Ahead(v, value))
    OBVIOUS
  <2>1. Dist(q) \in 1..(Half - 1) /\ seqno[q] \in Word
    BY DistTyped
  <2>2. Later(seqno[q], value)
    BY DEF PendInv, Pending
  <2>3. Later(v, seqno[q]) <=> Ahead(v, value) > Ahead(seqno[q], value)
    BY <1>1, <2>1, <2>2, LaterIsFarther
  <2>4. QED BY <1>2, <2>1, <2>3, HalfAssumption DEF Dist, Word
<1>4. \A i \in 1..n : pt_list[i] \in Range(pt_list)
  BY <1>1, ListFacts
<1>5. PICK m \in T : \A y \in T : m <= y
  <2>1. T \in SUBSET Nat /\ n + 1 \in T
    BY <1>1
  <2> HIDE DEF T
  <2>2. QED BY <2>1, LeastOfNaturals
<1>6. m \in 1..(n + 1)
  BY <1>1, <1>5
<1>7. \A i \in 1..n : i < m <=> Dist(pt_list[i]) < Ahead(v, value)
  <2> SUFFICES ASSUME NEW i \in 1..n
               PROVE  i < m <=> Dist(pt_list[i]) < Ahead(v, value)
    OBVIOUS
  <2>1. Dist(pt_list[i]) \in Nat /\ Ahead(v, value) \in Nat
    BY <1>2, <1>3, <1>4, HalfAssumption DEF Word
  <2>2. CASE i < m
    <3>1. i \notin T
      BY <1>1, <1>5, <1>6, <2>2
    <3>2. QED BY <2>1, <2>2, <3>1
  <2>3. CASE i >= m
    <3>1. m \in 1..n /\ m \in T
      BY <1>1, <1>6, <2>3
    <3>2. Dist(pt_list[m]) >= Ahead(v, value) /\ Dist(pt_list[m]) \in Nat
      BY <3>1, <1>1, <1>3, <1>4
    <3>3. Dist(pt_list[m]) <= Dist(pt_list[i])
      <4>1. CASE m = i
        BY <4>1, <2>1
      <4>2. CASE m < i
        BY <3>1, <4>2 DEF PendInv, Sorted
      <4>3. QED BY <4>1, <4>2, <2>3, <3>1
    <3>4. QED BY <1>1, <1>6, <2>1, <2>3, <3>2, <3>3
  <2>4. QED BY <1>1, <1>6, <2>2, <2>3
<1>8. Cardinality(B) = m - 1
  <2> DEFINE a == SubSeq(pt_list, 1, m - 1)
  <2>1. m - 1 \in 0..n
    BY <1>1, <1>6
  <2>2. /\ IsList(a) /\ Len(a) = m - 1 /\ Range(a) = {pt_list[i] : i \in 1..(m - 1)}
    BY <1>1, <2>1, Split
  <2>3. B = {pt_list[i] : i \in 1..(m - 1)}
    <3>1. ASSUME NEW q \in B PROVE q \in {pt_list[i] : i \in 1..(m - 1)}
      <4>1. PICK i \in 1..n : pt_list[i] = q
        BY <1>1, <3>1, ListFacts
      <4>2. i < m
        BY <1>3, <1>7, <3>1, <4>1
      <4>3. i \in 1..(m - 1)
        BY <1>1, <1>6, <4>2
      <4>4. QED BY <4>1, <4>3
    <3>2. ASSUME NEW i \in 1..(m - 1) PROVE pt_list[i] \in B
      <4>1. i \in 1..n /\ i < m
        BY <1>1, <1>6
      <4>2. QED BY <1>3, <1>4, <1>7, <4>1
    <3>3. QED BY <3>1, <3>2
  <2> HIDE DEF a, B
  <2>4. Range(a) = B
    BY <2>2, <2>3
  <2>5. a \in Bijection(1..(m - 1), B)
    <3>1. a \in Seq(Points) /\ DOMAIN a = 1..(m - 1) /\ a \in [1..(m - 1) -> Points]
      BY <2>2, LenProperties DEF IsList
    <3>2. \A i \in 1..(m - 1) : a[i] \in B
      BY <2>2, <2>4, <3>1, ListFacts
    <3>3. a \in [1..(m - 1) -> B]
      BY <3>1, <3>2
    <3>4. a \in Injection(1..(m - 1), B)
      BY <2>2, <3>1, <3>3 DEF Injection, IsInjective, IsList, Distinct
    <3>5. \A q \in B : \E i \in 1..(m - 1) : a[i] = q
      BY <2>2, <2>4, <3>1, ListFacts
    <3>6. QED BY <3>3, <3>4, <3>5 DEF Bijection, Surjection
  <2>6. IsFiniteSet(1..(m - 1)) /\ Cardinality(1..(m - 1)) = m - 1
    <3>1. 1 \in Int /\ m - 1 \in Int /\ m - 1 >= 0
      BY <1>1, <1>6
    <3>2. IsFiniteSet(1..(m - 1)) /\ Cardinality(1..(m - 1)) = IF 1 > m - 1 THEN 0 ELSE (m - 1) - 1 + 1
      BY <3>1, FS_Interval
    <3>3. QED BY <3>1, <3>2
  <2>7. ExistsBijection(1..(m - 1), B)
    BY <2>5 DEF ExistsBijection
  <2>8. QED BY <2>6, <2>7, FS_Bijection
<1>9. Place(v) = m
  BY <1>1, <1>6, <1>8 DEF Place
<1>10. QED BY <1>6, <1>7, <1>9

-----------------------------------------------------------------------------
(* The steps that change what is pending.                                   *)
LEMMA InsertKeepsPending ==
  ASSUME PendInv, NEW t \in Tasks, NEW p \in Points, NEW v \in Word, CreateInsert(t, p, v)
  PROVE  PendInv'
<1>1. /\ Create(t, p) /\ New(p, v, FALSE) /\ Later(v, value) /\ Twin(v) = {} /\ file
      /\ pt_list' = InsertAt(pt_list, Place(v), p)
      /\ target' = [target EXCEPT ![p] = total + Ahead(v, value)]
  BY DEF CreateInsert, Create
<1>2. RefInv' /\ RefInv
  BY InsertKeepsRefs DEF PendInv
<1>3. /\ seqno' = [seqno EXCEPT ![p] = v] /\ signaled' = [signaled EXCEPT ![p] = FALSE]
      /\ refs' = [refs EXCEPT ![p] = 1] /\ phase[p] = "free"
      /\ file' = file /\ value' = value /\ total' = total /\ pc' = [pc EXCEPT ![t] = "install"]
  BY <1>1 DEF New, Create, TaskGoto
<1>4. /\ seqno'[p] = v /\ target'[p] = total + Ahead(v, value) /\ signaled'[p] = FALSE /\ refs'[p] = 1
      /\ \A q \in Points : q # p => /\ seqno'[q] = seqno[q] /\ target'[q] = target[q]
                                    /\ signaled'[q] = signaled[q] /\ refs'[q] = refs[q]
  BY <1>1, <1>2, <1>3 DEF RefInv, TypeOK
<1>5. /\ IsList(pt_list) /\ p \notin Range(pt_list) /\ Len(pt_list) \in Nat
      /\ Range(pt_list) \subseteq Points
      /\ \A i \in 1..Len(pt_list) : pt_list[i] \in Range(pt_list)
  BY <1>2, <1>3, FreeIsNowhere, ListFacts DEF RefInv, Shape, IsList
<1> DEFINE m == Place(v)
<1>6. /\ m \in 1..(Len(pt_list) + 1)
      /\ \A i \in 1..Len(pt_list) : i < m <=> Dist(pt_list[i]) < Ahead(v, value)
  BY <1>1, PlaceFacts
<1> HIDE DEF m
<1>7. /\ IsList(pt_list') /\ Len(pt_list') = Len(pt_list) + 1
      /\ Range(pt_list') = Range(pt_list) \cup {p}
      /\ \A i \in 1..Len(pt_list') :
           pt_list'[i] = IF i < m THEN pt_list[i] ELSE IF i = m THEN p ELSE pt_list[i - 1]
  BY <1>1, <1>5, <1>6, Inserted DEF m
<1>8. \A q \in Range(pt_list) : Dist(q)' = Dist(q)
  BY <1>3, <1>4, <1>5 DEF Dist
<1>9. Dist(p)' = Ahead(v, value)
  BY <1>3, <1>4 DEF Dist
<1>10. Pending'
  <2>1. ASSUME NEW q \in Range(pt_list)
        PROVE  Later(seqno'[q], value') /\ target'[q] = total' + Dist(q)' /\ ~signaled'[q]
    <3>1. Later(seqno[q], value) /\ target[q] = total + Dist(q) /\ ~signaled[q] /\ q # p /\ q \in Points
      BY <1>1, <1>5 DEF PendInv, Pending
    <3>2. QED BY <3>1, <1>3, <1>4, <1>8
  <2>2. Later(seqno'[p], value') /\ target'[p] = total' + Dist(p)' /\ ~signaled'[p]
    BY <1>1, <1>3, <1>4, <1>9
  <2>3. QED BY <1>7, <2>1, <2>2 DEF Pending
<1>11. Sorted'
  <2> SUFFICES ASSUME NEW i \in 1..Len(pt_list'), NEW j \in 1..Len(pt_list'), i < j
               PROVE  Dist(pt_list[i])' <= Dist(pt_list[j])'
    BY DEF Sorted
  <2> DEFINE src(k) == IF k < m THEN k ELSE k - 1
  <2>0. /\ Ahead(v, value) \in Nat
        /\ \A k \in 1..Len(pt_list) : Dist(pt_list[k]) \in Nat
    <3>1. value \in Word
      BY <1>2 DEF RefInv, TypeOK
    <3>2. Ahead(v, value) \in Word
      BY <3>1, AheadTyped
    <3>3. \A k \in 1..Len(pt_list) : Dist(pt_list[k]) \in 1..(Half - 1)
      BY <1>1, <1>5, DistTyped
    <3>4. QED BY <3>2, <3>3, HalfAssumption DEF Word
  <2>1. \A k \in 1..Len(pt_list') :
          k # m => src(k) \in 1..Len(pt_list) /\ pt_list'[k] = pt_list[src(k)]
    BY <1>5, <1>6, <1>7
  <2>2. \A k \in 1..Len(pt_list') :
          Dist(pt_list[k])' = IF k = m THEN Ahead(v, value) ELSE Dist(pt_list[src(k)])
    <3>1. ASSUME NEW k \in 1..Len(pt_list'), k = m PROVE Dist(pt_list[k])' = Ahead(v, value)
      <4>1. pt_list'[k] = p
        BY <1>6, <1>7, <3>1
      <4>2. QED BY <4>1, <1>9 DEF Dist
    <3>2. ASSUME NEW k \in 1..Len(pt_list'), k # m PROVE Dist(pt_list[k])' = Dist(pt_list[src(k)])
      <4>1. pt_list'[k] = pt_list[src(k)] /\ pt_list[src(k)] \in Range(pt_list)
        BY <2>1, <3>2, <1>5
      <4>2. QED BY <4>1, <1>8 DEF Dist
    <3>3. QED BY <3>1, <3>2
  <2>3. CASE i = m
    <3>1. src(j) \in 1..Len(pt_list) /\ ~(src(j) < m)
      BY <2>1, <2>3, <1>6, <1>7
    <3>2. ~(Dist(pt_list[src(j)]) < Ahead(v, value))
      BY <3>1, <1>6
    <3>3. j # m
      BY <2>3
    <3>4. Dist(pt_list[j])' = Dist(pt_list[src(j)]) /\ Dist(pt_list[i])' = Ahead(v, value)
      BY <2>2, <2>3, <3>3
    <3>5. QED BY <2>0, <3>1, <3>2, <3>4
  <2>4. CASE j = m
    <3>1. src(i) \in 1..Len(pt_list) /\ src(i) < m /\ i # m
      BY <2>1, <2>4, <1>6, <1>7
    <3>2. Dist(pt_list[src(i)]) < Ahead(v, value)
      BY <3>1, <1>6
    <3>4. Dist(pt_list[i])' = Dist(pt_list[src(i)]) /\ Dist(pt_list[j])' = Ahead(v, value)
      BY <2>2, <2>4, <3>1
    <3>5. QED BY <2>0, <3>1, <3>2, <3>4
  <2>5. CASE i # m /\ j # m
    <3>1. src(i) \in 1..Len(pt_list) /\ src(j) \in 1..Len(pt_list) /\ src(i) < src(j)
      BY <2>1, <2>5, <1>6, <1>7
    <3>2. Dist(pt_list[src(i)]) <= Dist(pt_list[src(j)])
      BY <1>1, <3>1 DEF PendInv, Sorted
    <3>3. QED BY <2>2, <2>5, <3>2
  <2>6. QED BY <2>3, <2>4, <2>5
<1>12. Single'
  <2>1. \A q \in Range(pt_list) : refs[q] > 0 => seqno[q] # v
    BY <1>1 DEF Twin
  <2>2. QED BY <1>4, <1>5, <1>7, <2>1 DEF PendInv, Single
<1>13. DueListed'
  <2>1. \A q \in Points : refs[q] > 0 /\ ~signaled[q] => file /\ q \in Range(pt_list)
    BY DEF PendInv, DueListed
  <2>2. QED BY <1>1, <1>3, <1>4, <1>7, <2>1 DEF DueListed
<1>14. Busy'
  BY <1>1, <1>3 DEF Busy
<1>15. QED BY <1>2, <1>10, <1>11, <1>12, <1>13, <1>14 DEF PendInv

LEMMA UnlinkKeepsPending ==
  ASSUME PendInv, NEW p \in Points, ReleaseUnlink(p)
  PROVE  PendInv'
<1>1. /\ phase[p] = "dying" /\ pt_list' = Without(pt_list, p)
      /\ UNCHANGED <<file, value, seqno, signaled, refs, taskVars, history>>
  BY DEF ReleaseUnlink
<1>2. RefInv' /\ RefInv
  BY UnlinkKeepsRefs DEF PendInv
<1>3. UNCHANGED <<total, target, pc>>
  BY <1>1 DEF history, taskVars
<1>4. \A q : Dist(q)' = Dist(q)
  BY <1>1 DEF Dist
<1>5. /\ Range(pt_list') = Range(pt_list) \ {p}
      /\ \/ pt_list' = pt_list
         \/ \E k \in 1..Len(pt_list) :
              /\ Len(pt_list') = Len(pt_list) - 1
              /\ \A i \in 1..Len(pt_list') :
                   pt_list'[i] = IF i < k THEN pt_list[i] ELSE pt_list[i + 1]
  <2>1. IsList(pt_list)
    BY <1>2 DEF RefInv, Shape
  <2>2. LET t == Without(pt_list, p)
        IN  /\ Range(t) = Range(pt_list) \ {p}
            /\ \/ t = pt_list
               \/ \E k \in 1..Len(pt_list) :
                    /\ Len(t) = Len(pt_list) - 1
                    /\ \A i \in 1..Len(t) : t[i] = IF i < k THEN pt_list[i] ELSE pt_list[i + 1]
    BY <2>1, Removed
  <2>3. pt_list' = Without(pt_list, p)
    BY <1>1
  <2>4. QED BY <2>2, <2>3
<1>6. Pending'
  <2>1. file => \A q \in Range(pt_list) :
            /\ Later(seqno[q], value) /\ target[q] = total + Dist(q) /\ ~signaled[q]
    BY DEF PendInv, Pending
  <2>2. QED BY <1>1, <1>3, <1>4, <1>5, <2>1 DEF Pending
<1>7. Sorted'
  <2>1. Len(pt_list) \in Nat
    BY <1>2, ListFacts DEF RefInv, Shape, IsList
  <2>2. CASE pt_list' = pt_list
    BY <1>1, <2>2 DEF PendInv, Sorted, Dist
  <2>3. CASE pt_list' # pt_list
    <3>1. PICK k \in 1..Len(pt_list) :
              /\ Len(pt_list') = Len(pt_list) - 1
              /\ \A i \in 1..Len(pt_list') :
                   pt_list'[i] = IF i < k THEN pt_list[i] ELSE pt_list[i + 1]
      BY <1>5, <2>3
    <3> DEFINE src(i) == IF i < k THEN i ELSE i + 1
    <3>2. \A i \in 1..Len(pt_list') : src(i) \in 1..Len(pt_list) /\ pt_list'[i] = pt_list[src(i)]
      BY <2>1, <3>1
    <3>3. ASSUME file, NEW i \in 1..Len(pt_list'), NEW j \in 1..Len(pt_list'), i < j
          PROVE  Dist(pt_list[i])' <= Dist(pt_list[j])'
      <4>1. src(i) < src(j)
        BY <2>1, <3>1, <3>3
      <4>2. Dist(pt_list[src(i)]) <= Dist(pt_list[src(j)])
        BY <3>2, <3>3, <4>1 DEF PendInv, Sorted
      <4>3. Dist(pt_list[i])' = Dist(pt_list[src(i)]) /\ Dist(pt_list[j])' = Dist(pt_list[src(j)])
        BY <3>2, <1>1 DEF Dist
      <4>4. QED BY <4>2, <4>3
    <3>4. QED BY <3>3, <1>1 DEF Sorted
  <2>4. QED BY <2>2, <2>3
<1>8. Single'
  BY <1>1, <1>5 DEF PendInv, Single
<1>9. DueListed'
  <2>1. refs[p] = 0
    BY <1>1, <1>2 DEF RefInv, RefOK
  <2>2. \A q \in Points : refs[q] > 0 /\ ~signaled[q] => file /\ q \in Range(pt_list)
    BY DEF PendInv, DueListed
  <2>3. QED BY <1>1, <1>5, <2>1, <2>2 DEF DueListed
<1>10. Busy'
  BY <1>1, <1>3 DEF PendInv, Busy
<1>11. QED BY <1>2, <1>6, <1>7, <1>8, <1>9, <1>10 DEF PendInv

(* An increment takes off the list what it reaches and no more.             *)
LEMMA SignalTakes ==
  ASSUME PendInv, file, NEW n \in 0..(Half - 1)
  PROVE  LET k == Passed(Advanced(value, n))
         IN  /\ k \in 0..Len(pt_list)
             /\ \A i \in 1..Len(pt_list) : i <= k <=> Dist(pt_list[i]) <= n
<1> DEFINE v == Advanced(value, n)
           k == Passed(v)
<1>1. IsList(pt_list) /\ pt_list \in Seq(Points) /\ Len(pt_list) \in Nat
      /\ \A i \in 1..Len(pt_list) : pt_list[i] \in Range(pt_list)
  BY ListFacts DEF PendInv, RefInv, Shape, IsList
<1> HIDE DEF v
<1>2. /\ k \in 0..Len(pt_list)
      /\ \A i \in 1..k : ~Later(seqno[pt_list[i]], v)
      /\ k < Len(pt_list) => Later(seqno[pt_list[k + 1]], v)
  BY <1>1, PassedFacts
<1> HIDE DEF k
<1>3. \A i \in 1..Len(pt_list) :
        /\ Dist(pt_list[i]) \in Nat
        /\ Later(seqno[pt_list[i]], v) <=> Dist(pt_list[i]) > n
  <2> SUFFICES ASSUME NEW i \in 1..Len(pt_list)
               PROVE  /\ Dist(pt_list[i]) \in Nat
                      /\ Later(seqno[pt_list[i]], v) <=> Dist(pt_list[i]) > n
    OBVIOUS
  <2>1. Dist(pt_list[i]) \in 1..(Half - 1) /\ seqno[pt_list[i]] \in Word /\ value \in Word
    BY <1>1, DistTyped
  <2>2. Later(seqno[pt_list[i]], value)
    BY <1>1 DEF PendInv, Pending
  <2>3. Later(seqno[pt_list[i]], v) <=> Ahead(seqno[pt_list[i]], value) > n
    BY <2>1, <2>2, StepPasses DEF v
  <2>4. QED BY <2>1, <2>3 DEF Dist
<1>4. ASSUME NEW i \in 1..Len(pt_list) PROVE i <= k <=> Dist(pt_list[i]) <= n
  <2>1. CASE i <= k
    <3>1. i \in 1..k
      BY <1>1, <1>2, <2>1
    <3>2. ~(Dist(pt_list[i]) > n) /\ Dist(pt_list[i]) \in Nat
      BY <1>2, <1>3, <3>1
    <3>3. QED BY <2>1, <3>2
  <2>2. CASE i > k
    <3>1. k + 1 \in 1..Len(pt_list) /\ k < Len(pt_list)
      BY <1>1, <1>2, <2>2
    <3>2. Dist(pt_list[k + 1]) > n /\ Dist(pt_list[k + 1]) \in Nat /\ Dist(pt_list[i]) \in Nat
      BY <1>2, <1>3, <3>1
    <3>3. Dist(pt_list[k + 1]) <= Dist(pt_list[i])
      <4>1. CASE k + 1 = i
        BY <4>1, <3>2
      <4>2. CASE k + 1 < i
        BY <3>1, <4>2 DEF PendInv, Sorted
      <4>3. QED BY <1>2, <2>2, <4>1, <4>2
    <3>4. Dist(pt_list[i]) > n
      BY <3>2, <3>3
    <3>5. QED BY <1>2, <2>2, <3>2, <3>4
  <2>3. QED BY <1>2, <2>1, <2>2
<1>5. QED BY <1>2, <1>4 DEF k, v

LEMMA SignalPending ==
  ASSUME PendInv, NEW t \in Tasks, file, pc[t] \in {"idle", "signal"}, NEW rest \in Word,
         SignalStep(t, rest)
  PROVE  /\ PendInv'
         /\ \A p \in Points :
              /\ refs'[p] > 0 <=> refs[p] > 0
              /\ signaled'[p] = (signaled[p] \/ (p \in Range(pt_list) /\ target[p] <= total'))
              /\ ~signaled'[p] => target'[p] = target[p]
         /\ total' >= total
<1> DEFINE n == Chunk(rest)
           v == Advanced(value, n)
           k == Passed(v)
           gone == {pt_list[i] : i \in 1..k}
<1>1. n \in 0..(Half - 1)
  BY ChunkFacts, HalfAssumption DEF Word
<1>2. /\ value' = v /\ total' = total + n /\ UNCHANGED <<file, seqno, phase>>
      /\ pc' = [pc EXCEPT ![t] = SignalPc(left'[t], signalled'[t])]
      /\ pt_list' = SubSeq(pt_list, k + 1, Len(pt_list))
      /\ refs' = [p \in Points |-> IF p \in gone /\ refs[p] > 0 THEN refs[p] + 1 ELSE refs[p]]
      /\ signaled' = [p \in Points |-> signaled[p] \/ p \in gone]
      /\ target' = [p \in Points |-> IF p \in gone THEN 0 ELSE target[p]]
  BY DEF SignalStep
<1>3. RefInv' /\ RefInv
  BY SignalKeepsRefs DEF PendInv
<1>4. IsList(pt_list) /\ pt_list \in Seq(Points) /\ Len(pt_list) \in Nat
      /\ Range(pt_list) \subseteq Points
      /\ \A i \in 1..Len(pt_list) : pt_list[i] \in Range(pt_list)
  BY <1>3, ListFacts DEF RefInv, Shape, IsList
<1> HIDE DEF n
<1>5. /\ k \in 0..Len(pt_list)
      /\ \A i \in 1..Len(pt_list) : i <= k <=> Dist(pt_list[i]) <= n
  BY <1>1, SignalTakes
<1> HIDE DEF k, v, gone
<1>6. /\ Range(pt_list') = Range(pt_list) \ gone /\ gone \subseteq Range(pt_list)
      /\ Len(pt_list') = Len(pt_list) - k
      /\ \A i \in 1..(Len(pt_list) - k) : pt_list'[i] = pt_list[k + i]
  <2>1. /\ Len(SubSeq(pt_list, k + 1, Len(pt_list))) = Len(pt_list) - k
        /\ \A i \in 1..(Len(pt_list) - k) :
             SubSeq(pt_list, k + 1, Len(pt_list))[i] = pt_list[k + i]
        /\ Range(SubSeq(pt_list, 1, k)) = {pt_list[i] : i \in 1..k}
        /\ Range(SubSeq(pt_list, k + 1, Len(pt_list)))
             = Range(pt_list) \ Range(SubSeq(pt_list, 1, k))
        /\ Range(SubSeq(pt_list, 1, k)) \subseteq Range(pt_list)
    BY <1>4, <1>5, Split
  <2>2. Range(SubSeq(pt_list, 1, k)) = gone
    BY <2>1 DEF gone
  <2>3. QED BY <1>2, <2>1, <2>2
<1>7. ASSUME NEW q \in Range(pt_list)
      PROVE  /\ Later(seqno[q], value) /\ target[q] = total + Dist(q) /\ ~signaled[q]
             /\ Dist(q) \in 1..(Half - 1) /\ q \in Points
             /\ q \in gone <=> Dist(q) <= n
             /\ q \notin gone => Later(seqno[q], v) /\ Dist(q)' = Dist(q) - n
  <2>1. /\ Later(seqno[q], value) /\ target[q] = total + Dist(q) /\ ~signaled[q]
        /\ Dist(q) \in 1..(Half - 1) /\ seqno[q] \in Word /\ value \in Word /\ q \in Points
    BY DistTyped DEF PendInv, Pending
  <2>2. q \in gone <=> Dist(q) <= n
    <3>1. PICK i \in 1..Len(pt_list) : pt_list[i] = q
      BY <1>4, <1>7, ListFacts
    <3>2. q \in gone <=> i <= k
      <4>1. i <= k => i \in 1..k
        BY <1>4, <1>5
      <4>2. ASSUME q \in gone PROVE i <= k
        <5>1. PICK j \in 1..k : q = pt_list[j]
          BY <4>2 DEF gone
        <5>2. j \in 1..Len(pt_list)
          BY <1>4, <1>5
        <5>3. i = j
          BY <1>4, <3>1, <5>1, <5>2 DEF IsList, Distinct
        <5>4. QED BY <5>1, <5>3, <1>4, <1>5
      <4>3. QED BY <3>1, <4>1, <4>2 DEF gone
    <3>3. QED BY <1>5, <3>1, <3>2
  <2>3. ASSUME q \notin gone PROVE Later(seqno[q], v) /\ Dist(q)' = Dist(q) - n
    <3>1. Ahead(seqno[q], value) > n
      BY <1>1, <2>1, <2>2, <2>3 DEF Dist
    <3>2. Later(seqno[q], v) /\ Ahead(seqno[q], v) = Ahead(seqno[q], value) - n
      BY <1>1, <2>1, <3>1, StepPasses DEF v
    <3>3. QED BY <1>2, <3>2 DEF Dist
  <2>4. QED BY <2>1, <2>2, <2>3
<1>8. total \in Nat /\ refs \in [Points -> Nat]
  BY <1>3 DEF RefInv, TypeOK
<1>9. Pending'
  <2> SUFFICES ASSUME NEW q \in Range(pt_list')
               PROVE  Later(seqno'[q], value') /\ target'[q] = total' + Dist(q)' /\ ~signaled'[q]
    BY DEF Pending
  <2>1. q \in Range(pt_list) /\ q \notin gone
    BY <1>6
  <2>2. /\ Later(seqno[q], v) /\ Dist(q)' = Dist(q) - n /\ target[q] = total + Dist(q)
        /\ ~signaled[q] /\ Dist(q) \in Nat /\ q \in Points
    BY <1>7, <2>1
  <2>3. target'[q] = target[q] /\ ~signaled'[q]
    BY <1>2, <2>1, <2>2
  <2>4. total + Dist(q) = total + n + (Dist(q) - n)
    BY <1>1, <1>8, <2>2
  <2>5. QED BY <1>2, <2>2, <2>3, <2>4
<1>10. Sorted'
  <2> SUFFICES ASSUME NEW i \in 1..Len(pt_list'), NEW j \in 1..Len(pt_list'), i < j
               PROVE  Dist(pt_list[i])' <= Dist(pt_list[j])'
    BY DEF Sorted
  <2>1. /\ k + i \in 1..Len(pt_list) /\ k + j \in 1..Len(pt_list) /\ k + i < k + j
        /\ pt_list'[i] = pt_list[k + i] /\ pt_list'[j] = pt_list[k + j]
    BY <1>4, <1>5, <1>6
  <2>2. Dist(pt_list[k + i]) <= Dist(pt_list[k + j])
    BY <2>1 DEF PendInv, Sorted
  <2>3. pt_list'[i] \in Range(pt_list') /\ pt_list'[j] \in Range(pt_list')
    BY <1>3, ListFacts DEF RefInv, Shape, IsList
  <2>4. ASSUME NEW q \in Range(pt_list') PROVE Ahead(seqno'[q], value') = Dist(q) - n /\ Dist(q) \in Nat
    BY <1>6, <1>7, <2>4 DEF Dist
  <2>5. /\ Dist(pt_list[i])' = Dist(pt_list[k + i]) - n /\ Dist(pt_list[k + i]) \in Nat
        /\ Dist(pt_list[j])' = Dist(pt_list[k + j]) - n /\ Dist(pt_list[k + j]) \in Nat
    BY <2>1, <2>3, <2>4 DEF Dist
  <2>6. QED BY <1>1, <2>2, <2>5
<1>11. \A p \in Points : refs'[p] > 0 <=> refs[p] > 0
  BY <1>2, <1>8
<1>12. Single'
  BY <1>2, <1>4, <1>6, <1>11 DEF PendInv, Single
<1>13. DueListed'
  BY <1>2, <1>6, <1>11 DEF PendInv, DueListed
<1>14. Busy'
  BY <1>2 DEF Busy
<1>15. ASSUME NEW p \in Points
       PROVE  signaled'[p] = (signaled[p] \/ (p \in Range(pt_list) /\ target[p] <= total'))
  <2>1. signaled'[p] = (signaled[p] \/ p \in gone)
    BY <1>2
  <2>2. p \in gone <=> p \in Range(pt_list) /\ target[p] <= total'
    <3>1. CASE p \in Range(pt_list)
      <4>1. target[p] = total + Dist(p) /\ Dist(p) \in Nat /\ (p \in gone <=> Dist(p) <= n)
        BY <1>7, <3>1
      <4>2. target[p] <= total' <=> Dist(p) <= n
        BY <1>1, <1>2, <1>8, <4>1
      <4>3. QED BY <3>1, <4>1, <4>2
    <3>2. CASE p \notin Range(pt_list)
      BY <1>6, <3>2
    <3>3. QED BY <3>1, <3>2
  <2>3. QED BY <2>1, <2>2
<1>16. \A p \in Points : ~signaled'[p] => target'[p] = target[p]
  BY <1>2
<1>17. total' >= total
  BY <1>1, <1>2, <1>8
<1>18. QED BY <1>3, <1>9, <1>10, <1>11, <1>12, <1>13, <1>14, <1>15, <1>16, <1>17 DEF PendInv

(* The references go or one more is taken of a point that had some.         *)
LEMMA RefsDown ==
  ASSUME PendInv, RefInv', UNCHANGED <<file, value, total, pt_list, seqno, signaled, target>>,
         \A q \in Points : refs'[q] > 0 => refs[q] > 0, Busy'
  PROVE  PendInv'
<1>1. Range(pt_list) \subseteq Points
  BY ListFacts DEF PendInv, RefInv, Shape, IsList
<1>2. DueListed'
  <2>1. \A q \in Points : refs[q] > 0 /\ ~signaled[q] => file /\ q \in Range(pt_list)
    BY DEF PendInv, DueListed
  <2>2. QED BY <2>1 DEF DueListed
<1>3. QED BY <1>1, <1>2, PendingKept

LEMMA DropDown ==
  ASSUME PendInv, NEW p \in Points, DropRef(p)
  PROVE  \A q \in Points : refs'[q] > 0 => refs[q] > 0
BY DEF DropRef, PendInv, RefInv, TypeOK

LEMMA StepKeepsPending == PendInv /\ [Next]_vars => PendInv'
<1> SUFFICES ASSUME PendInv, [Next]_vars PROVE PendInv'
  OBVIOUS
<1>1. RefInv /\ RefInv' /\ TypeOK /\ Busy
  BY StepKeepsRefs DEF PendInv, RefInv
<1>2. ASSUME NEW t \in Tasks, NEW p \in Points, NEW v \in Word, CreatePassed(t, p, v)
      PROVE  PendInv'
  <2>1. /\ Create(t, p) /\ New(p, v, TRUE) /\ UNCHANGED <<pt_list, target>> /\ phase[p] = "free"
        /\ seqno' = [seqno EXCEPT ![p] = v] /\ signaled' = [signaled EXCEPT ![p] = TRUE]
        /\ refs' = [refs EXCEPT ![p] = 1] /\ file /\ file' = file /\ value' = value /\ total' = total
    BY <1>2 DEF CreatePassed, New, Create
  <2>2. p \notin Range(pt_list) /\ Range(pt_list) \subseteq Points
    BY <1>1, <2>1, FreeIsNowhere, ListFacts DEF RefInv, Shape, IsList
  <2>3. \A q \in Range(pt_list) : /\ seqno'[q] = seqno[q] /\ signaled'[q] = signaled[q]
                                  /\ refs'[q] = refs[q] /\ target'[q] = target[q]
    BY <1>1, <2>1, <2>2 DEF TypeOK
  <2>4. DueListed'
    <3>1. \A q \in Points : refs[q] > 0 /\ ~signaled[q] => file /\ q \in Range(pt_list)
      BY DEF PendInv, DueListed
    <3>2. QED BY <1>1, <2>1, <3>1 DEF DueListed, TypeOK
  <2>5. Busy'
    BY <2>1 DEF Busy
  <2>6. QED BY <1>1, <2>1, <2>3, <2>4, <2>5, PendingKept
<1>3. ASSUME NEW t \in Tasks, NEW p \in Points, NEW v \in Word, CreateMerge(t, p, v)
      PROVE  PendInv'
  <2>1. /\ refs' = [refs EXCEPT ![p] = @ + 1] /\ refs[p] > 0 /\ file
        /\ UNCHANGED <<file, value, total, pt_list, seqno, signaled, target>>
    BY <1>3 DEF CreateMerge, Twin, Create
  <2>2. \A q \in Points : refs'[q] > 0 => refs[q] > 0
    BY <1>1, <2>1 DEF TypeOK
  <2>3. Busy'
    BY <2>1 DEF Busy
  <2>4. QED BY <1>1, <2>1, <2>2, <2>3, RefsDown
<1>4. ASSUME NEW t \in Tasks, NEW p \in Points, NEW v \in Word, CreateInsert(t, p, v)
      PROVE  PendInv'
  BY <1>4, InsertKeepsPending
<1>5. ASSUME NEW t \in Tasks, NEW ok \in BOOLEAN, Install(t, ok)
      PROVE  PendInv'
  <2>1. /\ pc[t] = "install" /\ pc' = [pc EXCEPT ![t] = "idle"]
        /\ UNCHANGED <<file, value, total, pt_list, seqno, signaled, target>>
        /\ UNCHANGED refs \/ DropRef(pt[t])
    BY <1>5 DEF Install, TaskGoto, lineVars, history
  <2>2. pt[t] \in Points
    BY <1>1, <2>1 DEF RefInv, Shape, TypeOK
  <2>3. \A q \in Points : refs'[q] > 0 => refs[q] > 0
    BY <2>1, <2>2, DropDown
  <2>4. Busy'
    BY <1>1, <2>1 DEF Busy, TypeOK
  <2>5. QED BY <1>1, <2>1, <2>3, <2>4, RefsDown
<1>6. ASSUME NEW t \in Tasks, NEW n \in Steps, Inc(t, n) PROVE PendInv'
  <2>1. n \in Word
    BY StepAssumption DEF Word
  <2>2. QED BY <1>6, <2>1, SignalPending DEF Inc
<1>7. ASSUME NEW t \in Tasks, IncMore(t) PROVE PendInv'
  <2>1. left[t] \in Word /\ file
    BY <1>1, <1>7 DEF TypeOK, IncMore, Busy
  <2>2. QED BY <1>7, <2>1, SignalPending DEF IncMore
<1>8. ASSUME NEW t \in Tasks, DropPut(t) PROVE PendInv'
  <2>1. /\ pc[t] = "put" /\ UNCHANGED <<file, value, total, pt_list, seqno, signaled, target>>
        /\ pc' = [pc EXCEPT ![t] = SignalPc(left[t], signalled'[t])]
        /\ UNCHANGED refs \/ DropRef(Head(signalled[t]))
    BY <1>8 DEF DropPut, Taken, lineVars, history
  <2>2. Head(signalled[t]) \in Points
    BY <1>1, <2>1, HeadTailProperties DEF RefInv, Shape, IsList
  <2>3. \A q \in Points : refs'[q] > 0 => refs[q] > 0
    BY <2>1, <2>2, DropDown
  <2>4. Busy'
    BY <1>1, <2>1 DEF Busy, TypeOK
  <2>5. QED BY <1>1, <2>1, <2>3, <2>4, RefsDown
<1>9. ASSUME NEW p \in Points, ReleaseUnlink(p) PROVE PendInv'
  BY <1>9, UnlinkKeepsPending
<1>10. ASSUME NEW p \in Points, ReleaseFree(p) PROVE PendInv'
  <2>1. /\ phase[p] = "unlinked" /\ seqno' = [seqno EXCEPT ![p] = 0]
        /\ signaled' = [signaled EXCEPT ![p] = FALSE] /\ target' = [target EXCEPT ![p] = 0]
        /\ UNCHANGED <<file, value, total, pt_list, refs>>
        /\ pc' = [u \in Tasks |-> IF Putting(u, p) THEN "lost" ELSE pc[u]]
    BY <1>10 DEF ReleaseFree
  <2>2. p \notin Range(pt_list) /\ Range(pt_list) \subseteq Points /\ refs[p] = 0
    BY <1>1, <2>1, ListFacts DEF RefInv, RefOK, Shape, IsList
  <2>3. \A q \in Range(pt_list) : /\ seqno'[q] = seqno[q] /\ signaled'[q] = signaled[q]
                                  /\ refs'[q] = refs[q] /\ target'[q] = target[q]
    BY <1>1, <2>1, <2>2 DEF TypeOK
  <2>4. DueListed'
    <3>1. \A q \in Points : refs[q] > 0 /\ ~signaled[q] => file /\ q \in Range(pt_list)
      BY DEF PendInv, DueListed
    <3>2. QED BY <1>1, <2>1, <2>2, <3>1 DEF DueListed, TypeOK
  <2>5. Busy'
    BY <1>1, <2>1 DEF Busy, Putting
  <2>6. QED BY <1>1, <2>1, <2>3, <2>4, <2>5, PendingKept
<1>11. ASSUME NEW p \in Points, CloseFence(p) PROVE PendInv'
  <2>1. /\ DropRef(p) /\ UNCHANGED <<file, value, total, pt_list, seqno, signaled, target, pc>>
    BY <1>11 DEF CloseFence, lineVars, history, taskVars
  <2>2. \A q \in Points : refs'[q] > 0 => refs[q] > 0
    BY <2>1, DropDown
  <2>3. Busy'
    BY <1>1, <2>1 DEF Busy
  <2>4. QED BY <1>1, <2>1, <2>2, <2>3, RefsDown
<1>12. ASSUME NEW p \in Points, QueryFence(p) PROVE PendInv'
  <2>1. /\ signaled' = [signaled EXCEPT ![p] = @ \/ ~Later(seqno[p], value)]
        /\ UNCHANGED <<file, value, total, pt_list, seqno, refs, target, pc>>
    BY <1>12 DEF QueryFence, lineVars, history, taskVars
  <2>2. \A q \in Points : signaled'[q] = (signaled[q] \/ (q = p /\ ~Later(seqno[p], value)))
    BY <1>1, <2>1 DEF TypeOK
  <2>3. \A q \in Range(pt_list) : q \in Points /\ (file => Later(seqno[q], value))
    BY <1>1, ListFacts DEF PendInv, Pending, RefInv, Shape, IsList
  <2>4. DueListed'
    <3>1. \A q \in Points : refs[q] > 0 /\ ~signaled[q] => file /\ q \in Range(pt_list)
      BY DEF PendInv, DueListed
    <3>2. QED BY <2>1, <2>2, <3>1 DEF DueListed
  <2>5. Busy'
    BY <1>1, <2>1 DEF Busy
  <2>6. QED BY <1>1, <2>1, <2>2, <2>3, <2>4, <2>5, PendingKept
<1>13. ASSUME CloseTimeline PROVE PendInv'
  <2>1. /\ file' = FALSE /\ \A t \in Tasks : pc[t] = "idle"
        /\ signaled' = [p \in Points |-> signaled[p] \/ p \in Range(pt_list)]
        /\ UNCHANGED <<value, total, pt_list, seqno, refs, pc>>
    BY <1>13 DEF CloseTimeline, taskVars
  <2>2. DueListed'
    <3>1. \A q \in Points : refs[q] > 0 /\ ~signaled[q] => file /\ q \in Range(pt_list)
      BY DEF PendInv, DueListed
    <3>2. QED BY <2>1, <3>1 DEF DueListed
  <2>3. Busy'
    BY <2>1 DEF Busy
  <2>4. QED BY <1>1, <2>1, <2>2, <2>3, PendingKept
<1>14. ASSUME Break PROVE PendInv'
  <2>1. UNCHANGED <<file, value, total, pt_list, seqno, signaled, target, pc, refs>>
    BY <1>14 DEF Break, lineVars, pointVars, taskVars, history
  <2>2. QED BY <1>1, <2>1, RefsDown DEF Busy
<1>15. ASSUME UNCHANGED vars PROVE PendInv'
  <2>1. UNCHANGED <<file, value, total, pt_list, seqno, signaled, target, pc, refs>>
    BY <1>15 DEF vars, lineVars, pointVars, taskVars, history
  <2>2. QED BY <1>1, <2>1, RefsDown DEF Busy
<1>16. ASSUME NEW t \in Tasks, DropUnlink(t) PROVE PendInv'
  <2>1. /\ pc[t] = "drop" /\ pc' = [pc EXCEPT ![t] = "put"]
        /\ UNCHANGED <<file, value, total, pt_list, seqno, signaled, target, refs>>
    BY <1>16 DEF DropUnlink, TaskGoto, lineVars, pointVars, history
  <2>2. Busy'
    BY <1>1, <2>1 DEF Busy, TypeOK
  <2>3. QED BY <1>1, <2>1, <2>2, RefsDown
<1>17. QED BY <1>2, <1>3, <1>4, <1>5, <1>6, <1>7, <1>8, <1>9, <1>10, <1>11, <1>12, <1>13,
              <1>14, <1>15, <1>16 DEF Next, ReleaseStep, ReleaseCorrupts, DropFreed

THEOREM PendingInvariant == Spec => []PendInv
BY InitPending, StepKeepsPending, PTL DEF Spec

(* The list is in the order in which the timeline reaches its points, also *)
(* across the wrap of the value, so the loop of sync_timeline_signal() may *)
(* break at the first that is later; two points of one value are on it only *)
(* while the first is released.                                             *)
THEOREM PendingInOrder == Spec => []PendingSorted
<1>1. PendInv => PendingSorted
  <2> SUFFICES ASSUME PendInv PROVE PendingSorted
    OBVIOUS
  <2>1. /\ Len(pt_list) \in Nat
        /\ \A i \in 1..Len(pt_list) : pt_list[i] \in Range(pt_list)
    BY ListFacts DEF PendInv, RefInv, Shape, IsList
  <2>2. ASSUME file, NEW i \in 1..Len(pt_list)
        PROVE  /\ Later(seqno[pt_list[i]], value)
               /\ i > 1 => Ahead(seqno[pt_list[i - 1]], value) <= Ahead(seqno[pt_list[i]], value)
    <3>1. Later(seqno[pt_list[i]], value)
      BY <2>1, <2>2 DEF PendInv, Pending
    <3>2. ASSUME i > 1 PROVE Dist(pt_list[i - 1]) <= Dist(pt_list[i])
      <4>1. i - 1 \in 1..Len(pt_list) /\ i - 1 < i
        BY <2>1, <3>2
      <4>2. QED BY <2>2, <4>1 DEF PendInv, Sorted
    <3>3. QED BY <3>1, <3>2 DEF Dist
  <2>3. Single
    BY DEF PendInv
  <2>4. QED BY <2>2, <2>3 DEF PendingSorted, Single
<1>2. QED BY <1>1, PendingInvariant, PTL

-----------------------------------------------------------------------------
(* The fences that Timeline sees, and its steps said of them.               *)
Sighted(r, s, a) ==
  IF r = 0 THEN [state |-> "absent", at |-> 0]
  ELSE IF s THEN [state |-> "done", at |-> 0]
  ELSE [state |-> "due", at |-> a]

Fence == [p \in Points |-> Sighted(refs[p], signaled[p], target[p])]

AddStep(p) ==
  /\ file /\ Fence[p] = [state |-> "absent", at |-> 0]
  /\ Fence' = [Fence EXCEPT ![p] = Fence'[p]]
  /\ \/ Fence'[p] = [state |-> "done", at |-> 0]
     \/ Fence'[p] = [state |-> "due", at |-> Fence'[p].at] /\ Fence'[p].at > total
  /\ total' = total /\ file' = file

AdvanceStep ==
  /\ file /\ file' = file /\ total' >= total
  /\ Fence' = [p \in Points |-> IF Fence[p].state = "due" /\ Fence[p].at <= total'
                                THEN [state |-> "done", at |-> 0] ELSE Fence[p]]

RemoveStep(p) ==
  /\ Fence[p] # [state |-> "absent", at |-> 0]
  /\ Fence' = [Fence EXCEPT ![p] = [state |-> "absent", at |-> 0]]
  /\ total' = total /\ file' = file

EndStep ==
  /\ file /\ file' = FALSE /\ total' = total
  /\ Fence' = [p \in Points |-> IF Fence[p].state = "due" THEN [state |-> "done", at |-> 0]
                                ELSE Fence[p]]

SameLine == Fence' = Fence /\ total' = total /\ file' = file

LineStep ==
  (\E p \in Points : AddStep(p) \/ RemoveStep(p)) \/ AdvanceStep \/ EndStep \/ SameLine

(* What is seen of a point.                                                 *)
LEMMA Sights ==
  ASSUME NEW r, NEW s, NEW a
  PROVE  /\ r = 0 => Sighted(r, s, a) = [state |-> "absent", at |-> 0]
         /\ r # 0 /\ s => Sighted(r, s, a) = [state |-> "done", at |-> 0]
         /\ r # 0 /\ ~s => Sighted(r, s, a) = [state |-> "due", at |-> a]
BY DEF Sighted

(* A point looks the same as long as it keeps a reference, or has none, and *)
(* is not signalled.                                                        *)
LEMMA SeenSame ==
  ASSUME RefInv, RefInv', NEW q \in Points, refs'[q] > 0 <=> refs[q] > 0,
         refs[q] > 0 => signaled'[q] = signaled[q] /\ (~signaled[q] => target'[q] = target[q])
  PROVE  Sighted(refs'[q], signaled'[q], target'[q]) = Sighted(refs[q], signaled[q], target[q])
<1>1. refs[q] \in Nat /\ refs'[q] \in Nat
  BY DEF RefInv, TypeOK
<1>2. refs'[q] = 0 <=> refs[q] = 0
  BY <1>1
<1>3. refs[q] # 0 => refs[q] > 0
  BY <1>1
<1>4. QED BY <1>2, <1>3 DEF Sighted

LEMMA LineSame ==
  ASSUME RefInv, RefInv', UNCHANGED <<file, total>>,
         \A q \in Points : /\ refs'[q] > 0 <=> refs[q] > 0
                           /\ refs[q] > 0 => /\ signaled'[q] = signaled[q]
                                             /\ ~signaled[q] => target'[q] = target[q]
  PROVE  LineStep
<1>1. Fence' = Fence
  BY SeenSame DEF Fence
<1>2. QED BY <1>1 DEF LineStep, SameLine

LEMMA LineRemove ==
  ASSUME RefInv, RefInv', NEW p \in Points, DropRef(p), phase[p] = "used",
         UNCHANGED <<file, total, signaled, target>>
  PROVE  LineStep
<1>1. refs \in [Points -> Nat] /\ refs[p] > 0 /\ refs' = [refs EXCEPT ![p] = @ - 1]
  BY DEF RefInv, TypeOK, Shape, DropRef
<1>2. CASE refs[p] = 1
  <2>1. refs'[p] = 0 /\ \A q \in Points : q # p => refs'[q] = refs[q]
    BY <1>1, <1>2
  <2>2. Fence[p] # [state |-> "absent", at |-> 0]
    <3>1. \/ Fence[p] = [state |-> "done", at |-> 0]
          \/ Fence[p] = [state |-> "due", at |-> target[p]]
      BY <1>2, Sights DEF Fence
    <3>2. QED BY <3>1
  <2>3. Fence' = [Fence EXCEPT ![p] = [state |-> "absent", at |-> 0]]
    <3>1. Sighted(refs'[p], signaled'[p], target'[p]) = [state |-> "absent", at |-> 0]
      BY <2>1, Sights
    <3>2. ASSUME NEW q \in Points, q # p
          PROVE  Sighted(refs'[q], signaled'[q], target'[q]) = Sighted(refs[q], signaled[q], target[q])
      BY <2>1, <3>2
    <3>3. QED BY <3>1, <3>2 DEF Fence
  <2>4. QED BY <2>2, <2>3 DEF LineStep, RemoveStep
<1>3. CASE refs[p] # 1
  <2>1. \A q \in Points : refs'[q] > 0 <=> refs[q] > 0
    BY <1>1, <1>3
  <2>2. QED BY <2>1, LineSame
<1>4. QED BY <1>2, <1>3

LEMMA LineAdd ==
  ASSUME RefInv, RefInv', NEW p \in Points, refs[p] = 0, refs'[p] # 0, file,
         \A q \in Points : q # p => /\ refs'[q] = refs[q] /\ signaled'[q] = signaled[q]
                                    /\ target'[q] = target[q],
         signaled'[p] \/ target'[p] > total, UNCHANGED <<file, total>>
  PROVE  LineStep
<1>1. Fence[p] = [state |-> "absent", at |-> 0]
  BY Sights DEF Fence
<1>2. \/ Fence'[p] = [state |-> "done", at |-> 0]
      \/ Fence'[p] = [state |-> "due", at |-> target'[p]] /\ target'[p] > total
  BY Sights DEF Fence
<1>3. Fence' = [Fence EXCEPT ![p] = Fence'[p]]
  <2>1. ASSUME NEW q \in Points, q # p PROVE Fence'[q] = Fence[q]
    BY <2>1 DEF Fence
  <2>2. QED BY <2>1 DEF Fence
<1>4. \/ Fence'[p] = [state |-> "done", at |-> 0]
      \/ Fence'[p] = [state |-> "due", at |-> Fence'[p].at] /\ Fence'[p].at > total
  BY <1>2
<1>5. QED BY <1>1, <1>3, <1>4 DEF LineStep, AddStep

LEMMA LineAdvance ==
  ASSUME PendInv, NEW t \in Tasks, file, pc[t] \in {"idle", "signal"}, NEW rest \in Word,
         SignalStep(t, rest)
  PROVE  LineStep
<1>1. /\ PendInv' /\ total' >= total
      /\ \A p \in Points :
           /\ refs'[p] > 0 <=> refs[p] > 0
           /\ signaled'[p] = (signaled[p] \/ (p \in Range(pt_list) /\ target[p] <= total'))
           /\ ~signaled'[p] => target'[p] = target[p]
  BY SignalPending
<1>2. file' = file
  BY DEF SignalStep
<1>3. RefInv /\ RefInv' /\ refs \in [Points -> Nat] /\ refs' \in [Points -> Nat]
  BY <1>1 DEF PendInv, RefInv, TypeOK
<1>4. \A p \in Points : refs[p] > 0 /\ ~signaled[p] => p \in Range(pt_list)
  BY DEF PendInv, DueListed
<1>5. ASSUME NEW p \in Points
      PROVE  Sighted(refs'[p], signaled'[p], target'[p])
               = IF Fence[p].state = "due" /\ Fence[p].at <= total'
                 THEN [state |-> "done", at |-> 0] ELSE Fence[p]
  <2>0. Fence[p] = Sighted(refs[p], signaled[p], target[p])
    BY DEF Fence
  <2>1. CASE refs[p] = 0
    <3>1. refs'[p] = 0
      BY <1>1, <1>3, <2>1
    <3>2. /\ Sighted(refs'[p], signaled'[p], target'[p]) = [state |-> "absent", at |-> 0]
          /\ Fence[p] = [state |-> "absent", at |-> 0]
      BY <2>0, <2>1, <3>1, Sights
    <3>3. QED BY <3>2
  <2>2. CASE refs[p] # 0 /\ signaled[p]
    <3>1. refs[p] > 0 /\ refs'[p] > 0 /\ refs'[p] # 0
      BY <1>1, <1>3, <2>2
    <3>2. refs'[p] # 0 /\ signaled'[p]
      BY <1>1, <2>2, <3>1, Zenon
    <3>3. Sighted(refs'[p], signaled'[p], target'[p]) = [state |-> "done", at |-> 0]
      BY <3>2, Sights
    <3>4. Fence[p] = [state |-> "done", at |-> 0]
      BY <2>0, <2>2, Sights
    <3>5. QED BY <3>3, <3>4
  <2>3. CASE refs[p] # 0 /\ ~signaled[p]
    <3>1. refs[p] > 0 /\ refs'[p] > 0 /\ refs'[p] # 0
      BY <1>1, <1>3, <2>3
    <3>2. signaled'[p] <=> target[p] <= total'
      BY <1>1, <1>4, <2>3, <3>1, Zenon
    <3>3. Fence[p] = [state |-> "due", at |-> target[p]]
      BY <2>0, <2>3, Sights
    <3>4. CASE signaled'[p]
      <4>1. Sighted(refs'[p], signaled'[p], target'[p]) = [state |-> "done", at |-> 0]
        BY <3>1, <3>4, Sights
      <4>2. target[p] <= total'
        BY <3>2, <3>4
      <4>3. QED BY <3>3, <4>1, <4>2
    <3>5. CASE ~signaled'[p]
      <4>1. Sighted(refs'[p], signaled'[p], target'[p]) = [state |-> "due", at |-> target[p]]
        BY <1>1, <3>1, <3>5, Sights
      <4>2. ~(target[p] <= total')
        BY <3>2, <3>5
      <4>3. QED BY <3>3, <4>1, <4>2
    <3>6. QED BY <3>4, <3>5
  <2>4. QED BY <2>1, <2>2, <2>3
<1>6. Fence' = [p \in Points |-> IF Fence[p].state = "due" /\ Fence[p].at <= total'
                                THEN [state |-> "done", at |-> 0] ELSE Fence[p]]
  <2>1. Fence' = [p \in Points |-> Sighted(refs'[p], signaled'[p], target'[p])]
    BY DEF Fence
  <2>2. QED BY <1>5, <2>1, Zenon
<1>7. QED BY <1>1, <1>2, <1>6 DEF LineStep, AdvanceStep

LEMMA LineEnds ==
  ASSUME PendInv, CloseTimeline
  PROVE  LineStep
<1>1. /\ file /\ file' = FALSE /\ total' = total /\ refs' = refs
      /\ signaled' = [p \in Points |-> signaled[p] \/ p \in Range(pt_list)]
  BY DEF CloseTimeline
<1>2. \A p \in Points : refs[p] > 0 /\ ~signaled[p] => p \in Range(pt_list)
  BY DEF PendInv, DueListed
<1>3. refs \in [Points -> Nat]
  BY DEF PendInv, RefInv, TypeOK
<1>4. ASSUME NEW p \in Points
      PROVE  Sighted(refs'[p], signaled'[p], target'[p])
               = IF Fence[p].state = "due" THEN [state |-> "done", at |-> 0] ELSE Fence[p]
  <2>0. Fence[p] = Sighted(refs[p], signaled[p], target[p])
    BY DEF Fence
  <2>1. CASE refs[p] = 0
    <3>1. /\ Sighted(refs'[p], signaled'[p], target'[p]) = [state |-> "absent", at |-> 0]
          /\ Fence[p] = [state |-> "absent", at |-> 0]
      BY <1>1, <2>0, <2>1, Sights
    <3>2. QED BY <3>1
  <2>2. CASE refs[p] # 0
    <3>1. refs[p] > 0
      BY <1>3, <2>2
    <3>2. signaled'[p]
      BY <1>1, <1>2, <3>1, Zenon
    <3>3. Sighted(refs'[p], signaled'[p], target'[p]) = [state |-> "done", at |-> 0]
      BY <1>1, <2>2, <3>2, Sights
    <3>4. \/ Fence[p] = [state |-> "done", at |-> 0]
          \/ Fence[p] = [state |-> "due", at |-> target[p]]
      BY <2>0, <2>2, Sights
    <3>5. QED BY <3>3, <3>4
  <2>3. QED BY <2>1, <2>2
<1>5. Fence' = [p \in Points |-> IF Fence[p].state = "due" THEN [state |-> "done", at |-> 0]
                                ELSE Fence[p]]
  <2>1. Fence' = [p \in Points |-> Sighted(refs'[p], signaled'[p], target'[p])]
    BY DEF Fence
  <2>2. QED BY <1>4, <2>1, Zenon
<1>6. QED BY <1>1, <1>5 DEF LineStep, EndStep

LEMMA StepIsLine == PendInv /\ PendInv' /\ [Next]_vars => LineStep
<1> SUFFICES ASSUME PendInv, PendInv', [Next]_vars PROVE LineStep
  OBVIOUS
<1>1. RefInv /\ RefInv' /\ TypeOK /\ TypeOK'
  BY DEF PendInv, RefInv
<1>2. ASSUME NEW t \in Tasks, NEW p \in Points, NEW v \in Word, CreatePassed(t, p, v)
      PROVE  LineStep
  <2>1. /\ phase[p] = "free" /\ file /\ signaled' = [signaled EXCEPT ![p] = TRUE]
        /\ refs' = [refs EXCEPT ![p] = 1] /\ UNCHANGED <<file, total, target>>
    BY <1>2 DEF CreatePassed, New, Create
  <2>2. refs[p] = 0
    BY <1>1, <2>1 DEF RefInv, RefOK
  <2>3. /\ refs'[p] # 0 /\ signaled'[p]
        /\ \A q \in Points : q # p => /\ refs'[q] = refs[q] /\ signaled'[q] = signaled[q]
                                      /\ target'[q] = target[q]
    BY <1>1, <2>1 DEF TypeOK
  <2>4. QED BY <1>1, <2>1, <2>2, <2>3, LineAdd
<1>3. ASSUME NEW t \in Tasks, NEW p \in Points, NEW v \in Word, CreateMerge(t, p, v)
      PROVE  LineStep
  <2>1. /\ refs' = [refs EXCEPT ![p] = @ + 1] /\ refs[p] > 0
        /\ UNCHANGED <<file, total, signaled, target>>
    BY <1>3 DEF CreateMerge, Twin, Create
  <2>2. \A q \in Points : refs'[q] > 0 <=> refs[q] > 0
    BY <1>1, <2>1 DEF TypeOK
  <2>3. QED BY <1>1, <2>1, <2>2, LineSame
<1>4. ASSUME NEW t \in Tasks, NEW p \in Points, NEW v \in Word, CreateInsert(t, p, v)
      PROVE  LineStep
  <2>1. /\ phase[p] = "free" /\ file /\ Later(v, value)
        /\ signaled' = [signaled EXCEPT ![p] = FALSE]
        /\ refs' = [refs EXCEPT ![p] = 1]
        /\ target' = [target EXCEPT ![p] = total + Ahead(v, value)]
        /\ UNCHANGED <<file, total>>
    BY <1>4 DEF CreateInsert, New, Create
  <2>2. refs[p] = 0
    BY <1>1, <2>1 DEF RefInv, RefOK
  <2>3. /\ refs'[p] # 0 /\ target'[p] = total + Ahead(v, value)
        /\ \A q \in Points : q # p => /\ refs'[q] = refs[q] /\ signaled'[q] = signaled[q]
                                      /\ target'[q] = target[q]
    BY <1>1, <2>1 DEF TypeOK
  <2>4. target'[p] > total
    BY <1>1, <2>1, <2>3, HalfAssumption DEF TypeOK, Later
  <2>5. QED BY <1>1, <2>1, <2>2, <2>3, <2>4, LineAdd
<1>5. ASSUME NEW t \in Tasks, NEW ok \in BOOLEAN, Install(t, ok)
      PROVE  LineStep
  <2>1. /\ pc[t] = "install" /\ UNCHANGED <<file, total, signaled, target>>
        /\ UNCHANGED refs \/ DropRef(pt[t])
    BY <1>5 DEF Install, TaskGoto, lineVars, history
  <2>2. pt[t] \in Points
    BY <1>1, <2>1 DEF RefInv, Shape, TypeOK
  <2>3. phase[pt[t]] = "used"
    BY <1>1, <2>2 DEF RefInv, RefOK, Creators
  <2>4. QED BY <1>1, <2>1, <2>2, <2>3, LineRemove, LineSame
<1>6. ASSUME NEW t \in Tasks, NEW n \in Steps, Inc(t, n) PROVE LineStep
  <2>1. n \in Word
    BY StepAssumption DEF Word
  <2>2. QED BY <1>6, <2>1, LineAdvance DEF Inc
<1>7. ASSUME NEW t \in Tasks, IncMore(t) PROVE LineStep
  <2>1. left[t] \in Word /\ file
    BY <1>1, <1>7 DEF TypeOK, IncMore, PendInv, Busy
  <2>2. QED BY <1>7, <2>1, LineAdvance DEF IncMore
<1>8. ASSUME NEW t \in Tasks, DropPut(t) PROVE LineStep
  <2>1. /\ pc[t] = "put" /\ UNCHANGED <<file, total, signaled, target>>
        /\ UNCHANGED refs \/ (refs[Head(signalled[t])] > 0 /\ DropRef(Head(signalled[t])))
    BY <1>8 DEF DropPut, Taken, lineVars, history
  <2>2. Head(signalled[t]) \in Points
    BY <1>1, <2>1, HeadTailProperties DEF RefInv, Shape, IsList
  <2>3. refs[Head(signalled[t])] > 0 => phase[Head(signalled[t])] = "used"
    BY <1>1, <2>2 DEF RefInv, RefOK
  <2>4. QED BY <1>1, <2>1, <2>2, <2>3, LineRemove, LineSame
<1>9. ASSUME NEW p \in Points, ReleaseUnlink(p) PROVE LineStep
  <2>1. UNCHANGED <<file, total, signaled, target, refs>>
    BY <1>9 DEF ReleaseUnlink, history
  <2>2. QED BY <1>1, <2>1, LineSame
<1>10. ASSUME NEW p \in Points, ReleaseFree(p) PROVE LineStep
  <2>1. /\ phase[p] = "unlinked" /\ signaled' = [signaled EXCEPT ![p] = FALSE]
        /\ target' = [target EXCEPT ![p] = 0] /\ UNCHANGED <<file, total, refs>>
    BY <1>10 DEF ReleaseFree
  <2>2. refs[p] = 0 /\ ~(refs[p] > 0)
    BY <1>1, <2>1 DEF RefInv, RefOK
  <2>3. \A q \in Points : q # p => signaled'[q] = signaled[q] /\ target'[q] = target[q]
    BY <1>1, <2>1 DEF TypeOK
  <2>4. \A q \in Points : refs[q] > 0 => signaled'[q] = signaled[q] /\ target'[q] = target[q]
    BY <2>2, <2>3, Zenon
  <2>5. QED BY <1>1, <2>1, <2>4, LineSame
<1>11. ASSUME NEW p \in Points, CloseFence(p) PROVE LineStep
  <2>1. /\ files[p] > 0 /\ DropRef(p) /\ UNCHANGED <<file, total, signaled, target>>
    BY <1>11 DEF CloseFence, lineVars, history
  <2>2. phase[p] = "used"
    BY <1>1, <2>1 DEF RefInv, RefOK
  <2>3. QED BY <1>1, <2>1, <2>2, LineRemove
<1>12. ASSUME NEW p \in Points, QueryFence(p) PROVE LineStep
  <2>1. /\ signaled' = [signaled EXCEPT ![p] = @ \/ ~Later(seqno[p], value)]
        /\ UNCHANGED <<file, total, refs, target>>
    BY <1>12 DEF QueryFence, lineVars, history
  <2>2. refs[p] > 0 /\ ~signaled[p] => Later(seqno[p], value)
    BY DEF PendInv, Pending, DueListed
  <2>3. \A q \in Points : refs[q] > 0 => signaled'[q] = signaled[q]
    BY <1>1, <2>1, <2>2 DEF TypeOK
  <2>4. QED BY <1>1, <2>1, <2>3, LineSame
<1>13. ASSUME CloseTimeline PROVE LineStep
  BY <1>13, LineEnds
<1>14. ASSUME Break PROVE LineStep
  <2>1. UNCHANGED <<file, total, signaled, target, refs>>
    BY <1>14 DEF Break, lineVars, pointVars, history
  <2>2. QED BY <1>1, <2>1, LineSame
<1>15. ASSUME UNCHANGED vars PROVE LineStep
  <2>1. UNCHANGED <<file, total, signaled, target, refs>>
    BY <1>15 DEF vars, lineVars, pointVars, history
  <2>2. QED BY <1>1, <2>1, LineSame
<1>16. ASSUME NEW t \in Tasks, DropUnlink(t) PROVE LineStep
  <2>1. UNCHANGED <<file, total, signaled, target, refs>>
    BY <1>16 DEF DropUnlink, lineVars, pointVars, history
  <2>2. QED BY <1>1, <2>1, LineSame
<1>17. QED BY <1>2, <1>3, <1>4, <1>5, <1>6, <1>7, <1>8, <1>9, <1>10, <1>11, <1>12, <1>13,
              <1>14, <1>15, <1>16 DEF Next, ReleaseStep, ReleaseCorrupts, DropFreed

(* The timeline is a count that never wraps: an increment signals the fences *)
(* it reaches, all of them and no other, whatever the wrap of the word, the *)
(* size of the increment and the order in which references are put.         *)
THEOREM TimelineRefined == Spec => ImplementsTimeline
<1>1. Init => Line!TInit
  <2> SUFFICES ASSUME Init PROVE Line!TInit
    OBVIOUS
  <2>1. total = 0 /\ file = TRUE /\ \A p \in Points : refs[p] = 0
    BY DEF Init
  <2>2. QED BY <2>1 DEF Line!TInit, Line!Absent
<1>2. LineStep => [Line!TNext]_(Line!tvars)
  <2>1. ASSUME NEW p \in Points, AddStep(p) PROVE Line!Add(p)
    BY <2>1 DEF AddStep, Fence, Sighted, Line!Add, Line!Absent, Line!Done
  <2>2. ASSUME NEW p \in Points, RemoveStep(p) PROVE Line!Remove(p)
    BY <2>2 DEF RemoveStep, Fence, Sighted, Line!Remove, Line!Absent
  <2>3. AdvanceStep => Line!Advance
    BY DEF AdvanceStep, Fence, Sighted, Line!Advance, Line!IsDue, Line!Done
  <2>4. EndStep => Line!End
    BY DEF EndStep, Fence, Sighted, Line!End, Line!IsDue, Line!Done
  <2>5. SameLine => UNCHANGED Line!tvars
    BY DEF SameLine, Fence, Sighted, Line!tvars
  <2>6. QED BY <2>1, <2>2, <2>3, <2>4, <2>5 DEF LineStep, Line!TNext
<1>3. PendInv /\ PendInv' /\ [Next]_vars => [Line!TNext]_(Line!tvars)
  BY <1>2, StepIsLine
<1>4. QED BY <1>1, <1>3, PendingInvariant, PTL DEF Spec, ImplementsTimeline, Line!TSpec
=============================================================================
