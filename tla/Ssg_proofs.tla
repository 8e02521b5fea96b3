----------------------------- MODULE Ssg_proofs -----------------------------
(***************************************************************************)
(* Proofs about the two halves of the scheduler: SsgSched for any finite   *)
(* or infinite set of bios, any sectors, zones, times and                  *)
(* max_write_starvation, and SsgTags for every finite set of tasks, every  *)
(* set of cgroups, every depth, ratio and limit.                           *)
(*                                                                         *)
(* SsgSched: what a merge, an insertion and a dispatch do to a list is     *)
(* proved of any list that holds each of its requests once (QueueOK); the  *)
(* invariant SsgInv says that of both lists of each direction, and with it *)
(* that a request carries a contiguous piece.                              *)
(***************************************************************************)
EXTENDS SsgSched, SsgTags, SequenceTheorems, FiniteSetTheorems, WellFoundedInduction, TLAPS

-----------------------------------------------------------------------------
(* Least and greatest numbers.                                              *)
LEMMA LeastOfNaturals ==
  ASSUME NEW T \in SUBSET Nat, T # {}
  PROVE  \E x \in T : \A y \in T : x <= y
<1> DEFINE R == {w \in Nat \X Nat : w[1] < w[2]}
<1>1. IsWellFoundedOn(R, Nat)
  BY NatLessThanWellFounded DEF OpToRel
<1>2. PICK x \in T : \A y \in T : <<y, x>> \notin R
  BY <1>1, WFMin
<1>3. ASSUME NEW y \in T PROVE x <= y
  <2>1. <<y, x>> \in Nat \X Nat /\ <<y, x>>[1] = y /\ <<y, x>>[2] = x
    OBVIOUS
  <2>2. ~(y < x)
    BY <1>2, <2>1
  <2>3. QED BY <2>2
<1>4. QED BY <1>3

LEMMA MinIn ==
  ASSUME NEW T \in SUBSET Nat, T # {}
  PROVE  Min(T) \in T /\ \A y \in T : Min(T) <= y
<1>1. \E x \in T : \A y \in T : x <= y
  BY LeastOfNaturals
<1>2. QED BY <1>1 DEF Min

LEMMA MinIs ==
  ASSUME NEW T \in SUBSET Nat, NEW m \in T, \A y \in T : m <= y
  PROVE  Min(T) = m
<1>1. Min(T) \in T /\ Min(T) <= m
  BY MinIn
<1>2. m <= Min(T)
  BY <1>1
<1>3. m \in Nat /\ Min(T) \in Nat
  BY <1>1
<1>4. QED BY <1>1, <1>2, <1>3

LEMMA MaxIs ==
  ASSUME NEW T \in SUBSET Nat, NEW m \in T, \A y \in T : y <= m
  PROVE  Max(T) = m
<1>1. Max(T) \in T /\ Max(T) >= m
  BY DEF Max
<1>2. Max(T) <= m
  BY <1>1
<1>3. m \in Nat /\ Max(T) \in Nat
  BY <1>1
<1>4. QED BY <1>1, <1>2, <1>3

(* What is true of one and of the successor of each is true of all.         *)
LEMMA Successors ==
  ASSUME NEW N \in Nat, NEW S, 1 \in S, \A i \in 1..(N - 1) : i \in S => i + 1 \in S
  PROVE  \A i \in 1..N : i \in S
<1> SUFFICES ASSUME NEW k \in 1..N, k \notin S PROVE FALSE
  OBVIOUS
<1> DEFINE T == {i \in 1..N : i \notin S}
<1>1. T \in SUBSET Nat /\ T # {}
  OBVIOUS
<1>2. PICK x \in T : \A y \in T : x <= y
  BY <1>1, LeastOfNaturals
<1>3. x # 1 /\ x \in 1..N /\ x \notin S
  OBVIOUS
<1>4. x - 1 \in 1..(N - 1) /\ x - 1 \in 1..N /\ ~(x <= x - 1) /\ x - 1 + 1 = x
  BY <1>3
<1>5. x - 1 \in S
  BY <1>2, <1>4
<1>6. QED BY <1>3, <1>4, <1>5

-----------------------------------------------------------------------------
(* Taking an element out of a sequence and putting one in.                  *)
Skip(k, i) == IF i < k THEN i ELSE i + 1

LEMMA SeqFacts ==
  ASSUME NEW S, NEW s \in Seq(S)
  PROVE  /\ Len(s) \in Nat /\ DOMAIN s = 1..Len(s)
         /\ \A i \in 1..Len(s) : s[i] \in S /\ s[i] \in Range(s)
         /\ \A x \in Range(s) : x \in S /\ \E i \in 1..Len(s) : s[i] = x
<1>1. Len(s) \in Nat /\ DOMAIN s = 1..Len(s) /\ \A i \in 1..Len(s) : s[i] \in S
  BY LenProperties, ElementOfSeq
<1>2. QED BY <1>1 DEF Range

LEMMA RemovedAt ==
  ASSUME NEW S, NEW s \in Seq(S), NEW k \in 1..Len(s)
  PROVE  LET t == RemoveAt(s, k)
         IN  /\ t \in Seq(S) /\ Len(t) = Len(s) - 1
             /\ \A i \in 1..Len(t) : Skip(k, i) \in 1..Len(s) /\ t[i] = s[Skip(k, i)]
<1> DEFINE a == SubSeq(s, 1, k - 1)
           b == SubSeq(s, k + 1, Len(s))
           t == RemoveAt(s, k)
<1>1. Len(s) \in Nat /\ k \in Nat /\ k >= 1 /\ k <= Len(s) /\ \A i \in 1..Len(s) : s[i] \in S
  BY SeqFacts
<1>2. a \in Seq(S) /\ Len(a) = k - 1 /\ \A i \in 1..(k - 1) : a[i] = s[i]
  <2>1. \A i \in 1..(k - 1) : s[i] \in S
    BY <1>1
  <2>2. /\ a \in Seq(S) /\ Len(a) = (IF 1 <= k - 1 THEN k - 1 - 1 + 1 ELSE 0)
        /\ \A i \in 1..(k - 1 - 1 + 1) : a[i] = s[1 + i - 1]
    BY <1>1, <2>1, SubSeqProperties
  <2>3. QED BY <1>1, <2>2
<1>3. b \in Seq(S) /\ Len(b) = Len(s) - k /\ \A i \in 1..(Len(s) - k) : b[i] = s[k + i]
  <2>1. \A i \in (k + 1)..Len(s) : s[i] \in S
    BY <1>1
  <2>2. /\ b \in Seq(S) /\ Len(b) = (IF k + 1 <= Len(s) THEN Len(s) - (k + 1) + 1 ELSE 0)
        /\ \A i \in 1..(Len(s) - (k + 1) + 1) : b[i] = s[(k + 1) + i - 1]
    BY <1>1, <2>1, SubSeqProperties
  <2>3. QED BY <1>1, <2>2
<1>4. t = a \o b
  BY DEF RemoveAt
<1> HIDE DEF a, b, t
<1>5. /\ t \in Seq(S) /\ Len(t) = Len(a) + Len(b)
      /\ \A i \in 1..(Len(a) + Len(b)) : t[i] = IF i <= Len(a) THEN a[i] ELSE b[i - Len(a)]
  BY <1>2, <1>3, <1>4, ConcatProperties
<1>6. Len(t) = Len(s) - 1
  BY <1>1, <1>2, <1>3, <1>5
<1>7. ASSUME NEW i \in 1..Len(t), i < k PROVE t[i] = s[i]
  <2>1. i \in 1..(k - 1) /\ i \in 1..(Len(a) + Len(b)) /\ i <= Len(a)
    BY <1>1, <1>2, <1>5, <1>6, <1>7
  <2>2. QED BY <2>1, <1>2, <1>5
<1>8. ASSUME NEW i \in 1..Len(t), ~(i < k) PROVE t[i] = s[i + 1]
  <2>1. i \in 1..(Len(a) + Len(b)) /\ ~(i <= Len(a)) /\ i - Len(a) = i + 1 - k
    BY <1>1, <1>2, <1>5, <1>8
  <2>2. i + 1 - k \in 1..(Len(s) - k) /\ k + (i + 1 - k) = i + 1
    BY <1>1, <1>6, <1>8
  <2>3. t[i] = b[i + 1 - k]
    BY <2>1, <1>5
  <2>4. b[i + 1 - k] = s[k + (i + 1 - k)]
    BY <2>2, <1>3
  <2>5. QED BY <2>2, <2>3, <2>4
<1>9. \A i \in 1..Len(t) : Skip(k, i) \in 1..Len(s) /\ t[i] = s[Skip(k, i)]
  BY <1>1, <1>6, <1>7, <1>8 DEF Skip
<1>10. QED BY <1>5, <1>6, <1>9 DEF t

(* Skip keeps the order and reaches every index but one.                    *)
LEMMA SkipFacts ==
  ASSUME NEW n \in Nat, NEW k \in 1..n
  PROVE  /\ \A i, j \in 1..(n - 1) : (i < j <=> Skip(k, i) < Skip(k, j))
         /\ \A i \in 1..(n - 1) : Skip(k, i) \in 1..n /\ Skip(k, i) # k
         /\ \A j \in 1..n : j # k => \E i \in 1..(n - 1) : Skip(k, i) = j
<1>1. ASSUME NEW j \in 1..n, j # k PROVE \E i \in 1..(n - 1) : Skip(k, i) = j
  <2>1. CASE j < k
    <3>1. j \in 1..(n - 1) /\ Skip(k, j) = j
      BY <2>1 DEF Skip
    <3>2. QED BY <3>1
  <2>2. CASE j > k
    <3>1. j - 1 \in 1..(n - 1) /\ Skip(k, j - 1) = j
      BY <2>2 DEF Skip
    <3>2. QED BY <3>1
  <2>3. QED BY <1>1, <2>1, <2>2
<1>2. QED BY <1>1 DEF Skip

LEMMA InsertedAt ==
  ASSUME NEW S, NEW s \in Seq(S), NEW x \in S, NEW k \in 1..(Len(s) + 1)
  PROVE  LET t == InsertAt(s, k, x)
         IN  /\ t \in Seq(S) /\ Len(t) = Len(s) + 1 /\ t[k] = x
             /\ \A i \in 1..Len(s) : Skip(k, i) \in 1..Len(t) /\ t[Skip(k, i)] = s[i]
<1> DEFINE a == SubSeq(s, 1, k - 1)
           b == SubSeq(s, k, Len(s))
           c == a \o <<x>>
           t == InsertAt(s, k, x)
<1>1. Len(s) \in Nat /\ k \in Nat /\ k >= 1 /\ k <= Len(s) + 1 /\ \A i \in 1..Len(s) : s[i] \in S
  BY SeqFacts
<1>2. a \in Seq(S) /\ Len(a) = k - 1 /\ \A i \in 1..(k - 1) : a[i] = s[i]
  <2>1. \A i \in 1..(k - 1) : s[i] \in S
    BY <1>1
  <2>2. /\ a \in Seq(S) /\ Len(a) = (IF 1 <= k - 1 THEN k - 1 - 1 + 1 ELSE 0)
        /\ \A i \in 1..(k - 1 - 1 + 1) : a[i] = s[1 + i - 1]
    BY <1>1, <2>1, SubSeqProperties
  <2>3. QED BY <1>1, <2>2
<1>3. b \in Seq(S) /\ Len(b) = Len(s) - k + 1 /\ \A i \in 1..(Len(s) - k + 1) : b[i] = s[k + i - 1]
  <2>1. \A i \in k..Len(s) : s[i] \in S
    BY <1>1
  <2>2. /\ b \in Seq(S) /\ Len(b) = (IF k <= Len(s) THEN Len(s) - k + 1 ELSE 0)
        /\ \A i \in 1..(Len(s) - k + 1) : b[i] = s[k + i - 1]
    BY <1>1, <2>1, SubSeqProperties
  <2>3. QED BY <1>1, <2>2
<1>4. <<x>> \in Seq(S) /\ Len(<<x>>) = 1 /\ <<x>>[1] = x
  OBVIOUS
<1>5. t = c \o b
  BY DEF InsertAt
<1> HIDE DEF a, b
<1>6. c \in Seq(S) /\ Len(c) = k /\ c[k] = x /\ \A i \in 1..(k - 1) : c[i] = s[i]
  <2>1. /\ c \in Seq(S) /\ Len(c) = Len(a) + Len(<<x>>)
        /\ \A i \in 1..(Len(a) + Len(<<x>>)) :
             c[i] = IF i <= Len(a) THEN a[i] ELSE <<x>>[i - Len(a)]
    BY <1>2, <1>4, ConcatProperties
  <2>2. Len(c) = k
    BY <1>1, <1>2, <1>4, <2>1
  <2>3. \A i \in 1..(k - 1) : i \in 1..(Len(a) + Len(<<x>>)) /\ i <= Len(a)
    BY <1>1, <1>2, <1>4
  <2>4. k \in 1..(Len(a) + Len(<<x>>)) /\ ~(k <= Len(a)) /\ k - Len(a) = 1
    BY <1>1, <1>2, <1>4
  <2>5. \A i \in 1..(k - 1) : c[i] = s[i]
    BY <2>1, <2>3, <1>2
  <2>6. c[k] = x
    BY <2>1, <2>4, <1>4
  <2>7. QED BY <2>1, <2>2, <2>5, <2>6
<1> HIDE DEF c, t
<1>7. /\ t \in Seq(S) /\ Len(t) = Len(c) + Len(b)
      /\ \A i \in 1..(Len(c) + Len(b)) : t[i] = IF i <= Len(c) THEN c[i] ELSE b[i - Len(c)]
  BY <1>3, <1>5, <1>6, ConcatProperties
<1>8. Len(t) = Len(s) + 1 /\ t[k] = x
  BY <1>1, <1>3, <1>6, <1>7
<1>9. ASSUME NEW i \in 1..Len(s), i < k PROVE t[i] = s[i]
  <2>1. i \in 1..(k - 1) /\ i \in 1..(Len(c) + Len(b)) /\ i <= Len(c)
    BY <1>1, <1>3, <1>6, <1>9
  <2>2. QED BY <2>1, <1>6, <1>7
<1>10. ASSUME NEW i \in 1..Len(s), ~(i < k) PROVE t[i + 1] = s[i]
  <2>1. /\ i + 1 \in 1..(Len(c) + Len(b)) /\ ~(i + 1 <= Len(c)) /\ (i + 1) - Len(c) = i + 1 - k
        /\ i + 1 - k \in 1..(Len(s) - k + 1) /\ k + (i + 1 - k) - 1 = i
    BY <1>1, <1>3, <1>6, <1>10
  <2>2. t[i + 1] = b[i + 1 - k]
    BY <2>1, <1>7
  <2>3. b[i + 1 - k] = s[k + (i + 1 - k) - 1]
    BY <2>1, <1>3
  <2>4. QED BY <2>1, <2>2, <2>3
<1>11. \A i \in 1..Len(s) : Skip(k, i) \in 1..Len(t) /\ t[Skip(k, i)] = s[i]
  BY <1>1, <1>8, <1>9, <1>10 DEF Skip
<1>12. QED BY <1>7, <1>8, <1>11 DEF t

-----------------------------------------------------------------------------
(* The lists of one direction: both hold the requests of R, once each; the  *)
(* sorted one in the order of F, the other in the order of their times.     *)
Entries == [rq : Bios, left : Nat]

Queues == [sort_list : Seq(Bios), fifo_list : Seq(Entries), next_rq : Bios \cup {None}]

Holds(s, R) ==
  /\ s \in Seq(Bios) /\ Range(s) = R
  /\ \A i, j \in 1..Len(s) : s[i] = s[j] => i = j

InOrder(s, F) == \A i, j \in 1..Len(s) : i < j => F[s[i]] <= F[s[j]]

FifoHolds(f, R) ==
  /\ f \in Seq(Entries) /\ {f[i].rq : i \in 1..Len(f)} = R
  /\ \A i, j \in 1..Len(f) : f[i].rq = f[j].rq => i = j

Expiring(f) == \A i, j \in 1..Len(f) : i < j => f[i].left <= f[j].left

LEMMA SortRemoved ==
  ASSUME NEW s, NEW R, Holds(s, R), NEW x \in Bios, NEW F
  PROVE  LET t == RemoveFirst(s, x)
         IN  Holds(t, R \ {x}) /\ (InOrder(s, F) => InOrder(t, F))
<1> DEFINE t == RemoveFirst(s, x)
<1>1. /\ s \in Seq(Bios) /\ Len(s) \in Nat /\ \A i \in 1..Len(s) : s[i] \in Bios /\ s[i] \in R
      /\ \A y \in R : \E i \in 1..Len(s) : s[i] = y
      /\ \A i, j \in 1..Len(s) : s[i] = s[j] => i = j
  BY SeqFacts DEF Holds
<1>2. CASE ~\E i \in 1..Len(s) : s[i] = x
  <2>1. t = s
    BY <1>2 DEF RemoveFirst
  <2>2. x \notin R
    BY <1>1, <1>2
  <2>3. QED BY <2>1, <2>2
<1>3. CASE \E i \in 1..Len(s) : s[i] = x
  <2> DEFINE I == {i \in 1..Len(s) : s[i] = x}
             k == Min(I)
  <2>1. I \in SUBSET Nat /\ I # {}
    BY <1>3
  <2>2. k \in 1..Len(s) /\ s[k] = x
    BY <2>1, MinIn
  <2>3. t = RemoveAt(s, k)
    BY <1>3, <2>1 DEF RemoveFirst, SelectInSeq
  <2> HIDE DEF k, t, I
  <2>4. /\ t \in Seq(Bios) /\ Len(t) = Len(s) - 1
        /\ \A i \in 1..Len(t) : Skip(k, i) \in 1..Len(s) /\ t[i] = s[Skip(k, i)]
    <3>1. LET u == RemoveAt(s, k)
          IN  /\ u \in Seq(Bios) /\ Len(u) = Len(s) - 1
              /\ \A i \in 1..Len(u) : Skip(k, i) \in 1..Len(s) /\ u[i] = s[Skip(k, i)]
      BY <1>1, <2>2, RemovedAt
    <3>2. QED BY <2>3, <3>1
  <2>5. /\ \A i, j \in 1..Len(t) : (i < j <=> Skip(k, i) < Skip(k, j))
        /\ \A i \in 1..Len(t) : Skip(k, i) # k
        /\ \A j \in 1..Len(s) : j # k => \E i \in 1..Len(t) : Skip(k, i) = j
    <3>1. 1..Len(t) = 1..(Len(s) - 1)
      BY <2>4
    <3>2. /\ \A i, j \in 1..(Len(s) - 1) : (i < j <=> Skip(k, i) < Skip(k, j))
          /\ \A i \in 1..(Len(s) - 1) : Skip(k, i) # k
          /\ \A j \in 1..Len(s) : j # k => \E i \in 1..(Len(s) - 1) : Skip(k, i) = j
      BY <1>1, <2>2, SkipFacts
    <3>3. QED BY <3>1, <3>2
  <2>6. ASSUME NEW i \in 1..Len(t), NEW j \in 1..Len(t), t[i] = t[j] PROVE i = j
    <3>1. Skip(k, i) = Skip(k, j) /\ Skip(k, i) \in Nat
      <4>1. /\ Skip(k, i) \in 1..Len(s) /\ t[i] = s[Skip(k, i)]
            /\ Skip(k, j) \in 1..Len(s) /\ t[j] = s[Skip(k, j)]
        BY <2>4
      <4>2. s[Skip(k, i)] = s[Skip(k, j)]
        BY <2>6, <4>1
      <4>3. QED BY <1>1, <4>1, <4>2
    <3>2. ~(i < j) /\ ~(j < i)
      BY <2>5, <3>1
    <3>3. QED BY <3>2
  <2>7. Range(t) = R \ {x}
    <3>1. Len(t) \in Nat /\ \A y \in Range(t) : \E i \in 1..Len(t) : t[i] = y
      BY <2>4, SeqFacts
    <3>2. \A i \in 1..Len(t) : t[i] \in Range(t)
      BY <2>4, SeqFacts
    <3>3. ASSUME NEW y \in Range(t) PROVE y \in R \ {x}
      <4>1. PICK i \in 1..Len(t) : t[i] = y
        BY <3>1
      <4>2. Skip(k, i) \in 1..Len(s) /\ y = s[Skip(k, i)] /\ Skip(k, i) # k
        BY <2>4, <2>5, <4>1
      <4>3. QED BY <1>1, <2>2, <4>2
    <3>4. ASSUME NEW y \in R \ {x} PROVE y \in Range(t)
      <4>1. PICK j \in 1..Len(s) : s[j] = y
        BY <1>1
      <4>2. PICK i \in 1..Len(t) : Skip(k, i) = j
        BY <2>2, <2>5, <4>1
      <4>3. QED BY <2>4, <3>2, <4>1, <4>2
    <3>5. QED BY <3>3, <3>4
  <2>8. ASSUME InOrder(s, F) PROVE InOrder(t, F)
    BY <2>4, <2>5, <2>8 DEF InOrder
  <2>9. QED BY <2>4, <2>6, <2>7, <2>8 DEF Holds, t
<1>4. QED BY <1>2, <1>3

LEMMA FifoFacts ==
  ASSUME NEW f, NEW R, FifoHolds(f, R)
  PROVE  /\ f \in Seq(Entries) /\ Len(f) \in Nat /\ R \subseteq Bios
         /\ \A i \in 1..Len(f) : f[i] \in Entries /\ f[i].rq \in R /\ f[i].left \in Nat
         /\ \A y \in R : \E i \in 1..Len(f) : f[i].rq = y
         /\ \A i, j \in 1..Len(f) : f[i].rq = f[j].rq => i = j
<1>1. f \in Seq(Entries) /\ {f[i].rq : i \in 1..Len(f)} = R
  BY DEF FifoHolds
<1>2. Len(f) \in Nat /\ \A i \in 1..Len(f) : f[i] \in Entries
  BY <1>1, SeqFacts
<1>3. \A e \in Entries : e.rq \in Bios /\ e.left \in Nat
  BY DEF Entries
<1>4. QED BY <1>1, <1>2, <1>3 DEF FifoHolds

LEMMA FifoRemoved ==
  ASSUME NEW f, NEW R, FifoHolds(f, R), NEW x \in Bios
  PROVE  /\ FifoHolds(WithoutRq(f, x), R \ {x})
         /\ Expiring(f) => Expiring(WithoutRq(f, x))
         /\ x \notin R => WithoutRq(f, x) = f
         /\ x \in R => \E k \in 1..Len(f) :
              /\ f[k].rq = x /\ Len(WithoutRq(f, x)) = Len(f) - 1
              /\ \A i \in 1..Len(WithoutRq(f, x)) :
                   Skip(k, i) \in 1..Len(f) /\ WithoutRq(f, x)[i] = f[Skip(k, i)]
<1> DEFINE t == WithoutRq(f, x)
<1>1. /\ f \in Seq(Entries) /\ Len(f) \in Nat
      /\ \A i \in 1..Len(f) : f[i] \in Entries /\ f[i].rq \in R
      /\ \A y \in R : \E i \in 1..Len(f) : f[i].rq = y
      /\ \A i, j \in 1..Len(f) : f[i].rq = f[j].rq => i = j
  BY FifoFacts
<1>2. CASE ~\E i \in 1..Len(f) : f[i].rq = x
  <2>1. t = f
    BY <1>2 DEF WithoutRq, RemoveFirstMatch
  <2>2. x \notin R
    BY <1>1, <1>2
  <2>3. QED BY <2>1, <2>2
<1>3. CASE \E i \in 1..Len(f) : f[i].rq = x
  <2> DEFINE I == {i \in 1..Len(f) : f[i].rq = x}
             k == Min(I)
  <2>1. I \in SUBSET Nat /\ I # {}
    BY <1>3
  <2>2. k \in 1..Len(f) /\ f[k].rq = x
    BY <2>1, MinIn
  <2>3. t = RemoveAt(f, k)
    BY <1>3, <2>1 DEF WithoutRq, RemoveFirstMatch, SelectInSeq
  <2>10. x \in R
    BY <1>1, <2>2
  <2> HIDE DEF k, t, I
  <2>4. /\ t \in Seq(Entries) /\ Len(t) = Len(f) - 1
        /\ \A i \in 1..Len(t) : Skip(k, i) \in 1..Len(f) /\ t[i] = f[Skip(k, i)]
    <3>1. LET u == RemoveAt(f, k)
          IN  /\ u \in Seq(Entries) /\ Len(u) = Len(f) - 1
              /\ \A i \in 1..Len(u) : Skip(k, i) \in 1..Len(f) /\ u[i] = f[Skip(k, i)]
      BY <1>1, <2>2, RemovedAt
    <3>2. QED BY <2>3, <3>1
  <2>5. /\ \A i, j \in 1..Len(t) : (i < j <=> Skip(k, i) < Skip(k, j))
        /\ \A i \in 1..Len(t) : Skip(k, i) # k
        /\ \A j \in 1..Len(f) : j # k => \E i \in 1..Len(t) : Skip(k, i) = j
    <3>1. 1..Len(t) = 1..(Len(f) - 1)
      BY <2>4
    <3>2. /\ \A i, j \in 1..(Len(f) - 1) : (i < j <=> Skip(k, i) < Skip(k, j))
          /\ \A i \in 1..(Len(f) - 1) : Skip(k, i) # k
          /\ \A j \in 1..Len(f) : j # k => \E i \in 1..(Len(f) - 1) : Skip(k, i) = j
      BY <1>1, <2>2, SkipFacts
    <3>3. QED BY <3>1, <3>2
  <2>6. ASSUME NEW i \in 1..Len(t), NEW j \in 1..Len(t), t[i].rq = t[j].rq PROVE i = j
    <3>1. Skip(k, i) = Skip(k, j) /\ Skip(k, i) \in Nat
      <4>1. /\ Skip(k, i) \in 1..Len(f) /\ t[i] = f[Skip(k, i)]
            /\ Skip(k, j) \in 1..Len(f) /\ t[j] = f[Skip(k, j)]
        BY <2>4
      <4>2. QED BY <1>1, <2>6, <4>1
    <3>2. ~(i < j) /\ ~(j < i)
      BY <2>5, <3>1
    <3>3. QED BY <3>2
  <2>7. {t[i].rq : i \in 1..Len(t)} = R \ {x}
    <3>1. ASSUME NEW i \in 1..Len(t) PROVE t[i].rq \in R \ {x}
      BY <1>1, <2>2, <2>4, <2>5
    <3>2. ASSUME NEW y \in R \ {x} PROVE \E i \in 1..Len(t) : t[i].rq = y
      <4>1. PICK j \in 1..Len(f) : f[j].rq = y
        BY <1>1
      <4>2. PICK i \in 1..Len(t) : Skip(k, i) = j
        BY <2>2, <2>5, <4>1
      <4>3. QED BY <2>4, <4>1, <4>2
    <3>3. QED BY <3>1, <3>2
  <2>8. ASSUME Expiring(f) PROVE Expiring(t)
    BY <2>4, <2>5, <2>8 DEF Expiring
  <2>9. QED BY <2>2, <2>4, <2>6, <2>7, <2>8, <2>10 DEF FifoHolds, t
<1>4. QED BY <1>2, <1>3

-----------------------------------------------------------------------------
(* The neighbours of a request, and the queue without it.                   *)
LEMMA LatterFacts ==
  ASSUME NEW s, NEW R, Holds(s, R), NEW x \in R
  PROVE  Latter(s, x) \in (R \ {x}) \cup {None} /\ Former(s, x) \in (R \ {x}) \cup {None}
<1>1. /\ Len(s) \in Nat /\ \A i \in 1..Len(s) : s[i] \in R
      /\ \A i, j \in 1..Len(s) : s[i] = s[j] => i = j
  BY SeqFacts DEF Holds
<1>2. Latter(s, x) \in (R \ {x}) \cup {None}
  <2> DEFINE I == {i \in 2..Len(s) : s[i - 1] = x}
  <2>1. CASE I = {}
    BY <2>1 DEF Latter
  <2>2. CASE I # {}
    <3>1. I \in SUBSET Nat
      BY <1>1
    <3>6. Min(I) \in I
      BY <2>2, <3>1, MinIn
    <3>2. Min(I) \in 2..Len(s) /\ s[Min(I) - 1] = x /\ Min(I) \in 1..Len(s) /\ Min(I) - 1 \in 1..Len(s)
      BY <3>6, <1>1
    <3>3. s[Min(I)] # x /\ s[Min(I)] \in R
      BY <1>1, <3>2
    <3>4. Latter(s, x) = s[Min(I)]
      BY <2>2 DEF Latter
    <3>5. QED BY <3>3, <3>4
  <2>3. QED BY <2>1, <2>2
<1>3. Former(s, x) \in (R \ {x}) \cup {None}
  <2> DEFINE I == {i \in 1..(Len(s) - 1) : s[i + 1] = x}
  <2>1. CASE I = {}
    BY <2>1 DEF Former
  <2>2. CASE I # {}
    <3>1. I \in SUBSET Nat
      BY <1>1
    <3>6. Min(I) \in I
      BY <2>2, <3>1, MinIn
    <3>2. Min(I) \in 1..(Len(s) - 1) /\ s[Min(I) + 1] = x /\ Min(I) \in 1..Len(s) /\ Min(I) + 1 \in 1..Len(s)
      BY <3>6, <1>1
    <3>3. s[Min(I)] # x /\ s[Min(I)] \in R
      BY <1>1, <3>2
    <3>4. Former(s, x) = s[Min(I)]
      BY <2>2 DEF Former
    <3>5. QED BY <3>3, <3>4
  <2>3. QED BY <2>1, <2>2
<1>4. QED BY <1>2, <1>3

(* E: what a request has when it is inserted.                               *)
QueueOK(q, R, F, E) ==
  /\ q \in Queues
  /\ Holds(q.sort_list, R) /\ InOrder(q.sort_list, F)
  /\ FifoHolds(q.fifo_list, R) /\ Expiring(q.fifo_list)
  /\ \A i \in 1..Len(q.fifo_list) : q.fifo_list[i].left <= E
  /\ q.next_rq \in R \cup {None}

LEMMA QueueIs ==
  ASSUME NEW R \in SUBSET Bios, NEW F, NEW E, NEW s, NEW f, NEW n,
         Holds(s, R), InOrder(s, F), FifoHolds(f, R), Expiring(f),
         \A i \in 1..Len(f) : f[i].left <= E,
         n \in R \cup {None}
  PROVE  QueueOK([sort_list |-> s, fifo_list |-> f, next_rq |-> n], R, F, E)
BY DEF QueueOK, Queues, Holds, FifoHolds

LEMMA RequestRemoved ==
  ASSUME NEW q, NEW R \in SUBSET Bios, NEW F, NEW E, QueueOK(q, R, F, E), NEW x \in R
  PROVE  QueueOK(RemoveRequest(q, x), R \ {x}, F, E)
<1> DEFINE s == RemoveFirst(q.sort_list, x)
           f == WithoutRq(q.fifo_list, x)
           n == IF q.next_rq = x THEN Latter(q.sort_list, x) ELSE q.next_rq
<1>1. x \in Bios
  OBVIOUS
<1>2. Holds(s, R \ {x}) /\ InOrder(s, F)
  BY <1>1, SortRemoved DEF QueueOK
<1>3. FifoHolds(f, R \ {x}) /\ Expiring(f)
  BY <1>1, FifoRemoved DEF QueueOK
<1>4. \A i \in 1..Len(f) : f[i].left <= E
  <2>3. FifoHolds(q.fifo_list, R) /\ x \in Bios
    BY DEF QueueOK
  <2>1. PICK k \in 1..Len(q.fifo_list) :
          \A i \in 1..Len(f) : Skip(k, i) \in 1..Len(q.fifo_list) /\ f[i] = q.fifo_list[Skip(k, i)]
    BY <2>3, FifoRemoved
  <2>2. QED BY <2>1 DEF QueueOK
<1>5. n \in (R \ {x}) \cup {None}
  BY LatterFacts DEF QueueOK
<1>6. RemoveRequest(q, x) = [sort_list |-> s, fifo_list |-> f, next_rq |-> n]
  BY DEF RemoveRequest
<1> HIDE DEF s, f, n
<1>7. R \ {x} \in SUBSET Bios
  OBVIOUS
<1>8. QED BY <1>2, <1>3, <1>4, <1>5, <1>6, <1>7, QueueIs

-----------------------------------------------------------------------------
(* Of two requests that are merged one takes the better place, in time.     *)
Placed(f, x, y) ==
  LET w == WithoutRq(f, x)
  IN [i \in 1..Len(w) |-> IF w[i].rq = y THEN [w[i] EXCEPT !.rq = x] ELSE w[i]]

LEMMA PlaceTaken ==
  ASSUME NEW q, NEW R \in SUBSET Bios, NEW F, NEW E, QueueOK(q, R, F, E),
         NEW x \in R, NEW y \in R, x # y
  PROVE  /\ FifoHolds(Placed(q.fifo_list, x, y), R \ {y}) /\ Expiring(Placed(q.fifo_list, x, y))
         /\ \A i \in 1..Len(Placed(q.fifo_list, x, y)) : Placed(q.fifo_list, x, y)[i].left <= E
<1> DEFINE w == WithoutRq(q.fifo_list, x)
           f == [i \in 1..Len(w) |-> IF w[i].rq = y THEN [w[i] EXCEPT !.rq = x] ELSE w[i]]
<1>1. FifoHolds(w, R \ {x}) /\ Expiring(w)
  BY FifoRemoved DEF QueueOK
<1>2. \A i \in 1..Len(w) : w[i].left <= E
  <2>3. FifoHolds(q.fifo_list, R) /\ x \in Bios
    BY DEF QueueOK
  <2>1. PICK k \in 1..Len(q.fifo_list) :
          \A i \in 1..Len(w) : Skip(k, i) \in 1..Len(q.fifo_list) /\ w[i] = q.fifo_list[Skip(k, i)]
    BY <2>3, FifoRemoved
  <2>2. QED BY <2>1 DEF QueueOK
<1> HIDE DEF w
<1>3. /\ Len(w) \in Nat
      /\ \A i \in 1..Len(w) : w[i] \in Entries /\ w[i].rq \in R \ {x} /\ w[i].left \in Nat
      /\ \A z \in R \ {x} : \E i \in 1..Len(w) : w[i].rq = z
      /\ \A i, j \in 1..Len(w) : w[i].rq = w[j].rq => i = j
  BY <1>1, FifoFacts
<1>4. \A i \in 1..Len(w) : f[i] \in Entries /\ f[i].left = w[i].left
                           /\ f[i].rq = IF w[i].rq = y THEN x ELSE w[i].rq
  <2>1. \A e \in Entries : LET g == [e EXCEPT !.rq = x]
                           IN g \in Entries /\ g.left = e.left /\ g.rq = x
    BY DEF Entries
  <2>2. QED BY <1>3, <2>1
<1>5. f \in Seq(Entries) /\ Len(f) = Len(w)
  BY <1>3, <1>4, IsASeq
<1> HIDE DEF f
<1>6. {f[i].rq : i \in 1..Len(f)} = R \ {y}
  <2>1. ASSUME NEW i \in 1..Len(f) PROVE f[i].rq \in R \ {y}
    BY <1>3, <1>4, <1>5
  <2>2. ASSUME NEW z \in R \ {y} PROVE \E i \in 1..Len(f) : f[i].rq = z
    <3>1. CASE z = x
      <4>1. PICK i \in 1..Len(w) : w[i].rq = y
        BY <1>3
      <4>2. QED BY <1>4, <1>5, <3>1, <4>1
    <3>2. CASE z # x
      <4>1. PICK i \in 1..Len(w) : w[i].rq = z
        BY <1>3, <3>2
      <4>2. QED BY <1>4, <1>5, <2>2, <4>1
    <3>3. QED BY <3>1, <3>2
  <2>3. QED BY <2>1, <2>2
<1>7. ASSUME NEW i \in 1..Len(f), NEW j \in 1..Len(f), f[i].rq = f[j].rq PROVE i = j
  <2>1. w[i].rq = w[j].rq
    BY <1>3, <1>4, <1>5, <1>7
  <2>2. QED BY <1>3, <1>5, <2>1
<1>8. Expiring(f)
  BY <1>1, <1>4, <1>5 DEF Expiring
<1>9. \A i \in 1..Len(f) : f[i].left <= E
  BY <1>2, <1>4, <1>5
<1>10. f = Placed(q.fifo_list, x, y)
  BY DEF Placed, f, w
<1>11. QED BY <1>5, <1>6, <1>7, <1>8, <1>9, <1>10 DEF FifoHolds

LEMMA RequestsMerged ==
  ASSUME NEW q, NEW R \in SUBSET Bios, NEW F, NEW E, QueueOK(q, R, F, E),
         NEW x \in R, NEW y \in R, x # y, NEW tie \in BOOLEAN
  PROVE  QueueOK(MergedRequests(q, x, y, tie), R \ {y}, F, E)
<1>1. CASE ~Earlier(q, y, x, tie)
  <2>1. MergedRequests(q, x, y, tie) = RemoveRequest(q, y)
    BY <1>1 DEF MergedRequests
  <2>2. QED BY <2>1, RequestRemoved
<1>2. CASE Earlier(q, y, x, tie)
  <2> DEFINE f == Placed(q.fifo_list, x, y)
             s == RemoveFirst(q.sort_list, y)
             n == IF q.next_rq = y THEN Latter(q.sort_list, y) ELSE q.next_rq
             p == [q EXCEPT !.fifo_list = f]
  <2>1. FifoHolds(f, R \ {y}) /\ Expiring(f) /\ \A i \in 1..Len(f) : f[i].left <= E
    BY PlaceTaken
  <2>2. Holds(s, R \ {y}) /\ InOrder(s, F)
    BY SortRemoved DEF QueueOK
  <2>3. n \in (R \ {y}) \cup {None}
    BY LatterFacts DEF QueueOK
  <2>4. MergedRequests(q, x, y, tie) = RemoveRequest(p, y)
    BY <1>2 DEF MergedRequests, Placed
  <2> HIDE DEF f
  <2>5. p.fifo_list = f /\ p.sort_list = q.sort_list /\ p.next_rq = q.next_rq
    BY DEF QueueOK, Queues
  <2>6. WithoutRq(f, y) = f
    <3>1. y \in Bios /\ y \notin R \ {y} /\ FifoHolds(f, R \ {y})
      BY <2>1
    <3> DEFINE Q == R \ {y}
    <3>2. FifoHolds(f, Q) /\ y \notin Q
      BY <3>1
    <3> HIDE DEF Q
    <3>3. QED BY <3>1, <3>2, FifoRemoved
  <2> HIDE DEF p
  <2>7. RemoveRequest(p, y) = [sort_list |-> s, fifo_list |-> f, next_rq |-> n]
    BY <2>5, <2>6 DEF RemoveRequest
  <2> HIDE DEF s, n
  <2>8. R \ {y} \in SUBSET Bios
    OBVIOUS
  <2>9. QueueOK([sort_list |-> s, fifo_list |-> f, next_rq |-> n], R \ {y}, F, E)
    BY <2>1, <2>2, <2>3, <2>8, QueueIs
  <2>10. QED BY <2>4, <2>7, <2>9
<1>3. QED BY <1>1, <1>2

-----------------------------------------------------------------------------
(* A list of n different things holds n.                                    *)
LEMMA Counting ==
  ASSUME NEW n \in Nat, NEW T, NEW f, \A i \in 1..n : f[i] \in T,
         \A i, j \in 1..n : f[i] = f[j] => i = j,
         \A t \in T : \E i \in 1..n : f[i] = t
  PROVE  IsFiniteSet(T) /\ Cardinality(T) = n
<1> DEFINE g == [i \in 1..n |-> f[i]]
<1>1. g \in [1..n -> T] /\ \A i \in 1..n : g[i] = f[i]
  OBVIOUS
<1> HIDE DEF g
<1>2. g \in Injection(1..n, T)
  BY <1>1 DEF Injection, IsInjective
<1>3. g \in Surjection(1..n, T)
  BY <1>1 DEF Surjection
<1>4. ExistsBijection(1..n, T)
  BY <1>2, <1>3 DEF ExistsBijection, Bijection
<1>5. IsFiniteSet(1..n) /\ Cardinality(1..n) = n
  BY FS_Interval
<1>6. QED BY <1>4, <1>5, FS_Bijection

(* elv_rb_add() finds the place in the order.                               *)
LEMMA PlaceFound ==
  ASSUME NEW s, NEW R, Holds(s, R), NEW F, InOrder(s, F),
         \A x \in R : F[x] = First(x) /\ F[x] \in Nat, NEW first \in Nat
  PROVE  \E m \in 0..Len(s) :
           /\ Cardinality({x \in Range(s) : First(x) <= first}) = m
           /\ \A i \in 1..Len(s) : (F[s[i]] <= first <=> i <= m)
<1> DEFINE D == {i \in 1..Len(s) : F[s[i]] > first}
           T == {x \in Range(s) : First(x) <= first}
<1>1. /\ Len(s) \in Nat /\ \A i \in 1..Len(s) : s[i] \in R /\ F[s[i]] \in Nat
      /\ \A i, j \in 1..Len(s) : s[i] = s[j] => i = j
      /\ \A x \in R : \E i \in 1..Len(s) : s[i] = x
  BY SeqFacts DEF Holds
<1>2. \A i, j \in 1..Len(s) : i < j => F[s[i]] <= F[s[j]]
  BY DEF InOrder
<1>3. PICK m \in 0..Len(s) : \A i \in 1..Len(s) : (F[s[i]] <= first <=> i <= m)
  <2>1. CASE D = {}
    <3>1. \A i \in 1..Len(s) : F[s[i]] <= first /\ i <= Len(s)
      BY <2>1, <1>1
    <3>2. Len(s) \in 0..Len(s)
      BY <1>1
    <3>3. QED BY <3>1, <3>2
  <2>2. CASE D # {}
    <3>1. D \in SUBSET Nat
      BY <1>1
    <3>2. Min(D) \in D /\ \A y \in D : Min(D) <= y
      BY <2>2, <3>1, MinIn
    <3> DEFINE k == Min(D)
    <3>3. k \in 1..Len(s) /\ F[s[k]] > first /\ \A y \in D : k <= y
      BY <3>2
    <3> HIDE DEF k
    <3>4. ASSUME NEW i \in 1..Len(s) PROVE (F[s[i]] <= first <=> i <= k - 1)
      <4>1. F[s[i]] \in Nat /\ F[s[k]] \in Nat /\ k \in Nat /\ i \in Nat
        BY <1>1, <3>3
      <4>2. ASSUME i < k PROVE F[s[i]] <= first
        <5>1. i \notin D
          BY <3>3, <4>1, <4>2
        <5>2. QED BY <4>1, <5>1
      <4>3. ASSUME ~(i < k) PROVE ~(F[s[i]] <= first)
        <5>1. k = i \/ F[s[k]] <= F[s[i]]
          BY <1>2, <3>3, <4>1, <4>3
        <5>2. QED BY <3>3, <4>1, <5>1
      <4>4. QED BY <4>1, <4>2, <4>3
    <3>5. k - 1 \in 0..Len(s)
      BY <1>1, <3>3
    <3>6. QED BY <3>4, <3>5
  <2>3. QED BY <2>1, <2>2
<1>4. \A i \in 1..m : i \in 1..Len(s) /\ s[i] \in T
  <2>1. \A i \in 1..m : i \in 1..Len(s) /\ i <= m
    BY <1>1
  <2>2. \A i \in 1..m : s[i] \in R /\ F[s[i]] <= first /\ F[s[i]] = First(s[i])
    BY <2>1, <1>1, <1>3
  <2>3. Range(s) = R
    BY DEF Holds
  <2>4. QED BY <2>1, <2>2, <2>3
<1>5. \A i, j \in 1..m : s[i] = s[j] => i = j
  BY <1>1, <1>4
<1>6. ASSUME NEW t \in T PROVE \E i \in 1..m : s[i] = t
  <2>1. t \in R /\ First(t) <= first
    BY DEF Holds
  <2>2. PICK i \in 1..Len(s) : s[i] = t
    BY <1>1, <2>1
  <2>3. F[s[i]] <= first
    BY <2>1, <2>2
  <2>4. i <= m
    BY <1>3, <2>3
  <2>5. i \in 1..m
    BY <2>4, <1>1
  <2>6. QED BY <2>2, <2>5
<1> HIDE DEF T
<1>7. m \in Nat
  BY <1>1
<1>8. Cardinality(T) = m
  BY <1>4, <1>5, <1>6, <1>7, Counting
<1>9. QED BY <1>3, <1>8 DEF T

LEMMA SortAdded ==
  ASSUME NEW s, NEW R, Holds(s, R), NEW F, InOrder(s, F),
         \A x \in R : F[x] = First(x) /\ F[x] \in Nat,
         NEW r \in Bios, r \notin R, NEW first \in Nat,
         NEW G, G[r] = first, \A x \in R : G[x] = F[x]
  PROVE  Holds(AddRb(s, r, first), R \cup {r}) /\ InOrder(AddRb(s, r, first), G)
<1>1. PICK m \in 0..Len(s) :
        /\ Cardinality({x \in Range(s) : First(x) <= first}) = m
        /\ \A i \in 1..Len(s) : (F[s[i]] <= first <=> i <= m)
  BY PlaceFound
<1> DEFINE k == 1 + m
           t == InsertAt(s, k, r)
<1>2. AddRb(s, r, first) = t
  BY <1>1 DEF AddRb
<1>3. /\ s \in Seq(Bios) /\ Len(s) \in Nat
      /\ \A i \in 1..Len(s) : s[i] \in R /\ F[s[i]] \in Nat /\ G[s[i]] = F[s[i]] /\ s[i] # r
      /\ \A i, j \in 1..Len(s) : s[i] = s[j] => i = j
      /\ \A x \in R : \E i \in 1..Len(s) : s[i] = x
  BY SeqFacts DEF Holds
<1>4. k \in 1..(Len(s) + 1)
  BY <1>3
<1>5. /\ t \in Seq(Bios) /\ Len(t) = Len(s) + 1 /\ t[k] = r
      /\ \A i \in 1..Len(s) : Skip(k, i) \in 1..Len(t) /\ t[Skip(k, i)] = s[i]
  BY <1>3, <1>4, InsertedAt
<1> HIDE DEF t
<1>6. /\ \A i, j \in 1..Len(s) : (i < j <=> Skip(k, i) < Skip(k, j))
      /\ \A j \in 1..Len(t) : j # k => \E i \in 1..Len(s) : Skip(k, i) = j
  <2>1. PICK n \in Nat : n = Len(t)
    BY <1>3, <1>5
  <2>2. k \in 1..n /\ 1..(n - 1) = 1..Len(s)
    BY <2>1, <1>3, <1>4, <1>5
  <2> HIDE DEF k
  <2>3. /\ \A i, j \in 1..(n - 1) : (i < j <=> Skip(k, i) < Skip(k, j))
        /\ \A j \in 1..n : j # k => \E i \in 1..(n - 1) : Skip(k, i) = j
    BY <2>2, SkipFacts
  <2>4. QED BY <2>1, <2>2, <2>3
<1>7. \A j \in 1..Len(t) : j = k \/ \E i \in 1..Len(s) : Skip(k, i) = j /\ t[j] = s[i]
  BY <1>5, <1>6
<1>8. ASSUME NEW a \in 1..Len(t), NEW b \in 1..Len(t), t[a] = t[b] PROVE a = b
  <2>4. \A c \in 1..Len(t) : c # k => t[c] # r
    BY <1>3, <1>7
  <2>1. CASE a = k \/ b = k
    BY <2>1, <2>4, <1>5, <1>8
  <2>2. CASE a # k /\ b # k
    <3>1. PICK i \in 1..Len(s) : Skip(k, i) = a /\ t[a] = s[i]
      BY <1>7, <2>2
    <3>2. PICK j \in 1..Len(s) : Skip(k, j) = b /\ t[b] = s[j]
      BY <1>7, <2>2
    <3>5. s[i] = s[j]
      BY <1>8, <3>1, <3>2
    <3>3. i = j
      BY <1>3, <3>5
    <3>4. QED BY <3>1, <3>2, <3>3
  <2>3. QED BY <2>1, <2>2
<1>9. Range(t) = R \cup {r}
  <2>1. /\ \A x \in Range(t) : \E i \in 1..Len(t) : t[i] = x
        /\ \A i \in 1..Len(t) : t[i] \in Range(t)
    BY <1>5, SeqFacts
  <2>2. k \in 1..Len(t)
    BY <1>4, <1>5
  <2>3. ASSUME NEW x \in Range(t) PROVE x \in R \cup {r}
    <3>1. PICK j \in 1..Len(t) : t[j] = x
      BY <2>1
    <3>2. QED BY <1>3, <1>5, <1>7, <3>1
  <2>4. ASSUME NEW x \in R PROVE x \in Range(t)
    <3>1. PICK i \in 1..Len(s) : s[i] = x
      BY <1>3
    <3>2. QED BY <1>5, <2>1, <3>1
  <2>5. r \in Range(t)
    BY <1>5, <2>1, <2>2
  <2>6. QED BY <2>3, <2>4, <2>5
<1>10. ASSUME NEW a \in 1..Len(t), NEW b \in 1..Len(t), a < b PROVE G[t[a]] <= G[t[b]]
  <2>1. CASE a # k /\ b # k
    <3>1. PICK i \in 1..Len(s) : Skip(k, i) = a /\ t[a] = s[i]
      BY <1>7, <2>1
    <3>2. PICK j \in 1..Len(s) : Skip(k, j) = b /\ t[b] = s[j]
      BY <1>7, <2>1
    <3>3. i < j
      BY <1>6, <1>10, <3>1, <3>2
    <3>4. F[s[i]] <= F[s[j]]
      BY <3>3 DEF InOrder
    <3>5. QED BY <1>3, <3>1, <3>2, <3>4
  <2>2. CASE a = k
    <3>1. PICK j \in 1..Len(s) : Skip(k, j) = b /\ t[b] = s[j]
      BY <1>7, <1>10, <2>2
    <3>2. ~(j <= m)
      BY <1>3, <1>10, <2>2, <3>1 DEF Skip
    <3>3. ~(F[s[j]] <= first) /\ F[s[j]] \in Nat
      BY <1>1, <1>3, <3>2
    <3>4. G[t[a]] = first /\ G[t[b]] = F[s[j]]
      BY <1>3, <1>5, <2>2, <3>1
    <3>5. QED BY <3>3, <3>4
  <2>3. CASE b = k
    <3>1. PICK i \in 1..Len(s) : Skip(k, i) = a /\ t[a] = s[i]
      BY <1>7, <1>10, <2>3
    <3>2. i <= m
      BY <1>3, <1>10, <2>3, <3>1 DEF Skip
    <3>3. F[s[i]] <= first
      BY <1>1, <3>2
    <3>4. G[t[b]] = first /\ G[t[a]] = F[s[i]]
      BY <1>3, <1>5, <2>3, <3>1
    <3>5. QED BY <3>3, <3>4
  <2>4. QED BY <2>1, <2>2, <2>3
<1>11. QED BY <1>2, <1>5, <1>8, <1>9, <1>10 DEF Holds, InOrder

LEMMA FifoAppended ==
  ASSUME NEW f, NEW R, FifoHolds(f, R), Expiring(f), NEW r \in Bios, r \notin R,
         NEW E \in Nat, \A i \in 1..Len(f) : f[i].left <= E
  PROVE  LET t == Append(f, [rq |-> r, left |-> E])
         IN  /\ FifoHolds(t, R \cup {r}) /\ Expiring(t)
             /\ \A i \in 1..Len(t) : t[i].left <= E
<1> DEFINE e == [rq |-> r, left |-> E]
           t == Append(f, e)
<1>1. /\ f \in Seq(Entries) /\ Len(f) \in Nat
      /\ \A i \in 1..Len(f) : f[i] \in Entries /\ f[i].rq \in R /\ f[i].left \in Nat
      /\ \A y \in R : \E i \in 1..Len(f) : f[i].rq = y
      /\ \A i, j \in 1..Len(f) : f[i].rq = f[j].rq => i = j
  BY FifoFacts
<1>2. e \in Entries /\ e.rq = r /\ e.left = E
  BY DEF Entries
<1> HIDE DEF e
<1>3. /\ t \in Seq(Entries) /\ Len(t) = Len(f) + 1 /\ t[Len(f) + 1] = e
      /\ \A i \in 1..Len(f) : t[i] = f[i]
  BY <1>1, <1>2
<1> HIDE DEF t
<1>4. {t[i].rq : i \in 1..Len(t)} = R \cup {r}
  <2>1. ASSUME NEW i \in 1..Len(t) PROVE t[i].rq \in R \cup {r}
    <3>1. i \in 1..Len(f) \/ i = Len(f) + 1
      BY <1>1, <1>3
    <3>2. QED BY <1>1, <1>2, <1>3, <3>1
  <2>2. ASSUME NEW y \in R PROVE \E i \in 1..Len(t) : t[i].rq = y
    <3>1. PICK i \in 1..Len(f) : f[i].rq = y
      BY <1>1
    <3>2. i \in 1..Len(t) /\ t[i] = f[i]
      BY <1>1, <1>3
    <3>3. QED BY <3>1, <3>2
  <2>3. Len(f) + 1 \in 1..Len(t) /\ t[Len(f) + 1].rq = r
    BY <1>1, <1>2, <1>3
  <2>4. QED BY <2>1, <2>2, <2>3
<1>5. ASSUME NEW i \in 1..Len(t), NEW j \in 1..Len(t), t[i].rq = t[j].rq PROVE i = j
  <2>1. (i \in 1..Len(f) \/ i = Len(f) + 1) /\ (j \in 1..Len(f) \/ j = Len(f) + 1)
    BY <1>1, <1>3
  <2>2. \A n \in 1..Len(f) : t[n].rq = f[n].rq /\ t[n].rq # r
    BY <1>1, <1>3
  <2>3. t[Len(f) + 1].rq = r
    BY <1>2, <1>3
  <2>4. QED BY <1>1, <1>5, <2>1, <2>2, <2>3
<1>6. ASSUME NEW i \in 1..Len(t), NEW j \in 1..Len(t), i < j PROVE t[i].left <= t[j].left
  <2>1. i \in 1..Len(f) /\ t[i] = f[i]
    BY <1>1, <1>3, <1>6
  <2>2. CASE j \in 1..Len(f)
    BY <1>3, <1>6, <2>1, <2>2 DEF Expiring
  <2>3. CASE j = Len(f) + 1
    BY <1>2, <1>3, <2>1, <2>3
  <2>4. QED BY <1>1, <1>3, <2>2, <2>3
<1>7. ASSUME NEW i \in 1..Len(t) PROVE t[i].left <= E
  <2>1. i \in 1..Len(f) \/ i = Len(f) + 1
    BY <1>1, <1>3
  <2>2. QED BY <1>2, <1>3, <2>1
<1>8. QED BY <1>3, <1>4, <1>5, <1>6, <1>7 DEF FifoHolds, Expiring, t, e

-----------------------------------------------------------------------------
(* A chain of merges: each request but the last goes into the next.         *)
Merging(m, k, q, c, tie) ==
  m = [i \in 1..k |-> IF i = 1 THEN q ELSE MergedRequests(m[i - 1], c[i], c[i - 1], tie)]

LEMMA MergingExists ==
  ASSUME NEW q, NEW c, NEW tie, NEW N \in Nat \ {0}
  PROVE  \E m : Merging(m, N, q, c, tie)
<1> DEFINE S == {k \in Nat : \E m : Merging(m, k, q, c, tie)}
<1>1. 1 \in S
  <2> DEFINE m == [i \in 1..1 |-> q]
  <2>1. Merging(m, 1, q, c, tie)
    BY DEF Merging
  <2>2. QED BY <2>1
<1>2. ASSUME NEW k \in 1..(N - 1), k \in S PROVE k + 1 \in S
  <2>1. PICK m : Merging(m, k, q, c, tie)
    BY <1>2
  <2> DEFINE p == [i \in 1..(k + 1) |->
                     IF i <= k THEN m[i] ELSE MergedRequests(m[k], c[i], c[i - 1], tie)]
  <2>2. /\ \A i \in 1..k : p[i] = m[i]
        /\ p[k + 1] = MergedRequests(m[k], c[k + 1], c[k + 1 - 1], tie)
    OBVIOUS
  <2>3. ASSUME NEW i \in 1..(k + 1)
        PROVE  p[i] = IF i = 1 THEN q ELSE MergedRequests(p[i - 1], c[i], c[i - 1], tie)
    <3>1. CASE i <= k
      <4>1. i \in 1..k
        BY <3>1
      <4>2. m[i] = IF i = 1 THEN q ELSE MergedRequests(m[i - 1], c[i], c[i - 1], tie)
        BY <2>1, <4>1 DEF Merging
      <4>3. i # 1 => p[i - 1] = m[i - 1]
        BY <2>2, <4>1
      <4>4. p[i] = m[i]
        BY <2>2, <4>1
      <4> HIDE DEF p
      <4>5. QED BY <4>2, <4>3, <4>4
    <3>2. CASE ~(i <= k)
      <4>1. i = k + 1 /\ i # 1 /\ i - 1 = k /\ k \in 1..k
        BY <3>2
      <4>2. p[k] = m[k]
        BY <2>2, <4>1
      <4> HIDE DEF p
      <4>3. p[i] = MergedRequests(p[i - 1], c[i], c[i - 1], tie)
        BY <2>2, <4>1, <4>2
      <4>4. QED BY <4>1, <4>3
    <3>3. QED BY <3>1, <3>2
  <2>4. Merging(p, k + 1, q, c, tie)
    <3> DEFINE g == [i \in 1..(k + 1) |->
                       IF i = 1 THEN q ELSE MergedRequests(p[i - 1], c[i], c[i - 1], tie)]
    <3>1. \A i \in 1..(k + 1) : p[i] = g[i]
      BY <2>3
    <3>2. DOMAIN p = 1..(k + 1) /\ DOMAIN g = 1..(k + 1)
      OBVIOUS
    <3>3. p = g
      BY <3>1, <3>2
    <3>4. QED BY <3>3 DEF Merging
  <2>5. k + 1 \in Nat
    OBVIOUS
  <2> HIDE DEF p
  <2>6. QED BY <2>4, <2>5
<1> HIDE DEF S
<1>3. N \in S
  <2>1. \A i \in 1..N : i \in S
    BY <1>1, <1>2, Successors
  <2>2. N \in 1..N
    OBVIOUS
  <2>3. QED BY <2>1, <2>2
<1>4. QED BY <1>3 DEF S

LEMMA ChainMerged ==
  ASSUME NEW q, NEW R \in SUBSET Bios, NEW F, NEW E, QueueOK(q, R, F, E),
         NEW N \in Nat \ {0}, NEW c \in [1..N -> R],
         \A i, j \in 1..N : c[i] = c[j] => i = j, NEW tie \in BOOLEAN
  PROVE  QueueOK(MergedChain(q, c, tie), R \ {c[i] : i \in 1..(N - 1)}, F, E)
<1>1. Len(c) = N
  <2>1. c \in Seq(R)
    BY IsASeq
  <2>2. QED BY <2>1, LenProperties
<1>2. PICK m : Merging(m, N, q, c, tie) /\ MergedChain(q, c, tie) = m[N]
  <2> DEFINE m == CHOOSE m : Merging(m, N, q, c, tie)
  <2>1. Merging(m, N, q, c, tie)
    BY MergingExists
  <2>2. MergedChain(q, c, tie) = m[N]
    BY <1>1 DEF MergedChain, Merging
  <2> HIDE DEF m
  <2>3. QED BY <2>1, <2>2
<1>3. \A i \in 1..N : m[i] = IF i = 1 THEN q ELSE MergedRequests(m[i - 1], c[i], c[i - 1], tie)
  BY <1>2 DEF Merging
<1> DEFINE Gone(i) == {c[j] : j \in 1..(i - 1)}
           S == {k \in 1..N : QueueOK(m[k], R \ Gone(k), F, E)}
<1>4. 1 \in S
  <2>1. Gone(1) = {} /\ m[1] = q /\ 1 \in 1..N
    BY <1>3
  <2>2. R \ {} = R
    OBVIOUS
  <2> HIDE DEF Gone
  <2>3. QED BY <2>1, <2>2
<1>5. ASSUME NEW k \in 1..(N - 1), k \in S PROVE k + 1 \in S
  <2>1. k \in 1..N /\ k + 1 \in 1..N /\ k + 1 - 1 = k /\ k + 1 # 1
    OBVIOUS
  <2>2. m[k + 1] = MergedRequests(m[k], c[k + 1], c[k], tie)
    BY <1>3, <2>1
  <2>3. QueueOK(m[k], R \ Gone(k), F, E)
    BY <1>5
  <2>4. c[k] \in R \ Gone(k) /\ c[k + 1] \in R \ Gone(k) /\ c[k + 1] # c[k]
    <3>1. \A j \in 1..(k - 1) : j \in 1..N /\ j # k /\ j # k + 1
      OBVIOUS
    <3>2. QED BY <2>1, <3>1
  <2>5. (R \ Gone(k)) \ {c[k]} = R \ Gone(k + 1)
    <3>1. \A j \in 1..k : j = k \/ j \in 1..(k - 1)
      OBVIOUS
    <3>2. Gone(k + 1) = Gone(k) \cup {c[k]}
      BY <2>1, <3>1
    <3>3. QED BY <3>2
  <2>6. R \ Gone(k) \in SUBSET Bios
    OBVIOUS
  <2> DEFINE Q == R \ Gone(k)
  <2>7. QueueOK(m[k], Q, F, E) /\ c[k] \in Q /\ c[k + 1] \in Q /\ c[k + 1] # c[k] /\ Q \in SUBSET Bios
    BY <2>3, <2>4, <2>6
  <2>8. Q \ {c[k]} = R \ Gone(k + 1)
    BY <2>5
  <2> HIDE DEF Q, Gone
  <2>9. QueueOK(m[k + 1], Q \ {c[k]}, F, E)
    BY <2>2, <2>7, RequestsMerged
  <2>10. QED BY <2>1, <2>8, <2>9
<1> HIDE DEF S
<1>6. N \in S
  <2>1. \A i \in 1..N : i \in S
    BY <1>4, <1>5, Successors
  <2>2. N \in 1..N
    OBVIOUS
  <2>3. QED BY <2>1, <2>2
<1>7. QED BY <1>2, <1>6 DEF S

-----------------------------------------------------------------------------
(* What a dispatch selects is on the list, and may be dispatched.           *)
LEMMA FirstIs ==
  ASSUME NEW s, NEW R, s \in Seq(Bios), Range(s) \subseteq R, R \subseteq Bios
  PROVE  /\ FirstOf(s) # None => FirstOf(s) \in R /\ CanDispatch(FirstOf(s))
         /\ (\E x \in Range(s) : CanDispatch(x)) => FirstOf(s) # None
<1> DEFINE I == {i \in 1..Len(s) : CanDispatch(s[i])}
           n == SelectInSeq(s, CanDispatch)
<1>1. /\ Len(s) \in Nat /\ \A i \in 1..Len(s) : s[i] \in Range(s) /\ s[i] \in Bios
      /\ \A x \in Range(s) : \E i \in 1..Len(s) : s[i] = x
  BY SeqFacts
<1>2. I \in SUBSET Nat
  BY <1>1
<1>3. CASE I = {}
  <2>1. n = 0
    BY <1>3 DEF SelectInSeq
  <2>2. FirstOf(s) = None
    BY <2>1 DEF FirstOf
  <2>3. ~\E x \in Range(s) : CanDispatch(x)
    BY <1>1, <1>3
  <2>4. QED BY <2>2, <2>3
<1>4. CASE I # {}
  <2>1. n = Min(I)
    BY <1>4 DEF SelectInSeq
  <2>2. Min(I) \in I
    BY <1>2, <1>4, MinIn
  <2>3. n \in 1..Len(s) /\ CanDispatch(s[n]) /\ n # 0
    BY <1>1, <2>1, <2>2
  <2>4. FirstOf(s) = s[n]
    BY <2>3 DEF FirstOf
  <2> HIDE DEF n
  <2>5. s[n] \in R /\ s[n] # None
    BY <1>1, <2>3, BioAssumption
  <2>6. QED BY <2>3, <2>4, <2>5
<1>5. QED BY <1>3, <1>4

-----------------------------------------------------------------------------
(* Bios of one direction side by side, from sector a up to z.               *)
Piece(S, d, a, z) ==
  /\ a \in Nat /\ z \in Nat /\ a < z
  /\ \A x \in S : x \in Bios /\ Dir[x] = d /\ a <= Pos[x] /\ Pos[x] < z
  /\ \A x, y \in S : Pos[x] = Pos[y] => x = y
  /\ \A p \in a..(z - 1) : \E x \in S : Pos[x] = p

Firsts == [x \in Bios |-> First(x)]

Here(d) == {r \in Bios : phase[r] = "sorted" /\ Dir[r] = d}

(* A request carries itself and what was merged into it, side by side; a    *)
(* bio is carried by a request that is in use.                              *)
RequestsOK ==
  /\ carrier \in [Bios -> Bios \cup {None}] /\ phase \in [Bios -> Phases]
  /\ \A r \in Bios : phase[r] # "free" =>
       carrier[r] = r /\ Piece(Carried(r), Dir[r], First(r), End(r))
  /\ \A b \in Bios : carrier[b] # None => phase[carrier[b]] # "free"

ListInv ==
  /\ ssg \in [Data -> Queues]
  /\ \A d \in Data : QueueOK(ssg[d], Here(d), Firsts, fifo_expire[d])

DispatchInv ==
  /\ dispatch \in Seq(Bios)
  /\ \A i, j \in 1..Len(dispatch) : dispatch[i] = dispatch[j] => i = j
  /\ Range(dispatch) = {r \in Bios : phase[r] = "dispatch"}

(* Of the writes of one zone that are issued or will be dispatched without  *)
(* a look at the zone there is one.                                         *)
ZoneInv ==
  /\ zone_locked = {r \in Bios : phase[r] = "issued" /\ NeedsZone(r)}
  /\ seq_zones_wlock = {Zone[r] : r \in zone_locked}
  /\ \A q, r \in Bios : phase[q] \in {"issued", "dispatch"} /\ phase[r] \in {"issued", "dispatch"}
                         /\ NeedsZone(q) /\ Zone[q] = Zone[r] => q = r

StarveInv ==
  /\ passed \in Nat /\ starved_writes \in Nat
  /\ passed <= starved_writes /\ starved_writes <= max_write_starvation

SsgInv == RequestsOK /\ ListInv /\ DispatchInv /\ ZoneInv /\ StarveInv

LEMMA PieceEnds ==
  ASSUME NEW r, NEW d, NEW a, NEW z, Piece(Carried(r), d, a, z)
  PROVE  First(r) = a /\ End(r) = z
<1>1. /\ a \in Nat /\ z \in Nat /\ a < z
      /\ \A x \in Carried(r) : x \in Bios /\ a <= Pos[x] /\ Pos[x] < z
      /\ \A p \in a..(z - 1) : \E x \in Carried(r) : Pos[x] = p
  BY DEF Piece
<1> DEFINE T == {Pos[b] : b \in Carried(r)}
<1>2. T \in SUBSET Nat /\ \A t \in T : a <= t /\ t <= z - 1
  BY <1>1, BioAssumption
<1>3. a \in a..(z - 1) /\ z - 1 \in a..(z - 1) /\ z - 1 \in Nat
  BY <1>1
<1>4. a \in T /\ z - 1 \in T
  BY <1>1, <1>3
<1>5. First(r) = Min(T) /\ End(r) = Max(T) + 1
  BY DEF First, End
<1> HIDE DEF T
<1>6. Min(T) = a
  BY <1>2, <1>4, MinIs
<1>7. Max(T) = z - 1
  BY <1>2, <1>3, <1>4, MaxIs
<1>8. QED BY <1>1, <1>5, <1>6, <1>7

LEMMA PieceOfOne ==
  ASSUME NEW b \in Bios
  PROVE  Piece({b}, Dir[b], Pos[b], Pos[b] + 1)
<1>1. Pos[b] \in Nat
  BY BioAssumption
<1>2. QED BY <1>1 DEF Piece

LEMMA Joined ==
  ASSUME NEW S, NEW T, NEW d, NEW a, NEW y, NEW z, Piece(S, d, a, y), Piece(T, d, y, z)
  PROVE  Piece(S \cup T, d, a, z)
<1>1. /\ a \in Nat /\ y \in Nat /\ a < y
      /\ \A x \in S : x \in Bios /\ Dir[x] = d /\ a <= Pos[x] /\ Pos[x] < y
      /\ \A x, w \in S : Pos[x] = Pos[w] => x = w
      /\ \A p \in a..(y - 1) : \E x \in S : Pos[x] = p
  BY DEF Piece
<1>2. /\ z \in Nat /\ y < z
      /\ \A x \in T : x \in Bios /\ Dir[x] = d /\ y <= Pos[x] /\ Pos[x] < z
      /\ \A x, w \in T : Pos[x] = Pos[w] => x = w
      /\ \A p \in y..(z - 1) : \E x \in T : Pos[x] = p
  BY DEF Piece
<1>3. \A x \in Bios : Pos[x] \in Nat
  BY BioAssumption
<1>4. \A x \in S \cup T : x \in Bios /\ Dir[x] = d /\ a <= Pos[x] /\ Pos[x] < z
  BY <1>1, <1>2, <1>3
<1>5. \A x, w \in S \cup T : Pos[x] = Pos[w] => x = w
  BY <1>1, <1>2, <1>3
<1>6. ASSUME NEW p \in a..(z - 1) PROVE \E x \in S \cup T : Pos[x] = p
  <2>1. p \in a..(y - 1) \/ p \in y..(z - 1)
    BY <1>1, <1>2
  <2>2. QED BY <1>1, <1>2, <2>1
<1>7. a < z
  BY <1>1, <1>2
<1>8. QED BY <1>1, <1>2, <1>4, <1>5, <1>6, <1>7 DEF Piece

LEMMA RequestFacts ==
  ASSUME RequestsOK, NEW r \in Bios, phase[r] # "free"
  PROVE  /\ r \in Carried(r) /\ Piece(Carried(r), Dir[r], First(r), End(r))
         /\ First(r) \in Nat /\ End(r) \in Nat /\ First(r) < End(r)
         /\ Dir[r] \in Data
<1>1. carrier[r] = r /\ Piece(Carried(r), Dir[r], First(r), End(r))
  BY DEF RequestsOK
<1>2. r \in Carried(r)
  BY <1>1 DEF Carried
<1>3. Dir[r] \in Data
  BY BioAssumption
<1>4. QED BY <1>1, <1>2, <1>3 DEF Piece

(* Who carries nothing else keeps its ends.                                 *)
LEMMA SameEnds ==
  ASSUME NEW r, Carried(r)' = Carried(r)
  PROVE  First(r)' = First(r) /\ End(r)' = End(r)
BY DEF First, End

(* A merge: the requests of X and the bios of Y go into r, which then has   *)
(* those of W, from sector a up to z.                                       *)
MergeInto(r, X, Y, W, a, z) ==
  /\ r \in Bios /\ phase[r] # "free"
  /\ X \subseteq Bios /\ r \notin X /\ Y \subseteq Bios /\ \A b \in Y : carrier[b] = None
  /\ carrier' \in [Bios -> Bios \cup {None}] /\ phase' \in [Bios -> Phases]
  /\ \A c \in Bios : carrier'[c] = IF carrier[c] \in X \/ c \in Y THEN r ELSE carrier[c]
  /\ \A q \in Bios : phase'[q] = IF q \in X THEN "free" ELSE phase[q]
  /\ Piece(W, Dir[r], a, z)
  /\ \A c \in Bios : c \in W <=> c \in Carried(r) \/ c \in Y \/ carrier[c] \in X

LEMMA MergeKeepsRequests ==
  ASSUME RequestsOK, NEW r, NEW X, NEW Y, NEW W, NEW a, NEW z, MergeInto(r, X, Y, W, a, z)
  PROVE  /\ RequestsOK' /\ Carried(r)' = W /\ First(r)' = a /\ End(r)' = z
         /\ \A q \in Bios : q # r /\ q \notin X => Carried(q)' = Carried(q)
<1>0. /\ r \in Bios /\ phase[r] # "free"
      /\ X \subseteq Bios /\ r \notin X /\ Y \subseteq Bios /\ \A b \in Y : carrier[b] = None
      /\ carrier' \in [Bios -> Bios \cup {None}] /\ phase' \in [Bios -> Phases]
      /\ Piece(W, Dir[r], a, z)
      /\ \A c \in Bios : c \in W <=> c \in Carried(r) \/ c \in Y \/ carrier[c] \in X
  BY DEF MergeInto
<1>1. /\ carrier \in [Bios -> Bios \cup {None}] /\ phase \in [Bios -> Phases]
      /\ \A q \in Bios : phase[q] # "free" =>
            carrier[q] = q /\ Piece(Carried(q), Dir[q], First(q), End(q))
      /\ \A b \in Bios : carrier[b] # None => phase[carrier[b]] # "free"
      /\ None \notin Bios
  BY BioAssumption DEF RequestsOK
<1>2. /\ \A c \in Bios : carrier'[c] = IF carrier[c] \in X \/ c \in Y THEN r ELSE carrier[c]
      /\ \A q \in Bios : phase'[q] = IF q \in X THEN "free" ELSE phase[q]
  BY DEF MergeInto
<1>3. Carried(r)' = W
  <2>1. \A c \in W : c \in Bios
    BY <1>0 DEF Piece
  <2>2. Carried(r)' = {c \in Bios : carrier'[c] = r}
    BY DEF Carried
  <2>3. Carried(r) = {c \in Bios : carrier[c] = r}
    BY DEF Carried
  <2>4. \A c \in Bios : carrier'[c] = r <=> c \in W
    BY <1>0, <1>2, <2>3
  <2>5. QED BY <2>1, <2>2, <2>4
<1>4. ASSUME NEW q \in Bios, q # r, q \notin X PROVE Carried(q)' = Carried(q)
  <2>1. Carried(q)' = {c \in Bios : carrier'[c] = q} /\ Carried(q) = {c \in Bios : carrier[c] = q}
    BY DEF Carried
  <2>2. \A c \in Bios : carrier'[c] = q <=> carrier[c] = q
    BY <1>0, <1>1, <1>2, <1>4
  <2>3. QED BY <2>1, <2>2
<1>5. First(r)' = a /\ End(r)' = z
  <2>1. Piece(Carried(r), Dir[r], a, z)'
    BY <1>0, <1>3 DEF Piece
  <2>2. Piece(Carried(r), Dir[r], a, z)' => First(r)' = a /\ End(r)' = z
    <3> DEFINE T == {Pos[b] : b \in W}
    <3>1. First(r)' = Min(T) /\ End(r)' = Max(T) + 1
      BY <1>3 DEF First, End
    <3>2. /\ a \in Nat /\ z \in Nat /\ a < z
          /\ \A x \in W : x \in Bios /\ a <= Pos[x] /\ Pos[x] < z
          /\ \A p \in a..(z - 1) : \E x \in W : Pos[x] = p
      BY <1>0 DEF Piece
    <3>3. T \in SUBSET Nat /\ \A t \in T : a <= t /\ t <= z - 1
      BY <3>2, BioAssumption
    <3>4. a \in a..(z - 1) /\ z - 1 \in a..(z - 1) /\ z - 1 \in Nat
      BY <3>2
    <3>5. a \in T /\ z - 1 \in T
      BY <3>2, <3>4
    <3> HIDE DEF T
    <3>6. Min(T) = a
      BY <3>3, <3>5, MinIs
    <3>7. Max(T) = z - 1
      BY <3>3, <3>4, <3>5, MaxIs
    <3>8. QED BY <3>1, <3>2, <3>6, <3>7
  <2>3. QED BY <2>1, <2>2
<1>6. carrier' \in [Bios -> Bios \cup {None}] /\ phase' \in [Bios -> Phases]
  BY <1>0
<1>7. ASSUME NEW q \in Bios, phase'[q] # "free"
      PROVE  carrier'[q] = q /\ Piece(Carried(q), Dir[q], First(q), End(q))'
  <2>1. q \notin X /\ phase[q] # "free" /\ carrier[q] = q /\ carrier'[q] = q
    BY <1>0, <1>1, <1>2, <1>7
  <2>2. CASE q = r
    <3>1. Piece(W, Dir[r], First(r)', End(r)')
      BY <1>0, <1>5
    <3>2. QED BY <1>3, <2>1, <2>2, <3>1 DEF Piece
  <2>3. CASE q # r
    <3>1. Carried(q)' = Carried(q) /\ First(q)' = First(q) /\ End(q)' = End(q)
      BY <1>0, <1>4, <2>1, <2>3, SameEnds
    <3>2. Piece(Carried(q), Dir[q], First(q), End(q))
      BY <1>1, <2>1
    <3>3. QED BY <2>1, <3>1, <3>2 DEF Piece
  <2>4. QED BY <2>2, <2>3
<1>8. ASSUME NEW b \in Bios, carrier'[b] # None PROVE phase'[carrier'[b]] # "free"
  BY <1>0, <1>1, <1>2, <1>8
<1>9. RequestsOK'
  BY <1>6, <1>7, <1>8 DEF RequestsOK
<1>10. QED BY <1>3, <1>4, <1>5, <1>9

-----------------------------------------------------------------------------
(* A queue whose requests keep their sectors is as it was.                  *)
LEMMA OrderKept ==
  ASSUME NEW q, NEW R, NEW F, NEW E, QueueOK(q, R, F, E), NEW G, \A x \in R : G[x] = F[x]
  PROVE  QueueOK(q, R, G, E)
<1>1. Holds(q.sort_list, R) /\ InOrder(q.sort_list, F)
  BY DEF QueueOK
<1>2. \A i \in 1..Len(q.sort_list) : q.sort_list[i] \in R
  BY <1>1, SeqFacts DEF Holds
<1>3. InOrder(q.sort_list, G)
  BY <1>1, <1>2 DEF InOrder
<1>4. QED BY <1>3 DEF QueueOK

LEMMA FirstsOf ==
  /\ \A x \in Bios : Firsts[x] = First(x)
  /\ \A x \in Bios : Firsts'[x] = First(x)'
BY DEF Firsts

LEMMA ListsKept ==
  ASSUME ListInv, ssg' = ssg, \A d \in Data : Here(d)' = Here(d),
         \A d \in Data : \A x \in Here(d) : First(x)' = First(x)
  PROVE  ListInv'
<1>1. ssg' \in [Data -> Queues]
  BY DEF ListInv
<1>2. ASSUME NEW d \in Data PROVE QueueOK(ssg[d], Here(d), Firsts, fifo_expire[d])'
  <2>1. QueueOK(ssg[d], Here(d), Firsts, fifo_expire[d])
    BY DEF ListInv
  <2>2. \A x \in Here(d) : Firsts'[x] = Firsts[x]
    BY FirstsOf DEF Here
  <2>3. QueueOK(ssg[d], Here(d), Firsts', fifo_expire[d])
    BY <2>1, <2>2, OrderKept
  <2>4. QED BY <2>3 DEF QueueOK
<1>3. QED BY <1>1, <1>2 DEF ListInv

LEMMA ListChanged ==
  ASSUME ListInv, NEW d \in Data, NEW q, ssg' = [ssg EXCEPT ![d] = q],
         QueueOK(q, Here(d)', Firsts', fifo_expire[d]),
         \A e \in Data : e # d => Here(e)' = Here(e),
         \A e \in Data : e # d => \A x \in Here(e) : First(x)' = First(x)
  PROVE  ListInv'
<1>1. /\ ssg \in [Data -> Queues] /\ ssg'[d] = q /\ q \in Queues
      /\ \A e \in Data : e # d => ssg'[e] = ssg[e]
  BY DEF ListInv, QueueOK
<1>2. ssg' \in [Data -> Queues]
  BY <1>1
<1>3. ASSUME NEW e \in Data PROVE QueueOK(ssg[e], Here(e), Firsts, fifo_expire[e])'
  <2>1. CASE e = d
    BY <1>1, <2>1 DEF QueueOK
  <2>2. CASE e # d
    <3>1. QueueOK(ssg[e], Here(e), Firsts, fifo_expire[e])
      BY DEF ListInv
    <3>2. \A x \in Here(e) : Firsts'[x] = Firsts[x]
      BY <2>2, FirstsOf DEF Here
    <3>3. QueueOK(ssg[e], Here(e), Firsts', fifo_expire[e])
      BY <3>1, <3>2, OrderKept
    <3>4. QED BY <1>1, <2>2, <3>3 DEF QueueOK
  <2>3. QED BY <2>1, <2>2
<1>4. QED BY <1>2, <1>3 DEF ListInv

(* A change of nothing but where requests are.                              *)
LEMMA CarriedKept ==
  ASSUME carrier' = carrier
  PROVE  \A x : Carried(x)' = Carried(x) /\ First(x)' = First(x) /\ End(x)' = End(x)
BY DEF Carried, First, End

LEMMA RequestMoved ==
  ASSUME RequestsOK, NEW r \in Bios, phase[r] # "free", NEW p \in Phases \ {"free"},
         carrier' = carrier, phase' = [phase EXCEPT ![r] = p]
  PROVE  RequestsOK'
<1>1. /\ carrier \in [Bios -> Bios \cup {None}] /\ phase \in [Bios -> Phases]
      /\ \A q \in Bios : phase[q] # "free" =>
            carrier[q] = q /\ Piece(Carried(q), Dir[q], First(q), End(q))
      /\ \A b \in Bios : carrier[b] # None => phase[carrier[b]] # "free"
  BY DEF RequestsOK
<1>2. phase' \in [Bios -> Phases] /\ \A q \in Bios : phase'[q] # "free" <=> phase[q] # "free"
  BY <1>1
<1>3. ASSUME NEW q \in Bios, phase'[q] # "free"
      PROVE  carrier'[q] = q /\ Piece(Carried(q), Dir[q], First(q), End(q))'
  <2>1. Carried(q)' = Carried(q) /\ First(q)' = First(q) /\ End(q)' = End(q)
    BY CarriedKept
  <2>2. QED BY <1>1, <1>2, <1>3, <2>1 DEF Piece
<1>4. \A b \in Bios : carrier'[b] # None => phase'[carrier'[b]] # "free"
  BY <1>1, <1>2
<1>5. QED BY <1>1, <1>2, <1>3, <1>4 DEF RequestsOK

(* Nothing of the zones or of the dispatch list changes.                    *)
LEMMA OthersKept ==
  ASSUME DispatchInv, ZoneInv, StarveInv, RequestsOK,
         UNCHANGED <<starved_writes, dispatch, passed, zones>>,
         \A q \in Bios : \A p \in {"issued", "dispatch"} : phase'[q] = p <=> phase[q] = p
  PROVE  DispatchInv' /\ ZoneInv' /\ StarveInv'
<1>1. /\ dispatch' = dispatch /\ seq_zones_wlock' = seq_zones_wlock /\ zone_locked' = zone_locked
      /\ passed' = passed /\ starved_writes' = starved_writes
  BY DEF zones
<1>2. \A q \in Bios : (phase'[q] = "issued" <=> phase[q] = "issued")
                      /\ (phase'[q] = "dispatch" <=> phase[q] = "dispatch")
  OBVIOUS
<1>3. DispatchInv'
  BY <1>1, <1>2 DEF DispatchInv
<1>4. ZoneInv'
  BY <1>1, <1>2 DEF ZoneInv, NeedsZone
<1>5. StarveInv'
  BY <1>1 DEF StarveInv
<1>6. QED BY <1>3, <1>4, <1>5

LEMMA AllocKeeps ==
  ASSUME SsgInv, NEW b \in Bios, Alloc(b)
  PROVE  SsgInv'
<1>1. /\ carrier[b] = None
      /\ carrier' = [carrier EXCEPT ![b] = b]
      /\ phase' = [phase EXCEPT ![b] = "new"]
      /\ UNCHANGED <<lists, zones>>
  BY DEF Alloc
<1>2. /\ carrier \in [Bios -> Bios \cup {None}] /\ phase \in [Bios -> Phases]
      /\ \A q \in Bios : phase[q] # "free" =>
            carrier[q] = q /\ Piece(Carried(q), Dir[q], First(q), End(q))
      /\ \A c \in Bios : carrier[c] # None => phase[carrier[c]] # "free"
      /\ None \notin Bios
  BY BioAssumption DEF SsgInv, RequestsOK
<1>3. phase[b] = "free"
  BY <1>1, <1>2
<1>4. ASSUME NEW q \in Bios, q # b
      PROVE  Carried(q)' = Carried(q) /\ First(q)' = First(q) /\ End(q)' = End(q)
  <2>1. \A c \in Bios : carrier'[c] = q <=> carrier[c] = q
    BY <1>1, <1>2, <1>4
  <2>2. Carried(q)' = Carried(q)
    BY <2>1 DEF Carried
  <2>3. QED BY <2>2, SameEnds
<1>5. \A c \in Bios : carrier[c] # b
  BY <1>2, <1>3
<1>6. Carried(b)' = {b}
  <2>1. \A c \in Bios : carrier'[c] = b <=> c = b
    BY <1>1, <1>2, <1>5
  <2>2. QED BY <2>1 DEF Carried
<1>7. Piece(Carried(b), Dir[b], First(b), End(b))'
  <2>1. Piece({b}, Dir[b], Pos[b], Pos[b] + 1)
    BY PieceOfOne
  <2>2. Piece(Carried(b)', Dir[b], Pos[b], Pos[b] + 1)
    BY <1>6, <2>1
  <2>3. First(b)' = Pos[b] /\ End(b)' = Pos[b] + 1
    <3>1. {Pos[c] : c \in Carried(b)'} = {Pos[b]}
      BY <1>6
    <3>2. Pos[b] \in Nat
      BY BioAssumption
    <3>3. Min({Pos[b]}) = Pos[b] /\ Max({Pos[b]}) = Pos[b]
      BY <3>2, MinIs, MaxIs
    <3>4. QED BY <3>1, <3>3 DEF First, End
  <2>4. QED BY <2>2, <2>3 DEF Piece
<1>8. RequestsOK'
  <2>1. carrier' \in [Bios -> Bios \cup {None}] /\ phase' \in [Bios -> Phases]
    BY <1>1, <1>2 DEF Phases
  <2>2. ASSUME NEW q \in Bios, phase'[q] # "free"
        PROVE  carrier'[q] = q /\ Piece(Carried(q), Dir[q], First(q), End(q))'
    <3>1. CASE q = b
      BY <1>1, <1>2, <1>7, <3>1
    <3>2. CASE q # b
      <4>1. phase[q] # "free" /\ carrier[q] = q /\ carrier'[q] = q
        BY <1>1, <1>2, <2>2, <3>2
      <4>2. QED BY <1>2, <1>4, <3>2, <4>1 DEF Piece
    <3>3. QED BY <3>1, <3>2
  <2>3. \A c \in Bios : carrier'[c] # None => phase'[carrier'[c]] # "free"
    BY <1>1, <1>2
  <2>4. QED BY <2>1, <2>2, <2>3 DEF RequestsOK
<1>9. ListInv'
  <2>1. ssg' = ssg
    BY <1>1 DEF lists
  <2>2. \A d \in Data : Here(d)' = Here(d)
    BY <1>1, <1>2, <1>3 DEF Here
  <2>3. \A d \in Data : \A x \in Here(d) : First(x)' = First(x)
    BY <1>3, <1>4 DEF Here
  <2>4. QED BY <2>1, <2>2, <2>3, ListsKept DEF SsgInv
<1>10. DispatchInv' /\ ZoneInv' /\ StarveInv'
  <2>1. \A q \in Bios : \A p \in {"issued", "dispatch"} : phase'[q] = p <=> phase[q] = p
    BY <1>1, <1>2, <1>3
  <2>2. UNCHANGED <<starved_writes, dispatch, passed, zones>>
    BY <1>1 DEF lists
  <2>3. QED BY <2>1, <2>2, OthersKept DEF SsgInv
<1>11. QED BY <1>8, <1>9, <1>10 DEF SsgInv

-----------------------------------------------------------------------------
(* The lists after a merge: the requests of X are gone, and no other one    *)
(* begins at another sector.                                                *)
LEMMA MergeKeepsLists ==
  ASSUME ListInv, NEW d \in Data, NEW r \in Bios, NEW X \in SUBSET Bios, r \notin X,
         \A x \in X : Dir[x] = d,
         phase \in [Bios -> Phases],
         phase' = [q \in Bios |-> IF q \in X THEN "free" ELSE phase[q]],
         \A q \in Bios : q # r /\ q \notin X => Carried(q)' = Carried(q),
         First(r)' = First(r),
         NEW q, ssg' = [ssg EXCEPT ![d] = q], QueueOK(q, Here(d) \ X, Firsts, fifo_expire[d])
  PROVE  ListInv'
<1>1. /\ Here(d)' = Here(d) \ X
      /\ \A e \in Data : e # d => Here(e)' = Here(e)
  <2>1. \A x \in Bios : phase'[x] = "sorted" <=> phase[x] = "sorted" /\ x \notin X
    OBVIOUS
  <2>2. QED BY <2>1 DEF Here
<1>2. \A x \in Bios : x \notin X => First(x)' = First(x)
  BY SameEnds
<1>3. QueueOK(q, Here(d)', Firsts', fifo_expire[d])
  <2>1. \A x \in Here(d) \ X : Firsts'[x] = Firsts[x]
    BY <1>2, FirstsOf DEF Here
  <2>2. QueueOK(q, Here(d) \ X, Firsts', fifo_expire[d])
    BY <2>1, OrderKept
  <2>3. QED BY <1>1, <2>2
<1>4. \A e \in Data : e # d => \A x \in Here(e) : First(x)' = First(x)
  BY <1>2 DEF Here
<1>5. QED BY <1>1, <1>3, <1>4, ListChanged

LEMMA MergeKeepsOthers ==
  ASSUME SsgInv, NEW X \in SUBSET Bios, \A x \in X : phase[x] \in {"sorted", "new"},
         phase' = [q \in Bios |-> IF q \in X THEN "free" ELSE phase[q]],
         UNCHANGED <<starved_writes, dispatch, passed, zones>>
  PROVE  DispatchInv' /\ ZoneInv' /\ StarveInv'
<1>1. \A q \in Bios : \A p \in {"issued", "dispatch"} : phase'[q] = p <=> phase[q] = p
  OBVIOUS
<1>2. QED BY <1>1, OthersKept DEF SsgInv

(* A bio goes to one end of a request.                                      *)
LEMMA BioKeepsRequests ==
  ASSUME SsgInv, NEW b \in Bios, carrier[b] = None, NEW r \in Bios, phase[r] # "free",
         NEW a, NEW z, Piece(Carried(r) \cup {b}, Dir[r], a, z),
         carrier' = [carrier EXCEPT ![b] = r], phase' = phase
  PROVE  /\ RequestsOK' /\ First(r)' = a
         /\ \A q \in Bios : q # r => Carried(q)' = Carried(q)
<1>1. /\ carrier \in [Bios -> Bios \cup {None}] /\ phase \in [Bios -> Phases]
      /\ None \notin Bios
  BY BioAssumption DEF SsgInv, RequestsOK
<1> DEFINE X == {}
           Y == {b}
           W == Carried(r) \cup {b}
<1>2. /\ carrier' \in [Bios -> Bios \cup {None}]
      /\ \A c \in Bios : carrier'[c] = IF carrier[c] \in X \/ c \in Y THEN r ELSE carrier[c]
  BY <1>1
<1>3. /\ phase' \in [Bios -> Phases]
      /\ \A q \in Bios : phase'[q] = IF q \in X THEN "free" ELSE phase[q]
  BY <1>1 DEF Phases
<1>4. \A c \in Bios : c \in W <=> c \in Carried(r) \/ c \in Y \/ carrier[c] \in X
  OBVIOUS
<1>5. Y \in SUBSET Bios /\ X \in SUBSET Bios /\ r \notin X /\ \A c \in Y : carrier[c] = None
  OBVIOUS
<1>6. RequestsOK /\ Piece(W, Dir[r], a, z)
  BY DEF SsgInv
<1>7. \A q : q \notin X
  OBVIOUS
<1>11. MergeInto(r, X, Y, W, a, z)
  BY <1>2, <1>3, <1>4, <1>5, <1>6 DEF MergeInto
<1> HIDE DEF X, Y, W
<1>8. /\ RequestsOK' /\ Carried(r)' = W /\ First(r)' = a /\ End(r)' = z
      /\ \A q \in Bios : q # r /\ q \notin X => Carried(q)' = Carried(q)
  BY <1>6, <1>11, MergeKeepsRequests
<1>9. QED BY <1>7, <1>8

(* ... and makes it reach x, which goes into r with it.                     *)
GoInto(b, x, r) ==
  /\ carrier' = [c \in Bios |-> IF carrier[c] = x \/ c = b THEN r ELSE carrier[c]]
  /\ phase' = [phase EXCEPT ![x] = "free"]

LEMMA BothKeepRequests ==
  ASSUME SsgInv, NEW b \in Bios, carrier[b] = None, NEW r \in Bios, phase[r] # "free",
         NEW x \in Bios, r # x,
         NEW a, NEW z, Piece((Carried(r) \cup {b}) \cup Carried(x), Dir[r], a, z),
         GoInto(b, x, r)
  PROVE  /\ RequestsOK' /\ First(r)' = a
         /\ \A q \in Bios : q # r /\ q \notin {x} => Carried(q)' = Carried(q)
<1>1. /\ carrier \in [Bios -> Bios \cup {None}] /\ phase \in [Bios -> Phases]
      /\ None \notin Bios
  BY BioAssumption DEF SsgInv, RequestsOK
<1> DEFINE X == {x}
           Y == {b}
           W == (Carried(r) \cup {b}) \cup Carried(x)
<1>2. /\ carrier' \in [Bios -> Bios \cup {None}]
      /\ \A c \in Bios : carrier'[c] = IF carrier[c] \in X \/ c \in Y THEN r ELSE carrier[c]
  BY <1>1 DEF GoInto
<1>3. /\ phase' \in [Bios -> Phases]
      /\ \A q \in Bios : phase'[q] = IF q \in X THEN "free" ELSE phase[q]
  BY <1>1 DEF Phases, GoInto
<1>4. \A c \in Bios : c \in W <=> c \in Carried(r) \/ c \in Y \/ carrier[c] \in X
  BY DEF Carried
<1>5. Y \in SUBSET Bios /\ X \in SUBSET Bios /\ r \notin X /\ \A c \in Y : carrier[c] = None
  OBVIOUS
<1>6. RequestsOK /\ Piece(W, Dir[r], a, z)
  BY DEF SsgInv
<1>7. \A q : q \in X <=> q \in {x}
  OBVIOUS
<1>11. MergeInto(r, X, Y, W, a, z)
  BY <1>2, <1>3, <1>4, <1>5, <1>6 DEF MergeInto
<1> HIDE DEF X, Y, W
<1>8. /\ RequestsOK' /\ Carried(r)' = W /\ First(r)' = a /\ End(r)' = z
      /\ \A q \in Bios : q # r /\ q \notin X => Carried(q)' = Carried(q)
  BY <1>6, <1>11, MergeKeepsRequests
<1>9. QED BY <1>7, <1>8

(* A request on the lists and its neighbours.                               *)
LEMMA OnTheLists ==
  ASSUME SsgInv, NEW r \in Bios, phase[r] = "sorted"
  PROVE  /\ Dir[r] \in Data /\ r \in Here(Dir[r]) /\ Here(Dir[r]) \in SUBSET Bios
         /\ ssg \in [Data -> Queues]
         /\ QueueOK(ssg[Dir[r]], Here(Dir[r]), Firsts, fifo_expire[Dir[r]])
         /\ \A x \in {Latter(ssg[Dir[r]].sort_list, r), Former(ssg[Dir[r]].sort_list, r)} :
              x # None => x \in Here(Dir[r]) /\ x # r
<1>1. Dir[r] \in Data /\ r \in Here(Dir[r]) /\ Here(Dir[r]) \in SUBSET Bios
  BY BioAssumption DEF Here
<1>2. ssg \in [Data -> Queues] /\ QueueOK(ssg[Dir[r]], Here(Dir[r]), Firsts, fifo_expire[Dir[r]])
  BY <1>1 DEF SsgInv, ListInv
<1>3. Holds(ssg[Dir[r]].sort_list, Here(Dir[r]))
  BY <1>2 DEF QueueOK
<1>4. /\ Latter(ssg[Dir[r]].sort_list, r) \in (Here(Dir[r]) \ {r}) \cup {None}
      /\ Former(ssg[Dir[r]].sort_list, r) \in (Here(Dir[r]) \ {r}) \cup {None}
  BY <1>1, <1>3, LatterFacts
<1>5. QED BY <1>1, <1>2, <1>4

(* The two ways of a merge that takes x from the lists.                     *)
LEMMA TakenFromLists ==
  ASSUME SsgInv, NEW d \in Data, NEW r \in Here(d), NEW x \in Here(d), r # x, NEW tie \in BOOLEAN,
         ssg' = [ssg EXCEPT ![d] = MergedRequests(@, r, x, tie)],
         phase' = [q \in Bios |-> IF q \in {x} THEN "free" ELSE phase[q]],
         \A q \in Bios : q # r /\ q \notin {x} => Carried(q)' = Carried(q),
         First(r)' = First(r)
  PROVE  ListInv'
<1>1. /\ ListInv /\ ssg \in [Data -> Queues] /\ phase \in [Bios -> Phases]
      /\ QueueOK(ssg[d], Here(d), Firsts, fifo_expire[d])
  BY DEF SsgInv, ListInv, RequestsOK
<1>2. Here(d) \in SUBSET Bios /\ r \in Bios /\ {x} \in SUBSET Bios /\ r \notin {x} /\ \A y \in {x} : Dir[y] = d
  BY DEF Here
<1>3. QueueOK(MergedRequests(ssg[d], r, x, tie), Here(d) \ {x}, Firsts, fifo_expire[d])
  BY <1>1, <1>2, RequestsMerged
<1>4. ssg' = [ssg EXCEPT ![d] = MergedRequests(ssg[d], r, x, tie)]
  OBVIOUS
<1>5. QED BY <1>1, <1>2, <1>3, <1>4, MergeKeepsLists

LEMMA BackMergeKeeps ==
  ASSUME SsgInv, NEW b \in Bios, NEW r \in Bios, BioBackMerge(b, r)
  PROVE  SsgInv'
<1> DEFINE d == Dir[b]
           n == Latter(ssg[d].sort_list, r)
<1>1. /\ carrier[b] = None /\ phase[r] = "sorted" /\ Mergeable(r, b) /\ End(r) = Pos[b]
      /\ UNCHANGED <<starved_writes, dispatch, passed, zones>>
  BY DEF BioBackMerge
<1>2. Dir[r] = d /\ phase[r] # "free"
  BY <1>1 DEF Mergeable
<1>3. RequestsOK /\ phase \in [Bios -> Phases] /\ ListInv
  BY DEF SsgInv, RequestsOK
<1>4. Piece(Carried(r) \cup {b}, d, First(r), Pos[b] + 1)
  <2>1. Piece(Carried(r), d, First(r), Pos[b])
    BY <1>1, <1>2, <1>3, RequestFacts
  <2>2. Piece({b}, d, Pos[b], Pos[b] + 1)
    BY PieceOfOne
  <2>3. QED BY <2>1, <2>2, Joined
<1>5. d \in Data /\ r \in Here(d)
  BY <1>1, <1>2, OnTheLists
<1>6. CASE carrier' = [carrier EXCEPT ![b] = r] /\ UNCHANGED <<ssg, phase>>
  <2>1. RequestsOK' /\ First(r)' = First(r) /\ \A q \in Bios : q # r => Carried(q)' = Carried(q)
    BY <1>1, <1>2, <1>4, <1>6, BioKeepsRequests
  <2>2. \A x \in Bios : First(x)' = First(x)
    BY <2>1, SameEnds
  <2>3. ListInv'
    <3>1. ssg' = ssg /\ \A e \in Data : Here(e)' = Here(e) /\ Here(e) \subseteq Bios
      BY <1>6 DEF Here
    <3>2. QED BY <1>3, <2>2, <3>1, ListsKept
  <2>4. DispatchInv' /\ ZoneInv' /\ StarveInv'
    BY <1>1, <1>6, OthersKept DEF SsgInv
  <2>5. QED BY <2>1, <2>3, <2>4 DEF SsgInv
<1>7. ASSUME n # None, Mergeable(r, n), First(n) = Pos[b] + 1,
             carrier' = [c \in Bios |-> IF carrier[c] = n \/ c = b THEN r ELSE carrier[c]],
             phase' = [phase EXCEPT ![n] = "free"],
             NEW tie \in BOOLEAN, ssg' = [ssg EXCEPT ![d] = MergedRequests(@, r, n, tie)]
      PROVE  SsgInv'
  <2>1. n \in Here(d) /\ n # r
    <3>1. n # None => n \in Here(d) /\ n # r
      BY <1>1, <1>2, OnTheLists
    <3>2. QED BY <1>7, <3>1
  <2>2. n \in Bios /\ Dir[n] = d /\ phase[n] = "sorted" /\ phase[n] # "free"
    BY <2>1 DEF Here
  <2>3. Piece(Carried(n), d, Pos[b] + 1, End(n))
    BY <1>3, <1>7, <2>2, RequestFacts
  <2>4. Piece((Carried(r) \cup {b}) \cup Carried(n), d, First(r), End(n))
    BY <1>4, <2>3, Joined
  <2>8. Piece((Carried(r) \cup {b}) \cup Carried(n), Dir[r], First(r), End(n))
    BY <1>2, <2>4
  <2>9. n # r /\ GoInto(b, n, r)
    BY <1>7, <2>1 DEF GoInto
  <2> HIDE DEF n, d
  <2>5. /\ RequestsOK' /\ First(r)' = First(r)
        /\ \A q \in Bios : q # r /\ q \notin {n} => Carried(q)' = Carried(q)
    BY <1>1, <1>2, <1>7, <2>2, <2>8, <2>9, BothKeepRequests
  <2>11. phase' = [q \in Bios |-> IF q \in {n} THEN "free" ELSE phase[q]]
    BY <1>3, <1>7
  <2>6. ListInv'
    BY <1>5, <1>7, <2>1, <2>5, <2>11, TakenFromLists
  <2>7. DispatchInv' /\ ZoneInv' /\ StarveInv'
    <3>1. {n} \in SUBSET Bios /\ \A y \in {n} : phase[y] \in {"sorted", "new"}
      BY <2>2
    <3>2. QED BY <1>1, <2>11, <3>1, MergeKeepsOthers
  <2>10. QED BY <2>5, <2>6, <2>7 DEF SsgInv
<1>8. QED BY <1>6, <1>7 DEF BioBackMerge

(* A request that begins at another sector is sorted again.                 *)
LEMMA SortedAgain ==
  ASSUME NEW q, NEW R \in SUBSET Bios, NEW E, QueueOK(q, R, Firsts, E),
         \A x \in R : First(x) \in Nat, NEW r \in R, NEW first \in Nat,
         NEW G, G[r] = first, \A x \in R \ {r} : G[x] = First(x)
  PROVE  QueueOK([q EXCEPT !.sort_list = RequestMerged(@, r, first)], R, G, E)
<1> DEFINE t == RemoveFirst(q.sort_list, r)
           Q == R \ {r}
<1>1. /\ q \in Queues /\ Holds(q.sort_list, R) /\ InOrder(q.sort_list, Firsts)
      /\ FifoHolds(q.fifo_list, R) /\ Expiring(q.fifo_list)
      /\ \A i \in 1..Len(q.fifo_list) : q.fifo_list[i].left <= E
      /\ q.next_rq \in R \cup {None}
  BY DEF QueueOK
<1>2. Holds(t, Q) /\ InOrder(t, Firsts)
  BY <1>1, SortRemoved
<1>3. \A x \in Q : Firsts[x] = First(x) /\ Firsts[x] \in Nat /\ G[x] = Firsts[x]
  BY FirstsOf
<1>4. r \in Bios /\ r \notin Q /\ Q \cup {r} = R
  OBVIOUS
<1> HIDE DEF t, Q
<1>5. Holds(AddRb(t, r, first), Q \cup {r}) /\ InOrder(AddRb(t, r, first), G)
  BY <1>2, <1>3, <1>4, SortAdded
<1>6. Holds(AddRb(t, r, first), R)
  BY <1>4, <1>5
<1>7. [q EXCEPT !.sort_list = RequestMerged(@, r, first)]
        = [sort_list |-> AddRb(t, r, first), fifo_list |-> q.fifo_list, next_rq |-> q.next_rq]
  BY <1>1 DEF t, Queues, RequestMerged
<1>8. QueueOK([sort_list |-> AddRb(t, r, first), fifo_list |-> q.fifo_list, next_rq |-> q.next_rq],
              R, G, E)
  BY <1>1, <1>5, <1>6, QueueIs
<1>9. QED BY <1>7, <1>8

LEMMA FrontMergeKeeps ==
  ASSUME SsgInv, NEW b \in Bios, NEW r \in Bios, BioFrontMerge(b, r)
  PROVE  SsgInv'
<1> DEFINE d == Dir[b]
           f == Former(ssg[d].sort_list, r)
<1>1. /\ carrier[b] = None /\ phase[r] = "sorted" /\ Mergeable(r, b) /\ First(r) = Pos[b] + 1
      /\ UNCHANGED <<starved_writes, dispatch, passed, zones>>
  BY DEF BioFrontMerge
<1>2. Dir[r] = d /\ phase[r] # "free"
  BY <1>1 DEF Mergeable
<1>3. RequestsOK /\ phase \in [Bios -> Phases] /\ ListInv
  BY DEF SsgInv, RequestsOK
<1>4. Piece(Carried(r) \cup {b}, d, Pos[b], End(r))
  <2>1. Piece(Carried(r), d, Pos[b] + 1, End(r))
    BY <1>1, <1>2, <1>3, RequestFacts
  <2>2. Piece({b}, d, Pos[b], Pos[b] + 1)
    BY PieceOfOne
  <2>3. Piece({b} \cup Carried(r), d, Pos[b], End(r))
    BY <2>1, <2>2, Joined
  <2>4. {b} \cup Carried(r) = Carried(r) \cup {b}
    OBVIOUS
  <2>5. QED BY <2>3, <2>4
<1>5. d \in Data /\ r \in Here(d) /\ QueueOK(ssg[d], Here(d), Firsts, fifo_expire[d])
  BY <1>1, <1>2, OnTheLists
<1>6. CASE /\ carrier' = [carrier EXCEPT ![b] = r]
           /\ ssg' = [ssg EXCEPT ![d].sort_list = RequestMerged(@, r, Pos[b])]
           /\ UNCHANGED phase
  <2>1. RequestsOK' /\ First(r)' = Pos[b] /\ \A q \in Bios : q # r => Carried(q)' = Carried(q)
    BY <1>1, <1>2, <1>4, <1>6, BioKeepsRequests
  <2>2. \A x \in Bios : x # r => First(x)' = First(x)
    BY <2>1, SameEnds
  <2>3. ListInv'
    <3> DEFINE q == [ssg[d] EXCEPT !.sort_list = RequestMerged(@, r, Pos[b])]
    <3>1. /\ Here(d) \in SUBSET Bios /\ Pos[b] \in Nat
          /\ \A x \in Here(d) : First(x) \in Nat
      <4>1. \A x \in Here(d) : x \in Bios /\ phase[x] # "free"
        BY DEF Here
      <4>2. QED BY <1>3, <4>1, RequestFacts, BioAssumption
    <3>2. Firsts'[r] = Pos[b] /\ \A x \in Here(d) \ {r} : Firsts'[x] = First(x)
      BY <2>1, <2>2, <3>1, FirstsOf
    <3>3. QueueOK(q, Here(d), Firsts', fifo_expire[d])
      BY <1>5, <3>1, <3>2, SortedAgain
    <3>4. ssg' = [ssg EXCEPT ![d] = q]
      BY <1>6
    <3>5. \A e \in Data : Here(e)' = Here(e)
      BY <1>6 DEF Here
    <3>6. \A e \in Data : e # d => \A x \in Here(e) : First(x)' = First(x)
      BY <1>2, <2>2 DEF Here
    <3> HIDE DEF q
    <3>7. QueueOK(q, Here(d)', Firsts', fifo_expire[d])
      BY <1>5, <3>3, <3>5
    <3> HIDE DEF d
    <3>8. QED BY <1>3, <1>5, <3>4, <3>5, <3>6, <3>7, ListChanged
  <2>4. DispatchInv' /\ ZoneInv' /\ StarveInv'
    BY <1>1, <1>6, OthersKept DEF SsgInv
  <2>5. QED BY <2>1, <2>3, <2>4 DEF SsgInv
<1>7. ASSUME f # None, Mergeable(r, f), End(f) = Pos[b],
             carrier' = [c \in Bios |-> IF carrier[c] = r \/ c = b THEN f ELSE carrier[c]],
             phase' = [phase EXCEPT ![r] = "free"],
             NEW tie \in BOOLEAN, ssg' = [ssg EXCEPT ![d] = MergedRequests(@, f, r, tie)]
      PROVE  SsgInv'
  <2>1. f \in Here(d) /\ f # r
    <3>1. f # None => f \in Here(d) /\ f # r
      BY <1>1, <1>2, OnTheLists
    <3>2. QED BY <1>7, <3>1
  <2> PICK g \in Here(d) : g = f
    BY <2>1
  <2>12. /\ Mergeable(r, g) /\ End(g) = Pos[b] /\ g # r
         /\ carrier' = [c \in Bios |-> IF carrier[c] = r \/ c = b THEN g ELSE carrier[c]]
         /\ ssg' = [ssg EXCEPT ![d] = MergedRequests(@, g, r, tie)]
    BY <1>7, <2>1
  <2>2. g \in Bios /\ Dir[g] = d /\ phase[g] = "sorted" /\ phase[g] # "free"
    BY DEF Here
  <2>3. Piece((Carried(g) \cup {b}) \cup Carried(r), d, First(g), End(r))
    <3>1. Piece(Carried(g), d, First(g), Pos[b])
      BY <1>3, <2>2, <2>12, RequestFacts
    <3>2. Piece(Carried(g) \cup (Carried(r) \cup {b}), d, First(g), End(r))
      BY <1>4, <3>1, Joined
    <3>3. (Carried(g) \cup {b}) \cup Carried(r) = Carried(g) \cup (Carried(r) \cup {b})
      OBVIOUS
    <3>4. QED BY <3>2, <3>3
  <2>4. Piece((Carried(g) \cup {b}) \cup Carried(r), Dir[g], First(g), End(r))
    BY <2>2, <2>3
  <2>5. g # r /\ r # g /\ GoInto(b, r, g)
    BY <1>7, <2>12 DEF GoInto
  <2>10. carrier[b] = None
    BY <1>1
  <2>11. ssg' = [ssg EXCEPT ![d] = MergedRequests(@, g, r, tie)] /\ r \in Here(d) /\ d \in Data
    BY <1>5, <2>12
  <2> HIDE DEF f, d
  <2>6. /\ RequestsOK' /\ First(g)' = First(g)
        /\ \A q \in Bios : q # g /\ q \notin {r} => Carried(q)' = Carried(q)
    BY <2>10, <2>2, <2>4, <2>5, BothKeepRequests
  <2>13. phase' = [q \in Bios |-> IF q \in {r} THEN "free" ELSE phase[q]]
    BY <1>3, <1>7
  <2>7. ListInv'
    BY <2>5, <2>6, <2>11, <2>13, TakenFromLists
  <2>8. DispatchInv' /\ ZoneInv' /\ StarveInv'
    <3>1. {r} \in SUBSET Bios /\ \A y \in {r} : phase[y] \in {"sorted", "new"}
      BY <1>1
    <3>2. QED BY <1>1, <2>13, <3>1, MergeKeepsOthers
  <2>9. QED BY <2>6, <2>7, <2>8 DEF SsgInv
<1>8. QED BY <1>6, <1>7 DEF BioFrontMerge

-----------------------------------------------------------------------------
(* A chain goes down in sectors: its requests are different and, with the   *)
(* one that is inserted, side by side.                                      *)
LEMMA ChainFacts ==
  ASSUME SsgInv, NEW r \in Bios, phase[r] = "new", NEW c \in Chains(Dir[r], r)
  PROVE  \E N \in Nat \ {0} :
           /\ Len(c) = N /\ c \in [1..N -> Here(Dir[r])]
           /\ Last(c) = c[N] /\ Range(Front(c)) = {c[i] : i \in 1..(N - 1)}
           /\ \A i, j \in 1..N : c[i] = c[j] => i = j
           /\ Piece(Carried(r) \cup UNION {Carried(c[i]) : i \in 1..N}, Dir[r], First(c[N]), End(r))
<1> DEFINE d == Dir[r]
           s == ssg[d].sort_list
<1>1. /\ d \in Data /\ RequestsOK /\ Holds(s, Here(d)) /\ Here(d) \in SUBSET Bios
  <2>1. d \in Data /\ Here(d) \in SUBSET Bios
    BY BioAssumption DEF Here
  <2>2. QED BY <2>1 DEF SsgInv, ListInv, QueueOK
<1>2. s \in Seq(Bios) /\ Len(s) \in Nat /\ Range(s) = Here(d)
  BY <1>1, SeqFacts DEF Holds
<1>3. /\ \E n \in 1..Len(s) : c \in [1..n -> Range(s)]
      /\ End(c[1]) = First(r) /\ \A i \in 2..Len(c) : End(c[i]) = First(c[i - 1])
  BY DEF Chains
<1> HIDE DEF s, d
<1>4. PICK N \in 1..Len(s) : c \in [1..N -> Here(d)]
  BY <1>2, <1>3
<1>5. N \in Nat \ {0} /\ 1 \in 1..N /\ N \in 1..N
  BY <1>2
<1>6. c \in Seq(Here(d)) /\ Len(c) = N
  BY <1>4, <1>5, IsASeq
<1>7. \A i \in 1..N : /\ c[i] \in Here(d) /\ c[i] \in Bios /\ phase[c[i]] # "free" /\ Dir[c[i]] = d
                      /\ First(c[i]) \in Nat /\ End(c[i]) \in Nat /\ First(c[i]) < End(c[i])
                      /\ Piece(Carried(c[i]), d, First(c[i]), End(c[i]))
  <2>1. \A i \in 1..N : c[i] \in Here(d)
    BY <1>4
  <2>2. \A x \in Here(d) : x \in Bios /\ phase[x] # "free" /\ Dir[x] = d
    BY DEF Here
  <2>3. \A x \in Here(d) : /\ First(x) \in Nat /\ End(x) \in Nat /\ First(x) < End(x)
                           /\ Piece(Carried(x), d, First(x), End(x))
    BY <1>1, <2>2, RequestFacts
  <2>4. QED BY <2>1, <2>2, <2>3
<1>8. \A i \in 1..(N - 1) : i + 1 \in 1..N /\ i \in 1..N /\ End(c[i + 1]) = First(c[i])
  BY <1>3, <1>5, <1>6
<1>9. Last(c) = c[N] /\ Range(Front(c)) = {c[i] : i \in 1..(N - 1)}
  <2>1. Front(c) = SubSeq(c, 1, N - 1)
    BY <1>6 DEF Front
  <2>2. Len(SubSeq(c, 1, N - 1)) = N - 1 /\ DOMAIN SubSeq(c, 1, N - 1) = 1..(N - 1)
        /\ \A i \in 1..(N - 1) : SubSeq(c, 1, N - 1)[i] = c[i]
    <3>1. 1 \in Int /\ N - 1 \in Int /\ \A i \in 1..(N - 1) : c[i] \in Here(d)
      BY <1>5, <1>7, <1>8
    <3>2. /\ SubSeq(c, 1, N - 1) \in Seq(Here(d))
          /\ Len(SubSeq(c, 1, N - 1)) = IF 1 <= N - 1 THEN N - 1 - 1 + 1 ELSE 0
          /\ \A i \in 1..(N - 1 - 1 + 1) : SubSeq(c, 1, N - 1)[i] = c[1 + i - 1]
      BY <3>1, SubSeqProperties
    <3>3. Len(SubSeq(c, 1, N - 1)) = N - 1
      BY <1>5, <3>2
    <3>4. \A i \in 1..(N - 1) : i \in 1..(N - 1 - 1 + 1) /\ 1 + i - 1 = i
      BY <1>5
    <3>5. QED BY <3>2, <3>3, <3>4, LenProperties
  <2>3. QED BY <1>6, <2>1, <2>2 DEF Last, Range
<1>10. \A k \in 1..N : k \in {m \in 1..N : \A i \in 1..(m - 1) : First(c[m]) < First(c[i])}
  <2> DEFINE S == {m \in 1..N : \A i \in 1..(m - 1) : First(c[m]) < First(c[i])}
  <2>1. 1 \in S
    BY <1>5
  <2>2. ASSUME NEW k \in 1..(N - 1), k \in S PROVE k + 1 \in S
    <3>1. k + 1 \in 1..N /\ k \in 1..N /\ End(c[k + 1]) = First(c[k])
      BY <1>8
    <3>2. First(c[k + 1]) < First(c[k])
      BY <1>7, <3>1
    <3>3. \A i \in 1..(k - 1) : First(c[k]) < First(c[i])
      BY <2>2
    <3>4. ASSUME NEW i \in 1..(k + 1 - 1) PROVE First(c[k + 1]) < First(c[i])
      <4>1. i = k \/ i \in 1..(k - 1)
        OBVIOUS
      <4>2. i \in 1..N
        BY <1>5
      <4>3. QED BY <1>7, <3>1, <3>2, <3>3, <4>1, <4>2
    <3>5. QED BY <3>1, <3>4
  <2> HIDE DEF S
  <2>3. \A k \in 1..N : k \in S
    BY <1>5, <2>1, <2>2, Successors
  <2>4. QED BY <2>3 DEF S
<1>11. ASSUME NEW i \in 1..N, NEW j \in 1..N, c[i] = c[j] PROVE i = j
  <2>1. i < j => First(c[j]) < First(c[i])
    BY <1>10
  <2>2. j < i => First(c[i]) < First(c[j])
    BY <1>10
  <2>3. First(c[i]) \in Nat /\ First(c[i]) = First(c[j])
    BY <1>7, <1>11
  <2>4. QED BY <2>1, <2>2, <2>3
<1> DEFINE U(k) == Carried(r) \cup UNION {Carried(c[i]) : i \in 1..k}
<1>12. Piece(U(N), d, First(c[N]), End(r))
  <2> DEFINE S == {k \in 1..N : Piece(U(k), d, First(c[k]), End(r))}
  <2>1. 1 \in S
    <3>1. Piece(Carried(r), d, First(r), End(r))
      BY <1>1, RequestFacts DEF d
    <3>2. Piece(Carried(c[1]), d, First(c[1]), First(r))
      BY <1>3, <1>5, <1>7
    <3>3. Piece(Carried(c[1]) \cup Carried(r), d, First(c[1]), End(r))
      BY <3>1, <3>2, Joined
    <3>4. U(1) = Carried(c[1]) \cup Carried(r)
      BY <1>5
    <3>5. Piece(U(1), d, First(c[1]), End(r))
      BY <3>3, <3>4
    <3>6. QED BY <1>5, <3>5
  <2>2. ASSUME NEW k \in 1..(N - 1), k \in S PROVE k + 1 \in S
    <3>1. k + 1 \in 1..N /\ k \in 1..N /\ End(c[k + 1]) = First(c[k])
      BY <1>8
    <3>2. Piece(Carried(c[k + 1]), d, First(c[k + 1]), First(c[k]))
      BY <1>7, <3>1
    <3>3. Piece(U(k), d, First(c[k]), End(r))
      BY <2>2
    <3>4. U(k + 1) = Carried(c[k + 1]) \cup U(k)
      <4>1. 1..(k + 1) = (1..k) \cup {k + 1}
        OBVIOUS
      <4>2. QED BY <4>1
    <3> HIDE DEF U
    <3>5. Piece(Carried(c[k + 1]) \cup U(k), d, First(c[k + 1]), End(r))
      BY <3>2, <3>3, Joined
    <3>6. Piece(U(k + 1), d, First(c[k + 1]), End(r))
      BY <3>4, <3>5
    <3>7. QED BY <3>1, <3>6
  <2> HIDE DEF S
  <2>3. \A k \in 1..N : k \in S
    BY <1>5, <2>1, <2>2, Successors
  <2>4. N \in S
    BY <1>5, <2>3
  <2>5. QED BY <2>4 DEF S
<1>13. QED
  <2>1. \A i, j \in 1..N : c[i] = c[j] => i = j
    BY <1>11
  <2>2. Piece(Carried(r) \cup UNION {Carried(c[i]) : i \in 1..N}, Dir[r], First(c[N]), End(r))
    BY <1>12 DEF d
  <2>3. c \in [1..N -> Here(Dir[r])]
    BY <1>4 DEF d
  <2>4. QED BY <1>5, <1>6, <1>9, <2>1, <2>2, <2>3

LEMMA InsertMergeKeeps ==
  ASSUME SsgInv, NEW r \in Bios, InsertMerge(r)
  PROVE  SsgInv'
<1> DEFINE d == Dir[r]
<1>1. phase[r] = "new" /\ UNCHANGED <<starved_writes, dispatch, passed, zones>>
  BY DEF InsertMerge
<1>2. PICK c \in Chains(d, r), tie \in BOOLEAN :
        /\ Absorb(Last(c), {r} \cup Range(Front(c)))
        /\ ssg' = [ssg EXCEPT ![d] = MergedChain(@, c, tie)]
  BY DEF InsertMerge
<1>3. PICK N \in Nat \ {0} :
        /\ Len(c) = N /\ c \in [1..N -> Here(d)]
        /\ Last(c) = c[N] /\ Range(Front(c)) = {c[i] : i \in 1..(N - 1)}
        /\ \A i, j \in 1..N : c[i] = c[j] => i = j
        /\ Piece(Carried(r) \cup UNION {Carried(c[i]) : i \in 1..N}, d, First(c[N]), End(r))
  BY <1>1, ChainFacts
<1> DEFINE g == c[N]
           B == {c[i] : i \in 1..(N - 1)}
           X == {r} \cup B
           Y == {}
           W == Carried(r) \cup UNION {Carried(c[i]) : i \in 1..N}
<1>4. /\ carrier \in [Bios -> Bios \cup {None}] /\ phase \in [Bios -> Phases] /\ None \notin Bios
      /\ RequestsOK /\ ListInv /\ d \in Data /\ Here(d) \in SUBSET Bios
      /\ QueueOK(ssg[d], Here(d), Firsts, fifo_expire[d]) /\ ssg \in [Data -> Queues]
  <2>1. d \in Data /\ Here(d) \in SUBSET Bios
    BY BioAssumption DEF Here
  <2>2. QED BY <2>1, BioAssumption DEF SsgInv, RequestsOK, ListInv
<1>5. \A x \in Here(d) : x \in Bios /\ phase[x] = "sorted" /\ Dir[x] = d
  BY DEF Here
<1>6. g \in Here(d) /\ g \notin B /\ B \subseteq Here(d) /\ r \notin Here(d)
  BY <1>1, <1>3, <1>5
<1>7. X \in SUBSET Bios /\ g \notin X /\ g \in Bios /\ phase[g] # "free" /\ Dir[g] = d
      /\ \A x \in X : phase[x] \in {"sorted", "new"} /\ Dir[x] = d
  BY <1>1, <1>5, <1>6
<1>8. /\ carrier' = [b \in Bios |-> IF carrier[b] \in X THEN g ELSE carrier[b]]
      /\ phase' = [q \in Bios |-> IF q \in X THEN "free" ELSE phase[q]]
  BY <1>2, <1>3 DEF Absorb
<1>9. \A b \in Bios : b \in W <=> b \in Carried(g) \/ b \in Y \/ carrier[b] \in X
  <2>1. \A b \in Bios : b \in W <=> carrier[b] = r \/ \E i \in 1..N : carrier[b] = c[i]
    BY DEF Carried
  <2>2. \A i \in 1..N : i = N \/ i \in 1..(N - 1)
    OBVIOUS
  <2>3. \A b \in Bios : carrier[b] \in X <=> carrier[b] = r \/ \E i \in 1..(N - 1) : carrier[b] = c[i]
    OBVIOUS
  <2>4. \A i \in 1..(N - 1) : i \in 1..N
    OBVIOUS
  <2>5. N \in 1..N
    OBVIOUS
  <2> HIDE DEF W, X, B
  <2>6. \A b \in Bios : b \in Carried(g) <=> carrier[b] = c[N]
    BY DEF Carried
  <2> HIDE DEF g
  <2>7. QED BY <2>1, <2>2, <2>3, <2>4, <2>5, <2>6
<1>10. MergeInto(g, X, Y, W, First(g), End(r))
  <2>1. Piece(W, Dir[g], First(g), End(r))
    BY <1>3, <1>7
  <2>2. carrier' \in [Bios -> Bios \cup {None}]
    BY <1>4, <1>7, <1>8
  <2>3. phase' \in [Bios -> Phases]
    BY <1>4, <1>8 DEF Phases
  <2>4. /\ \A b \in Bios : carrier'[b] = IF carrier[b] \in X \/ b \in Y THEN g ELSE carrier[b]
        /\ \A q \in Bios : phase'[q] = IF q \in X THEN "free" ELSE phase[q]
    BY <1>8
  <2>5. X \subseteq Bios /\ Y \subseteq Bios /\ \A b \in Y : carrier[b] = None
    BY <1>7
  <2> HIDE DEF W, X, Y, B, g
  <2>6. QED BY <1>7, <1>9, <2>1, <2>2, <2>3, <2>4, <2>5 DEF MergeInto
<1>11. QueueOK(MergedChain(ssg[d], c, tie), Here(d) \ X, Firsts, fifo_expire[d])
  <2>1. QueueOK(MergedChain(ssg[d], c, tie), Here(d) \ B, Firsts, fifo_expire[d])
    <3>1. PICK q, R, E : q = ssg[d] /\ R = Here(d) /\ E = fifo_expire[d]
      OBVIOUS
    <3>2. /\ R \in SUBSET Bios /\ QueueOK(q, R, Firsts, E) /\ c \in [1..N -> R]
          /\ \A i, j \in 1..N : c[i] = c[j] => i = j
      BY <1>3, <1>4, <3>1
    <3>3. QueueOK(MergedChain(q, c, tie), R \ {c[i] : i \in 1..(N - 1)}, Firsts, E)
      BY <3>2, ChainMerged
    <3>4. QED BY <3>1, <3>3
  <2>2. Here(d) \ X = Here(d) \ B
    BY <1>6
  <2>3. QED BY <2>1, <2>2
<1>12. ssg' = [ssg EXCEPT ![d] = MergedChain(ssg[d], c, tie)]
  BY <1>2
<1> HIDE DEF X, Y, W, B, d
<1>13. RequestsOK' /\ First(g)' = First(g) /\ \A q \in Bios : q # g /\ q \notin X => Carried(q)' = Carried(q)
  BY <1>4, <1>10, MergeKeepsRequests
<1> HIDE DEF g
<1>14. ListInv'
  <2>1. \A x \in X : Dir[x] = d
    BY <1>7
  <2>2. X \in SUBSET Bios /\ g \in Bios /\ g \notin X
    BY <1>7
  <2>3. phase' = [q \in Bios |-> IF q \in X THEN "free" ELSE phase[q]]
    BY <1>8
  <2>4. QED BY <1>4, <1>11, <1>12, <1>13, <2>1, <2>2, <2>3, MergeKeepsLists
<1>15. DispatchInv' /\ ZoneInv' /\ StarveInv'
  BY <1>1, <1>7, <1>8, MergeKeepsOthers
<1>16. QED BY <1>13, <1>14, <1>15 DEF SsgInv

-----------------------------------------------------------------------------
(* The dispatch list takes a request at its end and at its head.            *)
LEMMA DispatchAppended ==
  ASSUME DispatchInv, phase \in [Bios -> Phases], NEW r \in Bios, phase[r] # "dispatch",
         phase' = [phase EXCEPT ![r] = "dispatch"],
         dispatch' = Append(dispatch, r) \/ dispatch' = <<r>> \o dispatch
  PROVE  DispatchInv'
<1>1. /\ dispatch \in Seq(Bios) /\ Range(dispatch) = {x \in Bios : phase[x] = "dispatch"}
      /\ \A i, j \in 1..Len(dispatch) : dispatch[i] = dispatch[j] => i = j
  BY DEF DispatchInv
<1>2. PICK n \in Nat : n = Len(dispatch)
  BY <1>1, SeqFacts
<1>3. /\ \A i \in 1..n : dispatch[i] \in Bios /\ phase[dispatch[i]] = "dispatch"
      /\ \A x \in Bios : phase[x] = "dispatch" => \E i \in 1..n : dispatch[i] = x
  BY <1>1, <1>2, SeqFacts
<1>4. PICK k \in 1..(n + 1) :
        /\ dispatch' \in Seq(Bios) /\ Len(dispatch') = n + 1 /\ dispatch'[k] = r
        /\ \A i \in 1..n : Skip(k, i) \in 1..(n + 1) /\ dispatch'[Skip(k, i)] = dispatch[i]
  <2>1. CASE dispatch' = Append(dispatch, r)
    <3>1. /\ dispatch' \in Seq(Bios) /\ Len(dispatch') = n + 1 /\ dispatch'[n + 1] = r
          /\ \A i \in 1..n : dispatch'[i] = dispatch[i]
      BY <1>1, <1>2, <2>1
    <3>2. n + 1 \in 1..(n + 1) /\ \A i \in 1..n : Skip(n + 1, i) = i /\ i \in 1..(n + 1)
      BY <1>2 DEF Skip
    <3>3. QED BY <3>1, <3>2
  <2>2. CASE dispatch' = <<r>> \o dispatch
    <3>1. /\ dispatch' \in Seq(Bios) /\ Len(dispatch') = n + 1 /\ dispatch'[1] = r
          /\ \A i \in 1..n : dispatch'[i + 1] = dispatch[i]
      <4>1. <<r>> \in Seq(Bios) /\ Len(<<r>>) = 1 /\ <<r>>[1] = r
        OBVIOUS
      <4>2. /\ <<r>> \o dispatch \in Seq(Bios) /\ Len(<<r>> \o dispatch) = 1 + n
            /\ \A i \in 1..(1 + n) : (<<r>> \o dispatch)[i] = IF i <= 1 THEN <<r>>[i] ELSE dispatch[i - 1]
        BY <1>1, <1>2, <4>1, ConcatProperties
      <4>3. 1 \in 1..(1 + n) /\ 1 + n = n + 1
            /\ \A i \in 1..n : i + 1 \in 1..(1 + n) /\ ~(i + 1 <= 1) /\ (i + 1) - 1 = i
        BY <1>2
      <4>4. QED BY <2>2, <4>1, <4>2, <4>3
    <3>2. 1 \in 1..(n + 1) /\ \A i \in 1..n : Skip(1, i) = i + 1 /\ i + 1 \in 1..(n + 1)
      BY <1>2 DEF Skip
    <3>3. QED BY <3>1, <3>2
  <2>3. QED BY <2>1, <2>2
<1>5. \A j \in 1..(n + 1) : j # k => \E i \in 1..n : Skip(k, i) = j
  <2>1. PICK m \in Nat : m = n + 1
    OBVIOUS
  <2>2. k \in 1..m /\ m - 1 = n
    BY <2>1
  <2>3. \A j \in 1..m : j # k => \E i \in 1..(m - 1) : Skip(k, i) = j
    BY <2>2, SkipFacts
  <2>4. QED BY <2>1, <2>2, <2>3
<1>6. \A i, j \in 1..Len(dispatch') : dispatch'[i] = dispatch'[j] => i = j
  BY <1>1, <1>2, <1>3, <1>4, <1>5
<1>7. Range(dispatch') = {x \in Bios : phase'[x] = "dispatch"}
  <2>1. \A x \in Bios : phase'[x] = "dispatch" <=> phase[x] = "dispatch" \/ x = r
    BY <1>1
  <2>2. \A x \in Range(dispatch') : x \in Bios /\ \E i \in 1..(n + 1) : dispatch'[i] = x
    BY <1>4, SeqFacts
  <2>3. \A x \in Range(dispatch') : x \in Bios /\ phase'[x] = "dispatch"
    <3>1. ASSUME NEW j \in 1..(n + 1) PROVE phase'[dispatch'[j]] = "dispatch"
      <4>1. CASE j = k
        BY <1>4, <2>1, <4>1
      <4>2. CASE j # k
        <5>1. PICK i \in 1..n : Skip(k, i) = j
          BY <1>5, <4>2
        <5>2. dispatch'[j] = dispatch[i]
          BY <1>4, <5>1
        <5>3. QED BY <1>3, <2>1, <5>2
      <4>3. QED BY <4>1, <4>2
    <3>2. QED BY <2>2, <3>1
  <2>4. \A i \in 1..(n + 1) : dispatch'[i] \in Range(dispatch')
    BY <1>4, SeqFacts
  <2>5. \A x \in Bios : phase'[x] = "dispatch" => x \in Range(dispatch')
    BY <1>3, <1>4, <2>1, <2>4
  <2>6. QED BY <2>3, <2>5
<1>8. QED BY <1>4, <1>6, <1>7 DEF DispatchInv

LEMMA ZoneUnlocked ==
  ASSUME ZoneInv, phase \in [Bios -> Phases], NEW r \in Bios, phase[r] = "issued",
         NEW p \in {"dispatch", "free"}, ZoneWriteUnlock(r), phase' = [phase EXCEPT ![r] = p]
  PROVE  ZoneInv'
<1>1. /\ zone_locked = {x \in Bios : phase[x] = "issued" /\ NeedsZone(x)}
      /\ seq_zones_wlock = {Zone[x] : x \in zone_locked}
      /\ \A q, x \in Bios : phase[q] \in {"issued", "dispatch"} /\ phase[x] \in {"issued", "dispatch"}
                             /\ NeedsZone(q) /\ Zone[q] = Zone[x] => q = x
  BY DEF ZoneInv
<1>2. p # "issued" /\ \A x \in Bios : phase'[x] = IF x = r THEN p ELSE phase[x]
  OBVIOUS
<1>3. /\ zone_locked' = zone_locked \ {r}
      /\ seq_zones_wlock' = IF r \in zone_locked THEN seq_zones_wlock \ {Zone[r]} ELSE seq_zones_wlock
  BY DEF ZoneWriteUnlock, zones
<1>4. \A x : NeedsZone(x)' <=> NeedsZone(x)
  BY DEF NeedsZone
<1>5. zone_locked' = {x \in Bios : phase'[x] = "issued" /\ NeedsZone(x)}
  BY <1>1, <1>2, <1>3
<1>6. seq_zones_wlock' = {Zone[x] : x \in zone_locked'}
  <2>1. CASE r \in zone_locked
    <3>1. \A x \in zone_locked : Zone[x] = Zone[r] => x = r
      BY <1>1, <2>1
    <3>2. QED BY <1>1, <1>3, <2>1, <3>1
  <2>2. CASE r \notin zone_locked
    BY <1>1, <1>3, <2>2
  <2>3. QED BY <2>1, <2>2
<1>7. \A q, x \in Bios : phase'[q] \in {"issued", "dispatch"} /\ phase'[x] \in {"issued", "dispatch"}
                          /\ NeedsZone(q) /\ Zone[q] = Zone[x] => q = x
  <2>1. \A x \in Bios : phase'[x] \in {"issued", "dispatch"} => phase[x] \in {"issued", "dispatch"}
    BY <1>2
  <2>2. QED BY <1>1, <2>1
<1>8. QED BY <1>4, <1>5, <1>6, <1>7 DEF ZoneInv

LEMMA ZoneLocked ==
  ASSUME ZoneInv, phase \in [Bios -> Phases], NEW r \in Bios,
         \/ phase[r] = "dispatch"
         \/ phase[r] = "sorted" /\ CanDispatch(r) /\ \A x \in Bios : phase[x] # "dispatch",
         ZoneWriteLock(r), phase' = [phase EXCEPT ![r] = "issued"]
  PROVE  ZoneInv'
<1>1. /\ zone_locked = {x \in Bios : phase[x] = "issued" /\ NeedsZone(x)}
      /\ seq_zones_wlock = {Zone[x] : x \in zone_locked}
      /\ \A q, x \in Bios : phase[q] \in {"issued", "dispatch"} /\ phase[x] \in {"issued", "dispatch"}
                             /\ NeedsZone(q) /\ Zone[q] = Zone[x] => q = x
  BY DEF ZoneInv
<1>2. \A x \in Bios : phase'[x] = IF x = r THEN "issued" ELSE phase[x]
  OBVIOUS
<1>3. /\ zone_locked' = IF NeedsZone(r) THEN zone_locked \cup {r} ELSE zone_locked
      /\ seq_zones_wlock' = IF NeedsZone(r) THEN seq_zones_wlock \cup {Zone[r]} ELSE seq_zones_wlock
  BY DEF ZoneWriteLock, zones
<1>4. \A x : NeedsZone(x)' <=> NeedsZone(x)
  BY DEF NeedsZone
<1>5. phase[r] # "issued"
  OBVIOUS
<1>6. zone_locked' = {x \in Bios : phase'[x] = "issued" /\ NeedsZone(x)}
  <2>1. \A x : x \in zone_locked' <=> x \in zone_locked \/ (x = r /\ NeedsZone(r))
    BY <1>3
  <2>2. QED BY <1>1, <1>2, <1>5, <2>1
<1>7. seq_zones_wlock' = {Zone[x] : x \in zone_locked'}
  <2>1. CASE NeedsZone(r)
    BY <1>1, <1>3, <2>1
  <2>2. CASE ~NeedsZone(r)
    BY <1>1, <1>3, <2>2
  <2>3. QED BY <2>1, <2>2
<1>8. \A q, x \in Bios : phase'[q] \in {"issued", "dispatch"} /\ phase'[x] \in {"issued", "dispatch"}
                          /\ NeedsZone(q) /\ Zone[q] = Zone[x] => q = x
  <2>1. CASE phase[r] = "dispatch"
    <3>1. \A x \in Bios : phase'[x] \in {"issued", "dispatch"} => phase[x] \in {"issued", "dispatch"}
      BY <1>2, <2>1
    <3>2. QED BY <1>1, <3>1
  <2>2. CASE phase[r] = "sorted" /\ CanDispatch(r) /\ \A x \in Bios : phase[x] # "dispatch"
    <3>1. \A x \in Bios : x # r /\ phase'[x] \in {"issued", "dispatch"} => phase[x] = "issued"
      BY <1>2, <2>2
    <3>2. \A x \in Bios : phase[x] = "issued" /\ NeedsZone(x) => Zone[x] \in seq_zones_wlock
      BY <1>1
    <3>3. NeedsZone(r) => Zone[r] \notin seq_zones_wlock
      BY <2>2 DEF CanDispatch
    <3>4. \A q, x \in Bios : Zone[q] = Zone[x] => (NeedsZone(q) <=> NeedsZone(x))
      BY DEF NeedsZone
    <3>5. \A x \in Bios : x # r /\ phase'[x] \in {"issued", "dispatch"} => ~(NeedsZone(r) /\ Zone[x] = Zone[r])
      BY <3>1, <3>2, <3>3, <3>4
    <3>6. ASSUME NEW q \in Bios, NEW x \in Bios, phase'[q] \in {"issued", "dispatch"},
                 phase'[x] \in {"issued", "dispatch"}, NeedsZone(q), Zone[q] = Zone[x]
          PROVE  q = x
      <4>1. CASE q # r /\ x # r
        BY <1>1, <3>1, <3>6, <4>1
      <4>2. CASE q = r
        BY <3>5, <3>6, <4>2
      <4>3. CASE x = r
        BY <3>4, <3>5, <3>6, <4>3
      <4>4. QED BY <4>1, <4>2, <4>3
    <3>7. QED BY <3>6
  <2>3. QED BY <2>1, <2>2
<1>9. QED BY <1>4, <1>6, <1>7, <1>8 DEF ZoneInv

-----------------------------------------------------------------------------
(* The insertions, the completion, the clock.                               *)
LEMMA BothFields ==
  ASSUME NEW u \in Queues, NEW v, NEW w
  PROVE  [u EXCEPT !.sort_list = v, !.fifo_list = w]
           = [sort_list |-> v, fifo_list |-> w, next_rq |-> u.next_rq]
<1>1. PICK x : x = [u EXCEPT !.sort_list = v, !.fifo_list = w]
  OBVIOUS
<1>2. PICK A, B, C : u \in [sort_list : A, fifo_list : B, next_rq : C]
  BY DEF Queues
<1>3. /\ x.sort_list = v /\ x.fifo_list = w /\ x.next_rq = u.next_rq
      /\ x = [sort_list |-> x.sort_list, fifo_list |-> x.fifo_list, next_rq |-> x.next_rq]
  BY <1>1, <1>2
<1>4. QED BY <1>1, <1>3

LEMMA InsertSortKeeps ==
  ASSUME SsgInv, NEW r \in Bios, InsertSort(r)
  PROVE  SsgInv'
<1> DEFINE d == Dir[r]
<1>1. /\ phase[r] = "new" /\ carrier' = carrier /\ UNCHANGED <<starved_writes, passed, zones>>
      /\ d \in Data /\ RequestsOK /\ ListInv /\ phase \in [Bios -> Phases] /\ ssg \in [Data -> Queues]
      /\ QueueOK(ssg[d], Here(d), Firsts, fifo_expire[d]) /\ fifo_expire[d] \in Nat
      /\ DispatchInv /\ ZoneInv /\ StarveInv
  <2>1. d \in Data /\ fifo_expire[d] \in Nat
    BY BioAssumption, LimitAssumption
  <2>2. phase[r] = "new" /\ carrier' = carrier /\ UNCHANGED <<starved_writes, passed, zones>>
    BY DEF InsertSort
  <2>3. QED BY <2>1, <2>2 DEF SsgInv, RequestsOK, ListInv
<1>2. \A x \in Bios : First(x)' = First(x)
  BY <1>1, CarriedKept
<1>3. CASE r \in Passthrough
  <2>1. /\ dispatch' = Append(dispatch, r) /\ phase' = [phase EXCEPT ![r] = "dispatch"]
        /\ ssg' = ssg
    BY <1>3 DEF InsertSort
  <2>2. RequestsOK'
    <3>1. phase[r] # "free" /\ "dispatch" \in Phases \ {"free"}
      BY <1>1 DEF Phases
    <3>2. QED BY <1>1, <2>1, <3>1, RequestMoved
  <2>3. ListInv'
    <3>1. \A e \in Data : Here(e)' = Here(e) /\ Here(e) \subseteq Bios
      BY <1>1, <2>1 DEF Here
    <3>2. QED BY <1>1, <1>2, <2>1, <3>1, ListsKept
  <2>4. DispatchInv'
    BY <1>1, <2>1, DispatchAppended
  <2>5. ZoneInv'
    <3>1. ~NeedsZone(r)
      BY <1>3, ZoneAssumption DEF NeedsZone
    <3>2. \A x \in Bios : x # r => phase'[x] = phase[x]
      BY <2>1
    <3>3. phase'[r] = "dispatch"
      BY <1>1, <2>1
    <3>4. zone_locked' = zone_locked /\ seq_zones_wlock' = seq_zones_wlock
          /\ \A x, y \in Bios : Zone[x] = Zone[y] => (NeedsZone(x) <=> NeedsZone(y))
      BY <1>1 DEF zones, NeedsZone
    <3>5. \A x : NeedsZone(x)' <=> NeedsZone(x)
      BY DEF NeedsZone
    <3>6. /\ zone_locked = {x \in Bios : phase[x] = "issued" /\ NeedsZone(x)}
          /\ seq_zones_wlock = {Zone[x] : x \in zone_locked}
          /\ \A q, x \in Bios : phase[q] \in {"issued", "dispatch"} /\ phase[x] \in {"issued", "dispatch"}
                             /\ NeedsZone(q) /\ Zone[q] = Zone[x] => q = x
      BY <1>1 DEF ZoneInv
    <3>7. zone_locked' = {x \in Bios : phase'[x] = "issued" /\ NeedsZone(x)}
      BY <1>1, <3>2, <3>3, <3>4, <3>6
    <3>8. \A q, x \in Bios : phase'[q] \in {"issued", "dispatch"} /\ phase'[x] \in {"issued", "dispatch"}
                             /\ NeedsZone(q) /\ Zone[q] = Zone[x] => q = x
      BY <3>1, <3>2, <3>4, <3>6
    <3>9. QED BY <3>4, <3>5, <3>6, <3>7, <3>8 DEF ZoneInv
  <2>6. StarveInv'
    BY <1>1 DEF StarveInv
  <2>7. QED BY <2>2, <2>3, <2>4, <2>5, <2>6 DEF SsgInv
<1>4. CASE r \notin Passthrough
  <2> DEFINE s == AddRb(ssg[d].sort_list, r, First(r))
             f == Append(ssg[d].fifo_list, [rq |-> r, left |-> fifo_expire[d]])
             n == ssg[d].next_rq
             q == [sort_list |-> s, fifo_list |-> f, next_rq |-> n]
  <2>1. /\ ssg' = [ssg EXCEPT ![d].sort_list = AddRb(@, r, First(r)),
                              ![d].fifo_list = Append(@, [rq |-> r, left |-> fifo_expire[d]])]
        /\ phase' = [phase EXCEPT ![r] = "sorted"] /\ dispatch' = dispatch
    BY <1>4 DEF InsertSort
  <2>2. RequestsOK'
    <3>1. phase[r] # "free" /\ "sorted" \in Phases \ {"free"}
      BY <1>1 DEF Phases
    <3>2. QED BY <1>1, <2>1, <3>1, RequestMoved
  <2>3. Here(d)' = Here(d) \cup {r} /\ \A e \in Data : e # d => Here(e)' = Here(e)
    BY <1>1, <2>1 DEF Here
  <2>4. /\ Here(d) \in SUBSET Bios /\ r \notin Here(d)
        /\ \A x \in Here(d) : First(x) \in Nat /\ x \in Bios
        /\ First(r) \in Nat
    <3>1. \A x \in Here(d) : x \in Bios /\ phase[x] # "free"
      BY DEF Here
    <3>2. QED BY <1>1, <3>1, RequestFacts DEF Here
  <2>5. /\ \A x \in Here(d) : Firsts[x] = First(x) /\ Firsts[x] \in Nat /\ Firsts'[x] = Firsts[x]
        /\ Firsts'[r] = First(r)
    BY <1>2, <2>4, FirstsOf
  <2>6. /\ Holds(ssg[d].sort_list, Here(d)) /\ InOrder(ssg[d].sort_list, Firsts)
        /\ FifoHolds(ssg[d].fifo_list, Here(d)) /\ Expiring(ssg[d].fifo_list)
        /\ \A i \in 1..Len(ssg[d].fifo_list) : ssg[d].fifo_list[i].left <= fifo_expire[d]
        /\ n \in Here(d) \cup {None} /\ ssg[d] \in Queues
    BY <1>1 DEF QueueOK
  <2>7. Holds(s, Here(d) \cup {r}) /\ InOrder(s, Firsts')
    <3> DEFINE R == Here(d)
               l == ssg[d].sort_list
               v == First(r)
    <3>1. /\ Holds(l, R) /\ InOrder(l, Firsts) /\ r \notin R /\ v \in Nat /\ Firsts'[r] = v
          /\ \A x \in R : Firsts[x] = First(x) /\ Firsts[x] \in Nat
          /\ \A x \in R : Firsts'[x] = Firsts[x]
      BY <2>4, <2>5, <2>6
    <3>2. s = AddRb(l, r, v)
      OBVIOUS
    <3> HIDE DEF R, l, v, s, d
    <3>3. Holds(AddRb(l, r, v), R \cup {r}) /\ InOrder(AddRb(l, r, v), Firsts')
      BY <3>1, SortAdded
    <3>4. QED BY <3>2, <3>3 DEF R
  <2>8. /\ FifoHolds(f, Here(d) \cup {r}) /\ Expiring(f)
        /\ \A i \in 1..Len(f) : f[i].left <= fifo_expire[d]
    BY <1>1, <2>4, <2>6, FifoAppended
  <2>9. ssg' = [ssg EXCEPT ![d] = q]
    <3>1. ssg' = [ssg EXCEPT ![d].sort_list = s, ![d].fifo_list = f]
      BY <2>1
    <3> HIDE DEF s, f, d
    <3>2. ssg' = [ssg EXCEPT ![d] = [ssg[d] EXCEPT !.sort_list = s, !.fifo_list = f]]
      BY <1>1, <3>1
    <3>3. [ssg[d] EXCEPT !.sort_list = s, !.fifo_list = f] = q
      BY <2>6, BothFields
    <3>4. QED BY <3>2, <3>3
  <2>10. QueueOK(q, Here(d)', Firsts', fifo_expire[d])
    <3>1. Here(d)' \in SUBSET Bios /\ n \in Here(d)' \cup {None}
      BY <2>3, <2>4, <2>6
    <3>2. Holds(s, Here(d)') /\ InOrder(s, Firsts') /\ FifoHolds(f, Here(d)') /\ Expiring(f)
      BY <2>3, <2>7, <2>8
    <3> HIDE DEF s, f, n
    <3>3. QED BY <2>8, <3>1, <3>2, QueueIs
  <2>11. \A e \in Data : e # d => \A x \in Here(e) : First(x)' = First(x)
    BY <1>2 DEF Here
  <2> HIDE DEF q
  <2> HIDE DEF d
  <2>12. ListInv'
    BY <1>1, <2>3, <2>9, <2>10, <2>11, ListChanged
  <2>13. DispatchInv' /\ ZoneInv' /\ StarveInv'
    <3>1. \A x \in Bios : \A p \in {"issued", "dispatch"} : phase'[x] = p <=> phase[x] = p
      BY <1>1, <2>1
    <3>2. QED BY <1>1, <2>1, <3>1, OthersKept
  <2>14. QED BY <2>2, <2>12, <2>13 DEF SsgInv
<1>5. QED BY <1>3, <1>4

LEMMA InsertHeadKeeps ==
  ASSUME SsgInv, NEW r \in Bios, InsertHead(r)
  PROVE  SsgInv'
<1>1. /\ phase[r] = "issued" /\ ZoneWriteUnlock(r) /\ dispatch' = <<r>> \o dispatch
      /\ phase' = [phase EXCEPT ![r] = "dispatch"]
      /\ UNCHANGED <<ssg, starved_writes, passed, carrier>>
  BY DEF InsertHead
<1>2. RequestsOK /\ ListInv /\ DispatchInv /\ ZoneInv /\ StarveInv /\ phase \in [Bios -> Phases]
  BY DEF SsgInv, RequestsOK
<1>3. RequestsOK'
  <2>1. phase[r] # "free" /\ "dispatch" \in Phases \ {"free"}
    BY <1>1 DEF Phases
  <2>2. QED BY <1>1, <1>2, <2>1, RequestMoved
<1>4. ListInv'
  <2>1. \A e \in Data : Here(e)' = Here(e) /\ Here(e) \subseteq Bios
    BY <1>1, <1>2 DEF Here
  <2>2. \A x : First(x)' = First(x)
    BY <1>1, CarriedKept
  <2>3. QED BY <1>1, <1>2, <2>1, <2>2, ListsKept
<1>5. DispatchInv'
  BY <1>1, <1>2, DispatchAppended
<1>6. ZoneInv'
  BY <1>1, <1>2, ZoneUnlocked
<1>7. StarveInv'
  BY <1>1, <1>2 DEF StarveInv
<1>8. QED BY <1>3, <1>4, <1>5, <1>6, <1>7 DEF SsgInv

LEMMA FinishKeeps ==
  ASSUME SsgInv, NEW r \in Bios, FinishRequest(r)
  PROVE  SsgInv'
<1>1. /\ phase[r] = "issued" /\ ZoneWriteUnlock(r)
      /\ carrier' = [b \in Bios |-> IF carrier[b] = r THEN None ELSE carrier[b]]
      /\ phase' = [phase EXCEPT ![r] = "free"]
      /\ ssg' = ssg /\ starved_writes' = starved_writes /\ dispatch' = dispatch /\ passed' = passed
  BY DEF FinishRequest, lists
<1>2. /\ carrier \in [Bios -> Bios \cup {None}] /\ phase \in [Bios -> Phases]
      /\ \A q \in Bios : phase[q] # "free" =>
            carrier[q] = q /\ Piece(Carried(q), Dir[q], First(q), End(q))
      /\ \A b \in Bios : carrier[b] # None => phase[carrier[b]] # "free"
      /\ None \notin Bios
  BY BioAssumption DEF SsgInv, RequestsOK
<1>3. ASSUME NEW q \in Bios, q # r
      PROVE  Carried(q)' = Carried(q) /\ First(q)' = First(q) /\ End(q)' = End(q)
  <2>1. \A b \in Bios : carrier'[b] = q <=> carrier[b] = q
    BY <1>1, <1>2, <1>3
  <2>2. Carried(q)' = Carried(q)
    BY <2>1 DEF Carried
  <2>3. QED BY <2>2, SameEnds
<1>4. RequestsOK'
  <2>1. carrier' \in [Bios -> Bios \cup {None}] /\ phase' \in [Bios -> Phases]
    BY <1>1, <1>2 DEF Phases
  <2>2. ASSUME NEW q \in Bios, phase'[q] # "free"
        PROVE  carrier'[q] = q /\ Piece(Carried(q), Dir[q], First(q), End(q))'
    <3>1. q # r /\ phase[q] # "free"
      BY <1>1, <1>2, <2>2
    <3>2. carrier[q] = q /\ Piece(Carried(q), Dir[q], First(q), End(q))
      BY <1>2, <3>1
    <3>3. carrier'[q] = q
      BY <1>1, <3>1, <3>2
    <3>4. QED BY <1>3, <3>1, <3>2, <3>3 DEF Piece
  <2>3. ASSUME NEW b \in Bios, carrier'[b] # None PROVE phase'[carrier'[b]] # "free"
    <3>1. carrier'[b] = carrier[b] /\ carrier[b] # r
      BY <1>1, <2>3
    <3>2. QED BY <1>1, <1>2, <2>3, <3>1
  <2>4. QED BY <2>1, <2>2, <2>3 DEF RequestsOK
<1>5. ListInv'
  <2>1. \A e \in Data : Here(e)' = Here(e)
    BY <1>1, <1>2 DEF Here
  <2>2. \A e \in Data : \A x \in Here(e) : First(x)' = First(x)
    BY <1>1, <1>3 DEF Here
  <2>3. QED BY <1>1, <2>1, <2>2, ListsKept DEF SsgInv
<1>6. DispatchInv'
  <2>1. \A q \in Bios : phase'[q] = "dispatch" <=> phase[q] = "dispatch"
    BY <1>1, <1>2
  <2>2. QED BY <1>1, <2>1 DEF SsgInv, DispatchInv
<1>7. ZoneInv'
  BY <1>1, <1>2, ZoneUnlocked DEF SsgInv
<1>8. StarveInv'
  BY <1>1 DEF SsgInv, StarveInv
<1>9. QED BY <1>4, <1>5, <1>6, <1>7, <1>8 DEF SsgInv

LEMMA TickedFifo ==
  ASSUME NEW f, NEW R \in SUBSET Bios, NEW E, FifoHolds(f, R), Expiring(f),
         \A i \in 1..Len(f) : f[i].left <= E, E \in Nat
  PROVE  LET g == [i \in 1..Len(f) |-> Aged(f[i])]
         IN  FifoHolds(g, R) /\ Expiring(g) /\ \A i \in 1..Len(g) : g[i].left <= E
<1> DEFINE g == [i \in 1..Len(f) |-> Aged(f[i])]
<1>1. /\ f \in Seq(Entries) /\ Len(f) \in Nat
      /\ \A i \in 1..Len(f) : f[i] \in Entries /\ f[i].rq \in R /\ f[i].left \in Nat
      /\ \A y \in R : \E i \in 1..Len(f) : f[i].rq = y
      /\ \A i, j \in 1..Len(f) : f[i].rq = f[j].rq => i = j
  BY FifoFacts
<1>2. \A e \in Entries :
        /\ Aged(e) \in Entries /\ Aged(e).rq = e.rq
        /\ Aged(e).left = IF e.left = 0 THEN 0 ELSE e.left - 1
  BY DEF Entries, Aged
<1>3. \A i \in 1..Len(f) : /\ g[i] \in Entries /\ g[i].rq = f[i].rq
                           /\ g[i].left = IF f[i].left = 0 THEN 0 ELSE f[i].left - 1
  BY <1>1, <1>2
<1>4. g \in Seq(Entries) /\ Len(g) = Len(f)
  BY <1>1, <1>3, IsASeq
<1> HIDE DEF g
<1>5. FifoHolds(g, R)
  <2>1. {g[i].rq : i \in 1..Len(g)} = {f[i].rq : i \in 1..Len(f)}
    BY <1>3, <1>4
  <2>2. {f[i].rq : i \in 1..Len(f)} = R
    BY DEF FifoHolds
  <2>3. QED BY <1>1, <1>3, <1>4, <2>1, <2>2 DEF FifoHolds
<1>6. Expiring(g)
  <2>1. ASSUME NEW i \in 1..Len(f), NEW j \in 1..Len(f), i < j PROVE g[i].left <= g[j].left
    <3>1. f[i].left <= f[j].left
      BY <2>1 DEF Expiring
    <3>2. f[i].left \in Nat /\ f[j].left \in Nat
      BY <1>1
    <3>3. /\ g[i].left = IF f[i].left = 0 THEN 0 ELSE f[i].left - 1
          /\ g[j].left = IF f[j].left = 0 THEN 0 ELSE f[j].left - 1
      BY <1>3
    <3>4. QED BY <3>1, <3>2, <3>3
  <2>2. QED BY <1>4, <2>1 DEF Expiring
<1>7. \A i \in 1..Len(g) : g[i].left <= E
  BY <1>1, <1>3, <1>4
<1>8. QED BY <1>5, <1>6, <1>7 DEF g

LEMMA TickKeeps ==
  ASSUME SsgInv, Tick
  PROVE  SsgInv'
<1>1. /\ ssg' = [d \in Data |->
                  [ssg[d] EXCEPT !.fifo_list = [i \in 1..Len(@) |-> Aged(@[i])]]]
      /\ UNCHANGED <<starved_writes, dispatch, passed, zones, phase, carrier>>
  BY DEF Tick
<1>2. \A x : Carried(x)' = Carried(x) /\ First(x)' = First(x) /\ End(x)' = End(x)
  BY <1>1, CarriedKept
<1>3. RequestsOK'
  BY <1>1, <1>2 DEF SsgInv, RequestsOK, Piece
<1>4. ASSUME NEW d \in Data
      PROVE  ssg'[d] \in Queues /\ QueueOK(ssg'[d], Here(d)', Firsts', fifo_expire[d])
  <2> DEFINE g == [i \in 1..Len(ssg[d].fifo_list) |-> Aged(ssg[d].fifo_list[i])]
  <2>1. /\ ssg[d] \in Queues /\ Here(d) \in SUBSET Bios
        /\ Holds(ssg[d].sort_list, Here(d)) /\ InOrder(ssg[d].sort_list, Firsts)
        /\ FifoHolds(ssg[d].fifo_list, Here(d)) /\ Expiring(ssg[d].fifo_list)
        /\ \A i \in 1..Len(ssg[d].fifo_list) : ssg[d].fifo_list[i].left <= fifo_expire[d]
        /\ ssg[d].next_rq \in Here(d) \cup {None}
    BY DEF SsgInv, ListInv, QueueOK, Here
  <2>2. fifo_expire[d] \in Nat
    BY LimitAssumption
  <2>3. FifoHolds(g, Here(d)) /\ Expiring(g) /\ \A i \in 1..Len(g) : g[i].left <= fifo_expire[d]
    BY <2>1, <2>2, TickedFifo
  <2>4. ssg'[d] = [ssg[d] EXCEPT !.fifo_list = g]
    BY <1>1, Zenon
  <2> HIDE DEF g
  <2>5. ssg'[d] = [sort_list |-> ssg[d].sort_list, fifo_list |-> g, next_rq |-> ssg[d].next_rq]
    BY <2>1, <2>4 DEF Queues
  <2>6. QueueOK([sort_list |-> ssg[d].sort_list, fifo_list |-> g, next_rq |-> ssg[d].next_rq],
                Here(d), Firsts, fifo_expire[d])
    BY <2>1, <2>3, QueueIs
  <2>7. Here(d)' = Here(d) /\ Firsts' = Firsts
    BY <1>1, <1>2 DEF Here, Firsts
  <2>8. QueueOK(ssg'[d], Here(d)', Firsts', fifo_expire[d])
    BY <2>5, <2>6, <2>7
  <2>9. QED BY <2>8 DEF QueueOK
<1>5. ListInv'
  <2>1. ssg' \in [Data -> Queues]
    BY <1>1, <1>4
  <2>2. \A d \in Data : QueueOK(ssg[d], Here(d), Firsts, fifo_expire[d])'
    BY <1>4 DEF QueueOK
  <2>3. QED BY <2>1, <2>2 DEF ListInv
<1>6. DispatchInv' /\ ZoneInv' /\ StarveInv'
  BY <1>1, OthersKept DEF SsgInv
<1>7. QED BY <1>3, <1>5, <1>6 DEF SsgInv

-----------------------------------------------------------------------------
(* The dispatch.                                                            *)
LEMMA DispatchHeadKeeps ==
  ASSUME SsgInv, DispatchHead
  PROVE  SsgInv'
<1> DEFINE h == Head(dispatch)
<1>1. /\ dispatch # <<>> /\ dispatch' = Tail(dispatch) /\ phase' = [phase EXCEPT ![h] = "issued"]
      /\ ZoneWriteLock(h) /\ UNCHANGED <<ssg, starved_writes, passed, carrier>>
  BY DEF DispatchHead
<1>2. /\ dispatch \in Seq(Bios) /\ Range(dispatch) = {x \in Bios : phase[x] = "dispatch"}
      /\ \A i, j \in 1..Len(dispatch) : dispatch[i] = dispatch[j] => i = j
      /\ RequestsOK /\ ListInv /\ ZoneInv /\ StarveInv /\ phase \in [Bios -> Phases]
  BY DEF SsgInv, DispatchInv, RequestsOK
<1>3. PICK n \in Nat : n = Len(dispatch)
  BY <1>2, SeqFacts
<1>4. /\ n >= 1 /\ h = dispatch[1] /\ dispatch' \in Seq(Bios) /\ Len(dispatch') = n - 1
      /\ \A i \in 1..(n - 1) : dispatch'[i] = dispatch[i + 1]
  BY <1>1, <1>2, <1>3, HeadTailProperties
<1>5. PICK r \in Bios : r = h /\ phase[r] = "dispatch"
  <2>1. 1 \in 1..n
    BY <1>3, <1>4
  <2>2. h \in Range(dispatch)
    BY <1>2, <1>3, <1>4, <2>1, SeqFacts
  <2>3. QED BY <1>2, <2>2
<1>6. phase' = [phase EXCEPT ![r] = "issued"] /\ ZoneWriteLock(r) /\ dispatch[1] = r
  BY <1>1, <1>4, <1>5
<1> HIDE DEF h
<1>7. RequestsOK'
  <2>1. phase[r] # "free" /\ "issued" \in Phases \ {"free"}
    BY <1>5 DEF Phases
  <2>2. QED BY <1>1, <1>2, <1>6, <2>1, RequestMoved
<1>8. ListInv'
  <2>1. \A e \in Data : Here(e)' = Here(e) /\ Here(e) \subseteq Bios
    BY <1>2, <1>5, <1>6 DEF Here
  <2>2. \A x : First(x)' = First(x)
    BY <1>1, CarriedKept
  <2>3. QED BY <1>1, <1>2, <2>1, <2>2, ListsKept
<1>9. DispatchInv'
  <2>1. \A i \in 1..(n - 1) : i + 1 \in 1..n
    BY <1>3
  <2>2. \A i, j \in 1..Len(dispatch') : dispatch'[i] = dispatch'[j] => i = j
    BY <1>2, <1>3, <1>4, <2>1
  <2>3. \A x \in Bios : phase'[x] = "dispatch" <=> phase[x] = "dispatch" /\ x # r
    BY <1>2, <1>6
  <2>4. Range(dispatch') = {x \in Bios : phase'[x] = "dispatch"}
    <3>1. ASSUME NEW x \in Range(dispatch') PROVE x \in Bios /\ phase'[x] = "dispatch"
      <4>1. PICK i \in 1..(n - 1) : dispatch'[i] = x
        BY <1>3, <1>4, SeqFacts
      <4>2. dispatch[i + 1] = x /\ i + 1 # 1 /\ 1 \in 1..n
        BY <1>3, <1>4, <4>1
      <4>3. x # r
        BY <1>2, <1>3, <1>6, <2>1, <4>2
      <4>4. x \in Range(dispatch)
        BY <1>2, <1>3, <2>1, <4>2, SeqFacts
      <4>5. QED BY <1>2, <2>3, <4>3, <4>4
    <3>2. ASSUME NEW x \in Bios, phase'[x] = "dispatch" PROVE x \in Range(dispatch')
      <4>1. x \in Range(dispatch) /\ x # r
        BY <1>2, <2>3, <3>2
      <4>2. PICK i \in 1..n : dispatch[i] = x
        BY <1>2, <1>3, <4>1, SeqFacts
      <4>3. i - 1 \in 1..(n - 1) /\ (i - 1) + 1 = i
        BY <1>3, <1>6, <4>1, <4>2
      <4>4. dispatch'[i - 1] = x
        BY <1>4, <4>2, <4>3
      <4>5. QED BY <1>4, <4>3, <4>4, SeqFacts
    <3>3. QED BY <3>1, <3>2
  <2>5. QED BY <1>4, <2>2, <2>4 DEF DispatchInv
<1>10. ZoneInv'
  BY <1>2, <1>5, <1>6, ZoneLocked
<1>11. StarveInv'
  BY <1>1, <1>2 DEF StarveInv
<1>12. QED BY <1>7, <1>8, <1>9, <1>10, <1>11 DEF SsgInv

LEMMA FifoRequestIs ==
  ASSUME SsgInv, NEW d \in Data
  PROVE  /\ FifoRequest(d) # None => FifoRequest(d) \in Here(d) /\ CanDispatch(FifoRequest(d))
         /\ (\E x \in Here(d) : CanDispatch(x)) => FifoRequest(d) # None
<1> DEFINE f == ssg[d].fifo_list
           s == [i \in 1..Len(f) |-> f[i].rq]
<1>1. FifoHolds(f, Here(d))
  BY DEF SsgInv, ListInv, QueueOK
<1>2. /\ Len(f) \in Nat /\ Here(d) \subseteq Bios /\ \A i \in 1..Len(f) : f[i].rq \in Here(d)
      /\ \A y \in Here(d) : \E i \in 1..Len(f) : f[i].rq = y
  BY <1>1, FifoFacts
<1> HIDE DEF f
<1>3. s \in Seq(Bios) /\ Len(s) = Len(f) /\ \A i \in 1..Len(f) : s[i] = f[i].rq
  BY <1>2, IsASeq
<1> HIDE DEF s
<1>4. Range(s) = Here(d)
  <2>1. \A x \in Range(s) : \E i \in 1..Len(s) : s[i] = x
    BY <1>3, SeqFacts
  <2>2. \A i \in 1..Len(s) : s[i] \in Range(s)
    BY <1>3, SeqFacts
  <2>3. \A x \in Range(s) : x \in Here(d)
    BY <1>2, <1>3, <2>1
  <2>4. ASSUME NEW y \in Here(d) PROVE y \in Range(s)
    BY <1>2, <1>3, <2>2
  <2>5. QED BY <2>3, <2>4
<1>5. /\ FirstOf(s) # None => FirstOf(s) \in Here(d) /\ CanDispatch(FirstOf(s))
      /\ (\E x \in Range(s) : CanDispatch(x)) => FirstOf(s) # None
  BY <1>2, <1>3, <1>4, FirstIs
<1>6. FifoRequest(d) = FirstOf(s)
  BY DEF FifoRequest, s, f
<1>7. QED BY <1>4, <1>5, <1>6

LEMMA NextRequestIs ==
  ASSUME SsgInv, NEW d \in Data, NextRequest(d) # None
  PROVE  NextRequest(d) \in Here(d) /\ CanDispatch(NextRequest(d))
<1> DEFINE s == ssg[d].sort_list
           k == SelectInSeq(s, LAMBDA r : r = ssg[d].next_rq)
           t == SubSeq(s, k, Len(s))
<1>1. Holds(s, Here(d)) /\ ssg[d].next_rq \in Here(d) \cup {None} /\ Here(d) \subseteq Bios
  BY DEF SsgInv, ListInv, QueueOK, Here
<1>2. /\ s \in Seq(Bios) /\ Len(s) \in Nat /\ \A i \in 1..Len(s) : s[i] \in Here(d)
      /\ \A x \in Here(d) : \E i \in 1..Len(s) : s[i] = x
  BY <1>1, SeqFacts DEF Holds
<1>3. ssg[d].next_rq # None /\ NextRequest(d) = FirstOf(t)
  BY DEF NextRequest
<1>4. k \in 1..Len(s)
  <2> DEFINE I == {i \in 1..Len(s) : s[i] = ssg[d].next_rq}
  <2>1. I \in SUBSET Nat /\ I # {}
    BY <1>1, <1>2, <1>3
  <2>2. Min(I) \in I
    BY <2>1, MinIn
  <2>3. k = Min(I)
    BY <2>1 DEF SelectInSeq
  <2>4. QED BY <2>2, <2>3
<1> HIDE DEF k, s
<1>5. t \in Seq(Here(d)) /\ Range(t) \subseteq Here(d)
  <2>1. k \in Int /\ Len(s) \in Int /\ \A i \in k..Len(s) : s[i] \in Here(d)
    BY <1>2, <1>4
  <2>2. SubSeq(s, k, Len(s)) \in Seq(Here(d))
    BY <2>1, SubSeqProperties
  <2>3. QED BY <2>2, SeqFacts
<1> HIDE DEF t
<1>6. t \in Seq(Bios)
  <2>1. Len(t) \in Nat /\ \A i \in 1..Len(t) : t[i] \in Here(d)
    BY <1>5, SeqFacts
  <2>2. QED BY <1>1, <1>5, <2>1, ElementOfSeq
<1>7. FirstOf(t) # None => FirstOf(t) \in Here(d) /\ CanDispatch(FirstOf(t))
  BY <1>1, <1>5, <1>6, FirstIs
<1>8. QED BY <1>3, <1>7

LEMMA NextSet ==
  ASSUME NEW q, NEW R \in SUBSET Bios, NEW F, NEW E, QueueOK(q, R, F, E), NEW n \in R \cup {None}
  PROVE  QueueOK([q EXCEPT !.next_rq = n], R, F, E)
<1>1. /\ q \in Queues /\ Holds(q.sort_list, R) /\ InOrder(q.sort_list, F)
      /\ FifoHolds(q.fifo_list, R) /\ Expiring(q.fifo_list)
      /\ \A i \in 1..Len(q.fifo_list) : q.fifo_list[i].left <= E
  BY DEF QueueOK
<1>2. [q EXCEPT !.next_rq = n] = [sort_list |-> q.sort_list, fifo_list |-> q.fifo_list, next_rq |-> n]
  BY <1>1 DEF Queues
<1>3. QueueOK([sort_list |-> q.sort_list, fifo_list |-> q.fifo_list, next_rq |-> n], R, F, E)
  BY <1>1, QueueIs
<1>4. QED BY <1>2, <1>3

LEMMA TakeKeeps ==
  ASSUME SsgInv, NEW d \in Data, Take(d), dispatch = <<>>, UNCHANGED <<dispatch, carrier>>
  PROVE  /\ RequestsOK' /\ ListInv' /\ DispatchInv' /\ ZoneInv'
         /\ \/ UNCHANGED <<ssg, phase, zones>>
            \/ \E r \in Bios : phase[r] = "sorted" /\ phase' = [phase EXCEPT ![r] = "issued"]
<1>1. /\ RequestsOK /\ ListInv /\ DispatchInv /\ ZoneInv /\ phase \in [Bios -> Phases]
      /\ ssg \in [Data -> Queues]
  BY DEF SsgInv, RequestsOK, ListInv
<1>2. \A x \in Bios : phase[x] # "dispatch"
  <2>1. Range(dispatch) = {}
    BY DEF Range
  <2>2. QED BY <1>1, <2>1 DEF DispatchInv
<1>3. CASE Selected(d) = None
  <2>1. UNCHANGED <<ssg, phase, zones>>
    BY <1>3, BioAssumption DEF Take
  <2>2. \A x : Carried(x)' = Carried(x) /\ First(x)' = First(x) /\ End(x)' = End(x)
    BY CarriedKept
  <2>3. RequestsOK'
    BY <1>1, <2>1, <2>2 DEF RequestsOK, Piece
  <2>4. ListInv'
    <3>1. \A e \in Data : Here(e)' = Here(e)
      BY <2>1 DEF Here
    <3>2. QED BY <1>1, <2>1, <2>2, <3>1, ListsKept
  <2>5. DispatchInv'
    BY <1>1, <2>1 DEF DispatchInv
  <2>6. ZoneInv'
    BY <1>1, <2>1 DEF ZoneInv, NeedsZone, zones
  <2>7. QED BY <2>1, <2>3, <2>4, <2>5, <2>6
<1>4. CASE Selected(d) # None
  <2>1. Selected(d) \in Here(d) /\ CanDispatch(Selected(d))
    BY <1>4, FifoRequestIs, NextRequestIs DEF Selected
  <2>2. PICK r \in Here(d) : r = Selected(d)
    BY <2>1
  <2>3. /\ r \in Bios /\ phase[r] = "sorted" /\ Dir[r] = d /\ CanDispatch(r)
        /\ MoveRequest(d, r) /\ ZoneWriteLock(r) /\ phase' = [phase EXCEPT ![r] = "issued"]
    BY <1>4, <2>1, <2>2 DEF Take, Here
  <2>4. RequestsOK'
    <3>1. phase[r] # "free" /\ "issued" \in Phases \ {"free"}
      BY <2>3 DEF Phases
    <3>2. QED BY <1>1, <2>3, <3>1, RequestMoved
  <2>5. ZoneInv'
    BY <1>1, <1>2, <2>3, ZoneLocked
  <2>6. DispatchInv'
    <3>1. \A x \in Bios : phase'[x] = "dispatch" <=> phase[x] = "dispatch"
      BY <1>1, <2>3
    <3>2. QED BY <1>1, <3>1 DEF DispatchInv
  <2>7. ListInv'
    <3>1. Here(d)' = Here(d) \ {r} /\ \A e \in Data : e # d => Here(e)' = Here(e)
      BY <1>1, <2>3 DEF Here
    <3>2. Firsts' = Firsts
      BY CarriedKept DEF Firsts
    <3>3. /\ ssg'[d] = [RemoveRequest(ssg[d], r) EXCEPT !.next_rq = Latter(ssg[d].sort_list, r)]
          /\ \A e \in Data : e # d => ssg'[e] = [ssg[e] EXCEPT !.next_rq = None]
          /\ ssg' = [e \in Data |-> ssg'[e]]
      BY <2>3 DEF MoveRequest
    <3>4. ASSUME NEW e \in Data PROVE QueueOK(ssg'[e], Here(e)', Firsts', fifo_expire[e])
      <4>1. QueueOK(ssg[e], Here(e), Firsts, fifo_expire[e]) /\ Here(e) \in SUBSET Bios
        BY <1>1 DEF ListInv, Here
      <4>2. CASE e = d
        <5>1. Holds(ssg[d].sort_list, Here(d))
          BY <4>1, <4>2 DEF QueueOK
        <5>2. Latter(ssg[d].sort_list, r) \in (Here(d) \ {r}) \cup {None}
          BY <2>2, <5>1, LatterFacts
        <5>3. QueueOK(RemoveRequest(ssg[d], r), Here(d) \ {r}, Firsts, fifo_expire[d])
          BY <2>2, <4>1, <4>2, RequestRemoved
        <5> DEFINE Q == Here(d) \ {r}
        <5>4. Q \in SUBSET Bios
          BY <4>1, <4>2
        <5>5. QueueOK(RemoveRequest(ssg[d], r), Q, Firsts, fifo_expire[d])
              /\ Latter(ssg[d].sort_list, r) \in Q \cup {None}
          BY <5>2, <5>3
        <5> HIDE DEF Q
        <5>6. QueueOK([RemoveRequest(ssg[d], r) EXCEPT !.next_rq = Latter(ssg[d].sort_list, r)],
                      Q, Firsts, fifo_expire[d])
          BY <5>4, <5>5, NextSet
        <5>7. QED BY <3>1, <3>2, <3>3, <4>2, <5>6 DEF Q
      <4>3. CASE e # d
        <5>1. QueueOK([ssg[e] EXCEPT !.next_rq = None], Here(e), Firsts, fifo_expire[e])
          BY <4>1, NextSet
        <5>2. QED BY <3>1, <3>2, <3>3, <4>3, <5>1
      <4>4. QED BY <4>2, <4>3
    <3>5. ssg' \in [Data -> Queues]
      BY <3>3, <3>4 DEF QueueOK
    <3>6. \A e \in Data : QueueOK(ssg[e], Here(e), Firsts, fifo_expire[e])'
      BY <3>4 DEF QueueOK
    <3>7. QED BY <3>5, <3>6 DEF ListInv
  <2>8. QED BY <2>3, <2>4, <2>5, <2>6, <2>7
<1>5. QED BY <1>3, <1>4

LEMMA WritesReady ==
  ASSUME SsgInv
  PROVE  WriteReady <=> WriteWaits
<1>1. "write" \in Data
  BY DEF Data
<1>2. Here("write") = {r \in Bios : phase[r] = "sorted" /\ Dir[r] = "write"}
  BY DEF Here
<1>3. WriteReady => WriteWaits
  BY <1>1, <1>2, FifoRequestIs DEF WriteReady, WriteWaits
<1>4. WriteWaits => WriteReady
  BY <1>1, <1>2, FifoRequestIs DEF WriteReady, WriteWaits
<1>5. QED BY <1>3, <1>4

LEMMA DispatchReadKeeps ==
  ASSUME SsgInv, DispatchRead
  PROVE  SsgInv'
<1>1. /\ dispatch = <<>> /\ ~(WriteReady /\ Starved) /\ Take("read")
      /\ UNCHANGED <<dispatch, carrier>> /\ "read" \in Data
      /\ starved_writes' = IF WriteReady THEN starved_writes + 1 ELSE starved_writes
      /\ passed' = IF WriteWaits THEN passed + 1 ELSE 0
  BY DEF DispatchRead, Data
<1>2. RequestsOK' /\ ListInv' /\ DispatchInv' /\ ZoneInv'
  BY <1>1, TakeKeeps
<1>3. StarveInv'
  <2>1. /\ passed \in Nat /\ starved_writes \in Nat /\ max_write_starvation \in Nat
        /\ passed <= starved_writes /\ starved_writes <= max_write_starvation
    BY LimitAssumption DEF SsgInv, StarveInv
  <2>2. WriteReady <=> WriteWaits
    BY WritesReady
  <2>3. WriteReady => ~(starved_writes >= max_write_starvation)
    BY <1>1 DEF Starved
  <2>4. QED BY <1>1, <2>1, <2>2, <2>3 DEF StarveInv
<1>4. QED BY <1>2, <1>3 DEF SsgInv

LEMMA DispatchWriteKeeps ==
  ASSUME SsgInv, DispatchWrite
  PROVE  SsgInv'
<1>1. /\ dispatch = <<>> /\ Take("write") /\ UNCHANGED <<dispatch, carrier>> /\ "write" \in Data
      /\ starved_writes' = 0 /\ passed' = 0
  BY DEF DispatchWrite, Data
<1>2. RequestsOK' /\ ListInv' /\ DispatchInv' /\ ZoneInv'
  BY <1>1, TakeKeeps
<1>3. StarveInv'
  BY <1>1, LimitAssumption DEF StarveInv
<1>4. QED BY <1>2, <1>3 DEF SsgInv

-----------------------------------------------------------------------------
(* The inductive invariant.                                                 *)
LEMMA SsgInit ==
  ASSUME Init
  PROVE  SsgInv
<1>1. /\ ssg = [d \in Data |-> [sort_list |-> <<>>, fifo_list |-> <<>>, next_rq |-> None]]
      /\ starved_writes = 0 /\ passed = 0 /\ dispatch = <<>>
      /\ phase = [r \in Bios |-> "free"] /\ carrier = [b \in Bios |-> None]
      /\ seq_zones_wlock = {} /\ zone_locked = {}
  BY DEF Init
<1>2. RequestsOK
  BY <1>1 DEF RequestsOK, Phases
<1>3. \A d \in Data : Here(d) = {}
  BY <1>1 DEF Here
<1>4. ASSUME NEW R, R = {}
      PROVE  QueueOK([sort_list |-> <<>>, fifo_list |-> <<>>, next_rq |-> None], R, Firsts, 0)
  <2>1. /\ <<>> \in Seq(Bios) /\ <<>> \in Seq(Entries) /\ Len(<<>>) = 0 /\ Range(<<>>) = {}
        /\ {<<>>[i].rq : i \in 1..0} = {}
    BY DEF Range
  <2>2. \A i \in 1..0 : FALSE
    OBVIOUS
  <2>3. Holds(<<>>, R) /\ InOrder(<<>>, Firsts)
    BY <1>4, <2>1, <2>2 DEF Holds, InOrder
  <2>4. FifoHolds(<<>>, R) /\ Expiring(<<>>) /\ \A i \in 1..Len(<<>>) : <<>>[i].left <= 0
    BY <1>4, <2>1, <2>2 DEF FifoHolds, Expiring
  <2>5. QED BY <1>4, <2>3, <2>4, QueueIs
<1>5. ListInv
  <2>1. ASSUME NEW d \in Data PROVE ssg[d] \in Queues /\ QueueOK(ssg[d], Here(d), Firsts, fifo_expire[d])
    <3>1. ssg[d] = [sort_list |-> <<>>, fifo_list |-> <<>>, next_rq |-> None]
      BY <1>1
    <3>2. QueueOK(ssg[d], Here(d), Firsts, 0)
      BY <1>3, <1>4, <3>1
    <3>3. \A i \in 1..Len(ssg[d].fifo_list) : FALSE
      BY <3>1
    <3>4. QED BY <3>2, <3>3 DEF QueueOK
  <2>2. ssg \in [Data -> Queues]
    BY <1>1, <2>1
  <2>3. QED BY <2>1, <2>2 DEF ListInv
<1>6. DispatchInv
  BY <1>1 DEF DispatchInv, Range
<1>7. ZoneInv
  BY <1>1 DEF ZoneInv
<1>8. StarveInv
  BY <1>1, LimitAssumption DEF StarveInv
<1>9. QED BY <1>2, <1>5, <1>6, <1>7, <1>8 DEF SsgInv

LEMMA SsgNext ==
  ASSUME SsgInv, [Next]_vars
  PROVE  SsgInv'
<1>1. ASSUME NEW b \in Bios, Alloc(b) \/ InsertMerge(b) \/ InsertSort(b) \/ InsertHead(b) \/ FinishRequest(b)
      PROVE  SsgInv'
  BY <1>1, AllocKeeps, InsertMergeKeeps, InsertSortKeeps, InsertHeadKeeps, FinishKeeps
<1>2. ASSUME NEW b \in Bios, NEW r \in Bios, BioBackMerge(b, r) \/ BioFrontMerge(b, r)
      PROVE  SsgInv'
  BY <1>2, BackMergeKeeps, FrontMergeKeeps
<1>3. CASE DispatchRequest
  BY <1>3, DispatchHeadKeeps, DispatchReadKeeps, DispatchWriteKeeps DEF DispatchRequest
<1>4. CASE Tick
  BY <1>4, TickKeeps
<1>5. CASE UNCHANGED vars
  <2>1. UNCHANGED <<ssg, starved_writes, dispatch, passed, zones, phase, carrier>>
    BY <1>5 DEF vars, lists
  <2>2. \A x : Carried(x)' = Carried(x) /\ First(x)' = First(x) /\ End(x)' = End(x)
    BY <2>1, CarriedKept
  <2>3. RequestsOK'
    BY <2>1, <2>2 DEF SsgInv, RequestsOK, Piece
  <2>4. ListInv'
    <3>1. \A d \in Data : Here(d)' = Here(d)
      BY <2>1 DEF Here
    <3>2. QED BY <2>1, <2>2, <3>1, ListsKept DEF SsgInv
  <2>5. DispatchInv' /\ ZoneInv' /\ StarveInv'
    BY <2>1, OthersKept DEF SsgInv
  <2>6. QED BY <2>3, <2>4, <2>5 DEF SsgInv
<1>6. QED BY <1>1, <1>2, <1>3, <1>4, <1>5 DEF Next

LEMMA SsgInvariant == Spec => []SsgInv
<1>1. Init => SsgInv
  BY SsgInit
<1>2. SsgInv /\ [Next]_vars => SsgInv'
  BY SsgNext
<1>3. QED BY <1>1, <1>2, PTL DEF Spec

-----------------------------------------------------------------------------
(* What follows from it.                                                    *)
LEMMA Typed ==
  ASSUME SsgInv
  PROVE  TypeOK
<1>1. ASSUME NEW d \in Data
      PROVE  /\ ssg[d].sort_list \in Seq(Bios)
             /\ ssg[d].fifo_list \in Seq([rq : Bios, left : 0..fifo_expire[d]])
             /\ ssg[d].next_rq \in Bios \cup {None}
  <2>1. /\ ssg[d] \in Queues /\ FifoHolds(ssg[d].fifo_list, Here(d))
        /\ \A i \in 1..Len(ssg[d].fifo_list) : ssg[d].fifo_list[i].left <= fifo_expire[d]
    BY <1>1 DEF SsgInv, ListInv, QueueOK
  <2>2. PICK f : f = ssg[d].fifo_list
    OBVIOUS
  <2>3. /\ f \in Seq(Entries) /\ Len(f) \in Nat /\ \A i \in 1..Len(f) : f[i] \in Entries
    BY <2>1, <2>2, FifoFacts
  <2>4. fifo_expire[d] \in Nat
    BY LimitAssumption
  <2>5. \A i \in 1..Len(f) : f[i] \in [rq : Bios, left : 0..fifo_expire[d]]
    <3>1. \A e \in Entries : e.left <= fifo_expire[d] => e \in [rq : Bios, left : 0..fifo_expire[d]]
      BY <2>4 DEF Entries
    <3>2. QED BY <2>1, <2>2, <2>3, <3>1
  <2>6. f \in Seq([rq : Bios, left : 0..fifo_expire[d]])
    <3> DEFINE G == [rq : Bios, left : 0..fifo_expire[d]]
    <3>1. \A i \in 1..Len(f) : f[i] \in G
      BY <2>5
    <3> HIDE DEF G
    <3>2. f \in Seq(G)
      BY <2>3, <3>1
    <3>3. QED BY <3>2 DEF G
  <2>7. ssg[d].sort_list \in Seq(Bios) /\ ssg[d].next_rq \in Bios \cup {None}
    BY <2>1 DEF Queues
  <2>8. QED BY <2>2, <2>6, <2>7
<1>2. starved_writes \in 0..max_write_starvation /\ passed \in Nat
  BY LimitAssumption DEF SsgInv, StarveInv
<1>3. dispatch \in Seq(Bios) /\ phase \in [Bios -> Phases] /\ carrier \in [Bios -> Bios \cup {None}]
  BY DEF SsgInv, DispatchInv, RequestsOK
<1>4. zone_locked \subseteq Bios /\ seq_zones_wlock \subseteq {Zone[b] : b \in zone_locked}
  BY DEF SsgInv, ZoneInv
<1>5. QED BY <1>1, <1>2, <1>3, <1>4 DEF TypeOK

LEMMA Agreed ==
  ASSUME SsgInv
  PROVE  ListsAgree
<1>1. ASSUME NEW d \in Data
      PROVE  /\ Range(ssg[d].sort_list) = Here(d) /\ OnFifo(d) = Here(d)
             /\ Len(ssg[d].sort_list) = Cardinality(Here(d))
             /\ Len(ssg[d].fifo_list) = Len(ssg[d].sort_list)
             /\ \A i \in 2..Len(ssg[d].sort_list) :
                  First(ssg[d].sort_list[i - 1]) <= First(ssg[d].sort_list[i])
             /\ ssg[d].next_rq \in Here(d) \cup {None}
  <2>1. /\ Holds(ssg[d].sort_list, Here(d)) /\ InOrder(ssg[d].sort_list, Firsts)
        /\ FifoHolds(ssg[d].fifo_list, Here(d)) /\ ssg[d].next_rq \in Here(d) \cup {None}
    BY <1>1 DEF SsgInv, ListInv, QueueOK
  <2>2. PICK s, f : s = ssg[d].sort_list /\ f = ssg[d].fifo_list
    OBVIOUS
  <2>3. /\ s \in Seq(Bios) /\ Len(s) \in Nat /\ Range(s) = Here(d)
        /\ \A i \in 1..Len(s) : s[i] \in Here(d)
        /\ \A x \in Here(d) : \E i \in 1..Len(s) : s[i] = x
        /\ \A i, j \in 1..Len(s) : s[i] = s[j] => i = j
    <3>1. /\ s \in Seq(Bios) /\ Range(s) = Here(d)
          /\ \A i, j \in 1..Len(s) : s[i] = s[j] => i = j
      BY <2>1, <2>2 DEF Holds
    <3>2. QED BY <3>1, SeqFacts
  <2>4. Len(s) = Cardinality(Here(d))
    BY <2>3, Counting
  <2>5. /\ Len(f) \in Nat /\ \A i \in 1..Len(f) : f[i].rq \in Here(d)
        /\ \A y \in Here(d) : \E i \in 1..Len(f) : f[i].rq = y
        /\ \A i, j \in 1..Len(f) : f[i].rq = f[j].rq => i = j
    BY <2>1, <2>2, FifoFacts
  <2>6. Len(f) = Cardinality(Here(d))
    <3> DEFINE g == [i \in 1..Len(f) |-> f[i].rq]
    <3>1. \A i \in 1..Len(f) : g[i] = f[i].rq
      OBVIOUS
    <3> HIDE DEF g
    <3>2. /\ \A i \in 1..Len(f) : g[i] \in Here(d)
          /\ \A i, j \in 1..Len(f) : g[i] = g[j] => i = j
          /\ \A y \in Here(d) : \E i \in 1..Len(f) : g[i] = y
      BY <2>5, <3>1
    <3>3. QED BY <2>5, <3>2, Counting
  <2>7. OnFifo(d) = Here(d)
    BY <2>1 DEF OnFifo, FifoHolds
  <2>8. \A i \in 2..Len(s) : First(s[i - 1]) <= First(s[i])
    <3>1. ASSUME NEW i \in 2..Len(s) PROVE First(s[i - 1]) <= First(s[i])
      <4>1. i \in 1..Len(s) /\ i - 1 \in 1..Len(s) /\ i - 1 < i
        BY <2>3
      <4>2. Firsts[s[i - 1]] <= Firsts[s[i]]
        BY <2>1, <2>2, <4>1 DEF InOrder
      <4>3. s[i - 1] \in Bios /\ s[i] \in Bios
        BY <2>3, <4>1 DEF Here
      <4>4. QED BY <4>2, <4>3, FirstsOf
    <3>2. QED BY <3>1
  <2>9. QED BY <2>1, <2>2, <2>3, <2>4, <2>6, <2>7, <2>8
<1>2. IsInjective(dispatch) /\ Range(dispatch) = {r \in Bios : phase[r] = "dispatch"}
  <2>1. /\ dispatch \in Seq(Bios) /\ Range(dispatch) = {r \in Bios : phase[r] = "dispatch"}
        /\ \A i, j \in 1..Len(dispatch) : dispatch[i] = dispatch[j] => i = j
    BY DEF SsgInv, DispatchInv
  <2>2. DOMAIN dispatch = 1..Len(dispatch)
    BY <2>1, SeqFacts
  <2>3. QED BY <2>1, <2>2 DEF IsInjective
<1>3. QED BY <1>1, <1>2 DEF ListsAgree, Here

LEMMA InTimeOrder ==
  ASSUME SsgInv
  PROVE  FifoInOrder
<1>1. ASSUME NEW d \in Data, NEW i \in 2..Len(ssg[d].fifo_list)
      PROVE  ssg[d].fifo_list[i - 1].left <= ssg[d].fifo_list[i].left
  <2>1. Expiring(ssg[d].fifo_list) /\ FifoHolds(ssg[d].fifo_list, Here(d))
    BY DEF SsgInv, ListInv, QueueOK
  <2>2. Len(ssg[d].fifo_list) \in Nat
    BY <2>1, FifoFacts
  <2>3. i \in 1..Len(ssg[d].fifo_list) /\ i - 1 \in 1..Len(ssg[d].fifo_list) /\ i - 1 < i
    BY <2>2
  <2>4. QED BY <2>1, <2>3 DEF Expiring
<1>2. QED BY <1>1 DEF FifoInOrder

LEMMA OneWritePerZone ==
  ASSUME SsgInv
  PROVE  ZonesExclusive
<1>1. /\ zone_locked = {r \in Bios : phase[r] = "issued" /\ NeedsZone(r)}
      /\ seq_zones_wlock = {Zone[r] : r \in zone_locked}
      /\ \A q, r \in Bios : phase[q] \in {"issued", "dispatch"} /\ phase[r] \in {"issued", "dispatch"}
                             /\ NeedsZone(q) /\ Zone[q] = Zone[r] => q = r
  BY DEF SsgInv, ZoneInv
<1>2. QED BY <1>1 DEF ZonesExclusive

-----------------------------------------------------------------------------
(* The refinement.                                                          *)
Waiting == {b \in Bios : carrier[b] # None /\ phase[carrier[b]] # "issued"}

Inflight == {Carried(r) : r \in {q \in Bios : phase[q] = "issued"}}

LEMMA InflightKept ==
  ASSUME \A r \in Bios : phase'[r] = "issued" <=> phase[r] = "issued",
         \A r \in Bios : phase[r] = "issued" => Carried(r)' = Carried(r)
  PROVE  Inflight' = Inflight
<1>1. Inflight' = {Carried(r)' : r \in {q \in Bios : phase'[q] = "issued"}}
  BY DEF Inflight
<1>2. Inflight = {Carried(r) : r \in {q \in Bios : phase[q] = "issued"}}
  BY DEF Inflight
<1>3. QED BY <1>1, <1>2

LEMMA NotInflight ==
  ASSUME RequestsOK, NEW b \in Bios, b \in UNION Inflight
  PROVE  carrier[b] # None /\ phase[carrier[b]] = "issued"
<1>1. PICK r \in Bios : phase[r] = "issued" /\ b \in Carried(r)
  BY DEF Inflight
<1>2. carrier[b] = r
  BY <1>1 DEF Carried
<1>3. QED BY <1>1, <1>2, BioAssumption

(* A merge adds to what waits the bios that it takes.                       *)
LEMMA MergeSubmits ==
  ASSUME SsgInv, NEW r \in Bios, phase[r] \in {"sorted", "new"},
         NEW X \in SUBSET Bios, \A x \in X : phase[x] \in {"sorted", "new"}, r \notin X,
         NEW Y \in SUBSET Bios, \A b \in Y : carrier[b] = None,
         \A c \in Bios : carrier'[c] = IF carrier[c] \in X \/ c \in Y THEN r ELSE carrier[c],
         \A q \in Bios : phase'[q] = IF q \in X THEN "free" ELSE phase[q]
  PROVE  Waiting' = Waiting \cup Y /\ Inflight' = Inflight
<1>1. /\ carrier \in [Bios -> Bios \cup {None}] /\ phase \in [Bios -> Phases] /\ None \notin Bios
  BY BioAssumption DEF SsgInv, RequestsOK
<1>2. phase'[r] = phase[r] /\ phase[r] # "issued" /\ r # None
  BY <1>1
<1>3. Waiting' = Waiting \cup Y
  <2>1. ASSUME NEW c \in Bios
        PROVE  (carrier'[c] # None /\ phase'[carrier'[c]] # "issued")
                 <=> (carrier[c] # None /\ phase[carrier[c]] # "issued") \/ c \in Y
    <3>1. CASE c \in Y
      BY <1>2, <3>1
    <3>2. CASE c \notin Y /\ carrier[c] \in X
      BY <1>1, <1>2, <3>2
    <3>3. CASE c \notin Y /\ carrier[c] \notin X
      BY <1>1, <1>2, <3>3
    <3>4. QED BY <3>1, <3>2, <3>3
  <2>2. Waiting' = {c \in Bios : carrier'[c] # None /\ phase'[carrier'[c]] # "issued"}
    BY DEF Waiting
  <2>3. QED BY <2>1, <2>2 DEF Waiting
<1>4. \A q \in Bios : phase'[q] = "issued" <=> phase[q] = "issued"
  OBVIOUS
<1>5. ASSUME NEW q \in Bios, phase[q] = "issued" PROVE Carried(q)' = Carried(q)
  <2>1. q # r /\ q \notin X
    BY <1>2, <1>5
  <2>2. \A c \in Bios : carrier'[c] = q <=> carrier[c] = q
    BY <1>1, <1>5, <2>1, BioAssumption
  <2>3. QED BY <2>2 DEF Carried
<1>6. QED BY <1>3, <1>4, <1>5, InflightKept

(* Nothing but where requests are changes, and none is with the device or   *)
(* comes back from it.                                                      *)
LEMMA NothingMoved ==
  ASSUME SsgInv, carrier' = carrier, \A q \in Bios : phase'[q] = "issued" <=> phase[q] = "issued"
  PROVE  Waiting' = Waiting /\ Inflight' = Inflight
<1>1. carrier \in [Bios -> Bios \cup {None}]
  BY DEF SsgInv, RequestsOK
<1>2. Waiting' = Waiting
  BY <1>1 DEF Waiting
<1>3. QED BY <1>2, CarriedKept, InflightKept

(* What one request carries it shares with no other.                        *)
LEMMA Apart ==
  ASSUME RequestsOK, NEW q \in Bios, NEW r \in Bios, phase[q] # "free", Carried(q) = Carried(r)
  PROVE  q = r
<1>1. q \in Carried(q) /\ q \in Carried(r)
  BY RequestFacts
<1>2. QED BY <1>1 DEF Carried

(* The device takes a request.                                              *)
LEMMA Issued ==
  ASSUME SsgInv, NEW r \in Bios, phase[r] \in {"sorted", "dispatch"}, carrier' = carrier,
         phase' = [phase EXCEPT ![r] = "issued"]
  PROVE  /\ Carried(r) # {} /\ Carried(r) \subseteq Waiting
         /\ Waiting' = Waiting \ Carried(r) /\ Inflight' = Inflight \cup {Carried(r)}
<1>1. /\ RequestsOK /\ carrier \in [Bios -> Bios \cup {None}] /\ phase \in [Bios -> Phases]
      /\ None \notin Bios
  BY BioAssumption DEF SsgInv, RequestsOK
<1>2. phase[r] # "free" /\ phase[r] # "issued" /\ \A q \in Bios : phase'[q] = IF q = r THEN "issued" ELSE phase[q]
  BY <1>1
<1>3. Carried(r) # {}
  BY <1>1, <1>2, RequestFacts
<1>4. \A c \in Bios : c \in Carried(r) <=> carrier[c] = r
  BY DEF Carried
<1>5. Carried(r) \subseteq Bios
  BY DEF Carried
<1>6. Carried(r) \subseteq Waiting
  BY <1>1, <1>2, <1>4, <1>5 DEF Waiting
<1>7. Waiting' = Waiting \ Carried(r)
  <2>1. Waiting' = {c \in Bios : carrier[c] # None /\ phase'[carrier[c]] # "issued"}
    BY DEF Waiting
  <2>2. \A c \in Bios : (carrier[c] # None /\ phase'[carrier[c]] # "issued")
                          <=> (carrier[c] # None /\ phase[carrier[c]] # "issued") /\ carrier[c] # r
    BY <1>1, <1>2
  <2>3. QED BY <1>4, <2>1, <2>2 DEF Waiting
<1>8. Inflight' = Inflight \cup {Carried(r)}
  <2>1. Inflight' = {Carried(q) : q \in {x \in Bios : phase'[x] = "issued"}}
    BY CarriedKept DEF Inflight
  <2>2. {x \in Bios : phase'[x] = "issued"} = {x \in Bios : phase[x] = "issued"} \cup {r}
    BY <1>2
  <2>3. QED BY <2>1, <2>2 DEF Inflight
<1>9. QED BY <1>3, <1>6, <1>7, <1>8

LEMMA InOnePiece ==
  ASSUME RequestsOK, NEW r \in Bios, phase[r] # "free"
  PROVE  Queue!Contiguous(Carried(r))
<1>1. Piece(Carried(r), Dir[r], First(r), End(r))
  BY RequestFacts
<1>2. /\ First(r) \in Nat /\ End(r) \in Nat
      /\ \A x \in Carried(r) : x \in Bios /\ Dir[x] = Dir[r] /\ First(r) <= Pos[x] /\ Pos[x] < End(r)
      /\ \A x, y \in Carried(r) : Pos[x] = Pos[y] => x = y
      /\ \A p \in First(r)..(End(r) - 1) : \E x \in Carried(r) : Pos[x] = p
  BY <1>1 DEF Piece
<1>3. \A x \in Bios : Pos[x] \in Nat
  BY BioAssumption
<1>4. ASSUME NEW x \in Carried(r), NEW y \in Carried(r), NEW n \in Pos[x]..Pos[y]
      PROVE  \E c \in Carried(r) : Pos[c] = n
  <2>1. n \in First(r)..(End(r) - 1)
    BY <1>2, <1>3
  <2>2. QED BY <1>2, <2>1
<1>5. QED BY <1>2, <1>4 DEF Queue!Contiguous

(* Each step in terms of what waits and what the device has.                *)
LEMMA Stutters ==
  ASSUME Waiting' = Waiting, Inflight' = Inflight
  PROVE  [Queue!QNext]_(Queue!qvars)
BY DEF Waiting, Inflight, Queue!qvars

LEMMA Submits ==
  ASSUME SsgInv, NEW b \in Bios, carrier[b] = None, Waiting' = Waiting \cup {b}, Inflight' = Inflight
  PROVE  Queue!QNext
<1>1. b \notin Waiting \cup UNION Inflight
  BY NotInflight DEF SsgInv, Waiting
<1>2. Queue!Submit(b)
  BY <1>1 DEF Queue!Submit, Waiting, Inflight
<1>3. QED BY <1>2 DEF Queue!QNext

LEMMA Issues ==
  ASSUME SsgInv, NEW r \in Bios, phase[r] \in {"sorted", "dispatch"}, carrier' = carrier,
         phase' = [phase EXCEPT ![r] = "issued"]
  PROVE  Queue!QNext
<1>1. /\ Carried(r) # {} /\ Carried(r) \subseteq Waiting
      /\ Waiting' = Waiting \ Carried(r) /\ Inflight' = Inflight \cup {Carried(r)}
  BY Issued
<1>2. Queue!Contiguous(Carried(r))
  BY InOnePiece DEF SsgInv
<1>3. PICK S \in SUBSET Waiting : S = Carried(r)
  BY <1>1
<1>4. Queue!Issue(S)
  BY <1>1, <1>2, <1>3 DEF Queue!Issue, Waiting, Inflight
<1>5. QED BY <1>3, <1>4 DEF Queue!QNext, Waiting

LEMMA AllocStep ==
  ASSUME SsgInv, NEW b \in Bios, Alloc(b)
  PROVE  Queue!QNext
<1>1. /\ carrier[b] = None /\ carrier' = [carrier EXCEPT ![b] = b]
      /\ phase' = [phase EXCEPT ![b] = "new"]
  BY DEF Alloc
<1>2. /\ carrier \in [Bios -> Bios \cup {None}] /\ phase \in [Bios -> Phases] /\ None \notin Bios
      /\ \A q \in Bios : phase[q] # "free" => carrier[q] = q
      /\ \A c \in Bios : carrier[c] # None => phase[carrier[c]] # "free"
  BY BioAssumption DEF SsgInv, RequestsOK
<1>3. phase[b] = "free" /\ \A c \in Bios : carrier[c] # b
  BY <1>1, <1>2
<1>4. Waiting' = Waiting \cup {b}
  <2>1. \A c \in Bios : carrier'[c] # None /\ phase'[carrier'[c]] # "issued"
                          <=> (carrier[c] # None /\ phase[carrier[c]] # "issued") \/ c = b
    BY <1>1, <1>2, <1>3
  <2>2. Waiting' = {c \in Bios : carrier'[c] # None /\ phase'[carrier'[c]] # "issued"}
    BY DEF Waiting
  <2>3. QED BY <2>1, <2>2 DEF Waiting
<1>5. \A q \in Bios : phase'[q] = "issued" <=> phase[q] = "issued"
  BY <1>1, <1>2, <1>3
<1>6. ASSUME NEW q \in Bios, phase[q] = "issued" PROVE Carried(q)' = Carried(q)
  <2>1. q # b
    BY <1>3, <1>6
  <2>2. \A c \in Bios : carrier'[c] = q <=> carrier[c] = q
    BY <1>1, <1>2, <2>1
  <2>3. QED BY <2>2 DEF Carried
<1>7. Inflight' = Inflight
  BY <1>5, <1>6, InflightKept
<1>8. QED BY <1>1, <1>4, <1>7, Submits

LEMMA BackMergeStep ==
  ASSUME SsgInv, NEW b \in Bios, NEW r \in Bios, BioBackMerge(b, r)
  PROVE  Queue!QNext
<1> DEFINE n == Latter(ssg[Dir[b]].sort_list, r)
<1>1. carrier[b] = None /\ phase[r] = "sorted" /\ Dir[r] = Dir[b]
  BY DEF BioBackMerge, Mergeable
<1>2. carrier \in [Bios -> Bios \cup {None}] /\ phase \in [Bios -> Phases]
  BY DEF SsgInv, RequestsOK
<1>3. \E X \in SUBSET Bios :
        /\ r \notin X /\ \A x \in X : phase[x] \in {"sorted", "new"}
        /\ \A c \in Bios : carrier'[c] = IF carrier[c] \in X \/ c \in {b} THEN r ELSE carrier[c]
        /\ \A q \in Bios : phase'[q] = IF q \in X THEN "free" ELSE phase[q]
  <2>1. CASE carrier' = [carrier EXCEPT ![b] = r] /\ UNCHANGED phase
    <3>1. WITNESS {} \in SUBSET Bios
    <3>2. QED BY <1>2, <2>1
  <2>2. CASE /\ n # None
             /\ carrier' = [c \in Bios |-> IF carrier[c] = n \/ c = b THEN r ELSE carrier[c]]
             /\ phase' = [phase EXCEPT ![n] = "free"]
    <3>1. n \in Here(Dir[b]) /\ n # r
      BY <1>1, <2>2, OnTheLists
    <3>2. n \in Bios /\ phase[n] = "sorted"
      BY <3>1 DEF Here
    <3> HIDE DEF n
    <3>3. {n} \in SUBSET Bios /\ r \notin {n} /\ \A x \in {n} : phase[x] \in {"sorted", "new"}
      BY <3>1, <3>2
    <3>4. /\ \A c \in Bios : carrier'[c] = IF carrier[c] \in {n} \/ c \in {b} THEN r ELSE carrier[c]
          /\ \A q \in Bios : phase'[q] = IF q \in {n} THEN "free" ELSE phase[q]
      BY <1>2, <2>2, <3>2
    <3>5. QED BY <3>3, <3>4
  <2>3. QED BY <2>1, <2>2 DEF BioBackMerge
<1>4. Waiting' = Waiting \cup {b} /\ Inflight' = Inflight
  <2>1. PICK X \in SUBSET Bios :
          /\ r \notin X /\ \A x \in X : phase[x] \in {"sorted", "new"}
          /\ \A c \in Bios : carrier'[c] = IF carrier[c] \in X \/ c \in {b} THEN r ELSE carrier[c]
          /\ \A q \in Bios : phase'[q] = IF q \in X THEN "free" ELSE phase[q]
    BY <1>3
  <2>2. PICK Y \in SUBSET Bios : Y = {b}
    OBVIOUS
  <2>3. QED BY <1>1, <2>1, <2>2, MergeSubmits
<1>5. QED BY <1>1, <1>4, Submits

LEMMA FrontMergeStep ==
  ASSUME SsgInv, NEW b \in Bios, NEW r \in Bios, BioFrontMerge(b, r)
  PROVE  Queue!QNext
<1> DEFINE f == Former(ssg[Dir[b]].sort_list, r)
<1>1. carrier[b] = None /\ phase[r] = "sorted" /\ Dir[r] = Dir[b]
  BY DEF BioFrontMerge, Mergeable
<1>2. carrier \in [Bios -> Bios \cup {None}] /\ phase \in [Bios -> Phases]
  BY DEF SsgInv, RequestsOK
<1>3. \E g \in Bios, X \in SUBSET Bios :
        /\ phase[g] = "sorted" /\ g \notin X /\ \A x \in X : phase[x] \in {"sorted", "new"}
        /\ \A c \in Bios : carrier'[c] = IF carrier[c] \in X \/ c \in {b} THEN g ELSE carrier[c]
        /\ \A q \in Bios : phase'[q] = IF q \in X THEN "free" ELSE phase[q]
  <2>1. CASE carrier' = [carrier EXCEPT ![b] = r] /\ UNCHANGED phase
    <3>1. WITNESS r \in Bios, {} \in SUBSET Bios
    <3>2. QED BY <1>1, <1>2, <2>1
  <2>2. CASE /\ f # None
             /\ carrier' = [c \in Bios |-> IF carrier[c] = r \/ c = b THEN f ELSE carrier[c]]
             /\ phase' = [phase EXCEPT ![r] = "free"]
    <3>1. f \in Here(Dir[b]) /\ f # r
      BY <1>1, <2>2, OnTheLists
    <3>2. f \in Bios /\ phase[f] = "sorted"
      BY <3>1 DEF Here
    <3> HIDE DEF f
    <3>3. {r} \in SUBSET Bios /\ f \notin {r} /\ \A x \in {r} : phase[x] \in {"sorted", "new"}
      BY <1>1, <3>1
    <3>4. /\ \A c \in Bios : carrier'[c] = IF carrier[c] \in {r} \/ c \in {b} THEN f ELSE carrier[c]
          /\ \A q \in Bios : phase'[q] = IF q \in {r} THEN "free" ELSE phase[q]
      BY <1>2, <2>2
    <3>5. QED BY <3>2, <3>3, <3>4
  <2>3. QED BY <2>1, <2>2 DEF BioFrontMerge
<1>4. Waiting' = Waiting \cup {b} /\ Inflight' = Inflight
  <2>1. PICK g \in Bios, X \in SUBSET Bios :
          /\ phase[g] = "sorted" /\ g \notin X /\ \A x \in X : phase[x] \in {"sorted", "new"}
          /\ \A c \in Bios : carrier'[c] = IF carrier[c] \in X \/ c \in {b} THEN g ELSE carrier[c]
          /\ \A q \in Bios : phase'[q] = IF q \in X THEN "free" ELSE phase[q]
    BY <1>3
  <2>2. PICK Y \in SUBSET Bios : Y = {b}
    OBVIOUS
  <2>3. QED BY <1>1, <2>1, <2>2, MergeSubmits
<1>5. QED BY <1>1, <1>4, Submits

LEMMA InsertMergeStep ==
  ASSUME SsgInv, NEW r \in Bios, InsertMerge(r)
  PROVE  [Queue!QNext]_(Queue!qvars)
<1>1. phase[r] = "new"
  BY DEF InsertMerge
<1>2. PICK c \in Chains(Dir[r], r) : Absorb(Last(c), {r} \cup Range(Front(c)))
  BY DEF InsertMerge
<1>3. PICK N \in Nat \ {0} :
        /\ Len(c) = N /\ c \in [1..N -> Here(Dir[r])]
        /\ Last(c) = c[N] /\ Range(Front(c)) = {c[i] : i \in 1..(N - 1)}
        /\ \A i, j \in 1..N : c[i] = c[j] => i = j
        /\ Piece(Carried(r) \cup UNION {Carried(c[i]) : i \in 1..N}, Dir[r], First(c[N]), End(r))
  BY <1>1, ChainFacts
<1>4. \A x \in Here(Dir[r]) : x \in Bios /\ phase[x] = "sorted"
  BY DEF Here
<1>5. PICK g, X : g = c[N] /\ X = {r} \cup {c[i] : i \in 1..(N - 1)}
  OBVIOUS
<1>6. /\ g \in Bios /\ phase[g] \in {"sorted", "new"} /\ X \in SUBSET Bios /\ g \notin X
      /\ \A x \in X : phase[x] \in {"sorted", "new"}
  <2>1. \A i \in 1..N : c[i] \in Bios /\ phase[c[i]] = "sorted"
    BY <1>3, <1>4
  <2>2. N \in 1..N /\ \A i \in 1..(N - 1) : i \in 1..N /\ i # N
    OBVIOUS
  <2>3. QED BY <1>1, <1>3, <1>5, <2>1, <2>2
<1>7. /\ \A b \in Bios : carrier'[b] = IF carrier[b] \in X THEN g ELSE carrier[b]
      /\ \A q \in Bios : phase'[q] = IF q \in X THEN "free" ELSE phase[q]
  BY <1>2, <1>3, <1>5 DEF Absorb
<1>8. PICK Y \in SUBSET Bios : Y = {}
  OBVIOUS
<1>9. \A b \in Bios : carrier'[b] = IF carrier[b] \in X \/ b \in Y THEN g ELSE carrier[b]
  BY <1>7, <1>8
<1>10. Waiting' = Waiting \cup Y /\ Inflight' = Inflight
  <2>1. \A b \in Y : carrier[b] = None
    BY <1>8
  <2>2. QED BY <1>6, <1>7, <1>9, <2>1, MergeSubmits
<1>11. QED BY <1>8, <1>10, Stutters

LEMMA InsertSortStep ==
  ASSUME SsgInv, NEW r \in Bios, InsertSort(r)
  PROVE  [Queue!QNext]_(Queue!qvars)
<1>1. /\ phase[r] = "new" /\ carrier' = carrier
      /\ phase' = [phase EXCEPT ![r] = "dispatch"] \/ phase' = [phase EXCEPT ![r] = "sorted"]
  BY DEF InsertSort
<1>2. phase \in [Bios -> Phases]
  BY DEF SsgInv, RequestsOK
<1>3. \A q \in Bios : phase'[q] = "issued" <=> phase[q] = "issued"
  BY <1>1, <1>2
<1>4. QED BY <1>1, <1>3, NothingMoved, Stutters

(* What the device gives back, done or not.                                 *)
LEMMA GivenBack ==
  ASSUME SsgInv, NEW r \in Bios, phase[r] = "issued",
         \A q \in Bios : phase'[q] = "issued" <=> phase[q] = "issued" /\ q # r,
         \A q \in Bios : q # r => Carried(q)' = Carried(q)
  PROVE  Carried(r) \in Inflight /\ Inflight' = Inflight \ {Carried(r)}
<1>1. RequestsOK
  BY DEF SsgInv
<1>2. \A q \in Bios : phase[q] = "issued" /\ q # r => Carried(q) # Carried(r)
  BY <1>1, Apart
<1>3. Inflight' = {Carried(q)' : q \in {x \in Bios : phase'[x] = "issued"}}
  BY DEF Inflight
<1>4. \A S : S \in Inflight' <=> \E q \in Bios : phase[q] = "issued" /\ q # r /\ S = Carried(q)
  BY <1>3
<1>5. \A S : S \in Inflight <=> \E q \in Bios : phase[q] = "issued" /\ S = Carried(q)
  BY DEF Inflight
<1>6. \A S : S \in Inflight' <=> S \in Inflight /\ S # Carried(r)
  BY <1>2, <1>4, <1>5
<1>7. QED BY <1>5, <1>6

LEMMA InsertHeadStep ==
  ASSUME SsgInv, NEW r \in Bios, InsertHead(r)
  PROVE  Queue!QNext
<1>1. phase[r] = "issued" /\ phase' = [phase EXCEPT ![r] = "dispatch"] /\ carrier' = carrier
  BY DEF InsertHead
<1>2. carrier \in [Bios -> Bios \cup {None}] /\ phase \in [Bios -> Phases] /\ None \notin Bios
  BY BioAssumption DEF SsgInv, RequestsOK
<1>3. Carried(r) \in Inflight /\ Inflight' = Inflight \ {Carried(r)}
  <2>1. \A q \in Bios : phase'[q] = "issued" <=> phase[q] = "issued" /\ q # r
    BY <1>1, <1>2
  <2>2. QED BY <1>1, <2>1, CarriedKept, GivenBack
<1>4. Waiting' = Waiting \cup Carried(r)
  <2>1. Waiting' = {c \in Bios : carrier[c] # None /\ phase'[carrier[c]] # "issued"}
    BY <1>1 DEF Waiting
  <2>2. \A c \in Bios : carrier[c] # None /\ phase'[carrier[c]] # "issued"
                          <=> (carrier[c] # None /\ phase[carrier[c]] # "issued") \/ carrier[c] = r
    BY <1>1, <1>2
  <2>3. QED BY <2>1, <2>2 DEF Waiting, Carried
<1>5. PICK S \in Inflight : S = Carried(r)
  BY <1>3
<1>6. Queue!Requeue(S)
  BY <1>3, <1>4, <1>5 DEF Queue!Requeue, Waiting, Inflight
<1>7. QED BY <1>5, <1>6 DEF Queue!QNext, Inflight

LEMMA FinishStep ==
  ASSUME SsgInv, NEW r \in Bios, FinishRequest(r)
  PROVE  Queue!QNext
<1>1. /\ phase[r] = "issued" /\ phase' = [phase EXCEPT ![r] = "free"]
      /\ carrier' = [b \in Bios |-> IF carrier[b] = r THEN None ELSE carrier[b]]
  BY DEF FinishRequest
<1>2. carrier \in [Bios -> Bios \cup {None}] /\ phase \in [Bios -> Phases] /\ None \notin Bios
  BY BioAssumption DEF SsgInv, RequestsOK
<1>3. Carried(r) \in Inflight /\ Inflight' = Inflight \ {Carried(r)}
  <2>1. \A q \in Bios : phase'[q] = "issued" <=> phase[q] = "issued" /\ q # r
    BY <1>1, <1>2
  <2>2. ASSUME NEW q \in Bios, q # r PROVE Carried(q)' = Carried(q)
    <3>1. \A c \in Bios : carrier'[c] = q <=> carrier[c] = q
      BY <1>1, <1>2, <2>2
    <3>2. QED BY <3>1 DEF Carried
  <2>3. QED BY <1>1, <2>1, <2>2, GivenBack
<1>4. Waiting' = Waiting
  <2>1. Waiting' = {c \in Bios : carrier'[c] # None /\ phase'[carrier'[c]] # "issued"}
    BY DEF Waiting
  <2>2. \A c \in Bios : carrier'[c] # None /\ phase'[carrier'[c]] # "issued"
                          <=> carrier[c] # None /\ phase[carrier[c]] # "issued"
    BY <1>1, <1>2
  <2>3. QED BY <2>1, <2>2 DEF Waiting
<1>5. PICK S \in Inflight : S = Carried(r)
  BY <1>3
<1>6. Queue!Complete(S)
  BY <1>3, <1>4, <1>5 DEF Queue!Complete, Waiting, Inflight
<1>7. QED BY <1>5, <1>6 DEF Queue!QNext, Inflight

LEMMA DispatchStep ==
  ASSUME SsgInv, DispatchRequest
  PROVE  [Queue!QNext]_(Queue!qvars)
<1>1. CASE DispatchHead
  <2>1. dispatch # <<>> /\ phase' = [phase EXCEPT ![Head(dispatch)] = "issued"] /\ carrier' = carrier
    BY <1>1 DEF DispatchHead
  <2>2. dispatch \in Seq(Bios) /\ Range(dispatch) = {r \in Bios : phase[r] = "dispatch"}
    BY DEF SsgInv, DispatchInv
  <2>3. Len(dispatch) \in Nat /\ Len(dispatch) >= 1 /\ Head(dispatch) = dispatch[1]
    BY <2>1, <2>2, HeadTailProperties
  <2>4. Head(dispatch) \in Range(dispatch)
    <3>1. 1 \in 1..Len(dispatch)
      BY <2>3
    <3>2. QED BY <2>2, <2>3, <3>1, SeqFacts
  <2>5. PICK r \in Bios : r = Head(dispatch) /\ phase[r] = "dispatch"
    BY <2>2, <2>4
  <2>6. QED BY <2>1, <2>5, Issues
<1>2. ASSUME NEW d \in Data, dispatch = <<>>, Take(d), UNCHANGED <<dispatch, carrier>>
      PROVE  [Queue!QNext]_(Queue!qvars)
  <2>1. \/ UNCHANGED <<ssg, phase, zones>>
        \/ \E r \in Bios : phase[r] = "sorted" /\ phase' = [phase EXCEPT ![r] = "issued"]
    BY <1>2, TakeKeeps
  <2>2. CASE UNCHANGED <<ssg, phase, zones>>
    BY <1>2, <2>2, NothingMoved, Stutters
  <2>3. CASE \E r \in Bios : phase[r] = "sorted" /\ phase' = [phase EXCEPT ![r] = "issued"]
    BY <1>2, <2>3, Issues
  <2>4. QED BY <2>1, <2>2, <2>3
<1>3. "read" \in Data /\ "write" \in Data
  BY DEF Data
<1>4. QED BY <1>1, <1>2, <1>3 DEF DispatchRequest, DispatchRead, DispatchWrite

LEMMA QueueStep ==
  ASSUME SsgInv, [Next]_vars
  PROVE  [Queue!QNext]_(Queue!qvars)
<1>1. ASSUME NEW b \in Bios, Alloc(b) \/ InsertMerge(b) \/ InsertSort(b) \/ InsertHead(b) \/ FinishRequest(b)
      PROVE  [Queue!QNext]_(Queue!qvars)
  BY <1>1, AllocStep, InsertMergeStep, InsertSortStep, InsertHeadStep, FinishStep
<1>2. ASSUME NEW b \in Bios, NEW r \in Bios, BioBackMerge(b, r) \/ BioFrontMerge(b, r)
      PROVE  [Queue!QNext]_(Queue!qvars)
  BY <1>2, BackMergeStep, FrontMergeStep
<1>3. CASE DispatchRequest
  BY <1>3, DispatchStep
<1>4. CASE Tick
  <2>1. phase' = phase /\ carrier' = carrier
    BY <1>4 DEF Tick
  <2>2. QED BY <2>1, NothingMoved, Stutters
<1>5. CASE UNCHANGED vars
  <2>1. phase' = phase /\ carrier' = carrier
    BY <1>5 DEF vars
  <2>2. QED BY <2>1, NothingMoved, Stutters
<1>6. QED BY <1>1, <1>2, <1>3, <1>4, <1>5 DEF Next

-----------------------------------------------------------------------------
(* The two lists of a direction and the dispatch list hold what is on them, *)
(* each request once; of an insertion that merges, ssg_merged_requests()    *)
(* leaves no pointer to what is gone.  Everything has its type.             *)
THEOREM Correct == Spec => []TypeOK
<1>1. SsgInv => TypeOK
  BY Typed
<1>2. QED BY <1>1, SsgInvariant, PTL

(* "requests are present on both sort_list and fifo_list": of any number of *)
(* bios, merged, sorted again, dispatched and sent back in any order.       *)
THEOREM OnBothLists == Spec => []ListsAgree
<1>1. SsgInv => ListsAgree
  BY Agreed
<1>2. QED BY <1>1, SsgInvariant, PTL

(* ssg_check_fifo() looks at the first request only, and that is enough:    *)
(* no other has less time left.                                             *)
THEOREM ExpireInOrder == Spec => []FifoInOrder
<1>1. SsgInv => FifoInOrder
  BY InTimeOrder
<1>2. QED BY <1>1, SsgInvariant, PTL

(* blk_req_zone_write_lock() never finds the zone locked: a zone has one    *)
(* write with the device.                                                   *)
THEOREM OneWriteOfAZone == Spec => []ZonesExclusive
<1>1. SsgInv => ZonesExclusive
  BY OneWritePerZone
<1>2. QED BY <1>1, SsgInvariant, PTL

(* "max times reads can starve a write", whatever max_write_starvation is.  *)
THEOREM ReadsGiveWay == Spec => []WritesNotStarved
<1>1. SsgInv => WritesNotStarved
  BY LimitAssumption DEF SsgInv, StarveInv, WritesNotStarved
<1>2. QED BY <1>1, SsgInvariant, PTL

(* The scheduler is a queue that loses nothing, issues nothing twice and    *)
(* issues contiguous pieces of one direction.                               *)
THEOREM QueueRefined == Spec => ImplementsIoQueue
<1>1. Init => Queue!QInit
  <2>1. ASSUME Init PROVE Waiting = {} /\ Inflight = {}
    BY <2>1 DEF Init, Waiting, Inflight
  <2>2. QED BY <2>1 DEF Queue!QInit, Waiting, Inflight
<1>2. SsgInv /\ [Next]_vars => [Queue!QNext]_(Queue!qvars)
  BY QueueStep
<1>3. QED BY <1>1, <1>2, SsgInvariant, PTL DEF Spec, ImplementsIoQueue, Queue!QSpec

-----------------------------------------------------------------------------
(* SsgTags                                                                  *)
Blkgs == [live : BOOLEAN, current : Int, max : Nat, shallow : Nat]

(* The tasks that found room under the present limit of a cgroup and have   *)
(* not prepared their request yet                                           *)
Pending(g) == {t \in Tasks : alloc[t].within = g}

(* A task that is about to prepare a request has a tag of its own.          *)
AllocInv ==
  /\ \A t \in Tasks : alloc[t].pc = "idle" => alloc[t].within = NoGroup
  /\ \A t \in Tasks :
       alloc[t].pc = "prepare" =>
         /\ alloc[t].tag \in Tags
         /\ rq[alloc[t].tag].phase = "taken"
         /\ rq[alloc[t].tag].op = alloc[t].op
  /\ \A t, u \in Tasks :
       alloc[t].pc = "prepare" /\ alloc[u].pc = "prepare" /\ alloc[t].tag = alloc[u].tag
         => t = u

(* The array of infos remembers the cgroup the request was counted for.     *)
RqInv == \A i \in InFlight : CountedFor(i) = rq[i].blkg

(* Those let in and those that still may come in, together                  *)
LimitInv ==
  \A g \in Groups :
    AdmittedIn(g) # {} \/ Pending(g) # {} =>
      /\ blkg[g].max > 0
      /\ Cardinality(AdmittedIn(g)) + Cardinality(Pending(g))
           <= blkg[g].max - 1 + Cardinality(Tasks)

IInv == TagsTypeOK /\ AllocInv /\ RqInv /\ CountsExact /\ LimitInv

-----------------------------------------------------------------------------
LEMMA LimitsTyped ==
  ASSUME NEW b \in Blkgs, NEW d \in Depths, NEW ratio \in 0..100
  PROVE  /\ WithLimits(b, d, ratio) \in Blkgs
         /\ WithLimits(b, d, ratio).current = b.current
<1> DEFINE m == (d * ratio) \div 100
<1>1. d \in Nat /\ d > 0 /\ ratio \in Nat
  BY TagAssumption
<1>2. d * ratio \in Nat
  BY <1>1
<1>3. m \in Nat
  BY <1>2
<1>4. MapNr(d) \in Nat /\ MapNr(d) > 0
  <2>1. WordBits \in Nat /\ WordBits > 0 /\ d + WordBits - 1 >= WordBits
    BY <1>1, TagAssumption
  <2>2. (d + WordBits - 1) \div WordBits >= 1
    BY <2>1, <1>1
  <2>3. QED BY <2>1, <2>2, <1>1 DEF MapNr
<1> HIDE DEF m
<1>5. m \div MapNr(d) \in Int
  BY <1>3, <1>4
<1>6. AtLeast1(m \div MapNr(d)) \in Nat
  BY <1>5 DEF AtLeast1
<1>7. WithLimits(b, d, ratio) = [b EXCEPT !.max = m, !.shallow = AtLeast1(m \div MapNr(d))]
  BY DEF WithLimits, m
<1>8. QED BY <1>3, <1>6, <1>7 DEF Blkgs

LEMMA NewTyped ==
  ASSUME NEW d \in Depths, NEW ratio \in 0..100
  PROVE  NewBlkg(d, ratio) \in Blkgs /\ NewBlkg(d, ratio).current = 0
<1>1. NoBlkg \in Blkgs /\ NoBlkg.current = 0
  BY DEF Blkgs, NoBlkg
<1>2. [NoBlkg EXCEPT !.live = TRUE] \in Blkgs /\ [NoBlkg EXCEPT !.live = TRUE].current = 0
  BY <1>1 DEF Blkgs
<1>3. QED BY <1>2, LimitsTyped DEF NewBlkg

LEMMA ShallowTyped ==
  ASSUME depth \in Depths
  PROVE  AsyncWriteShallow \in Nat /\ TgroupShallow \in Nat
<1>1. depth \in Nat /\ depth > 0
  BY TagAssumption
<1>2. MapNr(depth) \in Nat /\ MapNr(depth) > 0
  <2>1. WordBits \in Nat /\ WordBits > 0 /\ depth + WordBits - 1 >= WordBits
    BY <1>1, TagAssumption
  <2>2. (depth + WordBits - 1) \div WordBits >= 1
    BY <2>1, <1>1
  <2>3. QED BY <2>1, <2>2, <1>1 DEF MapNr
<1>3. MaxTgroupRqs \in Int
  BY <1>1, TagAssumption DEF MaxTgroupRqs
<1>4. (depth * max_async_write_ratio) \div 100 \in Int
  BY <1>1, TagAssumption
<1>5. MaxAsyncWriteRqs \in Int
  BY <1>4, TagAssumption DEF MaxAsyncWriteRqs, Least
<1>6. MaxTgroupRqs \div MapNr(depth) \in Int /\ MaxAsyncWriteRqs \div MapNr(depth) \in Int
  BY <1>2, <1>3, <1>5
<1>7. QED BY <1>6 DEF AsyncWriteShallow, TgroupShallow, AtLeast1

LEMMA FiniteSets ==
  ASSUME TagsTypeOK
  PROVE  /\ IsFiniteSet(Tags) /\ IsFiniteSet(InFlight) /\ IsFiniteSet(AsyncInFlight)
         /\ \A g : /\ IsFiniteSet(CountedIn(g)) /\ IsFiniteSet(AdmittedIn(g))
                   /\ IsFiniteSet(Pending(g))
<1>1. IsFiniteSet(Tags)
  BY TagAssumption, FS_Interval DEF TagsTypeOK, Tags
<1>2. IsFiniteSet(InFlight)
  BY <1>1, FS_Subset DEF InFlight
<1>3. IsFiniteSet(AsyncInFlight)
  BY <1>2, FS_Subset DEF AsyncInFlight
<1>4. ASSUME NEW g
      PROVE  IsFiniteSet(CountedIn(g)) /\ IsFiniteSet(AdmittedIn(g)) /\ IsFiniteSet(Pending(g))
  <2>1. IsFiniteSet(CountedIn(g))
    BY <1>2, FS_Subset DEF CountedIn
  <2>2. IsFiniteSet(AdmittedIn(g))
    BY <2>1, FS_Subset DEF AdmittedIn
  <2>3. IsFiniteSet(Pending(g))
    BY TagAssumption, FS_Subset DEF Pending
  <2>4. QED BY <2>1, <2>2, <2>3
<1>5. QED BY <1>1, <1>2, <1>3, <1>4

-----------------------------------------------------------------------------
LEMMA InitInv == TagsInit => IInv
<1> SUFFICES ASSUME TagsInit PROVE IInv
  OBVIOUS
<1> USE DEF TagsInit
<1>1. depth \in Nat /\ depth > 0
  BY TagAssumption
<1>2. TagsTypeOK
  BY <1>1, TagAssumption DEF TagsTypeOK, Infos, InfoArrays, Tags, Unset, NoBlkg, Idle, Allocs,
     Unused, Requests, OpKinds
<1>3. InFlight = {} /\ AsyncInFlight = {} /\ \A g : CountedIn(g) = {} /\ AdmittedIn(g) = {}
  BY DEF InFlight, AsyncInFlight, CountedIn, AdmittedIn, Unused
<1>4. \A g \in Groups : Pending(g) = {}
  BY TagAssumption DEF Pending, Idle
<1>5. AllocInv
  BY DEF AllocInv, Idle
<1>6. CountsExact
  BY <1>3, FS_EmptySet DEF CountsExact, NoBlkg
<1>7. QED BY <1>2, <1>3, <1>4, <1>5, <1>6 DEF IInv, RqInv, LimitInv

(* The counts after a step that neither counts a request nor undoes it      *)
LEMMA StillCounted ==
  ASSUME IInv, InFlight' = InFlight, rq_info' = rq_info, counts' = counts,
         \A i \in InFlight : rq'[i].op = rq[i].op /\ rq'[i].blkg = rq[i].blkg,
         \A g \in Groups : blkg'[g].current = blkg[g].current
  PROVE  RqInv' /\ CountsExact'
<1>1. AsyncInFlight' = AsyncInFlight /\ \A g : CountedIn(g)' = CountedIn(g)
  BY DEF AsyncInFlight, CountedIn
<1>2. RqInv'
  BY DEF IInv, RqInv, CountedFor, HasInfo
<1>3. CountsExact'
  BY <1>1 DEF IInv, CountsExact
<1>4. QED BY <1>2, <1>3

(* The limits after a step that lets nobody in and changes no limit that    *)
(* somebody was let in under                                                *)
LEMMA StillWithin ==
  ASSUME IInv,
         \A g \in Groups : /\ Pending(g)' \subseteq Pending(g)
                           /\ AdmittedIn(g)' \subseteq AdmittedIn(g)
                           /\ AdmittedIn(g)' # {} \/ Pending(g)' # {}
                                => blkg'[g].max = blkg[g].max
  PROVE  LimitInv'
<1> SUFFICES ASSUME NEW g \in Groups, AdmittedIn(g)' # {} \/ Pending(g)' # {}
             PROVE  /\ blkg'[g].max > 0
                    /\ Cardinality(AdmittedIn(g)') + Cardinality(Pending(g)')
                         <= blkg'[g].max - 1 + Cardinality(Tasks)
  BY DEF LimitInv
<1>1. /\ blkg[g].max > 0
      /\ Cardinality(AdmittedIn(g)) + Cardinality(Pending(g))
           <= blkg[g].max - 1 + Cardinality(Tasks)
  BY DEF IInv, LimitInv
<1>2. IsFiniteSet(AdmittedIn(g)) /\ IsFiniteSet(Pending(g))
  BY FiniteSets DEF IInv
<1>3. /\ IsFiniteSet(AdmittedIn(g)') /\ IsFiniteSet(Pending(g)')
      /\ Cardinality(AdmittedIn(g)') <= Cardinality(AdmittedIn(g))
      /\ Cardinality(Pending(g)') <= Cardinality(Pending(g))
  BY <1>2, FS_Subset
<1>4. /\ Cardinality(AdmittedIn(g)) \in Nat /\ Cardinality(Pending(g)) \in Nat
      /\ Cardinality(AdmittedIn(g)') \in Nat /\ Cardinality(Pending(g)') \in Nat
      /\ Cardinality(Tasks) \in Nat
  BY <1>2, <1>3, FS_CardinalityType, TagAssumption
<1>5. blkg[g].max \in Nat /\ blkg'[g].max = blkg[g].max
  BY DEF IInv, TagsTypeOK
<1>6. QED BY <1>1, <1>3, <1>4, <1>5
-----------------------------------------------------------------------------
(* The look at the limits                                                   *)
LEMMA LookInv ==
  ASSUME IInv, NEW t \in Tasks, alloc[t].pc # "prepare",
         NEW new \in Allocs, new.pc \notin {"idle", "prepare"},
         new.within \in {NoGroup, alloc[t].within},
         alloc' = [alloc EXCEPT ![t] = new],
         UNCHANGED <<depth, group, max_available_ratio, blkg, counts, rq_info, rq>>
  PROVE  IInv'
<1>1. TagsTypeOK /\ AllocInv
  BY DEF IInv
<1>2. TagsTypeOK'
  BY <1>1 DEF TagsTypeOK, Tags
<1>3. AllocInv'
  BY <1>1 DEF AllocInv, Tags, TagsTypeOK
<1>4. InFlight' = InFlight /\ \A g : AdmittedIn(g)' = AdmittedIn(g)
  BY DEF InFlight, Tags, AdmittedIn, CountedIn
<1>5. RqInv' /\ CountsExact'
  BY <1>4, StillCounted
<1>6. \A g \in Groups : Pending(g)' \subseteq Pending(g)
  BY <1>1, TagAssumption DEF Pending, TagsTypeOK
<1>7. LimitInv'
  BY <1>4, <1>6, StillWithin
<1>8. QED BY <1>2, <1>3, <1>5, <1>7 DEF IInv

LEMMA StartUnlimitedInv ==
  ASSUME IInv, NEW t \in Tasks, NEW op \in Ops[t], StartUnlimited(t, op)
  PROVE  IInv'
<1> DEFINE new == [Idle EXCEPT !.pc = "get", !.op = op]
<1>1. new \in Allocs /\ new.pc = "get" /\ new.within = NoGroup
  BY TagAssumption DEF Idle, Allocs, StartUnlimited, OpKinds
<1>2. alloc[t].pc = "idle" /\ alloc' = [alloc EXCEPT ![t] = new]
  BY DEF StartUnlimited, AllocTo
<1> HIDE DEF new
<1>3. QED BY <1>1, <1>2, LookInv DEF StartUnlimited

LEMMA LimitAsyncInv ==
  ASSUME IInv, NEW t \in Tasks, LimitAsync(t)
  PROVE  IInv'
<1> DEFINE full == AsyncWrite(alloc[t].op) /\ AtLimit(counts.async_write_rqs, MaxAsyncWriteRqs)
           new == [alloc[t] EXCEPT !.pc = "tgroup",
                     !.shallow = MinNotZero(@, IF full THEN AsyncWriteShallow ELSE 0)]
<1>1. alloc[t] \in Allocs /\ AsyncWriteShallow \in Nat
  BY ShallowTyped DEF IInv, TagsTypeOK
<1>2. new \in Allocs /\ new.pc = "tgroup" /\ new.within = alloc[t].within
  BY <1>1 DEF Allocs, MinNotZero, Least
<1>3. alloc[t].pc = "async" /\ alloc' = [alloc EXCEPT ![t] = new]
  BY DEF LimitAsync, AllocTo
<1> HIDE DEF new
<1>4. QED BY <1>2, <1>3, LookInv DEF LimitAsync

LEMMA LimitTgroupInv ==
  ASSUME IInv, NEW t \in Tasks, LimitTgroup(t)
  PROVE  IInv'
<1> DEFINE full == /\ counts.allocated_rqs > CongestionRqs
                   /\ HasInfo /\ TgroupRqs(t) >= MaxTgroupRqs
           new == [alloc[t] EXCEPT !.pc = "get",
                     !.shallow = MinNotZero(@, IF full THEN TgroupShallow ELSE 0)]
<1>1. alloc[t] \in Allocs /\ TgroupShallow \in Nat
  BY ShallowTyped DEF IInv, TagsTypeOK
<1>2. new \in Allocs /\ new.pc = "get" /\ new.within = alloc[t].within
  BY <1>1 DEF Allocs, MinNotZero, Least
<1>3. alloc[t].pc = "tgroup" /\ alloc' = [alloc EXCEPT ![t] = new]
  BY DEF LimitTgroup, AllocTo
<1> HIDE DEF new
<1>4. QED BY <1>2, <1>3, LookInv DEF LimitTgroup

(* Whoever finds room is one task more among those below the limit.         *)
LEMMA LimitBlkcgInv ==
  ASSUME IInv, NEW t \in Tasks, NEW op \in Ops[t], LimitBlkcg(t, op)
  PROVE  IInv'
<1> DEFINE g0 == Lookup(t)
           full == g0 # NoGroup /\ AtLimit(blkg[g0].current, blkg[g0].max)
           new == [Idle EXCEPT !.pc = "async", !.op = op,
                     !.shallow = IF full THEN blkg[g0].shallow ELSE 0,
                     !.within = IF full THEN NoGroup ELSE g0]
<1>1. TagsTypeOK /\ AllocInv /\ CountsExact /\ LimitInv
  BY DEF IInv
<1>2. g0 \in Groups \cup {NoGroup} /\ (g0 # NoGroup => g0 \in Groups)
  BY <1>1 DEF Lookup, TagsTypeOK
<1>3. full => blkg[g0].shallow \in Nat
  BY <1>1, <1>2 DEF TagsTypeOK
<1>4. new \in Allocs /\ new.pc = "async" /\ new.within = (IF full THEN NoGroup ELSE g0)
  BY <1>2, <1>3, TagAssumption DEF Idle, Allocs, LimitBlkcg, OpKinds
<1>5. /\ alloc[t].pc = "idle" /\ alloc' = [alloc EXCEPT ![t] = new]
      /\ UNCHANGED <<depth, group, max_available_ratio, blkg, counts, rq_info, rq>>
  BY DEF LimitBlkcg, AllocTo
<1>6. CASE full
  <2> HIDE DEF new, full, g0
  <2>1. QED BY <1>4, <1>5, <1>6, LookInv
<1>7. CASE ~full
  <2>1. g0 # NoGroup => blkg[g0].current < blkg[g0].max
    BY <1>1, <1>2, <1>7 DEF AtLimit, TagsTypeOK
  <2> HIDE DEF new, full, g0
  <2>2. TagsTypeOK'
    BY <1>1, <1>4, <1>5 DEF TagsTypeOK, Tags
  <2>3. AllocInv'
    BY <1>1, <1>4, <1>5 DEF AllocInv, Tags, TagsTypeOK
  <2>4. InFlight' = InFlight /\ \A g : AdmittedIn(g)' = AdmittedIn(g)
    BY <1>5 DEF InFlight, Tags, AdmittedIn, CountedIn
  <2>5. RqInv' /\ CountsExact'
    BY <1>5, <2>4, StillCounted
  <2>6. ASSUME NEW g \in Groups, AdmittedIn(g)' # {} \/ Pending(g)' # {}
        PROVE  /\ blkg'[g].max > 0
               /\ Cardinality(AdmittedIn(g)') + Cardinality(Pending(g)')
                    <= blkg'[g].max - 1 + Cardinality(Tasks)
    <3>1. CASE g = g0
      <4>1. blkg[g].current < blkg[g].max
        BY <2>1, <3>1, TagAssumption
      <4>2. /\ blkg[g].current = Cardinality(CountedIn(g))
            /\ AdmittedIn(g) \subseteq CountedIn(g) /\ Pending(g)' \subseteq Tasks
        BY <1>1 DEF CountsExact, AdmittedIn, Pending
      <4>3. /\ Cardinality(AdmittedIn(g)) <= Cardinality(CountedIn(g))
            /\ Cardinality(Pending(g)') <= Cardinality(Tasks)
            /\ IsFiniteSet(AdmittedIn(g)) /\ IsFiniteSet(CountedIn(g)) /\ IsFiniteSet(Pending(g)')
        BY <1>1, <4>2, FiniteSets, FS_Subset, TagAssumption
      <4>4. /\ Cardinality(AdmittedIn(g)) \in Nat /\ Cardinality(CountedIn(g)) \in Nat
            /\ Cardinality(Pending(g)') \in Nat /\ Cardinality(Tasks) \in Nat
        BY <4>3, FS_CardinalityType, TagAssumption
      <4>5. blkg[g].max \in Nat
        BY <1>1 DEF TagsTypeOK
      <4>6. QED BY <1>5, <2>4, <4>1, <4>2, <4>3, <4>4, <4>5
    <3>2. CASE g # g0
      <4>1. Pending(g)' = Pending(g)
        BY <1>1, <1>4, <1>5, <1>7, <3>2, TagAssumption DEF Pending, TagsTypeOK, AllocInv
      <4>2. QED BY <1>1, <1>5, <2>4, <2>6, <4>1 DEF LimitInv
    <3>3. QED BY <3>1, <3>2
  <2>7. LimitInv'
    BY <2>6 DEF LimitInv
  <2>8. QED BY <2>2, <2>3, <2>5, <2>7 DEF IInv
<1>8. QED BY <1>6, <1>7

LEMMA GetTagInv ==
  ASSUME IInv, NEW t \in Tasks, NEW i \in Tags, GetTag(t, i)
  PROVE  IInv'
<1> DEFINE new == [alloc[t] EXCEPT !.pc = "prepare", !.tag = i, !.shallow = 0]
           taken == [Unused EXCEPT !.phase = "taken", !.op = alloc[t].op]
<1>1. TagsTypeOK /\ AllocInv
  BY DEF IInv
<1>2. alloc[t] \in Allocs /\ i \in Nat
  BY <1>1, TagAssumption DEF TagsTypeOK, Tags
<1>3. /\ new \in Allocs /\ new.pc = "prepare" /\ new.within = alloc[t].within
      /\ new.tag = i /\ new.op = alloc[t].op
  BY <1>2 DEF Allocs
<1>4. Unused \in Requests
  BY DEF Unused, Requests, OpKinds
<1>5. taken \in Requests /\ taken.phase = "taken" /\ taken.op = alloc[t].op
  BY <1>2, <1>4 DEF Requests, Allocs
<1>6. /\ rq[i].phase = "free" /\ alloc[t].pc = "get"
      /\ alloc' = [alloc EXCEPT ![t] = new] /\ rq' = [rq EXCEPT ![i] = taken]
      /\ UNCHANGED <<depth, group, max_available_ratio, blkg, counts, rq_info>>
  BY DEF GetTag, AllocTo
<1> HIDE DEF new, taken
<1>7. TagsTypeOK'
  BY <1>1, <1>3, <1>5, <1>6 DEF TagsTypeOK, Tags
<1>8. AllocInv'
  BY <1>1, <1>3, <1>5, <1>6 DEF AllocInv, TagsTypeOK, Tags
<1>9. InFlight' = InFlight /\ \A j \in InFlight : rq'[j] = rq[j]
  BY <1>1, <1>5, <1>6 DEF InFlight, Tags, TagsTypeOK
<1>10. \A g : AdmittedIn(g)' = AdmittedIn(g)
  BY <1>9 DEF AdmittedIn, CountedIn
<1>11. RqInv' /\ CountsExact'
  BY <1>6, <1>9, StillCounted
<1>12. \A g \in Groups : Pending(g)' = Pending(g)
  BY <1>1, <1>3, <1>6 DEF Pending, TagsTypeOK
<1>13. LimitInv'
  BY <1>6, <1>10, <1>12, StillWithin
<1>14. QED BY <1>7, <1>8, <1>11, <1>13 DEF IInv

(* Counting a request and undoing it                                        *)
LEMMA CurrentOf ==
  ASSUME blkg \in [Groups -> Blkgs], NEW g \in Groups \cup {NoGroup}
  PROVE  /\ Inc(blkg, g) \in [Groups -> Blkgs] /\ Dec(blkg, g) \in [Groups -> Blkgs]
         /\ \A h \in Groups :
              /\ Inc(blkg, g)[h].current = IF h = g THEN blkg[h].current + 1 ELSE blkg[h].current
              /\ Dec(blkg, g)[h].current = IF h = g THEN blkg[h].current - 1 ELSE blkg[h].current
              /\ Inc(blkg, g)[h].max = blkg[h].max /\ Dec(blkg, g)[h].max = blkg[h].max
BY TagAssumption DEF Inc, Dec, Blkgs

LEMMA PrepareRequestInv ==
  ASSUME IInv, NEW t \in Tasks, PrepareRequest(t)
  PROVE  IInv'
<1> DEFINE i == alloc[t].tag
           g0 == IF HasInfo THEN Lookup(t) ELSE NoGroup
           op == alloc[t].op
           elv == op # "flush"
           win == elv /\ g0 # NoGroup /\ alloc[t].within = g0
           bg == IF elv THEN g0 ELSE NoGroup
           new == [rq[i] EXCEPT !.phase = "inflight", !.blkg = bg, !.within = win]
           info == [tgid |-> Tgid[t], blkg |-> g0]
<1>1. TagsTypeOK /\ AllocInv /\ RqInv /\ CountsExact /\ LimitInv
  BY DEF IInv
<1>2. /\ alloc[t].pc = "prepare" /\ i \in Tags /\ rq[i].phase = "taken" /\ rq[i].op = op
      /\ rq[i] \in Requests
  BY <1>1 DEF PrepareRequest, AllocTo, AllocInv, TagsTypeOK
<1>3. g0 \in Groups \cup {NoGroup}
  BY <1>1 DEF Lookup, TagsTypeOK
<1>4. /\ new \in Requests /\ new.phase = "inflight" /\ new.op = op
      /\ new.blkg = bg /\ new.within = win
  BY <1>2, <1>3 DEF Requests
<1>5. info \in [tgid : Nat, blkg : Groups \cup {NoGroup}] /\ info.blkg = g0
  BY <1>3, TagAssumption
<1>6. /\ alloc' = [alloc EXCEPT ![t] = Idle] /\ rq' = [rq EXCEPT ![i] = new]
      /\ UNCHANGED <<depth, group, max_available_ratio>>
  BY DEF PrepareRequest, AllocTo
<1>7. elv =>
        /\ counts' = [allocated_rqs |-> counts.allocated_rqs + 1,
                      async_write_rqs |-> counts.async_write_rqs
                         + (IF AsyncWrite(op) THEN 1 ELSE 0)]
        /\ rq_info' = IF HasInfo THEN [rq_info EXCEPT ![i] = info] ELSE NoGroup
        /\ blkg' = Inc(blkg, g0)
  BY DEF PrepareRequest
<1>8. ~elv => UNCHANGED <<counts, rq_info, blkg>>
  BY DEF PrepareRequest
<1>9. op \in OpKinds /\ (AsyncWrite(op) => elv)
  BY <1>1 DEF TagsTypeOK, Allocs, AsyncWrite
<1>10. elv = (op # "flush") /\ bg = (IF elv THEN g0 ELSE NoGroup)
       /\ win = (elv /\ g0 # NoGroup /\ alloc[t].within = g0)
  OBVIOUS
<1>11. i = alloc[t].tag
  OBVIOUS
<1> HIDE DEF new, info, g0, i, op, elv, win, bg
<1>12. Idle \in Allocs /\ Idle.pc = "idle" /\ Idle.within = NoGroup
  BY DEF Idle, Allocs, OpKinds
<1>13. AllocInv'
  BY <1>1, <1>2, <1>6, <1>11, <1>12 DEF AllocInv, TagsTypeOK, Tags
<1>14. \A g \in Groups : Pending(g)' = Pending(g) \ {t}
  BY <1>1, <1>6, <1>12, TagAssumption DEF Pending, TagsTypeOK
<1>15. CASE elv
  <2>1. TagsTypeOK'
    <3>1. blkg \in [Groups -> Blkgs] /\ blkg' \in [Groups -> Blkgs]
      BY <1>1, <1>3, <1>7, <1>15, CurrentOf DEF TagsTypeOK, Blkgs
    <3>2. counts' \in [allocated_rqs : Int, async_write_rqs : Int]
      BY <1>1, <1>7, <1>15 DEF TagsTypeOK
    <3>3. rq_info' = NoGroup \/ rq_info' \in InfoArrays(depth')
      BY <1>1, <1>2, <1>5, <1>6, <1>7, <1>15 DEF TagsTypeOK, InfoArrays, Tags, HasInfo
    <3>4. alloc' \in [Tasks -> Allocs] /\ rq' \in [Tags' -> Requests]
      BY <1>1, <1>4, <1>6, <1>12 DEF TagsTypeOK, Tags
    <3>5. QED BY <1>1, <1>6, <3>1, <3>2, <3>3, <3>4 DEF TagsTypeOK, Blkgs
  <2>2. InFlight' = InFlight \cup {i} /\ i \notin InFlight
    BY <1>1, <1>2, <1>4, <1>6, <1>10, <1>15 DEF InFlight, TagsTypeOK, Tags
  <2>3. AsyncInFlight' = IF AsyncWrite(op) THEN AsyncInFlight \cup {i} ELSE AsyncInFlight
    BY <1>1, <1>2, <1>4, <1>6, <2>2 DEF AsyncInFlight, TagsTypeOK, InFlight
  <2>4. \A g \in Groups :
          CountedIn(g)' = IF g = g0 THEN CountedIn(g) \cup {i} ELSE CountedIn(g)
    BY <1>1, <1>2, <1>4, <1>6, <1>10, <1>15, <2>2 DEF CountedIn, TagsTypeOK, InFlight
  <2>5. \A g \in Groups :
          AdmittedIn(g)' = IF g = g0 /\ win THEN AdmittedIn(g) \cup {i} ELSE AdmittedIn(g)
    BY <1>1, <1>2, <1>4, <1>6, <2>2, <2>4 DEF AdmittedIn, CountedIn, TagsTypeOK, InFlight
  <2>6. /\ i \notin AsyncInFlight
        /\ \A g \in Groups : i \notin CountedIn(g) /\ i \notin AdmittedIn(g)
    BY <2>2 DEF AsyncInFlight, CountedIn, AdmittedIn
  <2>7. RqInv'
    <3> SUFFICES ASSUME NEW j \in InFlight' PROVE CountedFor(j)' = rq'[j].blkg
      BY DEF RqInv
    <3>1. CASE ~HasInfo
      <4>1. g0 = NoGroup
        BY <3>1 DEF g0
      <4>2. ~HasInfo'
        BY <1>7, <1>15, <3>1 DEF HasInfo
      <4>3. CASE j = i
        BY <1>1, <1>2, <1>4, <1>6, <1>10, <1>15, <4>1, <4>2, <4>3 DEF CountedFor, TagsTypeOK
      <4>4. CASE j # i
        BY <1>1, <1>2, <1>6, <2>2, <3>1, <4>2, <4>4 DEF CountedFor, TagsTypeOK, RqInv, InFlight
      <4>5. QED BY <4>3, <4>4
    <3>2. CASE HasInfo
      <4>1. rq_info \in InfoArrays(depth) /\ rq_info' = [rq_info EXCEPT ![i] = info]
        BY <1>1, <1>7, <1>15, <3>2 DEF HasInfo, TagsTypeOK
      <4>2. rq_info' \in InfoArrays(depth)
        BY <1>2, <1>5, <4>1 DEF InfoArrays, Tags
      <4>3. HasInfo'
        BY <1>1, <4>2, TagAssumption DEF HasInfo, TagsTypeOK
      <4>4. CASE j = i
        BY <1>1, <1>2, <1>4, <1>5, <1>6, <1>10, <1>15, <4>1, <4>3, <4>4
           DEF CountedFor, TagsTypeOK, InfoArrays, Tags
      <4>5. CASE j # i
        <5>1. j \in InFlight /\ j \in Tags /\ rq'[j] = rq[j]
          BY <1>1, <1>2, <1>6, <2>2, <4>5 DEF InFlight, TagsTypeOK
        <5>2. rq_info'[j] = rq_info[j]
          BY <4>1, <4>5, <5>1 DEF InfoArrays, Tags
        <5>3. QED BY <1>1, <3>2, <4>3, <5>1, <5>2 DEF CountedFor, RqInv
      <4>6. QED BY <4>4, <4>5
    <3>3. QED BY <3>1, <3>2
  <2>8. CountsExact'
    <3>1. /\ IsFiniteSet(InFlight) /\ IsFiniteSet(AsyncInFlight)
          /\ \A g : IsFiniteSet(CountedIn(g))
      BY <1>1, FiniteSets
    <3>2. counts'.allocated_rqs = Cardinality(InFlight')
      <4>1. Cardinality(InFlight \cup {i}) = Cardinality(InFlight) + 1
        BY <2>2, <3>1, FS_AddElement
      <4>2. QED BY <1>1, <1>7, <1>15, <2>2, <4>1 DEF CountsExact
    <3>3. counts'.async_write_rqs = Cardinality(AsyncInFlight')
      <4>1. CASE AsyncWrite(op)
        <5>1. Cardinality(AsyncInFlight \cup {i}) = Cardinality(AsyncInFlight) + 1
          BY <2>6, <3>1, FS_AddElement
        <5>2. QED BY <1>1, <1>7, <1>15, <2>3, <4>1, <5>1 DEF CountsExact
      <4>2. CASE ~AsyncWrite(op)
        BY <1>1, <1>7, <1>15, <2>3, <4>2 DEF CountsExact, TagsTypeOK
      <4>3. QED BY <4>1, <4>2
    <3>4. ASSUME NEW g \in Groups PROVE blkg'[g].current = Cardinality(CountedIn(g)')
      <4>1. blkg'[g].current = IF g = g0 THEN blkg[g].current + 1 ELSE blkg[g].current
        BY <1>1, <1>3, <1>7, <1>15, CurrentOf DEF TagsTypeOK, Blkgs
      <4>2. Cardinality(CountedIn(g) \cup {i}) = Cardinality(CountedIn(g)) + 1
        BY <2>6, <3>1, FS_AddElement
      <4>3. QED BY <1>1, <2>4, <4>1, <4>2 DEF CountsExact
    <3>5. QED BY <3>2, <3>3, <3>4 DEF CountsExact
  <2>9. ASSUME NEW g \in Groups, AdmittedIn(g)' # {} \/ Pending(g)' # {}
        PROVE  /\ blkg'[g].max > 0
               /\ Cardinality(AdmittedIn(g)') + Cardinality(Pending(g)')
                    <= blkg'[g].max - 1 + Cardinality(Tasks)
    <3>1. /\ blkg'[g].max = blkg[g].max /\ blkg[g].max \in Nat
      BY <1>1, <1>3, <1>7, <1>15, CurrentOf DEF TagsTypeOK, Blkgs
    <3>2. g = g0 /\ win => t \in Pending(g)
      BY <1>10 DEF Pending
    <3>3. AdmittedIn(g) # {} \/ Pending(g) # {}
      BY <1>14, <2>5, <2>9, <3>2
    <3>4. /\ blkg[g].max > 0
          /\ Cardinality(AdmittedIn(g)) + Cardinality(Pending(g))
               <= blkg[g].max - 1 + Cardinality(Tasks)
      BY <1>1, <3>3 DEF LimitInv
    <3>5. IsFiniteSet(AdmittedIn(g)) /\ IsFiniteSet(Pending(g))
      BY <1>1, FiniteSets
    <3>6. /\ Cardinality(AdmittedIn(g)) \in Nat /\ Cardinality(Pending(g)) \in Nat
          /\ Cardinality(Tasks) \in Nat
      BY <3>5, FS_CardinalityType, TagAssumption
    <3>7. Cardinality(Pending(g)') =
            IF t \in Pending(g) THEN Cardinality(Pending(g)) - 1 ELSE Cardinality(Pending(g))
      BY <1>14, <3>5, FS_RemoveElement
    <3>8. Cardinality(AdmittedIn(g)') =
            IF g = g0 /\ win THEN Cardinality(AdmittedIn(g)) + 1 ELSE Cardinality(AdmittedIn(g))
      BY <2>5, <2>6, <3>5, FS_AddElement
    <3>9. QED BY <3>1, <3>2, <3>4, <3>6, <3>7, <3>8
  <2>10. LimitInv'
    BY <2>9 DEF LimitInv
  <2>11. QED BY <1>13, <2>1, <2>7, <2>8, <2>10 DEF IInv
<1>16. CASE ~elv
  <2>1. TagsTypeOK'
    <3>1. alloc' \in [Tasks -> Allocs] /\ rq' \in [Tags' -> Requests]
      BY <1>1, <1>4, <1>6, <1>12 DEF TagsTypeOK, Tags
    <3>2. QED BY <1>1, <1>6, <1>8, <1>16, <3>1 DEF TagsTypeOK
  <2>2. InFlight' = InFlight /\ \A j \in InFlight : rq'[j] = rq[j]
    BY <1>1, <1>2, <1>4, <1>6, <1>10, <1>16 DEF InFlight, TagsTypeOK, Tags
  <2>3. \A g : AdmittedIn(g)' = AdmittedIn(g)
    BY <2>2 DEF AdmittedIn, CountedIn
  <2>4. RqInv' /\ CountsExact'
    BY <1>8, <1>16, <2>2, StillCounted
  <2>5. LimitInv'
    BY <1>8, <1>14, <1>16, <2>3, StillWithin
  <2>6. QED BY <1>13, <2>1, <2>4, <2>5 DEF IInv
<1>17. QED BY <1>15, <1>16

LEMMA UncountRequestInv ==
  ASSUME IInv, NEW i \in Tags, UncountRequest(i)
  PROVE  IInv'
<1> DEFINE op == rq[i].op
           elv == op # "flush"
           g0 == CountedFor(i)
<1>1. TagsTypeOK /\ AllocInv /\ RqInv /\ CountsExact /\ LimitInv
  BY DEF IInv
<1>2. /\ rq[i].phase = "inflight" /\ rq[i] \in Requests
      /\ rq' = [rq EXCEPT ![i] = Unused]
      /\ UNCHANGED <<depth, group, max_available_ratio, alloc>>
  BY <1>1 DEF UncountRequest, TagsTypeOK
<1>3. elv =>
        /\ counts' = [allocated_rqs |-> counts.allocated_rqs - 1,
                      async_write_rqs |-> counts.async_write_rqs
                         - (IF AsyncWrite(op) THEN 1 ELSE 0)]
        /\ rq_info' = IF HasInfo THEN [rq_info EXCEPT ![i] = Unset] ELSE NoGroup
        /\ blkg' = Dec(blkg, g0)
  BY DEF UncountRequest
<1>4. ~elv => UNCHANGED <<counts, rq_info, blkg>>
  BY DEF UncountRequest
<1>5. op = rq[i].op /\ elv = (op # "flush")
  OBVIOUS
<1>6. /\ Unused \in Requests /\ Unused.phase = "free"
      /\ Unset \in [tgid : Nat, blkg : Groups \cup {NoGroup}]
  BY DEF Unused, Requests, OpKinds, Unset
<1>7. elv => i \in InFlight /\ g0 = rq[i].blkg
  BY <1>1, <1>2 DEF InFlight, RqInv
<1> HIDE DEF op, elv, g0
<1>8. rq' \in [Tags' -> Requests] /\ InFlight' = InFlight \ {i} /\ Tags' = Tags
  BY <1>1, <1>2, <1>6 DEF TagsTypeOK, InFlight, Tags
<1>9. \A j \in InFlight' : j \in InFlight /\ j # i /\ rq'[j] = rq[j]
  BY <1>1, <1>2, <1>8 DEF TagsTypeOK, InFlight
<1>10. \A g : CountedIn(g)' = CountedIn(g) \ {i} /\ AdmittedIn(g)' = AdmittedIn(g) \ {i}
  BY <1>8, <1>9 DEF CountedIn, AdmittedIn
<1>11. AsyncInFlight' = AsyncInFlight \ {i}
  BY <1>8, <1>9 DEF AsyncInFlight
<1>12. AllocInv'
  BY <1>1, <1>2, <1>8 DEF AllocInv, TagsTypeOK
<1>13. \A g : Pending(g)' = Pending(g)
  BY <1>2 DEF Pending
<1>14. CASE elv
  <2>1. g0 \in Groups \cup {NoGroup}
    BY <1>2, <1>7, <1>14 DEF Requests
  <2>2. blkg \in [Groups -> Blkgs] /\ blkg' \in [Groups -> Blkgs]
    BY <1>1, <1>3, <1>14, <2>1, CurrentOf DEF TagsTypeOK, Blkgs
  <2>3. \A g \in Groups :
          /\ blkg'[g].current = IF g = g0 THEN blkg[g].current - 1 ELSE blkg[g].current
          /\ blkg'[g].max = blkg[g].max
    BY <1>3, <1>14, <2>1, <2>2, CurrentOf
  <2>4. HasInfo => /\ rq_info \in InfoArrays(depth)
                   /\ rq_info' = [rq_info EXCEPT ![i] = Unset]
                   /\ rq_info' \in InfoArrays(depth)
    BY <1>1, <1>3, <1>6, <1>14 DEF HasInfo, TagsTypeOK, InfoArrays, Tags
  <2>5. ~HasInfo => ~HasInfo'
    BY <1>3, <1>14 DEF HasInfo
  <2>6. TagsTypeOK'
    <3>1. counts' \in [allocated_rqs : Int, async_write_rqs : Int]
      BY <1>1, <1>3, <1>14 DEF TagsTypeOK
    <3>2. rq_info' = NoGroup \/ rq_info' \in InfoArrays(depth')
      BY <1>2, <2>4, <2>5 DEF HasInfo
    <3>3. QED BY <1>1, <1>2, <1>8, <2>2, <3>1, <3>2 DEF TagsTypeOK, Blkgs
  <2>7. RqInv'
    <3> SUFFICES ASSUME NEW j \in InFlight' PROVE CountedFor(j)' = rq'[j].blkg
      BY DEF RqInv
    <3>1. j \in InFlight /\ j # i /\ rq'[j] = rq[j] /\ CountedFor(j) = rq[j].blkg
      BY <1>1, <1>9 DEF RqInv
    <3>2. CASE ~HasInfo
      BY <2>5, <3>1, <3>2 DEF CountedFor
    <3>3. CASE HasInfo
      <4>1. HasInfo'
        BY <1>1, <2>4, <3>3, TagAssumption DEF HasInfo, TagsTypeOK
      <4>2. rq_info'[j] = rq_info[j]
        BY <2>4, <3>1, <3>3 DEF InfoArrays, InFlight, Tags
      <4>3. QED BY <3>1, <3>3, <4>1, <4>2 DEF CountedFor
    <3>4. QED BY <3>2, <3>3
  <2>8. CountsExact'
    <3>1. /\ IsFiniteSet(InFlight) /\ IsFiniteSet(AsyncInFlight)
          /\ \A g : IsFiniteSet(CountedIn(g))
      BY <1>1, FiniteSets
    <3>2. counts'.allocated_rqs = Cardinality(InFlight')
      <4>1. Cardinality(InFlight \ {i}) = Cardinality(InFlight) - 1
        BY <1>7, <1>14, <3>1, FS_RemoveElement
      <4>2. QED BY <1>1, <1>3, <1>8, <1>14, <4>1 DEF CountsExact
    <3>3. counts'.async_write_rqs = Cardinality(AsyncInFlight')
      <4>1. Cardinality(AsyncInFlight \ {i}) =
              IF AsyncWrite(op) THEN Cardinality(AsyncInFlight) - 1 ELSE Cardinality(AsyncInFlight)
        <5>1. i \in AsyncInFlight <=> AsyncWrite(op)
          BY <1>5, <1>7, <1>14 DEF AsyncInFlight
        <5>2. QED BY <3>1, <5>1, FS_RemoveElement
      <4>2. QED BY <1>1, <1>3, <1>11, <1>14, <4>1 DEF CountsExact, TagsTypeOK
    <3>4. ASSUME NEW g \in Groups PROVE blkg'[g].current = Cardinality(CountedIn(g)')
      <4>1. i \in CountedIn(g) <=> g = g0
        BY <1>7, <1>14 DEF CountedIn
      <4>2. Cardinality(CountedIn(g) \ {i}) =
              IF g = g0 THEN Cardinality(CountedIn(g)) - 1 ELSE Cardinality(CountedIn(g))
        BY <3>1, <4>1, FS_RemoveElement
      <4>3. QED BY <1>1, <1>10, <2>3, <4>2 DEF CountsExact
    <3>5. QED BY <3>2, <3>3, <3>4 DEF CountsExact
  <2>9. LimitInv'
    BY <1>10, <1>13, <2>3, StillWithin
  <2>10. QED BY <1>12, <2>6, <2>7, <2>8, <2>9 DEF IInv
<1>15. CASE ~elv
  <2>1. TagsTypeOK'
    BY <1>1, <1>2, <1>4, <1>8, <1>15 DEF TagsTypeOK
  <2>2. InFlight' = InFlight /\ \A j \in InFlight : rq'[j] = rq[j]
    BY <1>5, <1>8, <1>9, <1>15 DEF InFlight
  <2>3. RqInv' /\ CountsExact'
    BY <1>4, <1>15, <2>2, StillCounted
  <2>4. LimitInv'
    BY <1>4, <1>10, <1>13, <1>15, StillWithin
  <2>5. QED BY <1>12, <2>1, <2>3, <2>4 DEF IInv
<1>16. QED BY <1>14, <1>15

-----------------------------------------------------------------------------
(* The cgroups                                                              *)
LEMMA CgroupInv ==
  ASSUME IInv, TagsTypeOK',
         UNCHANGED <<depth, counts, rq_info, alloc, rq>>,
         \A g \in Groups :
           /\ blkg'[g].current = blkg[g].current
           /\ blkg'[g].max = blkg[g].max \/ blkg[g].max = 0
  PROVE  IInv'
<1>1. AllocInv'
  BY DEF IInv, AllocInv, Tags
<1>2. InFlight' = InFlight /\ \A g : AdmittedIn(g)' = AdmittedIn(g) /\ Pending(g)' = Pending(g)
  BY DEF InFlight, Tags, AdmittedIn, CountedIn, Pending
<1>3. RqInv' /\ CountsExact'
  BY <1>2, StillCounted
<1>4. LimitInv'
  <2>1. \A g \in Groups : AdmittedIn(g) # {} \/ Pending(g) # {} => blkg'[g].max = blkg[g].max
    BY DEF IInv, LimitInv
  <2>2. QED BY <1>2, <2>1, StillWithin
<1>5. QED BY <1>1, <1>3, <1>4 DEF IInv

LEMMA MigrateInv ==
  ASSUME IInv, NEW t \in Movers, NEW g \in Groups, Migrate(t, g)
  PROVE  IInv'
<1>1. TagsTypeOK'
  BY TagAssumption DEF IInv, Migrate, TagsTypeOK, Tags
<1>2. QED BY <1>1, CgroupInv DEF Migrate

LEMMA PdInitInv ==
  ASSUME IInv, NEW g \in Groups, PdInit(g)
  PROVE  IInv'
<1> DEFINE new == NewBlkg(depth, max_available_ratio[g])
<1>1. TagsTypeOK
  BY DEF IInv
<1>2. new \in Blkgs /\ new.current = 0
  BY <1>1, NewTyped DEF TagsTypeOK
<1>3. /\ blkg[g] = NoBlkg /\ blkg' = [blkg EXCEPT ![g] = new]
      /\ UNCHANGED <<depth, group, max_available_ratio, counts, rq_info, alloc, rq>>
  BY DEF PdInit
<1>4. blkg[g].current = 0 /\ blkg[g].max = 0
  BY <1>3 DEF NoBlkg
<1> HIDE DEF new
<1>5. TagsTypeOK'
  BY <1>1, <1>2, <1>3 DEF TagsTypeOK, Blkgs, Tags
<1>6. \A h \in Groups : /\ blkg'[h].current = blkg[h].current
                        /\ blkg'[h].max = blkg[h].max \/ blkg[h].max = 0
  BY <1>1, <1>2, <1>3, <1>4 DEF TagsTypeOK
<1>7. QED BY <1>3, <1>5, <1>6, CgroupInv

LEMMA PdOfflineInv ==
  ASSUME IInv, NEW g \in Groups, PdOffline(g)
  PROVE  IInv'
<1>1. TagsTypeOK
  BY DEF IInv
<1>2. blkg[g] \in Blkgs
  BY <1>1 DEF TagsTypeOK, Blkgs
<1> DEFINE new == [blkg[g] EXCEPT !.live = FALSE]
<1>3. new \in Blkgs /\ new.current = blkg[g].current /\ new.max = blkg[g].max
  BY <1>2 DEF Blkgs
<1>4. /\ blkg' = [blkg EXCEPT ![g] = new]
      /\ UNCHANGED <<depth, group, max_available_ratio, counts, rq_info, alloc, rq>>
  BY DEF PdOffline
<1> HIDE DEF new
<1>5. TagsTypeOK'
  BY <1>1, <1>3, <1>4 DEF TagsTypeOK, Blkgs, Tags
<1>6. \A h \in Groups : /\ blkg'[h].current = blkg[h].current
                        /\ blkg'[h].max = blkg[h].max \/ blkg[h].max = 0
  BY <1>1, <1>3, <1>4 DEF TagsTypeOK
<1>7. QED BY <1>4, <1>5, <1>6, CgroupInv

(* Nobody has been let in under the new limit yet.                          *)
LEMMA SetMaxAvailableRatioInv ==
  ASSUME IInv, NEW g \in Groups, NEW ratio \in Ratios, SetMaxAvailableRatio(g, ratio)
  PROVE  IInv'
<1> DEFINE new == IF blkg[g].live THEN WithLimits(blkg[g], depth, ratio) ELSE blkg[g]
           wr == [t \in Tasks |-> [alloc[t] EXCEPT !.within = IF @ = g THEN NoGroup ELSE @]]
           rr == [i \in Tags |-> [rq[i] EXCEPT !.within = @ /\ rq[i].blkg # g]]
<1>1. TagsTypeOK /\ AllocInv
  BY DEF IInv
<1>2. new \in Blkgs /\ new.current = blkg[g].current
  BY <1>1, LimitsTyped, TagAssumption DEF TagsTypeOK, Blkgs
<1>3. /\ blkg' = [blkg EXCEPT ![g] = new] /\ alloc' = wr /\ rq' = rr
      /\ max_available_ratio' = [max_available_ratio EXCEPT ![g] = ratio]
      /\ UNCHANGED <<depth, group, counts, rq_info>>
  BY DEF SetMaxAvailableRatio
<1> HIDE DEF new
<1>4. /\ wr \in [Tasks -> Allocs]
      /\ \A t \in Tasks : /\ wr[t].pc = alloc[t].pc /\ wr[t].tag = alloc[t].tag
                          /\ wr[t].op = alloc[t].op
                          /\ wr[t].within = IF alloc[t].within = g THEN NoGroup ELSE alloc[t].within
  BY <1>1 DEF TagsTypeOK, Allocs
<1>5. /\ rr \in [Tags -> Requests]
      /\ \A i \in Tags : /\ rr[i].phase = rq[i].phase /\ rr[i].op = rq[i].op
                         /\ rr[i].blkg = rq[i].blkg
                         /\ rr[i].within = (rq[i].within /\ rq[i].blkg # g)
  BY <1>1 DEF TagsTypeOK, Requests
<1> HIDE DEF wr, rr
<1>6. TagsTypeOK'
  BY <1>1, <1>2, <1>3, <1>4, <1>5, TagAssumption DEF TagsTypeOK, Blkgs, Tags
<1>7. Tags' = Tags
  BY <1>3 DEF Tags
<1>8. AllocInv'
  BY <1>1, <1>3, <1>4, <1>5, <1>7 DEF AllocInv
<1>9. InFlight' = InFlight
  BY <1>3, <1>5, <1>7 DEF InFlight
<1>10. \A h \in Groups : blkg'[h].current = blkg[h].current
  BY <1>1, <1>2, <1>3 DEF TagsTypeOK
<1>11. RqInv' /\ CountsExact'
  BY <1>3, <1>5, <1>9, <1>10, StillCounted DEF InFlight
<1>12. ASSUME NEW h \in Groups
       PROVE  /\ Pending(h)' \subseteq Pending(h) /\ AdmittedIn(h)' \subseteq AdmittedIn(h)
              /\ h = g => Pending(h)' = {} /\ AdmittedIn(h)' = {}
  <2>1. \A t \in Pending(h)' : alloc[t].within = h /\ h # g
    BY <1>3, <1>4, TagAssumption DEF Pending
  <2>2. \A i \in AdmittedIn(h)' : i \in AdmittedIn(h) /\ h # g
    BY <1>3, <1>5, <1>9 DEF AdmittedIn, CountedIn, InFlight
  <2>3. QED BY <2>1, <2>2 DEF Pending
<1>13. \A h \in Groups : h # g => blkg'[h].max = blkg[h].max
  BY <1>1, <1>3 DEF TagsTypeOK
<1>14. LimitInv'
  BY <1>12, <1>13, StillWithin
<1>15. QED BY <1>6, <1>8, <1>11, <1>14 DEF IInv

-----------------------------------------------------------------------------
(* The queue is frozen: there is nothing to count and nobody to let in.     *)
LEMMA FrozenInv ==
  ASSUME IInv, Frozen, NEW d \in Depths, NEW info \in Infos(d), Resized(d, info),
         blkg' \in [Groups -> Blkgs], counts' \in [allocated_rqs : {0}, async_write_rqs : {0}],
         \A g \in Groups : blkg'[g].current = 0,
         UNCHANGED <<group, max_available_ratio, alloc>>
  PROVE  IInv'
<1>1. /\ depth' = d /\ rq_info' = info /\ rq' = [i \in 0..(d - 1) |-> Unused]
      /\ Unused \in Requests /\ Unused.phase = "free"
  BY DEF Resized, Unused, Requests, OpKinds
<1>2. TagsTypeOK /\ AllocInv
  BY DEF IInv
<1>3. rq_info' = NoGroup \/ rq_info' \in InfoArrays(depth')
  BY <1>1 DEF Infos, InfoArrays, Unset
<1>4. TagsTypeOK'
  BY <1>1, <1>2, <1>3 DEF TagsTypeOK, Blkgs, Tags
<1>5. InFlight' = {}
  BY <1>1 DEF InFlight, Tags
<1>6. AsyncInFlight' = {} /\ \A g : CountedIn(g)' = {} /\ AdmittedIn(g)' = {}
  BY <1>5 DEF AsyncInFlight, CountedIn, AdmittedIn
<1>7. \A g \in Groups : Pending(g)' = {}
  BY <1>2, TagAssumption DEF AllocInv, Frozen, Pending
<1>8. AllocInv'
  BY <1>2 DEF AllocInv, Frozen
<1>9. CountsExact'
  BY <1>5, <1>6, FS_EmptySet DEF CountsExact
<1>10. QED BY <1>4, <1>5, <1>6, <1>7, <1>8, <1>9 DEF IInv, RqInv, LimitInv

LEMMA DepthUpdatedInv ==
  ASSUME IInv, NEW d \in Depths, NEW info \in Infos(d), DepthUpdated(d, info)
  PROVE  IInv'
<1>1. TagsTypeOK /\ CountsExact
  BY DEF IInv
<1>2. InFlight = {} /\ AsyncInFlight = {} /\ \A g : CountedIn(g) = {}
  BY DEF DepthUpdated, Frozen, InFlight, AsyncInFlight, CountedIn
<1>3. counts' \in [allocated_rqs : {0}, async_write_rqs : {0}]
  BY <1>1, <1>2, FS_EmptySet DEF CountsExact, DepthUpdated, TagsTypeOK
<1>4. ASSUME NEW g \in Groups PROVE blkg'[g] \in Blkgs /\ blkg'[g].current = 0
  <2>1. blkg[g] \in Blkgs /\ blkg[g].current = 0
    BY <1>1, <1>2, FS_EmptySet DEF CountsExact, TagsTypeOK, Blkgs
  <2>2. [blkg[g] EXCEPT !.current = 0] \in Blkgs
        /\ [blkg[g] EXCEPT !.current = 0].current = 0
    BY <2>1 DEF Blkgs
  <2>3. max_available_ratio[g] \in 0..100
    BY <1>1 DEF TagsTypeOK
  <2>4. /\ WithLimits([blkg[g] EXCEPT !.current = 0], d, max_available_ratio[g]) \in Blkgs
        /\ WithLimits([blkg[g] EXCEPT !.current = 0], d, max_available_ratio[g]).current = 0
    BY <2>2, <2>3, LimitsTyped
  <2>5. QED BY <2>1, <2>4 DEF DepthUpdated
<1>5. blkg' \in [Groups -> Blkgs]
  BY <1>4 DEF DepthUpdated
<1>6. QED BY <1>3, <1>4, <1>5, FrozenInv DEF DepthUpdated

LEMMA SwitchElevatorInv ==
  ASSUME IInv, NEW info \in Infos(depth), SwitchElevator(info)
  PROVE  IInv'
<1>1. TagsTypeOK /\ CountsExact /\ depth \in Depths
  BY DEF IInv, TagsTypeOK
<1>2. \A g : CountedIn(g) = {}
  BY DEF SwitchElevator, Frozen, InFlight, CountedIn
<1>3. counts' \in [allocated_rqs : {0}, async_write_rqs : {0}]
  BY DEF SwitchElevator
<1>4. ASSUME NEW g \in Groups PROVE blkg'[g] \in Blkgs /\ blkg'[g].current = 0
  <2>1. blkg[g] \in Blkgs /\ blkg[g].current = 0
    BY <1>1, <1>2, FS_EmptySet DEF CountsExact, TagsTypeOK, Blkgs
  <2>2. max_available_ratio[g] \in 0..100
    BY <1>1 DEF TagsTypeOK
  <2>3. QED BY <1>1, <2>1, <2>2, NewTyped DEF SwitchElevator
<1>5. blkg' \in [Groups -> Blkgs]
  BY <1>4 DEF SwitchElevator
<1>6. QED BY <1>1, <1>3, <1>4, <1>5, FrozenInv DEF SwitchElevator

-----------------------------------------------------------------------------
LEMMA NextInv == IInv /\ [TagsNext]_tvars => IInv'
<1> SUFFICES ASSUME IInv, [TagsNext]_tvars PROVE IInv'
  OBVIOUS
<1>1. CASE UNCHANGED tvars
  <2>1. /\ InFlight' = InFlight
        /\ \A g : AdmittedIn(g)' = AdmittedIn(g) /\ Pending(g)' = Pending(g)
    BY <1>1 DEF tvars, InFlight, Tags, AdmittedIn, CountedIn, Pending
  <2>2. TagsTypeOK' /\ AllocInv'
    BY <1>1 DEF tvars, IInv, TagsTypeOK, AllocInv, Tags
  <2>3. RqInv' /\ CountsExact' /\ LimitInv'
    BY <1>1, <2>1, StillCounted, StillWithin DEF tvars
  <2>4. QED BY <2>2, <2>3 DEF IInv
<1>2. ASSUME NEW t \in Tasks, NEW op \in Ops[t], StartUnlimited(t, op) PROVE IInv'
  BY <1>2, StartUnlimitedInv
<1>3. ASSUME NEW t \in Tasks, NEW op \in Ops[t], LimitBlkcg(t, op) PROVE IInv'
  BY <1>3, LimitBlkcgInv
<1>4. ASSUME NEW t \in Tasks, LimitAsync(t) PROVE IInv'
  BY <1>4, LimitAsyncInv
<1>5. ASSUME NEW t \in Tasks, LimitTgroup(t) PROVE IInv'
  BY <1>5, LimitTgroupInv
<1>6. ASSUME NEW t \in Tasks, NEW i \in Tags, GetTag(t, i) PROVE IInv'
  BY <1>6, GetTagInv
<1>7. ASSUME NEW t \in Tasks, PrepareRequest(t) PROVE IInv'
  BY <1>7, PrepareRequestInv
<1>8. ASSUME NEW i \in Tags, UncountRequest(i) PROVE IInv'
  BY <1>8, UncountRequestInv
<1>9. ASSUME NEW t \in Movers, NEW g \in Groups, Migrate(t, g) PROVE IInv'
  BY <1>9, MigrateInv
<1>10. ASSUME NEW g \in Groups, PdInit(g) PROVE IInv'
  BY <1>10, PdInitInv
<1>11. ASSUME NEW g \in Groups, PdOffline(g) PROVE IInv'
  BY <1>11, PdOfflineInv
<1>12. ASSUME NEW g \in Groups, NEW ratio \in Ratios, SetMaxAvailableRatio(g, ratio) PROVE IInv'
  BY <1>12, SetMaxAvailableRatioInv
<1>13. ASSUME NEW d \in Depths, NEW info \in Infos(d), DepthUpdated(d, info) PROVE IInv'
  BY <1>13, DepthUpdatedInv
<1>14. ASSUME NEW info \in Infos(depth), SwitchElevator(info) PROVE IInv'
  BY <1>14, SwitchElevatorInv
<1>15. QED BY <1>1, <1>2, <1>3, <1>4, <1>5, <1>6, <1>7, <1>8, <1>9, <1>10, <1>11, <1>12,
             <1>13, <1>14 DEF TagsNext

LEMMA Invariant == TagsSpec => []IInv
BY InitInv, NextInv, PTL DEF TagsSpec

(* Types: the fields of the queue, of the cgroups and of the requests keep  *)
(* theirs in all steps of ssg-iosched.c and ssg-cgroup.c.                   *)
THEOREM TagsTypeCorrect == TagsSpec => []TagsTypeOK
<1>1. IInv => TagsTypeOK
  BY DEF IInv
<1>2. QED BY Invariant, <1>1, PTL

(* What is counted for the queue, for asynchronous writes and for a cgroup  *)
(* is what is in flight, whoever migrates and whichever cgroup, ratio or    *)
(* depth comes and goes meanwhile (ssg_prepare_request, ssg_finish_request).*)
THEOREM CountsAreExact == TagsSpec => []CountsExact
<1>1. IInv => CountsExact
  BY DEF IInv
<1>2. QED BY Invariant, <1>1, PTL

(* The lockless look lets fewer requests past the limit of a cgroup than    *)
(* there are tasks, and none past a limit of 0 (ssg_blkcg_shallow_depth).   *)
THEOREM LimitOvershoot == TagsSpec => []LimitHolds
<1>1. IInv => LimitHolds
  <2> SUFFICES ASSUME IInv, NEW g \in Groups, AdmittedIn(g) # {}
               PROVE  /\ blkg[g].max > 0
                      /\ Cardinality(AdmittedIn(g)) < blkg[g].max + Cardinality(Tasks)
    BY DEF LimitHolds
  <2>1. /\ blkg[g].max > 0
        /\ Cardinality(AdmittedIn(g)) + Cardinality(Pending(g))
             <= blkg[g].max - 1 + Cardinality(Tasks)
    BY DEF IInv, LimitInv
  <2>2. IsFiniteSet(AdmittedIn(g)) /\ IsFiniteSet(Pending(g))
    BY FiniteSets DEF IInv
  <2>3. /\ Cardinality(AdmittedIn(g)) \in Nat /\ Cardinality(Pending(g)) \in Nat
        /\ Cardinality(Tasks) \in Nat /\ blkg[g].max \in Nat
    BY <2>2, FS_CardinalityType, TagAssumption DEF IInv, TagsTypeOK
  <2>4. QED BY <2>1, <2>3
<1>2. QED BY Invariant, <1>1, PTL
=============================================================================
