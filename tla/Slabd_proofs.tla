---------------------------- MODULE Slabd_proofs ----------------------------
(***************************************************************************)
(* Proofs about Slabd for every number of callers and memcgs, every ring   *)
(* size and every counter width that is a multiple of it.                  *)
(***************************************************************************)
EXTENDS Slabd, FiniteSetTheorems, SequenceTheorems, TLAPS

-----------------------------------------------------------------------------
(* Division with remainder: the slot of a free-running counter.             *)
LEMMA DivMod ==
  ASSUME NEW N \in Nat, N > 0, NEW x \in Nat
  PROVE  /\ x = N * (x \div N) + (x % N)
         /\ x % N \in 0..N-1 /\ x \div N \in Nat
BY SMTT(30)

LEMMA Multiple ==
  ASSUME NEW N \in Nat, N > 0, NEW d \in Int, d >= 1
  PROVE  N * d >= N
BY SMTT(30)

LEMMA Euclid ==
  ASSUME NEW N \in Nat, N > 0
  PROVE  \A q, p \in Int, r, s \in 0..N-1 : N * q + r = N * p + s => q = p /\ r = s
<1> SUFFICES ASSUME NEW q \in Int, NEW p \in Int, NEW r \in 0..N-1, NEW s \in 0..N-1,
                    N * q + r = N * p + s
             PROVE  q = p /\ r = s
  OBVIOUS
<1>1. N * (q - p) = s - r /\ N * (p - q) = r - s
  BY SMTT(30)
<1>2. ~(q - p >= 1)
  BY <1>1, Multiple, SMTT(30)
<1>3. ~(p - q >= 1)
  BY <1>1, Multiple, SMTT(30)
<1>4. QED BY <1>1, <1>2, <1>3

LEMMA Period ==
  ASSUME NEW N \in Nat, N > 0, NEW x \in Nat, NEW k \in Nat
  PROVE  (x + N * k) % N = x % N
<1> DEFINE y == x + N * k
           a == y \div N
           b == x \div N
           c == y % N
           d == x % N
<1>1. y \in Nat
  BY SMTT(30)
<1>2. y = N * a + c /\ c \in 0..N-1 /\ a \in Nat
  BY <1>1, DivMod
<1>3. x = N * b + d /\ d \in 0..N-1 /\ b \in Nat
  BY DivMod
<1>4. y = N * (b + k) + d
  <2>1. \A u, v, w \in Nat : u = N * v + w => u + N * k = N * (v + k) + w
    BY SMTT(30)
  <2>2. QED BY <2>1, <1>3
<1> HIDE DEF y, a, b, c, d
<1>5. N * a + c = N * (b + k) + d /\ b + k \in Int
  BY <1>2, <1>3, <1>4
<1>6. c = d
  BY <1>2, <1>3, <1>5, Euclid
<1>7. QED BY <1>6 DEF y, c, d

LEMMA Distinct ==
  ASSUME NEW N \in Nat, N > 0, NEW x \in Nat, NEW k \in 1..N-1
  PROVE  (x + k) % N # x % N
<1> DEFINE y == x + k
           a == y \div N
           b == x \div N
           c == y % N
           d == x % N
<1>1. y \in Nat
  OBVIOUS
<1>2. y = N * a + c /\ c \in 0..N-1 /\ a \in Nat
  BY <1>1, DivMod
<1>3. x = N * b + d /\ d \in 0..N-1 /\ b \in Nat
  BY DivMod
<1> HIDE DEF a, b, c, d
<1>4. ASSUME c = d PROVE FALSE
  <2>1. N * a + c = N * b + (d + k)
    BY <1>2, <1>3 DEF y
  <2>2. N * a = N * b + k
    <3>1. N * a \in Int /\ N * b \in Int
      BY <1>2, <1>3, SMTT(30)
    <3>2. \A u, v \in Int : u + c = v + (d + k) => u = v + k
      BY <1>4, <1>2, <1>3
    <3>3. QED BY <2>1, <3>1, <3>2
  <2>3. N * a + 0 = N * b + k /\ k \in 0..N-1 /\ 0 \in 0..N-1
    <3>1. N * a \in Int
      BY <1>2, SMTT(30)
    <3>2. QED BY <3>1, <2>2
  <2>4. QED BY <2>3, <1>2, <1>3, Euclid
<1>5. QED BY <1>4 DEF y, c, d

LEMMA SlotTyped ==
  ASSUME NEW x \in Nat
  PROVE  Slot(x) \in 0..Ring-1
BY RingAssumption, DivMod DEF Slot

LEMMA SlotPeriod ==
  ASSUME NEW x \in Nat
  PROVE  Slot(x + Width) = Slot(x)
<1>1. PICK laps \in 2..Width : Width = Ring * laps
  BY RingAssumption
<1>2. laps \in Nat /\ Ring \in Nat /\ Ring > 0
  BY RingAssumption
<1>3. QED BY <1>1, <1>2, Period DEF Slot

LEMMA SlotDistinct ==
  ASSUME NEW x \in Nat, NEW k \in 1..Ring-1
  PROVE  Slot(x + k) # Slot(x)
BY RingAssumption, Distinct DEF Slot

LEMMA WidthTwice == Width \in Nat /\ Ring \in Nat /\ Ring > 0 /\ Width >= 2 * Ring
<1>1. PICK laps \in 2..Width : Width = Ring * laps
  BY RingAssumption
<1>2. \A n \in Nat : n >= 2 => Ring * n >= 2 * Ring
  BY RingAssumption, SMTT(30)
<1>3. QED BY <1>1, <1>2, RingAssumption

-----------------------------------------------------------------------------
(* The ring: what an enqueue adds and a dequeue takes away.                 *)
InWidth == head \in 0..Width-1 /\ tail \in 0..Width-1

LEMMA RingSize ==
  ASSUME InWidth
  PROVE  /\ Occupancy \in 0..Width-1
         /\ RingNonempty <=> Occupancy > 0
         /\ Slot(tail) = Slot(head + Occupancy)
         /\ Occupied \subseteq 0..Ring-1
<1>1. Occupancy \in 0..Width-1 /\ (RingNonempty <=> Occupancy > 0)
  BY WidthTwice DEF InWidth, Occupancy, RingNonempty
<1>2. Slot(tail) = Slot(head + Occupancy)
  <2>1. CASE tail >= head
    <3>1. head + Occupancy = tail
      BY <2>1, WidthTwice DEF InWidth, Occupancy
    <3>2. QED BY <3>1
  <2>2. CASE ~(tail >= head)
    <3>1. head + Occupancy = tail + Width /\ tail \in Nat
      BY <2>2, WidthTwice DEF InWidth, Occupancy
    <3>2. QED BY <3>1, SlotPeriod
  <2>3. QED BY <2>1, <2>2
<1>3. ASSUME NEW i \in 1..Occupancy PROVE Slot(head + i - 1) \in 0..Ring-1
  <2>1. head + i - 1 \in Nat
    BY <1>1, WidthTwice DEF InWidth
  <2>2. QED BY <2>1, SlotTyped
<1>4. QED BY <1>1, <1>2, <1>3 DEF Occupied

LEMMA SlotsApart ==
  ASSUME NEW h \in Nat, NEW n \in 0..Ring, NEW i \in 1..n, NEW j \in 1..n, i < j
  PROVE  Slot(h + i - 1) # Slot(h + j - 1)
<1>1. h + i - 1 \in Nat /\ j - i \in 1..Ring-1 /\ h + j - 1 = (h + i - 1) + (j - i)
  BY WidthTwice
<1>2. QED BY <1>1, SlotDistinct

LEMMA PutRing ==
  ASSUME InWidth, HasRoom, head' = head, tail' = Advance(tail)
  PROVE  /\ InWidth'
         /\ Occupancy' = Occupancy + 1
         /\ Slot(tail) \notin Occupied
         /\ Occupied' = Occupied \cup {Slot(tail)}
<1>1. InWidth' /\ Occupancy' = Occupancy + 1
  BY WidthTwice DEF InWidth, HasRoom, Occupancy, Advance
<1>2. Occupancy \in Nat /\ Occupancy < Ring /\ Slot(tail) = Slot(head + Occupancy)
  BY RingSize, WidthTwice DEF HasRoom
<1>3. head \in Nat
  BY WidthTwice DEF InWidth
<1>4. ASSUME NEW i \in 1..Occupancy PROVE Slot(head + i - 1) # Slot(tail)
  <2>1. Occupancy + 1 \in 0..Ring /\ i \in 1..Occupancy+1 /\ i < Occupancy + 1
        /\ Occupancy + 1 \in 1..Occupancy+1
    BY <1>2, WidthTwice
  <2>2. Slot(head + i - 1) # Slot(head + (Occupancy + 1) - 1)
    BY <2>1, <1>3, SlotsApart
  <2>3. head + (Occupancy + 1) - 1 = head + Occupancy
    BY <1>2, <1>3
  <2>4. QED BY <2>2, <2>3, <1>2
<1>5. Slot(tail) \notin Occupied
  BY <1>4 DEF Occupied
<1>6. Occupied' = {Slot(head + i - 1) : i \in 1..Occupancy+1}
  BY <1>1 DEF Occupied, Slot
<1>7. 1..Occupancy+1 = (1..Occupancy) \cup {Occupancy + 1}
  BY <1>2
<1>8. Slot(head + (Occupancy + 1) - 1) = Slot(tail)
  <2>1. head + (Occupancy + 1) - 1 = head + Occupancy
    BY <1>2, <1>3
  <2>2. QED BY <2>1, <1>2
<1>9. QED BY <1>1, <1>5, <1>6, <1>7, <1>8 DEF Occupied

LEMMA TakeRing ==
  ASSUME InWidth, Occupancy <= Ring, RingNonempty, head' = Advance(head), tail' = tail
  PROVE  /\ InWidth'
         /\ Occupancy \in 1..Ring
         /\ Occupancy' = Occupancy - 1
         /\ \A i \in 1..Occupancy-1 : Slot(head' + i - 1) = Slot(head + (i + 1) - 1)
         /\ Slot(head) \in Occupied
         /\ Occupied' = Occupied \ {Slot(head)}
<1>1. InWidth' /\ Occupancy' = Occupancy - 1
  BY WidthTwice DEF InWidth, Occupancy, Advance, RingNonempty
<1>2. Occupancy \in 1..Ring /\ head \in Nat
  BY RingSize, WidthTwice DEF InWidth
<1>3. ASSUME NEW i \in 1..Occupancy-1
      PROVE  Slot(head' + i - 1) = Slot(head + (i + 1) - 1)
  <2>1. CASE head + 1 # Width
    <3>1. head' + i - 1 = head + (i + 1) - 1
      BY <2>1, <1>2 DEF Advance
    <3>2. QED BY <3>1
  <2>2. CASE head + 1 = Width
    <3>1. head' + i - 1 \in Nat /\ head + (i + 1) - 1 = (head' + i - 1) + Width
      BY <2>2, <1>2, WidthTwice DEF Advance
    <3>2. QED BY <3>1, SlotPeriod
  <2>3. QED BY <2>1, <2>2
<1>4. Slot(head + 1 - 1) = Slot(head)
  <2>1. head + 1 - 1 = head
    BY <1>2
  <2>2. QED BY <2>1
<1>5. Slot(head) \in Occupied
  BY <1>2, <1>4 DEF Occupied
<1>6. ASSUME NEW i \in 1..Occupancy-1
      PROVE  Slot(head + (i + 1) - 1) # Slot(head)
  <2>1. 1 \in 1..Occupancy /\ i + 1 \in 1..Occupancy /\ 1 < i + 1 /\ Occupancy \in 0..Ring
    BY <1>2
  <2>2. Slot(head + 1 - 1) # Slot(head + (i + 1) - 1)
    BY <2>1, <1>2, SlotsApart
  <2>3. QED BY <2>2, <1>4
<1>7. Occupied' = {Slot(head' + i - 1) : i \in 1..Occupancy-1}
  BY <1>1 DEF Occupied, Slot
<1>8. Occupied' \subseteq Occupied \ {Slot(head)}
  <2>1. ASSUME NEW i \in 1..Occupancy-1
        PROVE  Slot(head' + i - 1) \in Occupied \ {Slot(head)}
    <3>1. i + 1 \in 1..Occupancy
      BY <1>2
    <3>2. QED BY <3>1, <1>3, <1>6 DEF Occupied
  <2>2. QED BY <2>1, <1>7
<1>9. Occupied \ {Slot(head)} \subseteq Occupied'
  <2>1. ASSUME NEW j \in 1..Occupancy, Slot(head + j - 1) # Slot(head)
        PROVE  Slot(head + j - 1) \in Occupied'
    <3>1. j # 1
      BY <2>1, <1>4
    <3>2. j - 1 \in 1..Occupancy-1 /\ (j - 1) + 1 = j
      BY <3>1, <1>2
    <3>3. Slot(head' + (j - 1) - 1) = Slot(head + j - 1)
      BY <3>2, <1>3
    <3>4. QED BY <3>2, <3>3, <1>7
  <2>2. QED BY <2>1 DEF Occupied
<1>10. QED BY <1>1, <1>2, <1>3, <1>5, <1>8, <1>9

-----------------------------------------------------------------------------
(* Counting references.                                                     *)
LEMMA CountOne ==
  ASSUME NEW S, IsFiniteSet(S), NEW x
  PROVE  /\ Cardinality(S) \in Nat /\ Cardinality(S \ {x}) \in Nat
         /\ Cardinality(S) = Cardinality(S \ {x}) + One(x \in S)
<1>1. /\ IsFiniteSet(S \ {x})
      /\ Cardinality(S \ {x}) = IF x \in S THEN Cardinality(S) - 1 ELSE Cardinality(S)
  BY FS_RemoveElement
<1>2. Cardinality(S) \in Nat /\ Cardinality(S \ {x}) \in Nat
  BY <1>1, FS_CardinalityType
<1>3. CASE x \in S
  BY <1>1, <1>2, <1>3 DEF One
<1>4. CASE x \notin S
  BY <1>1, <1>2, <1>4 DEF One
<1>5. QED BY <1>3, <1>4

LEMMA CountTwo ==
  ASSUME NEW S, NEW T, IsFiniteSet(S), IsFiniteSet(T), NEW x, S \ {x} = T \ {x}
  PROVE  /\ Cardinality(S) \in Nat /\ Cardinality(T) \in Nat
         /\ Cardinality(T) + One(x \in S) = Cardinality(S) + One(x \in T)
<1>1. Cardinality(S) \in Nat /\ Cardinality(S \ {x}) \in Nat
      /\ Cardinality(S) = Cardinality(S \ {x}) + One(x \in S)
  BY CountOne
<1>2. Cardinality(T) \in Nat /\ Cardinality(T) = Cardinality(S \ {x}) + One(x \in T)
  BY CountOne
<1>3. QED BY <1>1, <1>2 DEF One

LEMMA HeldFinite ==
  ASSUME NEW m
  PROVE  IsFiniteSet({c \in Callers : arg[c].memcg = m}) /\ Held(m) \in Nat
BY FS_Subset, FS_CardinalityType, NameAssumption DEF Held

LEMMA HeldFiniteNext ==
  ASSUME NEW m
  PROVE  IsFiniteSet({c \in Callers : arg'[c].memcg = m})
BY FS_Subset, NameAssumption

LEMMA HeldChange ==
  ASSUME NEW c \in Callers, \A d \in Callers : d # c => arg'[d] = arg[d]
  PROVE  \A m : /\ Held(m) \in Nat /\ Held(m)' \in Nat
                /\ Held(m)' + One(arg[c].memcg = m) = Held(m) + One(arg'[c].memcg = m)
<1> SUFFICES ASSUME NEW m
             PROVE  /\ Held(m) \in Nat /\ Held(m)' \in Nat
                    /\ Held(m)' + One(arg[c].memcg = m) = Held(m) + One(arg'[c].memcg = m)
  OBVIOUS
<1> DEFINE S == {d \in Callers : arg[d].memcg = m}
           T == {d \in Callers : arg'[d].memcg = m}
<1>1. S \ {c} = T \ {c} /\ (c \in S <=> arg[c].memcg = m) /\ (c \in T <=> arg'[c].memcg = m)
  OBVIOUS
<1>2. IsFiniteSet(S) /\ IsFiniteSet(T)
  BY HeldFinite, HeldFiniteNext
<1>3. Held(m) = Cardinality(S) /\ Held(m)' = Cardinality(T)
  BY DEF Held
<1> HIDE DEF S, T
<1>4. QED BY <1>1, <1>2, <1>3, CountTwo DEF One

LEMMA QueuedFinite ==
  ASSUME InWidth, NEW m
  PROVE  IsFiniteSet({i \in Occupied : ring[i].memcg = m}) /\ QueuedFor(m) \in Nat
<1>1. IsFiniteSet(0..Ring-1)
  BY FS_Interval, WidthTwice
<1>2. {i \in Occupied : ring[i].memcg = m} \in SUBSET (0..Ring-1)
  BY RingSize
<1>3. QED BY <1>1, <1>2, FS_Subset, FS_CardinalityType DEF QueuedFor

LEMMA QueuedPut ==
  ASSUME InWidth, HasRoom, NEW m, head' = head, tail' = Advance(tail),
         \A i \in 0..Ring-1 : i # Slot(tail) => ring'[i] = ring[i]
  PROVE  /\ QueuedFor(m) \in Nat
         /\ QueuedFor(m)' = QueuedFor(m) + One(ring'[Slot(tail)].memcg = m)
<1> DEFINE S == {i \in Occupied : ring[i].memcg = m}
           T == {i \in Occupied' : ring'[i].memcg = m}
           x == Slot(tail)
<1>1. x \in 0..Ring-1
  BY SlotTyped, WidthTwice DEF InWidth
<1>2. /\ InWidth' /\ x \notin Occupied /\ Occupied' = Occupied \cup {x}
      /\ Occupied \subseteq 0..Ring-1
  BY PutRing, RingSize
<1>3. S \ {x} = T \ {x} /\ x \notin S /\ (x \in T <=> ring'[x].memcg = m)
  BY <1>1, <1>2
<1>4. IsFiniteSet(S) /\ QueuedFor(m) \in Nat
  BY QueuedFinite
<1>5. IsFiniteSet(T)
  <2>1. IsFiniteSet(S \cup {x})
    BY <1>4, FS_AddElement
  <2>2. T \subseteq S \cup {x}
    BY <1>3
  <2>3. QED BY <2>1, <2>2, FS_Subset
<1>6. QueuedFor(m) = Cardinality(S) /\ QueuedFor(m)' = Cardinality(T)
  BY DEF QueuedFor
<1>7. x = Slot(tail)
  OBVIOUS
<1> HIDE DEF S, T, x
<1>8. QED BY <1>3, <1>4, <1>5, <1>6, <1>7, CountTwo DEF One

LEMMA QueuedTake ==
  ASSUME InWidth, Occupancy <= Ring, RingNonempty, NEW m,
         head' = Advance(head), tail' = tail, ring' = ring
  PROVE  /\ QueuedFor(m) \in Nat /\ QueuedFor(m)' \in Nat
         /\ QueuedFor(m) = QueuedFor(m)' + One(ring[Slot(head)].memcg = m)
<1> DEFINE S == {i \in Occupied : ring[i].memcg = m}
           T == {i \in Occupied' : ring'[i].memcg = m}
           x == Slot(head)
<1>1. x \in Occupied /\ Occupied' = Occupied \ {x}
  BY TakeRing
<1>2. T = S \ {x} /\ (x \in S <=> ring[x].memcg = m)
  BY <1>1
<1>3. IsFiniteSet(S) /\ QueuedFor(m) \in Nat
  BY QueuedFinite
<1>4. QueuedFor(m) = Cardinality(S) /\ QueuedFor(m)' = Cardinality(T)
  BY DEF QueuedFor
<1>5. x = Slot(head)
  OBVIOUS
<1> HIDE DEF S, T, x
<1>6. /\ Cardinality(T) \in Nat
      /\ Cardinality(S) = Cardinality(T) + One(x \in S)
  BY <1>2, <1>3, CountOne
<1>7. QED BY <1>2, <1>3, <1>4, <1>5, <1>6

LEMMA OneNat == \A b : One(b) \in {0, 1} /\ One(TRUE) = 1 /\ One(FALSE) = 0
BY DEF One

(* What leaves the memcgs' references as they are.                          *)
LEMMA RingSame ==
  ASSUME UNCHANGED ringVars
  PROVE  /\ Occupancy' = Occupancy /\ Occupied' = Occupied
         /\ \A m : QueuedFor(m)' = QueuedFor(m)
         /\ (RingNonempty <=> RingNonempty')
         /\ Pending' = Pending
BY DEF ringVars, Occupancy, Occupied, Slot, QueuedFor, RingNonempty, Pending

-----------------------------------------------------------------------------
(* The inductive invariant.                                                 *)
LEMMA InitInv == Init => IInv
<1> SUFFICES ASSUME Init PROVE IInv
  OBVIOUS
<1> USE DEF Init
<1>1. TypeOK
  <2>1. /\ init_pc \in InitPc /\ wpc \in WorkerPc
        /\ request \in Request \cup {NoRequest}
        /\ ring \in [0..Ring-1 -> Request \cup {NoRequest}]
        /\ online \subseteq Memcgs
    BY DEF InitPc, WorkerPc, BusyPc
  <2>2. refs \in [Memcgs -> Nat] /\ curr \in [Callers -> Nat] /\ prev \in [Callers -> Nat]
    OBVIOUS
  <2>3. /\ pc \in [Callers -> CallerPc]
        /\ arg \in [Callers -> [memcg: Targets \cup {None}, priority: Nat]]
        /\ \A c \in Callers : pc[c] # "idle" => arg[c].memcg \in Targets
    BY DEF CallerPc
  <2>4. head \in 0..Width-1 /\ tail \in 0..Width-1
    BY WidthTwice
  <2>5. QED BY <2>1, <2>2, <2>3, <2>4 DEF TypeOK
<1>2. Occupancy = 0 /\ Occupied = {}
  BY DEF Occupancy, Occupied
<1>3. RingInv
  BY <1>2, WidthTwice DEF RingInv, Busy, BusyPc
<1>4. ASSUME NEW m \in Memcgs
      PROVE  refs[m] = One(m \in online) + Held(m) + QueuedFor(m) + One(request.memcg = m)
  <2>1. m # None
    BY NameAssumption
  <2>2. {c \in Callers : arg[c].memcg = m} = {}
    BY <2>1
  <2>3. {i \in Occupied : ring[i].memcg = m} = {}
    BY <1>2
  <2>4. Held(m) = 0 /\ QueuedFor(m) = 0
    BY <2>2, <2>3, FS_EmptySet DEF Held, QueuedFor
  <2>5. One(m \in online) = 1 /\ One(request.memcg = m) = 0
    BY <2>1 DEF One, NoRequest
  <2>6. QED BY <2>4, <2>5
<1>5. QED BY <1>1, <1>3, <1>4 DEF IInv, PinsExact

LEMMA InvWidth == TypeOK => InWidth
BY DEF TypeOK, InWidth

(* A step that touches no reference and nothing that is counted.            *)
LEMMA FrameInv ==
  ASSUME IInv, TypeOK', UNCHANGED <<ringVars, request, online, refs, arg>>,
         Busy' <=> Busy, init_pc' = "spawn" => wpc' = "unborn",
         \A c \in Callers : pc'[c] = "idle" => pc[c] = "idle"
  PROVE  IInv'
<1>1. /\ Occupancy' = Occupancy /\ Occupied' = Occupied
      /\ \A m : QueuedFor(m)' = QueuedFor(m)
  BY RingSame
<1>2. \A m : Held(m)' = Held(m)
  BY DEF Held
<1>3. RingInv'
  BY <1>1 DEF IInv, RingInv, ringVars, Fit, Busy
<1>4. PinsExact'
  BY <1>1, <1>2 DEF IInv, PinsExact
<1>5. QED BY <1>3, <1>4 DEF IInv

LEMMA InitStepInv ==
  ASSUME IInv, InitStep
  PROVE  IInv'
<1> USE DEF InitUnchanged, ringVars, memcgVars, callerVars
<1>1. /\ UNCHANGED <<ringVars, request, online, refs, arg, pc, curr, prev>>
      /\ init_pc' = "spawn" => wpc' = "unborn"
      /\ Busy' <=> Busy
  BY DEF InitStep, InitSpawn, InitRegister, InitSeed, InitEnable, InitStop, InitJoin,
         Busy, BusyPc, IInv, RingInv
<1>2. TypeOK'
  <2> USE DEF IInv, TypeOK, InitPc, WorkerPc
  <2>1. CASE InitSpawn
    BY <2>1 DEF InitSpawn
  <2>2. CASE InitRegister
    BY <2>2 DEF InitRegister
  <2>3. CASE InitSeed
    BY <2>3, NumberAssumption DEF InitSeed, Now
  <2>4. CASE InitEnable
    BY <2>4 DEF InitEnable
  <2>5. CASE InitStop
    BY <2>5 DEF InitStop
  <2>6. CASE InitJoin
    BY <2>6 DEF InitJoin
  <2>7. QED BY <2>1, <2>2, <2>3, <2>4, <2>5, <2>6 DEF InitStep
<1>3. QED BY <1>1, <1>2, FrameInv

LEMMA QuietCallerInv ==
  ASSUME IInv, NEW c \in Callers,
         \/ \E window \in Windows : ReadPrev(c, window)
         \/ Claim(c)
         \/ WakeWorker(c)
  PROVE  IInv'
<1> USE DEF HookUnchanged, initVars
<1>1. /\ UNCHANGED <<ringVars, request, online, refs, arg, wpc, init_pc>>
      /\ \A d \in Callers : pc'[d] = "idle" => pc[d] = "idle"
  BY DEF ReadPrev, Claim, WakeWorker, Goto, IInv, TypeOK, ringVars
<1>2. TypeOK'
  <2> USE DEF IInv, TypeOK, Goto, CallerPc
  <2>1. CASE \E window \in Windows : ReadPrev(c, window)
    BY <2>1 DEF ReadPrev
  <2>2. CASE Claim(c)
    <3>1. PICK to \in {"queue", "return"} : pc[c] = "claim" /\ pc' = [pc EXCEPT ![c] = to]
      BY <2>2 DEF Claim
    <3>2. pc' \in [Callers -> CallerPc] /\ \A d \in Callers : pc'[d] # "idle" => pc[d] # "idle"
      BY <3>1
    <3>3. prev_jiffies' \in Nat
      BY <2>2 DEF Claim
    <3>4. UNCHANGED <<init_pc, task, enabled, should_stop, jiffies, ring, head, tail,
                      wpc, waiter, request, online, refs, arg, curr, prev>>
      BY <2>2 DEF Claim
    <3>5. QED BY <3>2, <3>3, <3>4
  <2>3. CASE WakeWorker(c)
    BY <2>3 DEF WakeWorker
  <2>4. QED BY <2>1, <2>2, <2>3
<1>3. (Busy' <=> Busy) /\ (init_pc' = "spawn" => wpc' = "unborn")
  BY <1>1 DEF Busy, IInv, RingInv
<1>4. QED BY <1>1, <1>2, <1>3, FrameInv

LEMMA QuietWorkerInv ==
  ASSUME IInv,
         WorkerLoop \/ WorkerPrepare \/ WorkerCheck \/ WorkerWakes \/ WorkerDrained
  PROVE  IInv'
<1> USE DEF WorkerUnchanged, WorkerGoto, WorkerLoop, WorkerPrepare, WorkerCheck,
            WorkerWakes, WorkerDrained, initVars, callerVars
<1>1. UNCHANGED <<ringVars, request, online, refs, arg, pc, init_pc>>
  BY DEF ringVars
<1>2. TypeOK'
  BY DEF IInv, TypeOK, WorkerPc
<1>3. (Busy' <=> Busy) /\ (init_pc' = "spawn" => wpc' = "unborn")
  BY DEF Busy, BusyPc, IInv, RingInv
<1>4. QED BY <1>1, <1>2, <1>3, FrameInv

(* The reference counts, with the types a step needs.                       *)
LEMMA PinsKnown ==
  ASSUME IInv, NEW m \in Memcgs
  PROVE  /\ Held(m) \in Nat /\ QueuedFor(m) \in Nat /\ refs[m] \in Nat
         /\ refs[m] = One(m \in online) + Held(m) + QueuedFor(m) + One(request.memcg = m)
BY HeldFinite, QueuedFinite, InvWidth DEF IInv, PinsExact, TypeOK

LEMMA ShrinkSlabInv ==
  ASSUME IInv, NEW c \in Callers, NEW kind \in Kinds, NEW t \in Targets,
         NEW p \in Priorities, ShrinkSlab(c, kind, t, p)
  PROVE  IInv'
<1> DEFINE a == [memcg |-> t, priority |-> p]
<1> USE DEF HookUnchanged, initVars
<1>1. /\ pc[c] = "idle" /\ pc' = [pc EXCEPT ![c] = "prev"]
      /\ arg' = [arg EXCEPT ![c] = a]
      /\ refs' = IF t \in Memcgs THEN [refs EXCEPT ![t] = @ + 1] ELSE refs
      /\ UNCHANGED <<ringVars, request, online, wpc, init_pc>>
  BY DEF ShrinkSlab, Goto, ringVars
<1>2. TypeOK'
  <2>1. UNCHANGED <<init_pc, task, enabled, should_stop, prev_jiffies, ring, head, tail,
                    wpc, waiter, request, online, prev>>
    BY DEF ShrinkSlab
  <2>2. jiffies' \in Nat /\ curr' \in [Callers -> Nat]
    BY NumberAssumption DEF ShrinkSlab, Now, IInv, TypeOK
  <2>3. a \in [memcg: Targets \cup {None}, priority: Nat] /\ a.memcg \in Targets
    BY NumberAssumption
  <2>4. pc' \in [Callers -> CallerPc] /\ arg' \in [Callers -> [memcg: Targets \cup {None}, priority: Nat]]
    BY <1>1, <2>3 DEF IInv, TypeOK, CallerPc
  <2>5. \A d \in Callers : pc'[d] # "idle" => arg'[d].memcg \in Targets
    BY <1>1, <2>3 DEF IInv, TypeOK
  <2>6. refs' \in [Memcgs -> Nat]
    BY <1>1 DEF IInv, TypeOK
  <2>7. QED BY <2>1, <2>2, <2>4, <2>5, <2>6 DEF IInv, TypeOK
<1>3. /\ Occupancy' = Occupancy /\ Occupied' = Occupied
      /\ \A m : QueuedFor(m)' = QueuedFor(m)
  BY <1>1, RingSame
<1>4. RingInv'
  BY <1>1, <1>3 DEF IInv, TypeOK, RingInv, Busy, Fit, ringVars
<1>5. ASSUME NEW m \in Memcgs
      PROVE  (refs[m] = One(m \in online) + Held(m) + QueuedFor(m) + One(request.memcg = m))'
  <2>1. Held(m)' \in Nat /\ Held(m)' + One(arg[c].memcg = m) = Held(m) + One(a.memcg = m)
    <3>1. arg'[c] = a /\ \A d \in Callers : d # c => arg'[d] = arg[d]
      BY <1>1 DEF IInv, TypeOK
    <3>2. QED BY <3>1, HeldChange DEF One
  <2>2. arg[c].memcg # m
    BY <1>1, NameAssumption DEF IInv, RingInv
  <2>3. Held(m)' = Held(m) + One(t = m)
    BY <2>1, <2>2, PinsKnown DEF One
  <2>4. refs'[m] = refs[m] + One(t = m)
    BY <1>1 DEF IInv, TypeOK, One
  <2>5. QED BY <2>3, <2>4, <1>1, <1>3, PinsKnown, OneNat
<1>6. QED BY <1>2, <1>4, <1>5 DEF IInv, PinsExact

LEMMA HookReturnInv ==
  ASSUME IInv, NEW c \in Callers, HookReturn(c)
  PROVE  IInv'
<1> DEFINE a == [memcg |-> None, priority |-> 0]
           t == arg[c].memcg
<1> USE DEF HookUnchanged, initVars
<1>1. /\ pc[c] = "return" /\ pc' = [pc EXCEPT ![c] = "idle"]
      /\ arg' = [arg EXCEPT ![c] = a]
      /\ refs' = IF t \in Memcgs THEN [refs EXCEPT ![t] = @ - 1] ELSE refs
      /\ UNCHANGED <<ringVars, request, online, wpc, init_pc>>
  BY DEF HookReturn, Goto, ringVars
<1>2. ASSUME NEW m \in Memcgs
      PROVE  /\ refs'[m] = refs[m] - One(t = m) /\ refs'[m] \in Nat
             /\ (refs[m] = One(m \in online) + Held(m) + QueuedFor(m) + One(request.memcg = m))'
  <2>1. Held(m)' \in Nat /\ Held(m)' + One(t = m) = Held(m) + One(a.memcg = m)
    <3>1. arg'[c] = a /\ \A d \in Callers : d # c => arg'[d] = arg[d]
      BY <1>1 DEF IInv, TypeOK
    <3>2. QED BY <3>1, HeldChange DEF One
  <2>2. One(a.memcg = m) = 0
    BY NameAssumption DEF One
  <2>3. refs'[m] = refs[m] - One(t = m)
    BY <1>1 DEF IInv, TypeOK, One
  <2>4. QueuedFor(m)' = QueuedFor(m)
    BY <1>1, RingSame
  <2> HIDE DEF a, t
  <2>5. QED BY <1>1, <2>1, <2>2, <2>3, <2>4, PinsKnown, OneNat
<1>3. TypeOK'
  <2>1. UNCHANGED <<init_pc, task, enabled, should_stop, jiffies, prev_jiffies, ring, head,
                    tail, wpc, waiter, request, online>>
    BY DEF HookReturn
  <2>2. curr' \in [Callers -> Nat] /\ prev' \in [Callers -> Nat]
    BY DEF HookReturn, IInv, TypeOK
  <2>3. pc' \in [Callers -> CallerPc] /\ arg' \in [Callers -> [memcg: Targets \cup {None}, priority: Nat]]
    BY <1>1 DEF IInv, TypeOK, CallerPc
  <2>4. \A d \in Callers : pc'[d] # "idle" => arg'[d].memcg \in Targets
    BY <1>1 DEF IInv, TypeOK
  <2>5. refs' \in [Memcgs -> Nat]
    <3>1. refs' = [m \in Memcgs |-> refs'[m]]
      BY <1>1 DEF IInv, TypeOK
    <3>2. QED BY <3>1, <1>2
  <2>6. QED BY <2>1, <2>2, <2>3, <2>4, <2>5 DEF IInv, TypeOK
<1>4. Occupancy' = Occupancy /\ Occupied' = Occupied
  BY <1>1, RingSame
<1>5. RingInv'
  BY <1>1, <1>4 DEF IInv, TypeOK, RingInv, Busy, Fit, ringVars
<1>6. QED BY <1>2, <1>3, <1>5 DEF IInv, PinsExact

LEMMA OfflineInv ==
  ASSUME IInv, NEW t \in Memcgs, MemcgOffline(t)
  PROVE  IInv'
<1> USE DEF MemcgOffline, initVars, ringVars, workerVars, callerVars
<1>1. /\ t \in online /\ online' = online \ {t} /\ refs' = [refs EXCEPT ![t] = @ - 1]
      /\ UNCHANGED <<ringVars, request, arg, pc, wpc, init_pc>>
  OBVIOUS
<1>2. ASSUME NEW m \in Memcgs
      PROVE  /\ refs'[m] \in Nat
             /\ (refs[m] = One(m \in online) + Held(m) + QueuedFor(m) + One(request.memcg = m))'
  <2>1. QueuedFor(m)' = QueuedFor(m) /\ Held(m)' = Held(m)
    BY <1>1, RingSame DEF Held
  <2>2. refs'[m] = refs[m] - One(t = m) /\ One(m \in online') = One(m \in online) - One(t = m)
    BY <1>1 DEF IInv, TypeOK, One
  <2>3. QED BY <1>1, <2>1, <2>2, PinsKnown, OneNat
<1>3. TypeOK'
  <2>1. refs' = [m \in Memcgs |-> refs'[m]]
    BY <1>1 DEF IInv, TypeOK
  <2>2. refs' \in [Memcgs -> Nat]
    BY <2>1, <1>2
  <2>3. QED BY <1>1, <2>2 DEF IInv, TypeOK
<1>4. Occupancy' = Occupancy /\ Occupied' = Occupied
  BY <1>1, RingSame
<1>5. RingInv'
  BY <1>1, <1>4 DEF IInv, RingInv, Busy, Fit
<1>6. QED BY <1>2, <1>3, <1>5 DEF IInv, PinsExact

LEMMA QueueRequestInv ==
  ASSUME IInv, NEW c \in Callers, QueueRequest(c)
  PROVE  IInv'
<1> DEFINE t == arg[c].memcg
           r == [memcg |-> t, priority |-> arg[c].priority, pinned |-> t \in Memcgs]
           x == Slot(tail)
<1> USE DEF initVars, workerVars
<1>1. /\ UNCHANGED <<initVars, jiffies, prev_jiffies, head, workerVars, online, arg, curr, prev>>
      /\ pc[c] = "queue"
      /\ pc' \in [Callers -> CallerPc]
      /\ \A d \in Callers : pc'[d] = "idle" => pc[d] = "idle"
      /\ \A d \in Callers : pc'[d] # "idle" => pc[d] # "idle"
  BY DEF QueueRequest, Goto, IInv, TypeOK, CallerPc
<1>2. CASE ~(task /\ HasRoom /\ MayQueue(t))
  <2>1. UNCHANGED <<ring, tail, refs>>
    BY <1>2 DEF QueueRequest
  <2>2. TypeOK'
    BY <1>1, <2>1 DEF IInv, TypeOK
  <2>3. (Busy' <=> Busy) /\ (init_pc' = "spawn" => wpc' = "unborn")
    BY <1>1 DEF Busy, IInv, RingInv
  <2>4. QED BY <1>1, <2>1, <2>2, <2>3, FrameInv DEF ringVars
<1>3. CASE task /\ HasRoom /\ MayQueue(t)
  <2>1. /\ ring' = [ring EXCEPT ![x] = r] /\ tail' = Advance(tail) /\ refs' = Pin(t)
    BY <1>3 DEF QueueRequest
  <2>2. InWidth /\ x \in 0..Ring-1
    BY InvWidth, SlotTyped, WidthTwice DEF IInv, InWidth
  <2>3. /\ InWidth' /\ Occupancy' = Occupancy + 1
        /\ Occupied' = Occupied \cup {x} /\ Occupied \subseteq 0..Ring-1
    BY <1>1, <1>3, <2>1, <2>2, PutRing, RingSize
  <2>4. t \in Targets /\ Fit(r)
    BY <1>1 DEF IInv, TypeOK, Fit, Request
  <2>5. ring'[x] = r /\ \A i \in 0..Ring-1 : i # x => ring'[i] = ring[i]
    BY <2>1, <2>2 DEF IInv, TypeOK
  <2>6. TypeOK'
    <3>1. ring' \in [0..Ring-1 -> Request \cup {NoRequest}]
      BY <2>1, <2>4 DEF IInv, TypeOK, Fit
    <3>2. refs' \in [Memcgs -> Nat]
      BY <2>1 DEF IInv, TypeOK, Pin
    <3>3. \A d \in Callers : pc'[d] # "idle" => arg'[d].memcg \in Targets
      BY <1>1 DEF IInv, TypeOK
    <3>4. QED BY <1>1, <2>3, <3>1, <3>2, <3>3 DEF IInv, TypeOK, InWidth
  <2>7. RingInv'
    <3>1. Occupancy' <= Ring
      BY <1>3, <2>2, <2>3, RingSize, WidthTwice DEF HasRoom
    <3>2. \A i \in Occupied' : Fit(ring'[i])
      BY <2>3, <2>4, <2>5 DEF IInv, RingInv
    <3>3. QED BY <1>1, <3>1, <3>2 DEF IInv, RingInv, Busy, Fit
  <2>8. ASSUME NEW m \in Memcgs
        PROVE  (refs[m] = One(m \in online) + Held(m) + QueuedFor(m) + One(request.memcg = m))'
    <3>1. QueuedFor(m)' = QueuedFor(m) + One(t = m)
      <4>1. QueuedFor(m)' = QueuedFor(m) + One(ring'[Slot(tail)].memcg = m)
        BY <1>1, <1>3, <2>1, <2>2, <2>5, QueuedPut
      <4>2. QED BY <4>1, <2>5
    <3>2. Held(m)' = Held(m)
      BY <1>1 DEF Held
    <3>3. refs'[m] = refs[m] + One(t = m)
      BY <2>1 DEF IInv, TypeOK, Pin, One
    <3>4. QED BY <1>1, <3>1, <3>2, <3>3, PinsKnown, OneNat
  <2>9. QED BY <2>6, <2>7, <2>8 DEF IInv, PinsExact
<1>4. QED BY <1>2, <1>3

LEMMA WorkerTakeInv ==
  ASSUME IInv, WorkerTake
  PROVE  IInv'
<1> DEFINE x == Slot(head)
<1> USE DEF initVars, callerVars
<1>1. /\ RingNonempty /\ request' = ring[x] /\ head' = Advance(head)
      /\ wpc = "drain" /\ wpc' = "shrink"
      /\ UNCHANGED <<waiter, refs, initVars, jiffies, prev_jiffies, ring, tail, online, callerVars>>
  BY DEF WorkerTake, WorkerGoto, WorkerUnchanged
<1>2. InWidth /\ Occupancy <= Ring
  BY InvWidth DEF IInv, RingInv
<1>3. /\ InWidth' /\ Occupancy \in 1..Ring /\ Occupancy' = Occupancy - 1
      /\ x \in Occupied /\ Occupied' = Occupied \ {x}
  BY <1>1, <1>2, TakeRing
<1>4. Fit(request')
  BY <1>1, <1>3 DEF IInv, RingInv
<1>5. TypeOK'
  BY <1>1, <1>3, <1>4 DEF IInv, TypeOK, Fit, InWidth, WorkerPc, BusyPc
<1>6. RingInv'
  <2>1. Occupancy' <= Ring
    BY <1>3, WidthTwice
  <2>2. \A i \in Occupied' : Fit(ring'[i])
    BY <1>1, <1>3 DEF IInv, RingInv
  <2>3. QED BY <1>1, <1>4, <2>1, <2>2 DEF IInv, RingInv, Busy, BusyPc, Fit
<1>7. ASSUME NEW m \in Memcgs
      PROVE  (refs[m] = One(m \in online) + Held(m) + QueuedFor(m) + One(request.memcg = m))'
  <2>1. QueuedFor(m) = QueuedFor(m)' + One(ring[Slot(head)].memcg = m) /\ QueuedFor(m)' \in Nat
    BY <1>1, <1>2, QueuedTake
  <2>2. Held(m)' = Held(m)
    BY <1>1 DEF Held
  <2>3. One(request.memcg = m) = 0
    <3>1. request = NoRequest /\ m # None
      BY <1>1, NameAssumption DEF IInv, RingInv, Busy, BusyPc
    <3>2. QED BY <3>1 DEF NoRequest, One
  <2>4. QED BY <1>1, <2>1, <2>2, <2>3, PinsKnown, OneNat
<1>8. QED BY <1>5, <1>6, <1>7 DEF IInv, PinsExact

LEMMA Tuned ==
  ASSUME NEW p \in Nat, NEW low \in BOOLEAN
  PROVE  TunePriority(p, low) \in Nat
<1>1. DefPriority \div 2 \in Nat
  BY NumberAssumption, DivMod
<1>2. QED BY <1>1, NumberAssumption DEF TunePriority

LEMMA WorkerShrinkInv ==
  ASSUME IInv, NEW low \in BOOLEAN, WorkerShrink(low)
  PROVE  IInv'
<1> USE DEF initVars, callerVars
<1>1. /\ request' = [request EXCEPT !.priority = TunePriority(@, low)]
      /\ wpc = "shrink" /\ wpc' = "put"
      /\ UNCHANGED <<head, waiter, refs, initVars, jiffies, prev_jiffies, ring, tail, online, callerVars>>
  BY DEF WorkerShrink, WorkerGoto, WorkerUnchanged
<1>2. Fit(request)
  BY <1>1 DEF IInv, RingInv, Busy, BusyPc
<1>3. Fit(request') /\ request'.memcg = request.memcg
  <2>1. request.priority \in Nat
    BY <1>2 DEF Fit, Request
  <2>2. TunePriority(request.priority, low) \in Nat
    BY <2>1, Tuned
  <2>3. QED BY <1>1, <1>2, <2>2 DEF Fit, Request
<1>4. /\ Occupancy' = Occupancy /\ Occupied' = Occupied
      /\ \A m : QueuedFor(m)' = QueuedFor(m)
  BY <1>1, RingSame DEF ringVars
<1>5. TypeOK'
  BY <1>1, <1>3 DEF IInv, TypeOK, Fit, WorkerPc, BusyPc
<1>6. RingInv'
  BY <1>1, <1>3, <1>4 DEF IInv, RingInv, Busy, BusyPc, Fit
<1>7. \A m : Held(m)' = Held(m)
  BY <1>1 DEF Held
<1>8. PinsExact'
  BY <1>1, <1>3, <1>4, <1>7 DEF IInv, PinsExact
<1>9. QED BY <1>5, <1>6, <1>8 DEF IInv

LEMMA WorkerPutInv ==
  ASSUME IInv, WorkerPut
  PROVE  IInv'
<1> DEFINE t == request.memcg
<1> USE DEF initVars, callerVars
<1>1. /\ refs' = IF request.pinned THEN [refs EXCEPT ![t] = @ - 1] ELSE refs
      /\ request' = NoRequest /\ wpc = "put" /\ wpc' = "drain"
      /\ UNCHANGED <<head, waiter, initVars, jiffies, prev_jiffies, ring, tail, online, callerVars>>
  BY DEF WorkerPut, WorkerGoto, WorkerUnchanged
<1>2. request.pinned = (t \in Memcgs)
  BY <1>1 DEF IInv, RingInv, Busy, BusyPc, Fit
<1>3. refs' = IF t \in Memcgs THEN [refs EXCEPT ![t] = @ - 1] ELSE refs
  BY <1>1, <1>2, Zenon
<1>4. /\ Occupancy' = Occupancy /\ Occupied' = Occupied
      /\ \A m : QueuedFor(m)' = QueuedFor(m)
  BY <1>1, RingSame DEF ringVars
<1>5. ASSUME NEW m \in Memcgs
      PROVE  /\ refs'[m] \in Nat
             /\ (refs[m] = One(m \in online) + Held(m) + QueuedFor(m) + One(request.memcg = m))'
  <2>1. Held(m)' = Held(m)
    BY <1>1 DEF Held
  <2>2. One(request'.memcg = m) = 0
    BY <1>1, NameAssumption DEF NoRequest, One
  <2>3. refs'[m] = refs[m] - One(t = m)
    BY <1>3 DEF IInv, TypeOK, One
  <2>4. QED BY <1>1, <1>4, <2>1, <2>2, <2>3, PinsKnown, OneNat
<1>6. TypeOK'
  <2>1. refs' = [m \in Memcgs |-> refs'[m]]
    BY <1>3 DEF IInv, TypeOK
  <2>2. refs' \in [Memcgs -> Nat]
    BY <2>1, <1>5
  <2>3. QED BY <1>1, <2>2 DEF IInv, TypeOK, WorkerPc
<1>7. RingInv'
  BY <1>1, <1>4 DEF IInv, RingInv, Busy, BusyPc, Fit
<1>8. QED BY <1>5, <1>6, <1>7 DEF IInv, PinsExact

LEMMA StepInv == IInv /\ [Next]_vars => IInv'
<1> SUFFICES ASSUME IInv, [Next]_vars PROVE IInv'
  OBVIOUS
<1>1. CASE InitStep
  BY <1>1, InitStepInv
<1>2. ASSUME NEW c \in Callers, NEW kind \in Kinds, NEW m \in Targets, NEW p \in Priorities,
             ShrinkSlab(c, kind, m, p)
      PROVE  IInv'
  BY <1>2, ShrinkSlabInv
<1>3. ASSUME NEW c \in Callers, CallerStep(c)
      PROVE  IInv'
  BY <1>3, QuietCallerInv, QueueRequestInv, HookReturnInv DEF CallerStep
<1>4. CASE WorkerStep
  BY <1>4, QuietWorkerInv, WorkerTakeInv, WorkerShrinkInv, WorkerPutInv DEF WorkerStep
<1>5. ASSUME NEW m \in Memcgs, MemcgOffline(m)
      PROVE  IInv'
  BY <1>5, OfflineInv
<1>6. CASE UNCHANGED vars
  <2>1. UNCHANGED <<ringVars, request, online, refs, arg, pc, wpc, init_pc>>
    BY <1>6 DEF vars, initVars, workerVars, memcgVars, callerVars
  <2>2. TypeOK'
    <3>1. UNCHANGED <<init_pc, task, enabled, should_stop, jiffies, prev_jiffies, ring, head,
                      tail, wpc, waiter, request, online, refs, pc, arg, curr, prev>>
      BY <1>6 DEF vars, initVars, ringVars, workerVars, memcgVars, callerVars
    <3>2. QED BY <3>1 DEF IInv, TypeOK
  <2>3. QED BY <2>1, <2>2, FrameInv DEF Busy, IInv, RingInv
<1>7. QED BY <1>1, <1>2, <1>3, <1>4, <1>5, <1>6 DEF Next

-----------------------------------------------------------------------------
(* The references of every memcg are those of its online css, of the tasks *)
(* that reclaim from it, of the ring and of the worker, with the ring       *)
(* invariant that makes this inductive.                                     *)
THEOREM RingInvariant == Spec => []IInv
BY InitInv, StepInv, PTL DEF Spec

(* Every variable keeps its type: in particular head and tail stay counters *)
(* of their width and no reference count of a memcg goes below zero.        *)
THEOREM TypeCorrect == Spec => []TypeOK
BY RingInvariant, PTL DEF IInv

(* Counting the references of the queue and the worker is exact: a failed   *)
(* queueing leaks none and a served request gives its own back.             *)
THEOREM PinsCorrect == Spec => []PinsExact
BY RingInvariant, PTL DEF IInv

(* A memcg in the ring or in the worker's hands has not been freed.         *)
THEOREM MemcgsSafe == Spec => []MemcgsKept
<1>1. IInv => MemcgsKept
  <2> SUFFICES ASSUME IInv PROVE MemcgsKept
    OBVIOUS
  <2>1. InWidth /\ Occupancy \in Nat
    BY InvWidth, RingSize, WidthTwice DEF IInv
  <2>2. ASSUME NEW i \in 1..Occupancy
        PROVE  ~Freed(Pending[i].memcg)
    <3> DEFINE x == Slot(head + i - 1)
               m == ring[x].memcg
    <3>1. Pending[i].memcg = m /\ x \in Occupied
      BY DEF Pending, Occupied
    <3>2. ASSUME m \in Memcgs PROVE refs[m] # 0
      <4>1. IsFiniteSet({j \in Occupied : ring[j].memcg = m})
        BY <2>1, QueuedFinite
      <4>2. x \in {j \in Occupied : ring[j].memcg = m}
        BY <3>1
      <4>3. QueuedFor(m) # 0
        BY <4>1, <4>2, FS_EmptySet DEF QueuedFor
      <4>4. QED BY <3>2, <4>3, PinsKnown, OneNat
    <3>3. QED BY <3>1, <3>2 DEF Freed
  <2>3. ASSUME Busy PROVE ~Freed(request.memcg)
    <3>1. ASSUME request.memcg \in Memcgs PROVE refs[request.memcg] # 0
      <4> DEFINE m == request.memcg
      <4>1. One(request.memcg = m) = 1
        BY DEF One
      <4>2. QED BY <3>1, <4>1, PinsKnown, OneNat
    <3>2. QED BY <3>1 DEF Freed
  <2>4. QED BY <2>2, <2>3 DEF MemcgsKept
<1>2. QED BY <1>1, RingInvariant, PTL

-----------------------------------------------------------------------------
(* A worker that sleeps over a nonempty ring is about to be woken by the    *)
(* task that put the request there.                                         *)
THEOREM WorkerAwake == Spec => []NoLostWake
<1>1. Init => NoLostWake
  BY DEF Init, NoLostWake
<1>2. ASSUME TypeOK, NoLostWake, [Next]_vars
      PROVE  NoLostWake'
  <2> SUFFICES ASSUME (wpc = "asleep" /\ waiter /\ RingNonempty)'
               PROVE  \E d \in Callers : pc'[d] = "wake"
    BY DEF NoLostWake
  <2>1. CASE InitStep
    BY <1>2, <2>1 DEF InitStep, InitSpawn, InitRegister, InitSeed, InitEnable, InitStop,
       InitJoin, InitUnchanged, ringVars, callerVars, NoLostWake, RingNonempty
  <2>2. ASSUME NEW c \in Callers, NEW kind \in Kinds, NEW m \in Targets, NEW p \in Priorities,
               ShrinkSlab(c, kind, m, p)
        PROVE  \E d \in Callers : pc'[d] = "wake"
    BY <1>2, <2>2 DEF ShrinkSlab, Goto, HookUnchanged, NoLostWake, RingNonempty, TypeOK
  <2>3. ASSUME NEW c \in Callers, CallerStep(c)
        PROVE  \E d \in Callers : pc'[d] = "wake"
    <3> USE DEF Goto, HookUnchanged, NoLostWake, RingNonempty, TypeOK
    <3>1. CASE \E window \in Windows : ReadPrev(c, window)
      BY <1>2, <3>1 DEF ReadPrev
    <3>2. CASE Claim(c)
      <4>1. PICK to \in {"queue", "return"} : pc[c] = "claim" /\ pc' = [pc EXCEPT ![c] = to]
        BY <3>2 DEF Claim
      <4>2. UNCHANGED <<wpc, waiter, head, tail>>
        BY <3>2 DEF Claim
      <4>3. QED BY <1>2, <4>1, <4>2
    <3>3. CASE QueueRequest(c)
      <4>1. CASE pc'[c] = "wake"
        BY <4>1
      <4>2. CASE pc'[c] # "wake"
        <5>1. UNCHANGED <<wpc, waiter, head, tail>> /\ pc[c] = "queue"
              /\ pc' = [pc EXCEPT ![c] = "return"]
          BY <1>2, <3>3, <4>2 DEF QueueRequest, workerVars
        <5>2. QED BY <1>2, <5>1
      <4>3. QED BY <4>1, <4>2
    <3>4. CASE WakeWorker(c)
      BY <1>2, <3>4 DEF WakeWorker
    <3>5. CASE HookReturn(c)
      BY <1>2, <3>5 DEF HookReturn
    <3>6. QED BY <2>3, <3>1, <3>2, <3>3, <3>4, <3>5 DEF CallerStep
  <2>4. CASE WorkerStep
    <3> USE DEF WorkerGoto, WorkerUnchanged, RingNonempty
    <3>1. ~(WorkerLoop \/ WorkerPrepare \/ WorkerWakes \/ WorkerDrained \/ WorkerTake
            \/ WorkerPut \/ \E low \in BOOLEAN : WorkerShrink(low))
      BY DEF WorkerLoop, WorkerPrepare, WorkerWakes, WorkerDrained, WorkerTake, WorkerPut,
         WorkerShrink
    <3>2. CASE WorkerCheck
      BY <3>2 DEF WorkerCheck
    <3>3. QED BY <2>4, <3>1, <3>2 DEF WorkerStep
  <2>5. ASSUME NEW m \in Memcgs, MemcgOffline(m)
        PROVE  \E d \in Callers : pc'[d] = "wake"
    BY <1>2, <2>5 DEF MemcgOffline, ringVars, workerVars, callerVars, NoLostWake, RingNonempty
  <2>6. CASE UNCHANGED vars
    BY <1>2, <2>6 DEF vars, ringVars, workerVars, callerVars, NoLostWake, RingNonempty
  <2>7. QED BY <1>2, <2>1, <2>2, <2>3, <2>4, <2>5, <2>6 DEF Next
<1>3. QED BY <1>1, <1>2, TypeCorrect, PTL DEF Spec

-----------------------------------------------------------------------------
(* The refinement of the bounded queue.                                     *)
Entry == [memcg: Targets, pinned: BOOLEAN]

Entries == [i \in 1..Occupancy |-> Plain(Pending[i])]

Serving == IF Busy THEN Plain(request) ELSE None

LEMMA SeqOf ==
  ASSUME NEW S, NEW n \in Nat, NEW f \in [1..n -> S]
  PROVE  f \in Seq(S) /\ Len(f) = n
<1>1. f \in Seq(S)
  BY SMT
<1>2. DOMAIN f = 1..n /\ Len(f) \in Nat /\ DOMAIN f = 1..Len(f)
  BY <1>1, LenProperties
<1>3. QED BY <1>1, <1>2

LEMMA EntriesSeq ==
  IInv => /\ Occupancy \in Nat
          /\ Entries \in Seq(Entry) /\ Len(Entries) = Occupancy
          /\ \A i \in 1..Occupancy :
               /\ Entries[i] = Plain(ring[Slot(head + i - 1)])
               /\ Fit(ring[Slot(head + i - 1)])
<1> SUFFICES ASSUME IInv
             PROVE  /\ Occupancy \in Nat
                    /\ Entries \in Seq(Entry) /\ Len(Entries) = Occupancy
                    /\ \A i \in 1..Occupancy :
                         /\ Entries[i] = Plain(ring[Slot(head + i - 1)])
                         /\ Fit(ring[Slot(head + i - 1)])
  OBVIOUS
<1>1. Occupancy \in Nat
  BY InvWidth, RingSize, WidthTwice DEF IInv
<1>2. \A i \in 1..Occupancy :
        /\ Entries[i] = Plain(ring[Slot(head + i - 1)])
        /\ Fit(ring[Slot(head + i - 1)])
  BY DEF Entries, Pending, IInv, RingInv, Occupied
<1>3. \A i \in 1..Occupancy : Entries[i] \in Entry
  <2>1. \A r : Fit(r) => Plain(r) \in Entry
    BY DEF Plain, Fit, Request, Entry
  <2>2. QED BY <1>2, <2>1
<1>4. Entries \in [1..Occupancy -> Entry]
  BY <1>3 DEF Entries
<1>5. Entries \in Seq(Entry) /\ Len(Entries) = Occupancy
  BY <1>1, <1>4, SeqOf
<1>6. QED BY <1>1, <1>2, <1>5

LEMMA EntriesSeqNext ==
  IInv' => /\ Occupancy' \in Nat
           /\ Entries' \in Seq(Entry) /\ Len(Entries') = Occupancy'
           /\ \A i \in 1..Occupancy' :
                Entries'[i] = Plain(ring'[Slot(head' + i - 1)])
<1>1. (IInv => /\ Occupancy \in Nat
               /\ Entries \in Seq(Entry) /\ Len(Entries) = Occupancy
               /\ \A i \in 1..Occupancy :
                    /\ Entries[i] = Plain(ring[Slot(head + i - 1)])
                    /\ Fit(ring[Slot(head + i - 1)]))'
  BY EntriesSeq, PTL
<1>2. QED BY <1>1 DEF Plain, Slot

(* What the queue does not see.                                             *)
LEMMA Unseen ==
  ASSUME UNCHANGED ringVars, Busy' <=> Busy, Busy => Plain(request') = Plain(request)
  PROVE  UNCHANGED <<Entries, Serving>>
<1>1. Pending' = Pending /\ Occupancy' = Occupancy
  BY RingSame
<1>2. Entries' = Entries
  BY <1>1 DEF Entries, Plain
<1>3. Serving' = Serving
  BY DEF Serving, Plain
<1>4. QED BY <1>2, <1>3

LEMMA RequestQueued ==
  ASSUME IInv, IInv', NEW c \in Callers, QueueRequest(c), task, HasRoom,
         MayQueue(arg[c].memcg)
  PROVE  \E e \in Entry : /\ Len(Entries) < Ring
                          /\ Entries' = Append(Entries, e) /\ Serving' = Serving
<1> DEFINE t == arg[c].memcg
           r == [memcg |-> t, priority |-> arg[c].priority, pinned |-> t \in Memcgs]
           x == Slot(tail)
           n == Occupancy
<1>1. /\ ring' = [ring EXCEPT ![x] = r] /\ tail' = Advance(tail) /\ head' = head
      /\ UNCHANGED <<wpc, request>> /\ pc[c] = "queue"
  BY DEF QueueRequest, Goto, workerVars
<1>2. InWidth /\ x \in 0..Ring-1 /\ head \in Nat
  BY InvWidth, SlotTyped, WidthTwice DEF IInv, InWidth
<1>3. /\ Occupancy' = n + 1 /\ x \notin Occupied /\ Occupied \subseteq 0..Ring-1
      /\ x = Slot(head + n)
  BY <1>1, <1>2, PutRing, RingSize
<1>4. ring'[x] = r /\ \A i \in 0..Ring-1 : i # x => ring'[i] = ring[i]
  BY <1>1, <1>2 DEF IInv, TypeOK
<1>5. Plain(r) \in Entry
  BY <1>1 DEF IInv, TypeOK, Plain, Entry
<1>6. n \in Nat /\ Entries \in Seq(Entry) /\ Len(Entries) = n
      /\ \A i \in 1..n : Entries[i] = Plain(ring[Slot(head + i - 1)])
  BY EntriesSeq
<1>7. Entries' \in Seq(Entry) /\ Len(Entries') = n + 1
      /\ \A i \in 1..n+1 : Entries'[i] = Plain(ring'[Slot(head + i - 1)])
  BY <1>1, <1>3, EntriesSeqNext
<1> HIDE DEF n
<1>8. ASSUME NEW i \in 1..n PROVE Entries'[i] = Entries[i]
  <2>1. Slot(head + i - 1) \in Occupied
    BY DEF Occupied, n
  <2>2. ring'[Slot(head + i - 1)] = ring[Slot(head + i - 1)]
    BY <2>1, <1>3, <1>4
  <2>3. QED BY <2>2, <1>6, <1>7
<1>9. Entries'[n + 1] = Plain(r)
  <2>1. head + (n + 1) - 1 = head + n
    BY <1>2, <1>6
  <2>2. QED BY <2>1, <1>3, <1>4, <1>6, <1>7
<1> HIDE DEF r, x, t
<1>10. Entries' = Append(Entries, Plain(r))
  <2>1. /\ Append(Entries, Plain(r)) \in Seq(Entry)
        /\ Len(Append(Entries, Plain(r))) = n + 1
        /\ \A i \in 1..n : Append(Entries, Plain(r))[i] = Entries[i]
        /\ Append(Entries, Plain(r))[n + 1] = Plain(r)
    BY <1>5, <1>6, AppendProperties
  <2>2. \A i \in 1..n+1 : Entries'[i] = Append(Entries, Plain(r))[i]
    BY <2>1, <1>6, <1>8, <1>9
  <2>3. QED BY <2>1, <2>2, <1>7, SeqEqual
<1>11. Len(Entries) < Ring
  BY <1>6 DEF HasRoom, n
<1>12. Serving' = Serving
  BY <1>1 DEF Serving, Busy, Plain
<1>13. QED BY <1>5, <1>10, <1>11, <1>12

LEMMA RequestTaken ==
  ASSUME IInv, IInv', WorkerTake
  PROVE  /\ Serving = None /\ Entries # <<>>
         /\ Serving' = Head(Entries) /\ Entries' = Tail(Entries)
<1> DEFINE n == Occupancy
<1>1. /\ RingNonempty /\ request' = ring[Slot(head)] /\ head' = Advance(head)
      /\ wpc = "drain" /\ wpc' = "shrink" /\ tail' = tail /\ ring' = ring
  BY DEF WorkerTake, WorkerGoto, WorkerUnchanged
<1>2. InWidth /\ Occupancy <= Ring /\ head \in Nat
  BY InvWidth, WidthTwice DEF IInv, RingInv, InWidth
<1>3. /\ n \in 1..Ring /\ Occupancy' = n - 1
      /\ \A i \in 1..n-1 : Slot(head' + i - 1) = Slot(head + (i + 1) - 1)
  BY <1>1, <1>2, TakeRing
<1>4. Entries \in Seq(Entry) /\ Len(Entries) = n
      /\ \A i \in 1..n : Entries[i] = Plain(ring[Slot(head + i - 1)])
  BY EntriesSeq
<1>5. Entries' \in Seq(Entry) /\ Len(Entries') = n - 1
      /\ \A i \in 1..n-1 : Entries'[i] = Plain(ring[Slot(head' + i - 1)])
  BY <1>1, <1>3, EntriesSeqNext
<1> HIDE DEF n
<1>6. Serving = None
  BY <1>1 DEF Serving, Busy, BusyPc
<1>7. Entries # <<>>
  BY <1>3, <1>4, EmptySeq
<1>8. Serving' = Head(Entries)
  <2>1. Serving' = Plain(ring[Slot(head)])
    BY <1>1 DEF Serving, Busy, BusyPc, Plain
  <2>2. head + 1 - 1 = head /\ 1 \in 1..n
    BY <1>2, <1>3
  <2>3. Entries[1] = Plain(ring[Slot(head)])
    BY <2>2, <1>4
  <2>4. QED BY <2>1, <2>3, <1>4, <1>7
<1>9. Entries' = Tail(Entries)
  <2>1. /\ Tail(Entries) \in Seq(Entry) /\ Len(Tail(Entries)) = n - 1
        /\ \A i \in 1..n-1 : Tail(Entries)[i] = Entries[i + 1]
    BY <1>4, <1>7, HeadTailProperties
  <2>2. ASSUME NEW i \in 1..n-1 PROVE Entries'[i] = Entries[i + 1]
    <3>1. i + 1 \in 1..n /\ Slot(head' + i - 1) = Slot(head + (i + 1) - 1)
      BY <1>3
    <3>2. QED BY <3>1, <1>4, <1>5
  <2>3. QED BY <2>1, <2>2, <1>5, SeqEqual
<1>10. QED BY <1>6, <1>7, <1>8, <1>9

(* A step of the queue, through the refinement mapping.                     *)
QueueStep ==
  \/ \E e \in Entry : Len(Entries) < Ring /\ Entries' = Append(Entries, e) /\ Serving' = Serving
  \/ /\ Serving = None /\ Entries # <<>>
     /\ Serving' = Head(Entries) /\ Entries' = Tail(Entries)
  \/ Serving # None /\ Serving' = None /\ Entries' = Entries
  \/ UNCHANGED <<Entries, Serving>>

LEMMA StepRefines == IInv /\ IInv' /\ [Next]_vars => QueueStep
<1> SUFFICES ASSUME IInv, IInv', [Next]_vars PROVE QueueStep
  OBVIOUS
<1>1. CASE InitStep
  <2>1. UNCHANGED <<ringVars, request>> /\ (Busy' <=> Busy)
    BY <1>1 DEF InitStep, InitSpawn, InitRegister, InitSeed, InitEnable, InitStop, InitJoin,
       InitUnchanged, Busy, BusyPc, IInv, RingInv
  <2>2. QED BY <2>1, Unseen DEF QueueStep, Plain
<1>2. ASSUME NEW c \in Callers, NEW kind \in Kinds, NEW m \in Targets, NEW p \in Priorities,
             ShrinkSlab(c, kind, m, p)
      PROVE  QueueStep
  BY <1>2, Unseen DEF ShrinkSlab, HookUnchanged, ringVars, Busy, QueueStep, Plain
<1>3. ASSUME NEW c \in Callers, CallerStep(c)
      PROVE  QueueStep
  <2>1. CASE QueueRequest(c) /\ task /\ HasRoom /\ MayQueue(arg[c].memcg)
    BY <2>1, RequestQueued DEF QueueStep
  <2>2. CASE ~(QueueRequest(c) /\ task /\ HasRoom /\ MayQueue(arg[c].memcg))
    <3>1. UNCHANGED <<ringVars, request, wpc>>
      BY <1>3, <2>2 DEF CallerStep, ReadPrev, Claim, QueueRequest, WakeWorker, HookReturn,
         HookUnchanged, ringVars, workerVars
    <3>2. QED BY <3>1, Unseen DEF Busy, QueueStep, Plain
  <2>3. QED BY <2>1, <2>2
<1>4. CASE WorkerStep
  <2> USE DEF WorkerGoto, WorkerUnchanged
  <2>1. CASE WorkerLoop \/ WorkerPrepare \/ WorkerCheck \/ WorkerWakes \/ WorkerDrained
    <3>1. UNCHANGED <<ringVars, request>> /\ (Busy' <=> Busy)
      BY <2>1 DEF WorkerLoop, WorkerPrepare, WorkerCheck, WorkerWakes, WorkerDrained,
         ringVars, Busy, BusyPc
    <3>2. QED BY <3>1, Unseen DEF QueueStep, Plain
  <2>2. CASE WorkerTake
    BY <2>2, RequestTaken DEF QueueStep
  <2>3. ASSUME NEW low \in BOOLEAN, WorkerShrink(low)
        PROVE  QueueStep
    <3>1. /\ request' = [request EXCEPT !.priority = TunePriority(@, low)]
          /\ wpc = "shrink" /\ wpc' = "put" /\ UNCHANGED ringVars
      BY <2>3 DEF WorkerShrink, ringVars
    <3>2. Plain(request') = Plain(request)
      BY <3>1 DEF IInv, RingInv, Busy, BusyPc, Fit, Request, Plain
    <3>3. QED BY <3>1, <3>2, Unseen DEF Busy, BusyPc, QueueStep
  <2>4. CASE WorkerPut
    <3>1. /\ request' = NoRequest /\ wpc = "put" /\ wpc' = "drain" /\ UNCHANGED ringVars
      BY <2>4 DEF WorkerPut, ringVars
    <3>2. Serving # None
      <4>1. Fit(request) /\ Serving = Plain(request)
        BY <3>1 DEF IInv, RingInv, Busy, BusyPc, Serving
      <4>2. Plain(request) \in Entry
        BY <4>1 DEF Fit, Request, Plain, Entry
      <4>3. QED BY <4>1, <4>2, NameAssumption DEF Entry
    <3>3. Serving' = None
      BY <3>1 DEF Serving, Busy, BusyPc
    <3>4. Entries' = Entries
      BY <3>1, RingSame DEF Entries, Plain
    <3>5. QED BY <3>2, <3>3, <3>4 DEF QueueStep
  <2>5. QED BY <1>4, <2>1, <2>2, <2>3, <2>4 DEF WorkerStep
<1>5. ASSUME NEW m \in Memcgs, MemcgOffline(m)
      PROVE  QueueStep
  BY <1>5, Unseen DEF MemcgOffline, ringVars, workerVars, Busy, QueueStep, Plain
<1>6. CASE UNCHANGED vars
  BY <1>6, Unseen DEF vars, workerVars, Busy, QueueStep, Plain
<1>7. QED BY <1>1, <1>2, <1>3, <1>4, <1>5, <1>6 DEF Next

(* The ring and its worker are a bounded queue that loses, repeats and      *)
(* reorders nothing: the safety part of what ImplementsQueue says.          *)
THEOREM QueueRefined == Spec => Queue!QSafe
<1>1. Init => Queue!QInit
  <2> SUFFICES ASSUME Init PROVE Queue!QInit
    OBVIOUS
  <2>1. Occupancy = 0 /\ ~Busy
    BY DEF Init, Occupancy, Busy, BusyPc
  <2>2. [i \in 1..Occupancy |-> Plain(Pending[i])] = <<>>
    <3>1. 1..Occupancy = {}
      BY <2>1
    <3>2. QED BY <3>1
  <2>3. QED BY <2>1, <2>2 DEF Queue!QInit
<1>2. QueueStep => [Queue!QNext]_(Queue!qvars)
  BY DEF QueueStep, Entries, Serving, Entry, Queue!QNext, Queue!Accept, Queue!Serve,
     Queue!Finish, Queue!qvars
<1>3. IInv /\ IInv' /\ [Next]_vars => [Queue!QNext]_(Queue!qvars)
  BY <1>2, StepRefines
<1>4. QED BY <1>1, <1>3, RingInvariant, PTL DEF Spec, Queue!QSafe
=============================================================================
