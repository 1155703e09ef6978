------------------------ MODULE MaskedProviderProofs ------------------------
(***************************************************************************)
(* Theorems about MaskedProvider and the masks of FrequencyMask, for every *)
(* number of buckets, window and limit, any texts, connections and callers.*)
(***************************************************************************)
EXTENDS MaskedProvider, FiniteSetTheorems, SequenceTheorems, WellFoundedInduction, TLAPS

-----------------------------------------------------------------------------
(* Sums over buckets.  The sum is a fold, a recursive function; it is       *)
(* told without recursion by the number of hits, each a bucket and a count. *)

Buckets == 0..(BucketCount - 1)

Tables == [Buckets -> [Texts -> Nat]]

Hits(table, t, S) == UNION {{i} \X (1..table[i][t]) : i \in S}

LEMMA BucketsFinite == IsFiniteSet(Buckets) /\ \A S \in SUBSET Buckets : IsFiniteSet(S)
<1>1. 0 \in Int /\ BucketCount - 1 \in Int
  BY MaskAssumption
<1>2. IsFiniteSet(Buckets)
  BY <1>1, FS_Interval DEF Buckets
<1> QED
  BY <1>2, FS_Subset

LEMMA HitsOfOne ==
  ASSUME NEW i, NEW n \in Nat
  PROVE  IsFiniteSet({i} \X (1..n)) /\ Cardinality({i} \X (1..n)) = n
<1>1. IsFiniteSet(1..n) /\ Cardinality(1..n) = n
  BY FS_Interval
<1>2. IsFiniteSet({i}) /\ Cardinality({i}) = 1
  BY FS_Singleton
<1>3. IsFiniteSet({i} \X (1..n)) /\ Cardinality({i} \X (1..n)) = 1 * n
  BY <1>1, <1>2, FS_Product, ZenonT(40)
<1> QED
  BY <1>3

LEMMA HitsSplit ==
  ASSUME NEW table \in Tables, NEW t \in Texts, NEW S \in SUBSET Buckets, NEW i \in S,
         IsFiniteSet(Hits(table, t, S \ {i}))
  PROVE  /\ IsFiniteSet(Hits(table, t, S))
         /\ Cardinality(Hits(table, t, S)) = table[i][t] + Cardinality(Hits(table, t, S \ {i}))
<1> DEFINE A == {i} \X (1..table[i][t])
           B == Hits(table, t, S \ {i})
<1>1. table[i][t] \in Nat
  BY DEF Tables
<1>2. IsFiniteSet(A) /\ Cardinality(A) = table[i][t]
  BY <1>1, HitsOfOne
<1>3. Hits(table, t, S) = A \union B
  BY DEF Hits
<1>4. A \intersect B = {}
  BY DEF Hits
<1>5. Cardinality(B) \in Nat /\ Cardinality({}) = 0
  BY FS_CardinalityType, FS_EmptySet
<1>6. IsFiniteSet(B)
  OBVIOUS
<1> HIDE DEF A, B
<1>7. /\ IsFiniteSet(A \union B)
      /\ Cardinality(A \union B) = Cardinality(A) + Cardinality(B) - Cardinality(A \intersect B)
  BY <1>2, <1>6, FS_Union
<1>8. Cardinality(A \union B) = table[i][t] + Cardinality(B)
  <2>1. Cardinality(A \union B) = table[i][t] + Cardinality(B) - 0
    BY <1>2, <1>4, <1>5, <1>7
  <2>2. PICK m \in Nat, n \in Nat : m = table[i][t] /\ n = Cardinality(B)
    BY <1>1, <1>5
  <2> QED
    BY <2>1, <2>2
<1> QED
  BY <1>3, <1>7, <1>8 DEF B

LEMMA HitsFinite ==
  ASSUME NEW table \in Tables, NEW t \in Texts, NEW S \in SUBSET Buckets
  PROVE  IsFiniteSet(Hits(table, t, S)) /\ Cardinality(Hits(table, t, S)) \in Nat
<1> DEFINE f == [i \in S |-> {i} \X (1..table[i][t])]
           R == {{i} \X (1..table[i][t]) : i \in S}
<1>1. IsFiniteSet(S)
  BY BucketsFinite
<1>2. f \in Surjection(S, R)
  BY DEF Surjection
<1>3. IsFiniteSet(R)
  BY <1>1, <1>2, FS_Surjection, Zenon
<1>4. \A T \in R : IsFiniteSet(T)
  <2> SUFFICES ASSUME NEW i \in S PROVE IsFiniteSet({i} \X (1..table[i][t]))
    OBVIOUS
  <2>1. table[i][t] \in Nat
    BY DEF Tables
  <2> QED
    BY <2>1, HitsOfOne
<1>5. IsFiniteSet(UNION R)
  BY <1>3, <1>4, FS_UNION
<1> QED
  BY <1>5, FS_CardinalityType DEF Hits

(* Whichever element the fold chooses next, it adds up the hits.           *)
LEMMA SumIsHits ==
  ASSUME NEW m, m.buckets \in Tables, NEW t \in Texts, NEW S \in SUBSET Buckets
  PROVE  MapThenSumSet(LAMBDA i : m.buckets[i][t], S) = Cardinality(Hits(m.buckets, t, S))
<1> DEFINE Pick(s) == CHOOSE x \in s : TRUE
           Table == m.buckets
           Step(h) == [s \in SUBSET S |-> IF s = {} THEN 0
                                          ELSE Table[Pick(s)][t] + h[s \ {Pick(s)}]]
           sum == [s \in SUBSET S |-> Cardinality(Hits(Table, t, s))]
           iter == CHOOSE h : h = Step(h)
<1>1. MapThenSumSet(LAMBDA i : m.buckets[i][t], S) = iter[S]
  BY DEF MapThenSumSet, MapThenFoldSet
<1>2. Table \in Tables
  OBVIOUS
<1>3. \A s \in SUBSET S : s # {} => Pick(s) \in s
  OBVIOUS
<1> HIDE DEF Pick, Table
<1>4. sum = Step(sum)
  <2> SUFFICES ASSUME NEW s \in SUBSET S
               PROVE  sum[s] = IF s = {} THEN 0 ELSE Table[Pick(s)][t] + sum[s \ {Pick(s)}]
    OBVIOUS
  <2>1. CASE s = {}
    <3>1. Hits(Table, t, {}) = {}
      BY DEF Hits
    <3> QED
      BY <2>1, <3>1, FS_EmptySet
  <2>2. CASE s # {}
    <3>1. Pick(s) \in s
      BY <1>3, <2>2
    <3>2. s \ {Pick(s)} \in SUBSET Buckets
      OBVIOUS
    <3>3. IsFiniteSet(Hits(Table, t, s \ {Pick(s)}))
      BY <1>2, <3>2, HitsFinite
    <3>4. Cardinality(Hits(Table, t, s))
            = Table[Pick(s)][t] + Cardinality(Hits(Table, t, s \ {Pick(s)}))
      BY <1>2, <3>1, <3>3, HitsSplit
    <3> QED
      BY <2>2, <3>4
  <2> QED
    BY <2>1, <2>2
<1>5. iter = Step(iter)
  BY <1>4
<1> HIDE DEF sum, iter
<1>6. \A s \in SUBSET S : iter[s] = sum[s]
  <2> DEFINE W == {s \in FiniteSubsetsOf(S) : iter[s] # sum[s]}
  <2>1. SUFFICES ASSUME W # {} PROVE FALSE
    <3>1. \A s \in SUBSET S : IsFiniteSet(s)
      BY BucketsFinite
    <3> QED
      BY <2>1, <3>1 DEF FiniteSubsetsOf
  <2>2. PICK s \in W : \A r \in W : ~(<<r, s>> \in StrictSubsetOrdering(S))
    BY <2>1, FS_StrictSubsetOrderingWellFounded, WFMin
  <2>3. s \in SUBSET S /\ IsFiniteSet(s) /\ iter[s] # sum[s]
    BY DEF FiniteSubsetsOf
  <2>4. s # {}
    BY <1>4, <1>5, <2>3
  <2>5. Pick(s) \in s
    BY <1>3, <2>3, <2>4
  <2>6. s \ {Pick(s)} \in FiniteSubsetsOf(S)
    BY <2>3, FS_Subset DEF FiniteSubsetsOf
  <2>7. <<s \ {Pick(s)}, s>> \in StrictSubsetOrdering(S)
    BY <2>3, <2>5 DEF StrictSubsetOrdering
  <2>8. iter[s \ {Pick(s)}] = sum[s \ {Pick(s)}]
    BY <2>2, <2>6, <2>7
  <2>9. /\ iter[s] = Table[Pick(s)][t] + iter[s \ {Pick(s)}]
        /\ sum[s] = Table[Pick(s)][t] + sum[s \ {Pick(s)}]
    BY <1>4, <1>5, <2>3, <2>4
  <2> QED
    BY <2>3, <2>8, <2>9
<1>7. sum[S] = Cardinality(Hits(Table, t, S))
  BY DEF sum
<1> QED
  BY <1>1, <1>6, <1>7 DEF Table

-----------------------------------------------------------------------------
(* A frequency mask.                                                       *)

Frequencies == [current : Buckets, lastShift : Nat, buckets : Tables, freq : [Texts -> Nat]]

(* FrequencyIsSum with the hits in place of the fold.                      *)
Balanced(m) == \A t \in Texts : m.freq[t] = Cardinality(Hits(m.buckets, t, Buckets))

LEMMA BalancedIsSum ==
  ASSUME NEW m \in Frequencies
  PROVE  FrequencyIsSum(m) <=> Balanced(m)
<1>1. m.buckets \in Tables
  BY DEF Frequencies
<1> SUFFICES ASSUME NEW t \in Texts
             PROVE  MapThenSumSet(LAMBDA i : m.buckets[i][t], 0..(BucketCount - 1))
                      = Cardinality(Hits(m.buckets, t, Buckets))
  BY DEF FrequencyIsSum, Balanced
<1>2. MapThenSumSet(LAMBDA i : m.buckets[i][t], Buckets) = Cardinality(Hits(m.buckets, t, Buckets))
  BY <1>1, SumIsHits
<1> QED
  BY <1>2 DEF Buckets

LEMMA NewIsBalanced == NewFrequency \in Frequencies /\ Balanced(NewFrequency)
<1>1. 0 \in Buckets
  BY MaskAssumption DEF Buckets
<1>2. NewFrequency \in Frequencies
  BY <1>1 DEF NewFrequency, Frequencies, Tables, Buckets
<1>3. ASSUME NEW t \in Texts PROVE Hits(NewFrequency.buckets, t, Buckets) = {}
  BY DEF Hits, NewFrequency, Buckets
<1> QED
  BY <1>2, <1>3, FS_EmptySet DEF Balanced, NewFrequency

LEMMA Remainder ==
  ASSUME NEW a \in Nat, NEW n \in Nat \ {0}
  PROVE  a % n \in 0..(n - 1)
BY SMT

LEMMA Quotient ==
  ASSUME NEW a \in Nat, NEW n \in Nat \ {0}
  PROVE  a \div n \in Nat
BY SMT

LEMMA ShiftsBounded ==
  ASSUME NEW m \in Frequencies, NEW instant \in Nat
  PROVE  /\ BucketSize \in Nat
         /\ Shifts(m, instant) \in 0..BucketCount
<1>1. BucketSize \in Nat
  BY MaskAssumption, Quotient DEF BucketSize
<1>2. Monus(instant, m.lastShift) \in Nat
  BY DEF Monus, Frequencies
<1>3. CASE BucketSize = 0
  BY <1>1, <1>3, MaskAssumption DEF Shifts
<1>4. CASE BucketSize # 0
  <2>1. PICK n \in Nat : n = Monus(instant, m.lastShift) \div BucketSize
    BY <1>1, <1>2, <1>4, Quotient
  <2>2. Shifts(m, instant) = Min({BucketCount, n})
    BY <1>4, <2>1 DEF Shifts
  <2>3. \E x \in {BucketCount, n} : \A y \in {BucketCount, n} : x <= y
    BY MaskAssumption, <2>1
  <2>4. PICK k \in {BucketCount, n} : k = Shifts(m, instant) /\ k <= BucketCount
    BY <2>2, <2>3 DEF Min
  <2>5. k \in Nat
    BY <2>1, MaskAssumption
  <2> QED
    BY <1>1, <2>4, <2>5, MaskAssumption
<1> QED
  BY <1>1, <1>3, <1>4

(* Hits of disjoint sets of buckets add up.                                *)
LEMMA HitsApart ==
  ASSUME NEW table \in Tables, NEW t \in Texts, NEW S \in SUBSET Buckets
  PROVE  Cardinality(Hits(table, t, Buckets))
           = Cardinality(Hits(table, t, S)) + Cardinality(Hits(table, t, Buckets \ S))
<1> DEFINE A == Hits(table, t, S)
           B == Hits(table, t, Buckets \ S)
<1>1. IsFiniteSet(A) /\ Cardinality(A) \in Nat
  BY HitsFinite
<1>2. IsFiniteSet(B) /\ Cardinality(B) \in Nat
  <2>1. Buckets \ S \in SUBSET Buckets
    OBVIOUS
  <2> QED
    BY <2>1, HitsFinite
<1>3. A \intersect B = {}
  BY DEF Hits
<1>4. A \union B = Hits(table, t, Buckets)
  BY DEF Hits
<1> HIDE DEF A, B
<1>5. Cardinality(A \union B) = Cardinality(A) + Cardinality(B) - Cardinality(A \intersect B)
  BY <1>1, <1>2, FS_Union
<1>6. PICK a \in Nat, b \in Nat : a = Cardinality(A) /\ b = Cardinality(B)
  BY <1>1, <1>2
<1>7. Cardinality(A \union B) = a + b - 0
  BY <1>3, <1>5, <1>6, FS_EmptySet
<1>8. Cardinality(A \union B) = a + b
  BY <1>7
<1> QED
  BY <1>4, <1>6, <1>8 DEF A, B

(* The buckets that a shift expires.                                       *)
Expired(m, instant) == {(m.current + i) % BucketCount : i \in 0..(Shifts(m, instant) - 1)}

LEMMA ExpiredAreBuckets ==
  ASSUME NEW m \in Frequencies, NEW instant \in Nat
  PROVE  /\ Expired(m, instant) \in SUBSET Buckets
         /\ Advance(m, Shifts(m, instant)) \in Buckets
<1>1. m.current \in Nat /\ BucketCount \in Nat \ {0}
  BY MaskAssumption DEF Frequencies, Buckets
<1>2. PICK k \in Nat : k = Shifts(m, instant)
  BY ShiftsBounded
<1>3. \A i \in 0..k : m.current + i \in Nat
  BY <1>1
<1>4. \A i \in 0..k : (m.current + i) % BucketCount \in Buckets
  BY <1>1, <1>3, Remainder DEF Buckets
<1>5. k \in 0..k /\ \A i \in 0..(k - 1) : i \in 0..k
  OBVIOUS
<1> QED
  BY <1>2, <1>4, <1>5 DEF Expired, Advance

LEMMA ShiftFields ==
  ASSUME NEW m \in Frequencies, NEW instant \in Nat
  PROVE  /\ Shift(m, instant).current = Advance(m, Shifts(m, instant))
         /\ Shift(m, instant).lastShift = IF Shifts(m, instant) = BucketCount THEN instant
                                          ELSE m.lastShift + Shifts(m, instant) * BucketSize
         /\ Shift(m, instant).buckets =
              [i \in Buckets |-> IF i \in Expired(m, instant) THEN [t \in Texts |-> 0]
                                 ELSE m.buckets[i]]
         /\ Shift(m, instant).freq = [t \in Texts |->
              Monus(m.freq[t], Cardinality(Hits(m.buckets, t, Expired(m, instant))))]
<1>1. \A t \in Texts :
        MapThenSumSet(LAMBDA i : m.buckets[i][t], Expired(m, instant))
          = Cardinality(Hits(m.buckets, t, Expired(m, instant)))
  <2>1. m.buckets \in Tables
    BY DEF Frequencies
  <2> QED
    BY <2>1, ExpiredAreBuckets, SumIsHits
<1> QED
  BY <1>1 DEF Shift, Expired, Buckets

LEMMA ShiftType ==
  ASSUME NEW m \in Frequencies, NEW instant \in Nat
  PROVE  Shift(m, instant) \in Frequencies
<1> DEFINE r == Shift(m, instant)
<1>1. r.current \in Buckets
  BY ShiftFields, ExpiredAreBuckets, ZenonT(40)
<1>2. r.lastShift \in Nat
  <2>1. PICK k \in Nat, b \in Nat : k = Shifts(m, instant) /\ b = BucketSize
    BY ShiftsBounded
  <2>2. m.lastShift \in Nat /\ k * b \in Nat
    BY DEF Frequencies
  <2>3. r.lastShift = IF k = BucketCount THEN instant ELSE m.lastShift + k * b
    BY <2>1, ShiftFields
  <2> QED
    BY <2>2, <2>3
<1>3. r.buckets \in Tables
  <2>1. r.buckets = [i \in Buckets |-> IF i \in Expired(m, instant) THEN [t \in Texts |-> 0]
                                       ELSE m.buckets[i]]
    BY ShiftFields
  <2>2. [t \in Texts |-> 0] \in [Texts -> Nat] /\ \A i \in Buckets : m.buckets[i] \in [Texts -> Nat]
    BY DEF Tables, Frequencies
  <2> HIDE DEF r
  <2> QED
    BY <2>1, <2>2 DEF Tables
<1>4. r.freq \in [Texts -> Nat]
  <2>1. ASSUME NEW t \in Texts
        PROVE  Monus(m.freq[t], Cardinality(Hits(m.buckets, t, Expired(m, instant)))) \in Nat
    <3>1. PICK a \in Nat, b \in Nat :
            a = m.freq[t] /\ b = Cardinality(Hits(m.buckets, t, Expired(m, instant)))
      BY ExpiredAreBuckets, HitsFinite DEF Frequencies
    <3> QED
      BY <3>1 DEF Monus
  <2>2. r.freq = [t \in Texts |->
          Monus(m.freq[t], Cardinality(Hits(m.buckets, t, Expired(m, instant))))]
    BY ShiftFields
  <2> HIDE DEF r
  <2> QED
    BY <2>1, <2>2
<1>5. r = [current |-> r.current, lastShift |-> r.lastShift, buckets |-> r.buckets, freq |-> r.freq]
  BY DEF Shift
<1> HIDE DEF r
<1>6. r \in Frequencies
  BY <1>1, <1>2, <1>3, <1>4, <1>5 DEF Frequencies
<1> QED
  BY <1>6 DEF r

(* A shift takes back exactly what the buckets it expires had counted.     *)
LEMMA ShiftBalanced ==
  ASSUME NEW m \in Frequencies, NEW instant \in Nat, Balanced(m)
  PROVE  Balanced(Shift(m, instant))
<1> SUFFICES ASSUME NEW t \in Texts
             PROVE  Shift(m, instant).freq[t]
                      = Cardinality(Hits(Shift(m, instant).buckets, t, Buckets))
  BY DEF Balanced
<1> DEFINE E == Expired(m, instant)
<1>0. m.buckets \in Tables /\ E \in SUBSET Buckets
  BY ExpiredAreBuckets DEF Frequencies
<1>1. Hits(Shift(m, instant).buckets, t, Buckets) = Hits(m.buckets, t, Buckets \ E)
  <2>0. Shift(m, instant).buckets =
          [i \in Buckets |-> IF i \in E THEN [u \in Texts |-> 0] ELSE m.buckets[i]]
    BY ShiftFields
  <2>1. \A i \in E : Shift(m, instant).buckets[i][t] = 0
    BY <1>0, <2>0
  <2>2. \A i \in Buckets \ E : Shift(m, instant).buckets[i][t] = m.buckets[i][t]
    BY <2>0
  <2> HIDE DEF E
  <2>3. \A i \in E : {i} \X (1..Shift(m, instant).buckets[i][t]) = {}
    BY <2>1
  <2> QED
    BY <1>0, <2>2, <2>3 DEF Hits
<1>2. PICK a \in Nat, b \in Nat :
        a = Cardinality(Hits(m.buckets, t, E)) /\ b = Cardinality(Hits(m.buckets, t, Buckets \ E))
  <2>1. Buckets \ E \in SUBSET Buckets
    OBVIOUS
  <2> QED
    BY <1>0, <2>1, HitsFinite
<1>3. m.freq[t] = a + b
  BY <1>0, <1>2, HitsApart DEF Balanced
<1>4. Shift(m, instant).freq[t] = Monus(a + b, a)
  <2>1. Shift(m, instant).freq = [u \in Texts |-> Monus(m.freq[u], Cardinality(Hits(m.buckets, u, E)))]
    BY ShiftFields
  <2> HIDE DEF E
  <2> QED
    BY <1>2, <1>3, <2>1
<1>5. Monus(a + b, a) = b
  BY DEF Monus
<1> QED
  BY <1>1, <1>2, <1>4, <1>5

(* A hit is counted in the current bucket and in the map, or in neither.   *)
LEMMA HitBalanced ==
  ASSUME NEW m \in Frequencies, NEW text \in Texts, Balanced(m)
  PROVE  Hit(m, text) \in Frequencies /\ Balanced(Hit(m, text))
<1>1. CASE ~Allowed(m, text)
  BY <1>1 DEF Hit
<1>2. CASE Allowed(m, text)
  <2> DEFINE j == m.current
             old == m.buckets
             new == [old EXCEPT ![j][text] = @ + 1]
             r == Hit(m, text)
  <2>1. j \in Buckets /\ old \in Tables /\ m.freq \in [Texts -> Nat]
    BY DEF Frequencies
  <2>2. r = [m EXCEPT !.freq = [m.freq EXCEPT ![text] = @ + 1], !.buckets = new]
    BY <1>2 DEF Hit
  <2>3. new \in Tables /\ [m.freq EXCEPT ![text] = @ + 1] \in [Texts -> Nat]
    BY <2>1 DEF Tables
  <2>4. r \in Frequencies
    BY <2>2, <2>3 DEF Frequencies
  <2>5. ASSUME NEW t \in Texts PROVE r.freq[t] = Cardinality(Hits(r.buckets, t, Buckets))
    <3>1. r.buckets = new /\ r.freq = [m.freq EXCEPT ![text] = @ + 1]
      BY <2>2 DEF Frequencies
    <3>2. Hits(new, t, Buckets \ {j}) = Hits(old, t, Buckets \ {j})
      BY <2>1 DEF Hits, Tables
    <3>3. Buckets \ {j} \in SUBSET Buckets /\ Buckets \in SUBSET Buckets
      OBVIOUS
    <3>4. PICK a \in Nat : a = Cardinality(Hits(old, t, Buckets \ {j}))
      BY <2>1, <3>3, HitsFinite
    <3>5. Cardinality(Hits(old, t, Buckets)) = old[j][t] + a
      BY <2>1, <3>3, <3>4, HitsFinite, HitsSplit
    <3>6. Cardinality(Hits(new, t, Buckets)) = new[j][t] + a
      <4>1. IsFiniteSet(Hits(new, t, Buckets \ {j}))
        BY <2>3, <3>3, HitsFinite
      <4> HIDE DEF new, old, j
      <4> QED
        BY <2>1, <2>3, <3>2, <3>3, <3>4, <4>1, HitsSplit
    <3>7. old[j][t] \in Nat /\ new[j][t] = IF t = text THEN old[j][t] + 1 ELSE old[j][t]
      BY <2>1 DEF Tables
    <3>8. r.freq[t] = IF t = text THEN m.freq[t] + 1 ELSE m.freq[t]
      BY <2>1, <3>1
    <3>9. m.freq[t] = old[j][t] + a
      BY <3>5 DEF Balanced
    <3> QED
      BY <3>1, <3>6, <3>7, <3>8, <3>9
  <2> QED
    BY <2>4, <2>5 DEF Balanced
<1> QED
  BY <1>1, <1>2

LEMMA AskedBalanced ==
  ASSUME NEW m \in Frequencies, NEW text \in Texts, NEW instant \in Nat, Balanced(m)
  PROVE  /\ Hit(ShiftIfNeeded(m, instant), text) \in Frequencies
         /\ Balanced(Hit(ShiftIfNeeded(m, instant), text))
<1>1. Align(m, instant) \in Frequencies /\ Balanced(Align(m, instant))
  <2>1. Monus(instant, BucketSize) \in Nat
    BY ShiftsBounded DEF Monus
  <2> QED
    BY <2>1 DEF Align, Frequencies, Balanced
<1>2. ShiftIfNeeded(m, instant) \in Frequencies /\ Balanced(ShiftIfNeeded(m, instant))
  BY <1>1, ShiftType, ShiftBalanced DEF ShiftIfNeeded
<1> QED
  BY <1>2, HitBalanced

-----------------------------------------------------------------------------
(* Types, and where callers are.                                           *)

Masks == [kinds : SUBSET Kinds, frequency : Frequencies]

Locals == [kinds : SUBSET Kinds, text : Texts \union {NoText}, at : Nat, blocked : BOOLEAN]

Pcs == {"idle", "connect_mask", "connect_stats", "inner", "check",
        "count", "disconnect_stats", "disconnect_inner"}

CallerTypes ==
  /\ pc \in [Callers -> Pcs]
  /\ target \in [Callers -> Conns \union {NoConn}]
  /\ held \in [Callers -> Locals]

StateTypes ==
  /\ opened \subseteq Conns /\ handed \subseteq Conns
  /\ masks \in [Conns -> Masks]
  /\ stats \subseteq Conns
  /\ now \in Nat
  /\ popped \in [Conns -> Nat]
  /\ passed \in [Conns -> [Texts -> Seq(Nat)]]
  /\ leaked \subseteq Conns
  /\ guarded \subseteq handed \union opened /\ cleaned \subseteq handed

(* A connection that is being made is open, has not been handed out, and    *)
(* has one caller; who works on a connection was handed it.                *)
Placed(p) ==
  /\ pc[p] # "idle" => target[p] \in Conns
  /\ pc[p] = "idle" => target[p] = NoConn
  /\ pc[p] \in {"connect_mask", "connect_stats"} =>
       /\ target[p] \in opened /\ target[p] \notin handed
       /\ \A q \in Callers \ {p} : target[q] # target[p]
  /\ pc[p] \in {"inner", "check", "count", "disconnect_stats", "disconnect_inner"} =>
       target[p] \in handed
  /\ pc[p] \in {"check", "count"} => held[p].text \in Texts

PlacedInv == CallerTypes /\ StateTypes /\ \A p \in Callers : Placed(p)

LEMMA BuildMaskType ==
  ASSUME NEW kinds \in SUBSET Kinds
  PROVE  BuildMask(kinds) \in Masks /\ NoMask \in Masks
BY NewIsBalanced DEF BuildMask, NoMask, Masks

LEMMA AskedType ==
  ASSUME NEW mask \in Masks, NEW text \in Texts, NEW instant \in Nat, Balanced(mask.frequency)
  PROVE  /\ Asked(mask, text, instant) \in Masks
         /\ Asked(mask, text, instant).kinds = mask.kinds
         /\ Balanced(Asked(mask, text, instant).frequency)
BY AskedBalanced DEF Asked, Masks

LEMMA NothingType == Nothing \in Locals
BY DEF Nothing, Locals

(* Every mask's counts agree with its buckets.                             *)
BalancedInv == \A c \in Conns : Balanced(masks[c].frequency)

LEMMA PlacedInit == Init => PlacedInv /\ BalancedInv
<1> SUFFICES ASSUME Init PROVE PlacedInv /\ BalancedInv
  OBVIOUS
<1>1. CallerTypes
  BY NothingType DEF Init, CallerTypes, Pcs
<1>2. StateTypes
  <2>1. NoMask \in Masks
    BY BuildMaskType
  <2>2. <<>> \in Seq(Nat)
    OBVIOUS
  <2>3. passed \in [Conns -> [Texts -> Seq(Nat)]]
    BY <2>2 DEF Init
  <2> QED
    BY <2>1, <2>3, ProviderAssumption DEF Init, StateTypes
<1>3. \A p \in Callers : Placed(p)
  BY DEF Init, Placed
<1>4. BalancedInv
  BY NewIsBalanced DEF Init, BalancedInv, NoMask
<1> QED
  BY <1>1, <1>2, <1>3, <1>4 DEF PlacedInv

(* A caller waits somewhere else; the other callers stay.                  *)
LEMMA WaitPlaced ==
  ASSUME CallerTypes, NEW p \in Callers, NEW step \in Pcs, NEW c \in Conns \union {NoConn},
         NEW locals \in Locals, Wait(p, step, c, locals)
  PROVE  /\ CallerTypes'
         /\ pc'[p] = step /\ target'[p] = c /\ held'[p] = locals
         /\ \A q \in Callers \ {p} : pc'[q] = pc[q] /\ target'[q] = target[q] /\ held'[q] = held[q]
BY DEF CallerTypes, Wait

(* What a step must say of opened and handed for everybody to stay placed.  *)
LEMMA StepPlaced ==
  ASSUME PlacedInv, NEW p \in Callers, NEW step \in Pcs, NEW c \in Conns \union {NoConn},
         NEW locals \in Locals, Wait(p, step, c, locals),
         step = "idle" <=> c = NoConn,
         step \in {"connect_mask", "connect_stats"} =>
           /\ c \in opened' /\ c \notin handed'
           /\ \A q \in Callers \ {p} : target[q] # c,
         step \in {"inner", "check", "count", "disconnect_stats", "disconnect_inner"} =>
           c \in handed',
         step \in {"check", "count"} => locals.text \in Texts,
         handed \subseteq handed',
         \A q \in Callers \ {p} : pc[q] \in {"connect_mask", "connect_stats"} =>
           target[q] # c /\ target[q] \in opened' /\ target[q] \notin handed'
  PROVE  CallerTypes' /\ \A q \in Callers : Placed(q)'
<1>0. NoConn \notin Conns
  BY ProviderAssumption
<1>1. /\ CallerTypes'
      /\ pc'[p] = step /\ target'[p] = c /\ held'[p] = locals
      /\ \A q \in Callers \ {p} : pc'[q] = pc[q] /\ target'[q] = target[q] /\ held'[q] = held[q]
  BY WaitPlaced DEF PlacedInv
<1>2. Placed(p)'
  BY <1>0, <1>1 DEF Placed
<1>3. ASSUME NEW q \in Callers \ {p} PROVE Placed(q)'
  BY <1>0, <1>1 DEF Placed, PlacedInv
<1> QED
  BY <1>1, <1>2, <1>3

LEMMA PutMaskTypes ==
  ASSUME StateTypes, BalancedInv, NEW c \in Conns, NEW mask \in Masks, Balanced(mask.frequency),
         PutMask(c, mask)
  PROVE  /\ masks' \in [Conns -> Masks] /\ BalancedInv'
         /\ passed' \in [Conns -> [Texts -> Seq(Nat)]]
<1>1. [text \in Texts |-> <<>>] \in [Texts -> Seq(Nat)]
  OBVIOUS
<1>2. masks' \in [Conns -> Masks] /\ passed' \in [Conns -> [Texts -> Seq(Nat)]]
  BY <1>1 DEF PutMask, StateTypes
<1>3. ASSUME NEW d \in Conns PROVE Balanced(masks'[d].frequency)
  <2>1. masks'[d] = IF d = c THEN mask ELSE masks[d]
    BY DEF PutMask, StateTypes
  <2> QED
    BY <2>1 DEF BalancedInv
<1> QED
  BY <1>2, <1>3 DEF BalancedInv

LEMMA BuiltBalanced ==
  ASSUME NEW kinds \in SUBSET Kinds
  PROVE  /\ BuildMask(kinds) \in Masks /\ Balanced(BuildMask(kinds).frequency)
         /\ NoMask \in Masks /\ Balanced(NoMask.frequency)
BY BuildMaskType, NewIsBalanced DEF BuildMask, NoMask

-----------------------------------------------------------------------------
LEMMA PlacedConnect ==
  ASSUME PlacedInv, BalancedInv, NEW p \in Callers,
         \/ \E c \in Conns : \E kinds \in Configs : Connect(p, c, kinds)
         \/ ConnectMask(p) \/ ConnectStats(p)
  PROVE  PlacedInv' /\ BalancedInv'
<1>0. NoConn \notin Conns /\ Configs \subseteq SUBSET Kinds
  BY ProviderAssumption
<1> USE DEF PlacedInv
<1>1. ASSUME NEW c \in Conns, NEW kinds \in Configs, Connect(p, c, kinds)
      PROVE  PlacedInv' /\ BalancedInv'
  <2> DEFINE step == IF kinds = {} THEN "connect_stats" ELSE "connect_mask"
             locals == [Nothing EXCEPT !.kinds = kinds]
  <2>1. locals \in Locals /\ step \in Pcs
    BY <1>0, NothingType DEF Locals, Pcs
  <2>2. Wait(p, step, c, locals) /\ opened' = opened \union {c} /\ handed' = handed
        /\ c \notin handed /\ \A q \in Callers : target[q] # c
    BY <1>1 DEF Connect
  <2>3. step \in {"connect_mask", "connect_stats"}
    OBVIOUS
  <2> HIDE DEF step, locals
  <2>4. \A q \in Callers \ {p} : pc[q] \in {"connect_mask", "connect_stats"} =>
           target[q] # c /\ target[q] \in opened' /\ target[q] \notin handed'
    BY <2>2 DEF Placed
  <2>5. CallerTypes' /\ \A q \in Callers : Placed(q)'
    BY <1>0, <2>1, <2>2, <2>3, <2>4, StepPlaced
  <2>6. StateTypes' /\ BalancedInv'
    BY <1>1 DEF Connect, StateTypes, BalancedInv, history
  <2> QED
    BY <2>5, <2>6
<1>2. ASSUME ConnectMask(p) PROVE PlacedInv' /\ BalancedInv'
  <2> PICK c \in Conns : c = target[p] /\ c \in opened
    BY <1>2 DEF ConnectMask, Placed
  <2>1. held[p].kinds \in SUBSET Kinds
    BY DEF CallerTypes, Locals
  <2>2. /\ masks' \in [Conns -> Masks] /\ BalancedInv'
        /\ passed' \in [Conns -> [Texts -> Seq(Nat)]]
    BY <1>2, <2>1, BuiltBalanced, PutMaskTypes DEF ConnectMask
  <2>3. StateTypes'
    BY <1>2, <2>2 DEF ConnectMask, StateTypes
  <2>4. Wait(p, "connect_stats", c, Nothing) /\ opened' = opened /\ handed' = handed
    BY <1>2 DEF ConnectMask
  <2>5. c \notin handed /\ \A q \in Callers \ {p} : target[q] # c
    BY <1>2 DEF ConnectMask, Placed
  <2>6. "connect_stats" \in Pcs
    BY DEF Pcs
  <2>7. CallerTypes' /\ \A q \in Callers : Placed(q)'
    BY <1>0, <2>4, <2>5, <2>6, NothingType, StepPlaced DEF Placed
  <2> QED
    BY <2>2, <2>3, <2>7
<1>3. ASSUME ConnectStats(p) PROVE PlacedInv' /\ BalancedInv'
  <2> PICK c \in Conns : c = target[p]
    BY <1>3 DEF ConnectStats, Placed
  <2>1. /\ Wait(p, "idle", NoConn, Nothing) /\ opened' = opened /\ handed' = handed \union {c}
        /\ \A q \in Callers \ {p} : target[q] # c
    BY <1>3 DEF ConnectStats, Return, Placed
  <2>2. CallerTypes' /\ \A q \in Callers : Placed(q)'
    BY <1>0, <2>1, NothingType, StepPlaced DEF Placed, Pcs
  <2>3. StateTypes' /\ BalancedInv'
    BY <1>3 DEF ConnectStats, StateTypes, BalancedInv, history
  <2> QED
    BY <2>2, <2>3
<1> QED
  BY <1>1, <1>2, <1>3

LEMMA PlacedReceive ==
  ASSUME PlacedInv, BalancedInv, NEW p \in Callers,
         \/ \E c \in Conns : Receive(p, c)
         \/ InnerReturns(p) \/ InnerClosed(p) \/ Cancel(p)
         \/ \E text \in Texts : InnerMessage(p, text)
         \/ Check(p) \/ Count(p)
  PROVE  PlacedInv' /\ BalancedInv'
<1>0. NoConn \notin Conns
  BY ProviderAssumption
<1> USE DEF PlacedInv
<1>1. ASSUME NEW c \in Conns, Receive(p, c) PROVE PlacedInv' /\ BalancedInv'
  <2>1. Wait(p, "inner", c, Nothing) /\ opened' = opened /\ handed' = handed /\ c \in handed
    BY <1>1 DEF Receive
  <2>2. CallerTypes' /\ \A q \in Callers : Placed(q)'
    BY <1>0, <2>1, NothingType, StepPlaced DEF Placed, Pcs
  <2>3. StateTypes' /\ BalancedInv'
    BY <1>1 DEF Receive, StateTypes, BalancedInv, history
  <2> QED
    BY <2>2, <2>3
<1>2. ASSUME Return(p), UNCHANGED <<handed, masks, stats, now, history>>,
             \/ opened' = opened
             \/ pc[p] = "inner" /\ opened' = opened \ {target[p]}
      PROVE  PlacedInv' /\ BalancedInv'
  <2>1. Wait(p, "idle", NoConn, Nothing) /\ handed' = handed
    BY <1>2 DEF Return
  <2>2. \A q \in Callers \ {p} : pc[q] \in {"connect_mask", "connect_stats"} =>
           target[q] # NoConn /\ target[q] \in opened' /\ target[q] \notin handed'
    BY <1>0, <1>2 DEF Placed
  <2>3. CallerTypes' /\ \A q \in Callers : Placed(q)'
    BY <2>1, <2>2, NothingType, StepPlaced DEF Pcs
  <2>4. opened' \subseteq Conns /\ guarded' \subseteq handed' \union opened'
    BY <1>2 DEF Placed, StateTypes, history
  <2>5. StateTypes' /\ BalancedInv'
    BY <1>2, <2>4 DEF StateTypes, BalancedInv, history
  <2> QED
    BY <2>3, <2>5
<1>3. ASSUME NEW text \in Texts, InnerMessage(p, text) PROVE PlacedInv' /\ BalancedInv'
  <2> PICK c \in handed : c = target[p]
    BY <1>3 DEF InnerMessage, Placed
  <2> DEFINE locals == [Nothing EXCEPT !.text = text, !.at = now]
  <2>1. Wait(p, "check", c, locals) /\ opened' = opened /\ handed' = handed
    BY <1>3 DEF InnerMessage
  <2>2. locals \in Locals /\ locals.text \in Texts
    BY DEF Nothing, Locals, StateTypes
  <2> HIDE DEF locals
  <2>3. c \in Conns
    BY DEF StateTypes
  <2>4. CallerTypes' /\ \A q \in Callers : Placed(q)'
    BY <1>0, <2>1, <2>2, <2>3, StepPlaced DEF Placed, Pcs
  <2>5. popped' \in [Conns -> Nat]
    <3>1. popped \in [Conns -> Nat] /\ popped' = [popped EXCEPT ![c] = popped[c] + 1]
      BY <1>3 DEF InnerMessage, StateTypes
    <3>2. PICK n \in Nat : n = popped[c]
      BY <2>3, <3>1
    <3>3. popped' = [popped EXCEPT ![c] = n + 1] /\ n + 1 \in Nat
      BY <3>1, <3>2
    <3> QED
      BY <3>1, <3>3
  <2>6. StateTypes' /\ BalancedInv'
    BY <1>3, <2>5 DEF InnerMessage, StateTypes, BalancedInv
  <2> QED
    BY <2>4, <2>6
<1>4. ASSUME Check(p) PROVE PlacedInv' /\ BalancedInv'
  <2> PICK c \in handed : c = target[p]
    BY <1>4 DEF Check, Placed
  <2> DEFINE msg == held[p]
             blocks == Blocks(masks[c], msg.text, msg.at)
             locals == [msg EXCEPT !.blocked = blocks]
  <2>1. Wait(p, "count", c, locals) /\ opened' = opened /\ handed' = handed
    BY <1>4 DEF Check
  <2>2. c \in Conns /\ msg \in Locals /\ msg.text \in Texts /\ msg.at \in Nat
    BY <1>4 DEF Check, StateTypes, CallerTypes, Placed, Locals
  <2>3. blocks \in BOOLEAN
    BY DEF Blocks
  <2>4. locals \in Locals /\ locals.text \in Texts
    <3> HIDE DEF blocks
    <3> QED
      BY <2>2, <2>3 DEF Locals
  <2>5. CallerTypes' /\ \A q \in Callers : Placed(q)'
    <3> HIDE DEF locals, msg
    <3> QED
      BY <1>0, <2>1, <2>2, <2>4, StepPlaced DEF Placed, Pcs
  <2>6. /\ masks' = [masks EXCEPT ![c] = Asked(masks[c], msg.text, msg.at)]
        /\ passed' = [passed EXCEPT ![c][msg.text] = IF blocks THEN @ ELSE Append(@, msg.at)]
    BY <1>4 DEF Check
  <2>7. Asked(masks[c], msg.text, msg.at) \in Masks
        /\ Balanced(Asked(masks[c], msg.text, msg.at).frequency)
    BY <2>2, AskedType DEF StateTypes, BalancedInv
  <2> HIDE DEF blocks, msg
  <2>8. masks' \in [Conns -> Masks] /\ BalancedInv'
    <3>1. masks' \in [Conns -> Masks]
      BY <2>2, <2>6, <2>7 DEF StateTypes
    <3>2. \A d \in Conns : masks'[d] = IF d = c THEN Asked(masks[c], msg.text, msg.at) ELSE masks[d]
      BY <2>6 DEF StateTypes
    <3> QED
      BY <3>1, <3>2, <2>7 DEF BalancedInv
  <2>9. passed' \in [Conns -> [Texts -> Seq(Nat)]]
    <3>1. passed[c] \in [Texts -> Seq(Nat)] /\ passed[c][msg.text] \in Seq(Nat)
      BY <2>2 DEF StateTypes
    <3>2. Append(passed[c][msg.text], msg.at) \in Seq(Nat)
      BY <2>2, <3>1
    <3> QED
      BY <2>2, <2>6, <3>1, <3>2 DEF StateTypes
  <2>10. StateTypes'
    BY <1>4, <2>8, <2>9 DEF Check, StateTypes
  <2> QED
    BY <2>5, <2>8, <2>10
<1>5. ASSUME Count(p) PROVE PlacedInv' /\ BalancedInv'
  <2> PICK c \in handed : c = target[p]
    BY <1>5 DEF Count, Placed
  <2>1. c \in Conns /\ opened' = opened /\ handed' = handed
    BY <1>5 DEF Count, StateTypes
  <2>2. Wait(p, "idle", NoConn, Nothing) \/ Wait(p, "inner", c, Nothing)
    BY <1>5 DEF Count, AfterCount, Return
  <2>3. Wait(p, "idle", NoConn, Nothing) => CallerTypes' /\ \A q \in Callers : Placed(q)'
    BY <1>0, <2>1, NothingType, StepPlaced DEF Placed, Pcs
  <2>4. Wait(p, "inner", c, Nothing) => CallerTypes' /\ \A q \in Callers : Placed(q)'
    BY <1>0, <2>1, NothingType, StepPlaced DEF Placed, Pcs
  <2>5. leaked' \subseteq Conns
    BY <1>5, <2>1 DEF Count, AfterCount, StateTypes
  <2>6. StateTypes' /\ BalancedInv'
    BY <1>5, <2>5 DEF Count, StateTypes, BalancedInv
  <2> QED
    BY <2>2, <2>3, <2>4, <2>6
<1>6. InnerReturns(p) \/ InnerClosed(p) \/ Cancel(p) => PlacedInv' /\ BalancedInv'
  BY <1>2 DEF InnerReturns, InnerClosed, Cancel
<1> QED
  BY <1>1, <1>3, <1>4, <1>5, <1>6

LEMMA PlacedDisconnect ==
  ASSUME PlacedInv, BalancedInv, NEW p \in Callers,
         \/ \E c \in Conns : Disconnect(p, c)
         \/ DisconnectStats(p) \/ DisconnectInner(p)
  PROVE  PlacedInv' /\ BalancedInv'
<1>0. NoConn \notin Conns
  BY ProviderAssumption
<1> USE DEF PlacedInv
<1>1. ASSUME NEW c \in Conns, Disconnect(p, c) PROVE PlacedInv' /\ BalancedInv'
  <2>1. /\ Wait(p, "disconnect_stats", c, Nothing) /\ opened' = opened /\ handed' = handed
        /\ c \in handed /\ PutMask(c, NoMask)
    BY <1>1 DEF Disconnect
  <2>2. CallerTypes' /\ \A q \in Callers : Placed(q)'
    BY <1>0, <2>1, NothingType, StepPlaced DEF Placed, Pcs
  <2>3. /\ masks' \in [Conns -> Masks] /\ BalancedInv'
        /\ passed' \in [Conns -> [Texts -> Seq(Nat)]]
    <3>1. NoMask \in Masks /\ Balanced(NoMask.frequency)
      BY BuiltBalanced
    <3> QED
      BY <2>1, <3>1, PutMaskTypes
  <2>4. StateTypes'
    BY <1>1, <2>3 DEF Disconnect, StateTypes
  <2> QED
    BY <2>2, <2>3, <2>4
<1>2. ASSUME DisconnectStats(p) PROVE PlacedInv' /\ BalancedInv'
  <2> PICK c \in handed : c = target[p]
    BY <1>2 DEF DisconnectStats, Placed
  <2>1. Wait(p, "disconnect_inner", c, Nothing) /\ opened' = opened /\ handed' = handed /\ c \in Conns
    BY <1>2 DEF DisconnectStats, StateTypes
  <2>2. CallerTypes' /\ \A q \in Callers : Placed(q)'
    BY <1>0, <2>1, NothingType, StepPlaced DEF Placed, Pcs
  <2>3. StateTypes' /\ BalancedInv'
    BY <1>2 DEF DisconnectStats, StateTypes, BalancedInv, history
  <2> QED
    BY <2>2, <2>3
<1>3. ASSUME DisconnectInner(p) PROVE PlacedInv' /\ BalancedInv'
  <2> PICK c \in handed : c = target[p]
    BY <1>3 DEF DisconnectInner, Placed
  <2>1. Wait(p, "idle", NoConn, Nothing) /\ opened' = opened \ {c} /\ handed' = handed /\ c \in Conns
    BY <1>3 DEF DisconnectInner, Return, StateTypes
  <2>2. \A q \in Callers \ {p} : pc[q] \in {"connect_mask", "connect_stats"} =>
           target[q] # NoConn /\ target[q] \in opened' /\ target[q] \notin handed'
    BY <1>0, <2>1 DEF Placed
  <2>3. CallerTypes' /\ \A q \in Callers : Placed(q)'
    BY <2>1, <2>2, NothingType, StepPlaced DEF Pcs
  <2>4. StateTypes' /\ BalancedInv'
    BY <1>3 DEF DisconnectInner, StateTypes, BalancedInv
  <2> QED
    BY <2>3, <2>4
<1> QED
  BY <1>1, <1>2, <1>3

(* The calls that are one step of no caller's, and the clock.              *)
LEMMA PlacedOthers ==
  ASSUME PlacedInv, BalancedInv,
         \/ Tick
         \/ \E c \in Conns :
              \/ ClearMask(c) \/ ResetMask(c) \/ ResetStats(c)
              \/ \E kinds \in Configs : SetMask(c, kinds)
  PROVE  PlacedInv' /\ BalancedInv'
<1> USE DEF PlacedInv
<1>1. ASSUME UNCHANGED <<opened, handed, callerVars>>
      PROVE  CallerTypes' /\ \A q \in Callers : Placed(q)'
  BY <1>1 DEF CallerTypes, Placed, callerVars
<1>2. ASSUME NEW c \in Conns, NEW mask \in Masks, Balanced(mask.frequency), PutMask(c, mask),
             UNCHANGED <<opened, handed, callerVars, stats, now, popped, leaked>>,
             guarded' \subseteq guarded, cleaned' \subseteq cleaned
      PROVE  PlacedInv' /\ BalancedInv'
  <2>1. /\ masks' \in [Conns -> Masks] /\ BalancedInv'
        /\ passed' \in [Conns -> [Texts -> Seq(Nat)]]
    BY <1>2, PutMaskTypes
  <2> QED
    BY <1>1, <1>2, <2>1 DEF StateTypes
<1>3. ASSUME NEW c \in Conns, ClearMask(c) PROVE PlacedInv' /\ BalancedInv'
  <2>1. NoMask \in Masks /\ Balanced(NoMask.frequency)
    BY BuiltBalanced
  <2> QED
    BY <1>2, <1>3, <2>1 DEF ClearMask
<1>4. ASSUME NEW c \in Conns, ResetMask(c) PROVE PlacedInv' /\ BalancedInv'
  <2>1. masks[c].kinds \in SUBSET Kinds
    BY DEF StateTypes, Masks
  <2> QED
    BY <1>2, <1>4, <2>1, BuiltBalanced DEF ResetMask
<1>5. ASSUME NEW c \in Conns, NEW kinds \in Configs, SetMask(c, kinds)
      PROVE  PlacedInv' /\ BalancedInv'
  <2>1. kinds \in SUBSET Kinds
    BY ProviderAssumption
  <2> QED
    BY <1>2, <1>5, <2>1, BuiltBalanced DEF SetMask
<1>6. ASSUME NEW c \in Conns, ResetStats(c) PROVE PlacedInv' /\ BalancedInv'
  BY <1>1, <1>6 DEF ResetStats, StateTypes, BalancedInv
<1>7. ASSUME Tick PROVE PlacedInv' /\ BalancedInv'
  BY <1>1, <1>7 DEF Tick, StateTypes, BalancedInv, history
<1> QED
  BY <1>3, <1>4, <1>5, <1>6, <1>7

LEMMA PlacedInvariant == Spec => [](PlacedInv /\ BalancedInv)
<1>1. PlacedInv /\ BalancedInv /\ [Next]_vars => (PlacedInv /\ BalancedInv)'
  <2> SUFFICES ASSUME PlacedInv, BalancedInv, [Next]_vars PROVE PlacedInv' /\ BalancedInv'
    OBVIOUS
  <2>1. CASE UNCHANGED vars
    BY <2>1 DEF PlacedInv, CallerTypes, StateTypes, Placed, BalancedInv, vars, callerVars, history
  <2>2. CASE Next
    BY <2>2, PlacedConnect, PlacedReceive, PlacedDisconnect, PlacedOthers DEF Next, CallerStep
  <2> QED
    BY <2>1, <2>2
<1> QED
  BY <1>1, PlacedInit, PTL DEF Spec

-----------------------------------------------------------------------------
(* Type correctness.                                                       *)
THEOREM TypeCorrect == Spec => []TypeOK
<1>1. PlacedInv => TypeOK
  BY DEF PlacedInv, CallerTypes, StateTypes, TypeOK, Masks, Frequencies, Tables, Buckets, Locals, Pcs
<1> QED
  BY <1>1, PlacedInvariant, PTL

(* No mask counts a hit that has left its buckets, or forgets one that has *)
(* not, whatever the shifts, resets and late checks (mask_frequency.rs).   *)
THEOREM CountsMatchBuckets == Spec => []FrequencyMatchesBuckets
<1>1. PlacedInv /\ BalancedInv => FrequencyMatchesBuckets
  <2> SUFFICES ASSUME PlacedInv, BalancedInv, NEW c \in Conns
               PROVE  FrequencyIsSum(masks[c].frequency)
    BY DEF FrequencyMatchesBuckets
  <2>1. masks[c].frequency \in Frequencies
    BY DEF PlacedInv, StateTypes, Masks
  <2> QED
    BY <2>1, BalancedIsSum DEF BalancedInv
<1> QED
  BY <1>1, PlacedInvariant, PTL

-----------------------------------------------------------------------------
(* The blacklist.  A guarded connection has it in its mask, a message it    *)
(* blocks that is past the mask was found blocked, and no id is guarded    *)
(* before its mask is in place.                                            *)
GuardedInv ==
  /\ \A c \in guarded : "words" \in masks[c].kinds
  /\ \A p \in Callers :
       pc[p] = "count" /\ ~held[p].blocked /\ held[p].text \in Blacklist => target[p] \notin guarded
  /\ \A p \in Callers : pc[p] = "connect_mask" => target[p] \notin guarded
  /\ leaked = {}

LEMMA GuardedStep == PlacedInv /\ BalancedInv /\ GuardedInv /\ [Next]_vars => GuardedInv'
<1> SUFFICES ASSUME PlacedInv, BalancedInv, GuardedInv, [Next]_vars PROVE GuardedInv'
  OBVIOUS
<1>0. CallerTypes /\ StateTypes /\ \A p \in Callers : Placed(p)
  BY DEF PlacedInv
<1> DEFINE Passing(p) == pc[p] \in {"count", "connect_mask"}
           Stays(p) == pc'[p] = pc[p] /\ held'[p] = held[p] /\ target'[p] = target[p]
(* Most steps let no caller past a mask and guard nothing.                 *)
<1>1. ASSUME \A c \in guarded' : c \in guarded /\ masks'[c].kinds = masks[c].kinds,
             \A p \in Callers : Passing(p)' => Passing(p) /\ Stays(p),
             leaked' = leaked
      PROVE  GuardedInv'
  BY <1>1 DEF GuardedInv
<1>2. ASSUME NEW p \in Callers, NEW step \in Pcs \ {"count", "connect_mask"}, NEW c, NEW locals,
             Wait(p, step, c, locals)
      PROVE  \A q \in Callers : Passing(q)' => Passing(q) /\ Stays(q)
  BY <1>0, <1>2 DEF Wait, CallerTypes
<1>3. ASSUME NEW c \in Conns, NEW mask, PutMask(c, mask), guarded' = guarded \ {c}
      PROVE  \A d \in guarded' : d \in guarded /\ masks'[d].kinds = masks[d].kinds
  BY <1>0, <1>3 DEF PutMask, StateTypes
<1>4. ASSUME NEW p \in Callers, NEW c \in Conns, NEW kinds \in Configs, Connect(p, c, kinds)
      PROVE  GuardedInv'
  <2>1. c \notin guarded /\ \A d \in guarded' : d \in guarded /\ masks'[d] = masks[d]
    BY <1>0, <1>4 DEF Connect, history, StateTypes
  <2>2. leaked' = leaked
    BY <1>4 DEF Connect, history
  <2>3. target'[p] = c /\ pc'[p] # "count" /\ \A q \in Callers \ {p} : Stays(q)
    BY <1>0, <1>4 DEF Connect, Wait, CallerTypes
  <2>4. guarded' = guarded
    BY <1>4 DEF Connect, history
  <2> QED
    BY <2>1, <2>2, <2>3, <2>4 DEF GuardedInv
<1>5. ASSUME NEW p \in Callers, ConnectMask(p) PROVE GuardedInv'
  <2> PICK c \in Conns : c = target[p] /\ \A q \in Callers \ {p} : target[q] # c
    BY <1>0, <1>5 DEF ConnectMask, Placed
  <2>1. /\ masks' = [masks EXCEPT ![c] = BuildMask(held[p].kinds)]
        /\ guarded' = IF "words" \in held[p].kinds THEN guarded \union {c} ELSE guarded
        /\ c \notin guarded /\ leaked' = leaked
    BY <1>5 DEF ConnectMask, PutMask, GuardedInv
  <2>2. \A q \in Callers : Passing(q)' => Stays(q) /\ q # p
    BY <1>0, <1>5 DEF ConnectMask, Wait, CallerTypes
  <2>3. \A d \in guarded' : "words" \in masks'[d].kinds
    BY <1>0, <2>1 DEF StateTypes, BuildMask, GuardedInv
  <2> QED
    BY <2>1, <2>2, <2>3 DEF GuardedInv
<1>6. ASSUME NEW p \in Callers, ConnectStats(p) \/ InnerReturns(p) \/ InnerClosed(p) \/ Cancel(p)
      PROVE  GuardedInv'
  BY <1>1, <1>2, <1>6 DEF ConnectStats, InnerReturns, InnerClosed, Cancel, Return, history, Pcs
<1>7. ASSUME NEW p \in Callers, NEW c \in Conns, Receive(p, c) PROVE GuardedInv'
  BY <1>1, <1>2, <1>7 DEF Receive, history, Pcs
<1>8. ASSUME NEW p \in Callers, NEW text \in Texts, InnerMessage(p, text) PROVE GuardedInv'
  BY <1>1, <1>2, <1>8 DEF InnerMessage, Pcs
<1>9. ASSUME NEW p \in Callers, Check(p) PROVE GuardedInv'
  <2> PICK c \in Conns : c = target[p]
    BY <1>0, <1>9 DEF Check, Placed
  <2> DEFINE msg == held[p]
             blocks == Blocks(masks[c], msg.text, msg.at)
  <2>1. /\ masks' = [masks EXCEPT ![c] = Asked(@, msg.text, msg.at)]
        /\ Wait(p, "count", c, [msg EXCEPT !.blocked = blocks])
        /\ guarded' = guarded /\ leaked' = leaked
    BY <1>9 DEF Check
  <2>2. Asked(masks[c], msg.text, msg.at).kinds = masks[c].kinds
    <3>1. msg \in Locals /\ msg.text \in Texts /\ masks[c] \in Masks
      BY <1>0, <1>9 DEF Check, CallerTypes, StateTypes, Placed
    <3> QED
      BY <3>1, AskedType DEF Locals, BalancedInv
  <2>3. \A d \in guarded' : "words" \in masks'[d].kinds
    BY <1>0, <2>1, <2>2 DEF StateTypes, GuardedInv
  <2>4. blocks \/ msg.text \notin Blacklist \/ c \notin guarded
    BY DEF Blocks, WordsBlock, GuardedInv
  <2> HIDE DEF blocks
  <2>5. held'[p] = [msg EXCEPT !.blocked = blocks] /\ target'[p] = c
    BY <1>0, <2>1 DEF Wait, CallerTypes
  <2>6. held'[p].blocked = blocks /\ held'[p].text = msg.text
    BY <1>0, <2>5 DEF CallerTypes, Locals
  <2>7. \A q \in Callers \ {p} : pc'[q] = pc[q] /\ held'[q] = held[q] /\ target'[q] = target[q]
    BY <1>0, <2>1 DEF Wait, CallerTypes
  <2>8. \A q \in Callers :
          /\ pc'[q] = "count" /\ ~held'[q].blocked /\ held'[q].text \in Blacklist => target'[q] \notin guarded'
          /\ pc'[q] = "connect_mask" => target'[q] \notin guarded'
    BY <1>0, <2>1, <2>4, <2>5, <2>6, <2>7 DEF GuardedInv, Wait, CallerTypes
  <2> QED
    BY <2>1, <2>3, <2>8 DEF GuardedInv
<1>10. ASSUME NEW p \in Callers, Count(p) PROVE GuardedInv'
  <2>1. pc[p] = "count" /\ masks' = masks /\ guarded' = guarded
    BY <1>10 DEF Count
  <2>2. leaked' = leaked
    BY <1>10 DEF Count, AfterCount, GuardedInv
  <2>3. Wait(p, "inner", target[p], Nothing) \/ Wait(p, "idle", NoConn, Nothing)
    BY <1>10 DEF Count, AfterCount, Return
  <2> QED
    BY <1>1, <1>2, <2>1, <2>2, <2>3 DEF Pcs
<1>11. ASSUME NEW p \in Callers, NEW c \in Conns, Disconnect(p, c) PROVE GuardedInv'
  <2>1. \A d \in guarded' : d \in guarded /\ masks'[d].kinds = masks[d].kinds
    BY <1>3, <1>11 DEF Disconnect
  <2>2. Wait(p, "disconnect_stats", c, Nothing) /\ leaked' = leaked
    BY <1>11 DEF Disconnect
  <2> QED
    BY <1>1, <1>2, <2>1, <2>2 DEF Pcs
<1>12. ASSUME NEW p \in Callers, DisconnectStats(p) \/ DisconnectInner(p) PROVE GuardedInv'
  BY <1>1, <1>2, <1>12 DEF DisconnectStats, DisconnectInner, Return, history, Pcs
<1>13. ASSUME NEW c \in Conns, ClearMask(c) \/ \E kinds \in Configs : SetMask(c, kinds)
       PROVE  GuardedInv'
  <2>1. (\E mask : PutMask(c, mask)) /\ guarded' = guarded \ {c}
    BY <1>13 DEF ClearMask, SetMask
  <2> QED
    BY <1>1, <1>3, <1>13, <2>1 DEF ClearMask, SetMask, callerVars
<1>14. ASSUME NEW c \in Conns, ResetMask(c) PROVE GuardedInv'
  <2>1. \A d \in guarded : masks'[d].kinds = masks[d].kinds
    BY <1>0, <1>14 DEF ResetMask, PutMask, StateTypes, BuildMask
  <2> QED
    BY <1>1, <1>14, <2>1 DEF ResetMask, callerVars
<1>15. ASSUME NEW c \in Conns, ResetStats(c) PROVE GuardedInv'
  BY <1>1, <1>15 DEF ResetStats, callerVars
<1>16. ASSUME Tick \/ UNCHANGED vars PROVE GuardedInv'
  BY <1>1, <1>16 DEF Tick, vars, callerVars, history
<1> QED
  BY <1>4, <1>5, <1>6, <1>7, <1>8, <1>9, <1>10, <1>11, <1>12, <1>13, <1>14, <1>15, <1>16
     DEF Next, CallerStep

(* A connection made with the blacklist delivers no text it blocks, until   *)
(* it is disconnected or its mask replaced (mask_provider.rs:97-143).      *)
THEOREM BlacklistKept == Spec => []BlacklistHolds
<1>1. Init => GuardedInv
  BY DEF Init, GuardedInv
<1>2. GuardedInv => BlacklistHolds
  BY DEF GuardedInv, BlacklistHolds
<1> QED
  BY <1>1, <1>2, GuardedStep, PlacedInvariant, PTL DEF Spec

-----------------------------------------------------------------------------
(* Disconnecting.  What one disconnect has removed stays away while it      *)
(* waits, since it holds the lock it removed it under; one caller at most   *)
(* disconnects at a time.                                                  *)
Disconnecting(p) == pc[p] \in {"disconnect_stats", "disconnect_inner"}

CleanInv ==
  /\ \A c \in cleaned : masks[c] = NoMask /\ c \notin stats
  /\ \A p \in Callers :
       /\ Disconnecting(p) => masks[target[p]] = NoMask
       /\ pc[p] = "disconnect_inner" => target[p] \notin stats
  /\ \A p, q \in Callers : Disconnecting(p) /\ Disconnecting(q) => p = q

LEMMA CleanStep == PlacedInv /\ CleanInv /\ [Next]_vars => CleanInv'
<1> SUFFICES ASSUME PlacedInv, CleanInv, [Next]_vars PROVE CleanInv'
  OBVIOUS
<1>0. CallerTypes /\ StateTypes /\ \A p \in Callers : Placed(p)
  BY DEF PlacedInv
<1> DEFINE Stays(p) == pc'[p] = pc[p] /\ target'[p] = target[p]
(* The two tables lose nothing that was to stay away.                      *)
<1>1. ASSUME \A p \in Callers : Disconnecting(p)' => Disconnecting(p) /\ Stays(p),
             \A c \in Conns : masks[c] = NoMask => masks'[c] = NoMask,
             stats' \subseteq stats, cleaned' \subseteq cleaned
      PROVE  CleanInv'
  <2>1. \A c \in cleaned' : masks'[c] = NoMask /\ c \notin stats'
    BY <1>0, <1>1 DEF CleanInv, StateTypes
  <2>2. ASSUME NEW p \in Callers
        PROVE  /\ Disconnecting(p)' => masks'[target'[p]] = NoMask
               /\ pc'[p] = "disconnect_inner" => target'[p] \notin stats'
    <3>1. Disconnecting(p) => target[p] \in Conns
      BY <1>0 DEF Placed, Disconnecting
    <3> QED
      BY <1>1, <3>1 DEF CleanInv, Disconnecting
  <2> QED
    BY <1>1, <2>1, <2>2 DEF CleanInv
<1>2. ASSUME NEW p \in Callers, NEW step \in Pcs \ {"disconnect_stats", "disconnect_inner"},
             NEW c, NEW locals, Wait(p, step, c, locals)
      PROVE  \A q \in Callers : Disconnecting(q)' => Disconnecting(q) /\ Stays(q)
  BY <1>0, <1>2 DEF Wait, CallerTypes, Disconnecting
<1>3. ASSUME NEW p \in Callers, NEW c \in Conns, NEW kinds \in Configs, Connect(p, c, kinds)
      PROVE  CleanInv'
  BY <1>1, <1>2, <1>3 DEF Connect, history, Pcs
<1>4. ASSUME NEW p \in Callers, ConnectMask(p) PROVE CleanInv'
  <2> PICK c \in Conns : c = target[p] /\ c \notin handed
    BY <1>0, <1>4 DEF ConnectMask, Placed
  <2>1. \A d \in Conns \ {c} : masks'[d] = masks[d]
    BY <1>0, <1>4 DEF ConnectMask, PutMask, StateTypes
  <2>2. \A q \in Callers : ~Disconnecting(q)'
    BY <1>0, <1>2, <1>4 DEF ConnectMask, MasksFree, Disconnecting, Pcs
  <2>3. cleaned' = cleaned /\ stats' = stats /\ c \notin cleaned /\ cleaned \subseteq Conns
    BY <1>0, <1>4 DEF ConnectMask, StateTypes
  <2>4. \A q \in Callers : pc'[q] # "disconnect_inner"
    BY <2>2 DEF Disconnecting
  <2> QED
    BY <2>1, <2>2, <2>3, <2>4 DEF CleanInv
<1>5. ASSUME NEW p \in Callers, ConnectStats(p) PROVE CleanInv'
  <2> PICK c \in Conns : c = target[p] /\ c \notin handed
    BY <1>0, <1>5 DEF ConnectStats, Placed
  <2>1. masks' = masks /\ stats' = stats \union {c} /\ cleaned' = cleaned /\ c \notin cleaned
    BY <1>0, <1>5 DEF ConnectStats, history, StateTypes
  <2>2. \A q \in Callers : Disconnecting(q)' => Disconnecting(q) /\ Stays(q)
    BY <1>2, <1>5 DEF ConnectStats, Return, Pcs
  <2>3. \A q \in Callers : pc[q] # "disconnect_inner"
    BY <1>5 DEF ConnectStats, StatsFree
  <2> QED
    BY <2>1, <2>2, <2>3 DEF CleanInv, Disconnecting
<1>6. ASSUME NEW p \in Callers, InnerReturns(p) \/ InnerClosed(p) \/ Cancel(p) PROVE CleanInv'
  BY <1>1, <1>2, <1>6 DEF InnerReturns, InnerClosed, Cancel, Return, history, Pcs
<1>7. ASSUME NEW p \in Callers, NEW c \in Conns, Receive(p, c) PROVE CleanInv'
  BY <1>1, <1>2, <1>7 DEF Receive, history, Pcs
<1>8. ASSUME NEW p \in Callers, NEW text \in Texts, InnerMessage(p, text) PROVE CleanInv'
  BY <1>1, <1>2, <1>8 DEF InnerMessage, Pcs
<1>9. ASSUME NEW p \in Callers, Check(p) PROVE CleanInv'
  <2>1. \A text, instant : Asked(NoMask, text, instant) = NoMask
    BY DEF Asked, NoMask
  <2>2. \A c \in Conns : masks[c] = NoMask => masks'[c] = NoMask
    BY <1>0, <1>9, <2>1 DEF Check, StateTypes
  <2>3. \A q \in Callers : Disconnecting(q)' => Disconnecting(q) /\ Stays(q)
    BY <1>2, <1>9 DEF Check, Pcs
  <2> QED
    BY <1>1, <1>9, <2>2, <2>3 DEF Check
<1>10. ASSUME NEW p \in Callers, Count(p) PROVE CleanInv'
  <2>1. Wait(p, "inner", target[p], Nothing) \/ Wait(p, "idle", NoConn, Nothing)
    BY <1>10 DEF Count, AfterCount, Return
  <2>2. \A q \in Callers : Disconnecting(q)' => Disconnecting(q) /\ Stays(q)
    BY <1>2, <2>1 DEF Pcs
  <2> QED
    BY <1>1, <1>10, <2>2 DEF Count
<1>11. ASSUME NEW p \in Callers, NEW c \in Conns, Disconnect(p, c) PROVE CleanInv'
  <2>1. \A d \in Conns : masks'[d] = IF d = c THEN NoMask ELSE masks[d]
    BY <1>0, <1>11 DEF Disconnect, PutMask, StateTypes
  <2>2. \A q \in Callers : Disconnecting(q)' => q = p
    BY <1>0, <1>11 DEF Disconnect, MasksFree, Wait, CallerTypes, Disconnecting
  <2>3. pc'[p] = "disconnect_stats" /\ target'[p] = c
    BY <1>0, <1>11 DEF Disconnect, Wait, CallerTypes
  <2>4. cleaned' = cleaned /\ stats' = stats /\ cleaned \subseteq Conns
    BY <1>0, <1>11 DEF Disconnect, StateTypes
  <2> QED
    BY <2>1, <2>2, <2>3, <2>4 DEF CleanInv, Disconnecting
<1>12. ASSUME NEW p \in Callers, DisconnectStats(p) PROVE CleanInv'
  <2> PICK c \in Conns : c = target[p]
    BY <1>0, <1>12 DEF DisconnectStats, Placed
  <2>1. pc[p] = "disconnect_stats" /\ Wait(p, "disconnect_inner", c, Nothing)
        /\ stats' = stats \ {c} /\ masks' = masks /\ cleaned' = cleaned
    BY <1>12 DEF DisconnectStats, history
  <2>2. /\ pc'[p] = "disconnect_inner" /\ target'[p] = c
        /\ \A q \in Callers \ {p} : Stays(q)
    BY <1>0, <2>1 DEF Wait, CallerTypes
  <2> QED
    BY <2>1, <2>2 DEF CleanInv, Disconnecting
<1>13. ASSUME NEW p \in Callers, DisconnectInner(p) PROVE CleanInv'
  <2>1. pc[p] = "disconnect_inner" /\ stats' = stats /\ masks' = masks
        /\ cleaned' = cleaned \union {target[p]}
    BY <1>13 DEF DisconnectInner
  <2>2. masks[target[p]] = NoMask /\ target[p] \notin stats
    BY <2>1 DEF CleanInv, Disconnecting
  <2>3. \A q \in Callers : Disconnecting(q)' => Disconnecting(q) /\ Stays(q)
    BY <1>2, <1>13 DEF DisconnectInner, Return, Pcs
  <2> QED
    BY <2>1, <2>2, <2>3 DEF CleanInv, Disconnecting
<1>14. ASSUME NEW c \in Conns, NEW kinds \in Configs, SetMask(c, kinds) PROVE CleanInv'
  <2>1. \A d \in Conns \ {c} : masks'[d] = masks[d]
    BY <1>0, <1>14 DEF SetMask, PutMask, StateTypes
  <2>2. cleaned' = cleaned \ {c} /\ stats' = stats /\ cleaned \subseteq Conns /\ pc' = pc
    BY <1>0, <1>14 DEF SetMask, StateTypes, callerVars
  <2>3. \A q \in Callers : ~Disconnecting(q)
    BY <1>14 DEF SetMask, MasksFree, Disconnecting
  <2> QED
    BY <2>1, <2>2, <2>3 DEF CleanInv, Disconnecting
<1>15. ASSUME NEW c \in Conns, ClearMask(c) \/ ResetMask(c) PROVE CleanInv'
  <2>1. BuildMask(NoMask.kinds) = NoMask
    BY DEF BuildMask, NoMask
  <2>2. \A d \in Conns : masks[d] = NoMask => masks'[d] = NoMask
    BY <1>0, <1>15, <2>1 DEF ClearMask, ResetMask, PutMask, StateTypes
  <2> QED
    BY <1>1, <1>15, <2>2 DEF ClearMask, ResetMask, callerVars, Disconnecting
<1>16. ASSUME NEW c \in Conns, ResetStats(c) PROVE CleanInv'
  <2>1. /\ cleaned' = cleaned \ {c} /\ stats' = stats \union {c} /\ masks' = masks
        /\ pc' = pc /\ target' = target /\ \A q \in Callers : pc[q] # "disconnect_inner"
    BY <1>16 DEF ResetStats, StatsFree, callerVars
  <2> QED
    BY <2>1 DEF CleanInv, Disconnecting
<1>17. ASSUME Tick \/ UNCHANGED vars PROVE CleanInv'
  BY <1>1, <1>17 DEF Tick, vars, callerVars, history, Disconnecting
<1> QED
  BY <1>3, <1>4, <1>5, <1>6, <1>7, <1>8, <1>9, <1>10, <1>11, <1>12, <1>13, <1>14, <1>15, <1>16, <1>17
     DEF Next, CallerStep

(* A disconnect leaves neither a mask nor statistics behind, though another *)
(* caller's receive may still be on its way (mask_provider.rs:109-117).    *)
THEOREM DisconnectedIsClean == Spec => []DisconnectCleans
<1>1. Init => CleanInv
  BY DEF Init, CleanInv, Disconnecting
<1>2. CleanInv => DisconnectCleans
  BY DEF CleanInv, DisconnectCleans
<1> QED
  BY <1>1, <1>2, CleanStep, PlacedInvariant, PTL DEF Spec

-----------------------------------------------------------------------------
(* The rate a frequency mask limits.                                       *)

LEMMA Division ==
  ASSUME NEW a \in Nat, NEW n \in Nat \ {0}
  PROVE  /\ a \div n \in Nat
         /\ n * (a \div n) <= a
         /\ a < n * (a \div n) + n
BY SMT

LEMMA Multiples ==
  ASSUME NEW n \in Nat \ {0}, NEW q \in Nat \ {0}
  PROVE  n * q \in Nat /\ n <= n * q /\ n * 0 = 0 /\ q * n = n * q
BY SMT

LEMMA ShiftsExact ==
  ASSUME NEW m \in Frequencies, NEW instant \in Nat, BucketSize > 0
  PROVE  LET a == Monus(instant, m.lastShift)
         IN  /\ Shifts(m, instant) \in Nat
             /\ BucketSize * Shifts(m, instant) <= a
             /\ \/ a < BucketSize * Shifts(m, instant) + BucketSize
                \/ Shifts(m, instant) = BucketCount
<1> DEFINE a == Monus(instant, m.lastShift)
<1>1. PICK n \in Nat \ {0} : n = BucketSize
  BY ShiftsBounded
<1>2. PICK x \in Nat : x = a
  BY DEF Monus, Frequencies
<1>3. PICK q \in Nat : q = x \div n /\ n * q <= x /\ x < n * q + n
  BY Division
<1>4. Shifts(m, instant) = Min({BucketCount, q})
  BY <1>1, <1>2, <1>3 DEF Shifts
<1>5. \E u \in {BucketCount, q} : \A y \in {BucketCount, q} : u <= y
  BY MaskAssumption
<1>6. PICK k \in {BucketCount, q} : k = Shifts(m, instant) /\ k <= BucketCount /\ k <= q
  BY <1>4, <1>5 DEF Min
<1>7. k \in Nat
  BY <1>3, MaskAssumption
<1>8. n * k <= n * q
  BY <1>6, <1>7
<1>9. k = BucketCount \/ k = q
  BY <1>6
<1>10. n * k <= x /\ (x < n * k + n \/ k = BucketCount)
  BY <1>3, <1>7, <1>8, <1>9
<1> QED
  BY <1>1, <1>2, <1>6, <1>7, <1>10

LEMMA ShiftFreq ==
  ASSUME NEW m \in Frequencies, NEW instant \in Nat, NEW t \in Texts
  PROVE  Shift(m, instant).freq[t]
           = Monus(m.freq[t], Cardinality(Hits(m.buckets, t, Expired(m, instant))))
<1>1. Shift(m, instant).freq = [u \in Texts |->
        Monus(m.freq[u], Cardinality(Hits(m.buckets, u, Expired(m, instant))))]
  BY ShiftFields
<1> QED
  BY <1>1

LEMMA NoShift ==
  ASSUME NEW m \in Frequencies, NEW instant \in Nat, Shifts(m, instant) = 0
  PROVE  /\ Shift(m, instant).current = m.current
         /\ Shift(m, instant).lastShift = m.lastShift
         /\ Shift(m, instant).buckets = m.buckets
         /\ \A t \in Texts : Shift(m, instant).freq[t] = m.freq[t]
<1>1. m.current \in Nat /\ BucketCount \in Nat \ {0} /\ m.current < BucketCount
  BY MaskAssumption DEF Frequencies, Buckets
<1>2. Expired(m, instant) = {}
  BY DEF Expired
<1>3. Advance(m, 0) = m.current
  BY <1>1 DEF Advance
<1>4. m.lastShift + 0 * BucketSize = m.lastShift
  <2>1. PICK n \in Nat, l \in Nat : n = BucketSize /\ l = m.lastShift
    BY ShiftsBounded DEF Frequencies
  <2> QED
    BY <2>1
<1>5. Shift(m, instant).buckets = m.buckets
  <2>1. m.buckets = [i \in Buckets |-> m.buckets[i]]
    BY DEF Frequencies, Tables
  <2>2. Shift(m, instant).buckets =
          [i \in Buckets |-> IF i \in Expired(m, instant) THEN [t \in Texts |-> 0]
                             ELSE m.buckets[i]]
    BY ShiftFields
  <2>3. \A i \in Buckets : i \notin Expired(m, instant)
    BY <1>2
  <2>4. Shift(m, instant).buckets = [i \in Buckets |-> m.buckets[i]]
    BY <2>2, <2>3
  <2> QED
    BY <2>1, <2>4
<1>6. ASSUME NEW t \in Texts PROVE Shift(m, instant).freq[t] = m.freq[t]
  <2>1. Hits(m.buckets, t, {}) = {}
    BY DEF Hits
  <2>2. PICK f \in Nat : f = m.freq[t]
    BY DEF Frequencies
  <2>3. Shift(m, instant).freq[t]
          = Monus(m.freq[t], Cardinality(Hits(m.buckets, t, Expired(m, instant))))
    BY ShiftFreq
  <2>4. Cardinality(Hits(m.buckets, t, Expired(m, instant))) = 0
    BY <1>2, <2>1, FS_EmptySet
  <2>5. Shift(m, instant).freq[t] = Monus(f, 0)
    BY <2>2, <2>3, <2>4
  <2> QED
    BY <2>2, <2>5 DEF Monus
<1> QED
  BY <1>1, <1>3, <1>4, <1>5, <1>6, ShiftFields

(* A mask asked at an instant is left where it was, or moved by at least a  *)
(* bucket's length to the bucket of that instant.                          *)
LEMMA ShiftMoves ==
  ASSUME NEW m \in Frequencies, NEW instant \in Nat, BucketSize > 0
  PROVE  LET r == ShiftIfNeeded(m, instant)
         IN  \/ /\ r.lastShift = m.lastShift /\ r.current = m.current /\ r.buckets = m.buckets
                /\ instant < m.lastShift + BucketSize
             \/ /\ m.lastShift + BucketSize <= r.lastShift
                /\ r.lastShift <= instant /\ instant < r.lastShift + BucketSize
<1> DEFINE a == Align(m, instant)
           r == Shift(a, instant)
           k == Shifts(a, instant)
<1>1. PICK n \in Nat \ {0} : n = BucketSize
  BY ShiftsBounded
<1>2. PICK l \in Nat : l = m.lastShift
  BY DEF Frequencies
<1>3. PICK c \in Nat : c = a.lastShift /\ c = IF l = 0 THEN Monus(instant, n) ELSE l
  BY <1>1, <1>2 DEF Align, Monus, Frequencies
<1>4. a \in Frequencies /\ a.current = m.current /\ a.buckets = m.buckets
  BY <1>3 DEF Align, Frequencies
<1>5. PICK s \in Nat : /\ s = k /\ n * s <= Monus(instant, c)
                       /\ Monus(instant, c) < n * s + n \/ s = BucketCount
  BY <1>1, <1>3, <1>4, ShiftsExact
<1>6. r.lastShift = IF s = BucketCount THEN instant ELSE c + n * s
  <2>1. s * n = n * s
    OBVIOUS
  <2>2. r.lastShift = IF k = BucketCount THEN instant ELSE a.lastShift + k * BucketSize
    <3> HIDE DEF a
    <3> QED
      BY <1>4, ShiftFields
  <2> QED
    BY <1>1, <1>3, <1>5, <2>1, <2>2
<1>7. CASE s = 0
  <2>1. r.lastShift = c /\ r.current = m.current /\ r.buckets = m.buckets
    BY <1>3, <1>4, <1>5, <1>7, NoShift, ZenonT(40)
  <2>2. Monus(instant, c) < n
    BY <1>5, <1>7, MaskAssumption
  <2>3. c = l /\ instant < l + n
    BY <1>3, <2>2 DEF Monus
  <2> QED
    BY <1>1, <1>2, <2>1, <2>3 DEF ShiftIfNeeded
<1>8. CASE s # 0
  <2>1. n * s \in Nat /\ n <= n * s
    BY <1>8, Multiples
  <2>2. PICK z \in Nat : z = n * s
    BY <2>1
  <2>3. c + z <= instant /\ n <= z /\ (instant < c + z + n \/ s = BucketCount)
    BY <1>5, <2>1, <2>2 DEF Monus
  <2>4. r.lastShift = IF s = BucketCount THEN instant ELSE c + z
    BY <1>6, <2>2
  <2>5. l <= c
    BY <1>3 DEF Monus
  <2>6. PICK e \in Nat : e = r.lastShift
    BY <2>4
  <2>7. l + n <= e /\ e <= instant /\ instant < e + n
    BY <2>3, <2>4, <2>5, <2>6
  <2> QED
    BY <1>1, <1>2, <2>6, <2>7 DEF ShiftIfNeeded
<1> QED
  BY <1>7, <1>8

LEMMA AskedFrequency ==
  ASSUME NEW m \in Frequencies, NEW text \in Texts, NEW instant \in Nat, NEW t \in Texts,
         m.freq[t] <= MaxFrequency
  PROVE  LET r == ShiftIfNeeded(m, instant)
         IN  /\ r \in Frequencies
             /\ r.freq[t] <= m.freq[t]
             /\ Hit(r, text).freq[t] <= MaxFrequency
             /\ Hit(r, text).lastShift = r.lastShift
             /\ Hit(r, text).current = r.current
             /\ Hit(r, text).buckets[r.current][t] =
                  IF Allowed(r, text) /\ t = text THEN r.buckets[r.current][t] + 1
                                                  ELSE r.buckets[r.current][t]
<1> DEFINE a == Align(m, instant)
           r == ShiftIfNeeded(m, instant)
<1>1. a \in Frequencies /\ a.freq = m.freq
  <2>1. Monus(instant, BucketSize) \in Nat
    BY ShiftsBounded DEF Monus
  <2> QED
    BY <2>1 DEF Align, Frequencies
<1>2. r \in Frequencies
  BY <1>1, ShiftType DEF ShiftIfNeeded
<1>3. r.freq[t] <= m.freq[t]
  <2>1. PICK x \in Nat, y \in Nat :
          x = m.freq[t] /\ y = Cardinality(Hits(a.buckets, t, Expired(a, instant)))
    <3>1. a.buckets \in Tables
      BY <1>1 DEF Frequencies
    <3> QED
      BY <1>1, <3>1, ExpiredAreBuckets, HitsFinite DEF Frequencies
  <2>2. r.freq[t] = Monus(a.freq[t], Cardinality(Hits(a.buckets, t, Expired(a, instant))))
    <3>1. r = Shift(a, instant)
      BY DEF ShiftIfNeeded
    <3> HIDE DEF a, r
    <3> QED
      BY <1>1, <3>1, ShiftFreq
  <2>3. r.freq[t] = Monus(x, y)
    BY <1>1, <2>1, <2>2
  <2> QED
    BY <2>1, <2>3 DEF Monus
<1> HIDE DEF r
<1>4. PICK j \in Buckets : j = r.current
  BY <1>2 DEF Frequencies
<1>5. r.buckets \in Tables /\ r.freq \in [Texts -> Nat] /\ MaxFrequency \in Nat /\ m.freq[t] \in Nat
  BY <1>2, MaskAssumption DEF Frequencies
<1>6. CASE ~Allowed(r, text)
  BY <1>2, <1>3, <1>5, <1>6 DEF Hit, r
<1>7. CASE Allowed(r, text)
  <2>1. Hit(r, text) = [r EXCEPT !.freq = [r.freq EXCEPT ![text] = @ + 1],
                                 !.buckets = [r.buckets EXCEPT ![j][text] = @ + 1]]
    BY <1>4, <1>7 DEF Hit
  <2>2. r.freq[text] < MaxFrequency /\ r.freq[text] \in Nat
    BY <1>5, <1>7 DEF Allowed
  <2>3. Hit(r, text).freq[t] = IF t = text THEN r.freq[t] + 1 ELSE r.freq[t]
    BY <1>2, <1>5, <2>1 DEF Frequencies
  <2>4. Hit(r, text).freq[t] <= MaxFrequency
    BY <1>3, <1>5, <2>2, <2>3
  <2>5. Hit(r, text).buckets[j][t] = IF t = text THEN r.buckets[j][t] + 1 ELSE r.buckets[j][t]
    BY <1>2, <1>5, <2>1 DEF Frequencies, Tables
  <2>6. Hit(r, text).lastShift = r.lastShift /\ Hit(r, text).current = r.current
    BY <1>2, <2>1 DEF Frequencies
  <2> QED
    BY <1>2, <1>3, <1>4, <1>7, <2>4, <2>5, <2>6 DEF r
<1> QED
  BY <1>6, <1>7

(* A bucket counts no more than the map does.                              *)
LEMMA BucketWithin ==
  ASSUME NEW m \in Frequencies, NEW i \in Buckets, NEW t \in Texts, Balanced(m)
  PROVE  m.buckets[i][t] <= m.freq[t]
<1>1. m.buckets \in Tables /\ Buckets \in SUBSET Buckets /\ Buckets \ {i} \in SUBSET Buckets
  BY DEF Frequencies
<1>2. PICK a \in Nat : a = Cardinality(Hits(m.buckets, t, Buckets \ {i}))
  BY <1>1, HitsFinite
<1>3. m.freq[t] = m.buckets[i][t] + a
  BY <1>1, <1>2, HitsFinite, HitsSplit DEF Balanced
<1>4. m.buckets[i][t] \in Nat
  BY <1>1 DEF Tables
<1> QED
  BY <1>2, <1>3, <1>4

(* The entries of s within a window.                                       *)
Within(s, from, to) == {i \in DOMAIN s : s[i] \in from..to}

LEMMA WithinFinite ==
  ASSUME NEW s \in Seq(Nat), NEW from \in Int, NEW to \in Int
  PROVE  IsFiniteSet(Within(s, from, to)) /\ Cardinality(Within(s, from, to)) \in Nat
<1>1. IsFiniteSet(1..Len(s))
  BY FS_Interval
<1>2. Within(s, from, to) \subseteq 1..Len(s)
  BY DEF Within
<1> QED
  BY <1>1, <1>2, FS_Subset, FS_CardinalityType

LEMMA WithinAppend ==
  ASSUME NEW s \in Seq(Nat), NEW a \in Nat, NEW from \in Int, NEW to \in Int
  PROVE  Cardinality(Within(Append(s, a), from, to)) =
           IF a \in from..to THEN Cardinality(Within(s, from, to)) + 1
                             ELSE Cardinality(Within(s, from, to))
<1>1. PICK n \in Nat : n = Len(s)
  OBVIOUS
<1>2. Len(Append(s, a)) = n + 1 /\ Append(s, a)[n + 1] = a /\ \A i \in 1..n : Append(s, a)[i] = s[i]
  BY <1>1
<1>3. DOMAIN s = 1..n /\ DOMAIN Append(s, a) = 1..(n + 1)
  BY <1>1, <1>2
<1>4. Within(Append(s, a), from, to) =
        IF a \in from..to THEN Within(s, from, to) \union {n + 1} ELSE Within(s, from, to)
  BY <1>2, <1>3 DEF Within
<1>5. n + 1 \notin Within(s, from, to)
  BY <1>3 DEF Within
<1>6. IsFiniteSet(Within(s, from, to))
  BY WithinFinite
<1>7. Cardinality(Within(s, from, to) \union {n + 1}) = Cardinality(Within(s, from, to)) + 1
  BY <1>5, <1>6, FS_AddElement
<1> QED
  BY <1>4, <1>7

LEMMA WithinNone ==
  ASSUME NEW s, NEW from \in Int, NEW to \in Int, \A i \in DOMAIN s : s[i] \notin from..to
  PROVE  Cardinality(Within(s, from, to)) = 0
<1>1. Within(s, from, to) = {}
  BY DEF Within
<1> QED
  BY <1>1, FS_EmptySet

(* With buckets of length n that hold at most m hits, at most w other       *)
(* callers, and the bucket begun at l at b hits: what may have passed in    *)
(* the window that begins at from, and how many may still be late for it.  *)
Rule(n, m, w, l, b, from, passes, late) ==
  /\ l <= from => passes <= b
  /\ from < l /\ l < from + n => passes <= m + b
  /\ from + n <= l => passes + late <= 2 * m + w

LEMMA RuleShift ==
  ASSUME NEW n \in Nat, NEW m \in Nat, NEW w \in Nat, NEW l \in Nat, NEW b \in Nat,
         NEW from \in Nat, NEW passes \in Nat, NEW late \in Nat, NEW late1 \in Nat,
         Rule(n, m, w, l, b, from, passes, late), b <= m, late1 <= late, late1 <= w,
         NEW l1 \in Nat, NEW b1 \in Nat, l + n <= l1, l + n <= from => passes = 0
  PROVE  Rule(n, m, w, l1, b1, from, passes, late1)
BY DEF Rule

LEMMA RulePass ==
  ASSUME NEW n \in Nat, NEW m \in Nat, NEW w \in Nat, NEW l \in Nat, NEW b \in Nat,
         NEW from \in Nat, NEW passes \in Nat, NEW late \in Nat, NEW late1 \in Nat,
         Rule(n, m, w, l, b, from, passes, late), NEW at \in Nat, NEW passes1 \in Nat,
         passes1 = IF from <= at /\ at < from + n THEN passes + 1 ELSE passes,
         from + n <= l => late1 <= late,
         from <= at /\ at < from + n /\ at < l => late1 + 1 <= late
  PROVE  Rule(n, m, w, l, b + 1, from, passes1, late1)
BY DEF Rule

LEMMA RuleBlock ==
  ASSUME NEW n \in Nat, NEW m \in Nat, NEW w \in Nat, NEW l \in Nat, NEW b \in Nat,
         NEW from \in Nat, NEW passes \in Nat, NEW late \in Nat, NEW late1 \in Nat,
         Rule(n, m, w, l, b, from, passes, late), from + n <= l => late1 <= late,
         NEW b1 \in Nat, b <= b1
  PROVE  Rule(n, m, w, l, b1, from, passes, late1)
BY DEF Rule

(* The receives that are on their way with a message of a window.          *)
Late(c, t, from) ==
  {p \in Callers : /\ pc[p] = "check" /\ target[p] = c /\ held[p].text = t
                   /\ held[p].at \in from..(from + BucketSize - 1)}

RateRule(c, t, from) ==
  LET m == masks[c].frequency
  IN  Rule(BucketSize, MaxFrequency, Cardinality(Callers) - 1, m.lastShift,
           m.buckets[m.current][t], from,
           Cardinality(Within(passed[c][t], from, from + BucketSize - 1)),
           Cardinality(Late(c, t, from)))

(* What holds of a connection with a frequency mask, text by text.         *)
RateOf(c, t) ==
  LET m == masks[c].frequency
  IN  /\ m.lastShift <= now
      /\ m.freq[t] <= MaxFrequency
      /\ \A i \in DOMAIN passed[c][t] : passed[c][t][i] < m.lastShift + BucketSize
      /\ \A from \in Nat : RateRule(c, t, from)

RateInv ==
  /\ \A p \in Callers : pc[p] = "check" => held[p].at <= now
  /\ BucketSize > 0 => \A c \in Conns, t \in Texts : HasFrequency(c) => RateOf(c, t)

LEMMA LateFinite ==
  ASSUME NEW c, NEW t, NEW from \in Nat
  PROVE  /\ IsFiniteSet(Late(c, t, from)) /\ Cardinality(Late(c, t, from)) \in Nat
         /\ IsFiniteSet(Late(c, t, from)') /\ Cardinality(Late(c, t, from)') \in Nat
<1>1. IsFiniteSet(Callers) /\ Late(c, t, from) \subseteq Callers /\ Late(c, t, from)' \subseteq Callers
  BY ProviderAssumption DEF Late
<1> QED
  BY <1>1, FS_Subset, FS_CardinalityType

LEMMA CallersCounted ==
  /\ Cardinality(Callers) - 1 \in Nat
  /\ \A p \in Callers : \A S \in SUBSET (Callers \ {p}) :
       IsFiniteSet(S) /\ Cardinality(S) <= Cardinality(Callers) - 1
<1>1. IsFiniteSet(Callers) /\ Callers # {}
  BY ProviderAssumption
<1>2. PICK k \in Nat : k = Cardinality(Callers) /\ k # 0
  BY <1>1, FS_CardinalityType, FS_EmptySet
<1>3. ASSUME NEW p \in Callers, NEW S \in SUBSET (Callers \ {p})
      PROVE  IsFiniteSet(S) /\ Cardinality(S) <= k - 1
  <2>1. IsFiniteSet(Callers \ {p}) /\ Cardinality(Callers \ {p}) = k - 1
    BY <1>1, <1>2, FS_RemoveElement
  <2> QED
    BY <2>1, FS_Subset
<1> QED
  BY <1>2, <1>3


(* The numbers the rule relates.                                           *)
LEMMA RateNumbers ==
  ASSUME PlacedInv, BalancedInv, NEW c \in Conns, NEW t \in Texts, NEW from \in Nat
  PROVE  /\ BucketSize \in Nat /\ MaxFrequency \in Nat /\ Cardinality(Callers) - 1 \in Nat
         /\ masks[c].frequency \in Frequencies /\ Balanced(masks[c].frequency)
         /\ masks[c].frequency.lastShift \in Nat
         /\ masks[c].frequency.buckets[masks[c].frequency.current][t] \in Nat
         /\ passed[c][t] \in Seq(Nat)
         /\ Cardinality(Within(passed[c][t], from, from + BucketSize - 1)) \in Nat
         /\ Cardinality(Late(c, t, from)) \in Nat
<1>1. PICK n \in Nat : n = BucketSize
  BY ShiftsBounded, NewIsBalanced
<1>2. masks[c].frequency \in Frequencies /\ passed[c][t] \in Seq(Nat)
  BY DEF PlacedInv, StateTypes, Masks
<1>3. /\ masks[c].frequency.lastShift \in Nat
      /\ masks[c].frequency.buckets[masks[c].frequency.current][t] \in Nat
  BY <1>2 DEF Frequencies, Tables
<1>4. from \in Int /\ from + n - 1 \in Int
  BY SMT
<1>5. Cardinality(Within(passed[c][t], from, from + n - 1)) \in Nat
  BY <1>2, <1>4, WithinFinite
<1> QED
  BY <1>1, <1>2, <1>3, <1>5, LateFinite, CallersCounted, MaskAssumption DEF BalancedInv

LEMMA RateKept ==
  ASSUME PlacedInv, BalancedInv, PlacedInv', BalancedInv', NEW c \in Conns, NEW t \in Texts,
         RateOf(c, t), masks'[c] = masks[c], passed'[c] = passed[c], now <= now',
         \A from \in Nat : from + BucketSize <= masks[c].frequency.lastShift =>
           Late(c, t, from)' \subseteq Late(c, t, from)
  PROVE  RateOf(c, t)'
<1> DEFINE m == masks[c].frequency
<1>1. now \in Nat /\ now' \in Nat
  BY DEF PlacedInv, StateTypes
<1>2. ASSUME NEW from \in Nat PROVE RateRule(c, t, from)'
  <2> DEFINE n == BucketSize
             w == Cardinality(Callers) - 1
             b == m.buckets[m.current][t]
             passes == Cardinality(Within(passed[c][t], from, from + BucketSize - 1))
             late == Cardinality(Late(c, t, from))
             late1 == Cardinality(Late(c, t, from)')
  <2>1. /\ n \in Nat /\ MaxFrequency \in Nat /\ w \in Nat /\ m.lastShift \in Nat /\ b \in Nat
        /\ passes \in Nat /\ late \in Nat
    BY RateNumbers
  <2>2. late1 \in Nat
    BY LateFinite
  <2>3. from + n <= m.lastShift => late1 <= late
    BY LateFinite, FS_Subset
  <2>4. Rule(n, MaxFrequency, w, m.lastShift, b, from, passes, late)
    BY DEF RateOf, RateRule
  <2>5. RateRule(c, t, from)' <=> Rule(n, MaxFrequency, w, m.lastShift, b, from, passes, late1)
    BY DEF RateRule, Rule, Within
  <2> HIDE DEF n, w, b, passes, late, late1, m
  <2> QED
    BY <2>1, <2>2, <2>3, <2>4, <2>5, b <= b, RuleBlock
<1>3. m.lastShift \in Nat
  BY RateNumbers
<1> QED
  BY <1>1, <1>2, <1>3 DEF RateOf

(* A mask that is put in place has let nothing pass.                       *)
LEMMA RateFresh ==
  ASSUME PlacedInv, BalancedInv, PlacedInv', BalancedInv', BucketSize > 0,
         NEW c \in Conns, NEW t \in Texts, NEW mask, mask.frequency = NewFrequency, PutMask(c, mask)
  PROVE  RateOf(c, t)'
<1>1. masks'[c].frequency = NewFrequency /\ passed'[c][t] = <<>>
  BY DEF PutMask, PlacedInv, StateTypes
<1>2. /\ NewFrequency.lastShift = 0 /\ NewFrequency.freq[t] = 0
      /\ NewFrequency.buckets[NewFrequency.current][t] = 0
  BY MaskAssumption DEF NewFrequency
<1>3. ASSUME NEW from \in Nat PROVE RateRule(c, t, from)'
  <2>1. PICK n \in Nat : n = BucketSize /\ n > 0
    BY RateNumbers
  <2>2. from \in Int /\ from + n - 1 \in Int /\ \A i \in DOMAIN <<>> : FALSE
    BY SMT
  <2>3. Cardinality(Within(<<>>, from, from + n - 1)) = 0
    BY <2>2, WithinNone
  <2> QED
    BY <1>1, <1>2, <2>1, <2>3 DEF RateRule, Rule, Within
<1>4. now' \in Nat /\ 0 <= MaxFrequency
  BY MaskAssumption DEF PlacedInv, StateTypes
<1>5. \A i \in DOMAIN passed'[c][t] : FALSE
  BY <1>1
<1> QED
  BY <1>1, <1>2, <1>3, <1>4, <1>5 DEF RateOf


(* A message is checked: its bucket is found, and there it is counted and   *)
(* let pass, or blocked.                                                   *)
LEMMA RateChecked ==
  ASSUME PlacedInv, BalancedInv, PlacedInv', BalancedInv', BucketSize > 0,
         NEW p \in Callers, Check(p), held[p].at <= now, NEW c \in Conns, c = target[p],
         NEW t \in Texts, HasFrequency(c), RateOf(c, t)
  PROVE  RateOf(c, t)'
<1> DEFINE msg == held[p]
           at == held[p].at
           m == masks[c].frequency
           r == ShiftIfNeeded(m, at)
           h == Hit(r, msg.text)
           passes == ~Blocks(masks[c], msg.text, at)
           seen == passed[c][t]
           b == m.buckets[m.current][t]
           b1 == r.buckets[r.current][t]
           n == BucketSize
           w == Cardinality(Callers) - 1
(* The step, in these terms.                                               *)
<1>1. /\ at \in Nat /\ now \in Nat /\ msg.text \in Texts /\ now' = now
      /\ n \in Nat /\ n > 0 /\ MaxFrequency \in Nat /\ w \in Nat
      /\ m \in Frequencies /\ Balanced(m) /\ m.lastShift \in Nat /\ b \in Nat /\ seen \in Seq(Nat)
  <2>1. pc[p] = "check" /\ now' = now
    BY DEF Check
  <2>2. at \in Nat /\ now \in Nat /\ msg.text \in Texts
    BY <2>1 DEF PlacedInv, CallerTypes, StateTypes, Locals, Placed
  <2> QED
    BY <2>1, <2>2, 0 \in Nat, RateNumbers
<1>2. masks'[c].frequency = h
  <2>1. masks'[c] = Asked(masks[c], msg.text, at) /\ masks[c] \in Masks
    BY DEF Check, PlacedInv, StateTypes
  <2> QED
    BY <2>1 DEF Asked, HasFrequency, Masks
<1>3. passed'[c][t] = IF t = msg.text /\ passes THEN Append(seen, at) ELSE seen
  BY <1>1, SMTT(30) DEF Check, PlacedInv, StateTypes
<1>4. ASSUME NEW from \in Nat PROVE Late(c, t, from)' = Late(c, t, from) \ {p}
  <2>1. /\ pc[p] = "check" /\ pc'[p] = "count"
        /\ \A q \in Callers \ {p} : pc'[q] = pc[q] /\ target'[q] = target[q] /\ held'[q] = held[q]
    BY DEF Check, Wait, PlacedInv, CallerTypes
  <2> QED
    BY <2>1 DEF Late
<1>5. passes => Allowed(r, msg.text)
  BY DEF Blocks, FrequencyBlocks, HasFrequency
<1>6. m.lastShift <= now /\ m.freq[t] <= MaxFrequency
      /\ \A i \in DOMAIN seen : seen[i] < m.lastShift + n
  BY DEF RateOf
<1>7. b <= MaxFrequency
  <2>1. m.current \in Buckets /\ m.freq[t] \in Nat
    BY <1>1 DEF Frequencies
  <2>2. b <= m.freq[t]
    BY <1>1, <2>1, BucketWithin
  <2> HIDE DEF b, m
  <2>3. PICK x \in Nat, y \in Nat : x = b /\ y = m.freq[t]
    BY <1>1, <2>1
  <2> QED
    BY <1>1, <1>6, <2>2, <2>3
<1>8. /\ r \in Frequencies /\ h.freq[t] <= MaxFrequency
      /\ h.lastShift = r.lastShift /\ h.current = r.current
      /\ h.buckets[r.current][t] = IF Allowed(r, msg.text) /\ t = msg.text THEN b1 + 1 ELSE b1
  <2> HIDE DEF m, at, b1
  <2>1. /\ r \in Frequencies /\ Hit(r, msg.text).freq[t] <= MaxFrequency
        /\ Hit(r, msg.text).lastShift = r.lastShift /\ Hit(r, msg.text).current = r.current
        /\ Hit(r, msg.text).buckets[r.current][t] =
             IF Allowed(r, msg.text) /\ t = msg.text THEN r.buckets[r.current][t] + 1
                                                     ELSE r.buckets[r.current][t]
    BY <1>1, <1>6, AskedFrequency, SMTT(30)
  <2> QED
    BY <2>1 DEF b1
<1>9. r.lastShift \in Nat /\ b1 \in Nat
  BY <1>8 DEF Frequencies, Tables
<1>10. \/ r.lastShift = m.lastShift /\ b1 = b /\ at < m.lastShift + n
       \/ m.lastShift + n <= r.lastShift /\ r.lastShift <= at /\ at < r.lastShift + n
  BY <1>1, ShiftMoves
<1> HIDE DEF msg, at, m, r, h, passes, seen, b, b1, n, w
<1>11. h.lastShift <= now'
  BY <1>1, <1>6, <1>8, <1>9, <1>10 DEF at
<1>12. \A i \in DOMAIN passed'[c][t] : passed'[c][t][i] < h.lastShift + n
  <2>1. ASSUME NEW i \in DOMAIN seen PROVE seen[i] < h.lastShift + n
    <3>1. seen[i] \in Nat /\ seen[i] < m.lastShift + n
      BY <1>1, <1>6
    <3>2. m.lastShift \in Nat /\ n \in Nat /\ h.lastShift \in Nat /\ m.lastShift <= h.lastShift
      BY <1>1, <1>8, <1>9, <1>10
    <3> HIDE DEF m, n, h
    <3> QED
      BY <3>1, <3>2
  <2>2. at < h.lastShift + n
    BY <1>1, <1>8, <1>9, <1>10
  <2>3. ASSUME NEW i \in DOMAIN Append(seen, at) PROVE Append(seen, at)[i] < h.lastShift + n
    <3>1. (i \in DOMAIN seen /\ Append(seen, at)[i] = seen[i]) \/ Append(seen, at)[i] = at
      BY <1>1
    <3> QED
      BY <2>1, <2>2, <3>1
  <2> QED
    BY <1>3, <2>1, <2>3
<1>13. ASSUME NEW from \in Nat PROVE RateRule(c, t, from)'
  <2> DEFINE to == from + n - 1
             k == Cardinality(Within(seen, from, to))
             k1 == Cardinality(Within(passed'[c][t], from, to))
             late == Cardinality(Late(c, t, from))
             late1 == Cardinality(Late(c, t, from)')
  <2>1. k \in Nat /\ late \in Nat /\ late1 \in Nat /\ to \in Int
    <3>1. k \in Nat /\ late \in Nat
      BY RateNumbers DEF seen, n
    <3>2. late1 \in Nat
      BY LateFinite
    <3>3. to \in Int
      BY <1>1
    <3> QED
      BY <3>1, <3>2, <3>3
  <2>2. Rule(n, MaxFrequency, w, m.lastShift, b, from, k, late)
    BY DEF RateOf, RateRule, m, n, w, b, seen
(* After the shift, before the message is counted.                         *)
  <2>3. late1 <= late /\ late1 <= w
    <3>1. Late(c, t, from)' \subseteq Late(c, t, from)
          /\ Late(c, t, from)' \in SUBSET (Callers \ {p})
      BY <1>4 DEF Late
    <3>2. late1 <= late
      BY <3>1, LateFinite, FS_Subset
    <3>3. late1 <= w
      BY <3>1, CallersCounted DEF w
    <3> QED
      BY <3>2, <3>3
  <2>4. k1 = IF t = msg.text /\ passes /\ from <= at /\ at < from + n THEN k + 1 ELSE k
    <3>1. at \in from..to <=> from <= at /\ at < from + n
      BY <1>1
    <3>2. Cardinality(Within(Append(seen, at), from, to)) = IF at \in from..to THEN k + 1 ELSE k
      BY <1>1, <2>1, WithinAppend
    <3> HIDE DEF to, k
    <3> QED
      BY <1>3, <3>1, <3>2 DEF k
  <2>5. PICK x \in Nat :
          /\ Rule(n, MaxFrequency, w, r.lastShift, b1, from, k, x)
          /\ late1 <= x
          /\ t = msg.text /\ from <= at /\ at < from + n /\ at < r.lastShift => late1 + 1 <= x
    <3>1. CASE m.lastShift + n <= r.lastShift /\ r.lastShift <= at
      <4>1. m.lastShift + n <= from => k = 0
        <5> SUFFICES ASSUME m.lastShift + n <= from PROVE k = 0
          OBVIOUS
        <5>1. \A i \in DOMAIN seen : seen[i] \in Nat /\ seen[i] < m.lastShift + n
          BY <1>1, <1>6
        <5>2. \A i \in DOMAIN seen : seen[i] \notin from..to
          BY <1>1, <5>1
        <5>3. from \in Int
          OBVIOUS
        <5> HIDE DEF to
        <5> QED
          BY <2>1, <5>2, <5>3, WithinNone
      <4> HIDE DEF k, late, late1
      <4>2. Rule(n, MaxFrequency, w, r.lastShift, b1, from, k, late1)
        BY <1>1, <1>7, <1>9, <2>1, <2>2, <2>3, <3>1, <4>1, RuleShift
      <4>3. ~(at < r.lastShift)
        BY <1>1, <1>9, <3>1
      <4> QED
        BY <2>1, <4>2, <4>3
    <3>2. CASE r.lastShift = m.lastShift /\ b1 = b
      <4>1. t = msg.text /\ from <= at /\ at < from + n => late1 + 1 <= late
        <5> SUFFICES ASSUME t = msg.text, from <= at, at < from + n PROVE late1 + 1 <= late
          OBVIOUS
        <5>1. pc[p] = "check" /\ at \in from..to
          BY <1>1 DEF Check
        <5>2. p \in Late(c, t, from)
          BY <5>1 DEF Late, msg, at, n
        <5>3. late1 = late - 1
          BY <1>4, <5>2, LateFinite, FS_RemoveElement
        <5> HIDE DEF late, late1
        <5> QED
          BY <2>1, <5>3
      <4> HIDE DEF k, late, late1
      <4> QED
        BY <2>1, <2>2, <2>3, <3>2, <4>1
    <3> QED
      BY <1>10, <3>1, <3>2
  <2> DEFINE b2 == h.buckets[h.current][t]
  <2>6. b2 = IF Allowed(r, msg.text) /\ t = msg.text THEN b1 + 1 ELSE b1
    BY <1>8
  <2>7. RateRule(c, t, from)' <=> Rule(n, MaxFrequency, w, h.lastShift, b2, from, k1, late1)
    BY <1>2 DEF RateRule, Rule, Within, n, w
  <2> HIDE DEF k, k1, late, late1, b2, to
  <2>8. CASE passes /\ t = msg.text
    <3>1. b2 = b1 + 1 /\ k1 = (IF from <= at /\ at < from + n THEN k + 1 ELSE k) /\ k1 \in Nat
      BY <1>5, <2>1, <2>4, <2>6, <2>8
    <3>2. Rule(n, MaxFrequency, w, r.lastShift, b1 + 1, from, k1, late1)
      BY <1>1, <1>9, <2>1, <2>5, <2>8, <3>1, RulePass
    <3> QED
      BY <1>8, <2>7, <3>1, <3>2
  <2>9. CASE ~(passes /\ t = msg.text)
    <3>1. k1 = k /\ b2 \in Nat /\ b1 <= b2
      BY <1>9, <2>4, <2>6, <2>9
    <3>2. Rule(n, MaxFrequency, w, r.lastShift, b2, from, k, late1)
      BY <1>1, <1>9, <2>1, <2>5, <3>1, RuleBlock
    <3> QED
      BY <1>8, <2>7, <3>1, <3>2
  <2> QED
    BY <2>8, <2>9
<1> QED
  BY <1>2, <1>8, <1>11, <1>12, <1>13 DEF RateOf, n

LEMMA RateStep ==
  PlacedInv /\ BalancedInv /\ PlacedInv' /\ BalancedInv' /\ RateInv /\ [Next]_vars => RateInv'
<1> SUFFICES ASSUME PlacedInv, BalancedInv, PlacedInv', BalancedInv', RateInv, [Next]_vars
             PROVE  RateInv'
  OBVIOUS
<1>0. CallerTypes /\ StateTypes /\ now \in Nat /\ \A p \in Callers : Placed(p) /\ held[p].at \in Nat
  BY DEF PlacedInv, StateTypes, CallerTypes, Locals
<1> DEFINE Stays(p) == pc'[p] = pc[p] /\ target'[p] = target[p] /\ held'[p] = held[p]
(* A connection whose mask stays, and that gets no late receive.           *)
<1>1. ASSUME NEW c \in Conns, NEW t \in Texts, HasFrequency(c), BucketSize > 0,
             masks'[c] = masks[c], passed'[c] = passed[c], now <= now',
             \A p \in Callers : pc'[p] = "check" => (pc[p] = "check" /\ Stays(p)) \/ held'[p].at = now
      PROVE  RateOf(c, t)'
  <2>1. RateOf(c, t)
    BY <1>1 DEF RateInv
  <2>2. PICK l \in Nat, n \in Nat : l = masks[c].frequency.lastShift /\ n = BucketSize /\ l <= now
    BY <2>1, RateNumbers, 0 \in Nat DEF RateOf
  <2>3. ASSUME NEW from \in Nat, from + n <= l PROVE Late(c, t, from)' \subseteq Late(c, t, from)
    <3>1. now \notin from..(from + n - 1)
      BY <1>0, <2>2, <2>3
    <3> QED
      BY <1>1, <2>2, <3>1 DEF Late
  <2> QED
    BY <1>1, <2>1, <2>2, <2>3, RateKept
(* Steps that put no mask in place and let no message pass.                *)
<1>2. ASSUME masks' = masks, passed' = passed, now <= now',
             \A p \in Callers : pc'[p] = "check" => (pc[p] = "check" /\ Stays(p)) \/ held'[p].at = now
      PROVE  RateInv'
  <2>1. \A p \in Callers : pc'[p] = "check" => held'[p].at <= now'
    <3> SUFFICES ASSUME NEW p \in Callers, pc'[p] = "check" PROVE held'[p].at <= now'
      OBVIOUS
    <3>1. PICK x \in Nat, y \in Nat, z \in Nat : x = held[p].at /\ y = now /\ z = now'
      BY <1>0 DEF PlacedInv, StateTypes
    <3> QED
      BY <1>2, <3>1 DEF RateInv
  <2>2. ASSUME NEW c \in Conns, NEW t \in Texts, HasFrequency(c)', BucketSize > 0 PROVE RateOf(c, t)'
    BY <1>1, <1>2, <2>2 DEF HasFrequency
  <2> QED
    BY <2>1, <2>2 DEF RateInv
<1>3. ASSUME NEW p \in Callers, NEW step \in Pcs \ {"check"}, NEW c, NEW locals,
             Wait(p, step, c, locals)
      PROVE  \A q \in Callers : pc'[q] = "check" => pc[q] = "check" /\ Stays(q)
  BY <1>0, <1>3 DEF Wait, CallerTypes
<1>4. now <= now
  BY <1>0
(* Steps that put a mask in place.                                         *)
<1>5. ASSUME NEW c \in Conns, NEW mask, mask.frequency = NewFrequency, PutMask(c, mask), now' = now,
             \A p \in Callers : pc'[p] = "check" => pc[p] = "check" /\ Stays(p)
      PROVE  RateInv'
  <2>1. \A p \in Callers : pc'[p] = "check" => held'[p].at <= now'
    BY <1>5 DEF RateInv
  <2>2. ASSUME NEW d \in Conns, NEW t \in Texts, HasFrequency(d)', BucketSize > 0 PROVE RateOf(d, t)'
    <3>1. CASE d = c
      BY <1>5, <2>2, <3>1, RateFresh
    <3>2. CASE d # c
      <4>1. masks'[d] = masks[d] /\ passed'[d] = passed[d]
        BY <1>0, <1>5, <3>2 DEF PutMask, StateTypes
      <4> QED
        BY <1>1, <1>4, <1>5, <2>2, <4>1 DEF HasFrequency
    <3> QED
      BY <3>1, <3>2
  <2> QED
    BY <2>1, <2>2 DEF RateInv
<1>6. \A kinds : BuildMask(kinds).frequency = NewFrequency /\ NoMask.frequency = NewFrequency
  BY DEF BuildMask, NoMask
<1>7. ASSUME NEW p \in Callers, NEW c \in Conns, NEW kinds \in Configs, Connect(p, c, kinds)
      PROVE  RateInv'
  <2>1. \A q \in Callers : pc'[q] = "check" => pc[q] = "check" /\ Stays(q)
    BY <1>3, <1>7 DEF Connect, Pcs
  <2> QED
    BY <1>2, <1>4, <1>7, <2>1 DEF Connect, history
<1>8. ASSUME NEW p \in Callers, ConnectMask(p) PROVE RateInv'
  <2>1. \A q \in Callers : pc'[q] = "check" => pc[q] = "check" /\ Stays(q)
    BY <1>3, <1>8 DEF ConnectMask, Pcs
  <2>2. target[p] \in Conns
    BY <1>0, <1>8 DEF ConnectMask, Placed
  <2>3. PutMask(target[p], BuildMask(held[p].kinds)) /\ now' = now
    BY <1>8 DEF ConnectMask
  <2> QED
    BY <1>5, <1>6, <2>1, <2>2, <2>3
<1>9. ASSUME NEW p \in Callers,
             \/ ConnectStats(p) \/ InnerReturns(p) \/ InnerClosed(p) \/ Cancel(p)
             \/ Count(p) \/ DisconnectStats(p) \/ DisconnectInner(p)
             \/ \E c \in Conns : Receive(p, c)
      PROVE  RateInv'
  <2>1. \E step \in Pcs \ {"check"} : \E c : \E locals : Wait(p, step, c, locals)
    BY <1>9 DEF ConnectStats, InnerReturns, InnerClosed, Cancel, Count, AfterCount,
                DisconnectStats, DisconnectInner, Receive, Return, Pcs
  <2>2. masks' = masks /\ passed' = passed /\ now' = now
    BY <1>9 DEF ConnectStats, InnerReturns, InnerClosed, Cancel, Count,
                DisconnectStats, DisconnectInner, Receive, history
  <2> QED
    BY <1>2, <1>3, <1>4, <2>1, <2>2
<1>10. ASSUME NEW p \in Callers, NEW text \in Texts, InnerMessage(p, text) PROVE RateInv'
  <2>1. masks' = masks /\ passed' = passed /\ now' = now
    BY <1>10 DEF InnerMessage
  <2>2. held'[p].at = now /\ \A q \in Callers \ {p} : Stays(q)
    BY <1>0, <1>10 DEF InnerMessage, Wait, CallerTypes, Nothing
  <2> QED
    BY <1>2, <1>4, <2>1, <2>2
<1>11. ASSUME NEW p \in Callers, Check(p) PROVE RateInv'
  <2> PICK c \in Conns : c = target[p]
    BY <1>0, <1>11 DEF Check, Placed
  <2>1. \A q \in Callers : pc'[q] = "check" => pc[q] = "check" /\ Stays(q)
    BY <1>3, <1>11 DEF Check, Pcs
  <2>2. now' = now /\ pc[p] = "check" /\ held[p].at <= now
    BY <1>11 DEF Check, RateInv
  <2>3. \A q \in Callers : pc'[q] = "check" => held'[q].at <= now'
    BY <2>1, <2>2 DEF RateInv
  <2>4. masks'[c].kinds = masks[c].kinds
    <3>1. masks'[c] = Asked(masks[c], held[p].text, held[p].at)
      BY <1>0, <1>11 DEF Check, StateTypes
    <3>2. masks[c] \in Masks /\ held[p].text \in Texts
      BY <1>0, <2>2 DEF StateTypes, Placed
    <3> QED
      BY <1>0, <3>1, <3>2, AskedType DEF BalancedInv
  <2>5. ASSUME NEW d \in Conns, NEW t \in Texts, HasFrequency(d)', BucketSize > 0 PROVE RateOf(d, t)'
    <3>1. CASE d = c
      <4>1. HasFrequency(c) /\ RateOf(c, t)
        BY <2>4, <2>5, <3>1 DEF HasFrequency, RateInv
      <4> QED
        BY <1>11, <2>2, <2>5, <3>1, <4>1, RateChecked
    <3>2. CASE d # c
      <4>1. masks'[d] = masks[d] /\ passed'[d] = passed[d]
        BY <1>0, <1>11, <3>2 DEF Check, StateTypes
      <4> QED
        BY <1>1, <1>4, <2>1, <2>2, <2>5, <4>1 DEF HasFrequency
    <3> QED
      BY <3>1, <3>2
  <2> QED
    BY <2>3, <2>5 DEF RateInv
<1>12. ASSUME NEW p \in Callers, NEW c \in Conns, Disconnect(p, c) PROVE RateInv'
  <2>1. \A q \in Callers : pc'[q] = "check" => pc[q] = "check" /\ Stays(q)
    BY <1>3, <1>12 DEF Disconnect, Pcs
  <2> QED
    BY <1>5, <1>6, <1>12, <2>1 DEF Disconnect
<1>13. ASSUME NEW c \in Conns,
              ClearMask(c) \/ ResetMask(c) \/ \E kinds \in Configs : SetMask(c, kinds)
       PROVE  RateInv'
  <2>1. PICK mask : PutMask(c, mask) /\ mask.frequency = NewFrequency
    BY <1>6, <1>13 DEF ClearMask, ResetMask, SetMask
  <2>2. now' = now /\ callerVars' = callerVars
    BY <1>13 DEF ClearMask, ResetMask, SetMask, callerVars
  <2> QED
    BY <1>5, <2>1, <2>2 DEF callerVars
<1>14. ASSUME \/ Tick \/ UNCHANGED vars \/ \E c \in Conns : ResetStats(c) PROVE RateInv'
  <2>1. masks' = masks /\ passed' = passed /\ callerVars' = callerVars
    BY <1>14 DEF Tick, vars, history, ResetStats, callerVars
  <2>2. now' = now \/ now' = now + 1
    BY <1>14 DEF Tick, vars, ResetStats
  <2>3. now <= now'
    BY <1>0, <2>2
  <2> QED
    BY <1>2, <2>1, <2>3 DEF callerVars
<1> QED
  BY <1>7, <1>8, <1>9, <1>10, <1>11, <1>12, <1>13, <1>14 DEF Next, CallerStep

(* Of the messages taken within the length of a bucket, at most twice       *)
(* max_frequency of one text pass, and one more for each other receive     *)
(* that is on its way (mask_frequency.rs:55-116).                          *)
THEOREM RateIsLimited == Spec => []RateLimited
<1>1. Init => RateInv
  <2> SUFFICES ASSUME Init PROVE RateInv
    OBVIOUS
  <2>1. \A c \in Conns : ~HasFrequency(c)
    BY DEF Init, HasFrequency, NoMask
  <2> QED
    BY <2>1 DEF Init, RateInv
<1>2. PlacedInv /\ BalancedInv /\ RateInv => RateLimited
  <2> SUFFICES ASSUME PlacedInv, BalancedInv, RateInv, NEW c \in Conns, HasFrequency(c),
                      NEW t \in Texts, NEW from \in 0..now
               PROVE  PassesWithin(c, t, from, from + BucketSize - 1)
                        <= 2 * MaxFrequency + Cardinality(Callers) - 1
    BY DEF RateLimited
  <2>1. from \in Nat
    BY DEF PlacedInv, StateTypes
  <2> DEFINE k == Cardinality(Within(passed[c][t], from, from + BucketSize - 1))
             late == Cardinality(Late(c, t, from))
             m == masks[c].frequency
  <2>2. PassesWithin(c, t, from, from + BucketSize - 1) = k
    BY DEF PassesWithin, Within
  <2>3. PICK n \in Nat, f \in Nat, w \in Nat :
          n = BucketSize /\ f = MaxFrequency /\ w = Cardinality(Callers) - 1
    BY <2>1, RateNumbers
  <2>4. k \in Nat /\ late \in Nat /\ m.lastShift \in Nat /\ m.buckets[m.current][t] \in Nat
    BY <2>1, RateNumbers
  <2>5. Cardinality(Callers) \in Nat
    BY ProviderAssumption, FS_CardinalityType
  <2>6. k <= 2 * f + w
    <3>1. CASE n = 0
      <4>1. from \in Int /\ from + n - 1 \in Int /\ \A x \in Nat : x \notin from..(from + n - 1)
        BY <2>1, <3>1
      <4>2. \A i \in DOMAIN passed[c][t] : passed[c][t][i] \in Nat
        BY DEF PlacedInv, StateTypes
      <4>3. k = 0
        BY <2>3, <4>1, <4>2, WithinNone
      <4> QED
        BY <4>3
    <3>2. CASE n > 0
      <4>1. RateOf(c, t)
        BY <2>3, <3>2 DEF RateInv
      <4>2. m.buckets[m.current][t] <= m.freq[t] /\ m.freq[t] <= MaxFrequency /\ m.freq[t] \in Nat
        <5>1. m \in Frequencies /\ Balanced(m)
          BY <2>1, RateNumbers
        <5>2. m.current \in Buckets /\ m.freq[t] \in Nat
          BY <5>1 DEF Frequencies
        <5> QED
          BY <4>1, <5>1, <5>2, BucketWithin DEF RateOf
      <4>3. Rule(n, f, w, m.lastShift, m.buckets[m.current][t], from, k, late)
        BY <2>1, <2>3, <4>1 DEF RateOf, RateRule
      <4> HIDE DEF k, late
      <4>4. PICK b \in Nat, l \in Nat, q \in Nat :
              b = m.buckets[m.current][t] /\ l = m.lastShift /\ q = m.freq[t]
        BY <2>4, <4>2
      <4>5. b <= f /\ Rule(n, f, w, l, b, from, k, late)
        <5>1. Rule(n, f, w, l, b, from, k, late)
          BY <4>3, <4>4, Zenon
        <5>2. q = m.freq[t] /\ b = m.buckets[m.current][t]
          BY <4>4
        <5>3. b <= q /\ q <= f
          BY <2>3, <4>2, <5>2, Zenon
        <5>4. b <= f
          BY <2>3, <4>4, <5>3
        <5> QED
          BY <5>1, <5>4
      <4> QED
        BY <2>1, <2>4, <4>5 DEF Rule
    <3> QED
      BY <3>1, <3>2
  <2> HIDE DEF k
  <2> QED
    BY <2>2, <2>3, <2>4, <2>5, <2>6
<1> QED
  BY <1>1, <1>2, RateStep, PlacedInvariant, PTL DEF Spec

-----------------------------------------------------------------------------
(* The two locks.  A caller awaits one of them, and holds the masks' while *)
(* it disconnects, and the statistics' too once it removed its own.        *)
AwaitsMasks(p) == pc[p] \in {"connect_mask", "check"}
AwaitsStats(p) == pc[p] \in {"connect_stats", "count", "disconnect_stats"}
Blocked(p) == (AwaitsMasks(p) /\ ~MasksFree) \/ (AwaitsStats(p) /\ ~StatsFree)

(* q has the lock that p awaits.                                           *)
InTheWayOf(q, p) ==
  \/ AwaitsMasks(p) /\ Disconnecting(q)
  \/ AwaitsStats(p) /\ pc[q] = "disconnect_inner"

OneDisconnects == \A p, q \in Callers : Disconnecting(p) /\ Disconnecting(q) => p = q

(* A lock has one holder, and who is kept waiting by it is not waiting for *)
(* a lock that somebody else has: no chain of waits is longer than one.    *)
LocksInOrder ==
  /\ OneDisconnects
  /\ \A p \in Callers : Blocked(p) => \E q \in Callers : InTheWayOf(q, p) /\ ~Blocked(q)

(* No step gives the masks' lock to a second caller.                       *)
LEMMA OneDisconnectsStep == CallerTypes /\ OneDisconnects /\ [Next]_vars => OneDisconnects'
<1> SUFFICES ASSUME CallerTypes, OneDisconnects, [Next]_vars
             PROVE  OneDisconnects'
  OBVIOUS
<1>1. ASSUME NEW p \in Callers, NEW c \in Conns, Disconnect(p, c)
      PROVE  OneDisconnects'
  <2>1. \A q \in Callers : ~Disconnecting(q)
    BY <1>1 DEF Disconnect, MasksFree, Disconnecting
  <2>2. \A q \in Callers \ {p} : pc'[q] = pc[q]
    BY <1>1 DEF Disconnect, Wait, CallerTypes
  <2> QED
    BY <2>1, <2>2 DEF OneDisconnects, Disconnecting
<1>2. ASSUME NEW p \in Callers, NEW step \in Pcs, NEW c, NEW locals, Wait(p, step, c, locals),
             step \in {"disconnect_stats", "disconnect_inner"} => Disconnecting(p)
      PROVE  OneDisconnects'
  <2>1. pc'[p] = step /\ \A q \in Callers \ {p} : pc'[q] = pc[q]
    BY <1>2 DEF Wait, CallerTypes
  <2> QED
    BY <1>2, <2>1 DEF OneDisconnects, Disconnecting
<1>3. CASE UNCHANGED pc
  BY <1>3 DEF OneDisconnects, Disconnecting
<1>4. ASSUME NEW p \in Callers, DisconnectStats(p)
      PROVE  OneDisconnects'
  <2>1. Disconnecting(p) /\ Wait(p, "disconnect_inner", target[p], Nothing)
    BY <1>4 DEF DisconnectStats, Disconnecting
  <2> QED
    BY <1>2, <2>1 DEF Pcs
<1>5. ASSUME NEW p \in Callers,
             \/ ConnectMask(p) \/ ConnectStats(p) \/ Check(p) \/ Count(p) \/ DisconnectInner(p)
             \/ InnerReturns(p) \/ InnerClosed(p) \/ Cancel(p)
             \/ \E text \in Texts : InnerMessage(p, text)
             \/ \E c \in Conns : Receive(p, c)
             \/ \E c \in Conns : \E kinds \in Configs : Connect(p, c, kinds)
      PROVE  OneDisconnects'
  <2>1. PICK step, c, locals :
          step \in Pcs \ {"disconnect_stats", "disconnect_inner"} /\ Wait(p, step, c, locals)
    BY <1>5 DEF ConnectMask, ConnectStats, Check, Count, AfterCount, DisconnectInner, InnerReturns,
                InnerClosed, Cancel, InnerMessage, Receive, Connect, Return, Pcs
  <2> QED
    BY <1>2, <2>1
<1>6. ASSUME NEW c \in Conns,
             ClearMask(c) \/ ResetMask(c) \/ ResetStats(c) \/ \E kinds \in Configs : SetMask(c, kinds)
      PROVE  UNCHANGED pc
  BY <1>6 DEF ClearMask, ResetMask, ResetStats, SetMask, callerVars
<1>7. Tick \/ UNCHANGED vars => UNCHANGED pc
  BY DEF Tick, vars, callerVars
<1> QED
  BY <1>1, <1>3, <1>4, <1>5, <1>6, <1>7 DEF Next, CallerStep

(* For any callers and connections, the locks are taken in an order in     *)
(* which whoever is in the way of another is not kept waiting itself.      *)
THEOREM LocksAreOrdered == Spec => []LocksInOrder
<1>1. Init => OneDisconnects
  BY DEF Init, OneDisconnects, Disconnecting
<1>2. OneDisconnects => LocksInOrder
  <2> SUFFICES ASSUME OneDisconnects, NEW p \in Callers, Blocked(p)
               PROVE  \E q \in Callers : InTheWayOf(q, p) /\ ~Blocked(q)
    BY DEF LocksInOrder
  <2>1. ASSUME NEW q \in Callers, pc[q] = "disconnect_inner"
        PROVE  ~Blocked(q)
    BY <2>1 DEF Blocked, AwaitsMasks, AwaitsStats
  <2>2. CASE AwaitsStats(p)
    <3>1. PICK q \in Callers : pc[q] = "disconnect_inner"
      BY <2>2 DEF Blocked, AwaitsMasks, AwaitsStats, StatsFree
    <3> QED
      BY <2>1, <2>2, <3>1 DEF InTheWayOf
  <2>3. CASE AwaitsMasks(p)
    <3>1. PICK q \in Callers : Disconnecting(q)
      BY <2>3 DEF Blocked, AwaitsMasks, AwaitsStats, MasksFree, Disconnecting
    <3>2. ASSUME Blocked(q) PROVE FALSE
      <4>1. pc[q] = "disconnect_stats" /\ ~StatsFree
        BY <2>1, <3>1, <3>2 DEF Blocked, AwaitsMasks, Disconnecting
      <4>2. PICK r \in Callers : pc[r] = "disconnect_inner"
        BY <4>1 DEF StatsFree
      <4>3. r = q
        BY <3>1, <4>2 DEF OneDisconnects, Disconnecting
      <4> QED
        BY <4>1, <4>2, <4>3
    <3> QED
      BY <2>3, <3>1, <3>2 DEF InTheWayOf
  <2> QED
    BY <2>2, <2>3 DEF Blocked
<1> QED
  BY <1>1, <1>2, OneDisconnectsStep, PlacedInvariant, PTL DEF Spec, PlacedInv

=============================================================================
