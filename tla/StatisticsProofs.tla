-------------------------- MODULE StatisticsProofs --------------------------
(***************************************************************************)
(* Theorems about what is counted of messages: the counts of users and     *)
(* words, for any messages, any capacities and any sketch; the rates and   *)
(* the totals of reports, for any times of messages and any limit; and the *)
(* interval of the sampler, for any bounds and any window.                 *)
(***************************************************************************)
EXTENDS Statistics, Sampler, FiniteSetTheorems, SequenceTheorems, WellFoundedInduction, TLAPS

-----------------------------------------------------------------------------
(* A set of numbers that is not empty has a least one.                     *)
LEMMA LeastOf ==
  ASSUME NEW T \in SUBSET Nat, T # {}
  PROVE  \E n \in T : \A m \in T : n <= m
<1>1. PICK n \in T : \A m \in T : ~(<<m, n>> \in OpToRel(<, Nat))
  BY NatLessThanWellFounded, WFMin
<1>2. \A m \in T : ~(m < n)
  BY <1>1 DEF OpToRel
<1> QED BY <1>2

-----------------------------------------------------------------------------
(* Tables of counters.                                                     *)

LEMMA MinIsLeast ==
  ASSUME NEW T \in SUBSET Nat, T # {}
  PROVE  Min(T) \in T /\ Min(T) \in Nat /\ \A m \in T : Min(T) <= m
<1>1. \E n \in T : \A m \in T : n <= m
  BY LeastOf
<1>2. Min(T) \in T /\ \A m \in T : Min(T) <= m
  BY <1>1 DEF Min
<1> QED BY <1>2

LEMMA MaxOfTwo ==
  ASSUME NEW a \in Nat, NEW b \in Nat
  PROVE  Max({a, b}) = IF a <= b THEN b ELSE a
<1>1. \E n \in {a, b} : \A m \in {a, b} : m <= n
  OBVIOUS
<1>2. Max({a, b}) \in {a, b} /\ \A m \in {a, b} : m <= Max({a, b})
  BY <1>1 DEF Max
<1> QED BY <1>2

Counter == [count : Nat, error : Nat]

(* A table of at most capacity keys.                                       *)
IsTable(table, capacity) ==
  /\ table \in [DOMAIN table -> Counter]
  /\ IsFiniteSet(DOMAIN table) /\ Cardinality(DOMAIN table) <= capacity

LEMMA LeastCount ==
  ASSUME NEW capacity \in Nat \ {0}, NEW table, IsTable(table, capacity)
  PROVE  /\ Least(table, capacity) \in Nat
         /\ Cardinality(DOMAIN table) \in Nat
         /\ Cardinality(DOMAIN table) >= capacity =>
              /\ Cardinality(DOMAIN table) = capacity
              /\ Least(table, capacity) = Min(Counts(table))
              /\ \A key \in DOMAIN table : Least(table, capacity) <= table[key].count
              /\ \E key \in DOMAIN table : Least(table, capacity) = table[key].count
         /\ Cardinality(DOMAIN table) < capacity => Least(table, capacity) = 0
<1> USE DEF IsTable, Counter
<1>1. Cardinality(DOMAIN table) \in Nat
  BY FS_CardinalityType
<1>2. CASE Cardinality(DOMAIN table) < capacity
  BY <1>1, <1>2 DEF Least
<1>3. CASE Cardinality(DOMAIN table) >= capacity
  <2>1. Cardinality(DOMAIN table) = capacity /\ DOMAIN table # {}
    BY <1>1, <1>3, FS_EmptySet
  <2>2. Counts(table) \in SUBSET Nat /\ Counts(table) # {}
    BY <2>1 DEF Counts
  <2>3. Min(Counts(table)) \in Counts(table) /\ Min(Counts(table)) \in Nat
        /\ \A m \in Counts(table) : Min(Counts(table)) <= m
    BY <2>2, MinIsLeast
  <2>4. \A key \in DOMAIN table : table[key].count \in Counts(table)
    BY DEF Counts
  <2>5. \E key \in DOMAIN table : Min(Counts(table)) = table[key].count
    BY <2>3 DEF Counts
  <2>6. Least(table, capacity) = Min(Counts(table))
    BY <2>1 DEF Least
  <2> QED BY <1>1, <2>1, <2>3, <2>4, <2>5, <2>6
<1> QED BY <1>1, <1>2, <1>3

(* The ways a table may change when a key is counted.                      *)
Raised(table, key, t1) ==
  /\ DOMAIN t1 = DOMAIN table /\ key \in DOMAIN table
  /\ t1[key] = [count |-> table[key].count + 1, error |-> table[key].error]
  /\ \A k \in DOMAIN table : k # key => t1[k] = table[k]

Added(table, key, t1) ==
  /\ DOMAIN t1 = DOMAIN table \union {key} /\ key \notin DOMAIN table
  /\ t1[key] = [count |-> 1, error |-> 0]
  /\ \A k \in DOMAIN table : t1[k] = table[k]

Displaced(table, least, key, estimate, victim, t1) ==
  /\ victim \in DOMAIN table /\ key \notin DOMAIN table
  /\ table[victim].count = least
  /\ DOMAIN t1 = (DOMAIN table \ {victim}) \union {key}
  /\ t1[key] = [count |-> IF estimate <= least THEN least + 1 ELSE estimate, error |-> least]
  /\ \A k \in DOMAIN table \ {victim} : t1[k] = table[k]

LEMMA RestrictIs ==
  ASSUME NEW table, NEW S
  PROVE  DOMAIN Restrict(table, S) = S /\ \A k \in S : Restrict(table, S)[k] = table[k]
BY DEF Restrict

LEMMA IncrementedIs ==
  ASSUME NEW capacity \in Nat \ {0}, NEW table, IsTable(table, capacity),
         NEW key, NEW estimate \in Nat, NEW t1 \in Incremented(table, capacity, key, estimate)
  PROVE  /\ t1 = [k \in DOMAIN t1 |-> t1[k]]
         /\ \/ Raised(table, key, t1)
            \/ Cardinality(DOMAIN table) < capacity /\ Added(table, key, t1)
            \/ /\ Cardinality(DOMAIN table) = capacity
               /\ \E victim : Displaced(table, Least(table, capacity), key, estimate, victim, t1)
<1> USE DEF IsTable, Counter
<1>1. CASE key \in DOMAIN table
  <2>1. t1 = [table EXCEPT ![key].count = @ + 1]
    BY <1>1 DEF Incremented
  <2>2. table[key] \in [count : Nat, error : Nat]
    BY <1>1
  <2> QED BY <1>1, <2>1, <2>2 DEF Raised
<1>2. CASE key \notin DOMAIN table /\ Cardinality(DOMAIN table) < capacity
  <2>1. t1 = With(table, key, 1, 0)
    BY <1>2 DEF Incremented
  <2>2. /\ t1 = [k \in DOMAIN t1 |-> t1[k]] /\ DOMAIN t1 = DOMAIN table \union {key}
        /\ t1[key] = [count |-> 1, error |-> 0]
        /\ \A k \in DOMAIN table : k # key => t1[k] = table[k]
    BY <1>2, <2>1 DEF With
  <2> QED BY <1>2, <2>2 DEF Added
<1>3. CASE key \notin DOMAIN table /\ ~(Cardinality(DOMAIN table) < capacity)
  <2> DEFINE least == Min(Counts(table))
  <2>1. t1 \in Replaced(table, key, least, estimate)
    BY <1>3 DEF Incremented
  <2>2. /\ Cardinality(DOMAIN table) \in Nat
        /\ Cardinality(DOMAIN table) = capacity /\ least = Least(table, capacity) /\ least \in Nat
    BY <1>3, LeastCount
  <2>3. PICK victim \in Minima(table) :
          t1 = With(Restrict(table, DOMAIN table \ {victim}), key, Max({least + 1, estimate}), least)
    BY <2>1 DEF Replaced
  <2>4. victim \in DOMAIN table /\ table[victim].count = least
    BY DEF Minima
  <2> DEFINE rest == Restrict(table, DOMAIN table \ {victim})
             count == Max({least + 1, estimate})
  <2>5. DOMAIN rest = DOMAIN table \ {victim} /\ \A k \in DOMAIN table \ {victim} : rest[k] = table[k]
    BY RestrictIs
  <2>6. count = IF estimate <= least THEN least + 1 ELSE estimate
    <3> HIDE DEF least
    <3>1. least + 1 \in Nat
      BY <2>2
    <3>2. count = IF least + 1 <= estimate THEN estimate ELSE least + 1
      BY <3>1, MaxOfTwo
    <3> HIDE DEF count
    <3> QED BY <2>2, <3>1, <3>2
  <2> HIDE DEF rest, count, least
  <2>7. /\ t1 = [k \in DOMAIN t1 |-> t1[k]]
        /\ DOMAIN t1 = DOMAIN rest \union {key}
        /\ t1[key] = [count |-> count, error |-> least]
        /\ \A k \in DOMAIN rest : k # key => t1[k] = rest[k]
    <3>1. t1 = With(rest, key, count, least)
      BY <2>3 DEF rest, count
    <3> QED BY <3>1 DEF With
  <2>8. Displaced(table, least, key, estimate, victim, t1)
    BY <1>3, <2>4, <2>5, <2>6, <2>7 DEF Displaced
  <2> QED BY <2>2, <2>7, <2>8
<1> QED BY <1>1, <1>2, <1>3
(* A table bounds how often each key was counted.  Words have a sketch     *)
(* whose estimates may stand in for the error.                             *)
Bounds(table, capacity, keys, times, estimates, sketched) ==
  /\ IsTable(table, capacity)
  /\ DOMAIN table \subseteq keys
  /\ \A key \in keys :
       IF key \in DOMAIN table
       THEN /\ times[key] <= table[key].count
            /\ \/ table[key].count <= times[key] + table[key].error
               \/ sketched /\ table[key].count <= estimates[key]
       ELSE times[key] <= Least(table, capacity)

LEMMA TablesStay ==
  ASSUME NEW capacity \in Nat \ {0}, NEW table, IsTable(table, capacity),
         NEW key, NEW estimate \in Nat, NEW t1 \in Incremented(table, capacity, key, estimate)
  PROVE  /\ IsTable(t1, capacity)
         /\ Least(table, capacity) <= Least(t1, capacity)
<1> DEFINE least == Least(table, capacity)
<1>1. /\ least \in Nat /\ Cardinality(DOMAIN table) \in Nat
      /\ \A k \in DOMAIN table : table[k] \in Counter
      /\ IsFiniteSet(DOMAIN table)
  BY LeastCount DEF IsTable
<1>2. t1 = [k \in DOMAIN t1 |-> t1[k]]
  BY IncrementedIs
<1>3. CASE Raised(table, key, t1)
  <2>1. \A k \in DOMAIN table : t1[k] \in Counter /\ table[k].count <= t1[k].count
    BY <1>1, <1>3 DEF Raised, Counter
  <2>2. IsTable(t1, capacity)
    BY <1>2, <1>3, <2>1 DEF Raised, IsTable
  <2>3. least <= Least(t1, capacity)
    <3>1. CASE Cardinality(DOMAIN table) < capacity
      BY <3>1, <2>2, <1>1, LeastCount DEF IsTable
    <3>2. CASE Cardinality(DOMAIN table) >= capacity
      <4>1. PICK k \in DOMAIN t1 : Least(t1, capacity) = t1[k].count
        BY <3>2, <2>2, <1>3, LeastCount DEF Raised
      <4>2. least <= table[k].count /\ table[k].count <= t1[k].count
        BY <3>2, <4>1, <2>1, <1>3, LeastCount DEF Raised
      <4>3. table[k].count \in Nat /\ t1[k].count \in Nat
        BY <4>1, <2>1, <1>1, <1>3 DEF Raised, Counter
      <4> QED BY <4>1, <4>2, <4>3, <1>1
    <3> QED BY <3>1, <3>2, <1>1
  <2> QED BY <2>2, <2>3
<1>4. CASE Cardinality(DOMAIN table) < capacity /\ Added(table, key, t1)
  <2>1. \A k \in DOMAIN t1 : t1[k] \in Counter
    BY <1>1, <1>4 DEF Added, Counter
  <2>2. IsFiniteSet(DOMAIN t1) /\ Cardinality(DOMAIN t1) = Cardinality(DOMAIN table) + 1
    BY <1>1, <1>4, FS_AddElement DEF Added
  <2>3. IsTable(t1, capacity)
    BY <1>1, <1>2, <1>4, <2>1, <2>2 DEF IsTable
  <2>4. least = 0 /\ Least(t1, capacity) \in Nat
    BY <1>4, <2>3, LeastCount
  <2> QED BY <2>3, <2>4
<1>5. ASSUME NEW victim, Cardinality(DOMAIN table) = capacity,
             Displaced(table, least, key, estimate, victim, t1)
      PROVE  IsTable(t1, capacity) /\ least <= Least(t1, capacity)
  <2>0. victim \in DOMAIN table /\ key \notin DOMAIN table /\ DOMAIN t1 = (DOMAIN table \ {victim}) \union {key}
    BY <1>5 DEF Displaced
  <2>1. \A k \in DOMAIN t1 : t1[k] \in Counter /\ least <= t1[k].count
    <3>1. t1[key] \in Counter /\ least <= t1[key].count
      BY <1>1, <1>5 DEF Displaced, Counter
    <3>2. \A k \in DOMAIN table : least <= table[k].count
      BY <1>5, LeastCount
    <3>3. \A k \in DOMAIN table \ {victim} : t1[k] = table[k]
      BY <1>5 DEF Displaced
    <3> QED BY <1>1, <2>0, <3>1, <3>2, <3>3
  <2>2. IsFiniteSet(DOMAIN t1) /\ Cardinality(DOMAIN t1) = capacity
    <3>1. IsFiniteSet(DOMAIN table \ {victim}) /\ Cardinality(DOMAIN table \ {victim}) = capacity - 1
      BY <1>1, <1>5, <2>0, FS_RemoveElement
    <3>2. IsFiniteSet((DOMAIN table \ {victim}) \union {key})
          /\ Cardinality((DOMAIN table \ {victim}) \union {key}) = (capacity - 1) + 1
      BY <2>0, <3>1, FS_AddElement
    <3> QED BY <2>0, <3>2
  <2>3. IsTable(t1, capacity)
    BY <1>2, <2>1, <2>2 DEF IsTable
  <2>4. PICK k \in DOMAIN t1 : Least(t1, capacity) = t1[k].count
    BY <2>2, <2>3, LeastCount
  <2> QED BY <2>1, <2>3, <2>4
<1> QED
  BY <1>3, <1>4, <1>5, IncrementedIs

LEMMA CountingBounds ==
  ASSUME NEW capacity \in Nat \ {0}, NEW keys, NEW key \in keys, NEW table,
         NEW times \in [keys -> Nat], NEW estimates \in [keys -> Nat], NEW later \in [keys -> Nat],
         NEW sketched \in BOOLEAN,
         Bounds(table, capacity, keys, times, estimates, sketched),
         \A k \in keys : estimates[k] <= later[k],
         estimates[key] + 1 <= later[key],
         NEW t1 \in Incremented(table, capacity, key, IF sketched THEN later[key] ELSE 0)
  PROVE  Bounds(t1, capacity, keys, [times EXCEPT ![key] = @ + 1], later, sketched)
<1> DEFINE least == Least(table, capacity)
           times1 == [times EXCEPT ![key] = @ + 1]
           estimate == IF sketched THEN later[key] ELSE 0
           Fits(n, counter, k, most) ==
             /\ n <= counter.count
             /\ counter.count <= n + counter.error \/ (sketched /\ counter.count <= most)
<1>0. IsTable(table, capacity) /\ DOMAIN table \subseteq keys
  BY DEF Bounds
<1>1. /\ \A k \in DOMAIN table : table[k] \in Counter /\ Fits(times[k], table[k], k, estimates[k])
      /\ \A k \in keys \ DOMAIN table : times[k] <= least
  BY DEF Bounds, IsTable
<1>2. estimate \in Nat /\ least \in Nat
  BY <1>0, LeastCount
<1>3. IsTable(t1, capacity) /\ least <= Least(t1, capacity)
  BY <1>0, <1>2, TablesStay
<1>4. Least(t1, capacity) \in Nat
  BY <1>3, LeastCount
<1>5. /\ \A k \in keys : times1[k] \in Nat /\ (k # key => times1[k] = times[k])
      /\ times1[key] = times[key] + 1 /\ times[key] \in Nat
  OBVIOUS
<1> HIDE DEF times1, least
(* A key that stays as it was.                                             *)
<1>6. ASSUME NEW k \in DOMAIN table, k # key, t1[k] = table[k]
      PROVE  Fits(times1[k], t1[k], k, later[k])
  <2>1. /\ Fits(times[k], table[k], k, estimates[k]) /\ estimates[k] <= later[k]
        /\ k \in keys /\ table[k].count \in Nat /\ estimates[k] \in Nat /\ later[k] \in Nat
    BY <1>0, <1>1 DEF Counter
  <2> QED BY <1>5, <1>6, <2>1
(* A key that was and is not in the table.                                 *)
<1>7. ASSUME NEW k \in keys \ DOMAIN table, k # key PROVE times1[k] <= Least(t1, capacity)
  <2>1. times1[k] \in Nat /\ times1[k] <= least
    BY <1>1, <1>5, <1>7
  <2> QED BY <1>2, <1>3, <1>4, <2>1
<1>8. CASE Raised(table, key, t1)
  <2>1. Fits(times1[key], t1[key], key, later[key])
    <3>1. /\ Fits(times[key], table[key], key, estimates[key]) /\ table[key] \in Counter
          /\ t1[key] = [count |-> table[key].count + 1, error |-> table[key].error]
      BY <1>1, <1>8 DEF Raised
    <3>2. t1[key].count = table[key].count + 1 /\ t1[key].error = table[key].error
      BY <3>1
    <3>3. table[key].count \in Nat /\ table[key].error \in Nat /\ estimates[key] \in Nat /\ later[key] \in Nat
      BY <3>1 DEF Counter
    <3> QED BY <1>5, <3>1, <3>2, <3>3
  <2>2. \A k \in DOMAIN t1 : Fits(times1[k], t1[k], k, later[k])
    BY <1>6, <1>8, <2>1 DEF Raised
  <2>3. DOMAIN t1 = DOMAIN table /\ key \in DOMAIN table
    BY <1>8 DEF Raised
  <2> QED BY <1>0, <1>3, <1>7, <2>2, <2>3 DEF Bounds, times1
<1>9. CASE Cardinality(DOMAIN table) < capacity /\ Added(table, key, t1)
  <2>0. DOMAIN t1 = DOMAIN table \union {key} /\ key \notin DOMAIN table
    BY <1>9 DEF Added
  <2>1. Fits(times1[key], t1[key], key, later[key])
    <3>1. t1[key].count = 1 /\ t1[key].error = 0
      BY <1>9 DEF Added
    <3>2. times[key] <= 0
      BY <1>0, <1>1, <1>9, <2>0, LeastCount DEF least
    <3> QED BY <1>5, <3>1, <3>2
  <2>2. \A k \in DOMAIN t1 : Fits(times1[k], t1[k], k, later[k])
    BY <1>6, <1>9, <2>0, <2>1 DEF Added
  <2> QED BY <1>0, <1>3, <1>7, <2>0, <2>2 DEF Bounds, times1
<1>10. ASSUME NEW victim, Displaced(table, least, key, estimate, victim, t1)
       PROVE  Bounds(t1, capacity, keys, times1, later, sketched)
  <2>0. /\ victim \in DOMAIN table /\ key \notin DOMAIN table /\ table[victim].count = least
        /\ DOMAIN t1 = (DOMAIN table \ {victim}) \union {key}
    BY <1>10 DEF Displaced
  <2>1. Fits(times1[key], t1[key], key, later[key])
    <3>1. /\ t1[key].count = IF estimate <= least THEN least + 1 ELSE estimate
          /\ t1[key].error = least
      BY <1>10 DEF Displaced
    <3>2. times[key] <= least
      BY <1>1, <2>0
    <3>3. later[key] \in Nat
      OBVIOUS
    <3> QED BY <1>2, <1>5, <3>1, <3>2, <3>3
  <2>2. \A k \in DOMAIN t1 : Fits(times1[k], t1[k], k, later[k])
    BY <1>6, <1>10, <2>0, <2>1 DEF Displaced
  <2>3. times1[victim] <= Least(t1, capacity)
    <3>1. times[victim] <= least /\ victim \in keys /\ victim # key
      BY <1>0, <1>1, <2>0
    <3> QED BY <1>2, <1>3, <1>4, <1>5, <3>1
  <2> QED BY <1>0, <1>3, <1>7, <2>0, <2>2, <2>3 DEF Bounds
<1>11. \/ Raised(table, key, t1)
       \/ Cardinality(DOMAIN table) < capacity /\ Added(table, key, t1)
       \/ \E victim : Displaced(table, least, key, estimate, victim, t1)
  BY <1>0, <1>2, IncrementedIs DEF least
<1> QED
  BY <1>8, <1>9, <1>10, <1>11 DEF times1
-----------------------------------------------------------------------------
(* What the talkers' counts add up to: the pairs of a key and a number up  *)
(* to its count.                                                           *)
Slots(table) == UNION {{key} \X (1..table[key].count) : key \in DOMAIN table}

LEMMA SlotsOfOne ==
  ASSUME NEW key, NEW n \in Nat
  PROVE  IsFiniteSet({key} \X (1..n)) /\ Cardinality({key} \X (1..n)) = n
<1>1. IsFiniteSet(1..n) /\ Cardinality(1..n) = n
  BY FS_Interval
<1>2. IsFiniteSet({key}) /\ Cardinality({key}) = 1
  BY FS_Singleton
<1>3. IsFiniteSet({key} \X (1..n)) /\ Cardinality({key} \X (1..n)) = 1 * n
  BY <1>1, <1>2, FS_Product, ZenonT(40)
<1> QED BY <1>3

(* Two sets without common elements.                                       *)
LEMMA DisjointSum ==
  ASSUME NEW A, NEW B, IsFiniteSet(A), IsFiniteSet(B), A \intersect B = {}
  PROVE  /\ IsFiniteSet(A \union B)
         /\ Cardinality(A \union B) = Cardinality(A) + Cardinality(B)
<1>1. Cardinality(A) \in Nat /\ Cardinality(B) \in Nat
  BY FS_CardinalityType
<1>2. IsFiniteSet(A \union B)
      /\ Cardinality(A \union B) = Cardinality(A) + Cardinality(B) - Cardinality(A \intersect B)
  BY FS_Union
<1>3. Cardinality(A \intersect B) = 0
  BY FS_EmptySet
<1> QED BY <1>1, <1>2, <1>3

LEMMA OneMoreSlot ==
  ASSUME NEW capacity \in Nat \ {0}, NEW table, IsTable(table, capacity), IsFiniteSet(Slots(table)),
         NEW key, NEW t1 \in Incremented(table, capacity, key, 0)
  PROVE  IsFiniteSet(Slots(t1)) /\ Cardinality(Slots(t1)) = Cardinality(Slots(table)) + 1
<1> DEFINE least == Least(table, capacity)
           slots == Slots(table)
<1>1. /\ least \in Nat /\ \A k \in DOMAIN table : table[k].count \in Nat
      /\ Cardinality(slots) \in Nat
  BY LeastCount, FS_CardinalityType DEF IsTable, Counter
<1>2. CASE Raised(table, key, t1)
  <2>1. DOMAIN t1 = DOMAIN table /\ key \in DOMAIN table /\ t1[key].count = table[key].count + 1
        /\ \A k \in DOMAIN table : k # key => t1[k] = table[k]
    BY <1>2 DEF Raised
  <2>2. 1..t1[key].count = (1..table[key].count) \union {table[key].count + 1}
    BY <1>1, <2>1
  <2> DEFINE new == <<key, table[key].count + 1>>
  <2>3. Slots(t1) = slots \union {new}
    BY <2>1, <2>2 DEF Slots
  <2>4. new \notin slots
    BY <1>1, <2>1 DEF Slots
  <2> HIDE DEF new, slots
  <2> QED BY <1>1, <2>3, <2>4, FS_AddElement DEF slots
<1>3. CASE Cardinality(DOMAIN table) < capacity /\ Added(table, key, t1)
  <2>1. DOMAIN t1 = DOMAIN table \union {key} /\ key \notin DOMAIN table /\ t1[key].count = 1
        /\ \A k \in DOMAIN table : t1[k] = table[k]
    BY <1>3 DEF Added
  <2> DEFINE new == <<key, 1>>
  <2>2. 1..t1[key].count = {1}
    BY <2>1
  <2>3. Slots(t1) = slots \union {new}
    BY <2>1, <2>2 DEF Slots
  <2>4. new \notin slots
    BY <2>1 DEF Slots
  <2> HIDE DEF new, slots
  <2> QED BY <1>1, <2>3, <2>4, FS_AddElement DEF slots
<1>4. ASSUME NEW victim, Displaced(table, least, key, 0, victim, t1)
      PROVE  IsFiniteSet(Slots(t1)) /\ Cardinality(Slots(t1)) = Cardinality(slots) + 1
  <2>1. /\ victim \in DOMAIN table /\ key \notin DOMAIN table /\ table[victim].count = least
        /\ DOMAIN t1 = (DOMAIN table \ {victim}) \union {key}
        /\ t1[key].count = least + 1
        /\ \A k \in DOMAIN table \ {victim} : t1[k] = table[k]
    BY <1>1, <1>4 DEF Displaced
  <2> DEFINE gone == {victim} \X (1..least)
             new == {key} \X (1..(least + 1))
             kept == slots \ gone
  <2>2. slots = kept \union gone /\ kept \intersect gone = {}
    BY <2>1 DEF Slots
  <2>3. Slots(t1) = kept \union new /\ kept \intersect new = {}
    BY <2>1 DEF Slots
  <2>4. IsFiniteSet(gone) /\ Cardinality(gone) = least
    BY <1>1, SlotsOfOne
  <2>5. IsFiniteSet(new) /\ Cardinality(new) = least + 1
    <3>1. least + 1 \in Nat
      BY <1>1
    <3> QED BY <3>1, SlotsOfOne
  <2>6. IsFiniteSet(kept)
    <3>1. kept \in SUBSET slots /\ IsFiniteSet(slots)
      OBVIOUS
    <3> QED BY <3>1, FS_Subset
  <2>7. Cardinality(kept) \in Nat
    BY <2>6, FS_CardinalityType
  <2> HIDE DEF gone, new, kept, slots, least
  <2>8. Cardinality(slots) = Cardinality(kept) + least
    BY <2>2, <2>4, <2>6, DisjointSum
  <2>9. IsFiniteSet(Slots(t1)) /\ Cardinality(Slots(t1)) = Cardinality(kept) + (least + 1)
    BY <2>3, <2>5, <2>6, DisjointSum
  <2> QED BY <1>1, <2>7, <2>8, <2>9
<1>5. 0 \in Nat
  OBVIOUS
<1> QED
  BY <1>2, <1>3, <1>4, <1>5, IncrementedIs

(* The least of as many counts as there is room for is a share of them.    *)
LEMMA LeastIsAShare ==
  ASSUME NEW capacity \in Nat \ {0}, NEW table, IsTable(table, capacity), IsFiniteSet(Slots(table))
  PROVE  Least(table, capacity) * capacity <= Cardinality(Slots(table))
<1> DEFINE least == Least(table, capacity)
<1>1. least \in Nat /\ Cardinality(DOMAIN table) \in Nat /\ Cardinality(Slots(table)) \in Nat
  BY LeastCount, FS_CardinalityType
<1>2. CASE Cardinality(DOMAIN table) < capacity
  <2>1. least = 0
    BY <1>2, LeastCount
  <2> QED BY <1>1, <2>1
<1>3. CASE Cardinality(DOMAIN table) >= capacity
  <2>1. Cardinality(DOMAIN table) = capacity /\ \A k \in DOMAIN table : least <= table[k].count
    BY <1>3, LeastCount
  <2>2. IsFiniteSet(DOMAIN table) /\ \A k \in DOMAIN table : table[k].count \in Nat
    BY DEF IsTable, Counter
  <2> DEFINE square == (DOMAIN table) \X (1..least)
  <2>3. square \in SUBSET Slots(table)
    <3> SUFFICES ASSUME NEW k \in DOMAIN table, NEW n \in 1..least PROVE <<k, n>> \in Slots(table)
      OBVIOUS
    <3>1. n \in 1..table[k].count
      BY <1>1, <2>1, <2>2
    <3> QED BY <3>1 DEF Slots
  <2>4. Cardinality(square) = capacity * least
    <3>1. IsFiniteSet(1..least) /\ Cardinality(1..least) = least
      BY <1>1, FS_Interval
    <3> QED BY <2>1, <2>2, <3>1, FS_Product, ZenonT(40)
  <2>5. Cardinality(square) <= Cardinality(Slots(table))
    BY <2>3, FS_Subset
  <2>6. capacity * least = least * capacity
    BY <1>1
  <2> QED BY <2>4, <2>5, <2>6
<1> QED BY <1>1, <1>2, <1>3

-----------------------------------------------------------------------------
(* Words and their sketch.                                                 *)
Kept == Words \ Skipped

IsSketch(sketch) == sketch \in [1..Depth -> [1..Width -> Nat]]

Estimates(sketch) == [word \in Kept |-> Estimate(sketch, word)]

LEMMA EstimateIs ==
  ASSUME NEW sketch, IsSketch(sketch), NEW word \in Kept
  PROVE  /\ Estimate(sketch, word) \in Nat
         /\ \E row \in 1..Depth : Estimate(sketch, word) = sketch[row][Column(row, word)]
         /\ \A row \in 1..Depth : /\ sketch[row][Column(row, word)] \in Nat
                                  /\ Estimate(sketch, word) <= sketch[row][Column(row, word)]
<1> DEFINE cells == {sketch[row][Column(row, word)] : row \in 1..Depth}
<1>1. \A row \in 1..Depth : sketch[row][Column(row, word)] \in Nat
  BY StatisticsAssumption DEF IsSketch, Kept
<1>2. 1 \in 1..Depth
  BY SketchAssumption
<1>3. cells \in SUBSET Nat /\ cells # {}
  BY <1>1, <1>2
<1>4. Min(cells) \in cells /\ Min(cells) \in Nat /\ \A n \in cells : Min(cells) <= n
  BY <1>3, MinIsLeast
<1> QED BY <1>1, <1>4 DEF Estimate

LEMMA SketchGrows ==
  ASSUME NEW sketch, IsSketch(sketch), NEW word \in Kept
  PROVE  /\ IsSketch(Sketched(sketch, word))
         /\ \A w \in Kept : Estimate(sketch, w) <= Estimate(Sketched(sketch, word), w)
         /\ Estimate(sketch, word) + 1 <= Estimate(Sketched(sketch, word), word)
<1> DEFINE after == Sketched(sketch, word)
<1>1. \A row \in 1..Depth : Column(row, word) \in 1..Width
  BY StatisticsAssumption DEF Kept
<1>2. \A row \in 1..Depth :
        after[row] = [sketch[row] EXCEPT ![Column(row, word)] = sketch[row][Column(row, word)] + 1]
  BY DEF Sketched
<1>3. \A row \in 1..Depth : sketch[row] \in [1..Width -> Nat]
  BY DEF IsSketch
<1>4. \A row \in 1..Depth : after[row] \in [1..Width -> Nat]
  <2> SUFFICES ASSUME NEW row \in 1..Depth PROVE after[row] \in [1..Width -> Nat]
    OBVIOUS
  <2>1. /\ after[row] = [sketch[row] EXCEPT ![Column(row, word)] = sketch[row][Column(row, word)] + 1]
        /\ sketch[row] \in [1..Width -> Nat] /\ Column(row, word) \in 1..Width
    BY <1>1, <1>2, <1>3
  <2>2. \A f \in [1..Width -> Nat], c \in 1..Width :
          f[c] + 1 \in Nat /\ [f EXCEPT ![c] = f[c] + 1] \in [1..Width -> Nat]
    <3>1. \A f \in [1..Width -> Nat], c \in 1..Width : f[c] + 1 \in Nat
      OBVIOUS
    <3> QED BY <3>1
  <2> HIDE DEF after
  <2> QED BY <2>1, <2>2
<1>5. IsSketch(after)
  BY <1>4 DEF IsSketch, Sketched
<1>6. \A row \in 1..Depth, column \in 1..Width :
        after[row][column] = IF column = Column(row, word) THEN sketch[row][column] + 1
                             ELSE sketch[row][column]
  <2> SUFFICES ASSUME NEW row \in 1..Depth, NEW column \in 1..Width
               PROVE  after[row][column] = IF column = Column(row, word)
                        THEN sketch[row][column] + 1 ELSE sketch[row][column]
    OBVIOUS
  <2>1. /\ after[row] = [sketch[row] EXCEPT ![Column(row, word)] = sketch[row][Column(row, word)] + 1]
        /\ sketch[row] \in [1..Width -> Nat] /\ Column(row, word) \in 1..Width
    BY <1>1, <1>2, <1>3
  <2> HIDE DEF after
  <2> QED BY <2>1
<1> HIDE DEF after
<1>7. ASSUME NEW w \in Kept
      PROVE  /\ Estimate(sketch, w) <= Estimate(after, w)
             /\ w = word => Estimate(sketch, w) + 1 <= Estimate(after, w)
  <2>1. PICK row \in 1..Depth : Estimate(after, w) = after[row][Column(row, w)]
    BY <1>5, EstimateIs
  <2>2. Column(row, w) \in 1..Width
    BY StatisticsAssumption DEF Kept
  <2>3. Estimate(sketch, w) \in Nat /\ sketch[row][Column(row, w)] \in Nat
        /\ Estimate(sketch, w) <= sketch[row][Column(row, w)]
    BY EstimateIs
  <2>4. after[row][Column(row, w)] = IF Column(row, w) = Column(row, word)
                                     THEN sketch[row][Column(row, w)] + 1
                                     ELSE sketch[row][Column(row, w)]
    BY <1>6, <2>2
  <2> QED BY <2>1, <2>3, <2>4
<1> QED BY <1>5, <1>7 DEF after

(* What a pair of a table and a sketch tells of words said so often.       *)
WordsBound(table, sketch, times) ==
  /\ IsSketch(sketch)
  /\ Bounds(table, WordCapacity, Kept, times, Estimates(sketch), TRUE)

LEMMA WordCounted ==
  ASSUME NEW times \in [Kept -> Nat], NEW word \in Kept, NEW pair,
         WordsBound(pair.table, pair.sketch, times),
         NEW p1 \in WordIncremented(pair, WordCapacity, word)
  PROVE  WordsBound(p1.table, p1.sketch, [times EXCEPT ![word] = @ + 1])
<1> DEFINE sketch == Sketched(pair.sketch, word)
           now == Estimates(pair.sketch)
           later == Estimates(sketch)
<1>1. PICK table \in Incremented(pair.table, WordCapacity, word, Estimate(sketch, word)) :
        p1 = [table |-> table, sketch |-> sketch]
  BY DEF WordIncremented
<1>2. /\ IsSketch(pair.sketch)
      /\ Bounds(pair.table, WordCapacity, Kept, times, now, TRUE)
  BY DEF WordsBound
<1>3. /\ IsSketch(sketch)
      /\ \A w \in Kept : Estimate(pair.sketch, w) <= Estimate(sketch, w)
      /\ Estimate(pair.sketch, word) + 1 <= Estimate(sketch, word)
  BY <1>2, SketchGrows
<1>4. now \in [Kept -> Nat] /\ later \in [Kept -> Nat]
  BY <1>2, <1>3, EstimateIs DEF Estimates
<1>5. (\A w \in Kept : now[w] <= later[w]) /\ now[word] + 1 <= later[word]
      /\ later[word] = Estimate(sketch, word)
  BY <1>3 DEF Estimates
<1>6. WordCapacity \in Nat \ {0}
  BY StatisticsAssumption
<1>7. table \in Incremented(pair.table, WordCapacity, word, IF TRUE THEN later[word] ELSE 0)
  BY <1>1, <1>5
<1> HIDE DEF now, later, sketch
<1>8. Bounds(table, WordCapacity, Kept, [times EXCEPT ![word] = @ + 1], later, TRUE)
  BY <1>2, <1>4, <1>5, <1>6, <1>7, CountingBounds
<1> QED BY <1>1, <1>3, <1>8 DEF WordsBound, later

(* Where a word is among the first n of a text, and how often.             *)
Spots(text, n, word) == {k \in 1..n : text[k] = word}

Occurs(text, n, word) == Cardinality(Spots(text, n, word))

LEMMA OccursNext ==
  \A text, word : \A n \in Nat :
    /\ IsFiniteSet(Spots(text, n, word)) /\ Occurs(text, n, word) \in Nat
    /\ Occurs(text, 0, word) = 0
    /\ Occurs(text, n + 1, word) = Occurs(text, n, word) + IF text[n + 1] = word THEN 1 ELSE 0
<1> TAKE text, word
<1> TAKE n \in Nat
<1> DEFINE places == {k \in 1..n : text[k] = word}
           more == {k \in 1..(n + 1) : text[k] = word}
<1>1. IsFiniteSet(1..n) /\ places \in SUBSET (1..n)
  BY FS_Interval
<1>2. IsFiniteSet(places)
  BY <1>1, FS_Subset
<1>3. Cardinality(places) \in Nat
  BY <1>2, FS_CardinalityType
<1>4. {k \in 1..0 : text[k] = word} = {} /\ Cardinality({}) = 0
  BY FS_EmptySet
<1>5. more = IF text[n + 1] = word THEN places \union {n + 1} ELSE places
  OBVIOUS
<1>6. n + 1 \notin places
  OBVIOUS
<1> HIDE DEF places, more
<1>7. Cardinality(places \union {n + 1}) = Cardinality(places) + 1
  BY <1>2, <1>6, FS_AddElement
<1>8. Cardinality(more) = Cardinality(places) + IF text[n + 1] = word THEN 1 ELSE 0
  BY <1>3, <1>5, <1>7
<1> QED BY <1>2, <1>3, <1>4, <1>8 DEF Occurs, Spots, places, more

(* What a word makes of the pairs there may be.                            *)
Heard(pairs, word) ==
  IF word \in Skipped THEN pairs
  ELSE UNION {WordIncremented(p, WordCapacity, word) : p \in pairs}

Hearing(f, pair, text, m) ==
  f = [n \in 0..m |-> IF n = 0 THEN {pair} ELSE Heard(f[n - 1], text[n])]

LEMMA HearingSome ==
  ASSUME NEW pair, NEW text, NEW m \in Nat
  PROVE  \E f : Hearing(f, pair, text, m)
<1> DEFINE T == {n \in Nat : ~\E f : Hearing(f, pair, text, n)}
<1> SUFFICES ASSUME T # {} PROVE FALSE
  OBVIOUS
<1>0. T \in SUBSET Nat
  OBVIOUS
<1>1. PICK n \in T : \A k \in T : n <= k
  <2> HIDE DEF T
  <2> QED BY <1>0, LeastOf
<1>2. n \in Nat /\ ~\E f : Hearing(f, pair, text, n)
  OBVIOUS
<1>3. n # 0
  <2> SUFFICES ASSUME n = 0 PROVE FALSE
    OBVIOUS
  <2> DEFINE f == [k \in 0..0 |-> {pair}]
  <2>1. \A k \in 0..0 : k = 0
    OBVIOUS
  <2>2. Hearing(f, pair, text, 0)
    BY <2>1 DEF Hearing
  <2> QED BY <1>2, <2>2
<1>4. n - 1 \in Nat /\ ~(n <= n - 1)
  BY <1>2, <1>3
<1>5. PICK f : Hearing(f, pair, text, n - 1)
  BY <1>1, <1>4
<1> DEFINE g == [k \in 0..n |-> IF k = n THEN Heard(f[n - 1], text[n]) ELSE f[k]]
<1>6. \A k \in 0..n : g[k] = IF k = 0 THEN {pair} ELSE Heard(g[k - 1], text[k])
  <2> SUFFICES ASSUME NEW k \in 0..n PROVE g[k] = IF k = 0 THEN {pair} ELSE Heard(g[k - 1], text[k])
    OBVIOUS
  <2>1. CASE k = n
    <3>1. g[k] = Heard(f[n - 1], text[n]) /\ g[k - 1] = f[n - 1] /\ k # 0
      BY <1>2, <1>3, <1>4, <2>1
    <3> QED BY <2>1, <3>1
  <2>2. CASE k # n
    <3>1. k \in 0..(n - 1) /\ g[k] = f[k] /\ (k # 0 => g[k - 1] = f[k - 1])
      BY <1>2, <1>3, <2>2
    <3>2. f[k] = IF k = 0 THEN {pair} ELSE Heard(f[k - 1], text[k])
      BY <1>5, <3>1 DEF Hearing
    <3> HIDE DEF g
    <3> QED BY <3>1, <3>2
  <2> QED BY <2>1, <2>2
<1>7. Hearing(g, pair, text, n)
  <2>1. g = [k \in 0..n |-> g[k]]
    OBVIOUS
  <2> HIDE DEF g
  <2> QED BY <1>6, <2>1 DEF Hearing
<1> QED BY <1>2, <1>7

LEMMA TextHeard ==
  ASSUME NEW text \in Seq(Words), NEW pair, NEW p1 \in ProcessWords(pair, text)
  PROVE  \E f : Hearing(f, pair, text, Len(text)) /\ p1 \in f[Len(text)]
<1> DEFINE Step(f) == [n \in 0..Len(text) |->
                         IF n = 0 THEN {pair}
                         ELSE IF text[n] \in Skipped THEN f[n - 1]
                         ELSE UNION {WordIncremented(p, WordCapacity, text[n]) : p \in f[n - 1]}]
           after == CHOOSE f : f = Step(f)
<1>1. p1 \in after[Len(text)]
  BY DEF ProcessWords
<1>2. \A f : Step(f) = [n \in 0..Len(text) |-> IF n = 0 THEN {pair} ELSE Heard(f[n - 1], text[n])]
  BY DEF Heard
<1>3. PICK f : f = Step(f)
  <2>1. Len(text) \in Nat
    OBVIOUS
  <2>2. PICK f : Hearing(f, pair, text, Len(text))
    BY <2>1, HearingSome
  <2>3. f = Step(f)
    BY <1>2, <2>2 DEF Hearing
  <2> HIDE DEF Step
  <2> QED BY <2>3
<1>4. after = Step(after)
  <2> HIDE DEF Step
  <2> QED BY <1>3
<1>5. Hearing(after, pair, text, Len(text))
  <2> HIDE DEF after
  <2> QED BY <1>2, <1>4 DEF Hearing
<1> HIDE DEF after
<1> QED BY <1>1, <1>5

LEMMA TextCounted ==
  ASSUME NEW text \in Seq(Words), NEW times \in [Kept -> Nat], NEW pair,
         WordsBound(pair.table, pair.sketch, times), NEW p1 \in ProcessWords(pair, text)
  PROVE  WordsBound(p1.table, p1.sketch,
                    [word \in Kept |-> times[word] + Occurs(text, Len(text), word)])
<1> DEFINE L == Len(text)
           After(n) == [word \in Kept |-> times[word] + Occurs(text, n, word)]
           Bound(p, n) == WordsBound(p.table, p.sketch, After(n))
<1>1. PICK f : Hearing(f, pair, text, L) /\ p1 \in f[L]
  BY TextHeard
<1>2. L \in Nat /\ \A n \in 1..L : text[n] \in Words
  OBVIOUS
<1>3. After(0) = times /\ \A n \in Nat : After(n) \in [Kept -> Nat]
  <2>1. ASSUME NEW n \in Nat, NEW word \in Kept
        PROVE  times[word] + Occurs(text, n, word) \in Nat /\ times[word] + Occurs(text, 0, word) = times[word]
    <3>1. times[word] \in Nat /\ Occurs(text, n, word) \in Nat /\ Occurs(text, 0, word) = 0
      BY OccursNext
    <3> QED BY <3>1
  <2>2. 0 \in Nat
    OBVIOUS
  <2> QED BY <2>1, <2>2
<1>4. ASSUME NEW n \in 1..L
      PROVE  IF text[n] \in Kept THEN After(n) = [After(n - 1) EXCEPT ![text[n]] = @ + 1]
             ELSE After(n) = After(n - 1)
  <2>1. n - 1 \in Nat /\ (n - 1) + 1 = n
    BY <1>2
  <2>2. ASSUME NEW word \in Kept
        PROVE  times[word] + Occurs(text, n, word) =
                 (times[word] + Occurs(text, n - 1, word)) + IF text[n] = word THEN 1 ELSE 0
    <3>1. /\ Occurs(text, n - 1, word) \in Nat
          /\ Occurs(text, n, word) = Occurs(text, n - 1, word) + IF text[n] = word THEN 1 ELSE 0
      <4>1. PICK k \in Nat : k = n - 1 /\ n = k + 1
        BY <2>1
      <4>2. /\ Occurs(text, k, word) \in Nat
            /\ Occurs(text, k + 1, word) = Occurs(text, k, word) + IF text[k + 1] = word THEN 1 ELSE 0
        BY OccursNext, Zenon
      <4> QED BY <4>1, <4>2
    <3>2. times[word] \in Nat
      OBVIOUS
    <3> QED BY <2>1, <3>1, <3>2
  <2>3. After(n - 1) \in [Kept -> Nat] /\ After(n) \in [Kept -> Nat]
    BY <1>2, <1>3, <2>1
  <2>4. \A word \in Kept : After(n)[word] = After(n - 1)[word] + IF text[n] = word THEN 1 ELSE 0
    BY <2>2
  <2> DEFINE now == After(n - 1)
             later == After(n)
  <2> HIDE DEF now, later, After
  <2>5. /\ now \in [Kept -> Nat] /\ later \in [Kept -> Nat]
        /\ \A word \in Kept : later[word] = now[word] + IF text[n] = word THEN 1 ELSE 0
    BY <2>3, <2>4 DEF now, later
  <2>6. IF text[n] \in Kept THEN later = [now EXCEPT ![text[n]] = @ + 1] ELSE later = now
    BY <2>5
  <2> QED BY <2>6 DEF now, later
<1> DEFINE T == {n \in 0..L : ~\A p \in f[n] : Bound(p, n)}
<1>5. T = {}
  <2> SUFFICES ASSUME T # {} PROVE FALSE
    OBVIOUS
  <2>0. T \in SUBSET Nat
    BY <1>2
  <2>1. PICK n \in T : \A k \in T : n <= k
    <3> HIDE DEF T
    <3> QED BY <2>0, LeastOf
  <2>2. n \in 0..L /\ ~\A p \in f[n] : Bound(p, n)
    OBVIOUS
  <2>3. f[n] = IF n = 0 THEN {pair} ELSE Heard(f[n - 1], text[n])
    BY <1>1, <2>2 DEF Hearing
  <2>4. n # 0
    BY <1>3, <2>2, <2>3
  <2>5. n \in 1..L /\ n - 1 \in 0..L /\ ~(n <= n - 1) /\ n - 1 \in Nat
    BY <1>2, <2>2, <2>4
  <2>6. \A p \in f[n - 1] : Bound(p, n - 1)
    BY <2>1, <2>5
  <2>7. ASSUME NEW p \in f[n] PROVE Bound(p, n)
    <3>1. p \in Heard(f[n - 1], text[n])
      BY <2>3, <2>4
    <3>2. CASE text[n] \in Skipped
      <4>1. p \in f[n - 1]
        BY <3>1, <3>2 DEF Heard
      <4>2. After(n) = After(n - 1)
        BY <1>4, <2>5, <3>2 DEF Kept
      <4> HIDE DEF After
      <4> QED BY <2>6, <4>1, <4>2
    <3>3. CASE text[n] \notin Skipped
      <4>1. PICK q \in f[n - 1] : p \in WordIncremented(q, WordCapacity, text[n])
        BY <3>1, <3>3 DEF Heard
      <4>2. text[n] \in Kept
        BY <1>2, <2>5, <3>3 DEF Kept
      <4>3. After(n) = [After(n - 1) EXCEPT ![text[n]] = @ + 1] /\ After(n - 1) \in [Kept -> Nat]
        BY <1>3, <1>4, <2>5, <4>2
      <4>4. Bound(q, n - 1)
        BY <2>6
      <4> HIDE DEF After
      <4>5. WordsBound(p.table, p.sketch, [After(n - 1) EXCEPT ![text[n]] = @ + 1])
        BY <4>1, <4>2, <4>3, <4>4, WordCounted
      <4> QED BY <4>3, <4>5
    <3> QED BY <3>2, <3>3
  <2> QED BY <2>2, <2>7
<1>6. L \in 0..L
  BY <1>2
<1> HIDE DEF T
<1>7. Bound(p1, L)
  <2> HIDE DEF Bound
  <2> QED BY <1>1, <1>5, <1>6 DEF T
<1> QED BY <1>7
-----------------------------------------------------------------------------
(* One more message.                                                       *)
LEMMA PlacesGrow ==
  ASSUME NEW messages \in Seq(crowd), NEW m \in crowd, crowd \in Crowds, NEW word,
         IsFiniteSet(PlacesOf(word, messages))
  PROVE  /\ IsFiniteSet(PlacesOf(word, Append(messages, m)))
         /\ Cardinality(PlacesOf(word, Append(messages, m))) =
              Cardinality(PlacesOf(word, messages)) +
                IF m.gift THEN 0 ELSE Occurs(m.text, Len(m.text), word)
<1> DEFINE L == Len(messages)
           old == PlacesOf(word, messages)
           here == {k \in 1..Len(m.text) : m.text[k] = word}
           new == {L + 1} \X here
           more == Append(messages, m)
<1>1. m.text \in Seq(Words) /\ m.gift \in BOOLEAN
  BY StatisticsAssumption
<1>2. Len(m.text) \in Nat /\ DOMAIN m.text = 1..Len(m.text)
  BY <1>1
<1>3. /\ L \in Nat /\ DOMAIN messages = 1..L /\ DOMAIN more = 1..(L + 1)
      /\ more[L + 1] = m /\ \A i \in 1..L : more[i] = messages[i]
  OBVIOUS
<1>4. IsFiniteSet(here) /\ Cardinality(here) = Occurs(m.text, Len(m.text), word)
      /\ Cardinality(here) \in Nat
  <2>1. here = Spots(m.text, Len(m.text), word)
    BY DEF Spots
  <2>2. IsFiniteSet(Spots(m.text, Len(m.text), word)) /\ Occurs(m.text, Len(m.text), word) \in Nat
    BY <1>2, OccursNext, Zenon
  <2> QED BY <2>1, <2>2 DEF Occurs
<1>5. Cardinality(old) \in Nat
  BY FS_CardinalityType
<1>6. CASE m.gift
  <2>1. PlacesOf(word, more) = old
    <3> HIDE DEF more, L
    <3> QED BY <1>3, <1>6 DEF PlacesOf
  <2> QED BY <1>5, <1>6, <2>1
<1>7. CASE ~m.gift
  <2>1. PlacesOf(word, more) = old \union new
    <3> HIDE DEF more, L
    <3> QED BY <1>2, <1>3, <1>7 DEF PlacesOf
  <2>2. old \intersect new = {}
    <3> HIDE DEF L
    <3> QED BY <1>3 DEF PlacesOf
  <2>3. IsFiniteSet(new) /\ Cardinality(new) = Cardinality(here)
    <3>1. IsFiniteSet({L + 1}) /\ Cardinality({L + 1}) = 1
      BY FS_Singleton
    <3> HIDE DEF here, L
    <3>2. IsFiniteSet({L + 1} \X here) /\ Cardinality({L + 1} \X here) = 1 * Cardinality(here)
      BY <1>4, <3>1, FS_Product
    <3> QED BY <1>4, <3>2
  <2> HIDE DEF old, new, more, here
  <2>4. IsFiniteSet(old \union new) /\ Cardinality(old \union new) = Cardinality(old) + Cardinality(new)
    <3>1. IsFiniteSet(old)
      BY DEF old
    <3> QED BY <2>2, <2>3, <3>1, DisjointSum
  <2> QED BY <1>4, <1>7, <2>1, <2>3, <2>4 DEF old, more
<1> QED BY <1>1, <1>6, <1>7

HeardOf(user, list) == {i \in DOMAIN list : list[i].user = user}

LEMMA UserHeard ==
  ASSUME NEW messages \in Seq(crowd), NEW m \in crowd, NEW user
  PROVE  /\ IsFiniteSet(HeardOf(user, messages)) /\ Cardinality(HeardOf(user, messages)) \in Nat
         /\ Cardinality(HeardOf(user, Append(messages, m))) =
              Cardinality(HeardOf(user, messages)) + IF m.user = user THEN 1 ELSE 0
<1> DEFINE L == Len(messages)
           Of(list) == {i \in DOMAIN list : list[i].user = user}
           more == Append(messages, m)
<1>1. /\ L \in Nat /\ DOMAIN messages = 1..L /\ DOMAIN more = 1..(L + 1)
      /\ more[L + 1] = m /\ \A i \in 1..L : more[i] = messages[i]
  OBVIOUS
<1>2. IsFiniteSet(Of(messages)) /\ Cardinality(Of(messages)) \in Nat
  <2>1. IsFiniteSet(1..L) /\ Of(messages) \in SUBSET (1..L)
    BY <1>1, FS_Interval
  <2> QED BY <2>1, FS_Subset, FS_CardinalityType
<1>3. Of(more) = IF m.user = user THEN Of(messages) \union {L + 1} ELSE Of(messages)
  <2> HIDE DEF more, L
  <2> QED BY <1>1
<1>4. L + 1 \notin Of(messages)
  BY <1>1
<1> DEFINE old == Of(messages)
<1>5. IsFiniteSet(old) /\ L + 1 \notin old /\ Cardinality(old) \in Nat
      /\ Of(more) = IF m.user = user THEN old \union {L + 1} ELSE old
  BY <1>2, <1>3, <1>4
<1> HIDE DEF old, L
<1>6. Cardinality(old \union {L + 1}) = Cardinality(old) + 1
  BY <1>5, FS_AddElement
<1>7. Cardinality(Of(more)) = Cardinality(old) + IF m.user = user THEN 1 ELSE 0
  <2>1. CASE m.user = user
    <3>1. Of(more) = old \union {L + 1}
      BY <1>5, <2>1
    <3> HIDE DEF Of
    <3> QED BY <1>6, <2>1, <3>1
  <2>2. CASE m.user # user
    <3>1. Of(more) = old
      BY <1>5, <2>2
    <3> HIDE DEF Of
    <3> QED BY <1>5, <2>2, <3>1
  <2> QED BY <2>1, <2>2
<1> QED BY <1>2, <1>7 DEF old, HeardOf

(* The aggregator's tables bound what was said, and its talkers' counts    *)
(* add up to the messages.                                                 *)
Users == {m.user : m \in crowd}

SaidByUsers == [user \in Users |-> SaidBy(user)]

SaidWords == [word \in Kept |-> SaidWord(word)]

TalkersInv ==
  /\ agg.total \in Nat
  /\ Bounds(agg.talkers, TalkerCapacity, Users, SaidByUsers, SaidByUsers, FALSE)
  /\ IsFiniteSet(Slots(agg.talkers)) /\ agg.total = Cardinality(Slots(agg.talkers))

WordsInv ==
  /\ \A word \in Kept : IsFiniteSet(PlacesOf(word, said))
  /\ WordsBound(agg.words, agg.sketch, SaidWords)

IsAggregator(a) ==
  a = [total |-> a.total, chat |-> a.chat, gift |-> a.gift, talkers |-> a.talkers, words |-> a.words,
       sketch |-> a.sketch, rate |-> a.rate, bucket |-> a.bucket, start |-> a.start]

HitterInv ==
  /\ crowd \in Crowds /\ said \in Seq(crowd)
  /\ IsAggregator(agg) /\ TalkersInv /\ WordsInv

LEMMA RecordedIs ==
  ASSUME NEW a, IsAggregator(a), NEW m, NEW a1 \in Recorded(a, m)
  PROVE  /\ IsAggregator(a1) /\ a1.total = a.total + 1
         /\ a1.talkers \in TalkerIncremented(a.talkers, TalkerCapacity, m.user)
         /\ \E pair \in IF m.gift THEN {WordsOf(a)} ELSE ProcessWords(WordsOf(a), m.text) :
              a1.words = pair.table /\ a1.sketch = pair.sketch
<1> DEFINE pairs == IF m.gift THEN {WordsOf(a)} ELSE ProcessWords(WordsOf(a), m.text)
<1>1. PICK talkers \in TalkerIncremented(a.talkers, TalkerCapacity, m.user), pair \in pairs :
        a1 = RateUpdated(Counted(a, m, talkers, pair), m.time)
  <2> HIDE DEF pairs
  <2>1. Recorded(a, m) = {RateUpdated(Counted(a, m, talkers, pair), m.time) :
                            talkers \in TalkerIncremented(a.talkers, TalkerCapacity, m.user),
                            pair \in pairs}
    BY DEF Recorded, pairs
  <2> QED BY <2>1
<1> DEFINE b == Counted(a, m, talkers, pair)
<1>2. /\ IsAggregator(b) /\ b.total = a.total + 1 /\ b.talkers = talkers
      /\ b.words = pair.table /\ b.sketch = pair.sketch
  <2>1. PICK start, total, gift, chat :
          total = a.total + 1
          /\ b = [a EXCEPT !.start = start, !.total = total, !.gift = gift, !.chat = chat,
                          !.talkers = talkers, !.words = pair.table, !.sketch = pair.sketch]
    BY DEF Counted
  <2> HIDE DEF b
  <2> QED BY <2>1 DEF IsAggregator
<1> HIDE DEF b
<1>3. /\ IsAggregator(a1) /\ a1.total = b.total /\ a1.talkers = b.talkers
      /\ a1.words = b.words /\ a1.sketch = b.sketch
  <2>1. a1 = RateUpdated(b, m.time)
    BY <1>1 DEF b
  <2>2. CASE b.bucket.start = BucketStart(m.time)
    <3>1. a1 = [b EXCEPT !.bucket.count = @ + 1]
      BY <2>1, <2>2 DEF RateUpdated
    <3> QED BY <1>2, <3>1 DEF IsAggregator
  <2>3. CASE b.bucket.start # BucketStart(m.time)
    <3>1. PICK rate, bucket : a1 = [b EXCEPT !.rate = rate, !.bucket = bucket]
      BY <2>1, <2>3 DEF RateUpdated
    <3> QED BY <1>2, <3>1 DEF IsAggregator
  <2> QED BY <2>2, <2>3
<1> HIDE DEF pairs
<1> QED BY <1>1, <1>2, <1>3 DEF pairs

LEMMA NothingSaid ==
  ASSUME crowd \in Crowds, said = <<>>, agg = Fresh
  PROVE  IsAggregator(agg) /\ TalkersInv /\ WordsInv
<1>1. DOMAIN EmptyTable = {} /\ EmptyTable \in [DOMAIN EmptyTable -> Counter]
  BY DEF EmptyTable
<1>2. IsFiniteSet({}) /\ Cardinality({}) = 0
  BY FS_EmptySet
<1>3. \A user : SaidBy(user) = 0
  <2>1. \A user : {i \in DOMAIN said : said[i].user = user} = {}
    OBVIOUS
  <2> QED BY <1>2, <2>1 DEF SaidBy
<1>4. \A word : PlacesOf(word, said) = {}
  BY DEF PlacesOf
<1>5. /\ agg.total = 0 /\ agg.talkers = EmptyTable /\ agg.words = EmptyTable /\ agg.sketch = EmptySketch
      /\ IsAggregator(agg)
  BY DEF Fresh, IsAggregator
<1>6. ASSUME NEW capacity \in Nat \ {0}, NEW keys, NEW times \in [keys -> {0}], NEW estimates,
             NEW sketched \in BOOLEAN
      PROVE  Bounds(EmptyTable, capacity, keys, times, estimates, sketched)
  <2>1. IsTable(EmptyTable, capacity)
    BY <1>1, <1>2 DEF IsTable
  <2>2. Least(EmptyTable, capacity) = 0
    BY <1>1, <1>2 DEF Least
  <2> QED BY <1>1, <2>1, <2>2 DEF Bounds
<1>7. TalkersInv
  <2>1. Slots(EmptyTable) = {}
    BY <1>1 DEF Slots
  <2>2. SaidByUsers \in [Users -> {0}]
    BY <1>3 DEF SaidByUsers
  <2>3. Bounds(EmptyTable, TalkerCapacity, Users, SaidByUsers, SaidByUsers, FALSE)
    BY <1>6, <2>2, StatisticsAssumption
  <2>4. Bounds(agg.talkers, TalkerCapacity, Users, SaidByUsers, SaidByUsers, FALSE)
    BY <1>5, <2>3
  <2>5. IsFiniteSet(Slots(agg.talkers)) /\ agg.total = Cardinality(Slots(agg.talkers))
    BY <1>2, <1>5, <2>1
  <2>6. agg.total \in Nat
    BY <1>5
  <2> QED BY <2>4, <2>5, <2>6, Zenon DEF TalkersInv
<1>8. WordsInv
  <2>1. SaidWords \in [Kept -> {0}]
    BY <1>2, <1>4 DEF SaidWords, SaidWord
  <2>2. Bounds(EmptyTable, WordCapacity, Kept, SaidWords, Estimates(EmptySketch), TRUE)
    BY <1>6, <2>1, StatisticsAssumption
  <2>3. IsSketch(EmptySketch)
    BY DEF IsSketch, EmptySketch
  <2> QED BY <1>2, <1>4, <1>5, <2>2, <2>3 DEF WordsInv, WordsBound
<1> QED BY <1>5, <1>7, <1>8

LEMMA TalkerCounted ==
  ASSUME HitterInv, NEW m \in crowd, said' = Append(said, m), crowd' = crowd,
         agg'.total = agg.total + 1,
         agg'.talkers \in TalkerIncremented(agg.talkers, TalkerCapacity, m.user)
  PROVE  TalkersInv'
<1>1. m.user \in Users /\ said \in Seq(crowd) /\ TalkersInv
  BY DEF Users, HitterInv
<1>2. agg'.talkers \in Incremented(agg.talkers, TalkerCapacity, m.user, 0)
  BY DEF TalkerIncremented
<1>3. TalkerCapacity \in Nat \ {0}
  BY StatisticsAssumption
<1>4. /\ SaidByUsers \in [Users -> Nat]
      /\ SaidByUsers' = [SaidByUsers EXCEPT ![m.user] = @ + 1]
  <2>1. ASSUME NEW user \in Users
        PROVE  /\ SaidBy(user) \in Nat
               /\ SaidBy(user)' = SaidBy(user) + IF m.user = user THEN 1 ELSE 0
    <3>1. SaidBy(user) = Cardinality(HeardOf(user, said))
      BY DEF SaidBy, HeardOf
    <3>2. SaidBy(user)' = Cardinality(HeardOf(user, Append(said, m)))
      BY DEF SaidBy, HeardOf
    <3> QED BY <1>1, <3>1, <3>2, UserHeard
  <2>2. Users' = Users
    BY DEF Users
  <2>3. SaidByUsers' = [user \in Users |-> SaidBy(user)']
    BY <2>2 DEF SaidByUsers
  <2>4. SaidByUsers \in [Users -> Nat] /\ \A user \in Users : SaidByUsers[user] = SaidBy(user)
    BY <2>1 DEF SaidByUsers
  <2> DEFINE now == SaidByUsers
             later == SaidByUsers'
  <2>5. later = [user \in Users |-> now[user] + IF m.user = user THEN 1 ELSE 0]
    BY <2>1, <2>3, <2>4
  <2> HIDE DEF now, later
  <2>6. now \in [Users -> Nat]
    BY <2>4 DEF now
  <2>7. later = [now EXCEPT ![m.user] = @ + 1]
    <3>1. ASSUME NEW u
          PROVE  [user \in Users |-> now[user] + IF u = user THEN 1 ELSE 0] = [now EXCEPT ![u] = @ + 1]
      <4>1. \A user \in Users : now[user] + (IF u = user THEN 1 ELSE 0) = [now EXCEPT ![u] = @ + 1][user]
        BY <2>6
      <4> QED BY <2>6, <4>1
    <3> QED BY <2>5, <3>1, Zenon
  <2> QED BY <2>6, <2>7 DEF now, later
<1>5. Bounds(agg'.talkers, TalkerCapacity, Users, SaidByUsers', SaidByUsers', FALSE)
  <2> DEFINE later == SaidByUsers'
  <2>1. /\ later \in [Users -> Nat] /\ later = [SaidByUsers EXCEPT ![m.user] = @ + 1]
        /\ \A user \in Users : SaidByUsers[user] <= later[user]
        /\ SaidByUsers[m.user] + 1 <= later[m.user]
    <3> HIDE DEF later
    <3>1. later = [SaidByUsers EXCEPT ![m.user] = @ + 1] /\ SaidByUsers \in [Users -> Nat]
      BY <1>4 DEF later
    <3> QED BY <1>1, <3>1
  <2>2. Bounds(agg.talkers, TalkerCapacity, Users, SaidByUsers, SaidByUsers, FALSE)
    BY <1>1 DEF TalkersInv
  <2>3. agg'.talkers \in Incremented(agg.talkers, TalkerCapacity, m.user,
                                     IF FALSE THEN later[m.user] ELSE 0)
    BY <1>2
  <2> HIDE DEF later
  <2>4. Bounds(agg'.talkers, TalkerCapacity, Users, [SaidByUsers EXCEPT ![m.user] = @ + 1], later, FALSE)
    BY <1>1, <1>3, <1>4, <2>1, <2>2, <2>3, CountingBounds
  <2> QED BY <2>1, <2>4 DEF later
<1>6. /\ IsFiniteSet(Slots(agg'.talkers)) /\ Cardinality(Slots(agg'.talkers)) = agg.total + 1
  <2>1. IsTable(agg.talkers, TalkerCapacity) /\ IsFiniteSet(Slots(agg.talkers))
        /\ agg.total = Cardinality(Slots(agg.talkers))
    BY <1>1 DEF TalkersInv, Bounds
  <2> QED BY <1>2, <1>3, <2>1, OneMoreSlot
<1>7. Users' = Users
  BY DEF Users
<1>8. agg'.total \in Nat /\ agg'.total = Cardinality(Slots(agg'.talkers))
  BY <1>1, <1>6 DEF TalkersInv
<1>9. Bounds(agg'.talkers, TalkerCapacity, Users', SaidByUsers', SaidByUsers', FALSE)
  BY <1>5, <1>7
<1>10. (/\ agg.total \in Nat
        /\ Bounds(agg.talkers, TalkerCapacity, Users, SaidByUsers, SaidByUsers, FALSE)
        /\ IsFiniteSet(Slots(agg.talkers)) /\ agg.total = Cardinality(Slots(agg.talkers)))'
  BY <1>6, <1>8, <1>9
<1> QED BY <1>10, Zenon DEF TalkersInv

LEMMA MessageCounted ==
  ASSUME HitterInv, NEW m \in crowd, said' = Append(said, m),
         NEW pair \in IF m.gift THEN {WordsOf(agg)} ELSE ProcessWords(WordsOf(agg), m.text),
         agg'.words = pair.table, agg'.sketch = pair.sketch
  PROVE  WordsInv'
<1> DEFINE before == WordsOf(agg)
<1>1. /\ crowd \in Crowds /\ said \in Seq(crowd) /\ WordsInv
      /\ m.gift \in BOOLEAN /\ m.text \in Seq(Words)
  BY StatisticsAssumption DEF HitterInv
<1>2. ASSUME NEW word \in Kept
      PROVE  /\ IsFiniteSet(PlacesOf(word, said))' /\ SaidWord(word) \in Nat
             /\ SaidWord(word)' = SaidWord(word) + IF m.gift THEN 0 ELSE Occurs(m.text, Len(m.text), word)
  <2>1. IsFiniteSet(PlacesOf(word, said))
    BY <1>1 DEF WordsInv
  <2>2. /\ IsFiniteSet(PlacesOf(word, Append(said, m)))
        /\ Cardinality(PlacesOf(word, Append(said, m))) =
             Cardinality(PlacesOf(word, said)) + IF m.gift THEN 0 ELSE Occurs(m.text, Len(m.text), word)
    BY <1>1, <2>1, PlacesGrow
  <2>3. PlacesOf(word, said)' = PlacesOf(word, Append(said, m))
    BY DEF PlacesOf
  <2>4. Cardinality(PlacesOf(word, said)) \in Nat
    BY <2>1, FS_CardinalityType
  <2> QED BY <2>2, <2>3, <2>4 DEF SaidWord
<1>3. SaidWords \in [Kept -> Nat] /\ \A word \in Kept : SaidWords[word] = SaidWord(word)
  BY <1>2 DEF SaidWords
<1>4. SaidWords' = [word \in Kept |-> SaidWord(word)']
  BY DEF SaidWords
<1>5. WordsBound(before.table, before.sketch, SaidWords)
  BY <1>1 DEF WordsInv, WordsOf
<1>6. WordsBound(pair.table, pair.sketch, SaidWords')
  <2>1. CASE m.gift
    <3>1. pair = before
      BY <2>1
    <3>2. SaidWords' = SaidWords
      BY <1>2, <1>3, <1>4, <2>1
    <3> QED BY <1>5, <3>1, <3>2
  <2>2. CASE ~m.gift
    <3>1. pair \in ProcessWords(before, m.text)
      BY <2>2
    <3>2. SaidWords' = [word \in Kept |-> SaidWords[word] + Occurs(m.text, Len(m.text), word)]
      BY <1>2, <1>3, <1>4, <2>2
    <3> HIDE DEF before
    <3>3. WordsBound(pair.table, pair.sketch,
                     [word \in Kept |-> SaidWords[word] + Occurs(m.text, Len(m.text), word)])
      BY <1>1, <1>3, <1>5, <3>1, TextCounted
    <3> QED BY <3>2, <3>3
  <2> QED BY <1>1, <2>1, <2>2
<1> QED BY <1>2, <1>6 DEF WordsInv

LEMMA HitterStep == HitterInv /\ [StatisticsNext]_statisticsVars => HitterInv'
<1> SUFFICES ASSUME HitterInv, [StatisticsNext]_statisticsVars PROVE HitterInv'
  OBVIOUS
<1>0. crowd \in Crowds /\ said \in Seq(crowd) /\ IsAggregator(agg)
  BY DEF HitterInv
<1>1. CASE RecordMessage
  <2>1. PICK m \in crowd : agg' \in Recorded(agg, m) /\ said' = Append(said, m)
    BY <1>1 DEF RecordMessage
  <2>2. crowd' = crowd /\ said' \in Seq(crowd)
    BY <1>0, <1>1, <2>1 DEF RecordMessage
  <2>3. /\ IsAggregator(agg') /\ agg'.total = agg.total + 1
        /\ agg'.talkers \in TalkerIncremented(agg.talkers, TalkerCapacity, m.user)
        /\ \E pair \in IF m.gift THEN {WordsOf(agg)}
                       ELSE ProcessWords(WordsOf(agg), m.text) :
             agg'.words = pair.table /\ agg'.sketch = pair.sketch
    BY <1>0, <2>1, RecordedIs
  <2>4. TalkersInv'
    BY <2>1, <2>2, <2>3, TalkerCounted
  <2>5. WordsInv'
    BY <2>1, <2>3, MessageCounted
  <2> QED BY <1>0, <2>2, <2>3, <2>4, <2>5 DEF HitterInv, IsAggregator
<1>2. CASE Checkpoint \/ Reset
  <2>1. agg' = Fresh /\ said' = <<>> /\ crowd' = crowd
    BY <1>2 DEF Checkpoint, Reset
  <2>2. (crowd \in Crowds /\ said = <<>> /\ agg = Fresh => IsAggregator(agg) /\ TalkersInv /\ WordsInv)'
    BY NothingSaid, PTL
  <2>3. said' \in Seq(crowd')
    BY <2>1
  <2> QED BY <1>0, <2>1, <2>2, <2>3 DEF HitterInv
<1>3. CASE UNCHANGED statisticsVars
  BY <1>3 DEF statisticsVars, HitterInv, TalkersInv, WordsInv, IsAggregator, Users, SaidByUsers, SaidWords,
              SaidBy, SaidWord
<1> QED BY <1>1, <1>2, <1>3 DEF StatisticsNext

LEMMA HittersFollow == HitterInv => HeavyHittersBounded
<1> SUFFICES ASSUME HitterInv PROVE HeavyHittersBounded
  OBVIOUS
<1>0. TalkersInv /\ WordsInv /\ TalkerCapacity \in Nat \ {0} /\ WordCapacity \in Nat \ {0}
  BY StatisticsAssumption DEF HitterInv
<1>1. ASSUME NEW user \in Users
      PROVE  IF user \in DOMAIN agg.talkers
             THEN /\ agg.talkers[user].count - agg.talkers[user].error <= SaidBy(user)
                  /\ SaidBy(user) <= agg.talkers[user].count
             ELSE SaidBy(user) <= Least(agg.talkers, TalkerCapacity)
  <2>1. SaidByUsers[user] = SaidBy(user) /\ SaidBy(user) \in Nat
    <3>1. PICK m \in crowd : user = m.user
      BY DEF Users
    <3>2. said \in Seq(crowd)
      BY DEF HitterInv
    <3>3. SaidBy(user) = Cardinality(HeardOf(user, said))
      BY DEF SaidBy, HeardOf
    <3>4. SaidBy(user) \in Nat
      BY <3>1, <3>2, <3>3, UserHeard
    <3> QED BY <3>4 DEF SaidByUsers
  <2>2. /\ agg.talkers \in [DOMAIN agg.talkers -> Counter]
        /\ IF user \in DOMAIN agg.talkers
           THEN /\ SaidBy(user) <= agg.talkers[user].count
                /\ agg.talkers[user].count <= SaidBy(user) + agg.talkers[user].error
           ELSE SaidBy(user) <= Least(agg.talkers, TalkerCapacity)
    BY <1>0, <2>1 DEF TalkersInv, Bounds, IsTable
  <2>3. CASE user \in DOMAIN agg.talkers
    <3>1. agg.talkers[user].count \in Nat /\ agg.talkers[user].error \in Nat
      BY <2>2, <2>3 DEF Counter
    <3> QED BY <2>1, <2>2, <2>3, <3>1
  <2> QED BY <2>2, <2>3
<1>2. Least(agg.talkers, TalkerCapacity) * TalkerCapacity <= agg.total
  <2>1. IsTable(agg.talkers, TalkerCapacity) /\ IsFiniteSet(Slots(agg.talkers))
        /\ agg.total = Cardinality(Slots(agg.talkers))
    BY <1>0 DEF TalkersInv, Bounds
  <2> QED BY <1>0, <2>1, LeastIsAShare
<1>3. ASSUME NEW word \in Kept
      PROVE  IF word \in DOMAIN agg.words
             THEN /\ SaidWord(word) <= agg.words[word].count
                  /\ WordScores(agg.words, agg.sketch)[word]
                       <= SaidWord(word) + Max({agg.words[word].error, Collisions(word)})
             ELSE SaidWord(word) <= Least(agg.words, WordCapacity)
  <2> DEFINE times == SaidWord(word)
             estimate == Estimate(agg.sketch, word)
  <2>1. /\ IsSketch(agg.sketch)
        /\ Bounds(agg.words, WordCapacity, Kept, SaidWords, Estimates(agg.sketch), TRUE)
        /\ SaidWords[word] = times /\ Estimates(agg.sketch)[word] = estimate
    BY <1>0 DEF WordsInv, WordsBound, SaidWords, Estimates
  <2>2. times \in Nat /\ estimate \in Nat
    <3>1. IsFiniteSet(PlacesOf(word, said))
      BY <1>0 DEF WordsInv
    <3> QED BY <2>1, <3>1, FS_CardinalityType, EstimateIs DEF SaidWord
  <2>3. CASE word \in DOMAIN agg.words
    <3> DEFINE count == agg.words[word].count
               error == agg.words[word].error
    <3>1. count \in Nat /\ error \in Nat
      BY <2>1, <2>3 DEF Bounds, IsTable, Counter
    <3>2. times <= count /\ (count <= times + error \/ count <= estimate)
      BY <2>1, <2>3 DEF Bounds
    <3>3. WordScores(agg.words, agg.sketch)[word] = Max({count, estimate})
      BY <2>3 DEF WordScores
    <3>4. Collisions(word) = estimate - times
      BY DEF Collisions
    <3> HIDE DEF count, error, times, estimate
    <3>5. Max({count, estimate}) = IF count <= estimate THEN estimate ELSE count
      BY <2>2, <3>1, MaxOfTwo
    <3>6. Max({error, estimate - times}) >= error /\ Max({error, estimate - times}) >= estimate - times
          /\ Max({error, estimate - times}) \in Int
      <4>1. \E n \in {error, estimate - times} : \A x \in {error, estimate - times} : x <= n
        BY <2>2, <3>1
      <4>2. Max({error, estimate - times}) \in {error, estimate - times}
            /\ \A x \in {error, estimate - times} : x <= Max({error, estimate - times})
        BY <4>1 DEF Max
      <4> QED BY <2>2, <3>1, <4>2
    <3> DEFINE most == Max({error, estimate - times})
               score == Max({count, estimate})
    <3>7. most \in Int /\ most >= error /\ most >= estimate - times
          /\ score = IF count <= estimate THEN estimate ELSE count
      BY <3>5, <3>6
    <3> HIDE DEF most, score
    <3>8. score <= times + most
      BY <2>2, <3>1, <3>2, <3>7
    <3> QED BY <2>3, <3>2, <3>3, <3>4, <3>8 DEF most, score, times, estimate, count, error
  <2>4. CASE word \notin DOMAIN agg.words
    BY <2>1, <2>4 DEF Bounds
  <2> QED BY <2>3, <2>4
<1> QED BY <1>1, <1>2, <1>3 DEF HeavyHittersBounded, Users, Kept

(* However often keys are evicted, what a table tells of a key, and of the *)
(* keys it has forgotten, is off by its error at most; for any number of   *)
(* users and words, any capacities and any messages.                       *)
THEOREM HittersAreBounded == StatisticsSpec => []HeavyHittersBounded
<1>1. StatisticsInit => HitterInv
  <2> SUFFICES ASSUME StatisticsInit PROVE HitterInv
    OBVIOUS
  <2>1. crowd \in Crowds /\ said = <<>> /\ agg = Fresh
    BY DEF StatisticsInit
  <2>2. said \in Seq(crowd)
    BY <2>1
  <2> QED BY <2>1, <2>2, NothingSaid DEF HitterInv
<1> QED BY <1>1, HitterStep, HittersFollow, PTL DEF StatisticsSpec

-----------------------------------------------------------------------------
(* Rates.                                                                  *)

StretchOf(messages, i) == Cardinality({k \in Breaks(messages) : k <= i})

(* A number that is not below the others does not change their least one.  *)
LEMMA MinWithLarger ==
  ASSUME NEW T \in SUBSET Nat, T # {}, NEW n \in Nat, \A m \in T : m <= n
  PROVE  Min(T \union {n}) = Min(T)
<1>1. Min(T) \in T /\ Min(T) \in Nat /\ \A m \in T : Min(T) <= m
  BY MinIsLeast
<1>2. T \union {n} \in SUBSET Nat /\ T \union {n} # {}
  OBVIOUS
<1>3. /\ Min(T \union {n}) \in T \union {n} /\ Min(T \union {n}) \in Nat
      /\ \A m \in T \union {n} : Min(T \union {n}) <= m
  BY <1>2, MinIsLeast
<1> QED BY <1>1, <1>3

LEMMA MinOfOne ==
  ASSUME NEW n \in Nat
  PROVE  Min({n}) = n
<1>1. {n} \in SUBSET Nat /\ {n} # {}
  OBVIOUS
<1>2. Min({n}) \in {n}
  BY <1>1, MinIsLeast
<1> QED BY <1>2

(* What breaks there are up to a message.                                  *)
LEMMA StretchesOf ==
  ASSUME NEW messages, NEW L \in Nat, DOMAIN messages = 1..L
  PROVE  /\ Breaks(messages) \in SUBSET (1..L) /\ IsFiniteSet(Breaks(messages))
         /\ Cardinality(Breaks(messages)) \in Nat
         /\ \A i \in Nat : StretchOf(messages, i) \in Nat
                           /\ StretchOf(messages, i) <= Cardinality(Breaks(messages))
         /\ StretchOf(messages, L) = Cardinality(Breaks(messages))
<1>1. Breaks(messages) \in SUBSET (1..L)
  BY DEF Breaks
<1>2. IsFiniteSet(1..L)
  BY FS_Interval
<1>3. IsFiniteSet(Breaks(messages)) /\ Cardinality(Breaks(messages)) \in Nat
  BY <1>1, <1>2, FS_Subset, FS_CardinalityType
<1>4. ASSUME NEW i \in Nat
      PROVE  StretchOf(messages, i) \in Nat /\ StretchOf(messages, i) <= Cardinality(Breaks(messages))
  <2> DEFINE upto == {k \in Breaks(messages) : k <= i}
  <2>1. upto \in SUBSET Breaks(messages)
    OBVIOUS
  <2>2. IsFiniteSet(upto) /\ Cardinality(upto) <= Cardinality(Breaks(messages)) /\ Cardinality(upto) \in Nat
    <3> HIDE DEF upto
    <3> QED BY <1>3, <2>1, FS_Subset, FS_CardinalityType
  <2> QED BY <2>2 DEF StretchOf
<1>5. {k \in Breaks(messages) : k <= L} = Breaks(messages)
  BY <1>1
<1> QED BY <1>1, <1>3, <1>4, <1>5 DEF StretchOf

LEMMA StretchIs ==
  ASSUME NEW messages, NEW L \in Nat, DOMAIN messages = 1..L, NEW n
  PROVE  /\ Stretch(messages, n) = {i \in 1..L : StretchOf(messages, i) = n}
         /\ Stretch(messages, n) \in SUBSET Nat
         /\ IsFiniteSet(Stretch(messages, n)) /\ Cardinality(Stretch(messages, n)) \in Nat
<1>1. Stretch(messages, n) = {i \in 1..L : StretchOf(messages, i) = n}
  BY DEF Stretch, StretchOf
<1>2. Stretch(messages, n) \in SUBSET (1..L) /\ IsFiniteSet(1..L)
  BY <1>1, FS_Interval
<1>3. IsFiniteSet(Stretch(messages, n)) /\ Cardinality(Stretch(messages, n)) \in Nat
  BY <1>2, FS_Subset, FS_CardinalityType
<1> QED BY <1>1, <1>2, <1>3

(* Whether a message more opens a bucket.                                  *)
Opens(messages, m) ==
  messages = <<>> \/ BucketStart(m.time) # Bucket(messages, Len(messages))

LEMMA BreaksGrow ==
  ASSUME NEW S, NEW messages \in Seq(S), NEW m \in S
  PROVE  /\ Breaks(Append(messages, m)) =
              Breaks(messages) \union IF Opens(messages, m) THEN {Len(messages) + 1} ELSE {}
         /\ Cardinality(Breaks(Append(messages, m))) =
              Cardinality(Breaks(messages)) + IF Opens(messages, m) THEN 1 ELSE 0
         /\ \A i \in 1..Len(messages) :
              /\ Bucket(Append(messages, m), i) = Bucket(messages, i)
              /\ StretchOf(Append(messages, m), i) = StretchOf(messages, i)
         /\ Bucket(Append(messages, m), Len(messages) + 1) = BucketStart(m.time)
<1> DEFINE L == Len(messages)
           more == Append(messages, m)
<1>1. /\ L \in Nat /\ DOMAIN messages = 1..L /\ DOMAIN more = 1..(L + 1)
      /\ more[L + 1] = m /\ \A i \in 1..L : more[i] = messages[i]
      /\ messages = <<>> <=> L = 0
  OBVIOUS
<1> HIDE DEF L, more
<1>2. /\ \A i \in 1..L : Bucket(more, i) = Bucket(messages, i)
      /\ Bucket(more, L + 1) = BucketStart(m.time)
  BY <1>1 DEF Bucket
<1>3. Breaks(more) = Breaks(messages) \union IF Opens(messages, m) THEN {L + 1} ELSE {}
  <2>1. ASSUME NEW i \in 1..L PROVE i \in Breaks(more) <=> i \in Breaks(messages)
    <3>1. i # 1 => i - 1 \in 1..L
      BY <1>1
    <3> QED BY <1>1, <1>2, <3>1 DEF Breaks
  <2>2. L + 1 \in Breaks(more) <=> Opens(messages, m)
    <3>1. L # 0 => L \in 1..L /\ L + 1 # 1 /\ (L + 1) - 1 = L
      BY <1>1
    <3>2. L + 1 \in Breaks(more) <=> (L + 1 = 1 \/ Bucket(more, L + 1) # Bucket(more, (L + 1) - 1))
      BY <1>1 DEF Breaks
    <3> QED BY <1>1, <1>2, <3>1, <3>2 DEF Opens, L
  <2>3. Breaks(more) \in SUBSET (1..(L + 1)) /\ Breaks(messages) \in SUBSET (1..L)
    BY <1>1 DEF Breaks
  <2> QED BY <1>1, <2>1, <2>2, <2>3
<1>4. IsFiniteSet(Breaks(messages)) /\ L + 1 \notin Breaks(messages) /\ Cardinality(Breaks(messages)) \in Nat
  <2>1. /\ Breaks(messages) \in SUBSET (1..L) /\ IsFiniteSet(Breaks(messages))
        /\ Cardinality(Breaks(messages)) \in Nat
    BY <1>1, StretchesOf
  <2> QED BY <1>1, <2>1
<1>5. Cardinality(Breaks(more)) = Cardinality(Breaks(messages)) + IF Opens(messages, m) THEN 1 ELSE 0
  <2>1. Cardinality(Breaks(messages) \union {L + 1}) = Cardinality(Breaks(messages)) + 1
    BY <1>4, FS_AddElement
  <2>2. CASE Opens(messages, m)
    BY <1>3, <2>1, <2>2
  <2>3. CASE ~Opens(messages, m)
    BY <1>3, <1>4, <2>3
  <2> QED BY <2>2, <2>3
<1>6. ASSUME NEW i \in 1..L PROVE StretchOf(more, i) = StretchOf(messages, i)
  <2>1. {k \in Breaks(more) : k <= i} = {k \in Breaks(messages) : k <= i}
    BY <1>1, <1>3
  <2> QED BY <2>1 DEF StretchOf
<1> QED BY <1>2, <1>3, <1>5, <1>6 DEF L, more

(* No stretch is empty.                                                    *)
Full(messages) == \A n \in 1..Cardinality(Breaks(messages)) : Stretch(messages, n) # {}

(* A message more lengthens the last bucket of the series, or opens one.   *)
LEMMA SeriesGrows ==
  ASSUME NEW S, NEW messages \in Seq(S), NEW m \in S, Full(messages)
  PROVE  /\ Full(Append(messages, m))
         /\ Len(Series(messages)) = Cardinality(Breaks(messages)) /\ Len(Series(messages)) \in Nat
         /\ Opens(messages, m) =>
              /\ Len(Series(Append(messages, m))) = Len(Series(messages)) + 1
              /\ \A n \in 1..Len(Series(messages)) :
                   Series(Append(messages, m))[n] = Series(messages)[n]
              /\ Series(Append(messages, m))[Len(Series(messages)) + 1] =
                   [start |-> BucketStart(m.time), count |-> 1]
         /\ ~Opens(messages, m) =>
              /\ Len(Series(Append(messages, m))) = Len(Series(messages)) /\ Len(Series(messages)) # 0
              /\ \A n \in 1..Len(Series(messages)) - 1 :
                   Series(Append(messages, m))[n] = Series(messages)[n]
              /\ Series(Append(messages, m))[Len(Series(messages))] =
                   [start |-> Series(messages)[Len(Series(messages))].start,
                    count |-> Series(messages)[Len(Series(messages))].count + 1]
<1> DEFINE L == Len(messages)
           more == Append(messages, m)
           N == Cardinality(Breaks(messages))
           M == Cardinality(Breaks(more))
<1>1. L \in Nat /\ DOMAIN messages = 1..L /\ DOMAIN more = 1..(L + 1) /\ L + 1 \in Nat
      /\ (messages = <<>> <=> L = 0)
  OBVIOUS
<1>2. /\ N \in Nat /\ \A i \in Nat : StretchOf(messages, i) \in Nat /\ StretchOf(messages, i) <= N
      /\ StretchOf(messages, L) = N
  BY <1>1, StretchesOf
<1>3. M \in Nat /\ StretchOf(more, L + 1) = M
  BY <1>1, StretchesOf
<1>4. /\ M = N + IF Opens(messages, m) THEN 1 ELSE 0
      /\ \A i \in 1..L : Bucket(more, i) = Bucket(messages, i) /\ StretchOf(more, i) = StretchOf(messages, i)
      /\ Bucket(more, L + 1) = BucketStart(m.time)
  BY BreaksGrow
<1>5. /\ Len(Series(messages)) = N /\ Len(Series(more)) = M
      /\ \A n \in 1..N : Series(messages)[n] = [start |-> Bucket(messages, Min(Stretch(messages, n))),
                                               count |-> Cardinality(Stretch(messages, n))]
      /\ \A n \in 1..M : Series(more)[n] = [start |-> Bucket(more, Min(Stretch(more, n))),
                                           count |-> Cardinality(Stretch(more, n))]
  BY <1>2, <1>3 DEF Series
<1> HIDE DEF L, more, N, M
<1>6. ASSUME NEW n PROVE /\ Stretch(messages, n) = {i \in 1..L : StretchOf(messages, i) = n}
                         /\ Stretch(messages, n) \in SUBSET Nat
                         /\ IsFiniteSet(Stretch(messages, n)) /\ Cardinality(Stretch(messages, n)) \in Nat
  BY <1>1, StretchIs
<1>7. ASSUME NEW n PROVE Stretch(more, n) = {i \in 1..(L + 1) : StretchOf(more, i) = n}
  BY <1>1, StretchIs
(* The stretches but that of the new message are as they were.             *)
<1>8. ASSUME NEW n, n # M PROVE Stretch(more, n) = Stretch(messages, n)
  <2>1. L + 1 \notin Stretch(more, n)
    BY <1>3, <1>7, <1>8
  <2>2. \A i \in 1..L : i \in Stretch(more, n) <=> i \in Stretch(messages, n)
    BY <1>1, <1>4, <1>6, <1>7
  <2>3. /\ \A i \in Stretch(more, n) : i \in 1..(L + 1)
        /\ \A i \in Stretch(messages, n) : i \in 1..L
    BY <1>6, <1>7
  <2>4. \A i \in 1..(L + 1) : i \in 1..L \/ i = L + 1
    BY <1>1
  <2>5. \A i : i \in Stretch(more, n) <=> i \in Stretch(messages, n)
    BY <2>1, <2>2, <2>3, <2>4
  <2> QED BY <2>5, Zenon
<1>9. ASSUME NEW n \in 1..N
      PROVE  /\ Stretch(messages, n) # {} /\ Min(Stretch(messages, n)) \in 1..L
             /\ \A i \in Stretch(messages, n) : i <= L + 1
  <2>1. Stretch(messages, n) # {}
    BY DEF Full, N
  <2>2. Min(Stretch(messages, n)) \in Stretch(messages, n)
    BY <1>6, <2>1, MinIsLeast
  <2> QED BY <1>1, <1>6, <2>1, <2>2
<1>10. ASSUME NEW n \in 1..N, n # M PROVE Series(more)[n] = Series(messages)[n]
  <2>1. n \in 1..M
    BY <1>2, <1>3, <1>4
  <2>2. Stretch(more, n) = Stretch(messages, n)
    BY <1>8, <1>10
  <2>3. Bucket(more, Min(Stretch(messages, n))) = Bucket(messages, Min(Stretch(messages, n)))
    BY <1>4, <1>9
  <2> QED BY <1>5, <2>1, <2>2, <2>3
<1>11. L + 1 \in Stretch(more, M)
  BY <1>1, <1>3, <1>7
<1>12. Full(more)
  <2> SUFFICES ASSUME NEW n \in 1..M, n # M PROVE Stretch(more, n) # {}
    BY <1>11 DEF Full, M
  <2>1. n \in 1..N
    BY <1>2, <1>3, <1>4
  <2> QED BY <1>8, <1>9, <2>1
<1>13. ASSUME Opens(messages, m)
       PROVE  /\ M = N + 1 /\ \A n \in 1..N : Series(more)[n] = Series(messages)[n]
              /\ Series(more)[M] = [start |-> BucketStart(m.time), count |-> 1]
  <2>1. M = N + 1 /\ M \in 1..M
    BY <1>2, <1>4, <1>13
  <2>2. Stretch(more, M) = {L + 1}
    <3>1. \A i \in 1..L : i \notin Stretch(more, M)
      BY <1>1, <1>2, <1>4, <1>7, <2>1
    <3> QED BY <1>1, <1>7, <1>11, <3>1
  <2>3. Min({L + 1}) = L + 1 /\ Cardinality({L + 1}) = 1
    BY <1>1, MinOfOne, FS_Singleton
  <2>4. Series(more)[M] = [start |-> BucketStart(m.time), count |-> 1]
    BY <1>4, <1>5, <2>1, <2>2, <2>3
  <2> QED BY <1>2, <1>10, <2>1, <2>4
<1>14. ASSUME ~Opens(messages, m)
       PROVE  /\ M = N /\ N # 0 /\ \A n \in 1..(N - 1) : Series(more)[n] = Series(messages)[n]
              /\ Series(more)[N] = [start |-> Series(messages)[N].start,
                                    count |-> Series(messages)[N].count + 1]
  <2>1. M = N /\ L # 0
    BY <1>1, <1>2, <1>4, <1>14 DEF Opens
  <2>2. N # 0
    <3>1. 1 \in Breaks(messages)
      BY <1>1, <2>1 DEF Breaks
    <3>2. IsFiniteSet(Breaks(messages))
      BY <1>1, StretchesOf
    <3> QED BY <3>1, <3>2, FS_EmptySet DEF N
  <2>3. N \in 1..N /\ N \in 1..M
    BY <1>2, <2>1, <2>2
  <2>4. Stretch(more, N) = Stretch(messages, N) \union {L + 1}
    <3>1. \A i \in 1..L : i \in Stretch(more, N) <=> i \in Stretch(messages, N)
      BY <1>1, <1>4, <1>6, <1>7
    <3>2. /\ \A i \in Stretch(more, N) : i \in 1..(L + 1)
          /\ \A i \in Stretch(messages, N) : i \in 1..L
      BY <1>6, <1>7
    <3>3. \A i \in 1..(L + 1) : i \in 1..L \/ i = L + 1
      BY <1>1
    <3>4. \A i : i \in Stretch(more, N) <=> i \in Stretch(messages, N) \union {L + 1}
      BY <1>11, <2>1, <3>1, <3>2, <3>3
    <3> QED BY <3>4, Zenon
  <2>5. Min(Stretch(messages, N) \union {L + 1}) = Min(Stretch(messages, N))
    BY <1>1, <1>6, <1>9, <2>3, MinWithLarger
  <2>6. L + 1 \notin Stretch(messages, N)
    BY <1>1, <1>6
  <2>7. Cardinality(Stretch(messages, N) \union {L + 1}) = Cardinality(Stretch(messages, N)) + 1
    BY <1>6, <2>6, FS_AddElement
  <2>8. Bucket(more, Min(Stretch(messages, N))) = Bucket(messages, Min(Stretch(messages, N)))
    BY <1>4, <1>9, <2>3
  <2>9. Series(more)[N] = [start |-> Bucket(messages, Min(Stretch(messages, N))),
                           count |-> Cardinality(Stretch(messages, N)) + 1]
    BY <1>5, <2>3, <2>4, <2>5, <2>7, <2>8
  <2>10. Series(messages)[N] = [start |-> Bucket(messages, Min(Stretch(messages, N))),
                                count |-> Cardinality(Stretch(messages, N))]
    BY <1>5, <2>3
  <2>11. \A n \in 1..(N - 1) : n \in 1..N /\ n # M
    BY <1>2, <2>1
  <2> QED BY <1>10, <2>1, <2>2, <2>9, <2>10, <2>11
<1> DEFINE now == Series(messages)
           then == Series(more)
<1> HIDE DEF now, then
<1>15. Len(now) = N /\ Len(then) = M
  BY <1>5 DEF now, then
<1>16. Opens(messages, m) =>
         /\ Len(then) = Len(now) + 1 /\ \A n \in 1..Len(now) : then[n] = now[n]
         /\ then[Len(now) + 1] = [start |-> BucketStart(m.time), count |-> 1]
  BY <1>13, <1>15 DEF now, then
<1>17. ~Opens(messages, m) =>
         /\ Len(then) = Len(now) /\ Len(now) # 0 /\ \A n \in 1..(Len(now) - 1) : then[n] = now[n]
         /\ then[Len(now)] = [start |-> now[Len(now)].start, count |-> now[Len(now)].count + 1]
  BY <1>14, <1>15 DEF now, then
<1> QED BY <1>2, <1>5, <1>12, <1>16, <1>17 DEF N, more, now, then

Points == [start : Int, count : Nat]

(* What is kept of the first n points of a series: the last of them.       *)
KeptOf(rate, series, n) ==
  /\ rate \in Seq(Points)
  /\ Len(rate) = IF n <= MaxRatePoints THEN n ELSE MaxRatePoints
  /\ \A j \in 1..Len(rate) : rate[j] = series[(n - Len(rate)) + j]

SeriesInv(messages) == Full(messages) /\ Series(messages) \in Seq(Points)

(* The bucket that is open is the last of the series, the rate what is     *)
(* kept of the others.                                                     *)
RateInv(a, messages) ==
  /\ a.total = Len(messages) /\ a.chat \in Nat /\ a.gift \in Nat /\ a.total = a.chat + a.gift
  /\ messages = <<>> => a.bucket = Nobody /\ a.rate = <<>>
  /\ messages # <<>> =>
       /\ a.bucket \in Points /\ a.bucket.count # 0 /\ a.bucket.start = Bucket(messages, Len(messages))
       /\ Len(Series(messages)) # 0 /\ a.bucket = Series(messages)[Len(Series(messages))]
       /\ KeptOf(a.rate, Series(messages), Len(Series(messages)) - 1)

ReportsInv ==
  /\ reports \in Seq(Range(reports))
  /\ \A i \in DOMAIN reports :
       Accounts(reports[i].stats, reports[i].of) /\ reports[i].stats.total \in Nat
  /\ IsFiniteSet(Told)

AccountInv ==
  /\ crowd \in Crowds /\ said \in Seq(crowd) /\ IsAggregator(agg)
  /\ SeriesInv(said) /\ RateInv(agg, said) /\ ReportsInv
  /\ spoken = agg.total + Cardinality(Told)

LEMMA SeriesKept ==
  ASSUME NEW S, NEW messages \in Seq(S), NEW m \in S, m.time \in Nat, SeriesInv(messages)
  PROVE  SeriesInv(Append(messages, m))
<1> DEFINE now == Series(messages)
           then == Series(Append(messages, m))
<1>1. BucketStart(m.time) \in Int
  <2>1. m.time \div BucketSecs \in Int /\ BucketSecs \in Int
    BY StatisticsAssumption
  <2> QED BY <2>1 DEF BucketStart
<1>2. /\ Full(Append(messages, m)) /\ now \in Seq(Points) /\ Len(now) \in Nat
      /\ IF Opens(messages, m)
         THEN /\ Len(then) = Len(now) + 1 /\ \A n \in 1..Len(now) : then[n] = now[n]
              /\ then[Len(now) + 1] = [start |-> BucketStart(m.time), count |-> 1]
         ELSE /\ Len(then) = Len(now) /\ Len(now) # 0 /\ \A n \in 1..Len(now) - 1 : then[n] = now[n]
              /\ then[Len(now)] = [start |-> now[Len(now)].start, count |-> now[Len(now)].count + 1]
  BY SeriesGrows DEF SeriesInv
<1>3. Len(then) \in Nat /\ then = [n \in 1..Len(then) |-> then[n]]
  <2> DEFINE more == Append(messages, m)
  <2>1. DOMAIN more = 1..(Len(messages) + 1) /\ Len(messages) + 1 \in Nat
    OBVIOUS
  <2> HIDE DEF more
  <2>2. Cardinality(Breaks(more)) \in Nat
    BY <2>1, StretchesOf
  <2> QED BY <2>2 DEF Series, more
<1> HIDE DEF now, then
<1>4. ASSUME NEW n \in 1..Len(then) PROVE then[n] \in Points
  <2>1. \A k \in 1..Len(now) : now[k] \in Points
    BY <1>2
  <2>2. CASE Opens(messages, m)
    <3>1. CASE n = Len(now) + 1
      BY <1>1, <1>2, <2>2, <3>1 DEF Points
    <3>2. CASE n # Len(now) + 1
      <4>1. n \in 1..Len(now)
        BY <1>2, <2>2, <3>2
      <4> QED BY <1>2, <2>1, <2>2, <4>1
    <3> QED BY <3>1, <3>2
  <2>3. CASE ~Opens(messages, m)
    <3>1. Len(now) \in 1..Len(now) /\ now[Len(now)] \in Points
      BY <1>2, <2>1, <2>3
    <3>2. CASE n = Len(now)
      BY <1>2, <2>3, <3>1, <3>2 DEF Points
    <3>3. CASE n # Len(now)
      BY <1>2, <2>1, <2>3, <3>3
    <3> QED BY <3>2, <3>3
  <2> QED BY <2>2, <2>3
<1>5. then \in Seq(Points)
  BY <1>3, <1>4
<1> QED BY <1>2, <1>5 DEF SeriesInv, then

LEMMA KeptPushed ==
  ASSUME NEW series, NEW n \in Nat, NEW rate, KeptOf(rate, series, n),
         NEW point \in Points, point = series[n + 1]
  PROVE  KeptOf(Pushed(rate, point), series, n + 1)
<1> DEFINE points == Append(rate, point)
           K == Len(rate)
<1>1. MaxRatePoints \in Nat \ {0}
  BY StatisticsAssumption
<1>2. /\ rate \in Seq(Points) /\ K \in Nat /\ K = IF n <= MaxRatePoints THEN n ELSE MaxRatePoints
      /\ \A j \in 1..K : rate[j] = series[(n - K) + j]
  BY DEF KeptOf
<1>3. /\ points \in Seq(Points) /\ Len(points) = K + 1
      /\ points[K + 1] = point /\ \A j \in 1..K : points[j] = rate[j]
  BY <1>2
<1>4. ASSUME NEW j \in 1..(K + 1) PROVE points[j] = series[(n - K) + j]
  <2>1. CASE j = K + 1
    <3>1. (n - K) + (K + 1) = n + 1
      BY <1>2
    <3> QED BY <1>3, <2>1, <3>1
  <2>2. CASE j # K + 1
    <3>1. j \in 1..K
      BY <1>2, <2>2
    <3> QED BY <1>2, <1>3, <3>1
  <2> QED BY <2>1, <2>2
<1> HIDE DEF points
<1>5. CASE K + 1 <= MaxRatePoints
  <2>1. Pushed(rate, point) = points
    BY <1>1, <1>2, <1>3, <1>5 DEF Pushed, points
  <2>2. K = n /\ Len(points) = n + 1
    BY <1>1, <1>2, <1>3, <1>5
  <2>3. \A j \in 1..Len(points) : points[j] = series[((n + 1) - Len(points)) + j]
    BY <1>3, <1>4, <2>2
  <2> QED BY <1>1, <1>2, <1>3, <1>5, <2>1, <2>2, <2>3 DEF KeptOf
<1>6. CASE ~(K + 1 <= MaxRatePoints)
  <2>1. K = MaxRatePoints /\ ~(n + 1 <= MaxRatePoints) /\ (K + 1) - MaxRatePoints + 1 = 2
    BY <1>1, <1>2, <1>6
  <2> DEFINE last == SubSeq(points, 2, K + 1)
  <2>2. Pushed(rate, point) = last
    BY <1>1, <1>2, <1>3, <1>6, <2>1 DEF Pushed, LastOf, points
  <2>3. last \in Seq(Points) /\ Len(last) = K /\ \A j \in 1..K : last[j] = points[j + 1]
    BY <1>2, <1>3
  <2> HIDE DEF last
  <2>4. ASSUME NEW j \in 1..K PROVE last[j] = series[((n + 1) - K) + j]
    <3>1. j + 1 \in 1..(K + 1) /\ (n - K) + (j + 1) = ((n + 1) - K) + j
      BY <1>2
    <3> QED BY <1>4, <2>3, <3>1
  <2> QED BY <2>1, <2>2, <2>3, <2>4 DEF KeptOf
<1> QED BY <1>5, <1>6

(* What a message makes of the counts and of the rate.                     *)
LEMMA RateRecordedIs ==
  ASSUME NEW a, IsAggregator(a), NEW m, NEW a1 \in Recorded(a, m)
  PROVE  /\ a1.total = a.total + 1
         /\ a1.gift = IF m.gift THEN a.gift + 1 ELSE a.gift
         /\ a1.chat = IF m.gift THEN a.chat ELSE a.chat + 1
         /\ IF a.bucket.start = BucketStart(m.time)
            THEN a1.rate = a.rate /\ a1.bucket = [a.bucket EXCEPT !.count = a.bucket.count + 1]
            ELSE /\ a1.rate = IF a.bucket = Nobody THEN a.rate ELSE Pushed(a.rate, a.bucket)
                 /\ a1.bucket = [start |-> BucketStart(m.time), count |-> 1]
<1> DEFINE pairs == IF m.gift THEN {WordsOf(a)} ELSE ProcessWords(WordsOf(a), m.text)
<1>1. PICK talkers \in TalkerIncremented(a.talkers, TalkerCapacity, m.user), pair \in pairs :
        a1 = RateUpdated(Counted(a, m, talkers, pair), m.time)
  <2> HIDE DEF pairs
  <2>1. Recorded(a, m) = {RateUpdated(Counted(a, m, talkers, pair), m.time) :
                            talkers \in TalkerIncremented(a.talkers, TalkerCapacity, m.user),
                            pair \in pairs}
    BY DEF Recorded, pairs
  <2> QED BY <2>1
<1> DEFINE b == Counted(a, m, talkers, pair)
           more == IF m.gift THEN a.gift + 1 ELSE a.gift
           others == IF m.gift THEN a.chat ELSE a.chat + 1
<1>2. /\ IsAggregator(b) /\ b.total = a.total + 1 /\ b.rate = a.rate /\ b.bucket = a.bucket
      /\ b.gift = more /\ b.chat = others
  <2>1. PICK start, total, gift, chat :
          /\ total = a.total + 1 /\ gift = more /\ chat = others
          /\ b = [a EXCEPT !.start = start, !.total = total, !.gift = gift, !.chat = chat,
                          !.talkers = talkers, !.words = pair.table, !.sketch = pair.sketch]
    BY DEF Counted
  <2> HIDE DEF b, more, others
  <2> QED BY <2>1 DEF IsAggregator
<1> HIDE DEF b, more, others
<1>3. a1 = RateUpdated(b, m.time)
  BY <1>1 DEF b
<1>4. CASE a.bucket.start = BucketStart(m.time)
  <2>1. a1 = [b EXCEPT !.bucket.count = @ + 1]
    BY <1>2, <1>3, <1>4 DEF RateUpdated
  <2>2. PICK n : n = a.bucket.count + 1
    OBVIOUS
  <2>3. a1 = [b EXCEPT !.bucket = [a.bucket EXCEPT !.count = n]]
    BY <1>2, <2>1, <2>2
  <2> QED BY <1>2, <1>4, <2>2, <2>3 DEF IsAggregator, more, others
<1>5. CASE a.bucket.start # BucketStart(m.time)
  <2> DEFINE pushed == IF a.bucket = Nobody THEN a.rate ELSE Pushed(a.rate, a.bucket)
             point == [start |-> BucketStart(m.time), count |-> 1]
  <2>1. a1 = [b EXCEPT !.rate = pushed, !.bucket = point]
    BY <1>2, <1>3, <1>5 DEF RateUpdated
  <2> HIDE DEF pushed, point
  <2>2. a1.rate = pushed /\ a1.bucket = point /\ a1.total = b.total /\ a1.gift = b.gift /\ a1.chat = b.chat
    BY <1>2, <2>1 DEF IsAggregator
  <2> QED BY <1>2, <1>5, <2>2 DEF more, others, pushed, point
<1> QED BY <1>4, <1>5

LEMMA SeriesOfNothing == SeriesInv(<<>>) /\ Series(<<>>) = <<>>
<1>1. Breaks(<<>>) = {} /\ Cardinality({}) = 0
  BY FS_EmptySet DEF Breaks
<1>2. Cardinality(Breaks(<<>>)) = 0
  BY <1>1
<1>3. Full(<<>>)
  BY <1>2 DEF Full
<1>4. Series(<<>>) = <<>>
  BY <1>2 DEF Series
<1>5. <<>> \in Seq(Points)
  OBVIOUS
<1> QED BY <1>3, <1>4, <1>5 DEF SeriesInv

(* A message more.                                                         *)
LEMMA RateFollows ==
  ASSUME NEW S, NEW messages \in Seq(S), NEW m \in S, m.time \in Nat, m.gift \in BOOLEAN,
         NEW a, IsAggregator(a), SeriesInv(messages), RateInv(a, messages), NEW a1 \in Recorded(a, m)
  PROVE  RateInv(a1, Append(messages, m))
<1> DEFINE more == Append(messages, m)
           now == Series(messages)
           then == Series(more)
           start == BucketStart(m.time)
<1>1. start \in Int /\ Never \notin Int
  <2>1. m.time \div BucketSecs \in Int /\ BucketSecs \in Int
    BY StatisticsAssumption
  <2> QED BY <2>1, StatisticsAssumption DEF BucketStart
<1>2. /\ a1.total = a.total + 1
      /\ a1.gift = IF m.gift THEN a.gift + 1 ELSE a.gift
      /\ a1.chat = IF m.gift THEN a.chat ELSE a.chat + 1
      /\ IF a.bucket.start = start
         THEN a1.rate = a.rate /\ a1.bucket = [a.bucket EXCEPT !.count = a.bucket.count + 1]
         ELSE /\ a1.rate = IF a.bucket = Nobody THEN a.rate ELSE Pushed(a.rate, a.bucket)
              /\ a1.bucket = [start |-> start, count |-> 1]
  BY RateRecordedIs
<1>3. /\ now \in Seq(Points) /\ Len(now) \in Nat
      /\ IF Opens(messages, m)
         THEN /\ Len(then) = Len(now) + 1 /\ \A n \in 1..Len(now) : then[n] = now[n]
              /\ then[Len(now) + 1] = [start |-> start, count |-> 1]
         ELSE /\ Len(then) = Len(now) /\ Len(now) # 0 /\ \A n \in 1..Len(now) - 1 : then[n] = now[n]
              /\ then[Len(now)] = [start |-> now[Len(now)].start, count |-> now[Len(now)].count + 1]
  BY SeriesGrows DEF SeriesInv
<1>4. /\ more # <<>> /\ Len(more) = Len(messages) + 1 /\ Len(messages) \in Nat
      /\ Bucket(more, Len(more)) = start
  <2>1. Bucket(more, Len(messages) + 1) = start
    BY BreaksGrow
  <2> QED BY <2>1
<1>5. Opens(messages, m) <=> a.bucket.start # start
  <2>1. CASE messages = <<>>
    BY <1>1, <2>1 DEF RateInv, Nobody, Opens
  <2>2. CASE messages # <<>>
    BY <2>2 DEF RateInv, Opens
  <2> QED BY <2>1, <2>2
<1>6. /\ a1.total = Len(more) /\ a1.chat \in Nat /\ a1.gift \in Nat /\ a1.total = a1.chat + a1.gift
  <2>1. a.total = Len(messages) /\ a.chat \in Nat /\ a.gift \in Nat /\ a.total = a.chat + a.gift
    BY DEF RateInv
  <2>2. a1.total = a.total + 1 /\ Len(more) = Len(messages) + 1
    BY <1>2, <1>4
  <2>3. \/ a1.gift = a.gift + 1 /\ a1.chat = a.chat
        \/ a1.gift = a.gift /\ a1.chat = a.chat + 1
    BY <1>2, Zenon
  <2>4. \A c, g \in Nat : (c + g) + 1 = c + (g + 1) /\ (c + g) + 1 = (c + 1) + g /\ c + 1 \in Nat
    OBVIOUS
  <2> HIDE DEF more
  <2>5. a1.total = Len(more)
    BY <2>1, <2>2, Zenon
  <2>6. a1.total = (a.chat + a.gift) + 1
    BY <2>1, <2>2, Zenon
  <2>7. a1.chat \in Nat /\ a1.gift \in Nat /\ a1.total = a1.chat + a1.gift
    BY <2>1, <2>3, <2>4, <2>6
  <2> QED BY <2>5, <2>7
<1>7. ASSUME messages # <<>>
      PROVE  /\ a.bucket \in Points /\ a.bucket.count # 0 /\ a.bucket # Nobody
             /\ Len(now) # 0 /\ a.bucket = now[Len(now)] /\ KeptOf(a.rate, now, Len(now) - 1)
  BY <1>7 DEF RateInv, Nobody
<1>8. ASSUME messages = <<>>
      PROVE  a.bucket = Nobody /\ a.rate = <<>> /\ Len(now) = 0
  <2>1. Len(Series(<<>>)) = 0
    BY SeriesOfNothing
  <2> QED BY <1>8, <2>1 DEF RateInv
<1> HIDE DEF more, now, then, start
<1>9. CASE ~Opens(messages, m)
  <2>1. messages # <<>>
    BY <1>9 DEF Opens
  <2>2. Len(then) = Len(now) /\ Len(then) # 0 /\ a1.rate = a.rate
        /\ a.bucket.start = start /\ a1.bucket = [a.bucket EXCEPT !.count = a.bucket.count + 1]
    BY <1>2, <1>3, <1>5, <1>9
  <2>3. PICK point : point = a.bucket
    OBVIOUS
  <2>4. point \in Points /\ point = now[Len(now)] /\ point.start = start
        /\ a1.bucket = [point EXCEPT !.count = point.count + 1]
    BY <1>7, <2>1, <2>2, <2>3
  <2>5. then[Len(then)] = [start |-> point.start, count |-> point.count + 1]
    BY <1>3, <1>9, <2>2, <2>4
  <2>6. /\ a1.bucket \in Points /\ a1.bucket.count # 0 /\ a1.bucket.start = start
        /\ a1.bucket = then[Len(then)]
    BY <2>4, <2>5 DEF Points
  <2>7. KeptOf(a1.rate, then, Len(then) - 1)
    <3>1. KeptOf(a.rate, now, Len(now) - 1)
      BY <1>7, <2>1
    <3>2. PICK n \in Nat : n = Len(now) - 1
      <4>1. Len(now) \in Nat /\ Len(now) # 0
        BY <1>3, <1>9
      <4>2. Len(now) - 1 \in Nat
        BY <4>1
      <4> QED BY <4>2, Zenon
    <3>3. \A k \in 1..n : then[k] = now[k]
      BY <1>3, <1>9, <3>2
    <3>4. \A j \in 1..Len(a.rate) : (n - Len(a.rate)) + j \in 1..n
      BY <3>1, <3>2, StatisticsAssumption DEF KeptOf
    <3>5. KeptOf(a.rate, then, n)
      BY <3>1, <3>2, <3>3, <3>4 DEF KeptOf
    <3> QED BY <2>2, <3>2, <3>5
  <2> QED BY <1>4, <1>6, <2>2, <2>6, <2>7 DEF RateInv, more, then
<1>10. CASE Opens(messages, m)
  <2>1. /\ Len(then) = Len(now) + 1 /\ a1.bucket = [start |-> start, count |-> 1]
        /\ a1.rate = IF a.bucket = Nobody THEN a.rate ELSE Pushed(a.rate, a.bucket)
        /\ then[Len(then)] = [start |-> start, count |-> 1]
        /\ \A n \in 1..Len(now) : then[n] = now[n]
    BY <1>2, <1>3, <1>5, <1>10
  <2>2. KeptOf(a1.rate, then, Len(now))
    <3>1. CASE messages = <<>>
      <4>1. a1.rate = <<>> /\ Len(now) = 0 /\ MaxRatePoints \in Nat \ {0}
        BY <1>8, <2>1, <3>1, StatisticsAssumption
      <4> QED BY <4>1 DEF KeptOf
    <3>2. CASE messages # <<>>
      <4>1. a1.rate = Pushed(a.rate, a.bucket)
        BY <1>7, <2>1, <3>2
      <4>2. PICK n \in Nat : n = Len(now) - 1 /\ Len(now) = n + 1
        <5>1. Len(now) \in Nat /\ Len(now) # 0
          BY <1>3, <1>7, <3>2
        <5>2. Len(now) - 1 \in Nat /\ Len(now) = (Len(now) - 1) + 1
          BY <5>1
        <5> QED BY <5>2, Zenon
      <4>3. a.bucket \in Points /\ a.bucket = then[n + 1]
        BY <1>3, <1>7, <2>1, <3>2, <4>2
      <4>4. KeptOf(a.rate, now, n)
        BY <1>7, <3>2, <4>2
      <4>5. \A j \in 1..Len(a.rate) : (n - Len(a.rate)) + j \in 1..n
        BY <4>4, StatisticsAssumption DEF KeptOf
      <4>6. KeptOf(a.rate, then, n)
        <5>1. \A k \in 1..n : then[k] = now[k]
          BY <2>1, <4>2
        <5> QED BY <4>4, <4>5, <5>1 DEF KeptOf
      <4>7. KeptOf(Pushed(a.rate, a.bucket), then, n + 1)
        BY <4>3, <4>6, KeptPushed
      <4> QED BY <4>1, <4>2, <4>7
    <3> QED BY <3>1, <3>2
  <2>3. a1.bucket \in Points /\ a1.bucket.count # 0 /\ a1.bucket.start = start /\ a1.bucket = then[Len(then)]
    BY <1>1, <2>1 DEF Points
  <2>4. Len(then) # 0 /\ Len(then) - 1 = Len(now)
    BY <1>3, <2>1
  <2> QED BY <1>4, <1>6, <2>2, <2>3, <2>4 DEF RateInv, more, then
<1> QED BY <1>9, <1>10

(* The rate with the bucket that is open.                                  *)
LEMMA RatesFollow ==
  ASSUME NEW messages, NEW S, messages \in Seq(S), NEW a, SeriesInv(messages), RateInv(a, messages),
         NEW rates, rates = IF a.bucket = Nobody THEN a.rate ELSE Append(a.rate, a.bucket)
  PROVE  rates = LastOf(Series(messages), Min({Len(Series(messages)), MaxRatePoints + 1}))
<1> DEFINE series == Series(messages)
           N == Len(series)
           K == IF N <= MaxRatePoints + 1 THEN N ELSE MaxRatePoints + 1
<1>0. MaxRatePoints \in Nat \ {0} /\ series \in Seq(Points) /\ N \in Nat
  BY StatisticsAssumption DEF SeriesInv
<1>1. Min({N, MaxRatePoints + 1}) = K
  <2>1. \A x, y \in Int : Min({x, y}) = IF x <= y THEN x ELSE y
    <3> SUFFICES ASSUME NEW x \in Int, NEW y \in Int PROVE Min({x, y}) = IF x <= y THEN x ELSE y
      OBVIOUS
    <3>1. \E n \in {x, y} : \A k \in {x, y} : n <= k
      OBVIOUS
    <3>2. Min({x, y}) \in {x, y} /\ \A k \in {x, y} : Min({x, y}) <= k
      BY <3>1 DEF Min
    <3> QED BY <3>2
  <2> HIDE DEF N
  <2> QED BY <1>0, <2>1
<1>2. LastOf(series, K) = SubSeq(series, N - K + 1, N)
  BY DEF LastOf
<1>3. CASE messages = <<>>
  <2>1. series = <<>> /\ N = 0
    BY <1>3, SeriesOfNothing
  <2>2. K = 0
    BY <1>0, <2>1
  <2>3. rates = <<>>
    BY <1>3 DEF RateInv
  <2> HIDE DEF series, N, K
  <2>4. SubSeq(<<>>, 0 - 0 + 1, 0) = <<>>
    OBVIOUS
  <2> QED BY <1>1, <1>2, <2>1, <2>2, <2>3, <2>4 DEF series, N
<1>4. CASE messages # <<>>
  <2>1. /\ a.bucket \in Points /\ a.bucket # Nobody /\ N # 0 /\ a.bucket = series[N]
        /\ KeptOf(a.rate, series, N - 1)
    BY <1>4 DEF RateInv, Nobody
  <2> HIDE DEF series
  <2>2. /\ a.rate \in Seq(Points) /\ Len(a.rate) = K - 1 /\ K \in 1..N /\ K \in Nat
        /\ \A j \in 1..(K - 1) : a.rate[j] = series[(N - K) + j]
    <3>1. Len(a.rate) = K - 1 /\ K \in 1..N /\ (N - 1) - (K - 1) = N - K
      BY <1>0, <2>1 DEF KeptOf
    <3>2. /\ a.rate \in Seq(Points)
          /\ \A j \in 1..Len(a.rate) : a.rate[j] = series[((N - 1) - Len(a.rate)) + j]
      BY <2>1 DEF KeptOf
    <3> HIDE DEF K
    <3> QED BY <1>0, <3>1, <3>2
  <2> HIDE DEF K
  <2>3. /\ rates \in Seq(Points) /\ Len(rates) = K /\ rates[K] = series[N]
        /\ \A j \in 1..(K - 1) : rates[j] = series[(N - K) + j]
    BY <2>1, <2>2
  <2>4. ASSUME NEW j \in 1..K PROVE rates[j] = series[(N - K) + j]
    <3>1. CASE j = K
      <4>1. (N - K) + j = N
        BY <1>0, <2>2, <3>1
      <4> QED BY <2>3, <3>1, <4>1
    <3>2. CASE j # K
      <4>1. j \in 1..(K - 1)
        BY <2>2, <3>2
      <4> QED BY <2>3, <4>1
    <3> QED BY <3>1, <3>2
  <2> DEFINE last == SubSeq(series, N - K + 1, N)
  <2>5. last \in Seq(Points) /\ Len(last) = K /\ \A j \in 1..K : last[j] = series[(N - K) + j]
    <3>1. PICK from \in Nat : from = N - K + 1
      <4>1. N - K + 1 \in Nat
        BY <1>0, <2>2
      <4> QED BY <4>1, Zenon
    <3>2. from \in 1..N /\ N - from + 1 = K
      BY <1>0, <2>2, <3>1
    <3>3. last = SubSeq(series, from, N)
      BY <3>1
    <3>4. last \in Seq(Points) /\ Len(last) = K /\ \A j \in 1..K : last[j] = series[from + j - 1]
      BY <1>0, <3>2, <3>3, SMTT(30)
    <3>5. \A j \in 1..K : from + j - 1 = (N - K) + j
      BY <1>0, <2>2, <3>1
    <3> QED BY <3>4, <3>5
  <2> HIDE DEF last, N
  <2>6. rates = last
    <3>1. \A j \in 1..Len(rates) : rates[j] = last[j]
      BY <2>3, <2>4, <2>5
    <3>2. rates \in Seq(Points) /\ last \in Seq(Points) /\ Len(rates) = Len(last)
      BY <2>3, <2>5
    <3> QED BY <3>1, <3>2, SeqEqual, Zenon
  <2> QED BY <1>1, <1>2, <2>6 DEF last, N, series
<1> QED BY <1>3, <1>4

LEMMA AccountInitially == StatisticsInit => AccountInv
<1> SUFFICES ASSUME StatisticsInit PROVE AccountInv
  OBVIOUS
<1>1. crowd \in Crowds /\ said = <<>> /\ agg = Fresh /\ reports = <<>> /\ spoken = 0
  BY DEF StatisticsInit
<1>2. IsAggregator(agg) /\ RateInv(agg, said)
  BY <1>1 DEF Fresh, IsAggregator, RateInv
<1>3. Told = {} /\ IsFiniteSet({}) /\ Cardinality({}) = 0
  BY <1>1, FS_EmptySet DEF Told
<1>4. ReportsInv
  BY <1>1, <1>3 DEF ReportsInv
<1>5. agg.total = 0 /\ said \in Seq(crowd)
  BY <1>1 DEF Fresh
<1> QED BY <1>1, <1>2, <1>3, <1>4, <1>5, SeriesOfNothing DEF AccountInv

(* A report more counts as many messages as its total says.                *)
LEMMA MoreTold ==
  ASSUME ReportsInv, NEW report, report.stats.total \in Nat, Accounts(report.stats, report.of),
         reports' = Append(reports, report)
  PROVE  ReportsInv' /\ Cardinality(Told') = Cardinality(Told) + report.stats.total
<1> DEFINE L == Len(reports)
           total == report.stats.total
           new == {L + 1} \X (1..total)
<1>1. /\ L \in Nat /\ DOMAIN reports = 1..L /\ DOMAIN reports' = 1..(L + 1)
      /\ reports'[L + 1] = report /\ \A i \in 1..L : reports'[i] = reports[i]
      /\ reports' \in Seq(Range(reports) \union {report})
  BY DEF ReportsInv
<1>2. Told' = Told \union new /\ Told \intersect new = {}
  BY <1>1 DEF Told
<1>3. IsFiniteSet(new) /\ Cardinality(new) = total
  BY SlotsOfOne
<1>4. IsFiniteSet(Told') /\ Cardinality(Told') = Cardinality(Told) + total
  <2> HIDE DEF new, total, L
  <2>1. IsFiniteSet(Told)
    BY DEF ReportsInv
  <2> QED BY <1>2, <1>3, <2>1, DisjointSum
<1>5. reports' \in Seq(Range(reports'))
  BY <1>1 DEF Range
<1>6. ASSUME NEW i \in 1..(L + 1)
      PROVE  Accounts(reports'[i].stats, reports'[i].of) /\ reports'[i].stats.total \in Nat
  <2>1. CASE i = L + 1
    BY <1>1, <2>1
  <2>2. CASE i # L + 1
    <3>1. i \in 1..L
      BY <1>1, <2>2
    <3> QED BY <1>1, <3>1 DEF ReportsInv
  <2> QED BY <2>1, <2>2
<1>7. ReportsInv'
  BY <1>1, <1>4, <1>5, <1>6 DEF ReportsInv, Accounts
<1> QED BY <1>4, <1>7

LEMMA AccountsFollow ==
  ASSUME NEW S, NEW messages \in Seq(S), NEW a, SeriesInv(messages), RateInv(a, messages), NEW end
  PROVE  /\ Accounts(Finalize(a, end), messages) /\ Finalize(a, end).total = a.total
         /\ Accounts(CurrentStats(a), messages)
<1> DEFINE rates == IF a.bucket = Nobody THEN a.rate ELSE Append(a.rate, a.bucket)
<1>1. rates = LastOf(Series(messages), Min({Len(Series(messages)), MaxRatePoints + 1}))
  BY RatesFollow
<1>2. a.total = Len(messages) /\ a.total = a.chat + a.gift
  BY DEF RateInv
<1>3. a.rate \o (IF a.bucket = Nobody THEN <<>> ELSE <<a.bucket>>) = rates
  <2>1. a.rate \in Seq(Points)
    <3>1. <<>> \in Seq(Points)
      OBVIOUS
    <3> QED BY <3>1 DEF RateInv, KeptOf
  <2>2. CASE a.bucket = Nobody
    BY <2>1, <2>2
  <2>3. CASE a.bucket # Nobody
    BY <2>1, <2>3 DEF RateInv
  <2> QED BY <2>2, <2>3
<1> HIDE DEF rates
<1>4. Finalize(a, end).total = a.total /\ Finalize(a, end).chat = a.chat /\ Finalize(a, end).gift = a.gift
      /\ Finalize(a, end).rates = rates
  BY DEF Finalize, Report, rates
<1>5. CurrentStats(a).total = a.total /\ CurrentStats(a).chat = a.chat /\ CurrentStats(a).gift = a.gift
      /\ CurrentStats(a).rates = rates
  BY <1>3 DEF CurrentStats, Report
<1> QED BY <1>1, <1>2, <1>4, <1>5 DEF Accounts

LEMMA AccountStep == AccountInv /\ [StatisticsNext]_statisticsVars => AccountInv'
<1> SUFFICES ASSUME AccountInv, [StatisticsNext]_statisticsVars PROVE AccountInv'
  OBVIOUS
<1>0. /\ crowd \in Crowds /\ said \in Seq(crowd) /\ IsAggregator(agg)
      /\ SeriesInv(said) /\ RateInv(agg, said) /\ ReportsInv /\ spoken = agg.total + Cardinality(Told)
      /\ agg.total \in Nat /\ agg.total = Len(said) /\ Cardinality(Told) \in Nat
  <2>1. IsFiniteSet(Told) /\ said \in Seq(crowd) /\ RateInv(agg, said)
    BY DEF AccountInv, ReportsInv
  <2>2. agg.total = Len(said) /\ Len(said) \in Nat
    BY <2>1 DEF RateInv
  <2> QED BY <2>1, <2>2, FS_CardinalityType DEF AccountInv
<1>1. CASE RecordMessage
  <2>1. PICK m \in crowd : agg' \in Recorded(agg, m) /\ said' = Append(said, m)
    BY <1>1 DEF RecordMessage
  <2>2. m.time \in Nat /\ m.gift \in BOOLEAN
    BY <1>0, StatisticsAssumption
  <2>3. crowd' = crowd /\ said' \in Seq(crowd) /\ reports' = reports /\ spoken' = spoken + 1
    BY <1>0, <1>1, <2>1 DEF RecordMessage
  <2>4. IsAggregator(agg') /\ agg'.total = agg.total + 1
    BY <1>0, <2>1, RecordedIs
  <2>5. SeriesInv(said')
    BY <1>0, <2>1, <2>2, SeriesKept
  <2>6. RateInv(agg', said')
    BY <1>0, <2>1, <2>2, RateFollows
  <2>7. ReportsInv' /\ Told' = Told
    BY <1>0, <2>3 DEF ReportsInv, Told
  <2> QED BY <1>0, <2>3, <2>4, <2>5, <2>6, <2>7 DEF AccountInv
<1>2. ASSUME agg' = Fresh, said' = <<>>, crowd' = crowd, ReportsInv', spoken' = Cardinality(Told')
      PROVE  AccountInv'
  <2>1. IsAggregator(agg') /\ RateInv(agg', said')
    BY <1>2 DEF Fresh, IsAggregator, RateInv
  <2>2. agg'.total = 0 /\ said' \in Seq(crowd') /\ Cardinality(Told') \in Nat
    <3>1. IsFiniteSet(Told')
      BY <1>2 DEF ReportsInv
    <3> QED BY <1>2, <3>1, FS_CardinalityType DEF Fresh
  <2> QED BY <1>0, <1>2, <2>1, <2>2, SeriesOfNothing DEF AccountInv
<1>3. CASE Checkpoint
  <2>1. PICK end \in Ends : reports' = Append(reports, [stats |-> Finalize(agg, end), of |-> said])
    BY <1>3 DEF Checkpoint
  <2> DEFINE report == [stats |-> Finalize(agg, end), of |-> said]
  <2>2. Accounts(report.stats, report.of) /\ report.stats.total = agg.total
    BY <1>0, AccountsFollow
  <2> HIDE DEF report
  <2>3. ReportsInv' /\ Cardinality(Told') = Cardinality(Told) + agg.total
    BY <1>0, <2>1, <2>2, MoreTold DEF report
  <2>4. agg' = Fresh /\ said' = <<>> /\ crowd' = crowd /\ spoken' = spoken
    BY <1>3 DEF Checkpoint
  <2> QED BY <1>0, <1>2, <2>3, <2>4
<1>4. CASE Reset
  <2>1. agg' = Fresh /\ said' = <<>> /\ crowd' = crowd /\ reports' = reports /\ spoken' = spoken - Len(said)
    BY <1>4 DEF Reset
  <2>2. ReportsInv' /\ Told' = Told
    BY <1>0, <2>1 DEF ReportsInv, Told
  <2> QED BY <1>0, <1>2, <2>1, <2>2
<1>5. CASE UNCHANGED statisticsVars
  BY <1>0, <1>5 DEF statisticsVars, AccountInv, ReportsInv, Told
<1> QED BY <1>1, <1>3, <1>4, <1>5 DEF StatisticsNext

(* Every report, at a checkpoint, at the end or in between, has the rate   *)
(* of exactly the messages since the one before, whatever their times, but *)
(* for what the limit forgets; reports and what is not reported yet add up *)
(* to the messages recorded and not reset.                                 *)
THEOREM RatesAreAccounted == StatisticsSpec => []RatesAccounted
<1>1. AccountInv => RatesAccounted
  <2> SUFFICES ASSUME AccountInv PROVE RatesAccounted
    OBVIOUS
  <2>1. Accounts(CurrentStats(agg), said)
    BY AccountsFollow DEF AccountInv
  <2> QED BY <2>1 DEF AccountInv, ReportsInv, RatesAccounted
<1> QED BY <1>1, AccountInitially, AccountStep, PTL DEF StatisticsSpec

-----------------------------------------------------------------------------
(* The sampler.                                                            *)

(* The messages of a list from an instant on, by the second they came in.  *)
Came(list, from) == {i \in DOMAIN list : SecondStart(list[i]) >= from}

Entries == [second : Nat, count : Nat]

(* A window has its seconds in order, none of them after now.              *)
Ordered(window, now) ==
  /\ window \in Seq(Entries)
  /\ \A i, j \in 1..Len(window) : i < j => window[i].second < window[j].second
  /\ \A i \in 1..Len(window) : window[i].second <= SecondStart(now)

(* From the cutoff on, and from whenever later, a window counts what came. *)
Agree(window, list, now) ==
  \A from \in Int : from >= Cutoff(now) =>
    /\ IsFiniteSet(CountedSince(window, from))
    /\ Cardinality(CountedSince(window, from)) = Cardinality(Came(list, from))

(* An interval within the bounds.                                          *)
Within(interval) ==
  /\ MinSecs * SecondTicks * interval[2] <= interval[1]
  /\ interval[1] <= MaxSecs * SecondTicks * interval[2]

SamplerInv ==
  /\ clock \in Nat /\ heard \in Seq(Nat)
  /\ sampler \in [kind : {"fixed", "velocity"}, last : Nat \union {NoSample},
                  window : Seq(Entries), interval : Nat \X Nat]
  /\ sampler.kind = "velocity" =>
       /\ Ordered(sampler.window, clock) /\ Agree(sampler.window, heard, clock)
       /\ Within(sampler.interval)
       /\ sampler.last # NoSample =>
            sampler.interval = Adjusted(Cardinality(Came(basis, Cutoff(sampler.last))))

LEMMA Scaled ==
  ASSUME NEW a \in Nat, NEW b \in Nat, NEW n \in Nat, a <= b
  PROVE  a * n \in Nat /\ b * n \in Nat /\ a * n <= b * n
BY SMT

LEMMA Divided ==
  ASSUME NEW a \in Nat, NEW n \in Nat \ {0}
  PROVE  /\ a \div n \in Nat /\ n * (a \div n) \in Nat
         /\ a - (a % n) = n * (a \div n)
         /\ a - (a % n) <= a /\ a < n * (a \div n) + n
BY SMT

(* The beginnings of seconds are in order.                                 *)
LEMMA SecondsInOrder ==
  ASSUME NEW a \in Nat, NEW b \in Nat, a <= b
  PROVE  SecondStart(a) \in Nat /\ SecondStart(a) <= a /\ SecondStart(a) <= SecondStart(b)
<1>1. SecondTicks \in Nat \ {0}
  BY SamplerAssumption
<1> DEFINE n == SecondTicks
           x == a \div n
           y == b \div n
<1>2. x \in Nat /\ n * x \in Nat /\ SecondStart(a) = n * x /\ n * x <= a /\ a < n * x + n
  BY <1>1, Divided DEF SecondStart
<1>3. y \in Nat /\ n * y \in Nat /\ SecondStart(b) = n * y /\ n * y <= b /\ b < n * y + n
  BY <1>1, Divided DEF SecondStart
<1> HIDE DEF x, y, n
<1>4. x <= y
  <2>1. SUFFICES ASSUME y + 1 <= x PROVE FALSE
    BY <1>2, <1>3
  <2>2. n * (y + 1) <= n * x
    BY <1>1, <1>2, <1>3, <2>1, SMT DEF n
  <2>3. n * (y + 1) = n * y + n
    BY <1>1, <1>3, SMT DEF n
  <2> QED BY <1>1, <1>2, <1>3, <2>2, <2>3 DEF n
<1>5. n * x <= n * y
  BY <1>1, <1>2, <1>3, <1>4, SMT DEF n
<1> QED BY <1>2, <1>3, <1>5

(* The bounds in ticks.                                                    *)
LEMMA BoundsInTicks ==
  /\ MinSecs * SecondTicks \in Nat /\ MaxSecs * SecondTicks \in Nat
  /\ MinSecs * SecondTicks <= MaxSecs * SecondTicks
BY Scaled, SamplerAssumption

LEMMA AdjustedWithin ==
  ASSUME NEW recent \in Nat
  PROVE  Adjusted(recent) \in Nat \X Nat /\ Within(Adjusted(recent))
<1> DEFINE ideal == Target * WindowSecs * SecondTicks
           low == MinSecs * SecondTicks
           high == MaxSecs * SecondTicks
<1>1. low \in Nat /\ high \in Nat /\ low <= high
  BY BoundsInTicks
<1>2. ideal \in Nat
  BY SamplerAssumption
<1>3. Adjusted(recent) =
        IF recent = 0 \/ ideal > high * recent THEN <<high, 1>>
        ELSE IF ideal < low * recent THEN <<low, 1>> ELSE <<ideal, recent>>
  BY DEF Adjusted, Seconds
<1>4. low * recent \in Nat /\ high * recent \in Nat
  BY <1>1, Scaled
<1>5. Within(Adjusted(recent)) <=>
        low * Adjusted(recent)[2] <= Adjusted(recent)[1] /\ Adjusted(recent)[1] <= high * Adjusted(recent)[2]
  BY DEF Within
<1> HIDE DEF ideal, low, high
<1>6. CASE recent = 0 \/ ideal > high * recent
  BY <1>1, <1>3, <1>5, <1>6
<1>7. CASE ~(recent = 0 \/ ideal > high * recent) /\ ideal < low * recent
  BY <1>1, <1>3, <1>5, <1>7
<1>8. CASE ~(recent = 0 \/ ideal > high * recent) /\ ~(ideal < low * recent)
  BY <1>1, <1>2, <1>3, <1>4, <1>5, <1>8
<1> QED BY <1>6, <1>7, <1>8

LEMMA InitialWithin ==
  ASSUME NEW kind \in {"fixed", "velocity"}
  PROVE  /\ Initial(kind).interval \in Nat \X Nat
         /\ kind = "velocity" => Within(Initial(kind).interval)
<1>1. CASE kind = "fixed"
  <2>1. Initial(kind).interval = <<FixedSecs * SecondTicks, 1>>
    BY <1>1 DEF Initial, Seconds
  <2>2. FixedSecs * SecondTicks \in Nat
    BY SamplerAssumption
  <2> QED BY <1>1, <2>1, <2>2
<1>2. CASE kind = "velocity"
  <2> DEFINE mid == (MinSecs + MaxSecs) \div 2
  <2>1. Initial(kind).interval = <<mid * SecondTicks, 1>>
    BY <1>2 DEF Initial, Seconds
  <2>2. mid \in Nat /\ MinSecs <= mid /\ mid <= MaxSecs
    BY SamplerAssumption
  <2> HIDE DEF mid
  <2>3. /\ mid * SecondTicks \in Nat
        /\ MinSecs * SecondTicks <= mid * SecondTicks /\ mid * SecondTicks <= MaxSecs * SecondTicks
    BY <2>2, Scaled, SamplerAssumption
  <2> QED BY <2>1, <2>3, BoundsInTicks DEF Within
<1> QED BY <1>1, <1>2

(* A message that comes now is in every set of what came since.            *)
LEMMA CameGrows ==
  ASSUME NEW list \in Seq(Nat), NEW now \in Nat, NEW from \in Int
  PROVE  /\ Cardinality(Came(list, from)) \in Nat
         /\ Cardinality(Came(Append(list, now), from)) =
              Cardinality(Came(list, from)) + (IF SecondStart(now) >= from THEN 1 ELSE 0)
<1> DEFINE more == Append(list, now)
           old == Came(list, from)
<1>1. /\ Len(list) \in Nat /\ DOMAIN list = 1..Len(list) /\ DOMAIN more = 1..(Len(list) + 1)
      /\ \A i \in 1..Len(list) : more[i] = list[i]
      /\ more[Len(list) + 1] = now
  BY AppendProperties, LenProperties
<1>2. IsFiniteSet(old) /\ Cardinality(old) \in Nat
  <2>1. IsFiniteSet(1..Len(list))
    BY <1>1, FS_Interval
  <2>2. old \in SUBSET (1..Len(list))
    BY <1>1 DEF Came
  <2> QED BY <2>1, <2>2, FS_Subset, FS_CardinalityType
<1> HIDE DEF more
<1>3. Len(list) + 1 \notin old
  BY <1>1 DEF Came
<1>4. CASE SecondStart(now) >= from
  <2>1. Came(more, from) = old \union {Len(list) + 1}
    BY <1>1, <1>4 DEF Came
  <2> HIDE DEF old
  <2> QED BY <1>2, <1>3, <1>4, <2>1, FS_AddElement DEF more, old
<1>5. CASE ~(SecondStart(now) >= from)
  <2>1. Came(more, from) = old
    BY <1>1, <1>5 DEF Came
  <2> QED BY <1>2, <1>5, <2>1 DEF more
<1> QED BY <1>4, <1>5

(* The places up to n are n and those before it.                           *)
LEMMA LastPlace ==
  \A n \in Nat : \A i \in 1..n : (i \in 1..(n - 1) /\ i < n) \/ i = n
BY SMT

LEMMA EntryOf ==
  \A window \in Seq(Entries) : \A i \in 1..Len(window) :
    window[i] \in Entries /\ window[i].second \in Nat /\ window[i].count \in Nat
<1> SUFFICES ASSUME NEW window \in Seq(Entries), NEW i \in 1..Len(window)
             PROVE  window[i] \in Entries /\ window[i].second \in Nat /\ window[i].count \in Nat
  OBVIOUS
<1>1. window[i] \in Entries
  BY ElementOfSeq
<1> QED BY <1>1 DEF Entries

(* One more message of a window's last second.                             *)
LEMMA LastRaised ==
  ASSUME NEW now \in Nat, NEW window, Ordered(window, now), window # <<>>,
         Last(window).second = SecondStart(now), NEW from \in Int,
         IsFiniteSet(CountedSince(window, from))
  PROVE  LET longer == [window EXCEPT ![Len(window)].count = @ + 1]
         IN  /\ Ordered(longer, now)
             /\ IsFiniteSet(CountedSince(longer, from))
             /\ Cardinality(CountedSince(longer, from)) =
                  Cardinality(CountedSince(window, from)) + (IF SecondStart(now) >= from THEN 1 ELSE 0)
<1> DEFINE n == Len(window)
           longer == [window EXCEPT ![n].count = @ + 1]
           old == CountedSince(window, from)
<1>1. window \in Seq(Entries) /\ n \in Nat /\ DOMAIN window = 1..n /\ n > 0
  BY LenProperties, EmptySeq DEF Ordered
<1>2. \A i \in 1..n : window[i].second \in Nat /\ window[i].count \in Nat
  BY <1>1, EntryOf
<1>3. n \in 1..n /\ window[n].second = SecondStart(now)
  BY <1>1 DEF Last
<1>4. /\ DOMAIN longer = 1..n /\ \A i \in 1..n : longer[i].second = window[i].second
      /\ \A i \in 1..(n - 1) : longer[i] = window[i]
      /\ longer[n] = [second |-> window[n].second, count |-> window[n].count + 1]
  <2>1. window[n] \in Entries
    BY <1>1, <1>3, ElementOfSeq
  <2>2. [window[n] EXCEPT !.count = @ + 1] = [second |-> window[n].second, count |-> window[n].count + 1]
    BY <2>1 DEF Entries
  <2>3. /\ DOMAIN longer = 1..n /\ \A i \in 1..(n - 1) : longer[i] = window[i]
        /\ longer[n] = [window[n] EXCEPT !.count = @ + 1]
    BY <1>1, <1>3
  <2>4. \A i \in 1..n : i \in 1..(n - 1) \/ i = n
    BY <1>1, LastPlace
  <2> HIDE DEF longer, n
  <2> QED BY <2>2, <2>3, <2>4
<1>5. longer \in Seq(Entries) /\ Len(longer) = n
  <2>1. \A i \in 1..n : longer[i] \in Entries
    <3>1. \A i \in 1..n : i \in 1..(n - 1) \/ i = n
      BY <1>1, LastPlace
    <3>2. \A i \in 1..n : window[i] \in Entries
      BY <1>1, ElementOfSeq
    <3>3. longer[n] \in Entries
      <4>1. PICK s \in Nat, k \in Nat : s = window[n].second /\ k = window[n].count
        BY <1>2, <1>3
      <4>2. longer[n] = [second |-> s, count |-> k + 1]
        BY <1>4, <4>1
      <4> QED BY <4>2 DEF Entries
    <3> HIDE DEF longer, n
    <3> QED BY <1>4, <3>1, <3>2, <3>3
  <2>2. longer \in [1..n -> Entries]
    BY <1>1, <2>1
  <2> HIDE DEF longer
  <2> QED BY <1>1, <2>2, SeqDef, LenProperties
<1> HIDE DEF longer
<1>6. Ordered(longer, now)
  BY <1>4, <1>5 DEF Ordered
<1> DEFINE new == <<n, window[n].count + 1>>
<1>7. CASE SecondStart(now) >= from
  <2>1. CountedSince(longer, from) = old \union {new}
    <3>1. \A i \in 1..n : i # n => longer[i].count = window[i].count
      BY <1>1, <1>4
    <3>2. 1..longer[n].count = (1..window[n].count) \union {window[n].count + 1}
      BY <1>2, <1>3, <1>4
    <3>3. window[n].second >= from
      BY <1>3, <1>7
    <3> HIDE DEF n
    <3> QED BY <1>1, <1>3, <1>4, <3>1, <3>2, <3>3 DEF CountedSince
  <2>2. new \notin old
    BY <1>2, <1>3 DEF CountedSince
  <2> HIDE DEF new, old
  <2>3. Cardinality(old) \in Nat
    BY FS_CardinalityType DEF old
  <2>4. /\ IsFiniteSet(old \union {new})
        /\ Cardinality(old \union {new}) = Cardinality(old) + 1
    BY <2>2, FS_AddElement DEF old
  <2> QED BY <1>6, <1>7, <2>1, <2>4 DEF longer, old
<1>8. CASE ~(SecondStart(now) >= from)
  <2>1. CountedSince(longer, from) = old
    <3>1. \A i \in 1..n : i # n => longer[i].count = window[i].count
      BY <1>1, <1>4
    <3>2. ~(window[n].second >= from) /\ ~(longer[n].second >= from)
      BY <1>3, <1>4, <1>8
    <3> HIDE DEF n
    <3> QED BY <1>1, <1>4, <3>1, <3>2 DEF CountedSince
  <2>2. Cardinality(old) \in Nat
    BY FS_CardinalityType
  <2> HIDE DEF old
  <2>3. Cardinality(old) + 0 = Cardinality(old)
    BY <2>2
  <2> QED BY <1>6, <1>8, <2>1, <2>3 DEF longer, old
<1> QED BY <1>7, <1>8

(* The first message of a second that a window does not have yet.          *)
LEMMA SecondAdded ==
  ASSUME NEW now \in Nat, NEW window, Ordered(window, now),
         window = <<>> \/ Last(window).second # SecondStart(now), NEW from \in Int,
         IsFiniteSet(CountedSince(window, from))
  PROVE  LET longer == Append(window, [second |-> SecondStart(now), count |-> 1])
         IN  /\ Ordered(longer, now)
             /\ IsFiniteSet(CountedSince(longer, from))
             /\ Cardinality(CountedSince(longer, from)) =
                  Cardinality(CountedSince(window, from)) + (IF SecondStart(now) >= from THEN 1 ELSE 0)
<1> DEFINE n == Len(window)
           entry == [second |-> SecondStart(now), count |-> 1]
           longer == Append(window, entry)
           old == CountedSince(window, from)
<1>1. window \in Seq(Entries) /\ n \in Nat /\ DOMAIN window = 1..n
  BY LenProperties DEF Ordered
<1>2. \A i \in 1..n : window[i].second \in Nat /\ window[i].count \in Nat
  BY <1>1, EntryOf
<1>3. SecondStart(now) \in Nat
  BY SecondsInOrder
<1>4. entry \in Entries /\ entry.second = SecondStart(now) /\ entry.count = 1
  BY <1>3 DEF Entries
<1> HIDE DEF entry
<1>5. /\ longer \in Seq(Entries) /\ Len(longer) = n + 1 /\ DOMAIN longer = 1..(n + 1)
      /\ \A i \in 1..n : longer[i] = window[i]
      /\ longer[n + 1] = entry
  BY <1>1, <1>4, AppendProperties, LenProperties
<1> HIDE DEF longer
<1>6. \A i \in 1..n : window[i].second < SecondStart(now)
  <2>1. CASE n = 0
    BY <2>1
  <2>2. CASE n # 0
    <3>1. n \in 1..n /\ Last(window) = window[n]
      BY <1>1, <2>2 DEF Last
    <3>2. window # <<>>
      BY <2>2
    <3>3. window[n].second < SecondStart(now)
      BY <1>2, <1>3, <3>1, <3>2 DEF Ordered
    <3>4. \A i \in 1..n : i < n \/ i = n
      BY <1>1, LastPlace
    <3>5. \A i \in 1..n : i < n => window[i].second < window[n].second
      BY <3>1 DEF Ordered
    <3> HIDE DEF n
    <3> SUFFICES ASSUME NEW i \in 1..n
                 PROVE  window[i].second < SecondStart(now)
      OBVIOUS
    <3>6. CASE i = n
      BY <3>3, <3>6
    <3>7. CASE i < n
      <4>1. window[i].second < window[n].second
        BY <3>5, <3>7
      <4>2. /\ window[i].second \in Nat
            /\ window[n].second \in Nat
        BY <1>2, <3>1
      <4> QED BY <1>3, <3>3, <4>1, <4>2
    <3> QED BY <3>4, <3>6, <3>7
  <2> QED BY <2>1, <2>2
<1>7. Ordered(longer, now)
  <2>1. \A i \in 1..(n + 1) : i \in 1..n \/ i = n + 1
    BY <1>1
  <2>2. \A i \in 1..(n + 1) : longer[i].second <= SecondStart(now)
    BY <1>2, <1>3, <1>4, <1>5, <1>6, <2>1
  <2>3. ASSUME NEW i \in 1..(n + 1), NEW j \in 1..(n + 1), i < j
        PROVE  longer[i].second < longer[j].second
    <3>1. i \in 1..n
      BY <1>1, <2>3
    <3>2. CASE j \in 1..n
      BY <1>5, <2>3, <3>1, <3>2 DEF Ordered
    <3>3. CASE j = n + 1
      BY <1>4, <1>5, <1>6, <3>1, <3>3
    <3> QED BY <2>1, <3>2, <3>3
  <2> QED BY <1>5, <2>2, <2>3 DEF Ordered
<1> DEFINE new == <<n + 1, 1>>
<1>8. \A i \in 1..(n + 1) : i \in 1..n \/ i = n + 1
  BY <1>1
<1>9. n + 1 \notin 1..n /\ n + 1 \in 1..(n + 1) /\ 1..n \subseteq 1..(n + 1)
  BY <1>1
<1>10. CASE SecondStart(now) >= from
  <2>1. CountedSince(longer, from) = old \union {new}
    <3>1. 1..longer[n + 1].count = {1} /\ longer[n + 1].second >= from
      BY <1>4, <1>5, <1>10
    <3> HIDE DEF n
    <3> QED BY <1>1, <1>5, <1>8, <1>9, <3>1 DEF CountedSince
  <2>2. new \notin old
    BY <1>1, <1>9 DEF CountedSince
  <2> HIDE DEF new, old
  <2>3. /\ IsFiniteSet(old \union {new})
        /\ Cardinality(old \union {new}) = Cardinality(old) + 1
    BY <2>2, FS_AddElement DEF old
  <2> QED BY <1>7, <1>10, <2>1, <2>3 DEF longer, old, entry
<1>11. CASE ~(SecondStart(now) >= from)
  <2>1. CountedSince(longer, from) = old
    <3>1. ~(longer[n + 1].second >= from)
      BY <1>4, <1>5, <1>11
    <3> HIDE DEF n
    <3> QED BY <1>1, <1>5, <1>8, <1>9, <3>1 DEF CountedSince
  <2>2. Cardinality(old) \in Nat
    BY FS_CardinalityType
  <2> HIDE DEF old
  <2>3. Cardinality(old) + 0 = Cardinality(old)
    BY <2>2
  <2> QED BY <1>7, <1>11, <2>1, <2>3 DEF longer, old, entry
<1> QED BY <1>10, <1>11

LEMMA CountedIs ==
  \A window, from, p :
    p \in CountedSince(window, from) <=>
      \E i \in DOMAIN window : \E k \in 1..window[i].count : window[i].second >= from /\ p = <<i, k>>
BY DEF CountedSince

(* Pruning loses nothing that came since the cutoff.                       *)
LEMMA PrunedKeeps ==
  ASSUME NEW now \in Nat, NEW window, Ordered(window, now), NEW from \in Int, from >= Cutoff(now),
         IsFiniteSet(CountedSince(window, from))
  PROVE  /\ Ordered(Pruned(window, now), now)
         /\ IsFiniteSet(CountedSince(Pruned(window, now), from))
         /\ Cardinality(CountedSince(Pruned(window, now), from)) = Cardinality(CountedSince(window, from))
<1> DEFINE n == Len(window)
           kept == {i \in DOMAIN window : window[i].second >= Cutoff(now)}
           S == CountedSince(window, from)
           short == Pruned(window, now)
           T == CountedSince(short, from)
<1>1. window \in Seq(Entries) /\ n \in Nat /\ DOMAIN window = 1..n
  BY LenProperties DEF Ordered
<1>2. \A i \in 1..n : window[i] \in Entries /\ window[i].second \in Nat /\ window[i].count \in Nat
  BY <1>1, EntryOf
<1>3. Cutoff(now) \in Int
  BY SamplerAssumption DEF Cutoff
<1>4. \A i \in 1..n : window[i].second >= from => i \in kept
  BY <1>1, <1>2, <1>3
<1>5. short = IF kept = {} THEN <<>> ELSE SubSeq(window, Min(kept), n)
  BY DEF Pruned
<1>6. kept \in SUBSET Nat
  BY <1>1
<1> HIDE DEF kept, short
<1>7. CASE kept = {}
  <2>1. short = <<>>
    BY <1>5, <1>7
  <2>2. S = {}
    BY <1>1, <1>4, <1>7, CountedIs
  <2>3. T = {}
    BY <2>1, CountedIs
  <2>4. Ordered(<<>>, now)
    BY DEF Ordered
  <2> QED BY <2>1, <2>2, <2>3, <2>4 DEF short
<1>8. CASE kept # {}
  <2>1. PICK m \in Nat : m = Min(kept) /\ m \in kept /\ \A i \in kept : m <= i
    BY <1>6, <1>8, MinIsLeast
  <2>2. m \in 1..n
    BY <1>1, <2>1 DEF kept
  <2>3. /\ short \in Seq(Entries) /\ Len(short) = n - m + 1
        /\ \A i \in 1..(n - m + 1) : short[i] = window[m + i - 1]
    <3>1. short = SubSeq(window, m, n)
      BY <1>5, <1>8, <2>1
    <3>2. \A i \in m..n : window[i] \in Entries
      BY <1>1, <1>2, <2>2
    <3>3. m \in Int /\ n \in Int /\ m <= n
      BY <1>1, <2>2
    <3> HIDE DEF n
    <3> QED BY <3>1, <3>2, <3>3, SubSeqProperties
  <2>4. DOMAIN short = 1..(n - m + 1)
    BY <2>3, LenProperties
  <2>5. \A i \in 1..(n - m + 1) : m + i - 1 \in 1..n
    BY <1>1, <2>2
  <2>6. Ordered(short, now)
    <3>1. \A i \in 1..Len(short) : short[i].second <= SecondStart(now)
      BY <2>3, <2>5 DEF Ordered
    <3>2. ASSUME NEW i \in 1..Len(short), NEW j \in 1..Len(short), i < j
          PROVE  short[i].second < short[j].second
      <4>1. m + i - 1 \in 1..n /\ m + j - 1 \in 1..n
        BY <2>3, <2>5
      <4>2. m + i - 1 < m + j - 1
        BY <1>1, <2>2, <2>3, <3>2
      <4>3. short[i] = window[m + i - 1] /\ short[j] = window[m + j - 1]
        BY <2>3
      <4> QED BY <4>1, <4>2, <4>3 DEF Ordered
    <3> QED BY <2>3, <3>1, <3>2 DEF Ordered
  <2> DEFINE f == [p \in S |-> <<p[1] - m + 1, p[2]>>]
  <2>7. \A p \in S : \E i \in m..n : \E k \in 1..window[i].count :
          window[i].second >= from /\ p = <<i, k>>
    <3> SUFFICES ASSUME NEW p \in S
                 PROVE  \E i \in m..n : \E k \in 1..window[i].count :
                          window[i].second >= from /\ p = <<i, k>>
      OBVIOUS
    <3>1. PICK i \in 1..n : \E k \in 1..window[i].count : window[i].second >= from /\ p = <<i, k>>
      BY <1>1, CountedIs
    <3>2. i \in m..n
      BY <1>1, <1>4, <2>1, <3>1
    <3> QED BY <3>1, <3>2
  <2>8. \A i \in m..n : i - m + 1 \in 1..(n - m + 1) /\ m + (i - m + 1) - 1 = i
    BY <1>1, <2>2
  <2>9. \A p \in S : f[p] \in T
    <3> SUFFICES ASSUME NEW p \in S PROVE <<p[1] - m + 1, p[2]>> \in T
      OBVIOUS
    <3>1. PICK i \in m..n : \E k \in 1..window[i].count : window[i].second >= from /\ p = <<i, k>>
      BY <2>7
    <3>2. PICK k \in 1..window[i].count : window[i].second >= from /\ p = <<i, k>>
      BY <3>1
    <3>3. short[i - m + 1] = window[i] /\ i - m + 1 \in DOMAIN short
      BY <2>3, <2>4, <2>8
    <3>4. p[1] = i /\ p[2] = k
      BY <3>2
    <3> QED BY <3>2, <3>3, <3>4, CountedIs
  <2>10. \A p, q \in S : f[p] = f[q] => p = q
    <3> SUFFICES ASSUME NEW p \in S, NEW q \in S, <<p[1] - m + 1, p[2]>> = <<q[1] - m + 1, q[2]>>
                 PROVE  p = q
      OBVIOUS
    <3>1. PICK i \in m..n : \E k : p = <<i, k>>
      BY <2>7
    <3>2. PICK j \in m..n : \E l : q = <<j, l>>
      BY <2>7
    <3>5. p[1] = i /\ q[1] = j /\ p = <<i, p[2]>> /\ q = <<j, q[2]>>
      BY <3>1, <3>2
    <3>3. i - m + 1 = j - m + 1 /\ p[2] = q[2]
      BY <3>5
    <3>4. i = j
      BY <1>1, <2>2, <3>3
    <3> QED BY <3>3, <3>4, <3>5
  <2>11. \A t \in T : \E p \in S : f[p] = t
    <3> SUFFICES ASSUME NEW t \in T PROVE \E p \in S : <<p[1] - m + 1, p[2]>> = t
      OBVIOUS
    <3>1. PICK i \in 1..(n - m + 1) : \E k \in 1..short[i].count : short[i].second >= from /\ t = <<i, k>>
      BY <2>4, CountedIs
    <3>2. PICK k \in 1..short[i].count : short[i].second >= from /\ t = <<i, k>>
      BY <3>1
    <3>3. m + i - 1 \in DOMAIN window /\ short[i] = window[m + i - 1] /\ (m + i - 1) - m + 1 = i
      BY <1>1, <2>2, <2>3, <2>5
    <3>4. <<m + i - 1, k>> \in S
      BY <3>2, <3>3, CountedIs
    <3> QED BY <3>2, <3>3, <3>4
  <2>12. f \in Bijection(S, T)
    <3>1. f \in [S -> T]
      BY <2>9
    <3> HIDE DEF f, S, T
    <3>2. f \in Injection(S, T)
      BY <2>10, <3>1, Zenon DEF Injection, IsInjective
    <3>3. f \in Surjection(S, T)
      BY <2>11, <3>1, Zenon DEF Surjection
    <3> QED BY <3>2, <3>3 DEF Bijection
  <2> HIDE DEF f, S, T
  <2>13. IsFiniteSet(T) /\ Cardinality(T) = Cardinality(S)
    BY <2>12, FS_Bijection DEF ExistsBijection, S
  <2> QED BY <2>6, <2>13 DEF S, T, short
<1> QED BY <1>7, <1>8

(* A message that comes now is counted in the window as it is among what   *)
(* came.                                                                   *)
LEMMA EnteredAgrees ==
  ASSUME NEW now \in Nat, NEW window, NEW list \in Seq(Nat),
         Ordered(window, now), Agree(window, list, now)
  PROVE  Ordered(Entered(window, now), now) /\ Agree(Entered(window, now), Append(list, now), now)
<1> DEFINE raised == [window EXCEPT ![Len(window)].count = @ + 1]
           longer == Append(window, [second |-> SecondStart(now), count |-> 1])
           More(w, from) ==
             /\ Ordered(w, now) /\ IsFiniteSet(CountedSince(w, from))
             /\ Cardinality(CountedSince(w, from)) = Cardinality(Came(Append(list, now), from))
<1>1. SUFFICES ASSUME NEW from \in Int, from >= Cutoff(now)
               PROVE  More(Entered(window, now), from)
  <2>1. Cutoff(now) \in Int /\ Cutoff(now) >= Cutoff(now)
    BY SamplerAssumption DEF Cutoff
  <2> QED BY <1>1, <2>1 DEF Agree
<1>2. IsFiniteSet(CountedSince(window, from))
      /\ Cardinality(CountedSince(window, from)) = Cardinality(Came(list, from))
  BY <1>1 DEF Agree
<1>3. Cardinality(Came(Append(list, now), from)) =
        Cardinality(CountedSince(window, from)) + (IF SecondStart(now) >= from THEN 1 ELSE 0)
  BY <1>2, CameGrows
<1>4. CASE window # <<>> /\ Last(window).second = SecondStart(now)
  <2>1. Entered(window, now) = raised
    BY <1>4 DEF Entered
  <2>2. /\ Ordered(raised, now) /\ IsFiniteSet(CountedSince(raised, from))
        /\ Cardinality(CountedSince(raised, from)) =
             Cardinality(CountedSince(window, from)) + (IF SecondStart(now) >= from THEN 1 ELSE 0)
    BY <1>2, <1>4, LastRaised
  <2> HIDE DEF raised
  <2> QED BY <1>3, <2>1, <2>2
<1>5. CASE ~(window # <<>> /\ Last(window).second = SecondStart(now))
  <2>1. Entered(window, now) = IF Len(longer) > PruneAbove THEN Pruned(longer, now) ELSE longer
    BY <1>5 DEF Entered
  <2>2. /\ Ordered(longer, now) /\ IsFiniteSet(CountedSince(longer, from))
        /\ Cardinality(CountedSince(longer, from)) =
             Cardinality(CountedSince(window, from)) + (IF SecondStart(now) >= from THEN 1 ELSE 0)
    BY <1>2, <1>5, SecondAdded
  <2> HIDE DEF longer
  <2>3. More(longer, from)
    BY <1>3, <2>2
  <2>4. More(Pruned(longer, now), from)
    BY <1>1, <2>3, PrunedKeeps
  <2> QED BY <2>1, <2>3, <2>4
<1> QED BY <1>4, <1>5

(* As time goes on a window stays in order, and agrees from fewer instants.*)
LEMMA LaterAgrees ==
  ASSUME NEW now \in Nat, NEW window, NEW list, Ordered(window, now), Agree(window, list, now)
  PROVE  Ordered(window, now + 1) /\ Agree(window, list, now + 1)
<1>1. SecondStart(now) \in Nat /\ SecondStart(now + 1) \in Nat /\ SecondStart(now) <= SecondStart(now + 1)
  BY SecondsInOrder
<1>2. Cutoff(now) \in Int /\ Cutoff(now + 1) = Cutoff(now) + 1
  <2>1. PICK w \in Int : w = WindowSecs * SecondTicks
    BY SamplerAssumption
  <2> QED BY <2>1 DEF Cutoff
<1>3. \A i \in 1..Len(window) : window[i].second \in Nat
  BY EntryOf DEF Ordered
<1>4. Ordered(window, now + 1)
  BY <1>1, <1>3 DEF Ordered
<1>5. Agree(window, list, now + 1)
  BY <1>2 DEF Agree
<1> QED BY <1>4, <1>5

LEMMA NothingAgrees ==
  ASSUME NEW now
  PROVE  Ordered(<<>>, now) /\ Agree(<<>>, <<>>, now)
<1>1. \A from : CountedSince(<<>>, from) = {} /\ Came(<<>>, from) = {}
  BY CountedIs DEF Came
<1>2. IsFiniteSet({})
  BY FS_EmptySet
<1> QED BY <1>1, <1>2 DEF Ordered, Agree

LEMMA SamplerFresh ==
  ASSUME NEW kind \in {"fixed", "velocity"}, sampler' = Initial(kind), heard' = <<>>, clock' \in Nat
  PROVE  SamplerInv'
<1>1. /\ sampler'.kind = kind /\ sampler'.last = NoSample /\ sampler'.window = <<>>
      /\ sampler'.interval = Initial(kind).interval
      /\ sampler' = [kind |-> kind, last |-> NoSample, window |-> <<>>, interval |-> Initial(kind).interval]
  BY DEF Initial
<1>2. /\ Initial(kind).interval \in Nat \X Nat
      /\ kind = "velocity" => Within(Initial(kind).interval)
  BY InitialWithin
<1>3. Ordered(<<>>, clock') /\ Agree(<<>>, <<>>, clock')
  BY NothingAgrees
<1>4. sampler' \in [kind : {"fixed", "velocity"}, last : Nat \union {NoSample},
                    window : Seq(Entries), interval : Nat \X Nat]
  <2>1. <<>> \in Seq(Entries)
    OBVIOUS
  <2> QED BY <1>1, <1>2, <2>1
<1> QED BY <1>1, <1>2, <1>3, <1>4 DEF SamplerInv

LEMMA SamplerStep == SamplerInv /\ [SamplerNext]_samplerVars => SamplerInv'
<1> SUFFICES ASSUME SamplerInv, [SamplerNext]_samplerVars
             PROVE  SamplerInv'
  OBVIOUS
<1> DEFINE Samplers == [kind : {"fixed", "velocity"}, last : Nat \union {NoSample},
                        window : Seq(Entries), interval : Nat \X Nat]
<1>1. /\ clock \in Nat /\ heard \in Seq(Nat) /\ sampler \in Samplers
      /\ sampler.kind \in {"fixed", "velocity"}
      /\ sampler.kind = "velocity" =>
           /\ Ordered(sampler.window, clock) /\ Agree(sampler.window, heard, clock)
           /\ Within(sampler.interval)
           /\ sampler.last # NoSample =>
                sampler.interval = Adjusted(Cardinality(Came(basis, Cutoff(sampler.last))))
  BY DEF SamplerInv
<1>2. CASE RecordInSampler
  <2>1. heard' = Append(heard, clock) /\ clock' = clock /\ basis' = basis
    BY <1>2 DEF RecordInSampler
  <2>2. heard' \in Seq(Nat)
    BY <1>1, <2>1, AppendProperties
  <2>3. CASE sampler.kind = "fixed"
    BY <1>1, <1>2, <2>1, <2>2, <2>3 DEF RecordInSampler, SamplerInv
  <2>4. CASE sampler.kind = "velocity"
    <3>1. sampler' = [sampler EXCEPT !.window = Entered(sampler.window, clock)]
      BY <1>2, <2>4 DEF RecordInSampler
    <3>2. Ordered(Entered(sampler.window, clock), clock) /\ Agree(Entered(sampler.window, clock), heard', clock)
      BY <1>1, <2>1, <2>4, EnteredAgrees
    <3>3. Entered(sampler.window, clock) \in Seq(Entries)
      BY <3>2 DEF Ordered
    <3>4. /\ sampler' \in Samplers /\ sampler'.kind = "velocity" /\ sampler'.last = sampler.last
          /\ sampler'.window = Entered(sampler.window, clock) /\ sampler'.interval = sampler.interval
      BY <1>1, <2>4, <3>1, <3>3
    <3> QED BY <1>1, <2>1, <2>2, <2>4, <3>2, <3>4 DEF SamplerInv
  <2> QED BY <1>1, <2>3, <2>4
<1>3. CASE MarkSampled
  <2>1. basis' = heard /\ clock' = clock /\ heard' = heard
    BY <1>3 DEF MarkSampled
  <2> DEFINE chosen == IF sampler.kind = "fixed" THEN sampler.interval
                       ELSE Adjusted(Recent(sampler.window, clock))
  <2>2. PICK next : sampler' = [sampler EXCEPT !.last = clock, !.interval = next] /\ next = chosen
    BY <1>3 DEF MarkSampled
  <2>3. sampler.kind = "velocity" =>
          /\ next = Adjusted(Cardinality(Came(heard, Cutoff(clock))))
          /\ next \in Nat \X Nat /\ Within(next)
    <3> SUFFICES ASSUME sampler.kind = "velocity"
                 PROVE  /\ next = Adjusted(Cardinality(Came(heard, Cutoff(clock))))
                        /\ next \in Nat \X Nat /\ Within(next)
      OBVIOUS
    <3>1. Cutoff(clock) \in Int /\ Cutoff(clock) >= Cutoff(clock)
      BY <1>1, SamplerAssumption DEF Cutoff
    <3>2. Recent(sampler.window, clock) = Cardinality(Came(heard, Cutoff(clock)))
      BY <1>1, <3>1 DEF Agree, Recent
    <3>3. Cardinality(Came(heard, Cutoff(clock))) \in Nat
      BY <1>1, <3>1, CameGrows
    <3> QED BY <2>2, <3>2, <3>3, AdjustedWithin
  <2>4. sampler.interval \in Nat \X Nat
    BY <1>1
  <2>5. next \in Nat \X Nat
    BY <1>1, <2>2, <2>3, <2>4
  <2>6. /\ sampler' \in Samplers /\ sampler'.kind = sampler.kind /\ sampler'.last = clock
        /\ sampler'.window = sampler.window /\ sampler'.interval = next
    BY <1>1, <2>2, <2>5
  <2> HIDE DEF chosen
  <2> QED BY <1>1, <2>1, <2>3, <2>6 DEF SamplerInv
<1>4. CASE ResetSampler
  BY <1>1, <1>4, SamplerFresh DEF ResetSampler
<1>5. CASE Tick
  <2>1. clock' = clock + 1 /\ sampler' = sampler /\ heard' = heard /\ basis' = basis
    BY <1>5 DEF Tick
  <2>2. sampler.kind = "velocity" =>
          Ordered(sampler.window, clock + 1) /\ Agree(sampler.window, heard, clock + 1)
    BY <1>1, LaterAgrees
  <2> QED BY <1>1, <2>1, <2>2 DEF SamplerInv
<1>6. CASE UNCHANGED samplerVars
  BY <1>6 DEF samplerVars, SamplerInv
<1> QED BY <1>2, <1>3, <1>4, <1>5, <1>6 DEF SamplerNext

(* For any bounds, target, window and threshold of pruning, the interval   *)
(* that a sample chooses is the one for exactly the messages that came in  *)
(* the window before it, and no sample is overdue by the longest one.      *)
THEOREM IntervalIsRight == SamplerSpec => []IntervalFollowsMessages
<1>1. SamplerInit => SamplerInv
  <2> SUFFICES ASSUME SamplerInit PROVE SamplerInv
    OBVIOUS
  <2>1. PICK kind \in {"fixed", "velocity"} : sampler = Initial(kind)
    BY DEF SamplerInit
  <2>2. /\ sampler.kind = kind /\ sampler.last = NoSample /\ sampler.window = <<>>
        /\ sampler.interval = Initial(kind).interval
        /\ sampler = [kind |-> kind, last |-> NoSample, window |-> <<>>, interval |-> Initial(kind).interval]
    BY <2>1 DEF Initial
  <2>3. /\ Initial(kind).interval \in Nat \X Nat
        /\ kind = "velocity" => Within(Initial(kind).interval)
    BY InitialWithin
  <2>4. Ordered(<<>>, 0) /\ Agree(<<>>, <<>>, 0)
    BY NothingAgrees
  <2>5. clock = 0 /\ heard = <<>> /\ <<>> \in Seq(Entries) /\ <<>> \in Seq(Nat)
    BY DEF SamplerInit
  <2>6. sampler \in [kind : {"fixed", "velocity"}, last : Nat \union {NoSample},
                     window : Seq(Entries), interval : Nat \X Nat]
    BY <2>2, <2>3, <2>5
  <2> QED BY <2>2, <2>3, <2>4, <2>5, <2>6 DEF SamplerInv
<1>2. SamplerInv => IntervalFollowsMessages
  <2> SUFFICES ASSUME SamplerInv, sampler.kind = "velocity"
               PROVE  /\ sampler.last # NoSample =>
                           sampler.interval = Adjusted(Cardinality(Came(basis, Cutoff(sampler.last))))
                      /\ MinSecs * SecondTicks * sampler.interval[2] <= sampler.interval[1]
                      /\ sampler.last # NoSample /\ clock - sampler.last >= MaxSecs * SecondTicks => ShouldSample
    BY Zenon DEF IntervalFollowsMessages, Came
  <2>1. Within(sampler.interval) /\ sampler.interval[1] \in Nat /\ sampler.interval[2] \in Nat
        /\ sampler.last \in Nat \union {NoSample} /\ clock \in Nat
    BY DEF SamplerInv
  <2>2. ASSUME sampler.last # NoSample, clock - sampler.last >= MaxSecs * SecondTicks
        PROVE  ShouldSample
    <3> DEFINE high == MaxSecs * SecondTicks
    <3>1. high \in Nat
      BY BoundsInTicks
    <3>2. PICK elapsed \in Nat : elapsed = clock - sampler.last
      BY <2>1, <2>2, <3>1
    <3>3. high <= elapsed
      BY <2>2, <3>2
    <3> HIDE DEF high
    <3>4. high * sampler.interval[2] <= elapsed * sampler.interval[2]
          /\ high * sampler.interval[2] \in Nat /\ elapsed * sampler.interval[2] \in Nat
      BY <2>1, <3>1, <3>3, Scaled
    <3>5. sampler.interval[1] <= high * sampler.interval[2]
      BY <2>1 DEF Within, high
    <3>6. elapsed * sampler.interval[2] >= sampler.interval[1]
      BY <2>1, <3>4, <3>5
    <3> QED BY <3>2, <3>6 DEF ShouldSample
  <2> QED BY <2>1, <2>2 DEF SamplerInv, Within
<1> QED
  BY <1>1, <1>2, SamplerStep, PTL DEF SamplerSpec

=============================================================================
