----------------------------- MODULE QueryProofs -----------------------------
(***************************************************************************)
(* The queries that look items up answer with what follows from the items  *)
(* in the collection: QueriesAgree as a theorem.                           *)
(*                                                                         *)
(* It is a consequence of Sync, which says what an index that mirrors the  *)
(* store holds, and of facts about one index: its keys are the keys of the *)
(* items it is entitled to see, and what it has under a key are their ids. *)
(***************************************************************************)
EXTENDS Queries, SyncProofs

-----------------------------------------------------------------------------
(* Items.                                                                  *)

LEMMA itemLaw == \A i, j : item(i).id = i /\ (item(i) = item(j) => i = j)
  BY DEF item

(* What ids of the store stand for. *)
LEMMA WithLaw ==
  ASSUME NEW S, S \subseteq Occupied(store)
  PROVE  With(S) = {item(id) : id \in S}
  BY itemLaw DEF With, toList

LEMMA itemsLaw ==
  ASSUME NEW S \in SUBSET Occupied(store)
  PROVE  items(S) = With(S) /\ items(Absent) = With({})
  <1>1. S # Absent
    <2>1. S \in SUBSET Ids
      BY DEF Occupied
    <2> QED BY <2>1, AbsentAssumption
  <1>2. With(S) = {item(id) : id \in S} /\ With({}) = {}
    BY WithLaw
  <1> QED BY <1>1, <1>2 DEF items

(* A query has an answer if there is an item to answer with. *)
LEMMA OneOfLaw ==
  ASSUME NEW S \in SUBSET Occupied(store)
  PROVE  OneOf(With(S)) = IF S = {} THEN {Undefined} ELSE With(S)
  <1>1. With(S) = {item(id) : id \in S}
    BY WithLaw
  <1>2. With(S) = {} <=> S = {}
    BY <1>1
  <1> QED BY <1>2 DEF OneOf

-----------------------------------------------------------------------------
(* What an index is entitled to see.                                       *)

(* The keys of the items in p, and the ids in use. *)
KeysOf(p) == {p[i] : i \in Occupied(p)}

LEMMA KeysOfLaw ==
  ASSUME NEW p \in Stores(Key)
  PROVE  /\ IsFiniteSet(Occupied(p)) /\ IsFiniteSet(KeysOf(p))
         /\ Cardinality(KeysOf(p)) \in Nat /\ Cardinality(KeysOf(p)) <= MaxId + 1
         /\ KeysOf(p) \subseteq Key
         /\ \A k \in Key : k \in KeysOf(p) <=> FiledUnder(k, p) # {}
         /\ \A k \in Key : FiledUnder(k, p) \subseteq Occupied(p)
  <1> DEFINE f == [i \in Occupied(p) |-> p[i]]
  <1>1. IsFiniteSet(Ids) /\ Cardinality(Ids) = MaxId + 1
    BY FS_Interval, MaxIdAssumption DEF Ids
  <1>2. IsFiniteSet(Occupied(p)) /\ Cardinality(Occupied(p)) <= MaxId + 1
    <2>1. Occupied(p) \in SUBSET Ids
      BY DEF Occupied
    <2> QED BY <1>1, <2>1, FS_Subset
  <1>3. f \in Surjection(Occupied(p), KeysOf(p))
    BY DEF Surjection, KeysOf
  <1>4. IsFiniteSet(KeysOf(p)) /\ Cardinality(KeysOf(p)) <= Cardinality(Occupied(p))
    BY <1>2, <1>3, FS_Surjection
  <1>5. Cardinality(KeysOf(p)) \in Nat /\ Cardinality(Occupied(p)) \in Nat
    BY <1>2, <1>4, FS_CardinalityType
  <1>6. Cardinality(KeysOf(p)) <= MaxId + 1
    BY <1>2, <1>4, <1>5, MaxIdAssumption
  <1>7. KeysOf(p) \subseteq Key
    BY DEF KeysOf, Occupied, Stores
  <1>8. \A k \in Key : k # Absent
    BY AbsentAssumption
  <1>9. \A k \in Key : FiledUnder(k, p) \subseteq Occupied(p)
    BY <1>8 DEF FiledUnder, Occupied
  <1>10. \A k \in Key : k \in KeysOf(p) <=> FiledUnder(k, p) # {}
    BY <1>8 DEF FiledUnder, Occupied, KeysOf
  <1> QED BY <1>2, <1>4, <1>5, <1>6, <1>7, <1>9, <1>10

(* The buckets of an index that mirrors p. *)
LEMMA BucketsLaw ==
  ASSUME NEW p \in Stores(Key), NEW state, state = BucketsOf(p),
         Occupied(p) \subseteq Occupied(store)
  PROVE  /\ Keys(state) = KeysOf(p)
         /\ \A k \in Key : items(state[k]) = With(FiledUnder(k, p))
  <1>1. \A k \in Key : state[k] = IF FiledUnder(k, p) = {} THEN Absent ELSE FiledUnder(k, p)
    BY DEF BucketsOf
  <1>2. \A k \in Key : FiledUnder(k, p) \in SUBSET Occupied(store)
    BY KeysOfLaw
  <1>3. \A k \in Key : FiledUnder(k, p) # Absent
    BY AbsentAssumption DEF FiledUnder
  <1>4. Keys(state) = KeysOf(p)
    <2>1. \A k \in Key : k \in KeysOf(p) <=> state[k] # Absent
      BY <1>1, <1>3, KeysOfLaw
    <2>2. KeysOf(p) \subseteq Key
      BY KeysOfLaw
    <2> QED BY <2>1, <2>2 DEF Keys
  <1>5. ASSUME NEW k \in Key PROVE items(state[k]) = With(FiledUnder(k, p))
    <2>1. items(FiledUnder(k, p)) = With(FiledUnder(k, p)) /\ items(Absent) = With({})
      BY <1>2, itemsLaw
    <2> QED BY <1>1, <2>1
  <1> QED BY <1>4, <1>5

LEMMA BucketQueries ==
  ASSUME NEW p \in Stores(Key), NEW state, state = BucketsOf(p),
         Occupied(p) \subseteq Occupied(store)
  PROVE  BucketQueriesAgree(state, p)
  BY BucketsLaw DEF BucketQueriesAgree, countDistinct, eq, KeysOf

LEMMA UniqueQueries ==
  ASSUME NEW p \in Stores(Key), NEW state, UniqueMirrors(state, p),
         Occupied(p) \subseteq Occupied(store)
  PROVE  UniqueQueriesAgree(state, p)
  <1> DEFINE f == [i \in Occupied(p) |-> p[i]]
  <1>1. \A k \in Key : FiledUnder(k, p) = IF state[k] = Absent THEN {} ELSE {state[k]}
    BY DEF UniqueMirrors
  <1>2. Keys(state) = KeysOf(p)
    <2>1. \A k \in Key : k \in KeysOf(p) <=> state[k] # Absent
      BY <1>1, KeysOfLaw
    <2>2. KeysOf(p) \subseteq Key
      BY KeysOfLaw
    <2> QED BY <2>1, <2>2 DEF Keys
  <1>3. \A i, j \in Occupied(p) : p[i] = p[j] => i = j
    <2> SUFFICES ASSUME NEW i \in Occupied(p), NEW j \in Occupied(p), p[i] = p[j]
                 PROVE  i = j
      OBVIOUS
    <2>1. p[i] \in Key /\ i \in FiledUnder(p[i], p) /\ j \in FiledUnder(p[i], p)
      BY DEF Occupied, FiledUnder, Stores
    <2> QED BY <1>1, <2>1
  <1>4. f \in Bijection(Occupied(p), KeysOf(p))
    BY <1>3 DEF Bijection, Injection, Surjection, IsInjective, KeysOf
  <1>5. Cardinality(KeysOf(p)) = Cardinality(Occupied(p))
    BY <1>4, KeysOfLaw, FS_Bijection DEF ExistsBijection
  <1>6. ASSUME NEW k \in Key PROVE uniqueEq(state, k) = With(FiledUnder(k, p))
    <2>1. FiledUnder(k, p) \subseteq Occupied(store)
      BY KeysOfLaw
    <2>2. With(FiledUnder(k, p)) = {item(id) : id \in FiledUnder(k, p)}
      BY <2>1, WithLaw
    <2> QED BY <1>1, <2>2 DEF uniqueEq
  <1> QED BY <1>2, <1>5, <1>6 DEF UniqueQueriesAgree, countDistinct

-----------------------------------------------------------------------------
(* The ordered queries of a btree.  Its keys are numbers.                  *)

LEMMA ExtremeLaw ==
  ASSUME Key \subseteq Int, NEW p \in Stores(Key)
  PROVE  /\ KeysOf(p) = {} => Extreme(p, 1) = {} /\ Extreme(p, -1) = {}
         /\ KeysOf(p) # {} =>
              /\ Max(KeysOf(p)) \in Key /\ Min(KeysOf(p)) \in Key
              /\ Extreme(p, 1) = FiledUnder(Max(KeysOf(p)), p)
              /\ Extreme(p, -1) = FiledUnder(Min(KeysOf(p)), p)
              /\ Extreme(p, 1) # {} /\ Extreme(p, -1) # {}
         /\ Extreme(p, 1) \subseteq Occupied(p) /\ Extreme(p, -1) \subseteq Occupied(p)
  <1>1. Extreme(p, 1) \subseteq Occupied(p) /\ Extreme(p, -1) \subseteq Occupied(p)
    BY DEF Extreme
  <1>2. KeysOf(p) = {} => Extreme(p, 1) = {} /\ Extreme(p, -1) = {}
    BY <1>1 DEF KeysOf
  <1>3. ASSUME KeysOf(p) # {}
        PROVE  /\ Max(KeysOf(p)) \in Key /\ Min(KeysOf(p)) \in Key
               /\ Extreme(p, 1) = FiledUnder(Max(KeysOf(p)), p)
               /\ Extreme(p, -1) = FiledUnder(Min(KeysOf(p)), p)
               /\ Extreme(p, 1) # {} /\ Extreme(p, -1) # {}
    <2> DEFINE h == Max(KeysOf(p))
               l == Min(KeysOf(p))
    <2>1. IsFiniteSet(KeysOf(p)) /\ KeysOf(p) \subseteq Key
      BY KeysOfLaw
    <2>2. /\ \E x \in KeysOf(p) : \A y \in KeysOf(p) : x >= y
          /\ \E x \in KeysOf(p) : \A y \in KeysOf(p) : x <= y
      <3>1. KeysOf(p) \subseteq Int
        BY <2>1
      <3> QED BY <1>3, <2>1, <3>1, ExtremesExist
    <2>3. h \in KeysOf(p) /\ \A y \in KeysOf(p) : h >= y
      BY <2>2 DEF Max
    <2>4. l \in KeysOf(p) /\ \A y \in KeysOf(p) : l <= y
      BY <2>2 DEF Min
    <2> HIDE DEF h, l
    <2>5. \A i \in Occupied(p) : p[i] \in KeysOf(p) /\ p[i] \in Int
      BY <2>1 DEF KeysOf
    <2>6. PICK ih \in Occupied(p) : p[ih] = h
      BY <2>3 DEF KeysOf
    <2>7. PICK il \in Occupied(p) : p[il] = l
      BY <2>4 DEF KeysOf
    <2>8. /\ \A k \in Key : FiledUnder(k, p) = {i \in Occupied(p) : p[i] = k}
      BY AbsentAssumption DEF FiledUnder, Occupied
    <2>9. h \in Int /\ l \in Int /\ h \in Key /\ l \in Key
      BY <2>1, <2>3, <2>4
    <2>10. ASSUME NEW i \in Occupied(p)
           PROVE  (\A o \in Occupied(p) : 1 * p[o] <= 1 * p[i]) <=> p[i] = h
      <3>1. p[i] \in Int /\ h >= p[i]
        BY <2>3, <2>5
      <3>2. ASSUME p[i] = h, NEW o \in Occupied(p) PROVE 1 * p[o] <= 1 * p[i]
        BY <2>3, <2>5, <3>1, <3>2
      <3>3. ASSUME 1 * p[ih] <= 1 * p[i] PROVE p[i] = h
        BY <2>6, <2>9, <3>1, <3>3
      <3> QED BY <3>2, <3>3
    <2>11. ASSUME NEW i \in Occupied(p)
           PROVE  (\A o \in Occupied(p) : (-1) * p[o] <= (-1) * p[i]) <=> p[i] = l
      <3>1. p[i] \in Int /\ l <= p[i]
        BY <2>4, <2>5
      <3>2. ASSUME p[i] = l, NEW o \in Occupied(p) PROVE (-1) * p[o] <= (-1) * p[i]
        BY <2>4, <2>5, <3>1, <3>2
      <3>3. ASSUME (-1) * p[il] <= (-1) * p[i] PROVE p[i] = l
        BY <2>7, <2>9, <3>1, <3>3
      <3> QED BY <3>2, <3>3
    <2>12. Extreme(p, 1) = {i \in Occupied(p) : p[i] = h}
      BY <2>10 DEF Extreme
    <2>13. Extreme(p, -1) = {i \in Occupied(p) : p[i] = l}
      BY <2>11 DEF Extreme
    <2>14. Extreme(p, 1) = FiledUnder(h, p) /\ Extreme(p, -1) = FiledUnder(l, p)
      BY <2>8, <2>9, <2>12, <2>13
    <2>15. Extreme(p, 1) # {} /\ Extreme(p, -1) # {}
      BY <2>6, <2>7, <2>12, <2>13
    <2> QED BY <2>9, <2>14, <2>15 DEF h, l
  <1> QED BY <1>1, <1>2, <1>3

(* Without a limit, a range is all keys from lo to hi. *)
LEMMA getRangeLaw ==
  ASSUME Key \subseteq Int, NEW p \in Stores(Key), NEW state, Keys(state) = KeysOf(p),
         NEW lo \in Key, NEW hi \in Key
  PROVE  getRange(state, lo, hi, Unlimited) = {k \in KeysOf(p) : lo <= k /\ k <= hi}
  <1> SUFFICES ASSUME NEW k \in KeysOf(p)
               PROVE  Cardinality({l \in KeysOf(p) : lo <= l /\ l < k}) < Unlimited
    BY DEF getRange
  <1> DEFINE below == {l \in KeysOf(p) : lo <= l /\ l < k}
  <1>1. /\ IsFiniteSet(KeysOf(p)) /\ KeysOf(p) \subseteq Key
        /\ Cardinality(KeysOf(p)) \in Nat /\ Cardinality(KeysOf(p)) <= MaxId + 1
    BY KeysOfLaw
  <1>2. k \notin below /\ below \in SUBSET KeysOf(p)
    <2>1. k \in Int
      BY <1>1
    <2>2. ~ (k < k)
      BY <2>1
    <2> QED BY <2>2
  <1>3. below # KeysOf(p)
    BY <1>2
  <1> HIDE DEF below
  <1>4. /\ IsFiniteSet(below) /\ Cardinality(below) <= Cardinality(KeysOf(p))
        /\ Cardinality(below) # Cardinality(KeysOf(p))
    BY <1>1, <1>2, <1>3, FS_Subset
  <1>5. Cardinality(below) \in Nat
    BY <1>4, FS_CardinalityType
  <1>6. Cardinality(below) < MaxId + 1
    BY <1>1, <1>4, <1>5, MaxIdAssumption
  <1> QED BY <1>6 DEF below, Unlimited

(* A limit takes the smallest keys of a range. *)
LEMMA LimitLaw ==
  ASSUME Key \subseteq Int, NEW p \in Stores(Key), NEW state, Keys(state) = KeysOf(p),
         NEW lo \in Key, NEW hi \in Key, NEW limit \in Nat,
         NEW k \in getRange(state, lo, hi, limit),
         NEW l \in KeysOf(p), lo <= l, l <= k
  PROVE  l \in getRange(state, lo, hi, limit)
  <1> DEFINE below(x) == {o \in KeysOf(p) : lo <= o /\ o < x}
  <1>1. IsFiniteSet(KeysOf(p)) /\ KeysOf(p) \subseteq Key
    BY KeysOfLaw
  <1>2. /\ k \in KeysOf(p) /\ lo <= k /\ k <= hi
        /\ Cardinality(below(k)) < limit
    BY DEF getRange
  <1>3. k \in Int /\ l \in Int /\ hi \in Int /\ lo \in Int /\ \A o \in KeysOf(p) : o \in Int
    BY <1>1, <1>2
  <1>4. l <= hi
    BY <1>2, <1>3
  <1>5. below(l) \in SUBSET below(k) /\ below(k) \in SUBSET KeysOf(p)
    <2>1. \A o \in KeysOf(p) : o < l => o < k
      BY <1>3
    <2> QED BY <2>1
  <1> HIDE DEF below
  <1>6. IsFiniteSet(below(k))
    BY <1>1, <1>5, FS_Subset
  <1>7. IsFiniteSet(below(l)) /\ Cardinality(below(l)) <= Cardinality(below(k))
    BY <1>5, <1>6, FS_Subset
  <1>8. Cardinality(below(l)) \in Nat /\ Cardinality(below(k)) \in Nat
    BY <1>6, <1>7, FS_CardinalityType
  <1>9. Cardinality(below(l)) < limit
    BY <1>2, <1>7, <1>8
  <1> QED BY <1>4, <1>9 DEF getRange, below

LEMMA OrderedQueries ==
  ASSUME Key \subseteq Int, NEW p \in Stores(Key), NEW state, state = BucketsOf(p),
         Occupied(p) \subseteq Occupied(store)
  PROVE  OrderedQueriesAgree(state, p)
  <1>1. Keys(state) = KeysOf(p) /\ \A k \in Key : items(state[k]) = With(FiledUnder(k, p))
    BY BucketsLaw
  <1>2. Extreme(p, 1) \in SUBSET Occupied(store) /\ Extreme(p, -1) \in SUBSET Occupied(store)
    BY ExtremeLaw
  <1>3. With({}) = {}
    BY WithLaw
  <1>4. /\ OneOf(With(Extreme(p, 1))) = IF Extreme(p, 1) = {} THEN {Undefined} ELSE With(Extreme(p, 1))
        /\ OneOf(With(Extreme(p, -1))) = IF Extreme(p, -1) = {} THEN {Undefined} ELSE With(Extreme(p, -1))
    BY <1>2, OneOfLaw
  <1>5. ASSUME KeysOf(p) = {}
        PROVE  /\ max(state) = With(Extreme(p, 1)) /\ min(state) = With(Extreme(p, -1))
               /\ max1(state) = OneOf(With(Extreme(p, 1)))
               /\ min1(state) = OneOf(With(Extreme(p, -1)))
    <2>1. Extreme(p, 1) = {} /\ Extreme(p, -1) = {}
      BY <1>5, ExtremeLaw
    <2> QED BY <1>1, <1>3, <1>4, <1>5, <2>1 DEF max, min, max1, min1
  <1>6. ASSUME KeysOf(p) # {}
        PROVE  /\ max(state) = With(Extreme(p, 1)) /\ min(state) = With(Extreme(p, -1))
               /\ max1(state) = OneOf(With(Extreme(p, 1)))
               /\ min1(state) = OneOf(With(Extreme(p, -1)))
    <2>1. /\ Max(KeysOf(p)) \in Key /\ Min(KeysOf(p)) \in Key
          /\ Extreme(p, 1) = FiledUnder(Max(KeysOf(p)), p)
          /\ Extreme(p, -1) = FiledUnder(Min(KeysOf(p)), p)
          /\ Extreme(p, 1) # {} /\ Extreme(p, -1) # {}
      BY <1>6, ExtremeLaw
    <2> QED BY <1>1, <1>4, <1>6, <2>1 DEF max, min, max1, min1
  <1>7. ASSUME NEW lo \in Key, NEW hi \in Key
        PROVE  LET full == With(Between(p, lo, hi))
               IN  /\ range(state, lo, hi, Unlimited) = full
                   /\ \A limit \in 1 .. Unlimited :
                        CutsOffEnd(p, range(state, lo, hi, limit), full)
    <2> DEFINE I(K) == {i \in Occupied(p) : p[i] \in K}
    <2>1. ASSUME NEW limit
          PROVE  range(state, lo, hi, limit) = {item(i) : i \in I(getRange(state, lo, hi, limit))}
      <3> DEFINE R == getRange(state, lo, hi, limit)
      <3>1. \A k \in R : k \in Key /\ FiledUnder(k, p) \subseteq Occupied(p)
        BY <1>1, KeysOfLaw DEF getRange
      <3>2. range(state, lo, hi, limit) = UNION {With(FiledUnder(k, p)) : k \in R}
        BY <1>1, <3>1 DEF range
      <3>3. \A k \in R : With(FiledUnder(k, p)) = {item(i) : i \in FiledUnder(k, p)}
        BY <3>1, WithLaw
      <3>4. \A i : i \in I(R) <=> \E k \in R : i \in FiledUnder(k, p)
        BY <3>1 DEF FiledUnder, Occupied
      <3> HIDE DEF R, I
      <3>5. UNION {With(FiledUnder(k, p)) : k \in R} = {item(i) : i \in I(R)}
        BY <3>3, <3>4
      <3> QED BY <3>2, <3>5 DEF R
    <2>2. Between(p, lo, hi) \subseteq Occupied(store)
      BY DEF Between
    <2>3. With(Between(p, lo, hi)) = {item(i) : i \in Between(p, lo, hi)}
      BY <2>2, WithLaw
    <2>4. \A i \in Occupied(p) : p[i] \in KeysOf(p)
      BY DEF KeysOf
    <2>5. range(state, lo, hi, Unlimited) = With(Between(p, lo, hi))
      <3>1. I(getRange(state, lo, hi, Unlimited)) = Between(p, lo, hi)
        BY <1>1, <2>4, getRangeLaw DEF Between
      <3> QED BY <2>1, <2>3, <3>1
    <2>6. ASSUME NEW limit \in 1 .. Unlimited
          PROVE  CutsOffEnd(p, range(state, lo, hi, limit), With(Between(p, lo, hi)))
      <3> DEFINE R == getRange(state, lo, hi, limit)
      <3>1. limit \in Nat
        BY MaxIdAssumption DEF Unlimited
      <3>2. \A k \in R : k \in KeysOf(p) /\ lo <= k /\ k <= hi
        BY <1>1 DEF getRange
      <3>3. I(R) \subseteq Between(p, lo, hi)
        BY <3>2 DEF Between
      <3>4. ASSUME NEW i \in I(R), NEW o \in Between(p, lo, hi), p[o] <= p[i]
            PROVE  o \in I(R)
        <4>1. p[i] \in R /\ o \in Occupied(p) /\ p[o] \in KeysOf(p) /\ lo <= p[o]
          BY <2>4 DEF Between
        <4>2. p[o] \in R
          BY <1>1, <3>1, <3>4, <4>1, LimitLaw
        <4> QED BY <4>1, <4>2
      <3>5. range(state, lo, hi, limit) = {item(i) : i \in I(R)}
        BY <2>1
      <3> HIDE DEF R, I
      <3>6. range(state, lo, hi, limit) \subseteq With(Between(p, lo, hi))
        BY <2>3, <3>3, <3>5
      <3>7. ASSUME NEW x \in range(state, lo, hi, limit),
                   NEW y \in With(Between(p, lo, hi)), p[y.id] <= p[x.id]
            PROVE  y \in range(state, lo, hi, limit)
        <4>1. PICK i \in I(R) : x = item(i)
          BY <3>5
        <4>2. PICK o \in Between(p, lo, hi) : y = item(o)
          BY <2>3
        <4>3. x.id = i /\ y.id = o
          BY <4>1, <4>2, itemLaw
        <4>4. o \in I(R)
          BY <3>4, <3>7, <4>3
        <4> QED BY <3>5, <4>2, <4>4
      <3> QED BY <3>6, <3>7 DEF CutsOffEnd
    <2> QED BY <2>5, <2>6
  <1>8. /\ max(state) = With(Extreme(p, 1))
        /\ min(state) = With(Extreme(p, -1))
        /\ max1(state) = OneOf(With(Extreme(p, 1)))
        /\ min1(state) = OneOf(With(Extreme(p, -1)))
    BY <1>5, <1>6
  <1> QED BY <1>7, <1>8 DEF OrderedQueriesAgree

-----------------------------------------------------------------------------
(* Any index.                                                              *)

(* A btree files items under numbers. *)
LEMMA LeafQueries ==
  ASSUME NEW d \in LeafDescs, NEW state, NEW m \in Stores(Value), LeafMirrors(d, state, m),
         Occupied(m) \subseteq Occupied(store), d.kind = "btree" => Key \subseteq Int
  PROVE  LeafQueriesAgree(d, state, m)
  <1> DEFINE p == Premapped(d.f, m)
  <1>1. p \in Stores(Key) /\ Occupied(p) \subseteq Occupied(m)
    <2>1. d.f \in KeyFunctions
      BY DEF LeafDescs, KeyFunctions
    <2> QED BY <2>1 DEF Premapped, Stores, KeyFunctions, Occupied
  <1>2. /\ d.kind \in {"hash", "btree"} => state = BucketsOf(p)
        /\ d.kind = "unique" => UniqueMirrors(state, p)
    BY DEF LeafMirrors, HashMirrors, BTreeMirrors
  <1> HIDE DEF p
  <1>3. Occupied(p) \subseteq Occupied(store)
    BY <1>1
  <1>4. d.kind \in {"hash", "btree"} => BucketQueriesAgree(state, p)
    BY <1>1, <1>2, <1>3, BucketQueries
  <1>5. d.kind = "btree" => OrderedQueriesAgree(state, p)
    BY <1>1, <1>2, <1>3, OrderedQueries
  <1>6. d.kind = "unique" => UniqueQueriesAgree(state, p)
    BY <1>1, <1>2, <1>3, UniqueQueries
  <1> QED BY <1>4, <1>5, <1>6 DEF LeafQueriesAgree, p

(* The leaves an index is made of. *)
PlainKinds(d) == IF d.kind = "group" THEN {d.inner.kind} ELSE {d.kind}

LEMMA PlainQueries ==
  ASSUME NEW d \in PlainDescs, NEW state, store \in Stores(Value),
         PlainMirrors(d, state, store), "btree" \in PlainKinds(d) => Key \subseteq Int
  PROVE  PlainQueriesAgree(d, state, store)
  <1>1. CASE d \in LeafDescs
    <2>1. d.kind # "group"
      BY <1>1 DEF LeafDescs, LeafKinds
    <2>2. LeafMirrors(d, state, store) /\ (d.kind = "btree" => Key \subseteq Int)
      BY <2>1 DEF PlainMirrors, PlainKinds
    <2> QED BY <1>1, <2>1, <2>2, LeafQueries DEF PlainQueriesAgree
  <1>2. CASE d \in GroupDescs
    <2>1. d.kind = "group" /\ d.inner \in LeafDescs
      BY <1>2 DEF GroupDescs
    <2>2. GroupMirrors(d, state, store) /\ (d.inner.kind = "btree" => Key \subseteq Int)
      BY <2>1 DEF PlainMirrors, PlainKinds
    <2>3. ASSUME NEW g \in Group
          PROVE  /\ MembersOf(d.by, g, store) \in Stores(Value)
                 /\ Occupied(MembersOf(d.by, g, store)) \subseteq Occupied(store)
                 /\ g \notin state.live => Occupied(MembersOf(d.by, g, store)) = {}
      <3>1. \A i \in Ids : store[i] # Absent => d.by[store[i]] \in state.live
        BY <2>2 DEF GroupMirrors
      <3> QED BY <3>1 DEF MembersOf, Stores, Occupied
    <2>4. ASSUME NEW g \in Group
          PROVE  LeafQueriesAgree(d.inner, state.ixs[g], MembersOf(d.by, g, store))
      <3>1. LeafMirrors(d.inner, state.ixs[g], MembersOf(d.by, g, store))
        BY <2>2 DEF GroupMirrors
      <3> QED BY <2>1, <2>2, <2>3, <3>1, LeafQueries
    <2> QED BY <2>1, <2>3, <2>4 DEF PlainQueriesAgree
  <1> QED BY <1>1, <1>2 DEF PlainDescs

Kinds(d) ==
  IF d.kind = "zip" THEN UNION {PlainKinds(d.parts[j]) : j \in 1 .. Len(d.parts)}
                    ELSE PlainKinds(d)

(* Between calls of an intact collection, the queries of hash, unique and  *)
(* btree indexes that look items up give the answer that follows from the  *)
(* items in the collection, with their current values: eq, countDistinct,  *)
(* max, min, max1, min1, and range, of which a limit only cuts off the     *)
(* end.  The keys a btree orders are numbers.                              *)
THEOREM QueriesAgreeCorrect ==
  ASSUME Undefined \notin Value,
         \A d \in Descs : "btree" \in Kinds(d) => Key \subseteq Int
  PROVE  Spec => []QueriesAgree
  <1>1. SyncInv => QueriesAgree
    <2> SUFFICES ASSUME SyncInv, Intact, phase = "idle", NEW j \in 1 .. Len(indexes)
                 PROVE  IF indexes[j].kind # "zip"
                        THEN PlainQueriesAgree(indexes[j], ix[j], store)
                        ELSE \A l \in 1 .. Len(indexes[j].parts) :
                               PlainQueriesAgree(indexes[j].parts[l], ix[j][l], store)
      BY DEF QueriesAgree
    <2>1. store \in Stores(Value) /\ indexes[j] \in Descs /\ indexes[j] \in IndexDescs
      BY DescsAssumption DEF SyncInv, StoreInv, TypeOK
    <2>2. Mirrors(indexes[j], ix[j], store)
      BY DEF SyncInv, Sync, Expected
    <2>3. CASE indexes[j].kind # "zip"
      <3>1. /\ indexes[j] \in PlainDescs /\ PlainMirrors(indexes[j], ix[j], store)
            /\ "btree" \in PlainKinds(indexes[j]) => Key \subseteq Int
        BY <2>1, <2>2, <2>3, IndexKind DEF Mirrors, Kinds
      <3> QED BY <2>1, <2>3, <3>1, PlainQueries
    <2>4. CASE indexes[j].kind = "zip"
      <3>1. ASSUME NEW l \in 1 .. Len(indexes[j].parts)
            PROVE  PlainQueriesAgree(indexes[j].parts[l], ix[j][l], store)
        <4>1. indexes[j].parts[l] \in PlainDescs
          BY <2>1, <2>4, IndexKind
        <4>2. PlainMirrors(indexes[j].parts[l], ix[j][l], store)
          BY <2>2, <2>4 DEF Mirrors
        <4>3. "btree" \in PlainKinds(indexes[j].parts[l]) => Key \subseteq Int
          BY <2>1, <2>4 DEF Kinds
        <4> QED BY <2>1, <4>1, <4>2, <4>3, PlainQueries
      <3> QED BY <2>4, <3>1
    <2> QED BY <2>3, <2>4
  <1> QED BY <1>1, SyncInvariant, PTL
=============================================================================
