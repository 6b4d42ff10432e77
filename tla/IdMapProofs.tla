----------------------------- MODULE IdMapProofs -----------------------------
(***************************************************************************)
(* The theorems of IdMap: types, that empty() is right, and that IdMap and *)
(* its forEach keep the promise of MapPromise.                             *)
(*                                                                         *)
(* EmptyMeansEmpty is not inductive: an inner Map could be left empty next *)
(* to one that is not.  NoneEmpty says that none is, ever.                 *)
(***************************************************************************)
EXTENDS IdMap, SequenceTheorems, TLAPS

NoneEmpty(n) == \A k \in Half : Has(n, k) => MapGet(n, k) # <<>>

IdMapInv == TypeOK /\ NoneEmpty(map)

-----------------------------------------------------------------------------
(* JavaScript's Map: what set and delete do to the other keys.             *)

LEMMA MapLaw ==
  ASSUME NEW V, NEW m \in Maps(V)
  PROVE  /\ Len(m) \in Nat /\ DOMAIN m = 1 .. Len(m)
         /\ m \in Seq([key : Half, value : V])
         /\ \A i \in DOMAIN m : m[i] \in [key : Half, value : V]
         /\ \A i, j \in DOMAIN m : m[i].key = m[j].key => i = j
  <1>1. m \in Seq([key : Half, value : V])
    BY DEF Maps
  <1>2. \A i, j \in DOMAIN m : m[i].key = m[j].key => i = j
    BY DEF Maps
  <1>3. Len(m) \in Nat /\ DOMAIN m = 1 .. Len(m)
    BY <1>1, LenProperties
  <1>4. \A i \in DOMAIN m : m[i] \in [key : Half, value : V]
    BY <1>1, <1>3, ElementOfSeq
  <1> QED BY <1>1, <1>2, <1>3, <1>4

LEMMA PosOfLaw ==
  ASSUME NEW V, NEW m \in Maps(V), NEW k
  PROVE  /\ Has(m, k) => /\ PosOf(m, k) \in DOMAIN m /\ PosOf(m, k) \in 1 .. Len(m)
                         /\ m[PosOf(m, k)].key = k
                         /\ MapGet(m, k) \in V /\ k \in Half
         /\ \A i \in DOMAIN m : m[i].key = k => Has(m, k) /\ PosOf(m, k) = i
  <1>1. Has(m, k) => PosOf(m, k) \in DOMAIN m /\ m[PosOf(m, k)].key = k
    BY DEF Has, PosOf
  <1>2. Has(m, k) => MapGet(m, k) \in V /\ k \in Half /\ PosOf(m, k) \in 1 .. Len(m)
    <2> SUFFICES ASSUME Has(m, k)
                 PROVE  MapGet(m, k) \in V /\ k \in Half /\ PosOf(m, k) \in 1 .. Len(m)
      OBVIOUS
    <2>1. m[PosOf(m, k)] \in [key : Half, value : V] /\ DOMAIN m = 1 .. Len(m)
      BY <1>1, MapLaw
    <2> QED BY <1>1, <2>1 DEF MapGet
  <1>3. ASSUME NEW i \in DOMAIN m, m[i].key = k PROVE Has(m, k) /\ PosOf(m, k) = i
    BY <1>1, <1>3, MapLaw DEF Has
  <1> QED BY <1>1, <1>2, <1>3

(* set of a key that is there: the entries keep their places. *)
LEMMA ReplaceLaw ==
  ASSUME NEW V, NEW m \in Maps(V), NEW k \in Half, NEW v \in V, Has(m, k)
  PROVE  LET r == MapSet(m, k, v)
         IN  /\ r \in Maps(V) /\ Len(r) = Len(m)
             /\ \A i \in DOMAIN m : r[i] = IF i = PosOf(m, k) THEN [key |-> k, value |-> v] ELSE m[i]
  <1> DEFINE r == MapSet(m, k, v)
             p == PosOf(m, k)
             E == [key : Half, value : V]
  <1>1. p \in 1 .. Len(m) /\ m[p].key = k
    BY PosOfLaw
  <1>2. /\ Len(m) \in Nat /\ DOMAIN m = 1 .. Len(m) /\ m \in Seq(E) /\ m[p] \in E
        /\ \A i, j \in DOMAIN m : m[i].key = m[j].key => i = j
    BY <1>1, MapLaw
  <1>3. [m[p] EXCEPT !.value = v] = [key |-> k, value |-> v] /\ [key |-> k, value |-> v] \in E
    BY <1>1, <1>2
  <1>4. r = [m EXCEPT ![p] = [key |-> k, value |-> v]]
    <2>1. r = [m EXCEPT ![p] = [m[p] EXCEPT !.value = v]]
      BY <1>2 DEF MapSet
    <2> QED BY <1>3, <2>1
  <1>5. /\ r \in Seq(E) /\ Len(r) = Len(m)
        /\ \A i \in 1 .. Len(m) : r[i] = IF i = p THEN [key |-> k, value |-> v] ELSE m[i]
    BY <1>1, <1>2, <1>3, <1>4, ExceptSeq
  <1> HIDE DEF r, p
  <1>6. \A i \in 1 .. Len(m) : r[i].key = m[i].key
    BY <1>1, <1>5
  <1>7. DOMAIN r = 1 .. Len(m)
    BY <1>5, LenProperties
  <1>8. r \in Maps(V)
    BY <1>2, <1>5, <1>6, <1>7 DEF Maps
  <1> QED BY <1>2, <1>5, <1>8 DEF r, p

(* set of a new key: it comes last. *)
LEMMA InsertLaw ==
  ASSUME NEW V, NEW m \in Maps(V), NEW k \in Half, NEW v \in V, ~ Has(m, k)
  PROVE  LET r == MapSet(m, k, v)
         IN  /\ r \in Maps(V) /\ Len(r) = Len(m) + 1
             /\ \A i \in DOMAIN m : r[i] = m[i]
             /\ r[Len(m) + 1] = [key |-> k, value |-> v]
  <1> DEFINE r == MapSet(m, k, v)
             E == [key : Half, value : V]
  <1>1. /\ Len(m) \in Nat /\ DOMAIN m = 1 .. Len(m) /\ m \in Seq(E)
        /\ \A i, j \in DOMAIN m : m[i].key = m[j].key => i = j
    BY MapLaw
  <1>2. r = Append(m, [key |-> k, value |-> v]) /\ [key |-> k, value |-> v] \in E
    BY DEF MapSet
  <1>3. /\ r \in Seq(E) /\ Len(r) = Len(m) + 1
        /\ \A i \in 1 .. Len(m) : r[i] = m[i]
        /\ r[Len(m) + 1] = [key |-> k, value |-> v]
    BY <1>1, <1>2, AppendProperties
  <1>4. \A i \in 1 .. Len(m) : m[i].key # k
    BY <1>1 DEF Has
  <1> HIDE DEF r
  <1>5. DOMAIN r = 1 .. Len(m) + 1
    BY <1>3, LenProperties
  <1>6. ASSUME NEW i \in DOMAIN r, NEW j \in DOMAIN r, r[i].key = r[j].key PROVE i = j
    <2>1. CASE i = Len(m) + 1
      <3>1. r[i].key = k
        BY <1>3, <2>1
      <3>2. ~ (j \in 1 .. Len(m))
        BY <1>3, <1>4, <1>6, <3>1
      <3> QED BY <1>1, <1>5, <2>1, <3>2
    <2>2. CASE i \in 1 .. Len(m)
      <3>1. r[i] = m[i] /\ m[i].key # k
        BY <1>3, <1>4, <2>2
      <3>2. j # Len(m) + 1
        BY <1>3, <1>6, <3>1
      <3>3. j \in 1 .. Len(m) /\ r[j] = m[j]
        BY <1>1, <1>3, <1>5, <3>2
      <3> QED BY <1>1, <1>6, <2>2, <3>1, <3>3
    <2> QED BY <1>1, <1>5, <2>1, <2>2
  <1>7. r \in Maps(V)
    BY <1>3, <1>6 DEF Maps
  <1> QED BY <1>1, <1>3, <1>7 DEF r

(* delete: the entries behind the one that goes move up. *)
LEMMA RemoveLaw ==
  ASSUME NEW V, NEW m \in Maps(V), NEW k, Has(m, k)
  PROVE  LET r == MapDelete(m, k)
             p == PosOf(m, k)
         IN  /\ r \in Maps(V) /\ Len(r) = Len(m) - 1
             /\ \A i \in 1 .. Len(m) - 1 : r[i] = IF i < p THEN m[i] ELSE m[i + 1]
  <1> DEFINE r == MapDelete(m, k)
             p == PosOf(m, k)
             E == [key : Half, value : V]
             front == SubSeq(m, 1, p - 1)
             back == SubSeq(m, p + 1, Len(m))
  <1>1. p \in 1 .. Len(m)
    BY PosOfLaw
  <1>2. /\ Len(m) \in Nat /\ DOMAIN m = 1 .. Len(m)
        /\ \A i \in 1 .. Len(m) : m[i] \in E
        /\ \A i, j \in 1 .. Len(m) : m[i].key = m[j].key => i = j
    <2>1. /\ Len(m) \in Nat /\ DOMAIN m = 1 .. Len(m)
          /\ \A i \in DOMAIN m : m[i] \in [key : Half, value : V]
      BY MapLaw
    <2>2. \A i, j \in DOMAIN m : m[i].key = m[j].key => i = j
      BY MapLaw
    <2> QED BY <2>1, <2>2
  <1>3. r = front \o back
    BY DEF MapDelete, RemoveAt
  <1> HIDE DEF r, p, E
  <1>4. /\ front \in Seq(E) /\ Len(front) = p - 1
        /\ \A i \in 1 .. p - 1 : front[i] = m[i]
    <2>1. \A i \in 1 .. p - 1 : m[i] \in E
      BY <1>1, <1>2
    <2>2. 1 \in Int /\ p - 1 \in Int
      BY <1>1
    <2>3. /\ front \in Seq(E) /\ Len(front) = IF 1 <= p - 1 THEN (p - 1) - 1 + 1 ELSE 0
          /\ \A i \in 1 .. (p - 1) - 1 + 1 : front[i] = m[1 + i - 1]
      BY <2>1, <2>2, SubSeqProperties
    <2> HIDE DEF front
    <2>4. Len(front) = p - 1
      BY <1>1, <2>3
    <2>5. \A i \in 1 .. p - 1 : front[i] = m[i]
      BY <1>1, <2>3
    <2> QED BY <2>3, <2>4, <2>5
  <1>5. /\ back \in Seq(E) /\ Len(back) = Len(m) - p
        /\ \A i \in 1 .. Len(m) - p : back[i] = m[p + i]
    <2>1. \A i \in p + 1 .. Len(m) : m[i] \in E
      BY <1>1, <1>2
    <2>2. p + 1 \in Int /\ Len(m) \in Int
      BY <1>1, <1>2
    <2>3. /\ back \in Seq(E) /\ Len(back) = IF p + 1 <= Len(m) THEN Len(m) - (p + 1) + 1 ELSE 0
          /\ \A i \in 1 .. Len(m) - (p + 1) + 1 : back[i] = m[(p + 1) + i - 1]
      BY <2>1, <2>2, SubSeqProperties
    <2> HIDE DEF back
    <2>4. p \in Int /\ Len(m) \in Int /\ p <= Len(m)
      BY <1>1, <1>2
    <2>5. Len(m) - (p + 1) + 1 = Len(m) - p /\ (~ (p + 1 <= Len(m)) => Len(m) - p = 0)
      BY <2>4
    <2>6. Len(back) = Len(m) - p
      BY <2>3, <2>5
    <2>7. ASSUME NEW i \in 1 .. Len(m) - p PROVE back[i] = m[p + i]
      <3>1. back[i] = m[(p + 1) + i - 1]
        BY <2>3, <2>5
      <3>2. (p + 1) + i - 1 = p + i
        BY <2>4
      <3> QED BY <3>1, <3>2
    <2> QED BY <2>3, <2>6, <2>7
  <1> HIDE DEF front, back
  <1>6. /\ r \in Seq(E) /\ Len(r) = Len(front) + Len(back)
        /\ \A i \in 1 .. Len(front) + Len(back) :
             r[i] = IF i <= Len(front) THEN front[i] ELSE back[i - Len(front)]
    BY <1>3, <1>4, <1>5, ConcatProperties
  <1>7. Len(r) = Len(m) - 1
    BY <1>1, <1>2, <1>4, <1>5, <1>6
  <1>8. ASSUME NEW i \in 1 .. Len(m) - 1
        PROVE  r[i] = IF i < p THEN m[i] ELSE m[i + 1]
    <2>1. r[i] = IF i <= p - 1 THEN front[i] ELSE back[i - (p - 1)]
      BY <1>1, <1>2, <1>4, <1>5, <1>6
    <2>2. CASE i < p
      BY <1>1, <1>4, <2>1, <2>2
    <2>3. CASE ~ (i < p)
      <3>1. i - (p - 1) \in 1 .. Len(m) - p /\ p + (i - (p - 1)) = i + 1
        BY <1>1, <1>2, <2>3
      <3>2. back[i - (p - 1)] = m[i + 1]
        BY <1>5, <3>1
      <3> QED BY <1>1, <2>1, <2>3, <3>2
    <2> QED BY <2>2, <2>3
  <1>9. ASSUME NEW i \in 1 .. Len(m) - 1, NEW j \in 1 .. Len(m) - 1, r[i].key = r[j].key
        PROVE  i = j
    <2> DEFINE old(l) == IF l < p THEN l ELSE l + 1
    <2>1. \A l \in 1 .. Len(m) - 1 : old(l) \in 1 .. Len(m) /\ r[l] = m[old(l)]
      BY <1>1, <1>2, <1>8
    <2>2. old(i) = old(j)
      BY <1>2, <1>9, <2>1
    <2> QED BY <1>1, <2>2
  <1>10. DOMAIN r = 1 .. Len(m) - 1
    BY <1>6, <1>7, LenProperties
  <1>11. r \in Maps(V)
    BY <1>6, <1>9, <1>10 DEF Maps, E
  <1> QED BY <1>7, <1>8, <1>11 DEF r, p

(* The same in terms of the methods of Map, for every key. *)
LEMMA SetKeys ==
  ASSUME NEW V, NEW m \in Maps(V), NEW k \in Half, NEW v \in V
  PROVE  LET r == MapSet(m, k, v)
         IN  /\ r \in Maps(V) /\ r # <<>>
             /\ Has(r, k) /\ MapGet(r, k) = v
             /\ PosOf(r, k) = IF Has(m, k) THEN PosOf(m, k) ELSE Len(m) + 1
             /\ \A l \in Half \ {k} :
                  /\ Has(r, l) <=> Has(m, l)
                  /\ Has(m, l) => PosOf(r, l) = PosOf(m, l) /\ MapGet(r, l) = MapGet(m, l)
  <1> DEFINE r == MapSet(m, k, v)
             p == IF Has(m, k) THEN PosOf(m, k) ELSE Len(m) + 1
  <1>1. /\ Len(m) \in Nat /\ DOMAIN m = 1 .. Len(m)
        /\ \A i, j \in DOMAIN m : m[i].key = m[j].key => i = j
    BY MapLaw
  <1>2. /\ Has(m, k) => PosOf(m, k) \in DOMAIN m /\ m[PosOf(m, k)].key = k
        /\ \A i \in DOMAIN m : m[i].key = k => Has(m, k) /\ PosOf(m, k) = i
    BY PosOfLaw
  <1>3. r \in Maps(V) /\ Len(r) = IF Has(m, k) THEN Len(m) ELSE Len(m) + 1
    BY ReplaceLaw, InsertLaw
  <1>4. r[p] = [key |-> k, value |-> v] /\ \A i \in DOMAIN m : i # p => r[i] = m[i]
    <2>1. CASE Has(m, k)
      BY <1>2, <2>1, ReplaceLaw
    <2>2. CASE ~ Has(m, k)
      BY <2>2, InsertLaw
    <2> QED BY <2>1, <2>2
  <1>5. p \in DOMAIN r /\ DOMAIN r = DOMAIN m \cup {p}
    <2>1. DOMAIN r = 1 .. Len(r)
      BY <1>3, MapLaw
    <2>2. CASE Has(m, k)
      BY <1>1, <1>2, <1>3, <2>1, <2>2
    <2>3. CASE ~ Has(m, k)
      BY <1>1, <1>3, <2>1, <2>3
    <2> QED BY <2>2, <2>3
  <1> HIDE DEF r
  <1>6. Has(r, k) /\ PosOf(r, k) = p
    BY <1>3, <1>4, <1>5, PosOfLaw
  <1>7. MapGet(r, k) = v
    BY <1>4, <1>6 DEF MapGet
  <1>8. ASSUME NEW l \in Half \ {k}
        PROVE  /\ Has(r, l) <=> Has(m, l)
               /\ Has(m, l) => PosOf(r, l) = PosOf(m, l) /\ MapGet(r, l) = MapGet(m, l)
    <2>1. \A i \in DOMAIN r : r[i].key = l => i \in DOMAIN m /\ m[i].key = l /\ r[i] = m[i]
      BY <1>4, <1>5
    <2>2. \A i \in DOMAIN m : m[i].key = l => i \in DOMAIN r /\ r[i].key = l /\ r[i] = m[i]
      BY <1>2, <1>4, <1>5
    <2>3. Has(r, l) <=> Has(m, l)
      BY <2>1, <2>2 DEF Has
    <2>4. ASSUME Has(m, l) PROVE PosOf(r, l) = PosOf(m, l) /\ MapGet(r, l) = MapGet(m, l)
      <3>1. PosOf(m, l) \in DOMAIN m /\ m[PosOf(m, l)].key = l
        BY <2>4, PosOfLaw
      <3>2. PosOf(r, l) = PosOf(m, l)
        BY <1>3, <2>2, <3>1, PosOfLaw
      <3> QED BY <2>2, <3>1, <3>2 DEF MapGet
    <2> QED BY <2>3, <2>4
  <1>9. r # <<>>
    BY <1>5
  <1> QED BY <1>3, <1>6, <1>7, <1>8, <1>9 DEF r

(* set takes nothing away. *)
LEMMA SetGrows ==
  ASSUME NEW V, NEW m \in Maps(V), NEW k \in Half, NEW v \in V
  PROVE  LET r == MapSet(m, k, v)
         IN  /\ Len(r) \in {Len(m), Len(m) + 1}
             /\ \A i \in DOMAIN m :
                  \/ r[i] = m[i]
                  \/ i = PosOf(m, k) /\ Has(m, k) /\ r[i].value = v
  <1> DEFINE r == MapSet(m, k, v)
  <1>1. Len(r) = IF Has(m, k) THEN Len(m) ELSE Len(m) + 1
    BY ReplaceLaw, InsertLaw
  <1>2. ASSUME NEW i \in DOMAIN m
        PROVE  r[i] = m[i] \/ (i = PosOf(m, k) /\ Has(m, k) /\ r[i].value = v)
    <2>1. CASE Has(m, k)
      <3>1. r[i] = IF i = PosOf(m, k) THEN [key |-> k, value |-> v] ELSE m[i]
        BY <2>1, ReplaceLaw
      <3> HIDE DEF r
      <3> QED BY <2>1, <3>1
    <2>2. CASE ~ Has(m, k)
      <3>1. /\ r \in Maps(V) /\ Len(r) = Len(m) + 1
            /\ \A l \in DOMAIN m : r[l] = m[l]
            /\ r[Len(m) + 1] = [key |-> k, value |-> v]
        BY <2>2, InsertLaw
      <3> QED BY <3>1
    <2> QED BY <2>1, <2>2
  <1> QED BY <1>1, <1>2

LEMMA DeleteKeys ==
  ASSUME NEW V, NEW m \in Maps(V), NEW k, Has(m, k)
  PROVE  LET r == MapDelete(m, k)
         IN  /\ r \in Maps(V)
             /\ ~ Has(r, k)
             /\ \A l \in Half \ {k} :
                  /\ Has(r, l) <=> Has(m, l)
                  /\ Has(m, l) =>
                       /\ MapGet(r, l) = MapGet(m, l)
                       /\ PosOf(m, l) # PosOf(m, k)
                       /\ PosOf(r, l) = IF PosOf(m, l) < PosOf(m, k)
                                        THEN PosOf(m, l) ELSE PosOf(m, l) - 1
  <1> DEFINE r == MapDelete(m, k)
             p == PosOf(m, k)
             old(i) == IF i < p THEN i ELSE i + 1
             new(i) == IF i < p THEN i ELSE i - 1
  <1>1. /\ Len(m) \in Nat /\ DOMAIN m = 1 .. Len(m)
        /\ \A i, j \in DOMAIN m : m[i].key = m[j].key => i = j
    BY MapLaw
  <1>2. p \in 1 .. Len(m) /\ m[p].key = k
    BY PosOfLaw
  <1>3. /\ r \in Maps(V) /\ Len(r) = Len(m) - 1
        /\ \A i \in 1 .. Len(m) - 1 : r[i] = IF i < p THEN m[i] ELSE m[i + 1]
    BY RemoveLaw
  <1>4. DOMAIN r = 1 .. Len(m) - 1
    BY <1>3, MapLaw
  <1> HIDE DEF r, p
  <1>5. \A i \in DOMAIN r : r[i] = m[old(i)] /\ old(i) \in DOMAIN m /\ old(i) # p
    BY <1>1, <1>2, <1>3, <1>4
  <1>6. \A i \in DOMAIN m : i # p => new(i) \in DOMAIN r /\ r[new(i)] = m[i]
    BY <1>1, <1>2, <1>3, <1>4
  <1>7. ~ Has(r, k)
    BY <1>1, <1>2, <1>5 DEF Has
  <1>8. ASSUME NEW l \in Half \ {k}
        PROVE  /\ Has(r, l) <=> Has(m, l)
               /\ Has(m, l) => /\ MapGet(r, l) = MapGet(m, l)
                               /\ PosOf(m, l) # p
                               /\ PosOf(r, l) = new(PosOf(m, l))
    <2>1. Has(r, l) => Has(m, l)
      BY <1>5 DEF Has
    <2>2. ASSUME Has(m, l)
          PROVE  /\ Has(r, l) /\ MapGet(r, l) = MapGet(m, l)
                 /\ PosOf(m, l) # p /\ PosOf(r, l) = new(PosOf(m, l))
      <3>1. PosOf(m, l) \in DOMAIN m /\ m[PosOf(m, l)].key = l
        BY <2>2, PosOfLaw
      <3>2. PosOf(m, l) # p
        BY <1>2, <3>1
      <3>3. new(PosOf(m, l)) \in DOMAIN r /\ r[new(PosOf(m, l))] = m[PosOf(m, l)]
        BY <1>6, <3>1, <3>2
      <3> HIDE DEF new
      <3>4. Has(r, l) /\ PosOf(r, l) = new(PosOf(m, l))
        BY <1>3, <3>1, <3>3, PosOfLaw
      <3> QED BY <3>2, <3>3, <3>4 DEF MapGet
    <2> QED BY <2>1, <2>2
  <1> QED BY <1>3, <1>7, <1>8 DEF r, p

-----------------------------------------------------------------------------
(* The Map of Maps: where an id has its item, and which item.  `n` is map  *)
(* in one state or the next.                                               *)

Present(n, id) == Has(n, id.high) /\ Has(MapGet(n, id.high), id.low)

OuterOf(n, id) == PosOf(n, id.high)

InnerOf(n, id) == PosOf(MapGet(n, id.high), id.low)

ItemOf(n, id) == MapGet(MapGet(n, id.high), id.low)

(* Iterators at `j` have not come to the entry at <<o, i>>. *)
Behind(j, o, i) == o > j.outer \/ (j.attached /\ o = j.outer /\ i > j.inner)

Iterators == [outer : Nat, inner : Nat, attached : BOOLEAN]

Nested == Maps(Maps(Item))

LEMMA PresentLaw ==
  ASSUME NEW n \in Nested, NEW id \in Ids, Present(n, id)
  PROVE  /\ OuterOf(n, id) \in 1 .. Len(n) /\ n[OuterOf(n, id)].key = id.high
         /\ MapGet(n, id.high) = n[OuterOf(n, id)].value
         /\ MapGet(n, id.high) \in Maps(Item)
         /\ InnerOf(n, id) \in 1 .. Len(MapGet(n, id.high))
         /\ MapGet(n, id.high)[InnerOf(n, id)].key = id.low
         /\ ItemOf(n, id) \in Item
  <1>1. Has(n, id.high) /\ Has(MapGet(n, id.high), id.low)
    BY DEF Present
  <1>2. OuterOf(n, id) \in 1 .. Len(n) /\ n[OuterOf(n, id)].key = id.high
        /\ MapGet(n, id.high) \in Maps(Item)
    BY <1>1, PosOfLaw DEF OuterOf, Nested
  <1>3. /\ InnerOf(n, id) \in 1 .. Len(MapGet(n, id.high))
        /\ MapGet(n, id.high)[InnerOf(n, id)].key = id.low
        /\ ItemOf(n, id) \in Item
    BY <1>1, <1>2, PosOfLaw DEF InnerOf, ItemOf
  <1> QED BY <1>2, <1>3 DEF MapGet, OuterOf

(* An entry is the entry of its id. *)
LEMMA EntryLaw ==
  ASSUME NEW n \in Nested, NEW o \in 1 .. Len(n), NEW i \in 1 .. Len(n[o].value)
  PROVE  LET id == [high |-> n[o].key, low |-> n[o].value[i].key]
         IN  /\ id \in Ids /\ Present(n, id)
             /\ OuterOf(n, id) = o /\ InnerOf(n, id) = i
             /\ ItemOf(n, id) = n[o].value[i].value
  <1> DEFINE id == [high |-> n[o].key, low |-> n[o].value[i].key]
             m == n[o].value
  <1>1. o \in DOMAIN n /\ n[o] \in [key : Half, value : Maps(Item)]
    <2>1. DOMAIN n = 1 .. Len(n)
      BY MapLaw DEF Nested
    <2> QED BY <2>1, MapLaw DEF Nested
  <1>2. m \in Maps(Item)
    BY <1>1
  <1>3. i \in DOMAIN m /\ m[i] \in [key : Half, value : Item]
    <2>1. i \in 1 .. Len(m)
      OBVIOUS
    <2> HIDE DEF m
    <2>2. i \in DOMAIN m
      BY <1>2, <2>1, MapLaw
    <2> QED BY <1>2, <2>2, MapLaw
  <1>4. id \in Ids /\ id.high = n[o].key /\ id.low = m[i].key
    BY <1>1, <1>3 DEF Ids
  <1>5. Has(n, n[o].key) /\ PosOf(n, n[o].key) = o
    BY <1>1, PosOfLaw DEF Nested
  <1>6. MapGet(n, n[o].key) = m
    BY <1>5 DEF MapGet
  <1>7. Has(m, m[i].key) /\ PosOf(m, m[i].key) = i
    BY <1>2, <1>3, PosOfLaw
  <1>8. MapGet(m, m[i].key) = m[i].value
    BY <1>7 DEF MapGet
  <1> QED BY <1>4, <1>5, <1>6, <1>7, <1>8 DEF Present, OuterOf, InnerOf, ItemOf

(* Two ids do not share an entry. *)
LEMMA OneId ==
  ASSUME NEW n \in Nested, NEW a \in Ids, NEW b \in Ids, Present(n, a), Present(n, b),
         OuterOf(n, a) = OuterOf(n, b), InnerOf(n, a) = InnerOf(n, b)
  PROVE  a = b
  <1>1. a.high = b.high
    BY PresentLaw
  <1>2. a.low = b.low
    BY <1>1, PresentLaw
  <1> QED BY <1>1, <1>2 DEF Ids

LEMMA EmptyMap ==
  ASSUME NEW V
  PROVE  <<>> \in Maps(V) /\ Len(<<>>) = 0 /\ \A k : ~ Has(<<>>, k)
  BY EmptySeq DEF Maps, Has

(* What Set leaves in map. *)
SetIn(n, id, item) ==
  MapSet(n, id.high,
         MapSet(IF Has(n, id.high) THEN MapGet(n, id.high) ELSE <<>>, id.low, item))

LEMMA SetPlaces ==
  ASSUME NEW n \in Nested, NEW id \in Ids, NEW item \in Item
  PROVE  LET r == SetIn(n, id, item)
         IN  /\ r \in Nested
             /\ Present(r, id) /\ ItemOf(r, id) = item
             /\ Present(n, id) =>
                  OuterOf(r, id) = OuterOf(n, id) /\ InnerOf(r, id) = InnerOf(n, id)
             /\ \A b \in Ids \ {id} :
                  /\ Present(r, b) <=> Present(n, b)
                  /\ Present(n, b) => /\ OuterOf(r, b) = OuterOf(n, b)
                                      /\ InnerOf(r, b) = InnerOf(n, b)
                                      /\ ItemOf(r, b) = ItemOf(n, b)
  <1> DEFINE r == SetIn(n, id, item)
             m == IF Has(n, id.high) THEN MapGet(n, id.high) ELSE <<>>
             q == MapSet(m, id.low, item)
  <1>1. id.high \in Half /\ id.low \in Half
    BY DEF Ids
  <1>2. m \in Maps(Item)
    BY EmptyMap, PosOfLaw DEF Nested
  <1>3. ~ Has(n, id.high) => \A k : ~ Has(m, k)
    BY EmptyMap
  <1>4. Has(n, id.high) => m = MapGet(n, id.high)
    OBVIOUS
  <1> HIDE DEF m
  <1>5. /\ q \in Maps(Item)
        /\ Has(q, id.low) /\ MapGet(q, id.low) = item
        /\ Has(m, id.low) => PosOf(q, id.low) = PosOf(m, id.low)
        /\ \A l \in Half \ {id.low} :
             /\ Has(q, l) <=> Has(m, l)
             /\ Has(m, l) => PosOf(q, l) = PosOf(m, l) /\ MapGet(q, l) = MapGet(m, l)
    BY <1>1, <1>2, SetKeys
  <1>6. r = MapSet(n, id.high, q)
    BY DEF SetIn, m
  <1> HIDE DEF r, q
  <1>7. /\ r \in Nested
        /\ Has(r, id.high) /\ MapGet(r, id.high) = q
        /\ Has(n, id.high) => PosOf(r, id.high) = PosOf(n, id.high)
        /\ \A l \in Half \ {id.high} :
             /\ Has(r, l) <=> Has(n, l)
             /\ Has(n, l) => PosOf(r, l) = PosOf(n, l) /\ MapGet(r, l) = MapGet(n, l)
    <2>1. n \in Maps(Maps(Item)) /\ q \in Maps(Item)
      BY <1>5 DEF Nested
    <2>2. r \in Maps(Maps(Item))
      BY <1>1, <1>6, <2>1, SetKeys
    <2>3. /\ Has(r, id.high) /\ MapGet(r, id.high) = q
          /\ Has(n, id.high) => PosOf(r, id.high) = PosOf(n, id.high)
      BY <1>1, <1>6, <2>1, SetKeys
    <2>4. ASSUME NEW l \in Half \ {id.high}
          PROVE  /\ Has(r, l) <=> Has(n, l)
                 /\ Has(n, l) => PosOf(r, l) = PosOf(n, l) /\ MapGet(r, l) = MapGet(n, l)
      <3> DEFINE s == MapSet(n, id.high, q)
      <3>1. id.high \in Half
        BY <1>1
      <3>2. /\ Has(s, l) <=> Has(n, l)
            /\ Has(n, l) => PosOf(s, l) = PosOf(n, l) /\ MapGet(s, l) = MapGet(n, l)
        BY <2>1, <3>1, SetKeys
      <3> QED BY <1>6, <3>2
    <2> QED BY <2>2, <2>3, <2>4 DEF Nested
  <1>8. Present(r, id) /\ ItemOf(r, id) = item
    BY <1>5, <1>7 DEF Present, ItemOf
  <1>9. Present(n, id) =>
          OuterOf(r, id) = OuterOf(n, id) /\ InnerOf(r, id) = InnerOf(n, id)
    BY <1>4, <1>5, <1>7 DEF Present, OuterOf, InnerOf
  <1>10. ASSUME NEW b \in Ids \ {id}
         PROVE  /\ Present(r, b) <=> Present(n, b)
                /\ Present(n, b) => /\ OuterOf(r, b) = OuterOf(n, b)
                                    /\ InnerOf(r, b) = InnerOf(n, b)
                                    /\ ItemOf(r, b) = ItemOf(n, b)
    <2>1. b.high \in Half /\ b.low \in Half /\ (b.high = id.high => b.low # id.low)
      BY DEF Ids
    <2>2. CASE b.high # id.high
      BY <1>7, <2>1, <2>2 DEF Present, OuterOf, InnerOf, ItemOf
    <2>3. CASE b.high = id.high
      <3>1. /\ Has(q, b.low) <=> Has(m, b.low)
            /\ Has(m, b.low) => /\ PosOf(q, b.low) = PosOf(m, b.low)
                                /\ MapGet(q, b.low) = MapGet(m, b.low)
        BY <1>5, <2>1, <2>3
      <3> QED BY <1>3, <1>4, <1>7, <2>3, <3>1 DEF Present, OuterOf, InnerOf, ItemOf
    <2> QED BY <2>2, <2>3
  <1> QED BY <1>7, <1>8, <1>9, <1>10 DEF r

(* What Delete leaves in map, and where it leaves iterators at `j`. *)
LeftIn(n, id) == MapDelete(MapGet(n, id.high), id.low)

DeleteIn(n, id) ==
  IF LeftIn(n, id) = <<>> THEN MapDelete(n, id.high)
                          ELSE MapSet(n, id.high, LeftIn(n, id))

MovedFrom(j, o, i, emptied) ==
  LET here == j.attached /\ o = j.outer
  IN  [outer    |-> IF emptied /\ o <= j.outer THEN j.outer - 1 ELSE j.outer,
       inner    |-> IF here /\ i <= j.inner THEN j.inner - 1 ELSE j.inner,
       attached |-> j.attached /\ ~ (here /\ emptied)]

LEMMA MovedLaw ==
  ASSUME NEW j \in Iterators, NEW o \in Nat, NEW i \in Nat, NEW emptied \in BOOLEAN,
         o >= 1, i >= 1
  PROVE  LET n == MovedFrom(j, o, i, emptied)
         IN  /\ n \in Iterators
             /\ n.outer = IF emptied /\ o <= j.outer THEN j.outer - 1 ELSE j.outer
             /\ n.inner = IF (j.attached /\ o = j.outer) /\ i <= j.inner
                          THEN j.inner - 1 ELSE j.inner
             /\ n.attached <=> (j.attached /\ ~ (o = j.outer /\ emptied))
  <1> DEFINE n == MovedFrom(j, o, i, emptied)
  <1>1. /\ n.outer = IF emptied /\ o <= j.outer THEN j.outer - 1 ELSE j.outer
        /\ n.inner = IF (j.attached /\ o = j.outer) /\ i <= j.inner
                     THEN j.inner - 1 ELSE j.inner
        /\ n.attached <=> (j.attached /\ ~ (o = j.outer /\ emptied))
    BY DEF MovedFrom
  <1>2. j.outer \in Nat /\ j.inner \in Nat /\ j.attached \in BOOLEAN
    BY DEF Iterators
  <1>3. n = [outer |-> n.outer, inner |-> n.inner, attached |-> n.attached]
    BY DEF MovedFrom
  <1> HIDE DEF n
  <1>4. n.outer \in Nat /\ n.inner \in Nat
    BY <1>1, <1>2
  <1>5. n.attached \in BOOLEAN
    BY DEF n, MovedFrom
  <1>6. n \in Iterators
    BY <1>3, <1>4, <1>5 DEF Iterators
  <1> QED BY <1>1, <1>6 DEF n

LEMMA DeletePlaces ==
  ASSUME NEW n \in Nested, NEW id \in Ids, Present(n, id), NEW j \in Iterators
  PROVE  LET r == DeleteIn(n, id)
             emptied == LeftIn(n, id) = <<>>
             k == MovedFrom(j, OuterOf(n, id), InnerOf(n, id), emptied)
         IN  /\ r \in Nested
             /\ ~ Present(r, id)
             /\ \A b \in Ids \ {id} :
                  /\ Present(r, b) <=> Present(n, b)
                  /\ Present(n, b) =>
                       /\ ItemOf(r, b) = ItemOf(n, b)
                       /\ Behind(k, OuterOf(r, b), InnerOf(r, b))
                            <=> Behind(j, OuterOf(n, b), InnerOf(n, b))
  <1> DEFINE r == DeleteIn(n, id)
             emptied == LeftIn(n, id) = <<>>
             o == OuterOf(n, id)
             i == InnerOf(n, id)
             k == MovedFrom(j, o, i, emptied)
             m == MapGet(n, id.high)
             left == LeftIn(n, id)
  <1>1. /\ id.high \in Half /\ id.low \in Half
        /\ \A b \in Ids \ {id} :
             b.high \in Half /\ b.low \in Half /\ (b.high = id.high => b.low # id.low)
    BY DEF Ids
  <1>2. Has(n, id.high) /\ Has(m, id.low) /\ m \in Maps(Item) /\ n \in Maps(Maps(Item))
    BY PresentLaw DEF Present, Nested
  <1>3. o \in Nat /\ i \in Nat /\ o >= 1 /\ i >= 1
    BY PresentLaw
  <1>4. /\ j.outer \in Nat /\ j.inner \in Nat /\ j.attached \in BOOLEAN
        /\ k.outer = IF emptied /\ o <= j.outer THEN j.outer - 1 ELSE j.outer
        /\ k.inner = IF (j.attached /\ o = j.outer) /\ i <= j.inner
                     THEN j.inner - 1 ELSE j.inner
        /\ k.attached <=> (j.attached /\ ~ (o = j.outer /\ emptied))
    <2>1. emptied \in BOOLEAN
      OBVIOUS
    <2>2. j.outer \in Nat /\ j.inner \in Nat /\ j.attached \in BOOLEAN
      BY DEF Iterators
    <2> HIDE DEF o, i, emptied
    <2> QED BY <1>3, <2>1, <2>2, MovedLaw
  <1>5. /\ left \in Maps(Item)
        /\ ~ Has(left, id.low)
        /\ \A l \in Half \ {id.low} :
             /\ Has(left, l) <=> Has(m, l)
             /\ Has(m, l) => /\ MapGet(left, l) = MapGet(m, l)
                             /\ PosOf(m, l) # i
                             /\ PosOf(left, l) = IF PosOf(m, l) < i
                                                 THEN PosOf(m, l) ELSE PosOf(m, l) - 1
    <2> HIDE DEF m
    <2> QED BY <1>2, DeleteKeys DEF LeftIn, InnerOf, m
  <1>6. ASSUME NEW b \in Ids, Present(n, b)
        PROVE  /\ OuterOf(n, b) \in Nat /\ InnerOf(n, b) \in Nat
               /\ OuterOf(n, b) >= 1 /\ InnerOf(n, b) >= 1
    BY <1>6, PresentLaw
  <1>7. CASE emptied
    <2>1. /\ r \in Maps(Maps(Item))
          /\ ~ Has(r, id.high)
          /\ \A l \in Half \ {id.high} :
               /\ Has(r, l) <=> Has(n, l)
               /\ Has(n, l) => /\ MapGet(r, l) = MapGet(n, l)
                               /\ PosOf(n, l) # o
                               /\ PosOf(r, l) = IF PosOf(n, l) < o
                                                THEN PosOf(n, l) ELSE PosOf(n, l) - 1
      <3>1. r = MapDelete(n, id.high)
        BY <1>7 DEF DeleteIn
      <3> HIDE DEF r
      <3> QED BY <1>2, <3>1, DeleteKeys DEF OuterOf
    <2>2. ASSUME NEW b \in Ids \ {id}, Present(n, b) PROVE b.high # id.high
      <3>1. ~ Has(left, b.low)
        BY <1>7, EmptyMap
      <3> QED BY <1>1, <1>5, <2>2, <3>1 DEF Present
    <2> HIDE DEF r, o, i, k, emptied
    <2>3. ASSUME NEW b \in Ids \ {id}, Present(n, b)
          PROVE  /\ Present(r, b) /\ ItemOf(r, b) = ItemOf(n, b)
                 /\ InnerOf(r, b) = InnerOf(n, b) /\ OuterOf(n, b) # o
                 /\ OuterOf(r, b) = IF OuterOf(n, b) < o
                                    THEN OuterOf(n, b) ELSE OuterOf(n, b) - 1
      BY <1>1, <2>1, <2>2, <2>3 DEF Present, ItemOf, InnerOf, OuterOf
    <2>4. ASSUME NEW b \in Ids \ {id}, Present(n, b)
          PROVE  Behind(k, OuterOf(r, b), InnerOf(r, b))
                   <=> Behind(j, OuterOf(n, b), InnerOf(n, b))
      <3>1. CASE j.attached /\ o = j.outer
        <4>1. k.outer = o - 1
          BY <1>3, <1>4, <1>7, <3>1
        <4>2. ~ k.attached
          BY <1>4, <1>7, <3>1
        <4> QED BY <1>3, <1>6, <2>3, <2>4, <3>1, <4>1, <4>2 DEF Behind
      <3>2. CASE ~ (j.attached /\ o = j.outer)
        <4>1. (k.attached <=> j.attached) /\ k.inner = j.inner
          BY <1>4, <3>2
        <4>2. k.outer = IF o <= j.outer THEN j.outer - 1 ELSE j.outer
          BY <1>4, <1>7
        <4> QED BY <1>3, <1>4, <1>6, <2>3, <2>4, <3>2, <4>1, <4>2 DEF Behind
      <3> QED BY <3>1, <3>2
    <2>5. ASSUME NEW b \in Ids \ {id}, Present(r, b) PROVE Present(n, b)
      BY <1>1, <2>1, <2>5 DEF Present
    <2>6. ~ Present(r, id)
      BY <2>1 DEF Present
    <2> QED BY <2>1, <2>3, <2>4, <2>5, <2>6 DEF Nested, r, o, i, k, emptied
  <1>8. CASE ~ emptied
    <2>1. /\ r \in Maps(Maps(Item))
          /\ Has(r, id.high) /\ MapGet(r, id.high) = left /\ PosOf(r, id.high) = o
          /\ \A l \in Half \ {id.high} :
               /\ Has(r, l) <=> Has(n, l)
               /\ Has(n, l) => PosOf(r, l) = PosOf(n, l) /\ MapGet(r, l) = MapGet(n, l)
      <3>1. r = MapSet(n, id.high, left)
        BY <1>8 DEF DeleteIn
      <3> HIDE DEF r, left
      <3> QED BY <1>1, <1>2, <1>5, <3>1, SetKeys DEF OuterOf
    <2> HIDE DEF r, o, i, k, emptied
    <2>2. ASSUME NEW b \in Ids \ {id}
          PROVE  Present(r, b) <=> Present(n, b)
      <3>1. CASE b.high # id.high
        BY <1>1, <2>1, <3>1 DEF Present
      <3>2. CASE b.high = id.high
        BY <1>1, <1>2, <1>5, <2>1, <3>2 DEF Present
      <3> QED BY <3>1, <3>2
    <2>3. ASSUME NEW b \in Ids \ {id}, Present(n, b), b.high # id.high
          PROVE  /\ ItemOf(r, b) = ItemOf(n, b) /\ InnerOf(r, b) = InnerOf(n, b)
                 /\ OuterOf(r, b) = OuterOf(n, b) /\ OuterOf(n, b) # o
      <3>1. OuterOf(n, b) # o
        BY <2>3, PresentLaw DEF o
      <3> QED BY <1>1, <2>1, <2>3, <3>1 DEF Present, ItemOf, InnerOf, OuterOf
    <2>4. ASSUME NEW b \in Ids \ {id}, Present(n, b), b.high = id.high
          PROVE  /\ ItemOf(r, b) = ItemOf(n, b)
                 /\ OuterOf(r, b) = o /\ OuterOf(n, b) = o /\ InnerOf(n, b) # i
                 /\ InnerOf(r, b) = IF InnerOf(n, b) < i
                                    THEN InnerOf(n, b) ELSE InnerOf(n, b) - 1
      <3>1. b.low \in Half \ {id.low} /\ Has(m, b.low)
        BY <1>1, <2>4 DEF Present
      <3>2. OuterOf(n, b) = o
        BY <2>4 DEF OuterOf, o
      <3> QED BY <1>5, <2>1, <2>4, <3>1, <3>2 DEF ItemOf, InnerOf, OuterOf
    <2>5. k.outer = j.outer /\ (k.attached <=> j.attached)
      BY <1>4, <1>8
    <2>6. ASSUME NEW b \in Ids \ {id}, Present(n, b)
          PROVE  /\ ItemOf(r, b) = ItemOf(n, b)
                 /\ Behind(k, OuterOf(r, b), InnerOf(r, b))
                      <=> Behind(j, OuterOf(n, b), InnerOf(n, b))
      <3>1. CASE b.high # id.high
        <4>1. o # j.outer => k.inner = j.inner
          BY <1>4
        <4> QED BY <2>3, <2>5, <2>6, <3>1, <4>1 DEF Behind
      <3>2. CASE b.high = id.high
        <4>1. j.attached /\ o = j.outer =>
                k.inner = IF i <= j.inner THEN j.inner - 1 ELSE j.inner
          BY <1>4
        <4> QED BY <1>3, <1>4, <1>6, <2>4, <2>5, <2>6, <3>2, <4>1 DEF Behind
      <3> QED BY <3>1, <3>2
    <2>7. ~ Present(r, id)
      BY <1>5, <2>1 DEF Present
    <2> QED BY <2>1, <2>2, <2>6, <2>7 DEF Nested, r, o, i, k, emptied
  <1> QED BY <1>7, <1>8

-----------------------------------------------------------------------------
(* Iterators stay within the Maps they iterate, and no inner Map is left   *)
(* empty.                                                                  *)

Fits(n, j) ==
  /\ j \in Iterators
  /\ j.outer <= Len(n)
  /\ j.attached => j.outer >= 1 /\ j.inner <= Len(n[j.outer].value)

LEMMA TypeParts ==
  ASSUME TypeOK
  PROVE  map \in Nested /\ Fits(map, it)
  <1>1. map \in Nested
    BY DEF TypeOK, Nested
  <1>2. Len(map) \in Nat
    BY <1>1, MapLaw DEF Nested
  <1>3. it \in Iterators /\ it.outer <= Len(map)
    BY <1>2 DEF TypeOK, Iterators
  <1> QED BY <1>1, <1>3 DEF TypeOK, Fits

LEMMA TypeWhole ==
  ASSUME NEW n \in Nested, NEW j, Fits(n, j)
  PROVE  j \in [outer : 0 .. Len(n), inner : Nat, attached : BOOLEAN]
  <1>1. Len(n) \in Nat
    BY MapLaw DEF Nested
  <1>2. j.outer \in 0 .. Len(n)
    BY <1>1 DEF Fits, Iterators
  <1> QED BY <1>2 DEF Fits, Iterators

LEMMA SetFits ==
  ASSUME NEW n \in Nested, NEW j, Fits(n, j), NEW id \in Ids, NEW item \in Item
  PROVE  Fits(SetIn(n, id, item), j)
  <1> DEFINE m == IF Has(n, id.high) THEN MapGet(n, id.high) ELSE <<>>
             q == MapSet(m, id.low, item)
             r == MapSet(n, id.high, q)
  <1>1. id.high \in Half /\ id.low \in Half /\ n \in Maps(Maps(Item))
    BY DEF Ids, Nested
  <1>2. m \in Maps(Item)
    BY <1>1, EmptyMap, PosOfLaw
  <1>3. r = SetIn(n, id, item)
    BY DEF SetIn
  <1>4. Has(n, id.high) => m = n[PosOf(n, id.high)].value
    BY DEF MapGet
  <1> HIDE DEF m
  <1>5. q \in Maps(Item)
    BY <1>1, <1>2, SetKeys
  <1>6. Len(m) \in Nat /\ Len(n) \in Nat /\ DOMAIN n = 1 .. Len(n)
    BY <1>1, <1>2, MapLaw
  <1>7. Len(q) = Len(m) \/ Len(q) = Len(m) + 1
    BY <1>1, <1>2, SetGrows
  <1> HIDE DEF q
  <1>8. /\ Len(r) = Len(n) \/ Len(r) = Len(n) + 1
        /\ \A o \in DOMAIN n :
             \/ r[o] = n[o]
             \/ o = PosOf(n, id.high) /\ Has(n, id.high) /\ r[o].value = q
    BY <1>1, <1>5, SetGrows
  <1> HIDE DEF r
  <1>9. j \in Iterators /\ j.outer \in Nat /\ j.inner \in Nat /\ j.outer <= Len(n)
    BY DEF Fits, Iterators
  <1>10. j.outer <= Len(r)
    BY <1>6, <1>8, <1>9
  <1>11. ASSUME j.attached PROVE j.outer >= 1 /\ j.inner <= Len(r[j.outer].value)
    <2>1. j.outer >= 1 /\ j.inner <= Len(n[j.outer].value)
      BY <1>11 DEF Fits
    <2>2. j.outer \in DOMAIN n
      BY <1>6, <1>9, <2>1
    <2>3. CASE r[j.outer] = n[j.outer]
      BY <2>1, <2>3
    <2>4. CASE j.outer = PosOf(n, id.high) /\ Has(n, id.high) /\ r[j.outer].value = q
      BY <1>4, <1>6, <1>7, <1>9, <2>1, <2>4
    <2> QED BY <1>8, <2>2, <2>3, <2>4
  <1> QED BY <1>3, <1>9, <1>10, <1>11 DEF Fits

LEMMA SetNoneEmpty ==
  ASSUME NEW n \in Nested, NoneEmpty(n), NEW id \in Ids, NEW item \in Item
  PROVE  NoneEmpty(SetIn(n, id, item))
  <1> DEFINE m == IF Has(n, id.high) THEN MapGet(n, id.high) ELSE <<>>
             q == MapSet(m, id.low, item)
             r == MapSet(n, id.high, q)
  <1>1. id.high \in Half /\ id.low \in Half /\ n \in Maps(Maps(Item))
    BY DEF Ids, Nested
  <1>2. m \in Maps(Item)
    BY <1>1, EmptyMap, PosOfLaw
  <1>3. r = SetIn(n, id, item)
    BY DEF SetIn
  <1> HIDE DEF m
  <1>4. q \in Maps(Item) /\ q # <<>>
    BY <1>1, <1>2, SetKeys
  <1> HIDE DEF q
  <1>5. MapGet(r, id.high) = q
    BY <1>1, <1>4, SetKeys
  <1>6. ASSUME NEW k \in Half \ {id.high}
        PROVE  /\ Has(r, k) <=> Has(n, k)
               /\ Has(n, k) => MapGet(r, k) = MapGet(n, k)
    <2>1. id.high \in Half /\ q \in Maps(Item) /\ n \in Maps(Maps(Item))
      BY <1>1, <1>4
    <2> QED BY <2>1, SetKeys
  <1> HIDE DEF r
  <1> QED BY <1>3, <1>4, <1>5, <1>6 DEF NoneEmpty

LEMMA DeleteFits ==
  ASSUME NEW n \in Nested, NEW j, Fits(n, j), NEW id \in Ids, Present(n, id)
  PROVE  Fits(DeleteIn(n, id),
              MovedFrom(j, OuterOf(n, id), InnerOf(n, id), LeftIn(n, id) = <<>>))
  <1> DEFINE r == DeleteIn(n, id)
             emptied == LeftIn(n, id) = <<>>
             o == OuterOf(n, id)
             i == InnerOf(n, id)
             k == MovedFrom(j, o, i, emptied)
             m == MapGet(n, id.high)
             left == LeftIn(n, id)
  <1>1. Has(n, id.high) /\ Has(m, id.low) /\ id.high \in Half
    BY DEF Present, Ids
  <1>2. /\ o \in 1 .. Len(n) /\ m = n[o].value /\ m \in Maps(Item)
        /\ i \in 1 .. Len(m) /\ n \in Maps(Maps(Item))
    BY PresentLaw DEF Nested
  <1>3. Len(n) \in Nat /\ Len(m) \in Nat /\ DOMAIN n = 1 .. Len(n)
    BY <1>2, MapLaw
  <1>4. left \in Maps(Item) /\ Len(left) = Len(m) - 1
    <2> HIDE DEF m
    <2> QED BY <1>1, <1>2, RemoveLaw DEF LeftIn, m
  <1>5. /\ j \in Iterators /\ j.outer \in Nat /\ j.inner \in Nat /\ j.attached \in BOOLEAN
        /\ j.outer <= Len(n)
        /\ j.attached => j.outer >= 1 /\ j.inner <= Len(n[j.outer].value)
    BY DEF Fits, Iterators
  <1>6. /\ k \in Iterators
        /\ k.outer = IF emptied /\ o <= j.outer THEN j.outer - 1 ELSE j.outer
        /\ k.inner = IF (j.attached /\ o = j.outer) /\ i <= j.inner
                     THEN j.inner - 1 ELSE j.inner
        /\ k.attached <=> (j.attached /\ ~ (o = j.outer /\ emptied))
    <2>1. emptied \in BOOLEAN /\ o \in Nat /\ i \in Nat /\ o >= 1 /\ i >= 1
      BY <1>2
    <2> HIDE DEF o, i, emptied
    <2> QED BY <1>5, <2>1, MovedLaw
  <1>7. CASE emptied
    <2>1. /\ Len(r) = Len(n) - 1
          /\ \A l \in 1 .. Len(n) - 1 : r[l] = IF l < o THEN n[l] ELSE n[l + 1]
      <3>1. r = MapDelete(n, id.high)
        BY <1>7 DEF DeleteIn
      <3> HIDE DEF r
      <3> QED BY <1>1, <1>2, <3>1, RemoveLaw DEF OuterOf
    <2> HIDE DEF r, o, i, k, emptied
    <2>2. k.outer <= Len(r)
      BY <1>2, <1>3, <1>5, <1>6, <1>7, <2>1
    <2>3. ASSUME k.attached PROVE k.outer >= 1 /\ k.inner <= Len(r[k.outer].value)
      <3>1. j.attached /\ o # j.outer
        BY <1>6, <1>7, <2>3
      <3>2. k.inner = j.inner
        BY <1>6, <3>1
      <3>3. k.outer = IF o <= j.outer THEN j.outer - 1 ELSE j.outer
        BY <1>6, <1>7
      <3>4. k.outer >= 1 /\ k.outer \in 1 .. Len(n) - 1
        BY <1>2, <1>3, <1>5, <3>1, <3>3
      <3>5. r[k.outer] = n[j.outer]
        <4>1. CASE o < j.outer
          <5>1. k.outer = j.outer - 1 /\ ~ (k.outer < o) /\ k.outer + 1 = j.outer
            BY <1>2, <1>5, <3>3, <4>1
          <5> QED BY <2>1, <3>4, <5>1
        <4>2. CASE ~ (o < j.outer)
          <5>1. k.outer = j.outer /\ k.outer < o
            BY <1>2, <1>5, <3>1, <3>3, <4>2
          <5> QED BY <2>1, <3>4, <5>1
        <4> QED BY <4>1, <4>2
      <3> QED BY <1>5, <3>1, <3>2, <3>4, <3>5
    <2> QED BY <1>6, <2>2, <2>3 DEF Fits, r, o, i, k, emptied
  <1>8. CASE ~ emptied
    <2>1. /\ Len(r) = Len(n)
          /\ \A l \in DOMAIN n : r[l] = IF l = o THEN [key |-> id.high, value |-> left] ELSE n[l]
      <3>1. r = MapSet(n, id.high, left)
        BY <1>8 DEF DeleteIn
      <3> HIDE DEF r, left
      <3> QED BY <1>1, <1>2, <1>4, <3>1, ReplaceLaw DEF OuterOf
    <2> HIDE DEF r, o, i, k, emptied, left
    <2>2. k.outer = j.outer /\ (k.attached <=> j.attached)
      BY <1>6, <1>8
    <2>3. ASSUME j.attached PROVE j.outer >= 1 /\ k.inner <= Len(r[j.outer].value)
      <3>1. j.outer \in DOMAIN n /\ j.outer >= 1 /\ j.inner <= Len(n[j.outer].value)
        BY <1>3, <1>5, <2>3
      <3>2. CASE j.outer = o
        <4>1. Len(r[j.outer].value) = Len(m) - 1
          BY <1>4, <2>1, <3>1, <3>2
        <4>2. k.inner = IF i <= j.inner THEN j.inner - 1 ELSE j.inner
          BY <1>6, <2>3, <3>2
        <4>3. j.inner <= Len(m)
          BY <1>2, <3>1, <3>2
        <4>4. k.inner <= Len(m) - 1
          <5> HIDE DEF m
          <5> QED BY <1>2, <1>3, <1>5, <4>2, <4>3
        <4> QED BY <3>1, <4>1, <4>4
      <3>3. CASE j.outer # o
        BY <1>6, <2>1, <3>1, <3>3
      <3> QED BY <3>2, <3>3
    <2> QED BY <1>5, <1>6, <2>1, <2>2, <2>3 DEF Fits, r, o, i, k, emptied
  <1> QED BY <1>7, <1>8

LEMMA DeleteNoneEmpty ==
  ASSUME NEW n \in Nested, NoneEmpty(n), NEW id \in Ids, Present(n, id)
  PROVE  NoneEmpty(DeleteIn(n, id))
  <1> DEFINE r == DeleteIn(n, id)
             left == LeftIn(n, id)
  <1>1. Has(n, id.high) /\ id.high \in Half /\ n \in Maps(Maps(Item))
    BY DEF Present, Ids, Nested
  <1>2. left \in Maps(Item)
    BY PresentLaw, DeleteKeys DEF LeftIn, Present
  <1>3. CASE left = <<>>
    <2>1. r = MapDelete(n, id.high)
      BY <1>3 DEF DeleteIn
    <2> HIDE DEF r
    <2>2. /\ ~ Has(r, id.high)
          /\ \A k \in Half \ {id.high} :
               (Has(r, k) <=> Has(n, k)) /\ (Has(n, k) => MapGet(r, k) = MapGet(n, k))
      BY <1>1, <2>1, DeleteKeys
    <2> QED BY <2>2 DEF NoneEmpty, r
  <1>4. CASE left # <<>>
    <2>1. r = MapSet(n, id.high, left)
      BY <1>4 DEF DeleteIn
    <2> HIDE DEF r, left
    <2>2. /\ MapGet(r, id.high) = left
          /\ \A k \in Half \ {id.high} :
               (Has(r, k) <=> Has(n, k)) /\ (Has(n, k) => MapGet(r, k) = MapGet(n, k))
      BY <1>1, <1>2, <2>1, SetKeys
    <2> QED BY <1>4, <2>2 DEF NoneEmpty, r
  <1> QED BY <1>3, <1>4

-----------------------------------------------------------------------------
(* The actions in these terms.                                             *)

LEMMA SetAction ==
  ASSUME NEW id, NEW item, Set(id, item)
  PROVE  map' = SetIn(map, id, item) /\ phase # "next" /\ UNCHANGED <<it, phase, at>>
  BY DEF Set, SetIn

LEMMA DeleteAction ==
  ASSUME NEW id, Delete(id)
  PROVE  /\ Present(map, id) /\ map' = DeleteIn(map, id)
         /\ it' = MovedFrom(it, OuterOf(map, id), InnerOf(map, id), LeftIn(map, id) = <<>>)
         /\ phase # "next" /\ UNCHANGED <<phase, at>>
  BY DEF Delete, Present, DeleteIn, LeftIn, Moved, MovedFrom, OuterOf, InnerOf

(* What Yield hands to the callback. *)
LEMMA YieldAction ==
  ASSUME TypeOK, Yield
  PROVE  \E id \in Ids :
           /\ Present(map, id)
           /\ it.attached /\ OuterOf(map, id) = it.outer /\ InnerOf(map, id) = it.inner + 1
           /\ it' = [it EXCEPT !.inner = @ + 1] /\ it.inner < Len(map[it.outer].value)
           /\ at' = [id |-> id, item |-> ItemOf(map, id)]
           /\ phase = "next" /\ phase' = "callback" /\ map' = map
  <1> DEFINE o == it.outer
             i == it.inner + 1
             id == [high |-> map[o].key, low |-> map[o].value[i].key]
  <1>1. map \in Nested /\ Fits(map, it)
    BY TypeParts
  <1>2. /\ it.outer \in Nat /\ it.inner \in Nat /\ it.outer <= Len(map)
        /\ it.attached /\ it.outer >= 1 /\ it.inner < Len(map[o].value)
    BY <1>1 DEF Fits, Iterators, Yield, InnerLeft
  <1>3. Len(map) \in Nat
    BY <1>1, MapLaw DEF Nested
  <1>4. o \in 1 .. Len(map)
    BY <1>2, <1>3
  <1>5. o \in DOMAIN map /\ map[o] \in [key : Half, value : Maps(Item)]
    BY <1>1, <1>4, MapLaw DEF Nested
  <1>6. map[o].value \in Maps(Item)
    BY <1>5
  <1>7. Len(map[o].value) \in Nat
    BY <1>6, MapLaw
  <1>8. i \in 1 .. Len(map[o].value)
    BY <1>2, <1>7
  <1>9. /\ id \in Ids /\ Present(map, id)
        /\ OuterOf(map, id) = o /\ InnerOf(map, id) = i
        /\ ItemOf(map, id) = map[o].value[i].value
    <2> HIDE DEF o, i
    <2> QED BY <1>1, <1>4, <1>8, EntryLaw
  <1>10. at' = [id |-> id, item |-> ItemOf(map, id)]
    BY <1>9 DEF Yield
  <1>11. /\ it' = [it EXCEPT !.inner = @ + 1]
         /\ phase = "next" /\ phase' = "callback" /\ map' = map
    BY DEF Yield
  <1> HIDE DEF id
  <1> QED BY <1>2, <1>9, <1>10, <1>11

-----------------------------------------------------------------------------

LEMMA IdMapInit == Init => IdMapInv
  <1> SUFFICES ASSUME Init PROVE IdMapInv
    OBVIOUS
  <1>1. map = <<>> /\ it = Stopped /\ phase = "none" /\ at = Nothing
    BY DEF Init
  <1>2. map \in Nested /\ Len(map) = 0 /\ NoneEmpty(map)
    BY <1>1, EmptyMap DEF Nested, NoneEmpty
  <1>3. it \in [outer : 0 .. Len(map), inner : Nat, attached : BOOLEAN] /\ ~ it.attached
    BY <1>1, <1>2 DEF Stopped
  <1> QED BY <1>1, <1>2, <1>3 DEF IdMapInv, TypeOK, Nested

LEMMA IdMapStep == IdMapInv /\ [Next]_vars => IdMapInv'
  <1> SUFFICES ASSUME IdMapInv, [Next]_vars PROVE IdMapInv'
    OBVIOUS
  <1>1. /\ map \in Nested /\ Fits(map, it) /\ NoneEmpty(map)
        /\ phase \in {"none", "next", "callback"}
        /\ at \in [id : Ids, item : Item] \cup {Nothing}
    BY TypeParts DEF IdMapInv, TypeOK
  <1>2. SUFFICES /\ map' \in Nested /\ Fits(map', it') /\ NoneEmpty(map')
                 /\ phase' \in {"none", "next", "callback"}
                 /\ at' \in [id : Ids, item : Item] \cup {Nothing}
    <2>1. it' \in [outer : 0 .. Len(map'), inner : Nat, attached : BOOLEAN]
      BY <1>2, TypeWhole
    <2> QED BY <1>2, <2>1 DEF IdMapInv, TypeOK, Fits, Nested
  <1>3. /\ it.outer \in Nat /\ it.inner \in Nat /\ it.attached \in BOOLEAN
        /\ it.outer <= Len(map) /\ Len(map) \in Nat
    BY <1>1, MapLaw DEF Fits, Iterators, Nested
  <1>4. ASSUME NEW n \in Nested PROVE Fits(n, Stopped)
    <2>1. Len(n) \in Nat
      BY <1>4, MapLaw DEF Nested
    <2> QED BY <2>1 DEF Fits, Stopped, Iterators
  <1>5. ASSUME NEW id \in Ids, NEW item \in Item, Set(id, item)
        PROVE  /\ map' \in Nested /\ Fits(map', it') /\ NoneEmpty(map')
               /\ UNCHANGED <<phase, at>>
    <2>1. map' = SetIn(map, id, item) /\ it' = it /\ UNCHANGED <<phase, at>>
      BY <1>5, SetAction
    <2>2. SetIn(map, id, item) \in Nested
      BY <1>1, SetPlaces
    <2> QED BY <1>1, <2>1, <2>2, SetFits, SetNoneEmpty
  <1>6. ASSUME NEW id \in Ids, Delete(id)
        PROVE  /\ map' \in Nested /\ Fits(map', it') /\ NoneEmpty(map')
               /\ UNCHANGED <<phase, at>>
    <2>1. /\ Present(map, id) /\ map' = DeleteIn(map, id)
          /\ it' = MovedFrom(it, OuterOf(map, id), InnerOf(map, id), LeftIn(map, id) = <<>>)
          /\ UNCHANGED <<phase, at>>
      BY <1>6, DeleteAction
    <2>2. it \in Iterators
      BY <1>1 DEF Fits
    <2>3. DeleteIn(map, id) \in Nested
      BY <1>1, <2>1, <2>2, DeletePlaces
    <2> QED BY <1>1, <2>1, <2>3, DeleteFits, DeleteNoneEmpty
  <1>7. CASE ForEach
    BY <1>1, <1>4, <1>7 DEF ForEach
  <1>8. CASE Yield
    <2>1. TypeOK
      BY DEF IdMapInv
    <2>2. PICK id \in Ids :
            /\ Present(map, id) /\ it.attached /\ it.inner < Len(map[it.outer].value)
            /\ it' = [it EXCEPT !.inner = @ + 1]
            /\ at' = [id |-> id, item |-> ItemOf(map, id)]
            /\ phase' = "callback" /\ map' = map
      BY <1>8, <2>1, YieldAction
    <2>3. ItemOf(map, id) \in Item
      BY <1>1, <2>2, PresentLaw
    <2>4. /\ it' \in Iterators /\ it'.outer = it.outer /\ it'.inner = it.inner + 1
      BY <1>1, <2>2 DEF Fits, Iterators
    <2>5. map[it.outer].value \in Maps(Item)
      <3>1. it.outer \in DOMAIN map
        BY <1>1, <1>3, <2>2, MapLaw DEF Fits, Nested
      <3> QED BY <1>1, <3>1, MapLaw DEF Nested
    <2>6. Len(map[it.outer].value) \in Nat
      BY <2>5, MapLaw
    <2>7. Fits(map', it')
      BY <1>1, <1>3, <2>2, <2>4, <2>6 DEF Fits
    <2> QED BY <1>1, <2>2, <2>3, <2>7
  <1>9. CASE NextMap
    <2>1. /\ it' = [outer |-> it.outer + 1, inner |-> 0, attached |-> TRUE]
          /\ it.outer < Len(map) /\ UNCHANGED <<map, phase, at>>
      BY <1>9 DEF NextMap
    <2>2. /\ it' \in Iterators /\ it'.outer = it.outer + 1 /\ it'.inner = 0
          /\ it'.outer \in 1 .. Len(map)
      BY <1>3, <2>1 DEF Iterators
    <2>3. it'.outer \in DOMAIN map
      BY <1>1, <2>2, MapLaw DEF Nested
    <2>4. map[it'.outer].value \in Maps(Item)
      BY <1>1, <2>3, MapLaw DEF Nested
    <2>5. Len(map[it'.outer].value) >= 0
      BY <2>4, MapLaw
    <2> QED BY <1>1, <1>3, <2>1, <2>2, <2>5 DEF Fits
  <1>10. CASE Finish
    BY <1>1, <1>4, <1>10 DEF Finish
  <1>11. CASE CallbackReturns
    BY <1>1, <1>11 DEF CallbackReturns
  <1>12. CASE UNCHANGED vars
    BY <1>1, <1>12 DEF vars
  <1> QED BY <1>1, <1>5, <1>6, <1>7, <1>8, <1>9, <1>10, <1>11, <1>12 DEF Next, Generator

(* No inner Map is ever empty: delete takes an inner Map out when its last *)
(* entry goes, and set makes one only to put an entry into it.             *)
(* EmptyMeansEmpty is not inductive without this.                          *)
THEOREM IdMapInvariant == Spec => []IdMapInv
  BY IdMapInit, IdMapStep, PTL DEF Spec

(* The Map of Maps never holds a key twice, and the iterators of a running *)
(* forEach stay within the Maps they iterate, whatever its callback sets   *)
(* and deletes (entries() and delete of util/IdMap.ts).                    *)
THEOREM IdMapTypeCorrect == Spec => []TypeOK
  <1>1. IdMapInv => TypeOK
    BY DEF IdMapInv
  <1> QED BY <1>1, IdMapInvariant, PTL

(* empty() looks at the outer Map only and is right.                       *)
THEOREM EmptyMeansEmptyCorrect == Spec => []EmptyMeansEmpty
  <1>1. ASSUME IdMapInv PROVE EmptyMeansEmpty
    <2>1. map \in Nested /\ NoneEmpty(map)
      BY <1>1, TypeParts DEF IdMapInv
    <2>2. ASSUME map = <<>>, NEW id \in Ids PROVE Get(id) = Absent
      BY <2>2, EmptyMap DEF Get
    <2>3. ASSUME map # <<>> PROVE \E id \in Ids : Get(id) # Absent
      <3>1. Len(map) \in Nat /\ DOMAIN map = 1 .. Len(map) /\ Len(map) # 0
        BY <2>1, <2>3, MapLaw, EmptySeq DEF Nested, Maps
      <3>2. 1 \in DOMAIN map /\ map[1] \in [key : Half, value : Maps(Item)]
        <4>1. 1 \in DOMAIN map
          BY <3>1
        <4> QED BY <2>1, <4>1, MapLaw DEF Nested
      <3> DEFINE m == map[1].value
      <3>3. m \in Maps(Item) /\ map[1].key \in Half
        BY <3>2
      <3>4. Has(map, map[1].key) /\ PosOf(map, map[1].key) = 1
        BY <2>1, <3>2, PosOfLaw DEF Nested
      <3>5. m # <<>>
        BY <2>1, <3>3, <3>4 DEF NoneEmpty, MapGet
      <3> HIDE DEF m
      <3>6. 1 \in 1 .. Len(m)
        BY <3>3, <3>5, MapLaw, EmptySeq DEF Maps
      <3>7. 1 \in 1 .. Len(map)
        BY <3>1
      <3> DEFINE id == [high |-> map[1].key, low |-> m[1].key]
      <3>8. id \in Ids /\ Present(map, id)
        BY <2>1, <3>6, <3>7, EntryLaw DEF m
      <3>9. ItemOf(map, id) \in Item
        BY <2>1, <3>8, PresentLaw
      <3>10. Get(id) = ItemOf(map, id)
        BY <3>8 DEF Get, Present, ItemOf
      <3> HIDE DEF id
      <3> QED BY <3>8, <3>9, <3>10, AbsentAssumption
    <2> QED BY <2>2, <2>3 DEF EmptyMeansEmpty, Empty
  <1> QED BY <1>1, IdMapInvariant, PTL

-----------------------------------------------------------------------------
(* The refinement.  Held and Due are what Contents and Ahead are in any    *)
(* state with the outer Map `n`, the iterators `j` and the phase `ph`.     *)

Held(n) == [id \in Ids |-> IF Present(n, id) THEN ItemOf(n, id) ELSE Absent]

Due(n, j, ph) ==
  {id \in Ids : ph # "none" /\ Present(n, id) /\ Behind(j, OuterOf(n, id), InnerOf(n, id))}

LEMMA HeldLaw ==
  ASSUME NEW n \in Nested, NEW id \in Ids
  PROVE  Held(n)[id] # Absent <=> Present(n, id)
  BY PresentLaw, AbsentAssumption DEF Held

LEMMA MappedNow == map \in Nested => Contents = Held(map) /\ Ahead = Due(map, it, phase)
  <1> SUFFICES ASSUME map \in Nested
               PROVE  Contents = Held(map) /\ Ahead = Due(map, it, phase)
    OBVIOUS
  <1>1. \A id \in Ids : Get(id) = IF Present(map, id) THEN ItemOf(map, id) ELSE Absent
    BY DEF Get, Present, ItemOf
  <1>2. Contents = Held(map)
    BY <1>1 DEF Contents, Held
  <1>3. \A id \in Ids : Get(id) # Absent <=> Present(map, id)
    BY <1>1, PresentLaw, AbsentAssumption
  <1>4. \A id \in Ids : IsAhead(id) <=> Behind(it, OuterOf(map, id), InnerOf(map, id))
    BY DEF IsAhead, Behind, OuterOf, InnerOf, MapGet
  <1>5. Ahead = Due(map, it, phase)
    BY <1>3, <1>4 DEF Ahead, Due
  <1> QED BY <1>2, <1>5

LEMMA MappedNext ==
  map' \in Nested => Contents' = Held(map') /\ Ahead' = Due(map', it', phase')
  <1> SUFFICES ASSUME map' \in Nested
               PROVE  Contents' = Held(map') /\ Ahead' = Due(map', it', phase')
    OBVIOUS
  <1>1. \A id \in Ids : Get(id)' = IF Present(map', id) THEN ItemOf(map', id) ELSE Absent
    BY DEF Get, Present, ItemOf
  <1>2. Contents' = Held(map')
    BY <1>1 DEF Contents, Held
  <1>3. \A id \in Ids : Get(id)' # Absent <=> Present(map', id)
    BY <1>1, PresentLaw, AbsentAssumption
  <1>4. \A id \in Ids : IsAhead(id)' <=> Behind(it', OuterOf(map', id), InnerOf(map', id))
    BY DEF IsAhead, Behind, OuterOf, InnerOf, MapGet
  <1>5. Ahead' = Due(map', it', phase')
    BY <1>3, <1>4 DEF Ahead, Due
  <1> QED BY <1>2, <1>5

(* set is Put: an item that is replaced keeps its place, and a new one is  *)
(* due when its place is one that entries() has not come to.               *)
LEMMA SetIsPut ==
  ASSUME IdMapInv, IdMapInv', NEW id \in Ids, NEW item \in Item, Set(id, item)
  PROVE  Promise!Put(id, item)
  <1> DEFINE n == map'
  <1>1. map \in Nested /\ n \in Nested /\ phase \in {"none", "next", "callback"}
    BY TypeParts DEF IdMapInv, TypeOK, Nested
  <1>2. n = SetIn(map, id, item) /\ phase # "next" /\ UNCHANGED <<it, phase, at>>
    BY SetAction
  <1>3. /\ Contents = Held(map) /\ Contents' = Held(n)
        /\ Ahead = Due(map, it, phase) /\ Ahead' = Due(n, it, phase)
    BY <1>1, <1>2, MappedNow, MappedNext
  <1> HIDE DEF n
  <1>4. /\ Present(n, id) /\ ItemOf(n, id) = item
        /\ Present(map, id) =>
             OuterOf(n, id) = OuterOf(map, id) /\ InnerOf(n, id) = InnerOf(map, id)
    BY <1>1, <1>2, SetPlaces
  <1>5. ASSUME NEW b \in Ids \ {id}
        PROVE  /\ Present(n, b) <=> Present(map, b)
               /\ Present(map, b) => /\ OuterOf(n, b) = OuterOf(map, b)
                                     /\ InnerOf(n, b) = InnerOf(map, b)
                                     /\ ItemOf(n, b) = ItemOf(map, b)
    BY <1>1, <1>2, SetPlaces
  <1>6. Held(n) = [Held(map) EXCEPT ![id] = item]
    BY <1>4, <1>5 DEF Held
  <1>7. \A b \in Ids \ {id} : b \in Due(n, it, phase) <=> b \in Due(map, it, phase)
    BY <1>5 DEF Due
  <1>8. CASE Present(map, id) \/ phase = "none"
    <2>1. id \in Due(n, it, phase) <=> id \in Due(map, it, phase)
      BY <1>4, <1>8 DEF Due
    <2>2. Due(n, it, phase) = Due(map, it, phase)
      BY <1>7, <2>1 DEF Due
    <2> QED BY <1>2, <1>3, <1>6, <2>2 DEF Promise!Put
  <1>9. CASE ~ Present(map, id) /\ phase # "none"
    <2>1. phase = "callback" /\ Contents[id] = Absent
      BY <1>1, <1>2, <1>3, <1>9 DEF Held
    <2>2. id \notin Due(map, it, phase)
      BY <1>9 DEF Due
    <2>3. \/ Due(n, it, phase) = Due(map, it, phase)
          \/ Due(n, it, phase) = Due(map, it, phase) \cup {id}
      BY <1>7, <2>2 DEF Due
    <2> QED BY <1>2, <1>3, <1>6, <2>1, <2>3 DEF Promise!Put
  <1> QED BY <1>8, <1>9

(* delete is Remove: the iterators move so that what was ahead of them     *)
(* stays ahead, also when the inner Map goes.                              *)
LEMMA DeleteIsRemove ==
  ASSUME IdMapInv, IdMapInv', NEW id \in Ids, Delete(id)
  PROVE  Promise!Remove(id)
  <1> DEFINE n == map'
             j == it'
  <1>1. map \in Nested /\ n \in Nested /\ it \in Iterators
    BY TypeParts DEF IdMapInv, TypeOK, Nested, Fits
  <1>2. /\ Present(map, id) /\ n = DeleteIn(map, id)
        /\ j = MovedFrom(it, OuterOf(map, id), InnerOf(map, id), LeftIn(map, id) = <<>>)
        /\ phase # "next" /\ UNCHANGED <<phase, at>>
    BY DeleteAction
  <1>3. /\ Contents = Held(map) /\ Contents' = Held(n)
        /\ Ahead = Due(map, it, phase) /\ Ahead' = Due(n, j, phase)
    BY <1>1, <1>2, MappedNow, MappedNext
  <1> HIDE DEF n, j
  <1>4. ~ Present(n, id)
    BY <1>1, <1>2, DeletePlaces
  <1>5. ASSUME NEW b \in Ids \ {id}
        PROVE  /\ Present(n, b) <=> Present(map, b)
               /\ Present(map, b) =>
                    /\ ItemOf(n, b) = ItemOf(map, b)
                    /\ Behind(j, OuterOf(n, b), InnerOf(n, b))
                         <=> Behind(it, OuterOf(map, b), InnerOf(map, b))
    BY <1>1, <1>2, DeletePlaces
  <1>6. Held(n) = [Held(map) EXCEPT ![id] = Absent]
    BY <1>4, <1>5 DEF Held
  <1>7. Due(n, j, phase) = Due(map, it, phase) \ {id}
    BY <1>4, <1>5 DEF Due
  <1> QED BY <1>2, <1>3, <1>6, <1>7 DEF Promise!Remove

(* The iterators at the start have everything before them. *)
LEMMA ForEachIsBegin ==
  ASSUME IdMapInv, IdMapInv', ForEach
  PROVE  Promise!Begin
  <1>1. map \in Nested
    BY TypeParts DEF IdMapInv
  <1>2. phase = "none" /\ phase' = "next" /\ it' = Stopped /\ map' = map /\ at' = at
    BY DEF ForEach
  <1>3. /\ Contents = Held(map) /\ Contents' = Held(map)
        /\ Ahead' = Due(map, Stopped, "next")
    BY <1>1, <1>2, MappedNow, MappedNext
  <1>4. ASSUME NEW id \in Ids, Present(map, id)
        PROVE  Behind(Stopped, OuterOf(map, id), InnerOf(map, id))
    <2>1. OuterOf(map, id) > 0
      BY <1>1, <1>4, PresentLaw
    <2> QED BY <2>1 DEF Behind, Stopped
  <1>5. Due(map, Stopped, "next") = {id \in Ids : Held(map)[id] # Absent}
    BY <1>1, <1>4, HeldLaw DEF Due
  <1> QED BY <1>2, <1>3, <1>5 DEF Promise!Begin

(* What is yielded was due, and nothing else stops being due. *)
LEMMA YieldIsVisit ==
  ASSUME IdMapInv, IdMapInv', Yield
  PROVE  \E id \in Ids : Promise!Visit(id)
  <1>1. map \in Nested /\ it \in Iterators /\ TypeOK
    BY TypeParts DEF IdMapInv, Fits
  <1>2. PICK id \in Ids :
          /\ Present(map, id)
          /\ it.attached /\ OuterOf(map, id) = it.outer /\ InnerOf(map, id) = it.inner + 1
          /\ it' = [it EXCEPT !.inner = @ + 1]
          /\ at' = [id |-> id, item |-> ItemOf(map, id)]
          /\ phase = "next" /\ phase' = "callback" /\ map' = map
    BY <1>1, YieldAction
  <1>3. /\ Contents = Held(map) /\ Contents' = Held(map)
        /\ Ahead = Due(map, it, "next") /\ Ahead' = Due(map, it', "callback")
    BY <1>1, <1>2, MappedNow, MappedNext
  <1>4. /\ it.outer \in Nat /\ it.inner \in Nat
        /\ it'.outer = it.outer /\ it'.inner = it.inner + 1 /\ it'.attached = it.attached
    BY <1>1, <1>2 DEF Iterators
  <1>5. id \in Due(map, it, "next") /\ id \notin Due(map, it', "callback")
    BY <1>2, <1>4 DEF Due, Behind
  <1>6. ASSUME NEW b \in Ids \ {id}, Present(map, b)
        PROVE  Behind(it', OuterOf(map, b), InnerOf(map, b))
                 <=> Behind(it, OuterOf(map, b), InnerOf(map, b))
    <2>1. OuterOf(map, b) = it.outer => InnerOf(map, b) # it.inner + 1
      BY <1>1, <1>2, <1>6, OneId
    <2>2. InnerOf(map, b) \in Nat
      BY <1>1, <1>6, PresentLaw
    <2> QED BY <1>4, <2>1, <2>2 DEF Behind
  <1>7. Due(map, it', "callback") = Due(map, it, "next") \ {id}
    BY <1>5, <1>6 DEF Due
  <1>8. Held(map)[id] = ItemOf(map, id)
    BY <1>2 DEF Held
  <1> QED BY <1>2, <1>3, <1>5, <1>7, <1>8 DEF Promise!Visit

(* At the end of an inner Map, or without one, what is due is in the Maps  *)
(* that come later in the outer Map.                                       *)
LEMMA DueLater ==
  ASSUME IdMapInv, ~ InnerLeft, NEW id \in Ids, Present(map, id)
  PROVE  /\ Behind(it, OuterOf(map, id), InnerOf(map, id)) <=> OuterOf(map, id) > it.outer
         /\ OuterOf(map, id) \in 1 .. Len(map) /\ InnerOf(map, id) \in Nat
         /\ InnerOf(map, id) > 0
  <1>1. map \in Nested /\ it \in Iterators
    BY TypeParts DEF IdMapInv, Fits
  <1>2. /\ OuterOf(map, id) \in 1 .. Len(map)
        /\ MapGet(map, id.high) = map[OuterOf(map, id)].value
        /\ MapGet(map, id.high) \in Maps(Item)
        /\ InnerOf(map, id) \in 1 .. Len(MapGet(map, id.high))
    BY <1>1, PresentLaw
  <1>3. Len(MapGet(map, id.high)) \in Nat
    BY <1>2, MapLaw
  <1>4. it.inner \in Nat
    BY <1>1 DEF Iterators
  <1>5. ASSUME it.attached, OuterOf(map, id) = it.outer PROVE ~ (InnerOf(map, id) > it.inner)
    <2>1. ~ (it.inner < Len(MapGet(map, id.high)))
      BY <1>2, <1>5 DEF InnerLeft
    <2> QED BY <1>2, <1>3, <1>4, <2>1
  <1> QED BY <1>2, <1>3, <1>5 DEF Behind

LEMMA NextMapStutters ==
  ASSUME IdMapInv, IdMapInv', NextMap
  PROVE  UNCHANGED Promise!vars
  <1>1. map \in Nested /\ it \in Iterators
    BY TypeParts DEF IdMapInv, Fits
  <1>2. /\ phase = "next" /\ ~ InnerLeft
        /\ it' = [outer |-> it.outer + 1, inner |-> 0, attached |-> TRUE]
        /\ phase' = phase /\ map' = map /\ at' = at
    BY DEF NextMap
  <1>3. /\ Contents' = Contents
        /\ Ahead = Due(map, it, "next") /\ Ahead' = Due(map, it', "next")
    BY <1>1, <1>2, MappedNow, MappedNext
  <1>4. it.outer \in Nat /\ it'.outer = it.outer + 1 /\ it'.inner = 0 /\ it'.attached
    BY <1>1, <1>2 DEF Iterators
  <1>5. ASSUME NEW id \in Ids, Present(map, id)
        PROVE  Behind(it', OuterOf(map, id), InnerOf(map, id))
                 <=> Behind(it, OuterOf(map, id), InnerOf(map, id))
    <2>1. /\ Behind(it, OuterOf(map, id), InnerOf(map, id)) <=> OuterOf(map, id) > it.outer
          /\ OuterOf(map, id) \in Nat /\ InnerOf(map, id) > 0
      BY <1>2, <1>5, DueLater
    <2>2. Behind(it', OuterOf(map, id), InnerOf(map, id)) <=> OuterOf(map, id) > it.outer
      BY <1>4, <2>1 DEF Behind
    <2> QED BY <2>1, <2>2
  <1>6. Due(map, it', "next") = Due(map, it, "next")
    BY <1>5 DEF Due
  <1> QED BY <1>2, <1>3, <1>6 DEF Promise!vars

(* forEach ends only when nothing is due any more. *)
LEMMA FinishIsEnd ==
  ASSUME IdMapInv, IdMapInv', Finish
  PROVE  Promise!End
  <1>1. map \in Nested /\ Len(map) \in Nat
    BY TypeParts, MapLaw DEF IdMapInv, Nested
  <1>2. /\ phase = "next" /\ ~ InnerLeft /\ it.outer = Len(map)
        /\ phase' = "none" /\ map' = map /\ at' = at
    BY DEF Finish
  <1>3. /\ Contents' = Contents
        /\ Ahead = Due(map, it, "next") /\ Ahead' = Due(map, it', "none")
    BY <1>1, <1>2, MappedNow, MappedNext
  <1>4. ASSUME NEW id \in Ids, Present(map, id)
        PROVE  ~ Behind(it, OuterOf(map, id), InnerOf(map, id))
    <2>1. /\ Behind(it, OuterOf(map, id), InnerOf(map, id)) <=> OuterOf(map, id) > it.outer
          /\ OuterOf(map, id) \in 1 .. Len(map)
      BY <1>2, <1>4, DueLater
    <2> QED BY <1>1, <1>2, <2>1
  <1>5. Due(map, it, "next") = {} /\ Due(map, it', "none") = {}
    BY <1>4 DEF Due
  <1> QED BY <1>2, <1>3, <1>5 DEF Promise!End

LEMMA ReturnIsGoOn ==
  ASSUME IdMapInv, IdMapInv', CallbackReturns
  PROVE  Promise!GoOn
  <1>1. map \in Nested
    BY TypeParts DEF IdMapInv
  <1>2. phase = "callback" /\ phase' = "next" /\ at' = Nothing /\ map' = map /\ it' = it
    BY DEF CallbackReturns
  <1>3. /\ Contents' = Contents
        /\ Ahead = Due(map, it, "callback") /\ Ahead' = Due(map, it, "next")
    BY <1>1, <1>2, MappedNow, MappedNext
  <1>4. Due(map, it, "next") = Due(map, it, "callback")
    BY DEF Due
  <1> QED BY <1>2, <1>3, <1>4 DEF Promise!GoOn, Promise!Nothing, Nothing

LEMMA PromiseInit == Init => Promise!Init
  <1> SUFFICES ASSUME Init PROVE Promise!Init
    OBVIOUS
  <1>1. map = <<>> /\ phase = "none" /\ at = Nothing
    BY DEF Init
  <1>2. \A id \in Ids : Get(id) = Absent
    BY <1>1, EmptyMap DEF Get
  <1>3. Contents = [id \in Ids |-> Absent]
    BY <1>2 DEF Contents
  <1>4. Ahead = {}
    BY <1>1 DEF Ahead
  <1> QED BY <1>1, <1>3, <1>4 DEF Promise!Init, Promise!Nothing, Nothing

LEMMA PromiseStep ==
  IdMapInv /\ IdMapInv' /\ [Next]_vars => [Promise!Next]_(Promise!vars)
  <1> SUFFICES ASSUME IdMapInv, IdMapInv', [Next]_vars
               PROVE  [Promise!Next]_(Promise!vars)
    OBVIOUS
  <1>1. ASSUME NEW id \in Ids, NEW item \in Item, Set(id, item) PROVE Promise!Next
    BY <1>1, SetIsPut DEF Promise!Next
  <1>2. ASSUME NEW id \in Ids, Delete(id) PROVE Promise!Next
    BY <1>2, DeleteIsRemove DEF Promise!Next
  <1>3. CASE ForEach
    BY <1>3, ForEachIsBegin DEF Promise!Next
  <1>4. CASE Yield
    BY <1>4, YieldIsVisit DEF Promise!Next
  <1>5. CASE NextMap
    BY <1>5, NextMapStutters
  <1>6. CASE Finish
    BY <1>6, FinishIsEnd DEF Promise!Next
  <1>7. CASE CallbackReturns
    BY <1>7, ReturnIsGoOn DEF Promise!Next
  <1>8. CASE UNCHANGED vars
    <2>1. map' = map /\ it' = it /\ phase' = phase /\ at' = at
      BY <1>8 DEF vars
    <2>2. map \in Nested
      BY TypeParts DEF IdMapInv
    <2>3. Contents' = Contents /\ Ahead' = Ahead
      BY <2>1, <2>2, MappedNow, MappedNext
    <2> QED BY <2>1, <2>3 DEF Promise!vars
  <1> QED BY <1>1, <1>2, <1>3, <1>4, <1>5, <1>6, <1>7, <1>8 DEF Next, Generator

(* IdMap keeps what MapPromise promises: a function from ids to items, and *)
(* a forEach that yields every item that is there throughout exactly once, *)
(* with its current value, whatever its callback sets and deletes.         *)
THEOREM KeepsPromiseCorrect == Spec => KeepsPromise
  <1>1. Spec => Promise!Init /\ [][Promise!Next]_(Promise!vars)
    BY PromiseInit, PromiseStep, IdMapInvariant, PTL DEF Spec
  <1> QED BY <1>1 DEF KeepsPromise, Promise!Spec
=============================================================================
