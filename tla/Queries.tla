------------------------------ MODULE Queries ------------------------------
(***************************************************************************)
(* The queries of a collection and its indexes.  They change nothing.  A   *)
(* list of items is the set of them here: no query promises an order, but  *)
(* max1 and min1 answer with whichever item comes first, so their answer   *)
(* is any item of a set.                                                   *)
(***************************************************************************)
EXTENDS Collection

(* Index.item reads the item when it is asked for: an index keeps ids. *)
item(id) == [id |-> id, value |-> GetFrom(store, id)]

(* HashIndex.items, BTreeIndex.items. *)
items(set) == IF set = Absent THEN {} ELSE {item(id) : id \in set}

Keys(state) == {k \in Key : state[k] # Absent}

countDistinct(state) == Cardinality(Keys(state))

eq(state, key) == items(state[key])

(* UniqueHashIndex.eq: one item or none. *)
uniqueEq(state, key) ==
  IF state[key] = Absent THEN {} ELSE {item(state[key])}

(* A faulty max: it asks for the smallest key. *)
maxTakesMin(state) ==
  IF Keys(state) = {} THEN {} ELSE items(state[Min(Keys(state))])

max(state) == IF Keys(state) = {} THEN {} ELSE items(state[Max(Keys(state))])

min(state) == IF Keys(state) = {} THEN {} ELSE items(state[Min(Keys(state))])

(* What max1 and min1 may answer: {Undefined}, or one of these items. *)
max1(state) ==
  IF Keys(state) = {} THEN {Undefined} ELSE items(state[Max(Keys(state))])

min1(state) ==
  IF Keys(state) = {} THEN {Undefined} ELSE items(state[Min(Keys(state))])

(* getRange of sorted-btree: the keys from lo to hi, at most limit of      *)
(* them, the smallest first.  How many keys it lets through is taken from  *)
(* the name limit that range gives the bound; QueriesAgree does not depend *)
(* on it.                                                                  *)
getRange(state, lo, hi, limit) ==
  {k \in Keys(state) :
     /\ lo <= k /\ k <= hi
     /\ Cardinality({l \in Keys(state) : lo <= l /\ l < k}) < limit}

(* The limit of a call that names none: an index has no more keys than     *)
(* there are ids.                                                          *)
Unlimited == MaxId + 1

range(state, lo, hi, limit) ==
  UNION {items(state[k]) : k \in getRange(state, lo, hi, limit)}

(* Collection.get and toList. *)
get(id) == GetFrom(store, id)

toList == {item(id) : id \in Occupied(store)}

-----------------------------------------------------------------------------
(* The answers a reader of the documentation expects, computed from what   *)
(* an index is entitled to see, p, of the items in the store.              *)

With(ids) == {x \in toList : x.id \in ids}

Extreme(p, sign) ==
  {i \in Occupied(p) : \A o \in Occupied(p) : sign * p[o] <= sign * p[i]}

Between(p, lo, hi) == {i \in Occupied(p) : lo <= p[i] /\ p[i] <= hi}

(* A limit only cuts off the end: no item is left out while one with the   *)
(* same or a larger key is answered.                                       *)
CutsOffEnd(p, answer, full) ==
  /\ answer \subseteq full
  /\ \A x \in answer, y \in full : p[y.id] <= p[x.id] => y \in answer

OneOf(set) == IF set = {} THEN {Undefined} ELSE set

BucketQueriesAgree(state, p) ==
  /\ countDistinct(state) = Cardinality({p[i] : i \in Occupied(p)})
  /\ \A k \in Key : eq(state, k) = With(FiledUnder(k, p))

UniqueQueriesAgree(state, p) ==
  /\ countDistinct(state) = Cardinality(Occupied(p))
  /\ \A k \in Key : uniqueEq(state, k) = With(FiledUnder(k, p))

OrderedQueriesAgree(state, p) ==
  /\ max(state) = With(Extreme(p, 1))
  /\ min(state) = With(Extreme(p, -1))
  /\ max1(state) = OneOf(With(Extreme(p, 1)))
  /\ min1(state) = OneOf(With(Extreme(p, -1)))
  /\ \A lo, hi \in Key :
       LET full == With(Between(p, lo, hi))
       IN  /\ range(state, lo, hi, Unlimited) = full
           /\ \A limit \in 1 .. Unlimited :
                CutsOffEnd(p, range(state, lo, hi, limit), full)

LeafQueriesAgree(d, state, m) ==
  LET p == Premapped(d.f, m)
  IN  /\ d.kind \in {"hash", "btree"} => BucketQueriesAgree(state, p)
      /\ d.kind = "btree" => OrderedQueriesAgree(state, p)
      /\ d.kind = "unique" => UniqueQueriesAgree(state, p)

(* GroupedIndex.get answers undefined for a group that has never had an    *)
(* item, and the index of the group otherwise.                             *)
PlainQueriesAgree(d, state, m) ==
  IF d.kind # "group" THEN LeafQueriesAgree(d, state, m)
  ELSE \A g \in Group :
         IF g \in state.live
         THEN LeafQueriesAgree(d.inner, state.ixs[g], MembersOf(d.by, g, m))
         ELSE Occupied(MembersOf(d.by, g, m)) = {}

(* Between calls of an intact collection, the queries that look items up   *)
(* (eq, countDistinct, max, min, max1, min1, and range with or without a   *)
(* limit) give the answers that follow from the items in the collection,   *)
(* with their current values; behind group and zip too.  The aggregates'   *)
(* value() is not among them: what they keep is in Sync, what value()      *)
(* makes of it in FusionIsSound.                                           *)
QueriesAgree ==
  Intact /\ phase = "idle" =>
    \A j \in 1 .. Len(indexes) :
      IF indexes[j].kind # "zip" THEN PlainQueriesAgree(indexes[j], ix[j], store)
      ELSE \A l \in 1 .. Len(indexes[j].parts) :
             PlainQueriesAgree(indexes[j].parts[l], ix[j][l], store)
=============================================================================
