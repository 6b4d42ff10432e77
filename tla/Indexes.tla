------------------------------ MODULE Indexes ------------------------------
(***************************************************************************)
(* The indexes a collection can hold, described by what was composed to    *)
(* make them (core/Index.ts):                                              *)
(*                                                                         *)
(*   [kind |-> k, f |-> f]                     premap(f, k)                *)
(*   [kind |-> "group", by |-> g, inner |-> d] group(g, d), d of the first *)
(*                                             form                        *)
(*   [kind |-> "zip", parts |-> <<d1, d2>>]    zip(d1, d2) and so on, each *)
(*                                             part of one of these forms  *)
(*                                                                         *)
(* where f maps an item to its key, or to Undefined to leave the item out. *)
(* An index that is no zip is called plain.                                *)
(*                                                                         *)
(* _onUpdate runs in two phases: the call itself, which may refuse the     *)
(* update by throwing, and the commit hook it returns.  OnUpdate and Hook  *)
(* are the two phases.                                                     *)
(***************************************************************************)
EXTENDS HashIndex, UniqueHashIndex, BTreeIndex, FoldIndex, MockIndex, Sequences

CONSTANT Group  \* what group() may sort items into

LeafKinds == {"hash", "unique", "btree", "count", "sum", "mean", "mock"}

(* The aggregates of numbers are only given numbers. *)
LeafDescs ==
  {d \in [kind : LeafKinds, f : [Value -> Key \cup {Undefined}]] :
     d.kind \in {"sum", "mean"} =>
       \A v \in Value : d.f[v] = Undefined \/ d.f[v] \in Int}

GroupDescs == [kind : {"group"}, by : [Value -> Group], inner : LeafDescs]

PlainDescs == LeafDescs \cup GroupDescs

ZipDescs == [kind : {"zip"}, parts : Seq(PlainDescs)]

-----------------------------------------------------------------------------
(* PremapIndex around one of the built-in indexes.                         *)

LeafStates(d) ==
  CASE d.kind = "hash"   -> HashStates
    [] d.kind = "unique" -> UniqueStates
    [] d.kind = "btree"  -> BTreeStates
    [] d.kind = "count"  -> Int
    [] d.kind = "sum"    -> Int
    [] d.kind = "mean"   -> [sum : Int, count : Int]
    [] d.kind = "mock"   -> MockStates

LeafEmpty(d) ==
  CASE d.kind = "hash"   -> HashEmpty
    [] d.kind = "unique" -> UniqueEmpty
    [] d.kind = "btree"  -> BTreeEmpty
    [] d.kind = "count"  -> 0
    [] d.kind = "sum"    -> 0
    [] d.kind = "mean"   -> [sum |-> 0, count |-> 0]
    [] d.kind = "mock"   -> EmptyStore

(* The exception _onUpdate throws.  No built-in index changes before its   *)
(* hook runs.                                                              *)
LeafOnUpdate(d, ix, u) ==
  LET v == filterMapUpdate(d.f, u)
  IN  IF d.kind = "unique" /\ v.type # "NONE" THEN UniqueOnUpdate(ix, v)
                                              ELSE "none"

LeafHook(d, ix, u) ==
  LET v == filterMapUpdate(d.f, u)
  IN  IF v.type = "NONE" THEN Done(ix)
      ELSE CASE d.kind = "hash"   -> HashHook(ix, v)
             [] d.kind = "unique" -> UniqueHook(ix, v)
             [] d.kind = "btree"  -> BTreeHook(ix, v)
             [] d.kind = "count"  -> CountHook(ix, v)
             [] d.kind = "sum"    -> SumHook(ix, v)
             [] d.kind = "mean"   -> MeanHook(ix, v)
             [] d.kind = "mock"   -> MockHook(ix, v)

LeafMirrors(d, ix, m) ==
  LET p == Premapped(d.f, m)
  IN  CASE d.kind = "hash"   -> HashMirrors(ix, p)
        [] d.kind = "unique" -> UniqueMirrors(ix, p)
        [] d.kind = "btree"  -> BTreeMirrors(ix, p)
        [] d.kind = "count"  -> CountMirrors(ix, p)
        [] d.kind = "sum"    -> SumMirrors(ix, p)
        [] d.kind = "mean"   -> MeanMirrors(ix, p)
        [] d.kind = "mock"   -> MockMirrors(ix, p)

-----------------------------------------------------------------------------
(* GroupedIndex: `live` is the domain of its Map from groups to inner      *)
(* indexes; the inner index of a group that is not live is an empty one.   *)

GroupEmpty(d) == [live |-> {}, ixs |-> [g \in Group |-> LeafEmpty(d.inner)]]

(* A faulty GroupOnUpdate: the inner index is registered once and serves   *)
(* all groups, so that a key taken in one of them is taken in all.         *)
GroupOnUpdateSharesInner(d, ix, u) ==
  LET taken == \E g \in Group : LeafOnUpdate(d.inner, ix.ixs[g], u) # "none"
  IN  [exn |-> IF taken THEN "ConflictException" ELSE "none",
       ix  |-> IF u.type = "DELETE" THEN ix
               ELSE [ix EXCEPT !.live = @ \cup {d.by[u.new]}]]

(* The phase-one call.  It creates the group an item is headed for, and    *)
(* the group stays even if the inner index refuses the item.  Where the    *)
(* code looks up a group it expects to exist, a missing one is a TypeError.*)
GroupOnUpdate(d, ix, u) ==
  LET old == d.by[u.old]
      new == d.by[u.new]
      created == [ix EXCEPT !.live = @ \cup {new}]
  IN  CASE u.type = "ADD" ->
             [exn |-> LeafOnUpdate(d.inner, ix.ixs[new], u), ix |-> created]
        [] u.type = "UPDATE" /\ old # new -> Done(created)
        [] u.type = "DELETE" \/ (u.type = "UPDATE" /\ old = new) ->
             IF old \notin ix.live THEN Thrown("TypeError", ix)
             ELSE [exn |-> LeafOnUpdate(d.inner, ix.ixs[old], u), ix |-> ix]

(* The hook of an UPDATE that moves an item from one group to another      *)
(* makes both phases of a DELETE and then of an ADD: a conflict in the     *)
(* second group is only found once the item has left the first.            *)
GroupMoveHook(d, ix, u, old, new) ==
  LET del  == DeleteUpdate(u.id, u.old)
      add  == AddUpdate(u.id, u.new)
      gone == LeafHook(d.inner, ix.ixs[old], del)
      left == [ix EXCEPT !.ixs[old] = gone.ix]
      refused == LeafOnUpdate(d.inner, ix.ixs[new], add)
      came == LeafHook(d.inner, ix.ixs[new], add)
  IN  IF old \notin ix.live THEN Thrown("TypeError", ix)
      ELSE IF gone.exn # "none" THEN Thrown(gone.exn, left)
      ELSE IF refused # "none" THEN Thrown(refused, left)
      ELSE [exn |-> came.exn, ix |-> [left EXCEPT !.ixs[new] = came.ix]]

GroupHook(d, ix, u) ==
  LET group == IF u.type = "ADD" THEN d.by[u.new] ELSE d.by[u.old]
      inner == LeafHook(d.inner, ix.ixs[group], u)
  IN  IF u.type = "UPDATE" /\ d.by[u.old] # d.by[u.new]
      THEN GroupMoveHook(d, ix, u, d.by[u.old], d.by[u.new])
      ELSE [exn |-> inner.exn, ix |-> [ix EXCEPT !.ixs[group] = inner.ix]]

(* The items of m in group g. *)
MembersOf(by, g, m) ==
  [i \in Ids |-> IF m[i] # Absent /\ by[m[i]] = g THEN m[i] ELSE Absent]

GroupMirrors(d, ix, m) ==
  /\ \A i \in Ids : m[i] # Absent => d.by[m[i]] \in ix.live
  /\ \A g \in Group : LeafMirrors(d.inner, ix.ixs[g], MembersOf(d.by, g, m))

-----------------------------------------------------------------------------
(* Plain indexes.                                                          *)

PlainStates(d) ==
  IF d.kind = "group"
  THEN [live : SUBSET Group, ixs : [Group -> LeafStates(d.inner)]]
  ELSE LeafStates(d)

PlainEmpty(d) == IF d.kind = "group" THEN GroupEmpty(d) ELSE LeafEmpty(d)

PlainOnUpdate(d, ix, u) ==
  IF d.kind = "group" THEN GroupOnUpdate(d, ix, u)
  ELSE [exn |-> LeafOnUpdate(d, ix, u), ix |-> ix]

PlainHook(d, ix, u) ==
  IF d.kind = "group" THEN GroupHook(d, ix, u) ELSE LeafHook(d, ix, u)

PlainMirrors(d, ix, m) ==
  IF d.kind = "group" THEN GroupMirrors(d, ix, m) ELSE LeafMirrors(d, ix, m)

-----------------------------------------------------------------------------
(* ZipIndex.  Both of its loops stop at the first part that throws: r is   *)
(* what the parts would come to one by one.                                *)

ZipStates(d) ==
  {s \in [1 .. Len(d.parts) ->
           UNION {PlainStates(d.parts[j]) : j \in 1 .. Len(d.parts)}] :
     \A j \in 1 .. Len(d.parts) : s[j] \in PlainStates(d.parts[j])}

(* A faulty ZipOutcome: the parts after one that throws go on. *)
ZipOutcomeGoesOn(n, ix, r) ==
  LET failed == {j \in 1 .. n : r[j].exn # "none"}
  IN  [exn |-> IF failed = {} THEN "none" ELSE r[Min(failed)].exn,
       ix  |-> [j \in 1 .. n |-> r[j].ix]]

ZipOutcome(n, ix, r) ==
  LET failed == {j \in 1 .. n : r[j].exn # "none"}
      stop == IF failed = {} THEN n ELSE Min(failed)
  IN  [exn |-> IF failed = {} THEN "none" ELSE r[stop].exn,
       ix  |-> [j \in 1 .. n |-> IF j <= stop THEN r[j].ix ELSE ix[j]]]

ZipOnUpdate(d, ix, u) ==
  ZipOutcome(Len(d.parts), ix,
    [j \in 1 .. Len(d.parts) |-> PlainOnUpdate(d.parts[j], ix[j], u)])

ZipHook(d, ix, u) ==
  ZipOutcome(Len(d.parts), ix,
    [j \in 1 .. Len(d.parts) |-> PlainHook(d.parts[j], ix[j], u)])

-----------------------------------------------------------------------------
(* Any index.                                                              *)

IndexDescs == PlainDescs \cup ZipDescs

(* The descriptions without a unique index inside a group, which alone may *)
(* refuse in its hook.                                                     *)
SafePlain ==
  {d \in PlainDescs : d.kind = "group" => d.inner.kind # "unique"}

SafeDescs == SafePlain \cup [kind : {"zip"}, parts : Seq(SafePlain)]

IndexStates(d) == IF d.kind = "zip" THEN ZipStates(d) ELSE PlainStates(d)

Empty(d) ==
  IF d.kind = "zip" THEN [j \in 1 .. Len(d.parts) |-> PlainEmpty(d.parts[j])]
                    ELSE PlainEmpty(d)

OnUpdate(d, ix, u) ==
  IF d.kind = "zip" THEN ZipOnUpdate(d, ix, u) ELSE PlainOnUpdate(d, ix, u)

Hook(d, ix, u) ==
  IF d.kind = "zip" THEN ZipHook(d, ix, u) ELSE PlainHook(d, ix, u)

(* ix holds exactly what an index of this description should hold when the *)
(* collection's items are m: the specification of every index.             *)
Mirrors(d, ix, m) ==
  IF d.kind = "zip"
  THEN \A j \in 1 .. Len(d.parts) : PlainMirrors(d.parts[j], ix[j], m)
  ELSE PlainMirrors(d, ix, m)

(* What the hook of an index leaves when it throws halfway through u, m    *)
(* being the items before u: the item is nowhere any more.  The parts of a *)
(* zip before the one that threw have followed u, the parts after it have  *)
(* not.                                                                    *)
Stopped(d, ix, u, m) ==
  IF d.kind = "zip"
  THEN \E s \in 1 .. Len(d.parts) : \A j \in 1 .. Len(d.parts) :
         PlainMirrors(d.parts[j], ix[j],
           IF j < s THEN Applied(u, m) ELSE IF j = s THEN Without(u.id, m) ELSE m)
  ELSE PlainMirrors(d, ix, Without(u.id, m))

(* No entry has an empty set of ids. *)
LeafTidy(d, ix) == d.kind \in {"hash", "btree"} => \A k \in Key : ix[k] # {}

PlainTidy(d, ix) ==
  IF d.kind = "group" THEN \A g \in Group : LeafTidy(d.inner, ix.ixs[g])
                      ELSE LeafTidy(d, ix)

Tidy(d, ix) ==
  IF d.kind = "zip"
  THEN \A j \in 1 .. Len(d.parts) : PlainTidy(d.parts[j], ix[j])
  ELSE PlainTidy(d, ix)

(* ix files the id i where v belongs and nowhere else: under the key of v, *)
(* in the group of v; nowhere, if v is Absent.  This is said of the        *)
(* indexes that keep ids in buckets.                                       *)
LeafFiles(d, ix, i, v) ==
  d.kind \in {"hash", "btree"} =>
    \A k \in Key : ix[k] # Absent /\ i \in ix[k] <=> v # Absent /\ d.f[v] = k

PlainFiles(d, ix, i, v) ==
  IF d.kind = "group"
  THEN \A g \in Group :
         LeafFiles(d.inner, ix.ixs[g], i,
                   IF v # Absent /\ d.by[v] = g THEN v ELSE Absent)
  ELSE LeafFiles(d, ix, i, v)

Files(d, ix, i, v) ==
  IF d.kind = "zip"
  THEN \A j \in 1 .. Len(d.parts) : PlainFiles(d.parts[j], ix[j], i, v)
  ELSE PlainFiles(d, ix, i, v)

(* Phase one has been passed: asking again changes nothing and is not      *)
(* refused.                                                                *)
Accepted(d, ix, u) == OnUpdate(d, ix, u) = Done(ix)

(* An index of this description does not admit v and w together: a unique  *)
(* index files both under one key.                                         *)
LeafClash(d, v, w) == d.kind = "unique" /\ d.f[v] # Undefined /\ d.f[v] = d.f[w]

PlainClash(d, v, w) ==
  IF d.kind = "group" THEN d.by[v] = d.by[w] /\ LeafClash(d.inner, v, w)
                      ELSE LeafClash(d, v, w)

Clash(d, v, w) ==
  IF d.kind = "zip" THEN \E j \in 1 .. Len(d.parts) : PlainClash(d.parts[j], v, w)
                    ELSE PlainClash(d, v, w)
=============================================================================
