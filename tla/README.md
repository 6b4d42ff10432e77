# composable-indexes in TLA+

A verification project for the TypeScript library in `core/src`: an in-memory
`Collection<T>` whose items are kept in a store under 64-bit ids, and indexes
that are told of every change and answer queries without looking at the store.

Contents: [inventory](#inventory), [modules](#modules), [runs](#runs),
[what the runs found](#what-the-runs-found), [proofs](#proofs),
[limits](#what-is-not-modelled), [plan](#plan).

## Inventory

| part | state | operations | depends on |
|---|---|---|---|
| `core/Collection.ts` | id counter `last`, `store`, list of `indexes` | `add`, `delete`, `set`, `alter`, `adjust`, `registerIndex`, `get`, `forEach`, `toList` | calls `_onUpdate` of every index, then every hook; calls the user's callbacks in `alter`, `adjust`, `forEach` |
| `core/Update.ts` | none | `filterMapUpdate`, `mapUpdate` | |
| `core/Index.ts` | `GroupedIndex`: a Map from groups to inner indexes | `premap`, `group` | calls the inner indexes; reads the store through `IndexContext` |
| `indexes/HashIndex.ts` | Map key -> set of ids | hook; `eq`, `countDistinct` | |
| `indexes/UniqueHashIndex.ts` | Map key -> id | check, hook; `eq`, `countDistinct` | throws `ConflictException` |
| `indexes/BTreeIndex.ts` | B-tree key -> set of ids | hook; `eq`, `range`, `max`, `min`, ... | package `sorted-btree` |
| `indexes/FoldIndex.ts` | one folded state | hook; `value` | functions of the user |
| `indexes/AggregateIndex.ts` | none | `map`, `premap` of aggregates | |
| `indexes/ZipIndex.ts` | a tuple of indexes | check, hook | |
| `util/IdMap.ts` | two-level Map from ids | `get`, `set`, `delete`, iteration | package `long` |
| `test_util/MockIndex.ts` | list of items | hook, throws on a misfit | |

How they interact. A mutation of the collection writes the store, builds an
`Update` record (`ADD`, `UPDATE` or `DELETE`) and hands it to `propagateUpdate`.
That asks every index with `_onUpdate`, which may throw, and collects the commit
hooks; only when all have agreed does it run the hooks in turn. `premap` rewrites
the update on the way, `group` passes it to the index of one group, or takes the
item out of one group and puts it into another.

What is hard here. There are no threads. What there is:

* two loops over several indexes with exceptions in the middle, after the store
  has been written, and no rollback (`Collection.ts:71`, `198`, `202`);
* foreign code in the middle of `alter` that may call the collection again
  (`Collection.ts:154`);
* long mixes of calls in which each update has to carry exactly the old value,
  or an index loses track several calls later (`Collection.ts:119`,
  `Update.ts:80`);
* JavaScript's falsy values, `undefined` as an item, and a counter that wraps
  around (`Collection.ts:120`, `150`, `155`, `192`);
* a collection that goes on being used after a failure;
* `forEach` over Maps its own callback changes (`Collection.ts:177`,
  `IdMap.ts:47`);
* indexes that keep ids and read the item only when they are queried
  (`Index.ts:17`), and aggregates kept by increments (`FoldIndex.ts:135`).

`PROJECT.json` lists these as hazards, line by line, with the properties that
cover each.

What makes the parts correct: an index holds exactly what the store calls for
(`Sync`); a unique index admits one item per key and refuses for no other reason
(`UniqueKeys`, `ConflictIsReal`); ids are not handed out twice (`FreshIds`); a
refused mutation changes no index (`RefusalIsClean`) and refusal is the only way
to fail (`OnlyConflictsAbort`), both without a unique index inside a group
(`AllSafe`), which may refuse too late; then, and in every other case, each index is left in a known
state (`AbortIsOrderly`); a mutation that is given up does no harm to the filing
of other ids, whatever is called afterwards (`DamageIsLocal`); the queries that
look items up answer for the items as they are (`QueriesAgree`; that an aggregate
has the right value is `Sync`); seen between calls, the collection is a map that changes in
one step (`IsKeyedMap`); every call ends (`Settles`). An `IdMap` is a function,
and its `forEach` misses and repeats nothing (`KeepsPromise`) and ends
(`ForEachEnds`). An aggregate is what its chain of `premap` and `map` means
(`FusionIsSound`).

## Modules

```
Updates ── HashIndex, UniqueHashIndex, BTreeIndex, FoldIndex, MockIndex
              └── Indexes ── Collection ── Queries ── Claims ─┐
                     │            ├── Refinement ─────────────┴ MCCollection (TLC)
                     │            │      └ KeyedMap
                     └── IndexLaws ── CollectionProofs ── SyncProofs ─┬ RefinementProofs
FoldIndex ── FoldLaws ─────┘                                          └ QueryProofs  (TLAPS)
   └── Aggregates ── MCAggregates (TLC), AggregateProofs (TLAPS, with FoldLaws)
IdMap ── MCIdMap (TLC), IdMapProofs (TLAPS)
  └ MapPromise
```

`Updates` has the update records, `filterMapUpdate` and the meaning of an update
(`Describes`, `Applied`, `Undone`). A JavaScript Map is a total function whose
value `Absent` means "no entry". That is a value of its own, different from
`Undefined`: `Map.get` answers `undefined` to both, and `GetFrom` models that.
All three kinds of update share one record shape.

`HashIndex`, `UniqueHashIndex`, `BTreeIndex`, `FoldIndex`, `MockIndex`: each
index is a value, and its code is an operator from the index and an update to a
result `[exn, ix]`: the exception the call ended with, and the index afterwards,
which an exception does not undo. Each module also says what the index should
hold for given contents (`HashMirrors`, ...), computed from scratch.

`Indexes` composes them. An index is described by a record, `premap(f, kind)` or
`group(by, premap(f, kind))`, or as a `zip` of such ones. `OnUpdate` and `Hook` are the two phases of
`_onUpdate`, `Mirrors` the specification of any index, `Accepted` says that the
first phase has been passed. The move of an item between two groups happens
inside the hook, with both phases of a `DELETE` and of an `ADD`, as in the code.
A zip makes each phase part by part and stops at the first part that throws
(`ZipOutcome`). `Clash(d, v, w)` says, without any index state, that an index
described by `d` does not admit the items `v` and `w` together.

`Collection` is the state machine. The variables are the fields of the class, the
program counter of the two loops (`phase`, `pos`, `update`), the index under
construction (`building`), the stack of `alter` calls whose callback is running
(`frames`), the last exception (`exn`), and two history variables: `torn` (the ids
of the mutations that were given up after they wrote the store) and `wrapped` (the
counter has overflowed). The actions:

| action | code |
|---|---|
| `Add`, `Delete`, `Set` | the method, up to the call of `propagateUpdate` |
| `Alter` | `alter` (and `adjust`, a flag) up to the call of its callback; its `delete` goes through the loops first, and an exception there ends the `alter` |
| `AlterReturn`, `AlterThrow` | the callback returns or throws; `alter` goes on to `set` |
| `PrepareStep`, `PrepareDone` | the first loop, one index at a time |
| `CommitStep`, `CommitDone` | the second loop |
| `GiveUp` | an exception out of either loop |
| `RegisterIndex`, `BuildStep`, `BuildDone` | `registerIndex`, one item at a time |

The code is single-threaded, so a call is only made in phase `idle`. A callback
of `alter` runs in that phase too, with a frame on the stack: every call is
enabled there, which is how re-entrance is modelled. A call of `delete` of a
missing id, or of `adjust` on a falsy one, changes nothing and is not an action.
`registerIndex` visits the items in any order; the code's is the order of
insertion. `exn` holds the fields of the exception the code would construct.

`Queries` has `get`, `toList` and the queries of the indexes as operators on the
state, each next to the answer computed from the items. An answer reads its items
from the store (`item`), as the code does: an index only has their ids.
`getRange` stands for the method of the package `sorted-btree`. `QueriesAgree` does
not rely on what `limit` counts there: it says of a limited `range` that it cuts
off the end of the full answer and does not split the items of a key.

`KeyedMap` is the abstract specification of a collection: a map from ids to items
in which a mutation is one step, two items that clash are never both present, an
index is registered only over items it admits, and the promise ends with the
first refusal, which leaves exactly the refused item behind, or with the overflow
of the counter. `Refinement` maps a collection to it: while `propagateUpdate` is
under way the mutation has not happened yet (`Settled` undoes it), although the
store has been written.

`IdMap` is `util/IdMap.ts` by itself. A JavaScript Map is the sequence of its
entries in insertion order, and an iterator of one is the number of entries it
has passed, which deletions behind it shift. `entries()` has one iterator over
the outer Map and one over an inner Map, which may leave the outer Map while it is
iterated (`attached`). `Set` and `Delete` are enabled between calls and inside
the callback. `MapPromise` is what it promises: a function from ids to items, and
an iteration that yields each item that stays exactly once and settles, when an
item is put in, whether it will be yielded. The refinement mapping is `Contents`
for the function and `Ahead`, the ids the iterators have not passed, for what is
still due. The rest of the project relies on this and treats a store as a
function and an `IdSet` as a set.

`Aggregates` is `indexes/AggregateIndex.ts`: a builder that fuses a chain of
`premap` and `map` calls into one pair of functions, as the code does, and then
the index under any updates. Functions given to `map` are names that are written
down in order. Sums have NaN: `undefined` plus a number is NaN. What the chain
means is a fold over the calls as they were made: `Through` for one item, `Onward`
for the result. What is aggregated is numbers (`NumbersAssumption`).

The operators called "a faulty ..." are deliberate errors, each right above the
definition it spoils. They show that the properties would notice: with
the definition replaced by the faulty one, TLC finds the property violated.

## Runs

`MCCollection` gives small instances of the collection: up to three items (`z` is
falsy), two keys, two groups, and two key functions, one under which two items
share a key and one that leaves an item out. `MCIdMap` and `MCAggregates` are
instances of the other two state machines.

| run | instance | shows |
|---|---|---|
| `sync` | ids 0..2, up to 2 indexes (hash, unique, group of unique), `alter` 2 deep, until the first failure | `Sync`, `UniqueKeys`, `ConflictIsReal`, `FreshIds`, `OnlyConflictsAbort`, `RefusalIsClean`; the collection implements `KeyedMap` (`IsKeyedMap`) and `registerIndex` fails only over two items that clash (`RegisterRefusesClashes`), with callbacks that call the collection again and an index that may refuse in its commit hook, and what such a late refusal leaves of it and of the indexes before and after it (`AbortIsOrderly`) |
| `kinds` | ids 0..2, one index of any of 32 descriptions, until the first failure | `Sync` and `QueriesAgree` for every built-in index, with and without a group, and for four zips in which either part, or a group in a part, may refuse; `AbortIsOrderly`: a zip whose part throws in its hook has the parts before it at the new items and the parts after it at the old ones |
| `broken` | ids 0..1, up to 2 indexes (hash, unique, group of btree), `alter` 1 deep, no constraint | `TypeOK`, `NoEmptyBuckets` and `Settles` hold after failures and overflow as well, `DamageIsLocal` after failures |
| `foreach` | ids of two halves 0..1, two items | `KeepsPromise` (the refinement of `MapPromise`), `EmptyMeansEmpty`, `ForEachEnds` |
| `aggregates` | count, sum and mean of up to 3 items 1..3, up to 3 calls of `premap` (one function leaves an item out, one has an answer for undefined) and `map` | `FusionIsSound`: value() is what the chain means, if no function in front of another one answers undefined |

`Sync` is the central property. It is stated at every step, not only between
calls: during the first loop every index mirrors the store from before the
update, during the second the ones already passed mirror the new store, and the
index under construction mirrors the items it has been shown.

Bounds. `MaxId` stands for 2^64 - 1; three ids are enough for an item in the
way, an item being changed and an id above the counter, and the counter wraps
around within a few calls. Two indexes are enough for one that refuses after
another was asked, and for one hook to run before another. Depth 2 of `alter` is
enough for a callback that alters the id under alteration. In the runs "until
the first failure" the state constraint `UntilFirstFailure` stops at the first
state that is torn or wrapped; the step into that state is still checked, which
is the step the action properties are about. Calls are never forced, the model
never deadlocks, and deadlock checking is on in all runs. In `foreach`, two
halves make four ids in two inner Maps, the least in which one Map can empty
while another is iterated and come back behind it. In `aggregates`, three calls
are the least in which a `premap` is fused with an already fused one; two of the
functions do not commute.

Fairness. `Spec` has weak fairness of `Step`, the steps of a call under way:
JavaScript runs a call to completion. It says nothing of `Call`: nobody has to
make one, and a callback of `alter` need not return. `IdMap` has weak fairness of
`Generator` for the same reason. `ForEachEnds` takes as its own hypothesis that
callbacks return and that from some time on none puts an item in under a new id;
without it `forEach` need not end, and a callback that calls `adjust`, which
deletes the item and puts it in again, keeps it going for ever.

## What the runs found

Each of these runs is expected to fail. `Claims` states what the repository says
of a collection without the exceptions the code makes; TLC finds the exception.

| run | said | the code |
|---|---|---|
| `stays_in_sync` | "Stay in sync with the collection automatically." (`docs/src/00 Why.md:28`); a unique index "will not allow us to add two values with the same key" (`docs/src/01 Tutorial.md:73`) | a refused `add` leaves its item in the store, beside the one with the same key, and in no index |
| `conflict_duplicate` | "Throws a ConflictException if a duplicate item is added." (`UniqueHashIndex.ts:14`) | `set` on an item that keeps its key conflicts with itself |
| `conflict_existing` | "Conflict with existing id" (`Collection.ts:214`) | the id is that of the refused item |
| `id_wrap` | "Every value in the collection is assigned a unique ID." (`docs/src/01 Tutorial.md:38`) | after `set` with the largest id the counter wraps around: `add` hands out 0, 1, ... again and overwrites the items there |
| `falsy` | "If the new value is `undefined`, existing item is deleted." (`Collection.ts:143`); adjust "Updates a value in the collection, if it exists." (`Collection.ts:164`) | a falsy answer is not stored and its item lost; a falsy item is not deleted |
| `range_limit` | "Returns at most `limit` items" (`BTreeIndex.ts:133`) | the limit is one of keys: two items with the same key are answered for a limit of one |
| `mean_premap` | "If the function returns `undefined`, the input is ignored." (`Index.ts:39`); the type of an aggregate's `premap` admits such a function (`AggregateIndex.ts:19`) | `arithmeticMeanIndex()` has a premap already, and premapping it again hands `undefined` to the earlier one (`AggregateIndex.ts:88`): the mean becomes NaN, and stays NaN after the item is deleted |

`FreshIds` and `KeyedMap` speak of the time before the counter wraps around.

One more, which no run is kept for: `undefined` as an item ("Any type would do",
`Tutorial.md:28`) is taken by `set` for a missing one, which sends a second `ADD`
for its id and never deletes it. The runs and the theorems about indexes keep
`Undefined` out of `Value`.

## Proofs

TLAPS checks the following for every number of ids, every set of items, keys and
groups, any number of indexes and any depth of `alter`; for `IdMap`, any number
of halves of an id; for `Aggregates`, chains of any length.

| theorem | statement | assumes |
|---|---|---|
| `TypeCorrect` | `Spec => []TypeOK` | |
| `NoEmptyBucketsCorrect` | `Spec => []NoEmptyBuckets` | |
| `FreshIdsCorrect` | `Spec => FreshIds` | |
| `SyncCorrect` | `Spec => []Sync` | (1) |
| `UniqueKeysCorrect` | `Spec => []UniqueKeys` | (1) |
| `ConflictIsRealCorrect` | `Spec => ConflictIsReal` | (1) |
| `RegisterRefusesClashesCorrect` | `Spec => RegisterRefusesClashes` | (1) |
| `DamageIsLocalCorrect` | `Spec => []DamageIsLocal` | (1) |
| `OnlyConflictsAbortCorrect` | `Spec => OnlyConflictsAbort` | (1) |
| `RefusalIsCleanCorrect` | `Spec => RefusalIsClean` | (1) |
| `AbortIsOrderlyCorrect` | `Spec => AbortIsOrderly` | (1) |
| `IsKeyedMapCorrect` | `Spec => IsKeyedMap`, that is, `Spec` implements `Map!Spec` | (1) |
| `QueriesAgreeCorrect` | `Spec => []QueriesAgree` | (1), (2) |
| `IdMapTypeCorrect` | `Spec => []TypeOK` of `IdMap` | |
| `EmptyMeansEmptyCorrect` | `Spec => []EmptyMeansEmpty` | |
| `KeepsPromiseCorrect` | `Spec => KeepsPromise`, that is, `IdMap` implements `MapPromise` | |
| `FusionIsSoundCorrect` | `Spec => []FusionIsSound` | |

1. `Undefined \notin Value`: an item is not `undefined`. `Sync` fails otherwise.
2. The keys of a btree index are integers: they have to be ordered, and in
   `Queries` the order is that of the numbers.

`OnlyConflictsAbort` and `RefusalIsClean` say something of a collection as long as
no unique index inside a group is registered (`AllSafe`): there a conflict is found
by a commit hook, and both would be false. `AbortIsOrderly` says what holds then.

**One index** (`IndexLaws`, no collection in sight):

* an empty index mirrors an empty store (`EmptyLaw`);
* asking an index does not change what it mirrors, and is refused with a
  `ConflictException` or not at all (`OnUpdateLaw`);
* if an index mirrors `m`, has accepted `u`, and `u` describes a change of `m`,
  its hook brings it to `Applied(u, m)`, or throws, which happens only inside a
  group of unique indexes, and leaves it at `m` without the item of `u`; a zip is
  left with one such part between those that followed `u` and those that did not
  (`HookLaw`, `Stopped`);
* both laws also give the reason for a refusal: an item of `m` that clashes with
  the new one; and an index that mirrors `m` admits all items of `m` together
  (`NoClashLaw`).

Each follows from the law of the built-in index (`HashLaw`, `BTreeLaw`,
`UniqueLaw`, `MockLaw`, `CountLaw`, `SumLaw`, `MeanLaw`), from `PremapLaw`
(mapping an update through `filterMapUpdate` and mapping the contents commute)
and from `MembersLaw` (what an update is to the contents of one group). For a zip
they are lifted from its parts by `ZipOutcomeLaw`: if no part threw, every part is
where it would be alone, and if one did, its exception is that of the first part
that threw; `ZipStopLaw` says where the parts are then.

**Sums** (`FoldLaws`). What a sum or a mean should hold is a fold over a set of
ids, taken in an order that is not specified. `SumStep` takes any one id out of
it, and `SumChange` says what one update does to it, which is what the increments
of the code do. This takes induction over the set of ids. The induction theorems
of the library have an operator as a parameter, which the provers cannot
instantiate, so the inductions are in another form: the claim is about a set `B`
of the sizes (or subsets) for which it fails, every member of `B` has a smaller
one in `B`, so `B` is empty (`NoneFails`, `NoSubsetFails`, from the
well-foundedness of `<`). That a recursive function over the subsets of a set
exists is proved once for any step given as a function (`FoldExists`), and the
folds of the community modules are instances of it.

**The loops** (`SyncProofs`). `Sync` is not inductive, so the invariant `SyncInv`
adds: the store already is as the update being propagated says (`UpdateFits`), so
that undoing the update gives the contents the hooks start from; ids in use are at
most the counter (`IdsBelowLast`), without which the `ADD` of `add` would not
describe a change; and an index between the two loops has accepted the update
(`AllAsked`). `TypeOK` is inductive alone. `NoEmptyBuckets` holds without any of
this, because `HashDelete` and `BTreeDelete` remove what they empty whatever state
they start from; its invariant `TidyInv` only adds the index under construction.
`AbortIsOrderly` needs nothing more than `SyncInv` in the state before the
exception: `OnUpdateLaw` for a refusal of the first loop, `HookLaw` for one of the
second. `RegisterRefusesClashes` rests on the part of `SyncInv` about the index
under construction: it mirrors the items it has been shown, so the item in the way
is one of those and differs from the one being shown.

**After a failure** (end of `SyncProofs`). `DamageIsLocal` speaks of one id at a
time: a hook moves no id but the one of its update, whether it throws or not, and
moves that one to its place if it was in its place and nothing was thrown
(`FilesLaw`, from the bucket up through `premap`, `group` and `zip`). With
`StoreInv` it is inductive: an id whose mutation is given up is one it does not
speak of any more, so neither `AllAsked` nor the state of other ids is needed.

**Atomicity** (`RefinementProofs`). `Collection` implements `KeyedMap` step by
step. The steps of the loops do not move `Settled`, because undoing the update
gives the same contents as long as the store and the update are left alone. The
end of the second loop is `Mutate`: by `Sync` every index mirrors the new store,
and by `NoClashLaw` it admits what it mirrors. An exception is `Refuse`: the laws
give the item the new one clashes with. The end of `registerIndex` is `Register`.

**Queries** (`QueryProofs`). What an index mirrors determines what it answers, so
`QueriesAgree` follows from `SyncInv` alone. `max` and `min` need that a finite
set of numbers has its extremes (`ExtremesExist`, again by induction); a limited
`range` needs only that what `getRange` drops lies above what it keeps
(`LimitLaw`).

**IdMap** (`IdMapProofs`). `TypeOK` says that no Map holds a key twice and that
iterators stay within what they iterate. The inductive invariant `IdMapInv` adds
`NoneEmpty`: no inner Map in the outer Map is empty, which is what makes
`empty()` right; `EmptyMeansEmpty` alone is lost by the deletion of an item beside
an empty Map. In the refinement `Set` is `Put`, `Delete` is `Remove`, `ForEach` is
`Begin`, `Yield` is `Visit`, `Finish` is `End`, `CallbackReturns` is `GoOn`, and
`NextMap`, which moves the outer iterator to its next Map, is a stutter. The work
is in `Set` and `Delete` made by a callback: that a new entry leaves all others
ahead of or behind the iterators as they were, and that a deletion at or before an
iterator shifts it by one and does the same, also when it takes out the Map being
iterated.

**Aggregates** (`AggregateProofs`). The inductive invariant `FusionInv` relates
the running state to the history: the fused `premap` of the calls so far is what
the calls come to one after another, followed by the function the index started
with (`Fused`); the fused `map` is the functions of the `map` calls in order; and
the state is the aggregate of the items let through (`Kept`). The hypothesis
`Fusible` of the property is needed in `Fused`, at the fusion of one more
`premap`: where it fails, `mean_premap` has the counterexample. The step for one
more call rests on what a fold does on a sequence with one more element
(`PathAppend`, `OnwardAppend`), an induction over the chain; the step for an
update on `PremapCommutes` and the laws of sums.

Only model-checked: `Settles` and `ForEachEnds`, because liveness under fairness
is beyond the prover, and the runs that find a violation.

Assumptions on the constants are named in the modules that declare them:
`Absent` differs from every item, key, id and set of ids, `Undefined` is no key
and no pair of numbers, descriptions are well formed, NaN is no integer.

## What is not modelled

* Combinators nested deeper than `zip(group(premap(...)))`: a group of a group, a
  group or a premap of a zip, a zip of zips.
* The order in which queries list items, and which item `max1` and `min1` choose.
* Queries of a collection that has been torn: its indexes may hold an id the store
  has not, and `item` then answers a value of `undefined`.
* `forEach` of a collection whose callback mutates it through the indexes: `IdMap`
  has the iteration, `Collection` the mutations; a mutation inside the callback is
  a `Set` or a `Delete` of the store.
* A callback of `forEach` that throws, or starts another `forEach` of the same map.
* Rounding of JavaScript's numbers in `sumIndex` and `arithmeticMeanIndex`.
* Key functions that throw or are not functions of the item; items modified
  behind the collection's back.
* The log of updates in `MockIndex`, the test generators, the documentation
  generator, and everything under `docs/docs`, which is generated.

## Plan

Done: every module above with its runs, and a theorem for every invariant and
every action property that a run checks. What is left, in this order:

1. What a torn collection guarantees of counts, sums and unique indexes:
   `DamageIsLocal` is about the indexes that keep ids in buckets. (Of a unique
   index the same is false: deleting a refused item frees the key of the item that
   was in its way.)
2. Deeper nesting of combinators (a group of a zip, a zip of zips), for which the
   laws of `IndexLaws` would be stated once more on top of themselves.
