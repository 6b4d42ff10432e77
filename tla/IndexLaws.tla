------------------------------ MODULE IndexLaws ------------------------------
(***************************************************************************)
(* Lemmas about the indexes, for every set of items, keys and groups: what *)
(* the collection's proofs need to know of one index.                      *)
(***************************************************************************)
EXTENDS Indexes, FoldLaws

(* Key functions: what premap is given. *)
KeyFunctions == [Value -> Key \cup {Undefined}]

(* premap shows its inner index exactly the change of what the index is    *)
(* entitled to see: mapping an update and mapping the contents commute.    *)
LEMMA PremapLaw ==
  ASSUME NEW f \in KeyFunctions, NEW u \in UpdatesOf(Value),
         NEW m \in Stores(Value), Describes(u, m)
  PROVE  LET v == filterMapUpdate(f, u)
             p == Premapped(f, m)
         IN  /\ p \in Stores(Key)
             /\ v.type = "NONE" => Premapped(f, Applied(u, m)) = p
             /\ v.type # "NONE" => /\ Describes(v, p)
                                   /\ Premapped(f, Applied(u, m)) = Applied(v, p)
  BY PremapCommutes, AbsentAssumption DEF KeyFunctions

-----------------------------------------------------------------------------
(* The built-in indexes.  Each law: from the state for m, the hook of an   *)
(* update that describes a change of m does not throw and leads to the     *)
(* state for m after the update.                                           *)

(* The buckets before and after a change of one id. *)
LEMMA FiledUnderStep ==
  ASSUME NEW m \in Stores(Key), NEW u \in UpdatesOf(Key), Describes(u, m),
         NEW k \in Key
  PROVE  FiledUnder(k, Applied(u, m)) =
           IF u.type # "DELETE" /\ u.new = k
           THEN FiledUnder(k, m) \cup {u.id} ELSE FiledUnder(k, m) \ {u.id}
  BY UpdateCases, AbsentAssumption DEF FiledUnder, Applied, Stores, Describes

(* The id an update is about is filed under its old key, and only there. *)
LEMMA FiledUnderOld ==
  ASSUME NEW m \in Stores(Key), NEW u \in UpdatesOf(Key), Describes(u, m),
         NEW k \in Key
  PROVE  u.id \in FiledUnder(k, m) <=> u.type # "ADD" /\ u.old = k
  BY UpdateCases, AbsentAssumption DEF FiledUnder, Stores, Describes

LEMMA HashLaw ==
  ASSUME NEW m \in Stores(Key), NEW u \in UpdatesOf(Key), Describes(u, m),
         NEW ix, HashMirrors(ix, m)
  PROVE  /\ HashHook(ix, u).exn = "none"
         /\ HashMirrors(HashHook(ix, u).ix, Applied(u, m))
  <1> DEFINE B(k) == FiledUnder(k, m)
             C(k) == FiledUnder(k, Applied(u, m))
             jx == HashHook(ix, u).ix
  <1>1. \A k \in Key : B(k) # Absent /\ C(k) # Absent
    BY AbsentAssumption DEF FiledUnder
  <1>2. \A k \in Key : C(k) = IF u.type # "DELETE" /\ u.new = k
                              THEN B(k) \cup {u.id} ELSE B(k) \ {u.id}
    BY FiledUnderStep
  <1>3. \A k \in Key : u.id \in B(k) <=> u.type # "ADD" /\ u.old = k
    BY FiledUnderOld
  <1>4. ix = [k \in Key |-> IF B(k) = {} THEN Absent ELSE B(k)]
    BY DEF HashMirrors, BucketsOf
  <1> HIDE DEF B, C
  <1>5. HashHook(ix, u).exn = "none"
    BY <1>1, <1>3, <1>4, UpdateCases DEF HashHook, Done
  <1>6. jx = [k \in Key |-> IF C(k) = {} THEN Absent ELSE C(k)]
    <2> DEFINE F(k) == IF C(k) = {} THEN Absent ELSE C(k)
    <2> SUFFICES jx = [k \in Key |-> F(k)]
      OBVIOUS
    <2>0. ix \in [Key -> (SUBSET Ids) \cup {Absent}]
      <3>1. \A k \in Key : B(k) \in SUBSET Ids
        BY DEF B, FiledUnder
      <3>2. \A k \in Key : (IF B(k) = {} THEN Absent ELSE B(k)) \in (SUBSET Ids) \cup {Absent}
        BY <3>1
      <3> QED BY <1>4, <3>2
    <2>1. CASE u.type = "ADD"
      <3>1. jx = HashAdd(ix, u.id, u.new) /\ u.new \in Key
        BY <2>1, UpdateCases DEF HashHook, Done
      <3>2. \A k \in Key \ {u.new} : F(k) = ix[k]
        BY <1>2, <1>3, <1>4, <2>1
      <3>3. F(u.new) = HashAdd(ix, u.id, u.new)[u.new]
        <4>1. C(u.new) = B(u.new) \cup {u.id} /\ B(u.new) # Absent
          BY <1>1, <1>2, <2>1, <3>1
        <4>2. ix[u.new] = IF B(u.new) = {} THEN Absent ELSE B(u.new)
          BY <1>4, <3>1
        <4>3. F(u.new) = IF ix[u.new] = Absent THEN {u.id} ELSE ix[u.new] \cup {u.id}
          BY <4>1, <4>2
        <4> HIDE DEF F, jx
        <4> QED BY <2>0, <3>1, <4>3 DEF HashAdd
      <3> HIDE DEF F, jx
      <3> QED BY <2>0, <3>1, <3>2, <3>3 DEF HashAdd
    <2>2. CASE u.type = "DELETE"
      <3>1. jx = HashDelete(ix, u.id, u.old) /\ u.old \in Key
        BY <1>1, <1>3, <1>4, <2>2, UpdateCases DEF HashHook, Done
      <3>2. \A k \in Key \ {u.old} : F(k) = ix[k]
        BY <1>2, <1>3, <1>4, <2>2
      <3>3. F(u.old) = HashDelete(ix, u.id, u.old)[u.old]
        BY <1>1, <1>2, <1>3, <1>4, <2>0, <2>2, <3>1 DEF HashDelete
      <3> HIDE DEF F, jx
      <3> QED BY <2>0, <3>1, <3>2, <3>3 DEF HashDelete
    <2>3. CASE u.type = "UPDATE"
      <3> DEFINE dx == HashDelete(ix, u.id, u.old)
      <3>1. jx = HashAdd(dx, u.id, u.new) /\ u.old \in Key /\ u.new \in Key
        BY <1>1, <1>3, <1>4, <2>3, UpdateCases DEF HashHook, Done
      <3>2. dx = [k \in Key |-> IF B(k) \ {u.id} = {} THEN Absent ELSE B(k) \ {u.id}]
        <4>1. \A k \in Key \ {u.old} : B(k) \ {u.id} = B(k)
          BY <1>3
        <4>2. dx[u.old] = IF B(u.old) \ {u.id} = {} THEN Absent ELSE B(u.old) \ {u.id}
          BY <1>1, <1>3, <1>4, <2>0, <2>3, <3>1 DEF HashDelete
        <4> QED BY <1>4, <2>0, <3>1, <4>1, <4>2 DEF HashDelete
      <3> HIDE DEF dx
      <3>3. \A k \in Key \ {u.new} : F(k) = dx[k]
        BY <1>2, <2>3, <3>2
      <3>4. F(u.new) = HashAdd(dx, u.id, u.new)[u.new]
        <4>1. C(u.new) = B(u.new) \cup {u.id} /\ B(u.new) \ {u.id} # Absent
          BY <1>2, <2>3, <3>1, AbsentAssumption DEF B, FiledUnder
        <4>2. (B(u.new) \ {u.id}) \cup {u.id} = B(u.new) \cup {u.id}
          OBVIOUS
        <4> QED BY <3>1, <3>2, <4>1, <4>2 DEF HashAdd
      <3> HIDE DEF F, jx
      <3> QED BY <3>1, <3>2, <3>3, <3>4 DEF HashAdd
    <2> QED BY <2>1, <2>2, <2>3, UpdateCases
  <1> QED BY <1>5, <1>6 DEF HashMirrors, BucketsOf, C

(* BTreeIndex agrees with HashIndex on every update that fits: what it     *)
(* tolerates beyond that, an intact collection never asks of it.           *)
LEMMA BTreeLaw ==
  ASSUME NEW m \in Stores(Key), NEW u \in UpdatesOf(Key), Describes(u, m),
         NEW ix, BTreeMirrors(ix, m)
  PROVE  /\ BTreeHook(ix, u).exn = "none"
         /\ BTreeMirrors(BTreeHook(ix, u).ix, Applied(u, m))
  <1>1. HashMirrors(ix, m)
    BY DEF BTreeMirrors, HashMirrors
  <1>2. HashMirrors(HashHook(ix, u).ix, Applied(u, m)) /\ HashHook(ix, u).exn = "none"
    BY <1>1, HashLaw
  <1>3. BTreeHook(ix, u).exn = "none"
    BY DEF BTreeHook, Done
  <1>4. CASE u.type # "UPDATE" \/ u.old # u.new
    <2>1. u.type # "ADD" => ix[u.old] # Absent
      BY <1>2 DEF HashHook, Thrown
    <2>2. BTreeHook(ix, u).ix = HashHook(ix, u).ix
      BY <1>4, <2>1, UpdateCases
         DEF BTreeHook, HashHook, BTreeAdd, BTreeDelete, BTreeUpdate, HashAdd,
             HashDelete, Done
    <2> QED BY <1>2, <1>3, <2>2 DEF HashMirrors, BTreeMirrors
  <1>5. CASE u.type = "UPDATE" /\ u.old = u.new
    <2>1. Applied(u, m) = m
      BY <1>5, UpdateCases DEF Applied, Describes, Stores
    <2>2. BTreeHook(ix, u).ix = ix
      BY <1>5 DEF BTreeHook, BTreeUpdate, Done
    <2> QED BY <1>3, <2>1, <2>2
  <1> QED BY <1>4, <1>5

(* A UniqueHashIndex that has not refused the update. *)
LEMMA UniqueLaw ==
  ASSUME NEW m \in Stores(Key), NEW u \in UpdatesOf(Key), Describes(u, m),
         NEW ix \in UniqueStates, UniqueMirrors(ix, m),
         UniqueOnUpdate(ix, u) = "none"
  PROVE  /\ UniqueHook(ix, u).exn = "none"
         /\ UniqueMirrors(UniqueHook(ix, u).ix, Applied(u, m))
  <1> DEFINE B(k) == FiledUnder(k, m)
             C(k) == FiledUnder(k, Applied(u, m))
             jx == UniqueHook(ix, u).ix
  <1>1. \A k \in Key : C(k) = IF u.type # "DELETE" /\ u.new = k
                              THEN B(k) \cup {u.id} ELSE B(k) \ {u.id}
    BY FiledUnderStep
  <1>2. \A k \in Key : u.id \in B(k) <=> u.type # "ADD" /\ u.old = k
    BY FiledUnderOld
  <1>3. \A k \in Key : B(k) = IF ix[k] = Absent THEN {} ELSE {ix[k]}
    BY DEF UniqueMirrors
  <1>4. u.type # "DELETE" => B(u.new) = {}
    BY <1>3, UpdateCases DEF UniqueOnUpdate
  <1>5. u.id # Absent
    BY UpdateCases, AbsentAssumption
  <1> HIDE DEF B, C
  <1>6. ASSUME NEW k \in Key
        PROVE  C(k) = IF jx[k] = Absent THEN {} ELSE {jx[k]}
    <2>1. CASE u.type = "ADD"
      <3>1. jx[k] = IF k = u.new THEN u.id ELSE ix[k]
        BY <2>1, UpdateCases DEF UniqueHook, UniqueStates, Done
      <3> QED BY <1>1, <1>2, <1>3, <1>4, <1>5, <2>1, <3>1
    <2>2. CASE u.type = "DELETE"
      <3>1. jx[k] = IF k = u.old THEN Absent ELSE ix[k]
        BY <2>2, UpdateCases DEF UniqueHook, UniqueStates, Done
      <3> QED BY <1>1, <1>2, <1>3, <2>2, <3>1
    <2>3. CASE u.type = "UPDATE"
      <3>1. jx[k] = IF k = u.new THEN u.id
                    ELSE IF k = u.old THEN Absent ELSE ix[k]
        BY <2>3, UpdateCases DEF UniqueHook, UniqueStates, Done
      <3> QED BY <1>1, <1>2, <1>3, <1>4, <1>5, <2>3, <3>1
    <2> QED BY <2>1, <2>2, <2>3, UpdateCases
  <1>7. UniqueHook(ix, u).exn = "none"
    BY DEF UniqueHook, Done
  <1> QED BY <1>6, <1>7 DEF UniqueMirrors, C

LEMMA MockLaw ==
  ASSUME NEW m \in Stores(Key), NEW u \in UpdatesOf(Key), Describes(u, m),
         NEW ix, MockMirrors(ix, m)
  PROVE  /\ MockHook(ix, u).exn = "none"
         /\ MockMirrors(MockHook(ix, u).ix, Applied(u, m))
  BY UpdateCases, AbsentAssumption
     DEF MockHook, MockMirrors, Applied, Describes, Done, Thrown

-----------------------------------------------------------------------------
(* Types.                                                                  *)

HookExceptions == {"none", "ConflictException", "TypeError", "Error"}

LEMMA HashType ==
  ASSUME NEW ix \in HashStates, NEW u \in UpdatesOf(Key)
  PROVE  HashHook(ix, u).ix \in HashStates /\ HashHook(ix, u).exn \in HookExceptions
  <1> DEFINE X == (SUBSET Ids) \cup {Absent}
  <1>1. ASSUME NEW jx \in HashStates, NEW id \in Ids, NEW k \in Key
        PROVE  HashAdd(jx, id, k) \in HashStates
    <2>1. (IF jx[k] = Absent THEN {id} ELSE jx[k] \cup {id}) \in X
      BY <1>1 DEF HashStates
    <2> QED BY <1>1, <2>1 DEF HashAdd, HashStates
  <1>2. ASSUME NEW jx \in HashStates, NEW id \in Ids, NEW k \in Key, jx[k] # Absent
        PROVE  HashDelete(jx, id, k) \in HashStates
    <2>1. (IF jx[k] \ {id} = {} THEN Absent ELSE jx[k] \ {id}) \in X
      BY <1>2 DEF HashStates
    <2> QED BY <1>2, <2>1 DEF HashDelete, HashStates
  <1> QED BY <1>1, <1>2, UpdateCases DEF HashHook, Done, Thrown, HookExceptions

LEMMA BTreeType ==
  ASSUME NEW ix \in BTreeStates, NEW u \in UpdatesOf(Key)
  PROVE  BTreeHook(ix, u).ix \in BTreeStates /\ BTreeHook(ix, u).exn \in HookExceptions
  <1> DEFINE X == (SUBSET Ids) \cup {Absent}
  <1>1. ASSUME NEW jx \in BTreeStates, NEW id \in Ids, NEW k \in Key
        PROVE  BTreeAdd(jx, id, k) \in BTreeStates
    <2>1. (IF jx[k] = Absent THEN {id} ELSE jx[k] \cup {id}) \in X
      BY <1>1 DEF BTreeStates
    <2> QED BY <1>1, <2>1 DEF BTreeAdd, BTreeStates
  <1>2. ASSUME NEW jx \in BTreeStates, NEW id \in Ids, NEW k \in Key
        PROVE  BTreeDelete(jx, id, k) \in BTreeStates
    <2>1. (IF jx[k] = Absent \/ jx[k] \ {id} = {} THEN Absent ELSE jx[k] \ {id}) \in X
      BY <1>2 DEF BTreeStates
    <2> QED BY <1>2, <2>1 DEF BTreeDelete, BTreeStates
  <1> QED BY <1>1, <1>2, UpdateCases DEF BTreeHook, BTreeUpdate, Done, HookExceptions

LEMMA UniqueType ==
  ASSUME NEW ix \in UniqueStates, NEW u \in UpdatesOf(Key)
  PROVE  UniqueHook(ix, u).ix \in UniqueStates /\ UniqueHook(ix, u).exn \in HookExceptions
  BY UpdateCases DEF UniqueHook, UniqueStates, Done, HookExceptions

LEMMA MockType ==
  ASSUME NEW ix \in MockStates, NEW u \in UpdatesOf(Key)
  PROVE  MockHook(ix, u).ix \in MockStates /\ MockHook(ix, u).exn \in HookExceptions
  BY UpdateCases DEF MockHook, MockStates, Stores, Done, Thrown, HookExceptions

LEMMA CountType ==
  ASSUME NEW n \in Int, NEW u \in UpdatesOf(Key)
  PROVE  CountHook(n, u).ix \in Int /\ CountHook(n, u).exn \in HookExceptions
  BY UpdateCases DEF CountHook, FoldHook, Done, HookExceptions

LEMMA SumType ==
  ASSUME NEW n \in Int, NEW u \in UpdatesOf(Int)
  PROVE  SumHook(n, u).ix \in Int /\ SumHook(n, u).exn \in HookExceptions
  BY UpdateCases DEF SumHook, AlgebraicGroupHook, append, inverse, FoldHook, Done,
                     HookExceptions

LEMMA MeanType ==
  ASSUME NEW st \in [sum : Int, count : Int], NEW u \in UpdatesOf(Key \cap Int)
  PROVE  /\ MeanHook(st, u).ix \in [sum : Int, count : Int]
         /\ MeanHook(st, u).exn \in HookExceptions
  <1> DEFINE Pairs == [sum : Int, count : Int]
             f == [k \in Key |-> [sum |-> k, count |-> 1]]
             v == filterMapUpdate(f, u)
  <1>1. v \in UpdatesOf(Pairs)
    <2>1. \A k \in Key \cap Int : f[k] \in Pairs /\ f[k] # Undefined
      BY PairAssumption
    <2> HIDE DEF f, Pairs
    <2>2. CASE u.type = "ADD"
      <3>1. v = AddUpdate(u.id, f[u.new]) /\ u.id \in Ids /\ f[u.new] \in Pairs
        BY <2>1, <2>2, UpdateCases DEF filterMapUpdate
      <3> QED BY <3>1 DEF UpdatesOf
    <2>3. CASE u.type = "DELETE"
      <3>1. v = DeleteUpdate(u.id, f[u.old]) /\ u.id \in Ids /\ f[u.old] \in Pairs
        BY <2>1, <2>3, UpdateCases DEF filterMapUpdate
      <3> QED BY <3>1 DEF UpdatesOf
    <2>4. CASE u.type = "UPDATE"
      <3>1. /\ v = UpdateUpdate(u.id, f[u.old], f[u.new]) /\ u.id \in Ids
            /\ f[u.old] \in Pairs /\ f[u.new] \in Pairs
        BY <2>1, <2>4, UpdateCases DEF filterMapUpdate
      <3> QED BY <3>1 DEF UpdatesOf
    <2> QED BY <2>2, <2>3, <2>4, UpdateCases
  <1>2. \A a, b \in Pairs : append("mean", a, b) \in Pairs /\ inverse("mean", a) \in Pairs
    BY DEF append, inverse
  <1>3. MeanHook(st, u) = AlgebraicGroupHook("mean", st, v)
    BY DEF MeanHook
  <1> HIDE DEF v, Pairs
  <1>4. /\ v.type \in {"ADD", "UPDATE", "DELETE"}
        /\ v.type \in {"ADD", "UPDATE"} => v.new \in Pairs
        /\ v.type \in {"UPDATE", "DELETE"} => v.old \in Pairs
    BY <1>1, UpdateCases
  <1>5. MeanHook(st, u).ix \in Pairs /\ MeanHook(st, u).exn \in HookExceptions
    <2>1. st \in Pairs
      BY DEF Pairs
    <2> QED BY <1>2, <1>3, <1>4, <2>1 DEF AlgebraicGroupHook, FoldHook, Done, HookExceptions
  <1> QED BY <1>5 DEF Pairs

(* Whatever the update, a built-in index behind premap keeps its type. *)
LEMMA LeafType ==
  ASSUME NEW d \in LeafDescs, NEW ix \in LeafStates(d), NEW u \in UpdatesOf(Value)
  PROVE  /\ LeafHook(d, ix, u).ix \in LeafStates(d)
         /\ LeafHook(d, ix, u).exn \in HookExceptions
         /\ LeafOnUpdate(d, ix, u) \in {"none", "ConflictException"}
  <1> DEFINE v == filterMapUpdate(d.f, u)
  <1>1. d.kind \in LeafKinds /\ d.f \in [Value -> Key \cup {Undefined}]
    BY DEF LeafDescs
  <1>2. v.type # "NONE" => v \in UpdatesOf(Key)
    BY <1>1, FilterMapType
  <1>3. d.kind \in {"sum", "mean"} /\ v.type # "NONE" => v \in UpdatesOf(Key \cap Int)
    <2> SUFFICES ASSUME d.kind \in {"sum", "mean"}
                 PROVE  d.f \in [Value -> (Key \cap Int) \cup {Undefined}]
      BY FilterMapType
    <2> QED BY <1>1 DEF LeafDescs
  <1>4. d.kind = "sum" /\ v.type # "NONE" => v \in UpdatesOf(Int)
    BY <1>3 DEF UpdatesOf
  <1>5. LeafOnUpdate(d, ix, u) \in {"none", "ConflictException"}
    BY DEF LeafOnUpdate, UniqueOnUpdate
  <1> HIDE DEF v
  <1>6. CASE v.type = "NONE"
    BY <1>5, <1>6 DEF LeafHook, Done, HookExceptions, v
  <1>7. CASE v.type # "NONE" /\ d.kind = "hash"
    BY <1>2, <1>5, <1>7, HashType DEF LeafHook, LeafStates, v
  <1>8. CASE v.type # "NONE" /\ d.kind = "unique"
    BY <1>2, <1>5, <1>8, UniqueType DEF LeafHook, LeafStates, v
  <1>9. CASE v.type # "NONE" /\ d.kind = "btree"
    BY <1>2, <1>5, <1>9, BTreeType DEF LeafHook, LeafStates, v
  <1>10. CASE v.type # "NONE" /\ d.kind = "mock"
    BY <1>2, <1>5, <1>10, MockType DEF LeafHook, LeafStates, v
  <1>11. CASE v.type # "NONE" /\ d.kind = "count"
    BY <1>2, <1>5, <1>11, CountType DEF LeafHook, LeafStates, v
  <1>12. CASE v.type # "NONE" /\ d.kind = "sum"
    BY <1>4, <1>5, <1>12, SumType DEF LeafHook, LeafStates, v
  <1>13. CASE v.type # "NONE" /\ d.kind = "mean"
    BY <1>3, <1>5, <1>13, MeanType DEF LeafHook, LeafStates, v
  <1> QED BY <1>1, <1>6, <1>7, <1>8, <1>9, <1>10, <1>11, <1>12, <1>13
          DEF LeafKinds

LEMMA LeafEmptyType ==
  ASSUME NEW d \in LeafDescs
  PROVE  LeafEmpty(d) \in LeafStates(d)
  <1>1. d.kind \in LeafKinds
    BY DEF LeafDescs
  <1>2. /\ HashEmpty \in HashStates /\ BTreeEmpty \in BTreeStates
        /\ UniqueEmpty \in UniqueStates /\ EmptyStore \in MockStates
    BY DEF HashEmpty, HashStates, BTreeEmpty, BTreeStates, UniqueEmpty,
           UniqueStates, EmptyStore, MockStates, Stores
  <1>3. [sum |-> 0, count |-> 0] \in [sum : Int, count : Int] /\ 0 \in Int
    OBVIOUS
  <1> QED BY <1>1, <1>2, <1>3 DEF LeafKinds, LeafEmpty, LeafStates

-----------------------------------------------------------------------------
(* The laws of one index behind premap.                                    *)

LEMMA LeafEmptyLaw ==
  ASSUME NEW d \in LeafDescs
  PROVE  LeafMirrors(d, LeafEmpty(d), EmptyStore)
  <1>1. Premapped(d.f, EmptyStore) = EmptyStore
    BY DEF Premapped, EmptyStore
  <1>2. \A k \in Key : FiledUnder(k, EmptyStore) = {}
    BY AbsentAssumption DEF FiledUnder, EmptyStore
  <1>3. CountOf(EmptyStore) = 0
    <2>1. {i \in Ids : EmptyStore[i] # Absent} = {}
      BY DEF EmptyStore
    <2> QED BY <2>1, FS_EmptySet DEF CountOf
  <1>4. BucketsOf(EmptyStore) = [k \in Key |-> Absent]
    BY <1>2 DEF BucketsOf
  <1>5. /\ HashMirrors(HashEmpty, EmptyStore) /\ BTreeMirrors(BTreeEmpty, EmptyStore)
        /\ UniqueMirrors(UniqueEmpty, EmptyStore) /\ MockMirrors(EmptyStore, EmptyStore)
        /\ CountMirrors(0, EmptyStore) /\ SumMirrors(0, EmptyStore)
        /\ MeanMirrors([sum |-> 0, count |-> 0], EmptyStore)
    BY <1>2, <1>3, <1>4, EmptySum
       DEF HashMirrors, HashEmpty, BTreeMirrors, BTreeEmpty, UniqueMirrors,
           UniqueEmpty, MockMirrors, CountMirrors, SumMirrors, MeanMirrors
  <1>6. d.kind \in LeafKinds
    BY DEF LeafDescs
  <1> QED BY <1>1, <1>5, <1>6 DEF LeafMirrors, LeafEmpty, LeafKinds

LEMMA LeafLaw ==
  ASSUME NEW d \in LeafDescs, NEW ix \in LeafStates(d),
         NEW m \in Stores(Value), NEW u \in UpdatesOf(Value), Describes(u, m),
         LeafMirrors(d, ix, m), LeafOnUpdate(d, ix, u) = "none"
  PROVE  /\ LeafHook(d, ix, u).exn = "none"
         /\ LeafMirrors(d, LeafHook(d, ix, u).ix, Applied(u, m))
  <1> DEFINE v == filterMapUpdate(d.f, u)
             p == Premapped(d.f, m)
             q == Premapped(d.f, Applied(u, m))
             r == LeafHook(d, ix, u)
  <1>1. d.f \in KeyFunctions
    BY DEF LeafDescs, KeyFunctions
  <1>2. /\ p \in Stores(Key)
        /\ v.type = "NONE" => q = p
        /\ v.type # "NONE" => Describes(v, p) /\ q = Applied(v, p)
    BY <1>1, PremapLaw
  <1>3. v.type # "NONE" => v \in UpdatesOf(Key)
    BY <1>1, FilterMapType DEF KeyFunctions
  <1> HIDE DEF v, p, q, r
  <1>4. CASE v.type = "NONE"
    <2>1. r = Done(ix)
      BY <1>4 DEF LeafHook, r, v
    <2>2. r.exn = "none" /\ r.ix = ix
      BY <2>1 DEF Done
    <2>3. q = p
      BY <1>2, <1>4
    <2> QED BY <2>2, <2>3 DEF LeafMirrors, p, q, r
  <1>5. CASE v.type # "NONE" /\ d.kind = "hash"
    <2>1. r = HashHook(ix, v) /\ HashMirrors(ix, p)
      BY <1>5 DEF LeafHook, LeafMirrors, r, v, p
    <2>2. r.exn = "none" /\ HashMirrors(r.ix, q)
      BY <1>2, <1>3, <1>5, <2>1, HashLaw
    <2> QED BY <1>5, <2>2 DEF LeafMirrors, q, r
  <1>6. CASE v.type # "NONE" /\ d.kind = "btree"
    <2>1. r = BTreeHook(ix, v) /\ BTreeMirrors(ix, p)
      BY <1>6 DEF LeafHook, LeafMirrors, r, v, p
    <2>2. r.exn = "none" /\ BTreeMirrors(r.ix, q)
      BY <1>2, <1>3, <1>6, <2>1, BTreeLaw
    <2> QED BY <1>6, <2>2 DEF LeafMirrors, q, r
  <1>7. CASE v.type # "NONE" /\ d.kind = "unique"
    <2>1. /\ r = UniqueHook(ix, v) /\ UniqueMirrors(ix, p) /\ ix \in UniqueStates
          /\ UniqueOnUpdate(ix, v) = "none"
      BY <1>7 DEF LeafHook, LeafMirrors, LeafStates, LeafOnUpdate, r, v, p
    <2>2. r.exn = "none" /\ UniqueMirrors(r.ix, q)
      BY <1>2, <1>3, <1>7, <2>1, UniqueLaw
    <2> QED BY <1>7, <2>2 DEF LeafMirrors, q, r
  <1>8. CASE v.type # "NONE" /\ d.kind = "count"
    <2>1. r = CountHook(ix, v) /\ CountMirrors(ix, p)
      BY <1>8 DEF LeafHook, LeafMirrors, r, v, p
    <2>2. r.exn = "none" /\ CountMirrors(r.ix, q)
      BY <1>2, <1>3, <1>8, <2>1, CountLaw
    <2> QED BY <1>8, <2>2 DEF LeafMirrors, q, r
  <1>9. CASE v.type # "NONE" /\ d.kind = "mock"
    <2>1. r = MockHook(ix, v) /\ MockMirrors(ix, p)
      BY <1>9 DEF LeafHook, LeafMirrors, r, v, p
    <2>2. r.exn = "none" /\ MockMirrors(r.ix, q)
      BY <1>2, <1>3, <1>9, <2>1, MockLaw
    <2> QED BY <1>9, <2>2 DEF LeafMirrors, q, r
  <1>10. d.kind \in {"sum", "mean"} =>
           /\ Numbers(p)
           /\ v.type # "NONE" => v \in UpdatesOf(Key \cap Int)
    <2> SUFFICES ASSUME d.kind \in {"sum", "mean"}
                 PROVE  Numbers(p) /\ (v.type # "NONE" => v \in UpdatesOf(Key \cap Int))
      OBVIOUS
    <2>1. d.f \in [Value -> (Key \cap Int) \cup {Undefined}]
      BY <1>1 DEF LeafDescs, KeyFunctions
    <2>2. Numbers(p)
      BY <2>1 DEF Numbers, Premapped, Stores, p
    <2> QED BY <2>1, <2>2, FilterMapType DEF v
  <1>11. CASE v.type # "NONE" /\ d.kind = "sum"
    <2>1. r = SumHook(ix, v) /\ SumMirrors(ix, p)
      BY <1>11 DEF LeafHook, LeafMirrors, r, v, p
    <2>2. r.exn = "none" /\ SumMirrors(r.ix, q)
      BY <1>2, <1>10, <1>11, <2>1, SumLaw
    <2> QED BY <1>11, <2>2 DEF LeafMirrors, q, r
  <1>12. CASE v.type # "NONE" /\ d.kind = "mean"
    <2>1. r = MeanHook(ix, v) /\ MeanMirrors(ix, p)
      BY <1>12 DEF LeafHook, LeafMirrors, r, v, p
    <2>2. r.exn = "none" /\ MeanMirrors(r.ix, q)
      BY <1>2, <1>10, <1>12, <2>1, MeanLaw
    <2> QED BY <1>12, <2>2 DEF LeafMirrors, q, r
  <1>13. d.kind \in LeafKinds
    BY DEF LeafDescs
  <1> QED BY <1>4, <1>5, <1>6, <1>7, <1>8, <1>9, <1>11, <1>12, <1>13 DEF LeafKinds, r

(* A refusal has a reason: the collection has an item that must not be     *)
(* there together with the new one.  It may be the item the update is to   *)
(* replace.                                                                *)
LEMMA LeafRefusedLaw ==
  ASSUME NEW d \in LeafDescs, NEW ix, NEW m \in Stores(Value),
         NEW u \in UpdatesOf(Value), LeafMirrors(d, ix, m),
         LeafOnUpdate(d, ix, u) # "none"
  PROVE  /\ u.type # "DELETE"
         /\ \E i \in Ids : m[i] # Absent /\ LeafClash(d, m[i], u.new)
  <1> DEFINE v == filterMapUpdate(d.f, u)
             p == Premapped(d.f, m)
             k == d.f[u.new]
  <1>1. d.f \in [Value -> Key \cup {Undefined}]
    BY DEF LeafDescs
  <1>2. /\ d.kind = "unique" /\ v.type \in {"ADD", "UPDATE"} /\ ix[v.new] # Absent
    BY DEF LeafOnUpdate, UniqueOnUpdate
  <1>3. u.type # "DELETE" /\ v.new = k /\ k # Undefined /\ k \in Key
    BY <1>1, <1>2, UpdateCases
       DEF filterMapUpdate, AddUpdate, UpdateUpdate, DeleteUpdate, NoUpdate
  <1>4. UniqueMirrors(ix, p)
    BY <1>2 DEF LeafMirrors
  <1> HIDE DEF v, p, k
  <1>5. PICK i \in Ids : p[i] = k
    BY <1>2, <1>3, <1>4 DEF UniqueMirrors, FiledUnder
  <1>6. m[i] # Absent /\ d.f[m[i]] = k
    BY <1>3, <1>5, AbsentAssumption DEF Premapped, p
  <1> QED BY <1>2, <1>3, <1>6 DEF LeafClash, k

(* What an index mirrors has no clashes. *)
LEMMA LeafNoClash ==
  ASSUME NEW d \in LeafDescs, NEW ix, NEW m \in Stores(Value), LeafMirrors(d, ix, m),
         NEW i1 \in Ids, NEW i2 \in Ids, i1 # i2, m[i1] # Absent, m[i2] # Absent
  PROVE  ~ LeafClash(d, m[i1], m[i2])
  <1> SUFFICES ASSUME LeafClash(d, m[i1], m[i2]) PROVE FALSE
    OBVIOUS
  <1> DEFINE p == Premapped(d.f, m)
             k == d.f[m[i1]]
  <1>1. k \in Key
    BY DEF LeafDescs, LeafClash, Stores
  <1>2. i1 \in FiledUnder(k, p) /\ i2 \in FiledUnder(k, p)
    BY DEF LeafClash, Premapped, FiledUnder
  <1>3. UniqueMirrors(ix, p)
    BY DEF LeafMirrors, LeafClash
  <1> HIDE DEF p, k
  <1> QED BY <1>1, <1>2, <1>3 DEF UniqueMirrors

-----------------------------------------------------------------------------
(* The laws of a grouped index.                                            *)

(* A change of the collection as one group sees it: a change of the same   *)
(* kind for the group of the item, a DELETE for the group it leaves, an    *)
(* ADD for the group it joins, nothing for the others.                     *)
LEMMA MembersLaw ==
  ASSUME NEW by \in [Value -> Group], NEW g \in Group, NEW m \in Stores(Value),
         NEW u \in UpdatesOf(Value), Describes(u, m)
  PROVE  LET before == MembersOf(by, g, m)
             after  == MembersOf(by, g, Applied(u, m))
             out == u.type # "ADD" /\ by[u.old] = g
             in  == u.type # "DELETE" /\ by[u.new] = g
         IN  /\ before \in Stores(Value)
             /\ ~ out /\ ~ in => after = before
             /\ out /\ (in \/ u.type = "DELETE") =>
                  Describes(u, before) /\ after = Applied(u, before)
             /\ u.type = "ADD" /\ in =>
                  Describes(u, before) /\ after = Applied(u, before)
             /\ out /\ ~ in =>
                  LET v == DeleteUpdate(u.id, u.old)
                  IN  Describes(v, before) /\ after = Applied(v, before)
             /\ in /\ ~ out =>
                  LET v == AddUpdate(u.id, u.new)
                  IN  Describes(v, before) /\ after = Applied(v, before)
  <1> DEFINE before == MembersOf(by, g, m)
             after  == MembersOf(by, g, Applied(u, m))
             out == u.type # "ADD" /\ by[u.old] = g
             in  == u.type # "DELETE" /\ by[u.new] = g
             new == IF in THEN u.new ELSE Absent
             old == IF out THEN u.old ELSE Absent
  <1>1. u.id \in Ids
    BY UpdateCases
  <1>2. before \in Stores(Value) /\ before[u.id] = old
    BY <1>1, UpdateCases, AbsentAssumption DEF MembersOf, Stores, Describes
  <1>3. after \in Stores(Value) /\ after[u.id] = new
    BY <1>1, UpdateCases, AbsentAssumption DEF MembersOf, Stores, Applied
  <1>4. \A i \in Ids : i # u.id => after[i] = before[i]
    BY DEF MembersOf, Stores, Applied
  <1>5. after = [before EXCEPT ![u.id] = new]
    <2> HIDE DEF before, after, new
    <2> QED BY <1>1, <1>2, <1>3, <1>4 DEF Stores
  <1>6. ~ out /\ ~ in => after = before
    <2> HIDE DEF before, after
    <2> QED BY <1>1, <1>2, <1>5 DEF Stores
  <1>7. \A v : (/\ v.id = u.id
                /\ IF v.type = "ADD" THEN old = Absent ELSE old = v.old
                /\ new = IF v.type = "DELETE" THEN Absent ELSE v.new)
               => Describes(v, before) /\ after = Applied(v, before)
    <2> HIDE DEF before, after, old, new
    <2> QED BY <1>2, <1>5 DEF Describes, Applied
  <1> HIDE DEF before, after
  <1> QED BY <1>2, <1>6, <1>7, UpdateCases DEF DeleteUpdate, AddUpdate, before, after

GroupStates(d) == [live : SUBSET Group, ixs : [Group -> LeafStates(d.inner)]]

LEMMA GroupType ==
  ASSUME NEW d \in GroupDescs, NEW ix \in GroupStates(d), NEW u \in UpdatesOf(Value)
  PROVE  /\ GroupOnUpdate(d, ix, u).ix \in GroupStates(d)
         /\ GroupOnUpdate(d, ix, u).exn \in HookExceptions
         /\ GroupHook(d, ix, u).ix \in GroupStates(d)
         /\ GroupHook(d, ix, u).exn \in HookExceptions
  <1>1. d.by \in [Value -> Group] /\ d.inner \in LeafDescs
    BY DEF GroupDescs
  <1>2. ix.live \in SUBSET Group /\ ix.ixs \in [Group -> LeafStates(d.inner)]
    BY DEF GroupStates
  <1>3. ASSUME NEW g \in Group, NEW jx \in LeafStates(d.inner), NEW kx \in GroupStates(d)
        PROVE  [kx EXCEPT !.ixs[g] = jx] \in GroupStates(d)
    BY <1>3 DEF GroupStates
  <1>4. ASSUME NEW g \in Group
        PROVE  [ix EXCEPT !.live = @ \cup {g}] \in GroupStates(d)
    BY <1>4 DEF GroupStates
  <1>5. ASSUME NEW g \in Group, NEW v \in UpdatesOf(Value)
        PROVE  /\ LeafHook(d.inner, ix.ixs[g], v).ix \in LeafStates(d.inner)
               /\ LeafHook(d.inner, ix.ixs[g], v).exn \in HookExceptions
               /\ LeafOnUpdate(d.inner, ix.ixs[g], v) \in HookExceptions
    <2>1. ix.ixs[g] \in LeafStates(d.inner)
      BY <1>2
    <2> QED BY <1>1, <2>1, LeafType DEF HookExceptions
  <1>6. /\ GroupOnUpdate(d, ix, u).ix \in GroupStates(d)
        /\ GroupOnUpdate(d, ix, u).exn \in HookExceptions
    BY <1>1, <1>4, <1>5, UpdateCases DEF GroupOnUpdate, Done, Thrown, HookExceptions
  <1>7. ASSUME u.type = "UPDATE"
        PROVE  LET r == GroupMoveHook(d, ix, u, d.by[u.old], d.by[u.new])
               IN  r.ix \in GroupStates(d) /\ r.exn \in HookExceptions
    <2> DEFINE old == d.by[u.old]
               new == d.by[u.new]
               gone == LeafHook(d.inner, ix.ixs[old], DeleteUpdate(u.id, u.old))
               left == [ix EXCEPT !.ixs[old] = gone.ix]
               refused == LeafOnUpdate(d.inner, ix.ixs[new], AddUpdate(u.id, u.new))
               came == LeafHook(d.inner, ix.ixs[new], AddUpdate(u.id, u.new))
    <2>1. /\ old \in Group /\ new \in Group
          /\ DeleteUpdate(u.id, u.old) \in UpdatesOf(Value)
          /\ AddUpdate(u.id, u.new) \in UpdatesOf(Value)
      BY <1>1, <1>7, UpdateCases DEF UpdatesOf
    <2>2. /\ gone.ix \in LeafStates(d.inner) /\ gone.exn \in HookExceptions
          /\ refused \in HookExceptions
          /\ came.ix \in LeafStates(d.inner) /\ came.exn \in HookExceptions
      BY <1>5, <2>1
    <2>3. left \in GroupStates(d) /\ [left EXCEPT !.ixs[new] = came.ix] \in GroupStates(d)
      BY <1>3, <2>1, <2>2
    <2> HIDE DEF old, new, gone, left, refused, came
    <2> QED BY <2>2, <2>3
            DEF GroupMoveHook, Thrown, HookExceptions, old, new, gone, left,
                refused, came
  <1>8. /\ GroupHook(d, ix, u).ix \in GroupStates(d)
        /\ GroupHook(d, ix, u).exn \in HookExceptions
    BY <1>1, <1>3, <1>5, <1>7, UpdateCases DEF GroupHook
  <1> QED BY <1>6, <1>8

(* Phase one creates at most an empty group, whether the update is refused *)
(* or not; only a conflict is a reason to refuse.                          *)
LEMMA GroupOnUpdateLaw ==
  ASSUME NEW d \in GroupDescs, NEW ix \in GroupStates(d),
         NEW m \in Stores(Value), NEW u \in UpdatesOf(Value), Describes(u, m),
         GroupMirrors(d, ix, m)
  PROVE  LET r == GroupOnUpdate(d, ix, u)
         IN  /\ GroupMirrors(d, r.ix, m)
             /\ r.exn \in {"none", "ConflictException"}
             /\ r.exn = "none" => GroupOnUpdate(d, r.ix, u) = Done(r.ix)
  <1> DEFINE r == GroupOnUpdate(d, ix, u)
             new == d.by[u.new]
             created == [ix EXCEPT !.live = @ \cup {new}]
  <1>1. d.by \in [Value -> Group] /\ d.inner \in LeafDescs
    BY DEF GroupDescs
  <1>2. ix.live \in SUBSET Group /\ ix.ixs \in [Group -> LeafStates(d.inner)]
    BY DEF GroupStates
  <1>3. created.ixs = ix.ixs /\ created.live = ix.live \cup {new}
    BY DEF GroupStates
  <1>4. [created EXCEPT !.live = @ \cup {new}] = created
    BY DEF GroupStates
  <1>5. u.type # "ADD" => d.by[u.old] \in ix.live
    BY UpdateCases, AbsentAssumption DEF GroupMirrors, Describes
  <1>6. ASSUME NEW g \in Group, NEW v \in UpdatesOf(Value)
        PROVE  LeafOnUpdate(d.inner, ix.ixs[g], v) \in {"none", "ConflictException"}
    BY <1>1, <1>2, LeafType
  <1>7. GroupMirrors(d, created, m)
    BY <1>3 DEF GroupMirrors
  <1> HIDE DEF created
  <1>8. CASE u.type = "ADD"
    <2>1. r = [exn |-> LeafOnUpdate(d.inner, ix.ixs[new], u), ix |-> created]
      BY <1>8 DEF GroupOnUpdate, created
    <2>2. GroupOnUpdate(d, created, u) =
            [exn |-> LeafOnUpdate(d.inner, ix.ixs[new], u), ix |-> created]
      BY <1>3, <1>4, <1>8 DEF GroupOnUpdate
    <2> HIDE DEF r
    <2> QED BY <1>1, <1>6, <1>7, <1>8, <2>1, <2>2, UpdateCases DEF Done, r
  <1>9. CASE u.type = "UPDATE" /\ d.by[u.old] # new
    <2>1. r = Done(created)
      BY <1>9 DEF GroupOnUpdate, created
    <2>2. GroupOnUpdate(d, created, u) = Done(created)
      BY <1>3, <1>4, <1>9 DEF GroupOnUpdate
    <2> HIDE DEF r
    <2> QED BY <1>7, <2>1, <2>2 DEF Done, r
  <1>10. CASE u.type = "DELETE" \/ (u.type = "UPDATE" /\ d.by[u.old] = new)
    <2>1. r = [exn |-> LeafOnUpdate(d.inner, ix.ixs[d.by[u.old]], u), ix |-> ix]
      BY <1>5, <1>10 DEF GroupOnUpdate
    <2> HIDE DEF r
    <2>2. r.ix = ix /\ r.exn \in {"none", "ConflictException"}
      BY <1>1, <1>6, <1>10, <2>1, UpdateCases
    <2>3. r.exn = "none" => r = Done(ix)
      BY <2>1, <2>2 DEF Done
    <2> QED BY <2>2, <2>3 DEF r
  <1> QED BY <1>8, <1>9, <1>10, UpdateCases

(* What a group holds, the collection holds. *)
LEMMA MembersClash ==
  ASSUME NEW d \in GroupDescs, NEW g \in Group, NEW m \in Stores(Value), NEW w,
         d.by[w] = g,
         \E i \in Ids : /\ MembersOf(d.by, g, m)[i] # Absent
                        /\ LeafClash(d.inner, MembersOf(d.by, g, m)[i], w)
  PROVE  \E i \in Ids : m[i] # Absent /\ PlainClash(d, m[i], w)
  <1>1. d.kind = "group"
    BY DEF GroupDescs
  <1>2. \A i \in Ids : MembersOf(d.by, g, m)[i] # Absent =>
          MembersOf(d.by, g, m)[i] = m[i] /\ m[i] # Absent /\ d.by[m[i]] = g
    BY DEF MembersOf
  <1> QED BY <1>1, <1>2 DEF PlainClash

LEMMA GroupRefusedLaw ==
  ASSUME NEW d \in GroupDescs, NEW ix \in GroupStates(d),
         NEW m \in Stores(Value), NEW u \in UpdatesOf(Value), Describes(u, m),
         GroupMirrors(d, ix, m), GroupOnUpdate(d, ix, u).exn # "none"
  PROVE  /\ u.type # "DELETE"
         /\ \E i \in Ids : m[i] # Absent /\ PlainClash(d, m[i], u.new)
  <1>1. d.by \in [Value -> Group] /\ d.inner \in LeafDescs
    BY DEF GroupDescs
  <1> DEFINE g == IF u.type = "ADD" THEN d.by[u.new] ELSE d.by[u.old]
  <1>2. u.type # "ADD" => d.by[u.old] \in ix.live
    BY UpdateCases, AbsentAssumption DEF GroupMirrors, Describes
  <1>3. /\ LeafOnUpdate(d.inner, ix.ixs[g], u) # "none"
        /\ u.type = "UPDATE" => d.by[u.old] = d.by[u.new]
    BY <1>2, UpdateCases DEF GroupOnUpdate, Done
  <1>4. g \in Group
    BY <1>1, UpdateCases
  <1>5. MembersOf(d.by, g, m) \in Stores(Value)
    BY <1>1, <1>4, MembersLaw
  <1>6. LeafMirrors(d.inner, ix.ixs[g], MembersOf(d.by, g, m))
    BY <1>4 DEF GroupMirrors
  <1>7. u.type # "DELETE" => d.by[u.new] = g
    BY <1>3, UpdateCases
  <1> HIDE DEF g
  <1>8. /\ u.type # "DELETE"
        /\ \E i \in Ids : /\ MembersOf(d.by, g, m)[i] # Absent
                          /\ LeafClash(d.inner, MembersOf(d.by, g, m)[i], u.new)
    BY <1>1, <1>3, <1>5, <1>6, LeafRefusedLaw
  <1> QED BY <1>4, <1>7, <1>8, MembersClash

(* The hook of an accepted update.  Moving an item to another group asks   *)
(* the inner index of that group only now: if it is a unique index, it may *)
(* still refuse, and then the item has left its old group.                 *)
LEMMA GroupHookLaw ==
  ASSUME NEW d \in GroupDescs,
         NEW ix \in GroupStates(d),
         NEW m \in Stores(Value), NEW u \in UpdatesOf(Value), Describes(u, m),
         GroupMirrors(d, ix, m), GroupOnUpdate(d, ix, u) = Done(ix)
  PROVE  LET r == GroupHook(d, ix, u)
         IN  /\ d.inner.kind # "unique" \/ u.type # "UPDATE" => r.exn = "none"
             /\ r.exn = "none" => GroupMirrors(d, r.ix, Applied(u, m))
             /\ r.exn # "none" =>
                  /\ r.exn = "ConflictException"
                  /\ \E i \in Ids : m[i] # Absent /\ PlainClash(d, m[i], u.new)
                  /\ GroupMirrors(d, r.ix, Without(u.id, m))
  <1> DEFINE r == GroupHook(d, ix, u)
             n == Applied(u, m)
             old == d.by[u.old]
             new == d.by[u.new]
             M(g) == MembersOf(d.by, g, m)
             N(g) == MembersOf(d.by, g, n)
  <1>1. d.by \in [Value -> Group] /\ d.inner \in LeafDescs
    BY DEF GroupDescs
  <1>2. ix.live \in SUBSET Group /\ ix.ixs \in [Group -> LeafStates(d.inner)]
    BY DEF GroupStates
  <1>3. \A g \in Group : M(g) \in Stores(Value) /\ LeafMirrors(d.inner, ix.ixs[g], M(g))
    BY <1>1, MembersLaw DEF GroupMirrors
  <1>4. u.type # "ADD" => old \in ix.live /\ old \in Group
    BY <1>1, UpdateCases, AbsentAssumption DEF GroupMirrors, Describes
  <1>5. u.type # "DELETE" => new \in Group
    BY <1>1, UpdateCases
  <1>6. u.type # "DELETE" => new \in ix.live
    <2>1. CASE u.type = "ADD" \/ (u.type = "UPDATE" /\ old # new)
      <3>1. [ix EXCEPT !.live = @ \cup {new}] = ix
        BY <2>1 DEF GroupOnUpdate, Done
      <3>2. [ix EXCEPT !.live = @ \cup {new}].live = ix.live \cup {new}
        BY DEF GroupStates
      <3> QED BY <3>1, <3>2
    <2>2. CASE u.type = "UPDATE" /\ old = new
      BY <1>4, <2>2
    <2> QED BY <2>1, <2>2, UpdateCases
  <1>7. \A i \in Ids : n[i] # Absent => d.by[n[i]] \in ix.live
    BY <1>6, UpdateCases DEF GroupMirrors, Applied, Stores
  <1>8. ASSUME NEW g \in Group, NEW v \in UpdatesOf(Value), Describes(v, M(g)),
               LeafOnUpdate(d.inner, ix.ixs[g], v) = "none"
        PROVE  LET s == LeafHook(d.inner, ix.ixs[g], v)
               IN  s.exn = "none" /\ LeafMirrors(d.inner, s.ix, Applied(v, M(g)))
    BY <1>1, <1>2, <1>3, <1>8, LeafLaw
  <1>9. CASE u.type = "UPDATE" /\ old # new
    <2> DEFINE del == DeleteUpdate(u.id, u.old)
               add == AddUpdate(u.id, u.new)
               gone == LeafHook(d.inner, ix.ixs[old], del)
               left == [ix EXCEPT !.ixs[old] = gone.ix]
               refused == LeafOnUpdate(d.inner, ix.ixs[new], add)
               came == LeafHook(d.inner, ix.ixs[new], add)
    <2>1. del \in UpdatesOf(Value) /\ add \in UpdatesOf(Value)
      <3>1. u.id \in Ids /\ u.old \in Value /\ u.new \in Value
        BY <1>9, UpdateCases
      <3> QED BY <3>1 DEF UpdatesOf
    <2>2. /\ Describes(del, M(old)) /\ N(old) = Applied(del, M(old))
          /\ Describes(add, M(new)) /\ N(new) = Applied(add, M(new))
          /\ \A g \in Group \ {old, new} : N(g) = M(g)
      BY <1>1, <1>4, <1>5, <1>9, MembersLaw
    <2>3. LeafOnUpdate(d.inner, ix.ixs[old], del) = "none"
      BY DEF LeafOnUpdate, UniqueOnUpdate, filterMapUpdate, DeleteUpdate, NoUpdate
    <2>4. gone.exn = "none" /\ LeafMirrors(d.inner, gone.ix, N(old))
      BY <1>4, <1>8, <1>9, <2>1, <2>2, <2>3
    <2>5. r = IF refused # "none" THEN Thrown(refused, left)
              ELSE [exn |-> came.exn, ix |-> [left EXCEPT !.ixs[new] = came.ix]]
      BY <1>4, <1>9, <2>4 DEF GroupHook, GroupMoveHook
    <2>6. d.inner.kind # "unique" => refused = "none"
      BY DEF LeafOnUpdate
    <2>7. refused = "none" => came.exn = "none" /\ LeafMirrors(d.inner, came.ix, N(new))
      BY <1>5, <1>8, <1>9, <2>1, <2>2
    <2>8. refused = "none" => GroupMirrors(d, [left EXCEPT !.ixs[new] = came.ix], n)
      <3> SUFFICES ASSUME refused = "none"
                   PROVE  GroupMirrors(d, [left EXCEPT !.ixs[new] = came.ix], n)
        OBVIOUS
      <3> DEFINE jx == [left EXCEPT !.ixs[new] = came.ix]
      <3> HIDE DEF gone, came
      <3>1. /\ jx.live = ix.live
            /\ \A g \in Group : jx.ixs[g] = IF g = new THEN came.ix
                                            ELSE IF g = old THEN gone.ix ELSE ix.ixs[g]
        BY <1>4, <1>5, <1>9 DEF GroupStates
      <3> HIDE DEF jx
      <3>2. ASSUME NEW g \in Group PROVE LeafMirrors(d.inner, jx.ixs[g], N(g))
        <4> HIDE DEF M, N, old, new
        <4> QED BY <1>3, <2>2, <2>4, <2>7, <3>1
      <3> QED BY <1>7, <3>1, <3>2 DEF GroupMirrors, jx
    <2>11. refused # "none" =>
             /\ refused = "ConflictException"
             /\ \E i \in Ids : m[i] # Absent /\ PlainClash(d, m[i], u.new)
      <3> SUFFICES ASSUME refused # "none"
                   PROVE  /\ refused = "ConflictException"
                          /\ \E i \in Ids : m[i] # Absent /\ PlainClash(d, m[i], u.new)
        OBVIOUS
      <3>1. new \in Group /\ d.by[u.new] = new /\ add.new = u.new
        BY <1>5, <1>9 DEF AddUpdate
      <3>2. M(new) \in Stores(Value) /\ LeafMirrors(d.inner, ix.ixs[new], M(new))
        BY <1>3, <3>1
      <3>3. \E i \in Ids : M(new)[i] # Absent /\ LeafClash(d.inner, M(new)[i], add.new)
        BY <1>1, <2>1, <3>2, LeafRefusedLaw
      <3>4. refused = "ConflictException"
        BY <1>1, <1>2, <2>1, <3>1, LeafType
      <3> QED BY <3>1, <3>3, <3>4, MembersClash
    <2>13. GroupMirrors(d, left, Without(u.id, m))
      <3> DEFINE w == Without(u.id, m)
      <3>1. m \in Stores(Value) /\ u.id \in Ids /\ m[u.id] = u.old
        BY <1>9, UpdateCases DEF Describes
      <3>2. \A i \in Ids : w[i] = IF i = u.id THEN Absent ELSE m[i]
        BY <3>1 DEF Without, Stores
      <3>3. MembersOf(d.by, old, w) = N(old)
        <4>1. \A i \in Ids : n[i] = IF i = u.id THEN u.new ELSE m[i]
          BY <1>9, <3>1 DEF Applied, Stores
        <4> HIDE DEF w, n
        <4> QED BY <1>9, <3>2, <4>1 DEF MembersOf
      <3>4. \A g \in Group \ {old} : MembersOf(d.by, g, w) = M(g)
        <4> HIDE DEF w
        <4> QED BY <3>1, <3>2 DEF MembersOf
      <3> HIDE DEF gone, w
      <3>5. /\ left.live = ix.live
            /\ \A g \in Group : left.ixs[g] = IF g = old THEN gone.ix ELSE ix.ixs[g]
        BY <1>4, <1>9 DEF GroupStates
      <3> HIDE DEF left
      <3>6. \A i \in Ids : w[i] # Absent => d.by[w[i]] \in left.live
        BY <3>2, <3>5 DEF GroupMirrors
      <3>7. ASSUME NEW g \in Group
            PROVE  LeafMirrors(d.inner, left.ixs[g], MembersOf(d.by, g, w))
        <4> HIDE DEF M, N, old, new
        <4> QED BY <1>3, <2>4, <3>3, <3>4, <3>5
      <3> QED BY <3>6, <3>7 DEF GroupMirrors, w
    <2>14. r.exn # "none" => r.ix = left
      BY <2>5, <2>7 DEF Thrown
    <2> HIDE DEF r, refused, came, left
    <2>9. r.exn = "none" => refused = "none"
      BY <2>5 DEF Thrown
    <2>12. r.exn # "none" => refused # "none" /\ r.exn = refused
      BY <2>5, <2>7 DEF Thrown
    <2>10. refused = "none" => r.exn = "none" /\ r.ix = [left EXCEPT !.ixs[new] = came.ix]
      BY <2>5, <2>7
    <2> QED BY <1>9, <2>6, <2>8, <2>9, <2>10, <2>11, <2>12, <2>13, <2>14 DEF r
  <1>10. CASE u.type # "UPDATE" \/ old = new
    <2> DEFINE g0 == IF u.type = "ADD" THEN new ELSE old
               s == LeafHook(d.inner, ix.ixs[g0], u)
               jx == [ix EXCEPT !.ixs[g0] = s.ix]
    <2>1. g0 \in Group
      BY <1>4, <1>5, UpdateCases
    <2>2. r = [exn |-> s.exn, ix |-> jx]
      BY <1>10 DEF GroupHook
    <2>3. Describes(u, M(g0)) /\ N(g0) = Applied(u, M(g0))
      BY <1>1, <1>4, <1>5, <1>10, UpdateCases, MembersLaw
    <2>4. \A g \in Group \ {g0} : N(g) = M(g)
      BY <1>1, <1>10, UpdateCases, MembersLaw
    <2>5. LeafOnUpdate(d.inner, ix.ixs[g0], u) = "none"
      BY <1>4, <1>10, UpdateCases DEF GroupOnUpdate, Done, Thrown
    <2>6. s.exn = "none" /\ LeafMirrors(d.inner, s.ix, N(g0))
      BY <1>8, <2>1, <2>3, <2>5
    <2> HIDE DEF s
    <2>7. jx.live = ix.live /\ \A g \in Group : jx.ixs[g] = IF g = g0 THEN s.ix ELSE ix.ixs[g]
      BY <2>1 DEF GroupStates
    <2> HIDE DEF jx, g0
    <2>8. ASSUME NEW g \in Group PROVE LeafMirrors(d.inner, jx.ixs[g], N(g))
      <3> HIDE DEF M, N
      <3> QED BY <1>3, <2>4, <2>6, <2>7
    <2>9. GroupMirrors(d, jx, n)
      BY <1>7, <2>7, <2>8 DEF GroupMirrors
    <2> HIDE DEF r
    <2> QED BY <2>2, <2>6, <2>9 DEF r
  <1> QED BY <1>9, <1>10

-----------------------------------------------------------------------------
(* The laws of a plain index.                                              *)

LEMMA PlainKind ==
  ASSUME NEW d \in PlainDescs
  PROVE  d.kind # "zip"
  BY DEF PlainDescs, LeafDescs, LeafKinds, GroupDescs

LEMMA PlainType ==
  ASSUME NEW d \in PlainDescs
  PROVE  /\ PlainEmpty(d) \in PlainStates(d)
         /\ \A ix \in PlainStates(d), u \in UpdatesOf(Value) :
              /\ PlainOnUpdate(d, ix, u).ix \in PlainStates(d)
              /\ PlainOnUpdate(d, ix, u).exn \in HookExceptions
              /\ PlainHook(d, ix, u).ix \in PlainStates(d)
              /\ PlainHook(d, ix, u).exn \in HookExceptions
  <1>1. CASE d \in LeafDescs
    <2>1. d.kind # "group"
      BY <1>1 DEF LeafDescs, LeafKinds
    <2> QED BY <1>1, <2>1, LeafType, LeafEmptyType
            DEF PlainEmpty, PlainStates, PlainOnUpdate, PlainHook, HookExceptions
  <1>2. CASE d \in GroupDescs
    <2>1. d.kind = "group" /\ d.inner \in LeafDescs
      BY <1>2 DEF GroupDescs
    <2>2. PlainStates(d) = GroupStates(d)
      BY <2>1 DEF PlainStates, GroupStates
    <2>3. GroupEmpty(d) \in GroupStates(d)
      BY <2>1, LeafEmptyType DEF GroupEmpty, GroupStates
    <2> QED BY <1>2, <2>1, <2>2, <2>3, GroupType DEF PlainEmpty, PlainOnUpdate, PlainHook
  <1> QED BY <1>1, <1>2 DEF PlainDescs

LEMMA PlainEmptyLaw ==
  ASSUME NEW d \in PlainDescs
  PROVE  PlainMirrors(d, PlainEmpty(d), EmptyStore)
  <1>1. CASE d \in LeafDescs
    BY <1>1, LeafEmptyLaw DEF PlainMirrors, PlainEmpty, LeafDescs, LeafKinds
  <1>2. CASE d \in GroupDescs
    <2>1. d.kind = "group" /\ d.inner \in LeafDescs
      BY <1>2 DEF GroupDescs
    <2>2. \A g \in Group : MembersOf(d.by, g, EmptyStore) = EmptyStore
      BY DEF MembersOf, EmptyStore
    <2>3. \A g \in Group : GroupEmpty(d).ixs[g] = LeafEmpty(d.inner)
      BY DEF GroupEmpty
    <2>4. \A i \in Ids : EmptyStore[i] = Absent
      BY DEF EmptyStore
    <2>5. LeafMirrors(d.inner, LeafEmpty(d.inner), EmptyStore)
      BY <1>2, <2>1, LeafEmptyLaw
    <2>6. GroupMirrors(d, GroupEmpty(d), EmptyStore)
      BY <2>2, <2>3, <2>4, <2>5 DEF GroupMirrors
    <2> QED BY <2>1, <2>6 DEF PlainMirrors, PlainEmpty
  <1> QED BY <1>1, <1>2 DEF PlainDescs

LEMMA PlainOnUpdateLaw ==
  ASSUME NEW d \in PlainDescs, NEW ix \in PlainStates(d),
         NEW m \in Stores(Value), NEW u \in UpdatesOf(Value), Describes(u, m),
         PlainMirrors(d, ix, m)
  PROVE  LET r == PlainOnUpdate(d, ix, u)
         IN  /\ PlainMirrors(d, r.ix, m)
             /\ r.exn \in {"none", "ConflictException"}
             /\ r.exn = "none" => PlainOnUpdate(d, r.ix, u) = Done(r.ix)
             /\ r.exn # "none" =>
                  /\ u.type # "DELETE"
                  /\ \E i \in Ids : m[i] # Absent /\ PlainClash(d, m[i], u.new)
  <1>1. CASE d \in LeafDescs
    <2>1. d.kind # "group" /\ ix \in LeafStates(d)
      BY <1>1 DEF LeafDescs, LeafKinds, PlainStates
    <2>2. LeafOnUpdate(d, ix, u) \in {"none", "ConflictException"}
      BY <1>1, <2>1, LeafType
    <2>3. LeafOnUpdate(d, ix, u) # "none" =>
            /\ u.type # "DELETE"
            /\ \E i \in Ids : m[i] # Absent /\ PlainClash(d, m[i], u.new)
      BY <1>1, <2>1, LeafRefusedLaw DEF PlainMirrors, PlainClash
    <2> QED BY <2>1, <2>2, <2>3 DEF PlainOnUpdate, PlainMirrors, Done
  <1>2. CASE d \in GroupDescs
    <2>1. d.kind = "group" /\ ix \in GroupStates(d)
      BY <1>2 DEF GroupDescs, PlainStates, GroupStates
    <2> QED BY <1>2, <2>1, GroupOnUpdateLaw, GroupRefusedLaw DEF PlainOnUpdate, PlainMirrors
  <1> QED BY <1>1, <1>2 DEF PlainDescs

LEMMA PlainHookLaw ==
  ASSUME NEW d \in PlainDescs, NEW ix \in PlainStates(d),
         NEW m \in Stores(Value), NEW u \in UpdatesOf(Value), Describes(u, m),
         PlainMirrors(d, ix, m), PlainOnUpdate(d, ix, u) = Done(ix)
  PROVE  LET r == PlainHook(d, ix, u)
         IN  /\ r.exn = "none" => PlainMirrors(d, r.ix, Applied(u, m))
             /\ d \in SafePlain \/ u.type # "UPDATE" => r.exn = "none"
             /\ r.exn # "none" =>
                  /\ r.exn = "ConflictException"
                  /\ \E i \in Ids : m[i] # Absent /\ PlainClash(d, m[i], u.new)
                  /\ PlainMirrors(d, r.ix, Without(u.id, m))
  <1>1. CASE d \in LeafDescs
    <2>1. d.kind # "group" /\ ix \in LeafStates(d)
      BY <1>1 DEF LeafDescs, LeafKinds, PlainStates
    <2>2. LeafOnUpdate(d, ix, u) = "none"
      BY <2>1 DEF PlainOnUpdate, Done
    <2> QED BY <1>1, <2>1, <2>2, LeafLaw DEF PlainHook, PlainMirrors
  <1>2. CASE d \in GroupDescs
    <2>1. d.kind = "group" /\ ix \in GroupStates(d)
      BY <1>2 DEF GroupDescs, PlainStates, GroupStates
    <2> QED BY <1>2, <2>1, GroupHookLaw DEF PlainOnUpdate, PlainHook, PlainMirrors, SafePlain
  <1> QED BY <1>1, <1>2 DEF PlainDescs

LEMMA PlainNoClash ==
  ASSUME NEW d \in PlainDescs, NEW ix, NEW m \in Stores(Value), PlainMirrors(d, ix, m),
         NEW i1 \in Ids, NEW i2 \in Ids, i1 # i2, m[i1] # Absent, m[i2] # Absent
  PROVE  ~ PlainClash(d, m[i1], m[i2])
  <1>1. CASE d \in LeafDescs
    <2>1. d.kind # "group"
      BY <1>1 DEF LeafDescs, LeafKinds
    <2> QED BY <1>1, <2>1, LeafNoClash DEF PlainMirrors, PlainClash
  <1>2. CASE d \in GroupDescs
    <2> DEFINE g == d.by[m[i1]]
               n == MembersOf(d.by, g, m)
    <2>1. d.kind = "group" /\ d.inner \in LeafDescs /\ d.by \in [Value -> Group]
      BY <1>2 DEF GroupDescs
    <2>2. g \in Group /\ n \in Stores(Value)
      BY <2>1 DEF Stores, MembersOf
    <2>3. LeafMirrors(d.inner, ix.ixs[g], n)
      BY <2>1, <2>2 DEF PlainMirrors, GroupMirrors
    <2>4. d.by[m[i2]] = g => n[i1] = m[i1] /\ n[i2] = m[i2]
      BY DEF MembersOf
    <2> HIDE DEF g, n
    <2>5. d.by[m[i2]] = g => ~ LeafClash(d.inner, m[i1], m[i2])
      BY <2>1, <2>2, <2>3, <2>4, LeafNoClash
    <2> QED BY <2>1, <2>5 DEF PlainClash, g
  <1> QED BY <1>1, <1>2 DEF PlainDescs

(* PlainOnUpdate answers with a record of an exception and an index. *)
LEMMA PlainOnUpdateShape ==
  ASSUME NEW d, NEW ix, NEW u \in UpdatesOf(Value),
         PlainOnUpdate(d, ix, u).exn = "none", PlainOnUpdate(d, ix, u).ix = ix
  PROVE  PlainOnUpdate(d, ix, u) = Done(ix)
  <1>1. \A e, jx : [exn |-> e, ix |-> jx].exn = "none" /\ [exn |-> e, ix |-> jx].ix = ix
                    => [exn |-> e, ix |-> jx] = Done(ix)
    BY DEF Done
  <1>2. \E e, jx : PlainOnUpdate(d, ix, u) = [exn |-> e, ix |-> jx]
    <2>1. CASE d.kind # "group"
      BY <2>1 DEF PlainOnUpdate
    <2>2. CASE d.kind = "group"
      <3>1. PlainOnUpdate(d, ix, u) = GroupOnUpdate(d, ix, u)
        BY <2>2 DEF PlainOnUpdate
      <3>2. \E e, jx : GroupOnUpdate(d, ix, u) = [exn |-> e, ix |-> jx]
        <4>1. CASE u.type = "ADD"
          BY <4>1 DEF GroupOnUpdate
        <4>2. CASE u.type = "UPDATE" /\ d.by[u.old] # d.by[u.new]
          BY <4>2 DEF GroupOnUpdate, Done
        <4>3. CASE u.type = "DELETE" \/ (u.type = "UPDATE" /\ d.by[u.old] = d.by[u.new])
          BY <4>3 DEF GroupOnUpdate, Thrown
        <4> QED BY <4>1, <4>2, <4>3, UpdateCases
      <3> QED BY <3>1, <3>2
    <2> QED BY <2>1, <2>2
  <1> QED BY <1>1, <1>2

-----------------------------------------------------------------------------
(* The loops of a zip.                                                     *)

LEMMA MinLaw ==
  ASSUME NEW S, S \subseteq Nat, S # {}
  PROVE  Min(S) \in S /\ \A y \in S : Min(S) <= y
  <1>1. PICK x \in S : \A y \in S : x <= y
    BY LeastLaw
  <1> QED BY <1>1 DEF Min

LEMMA ZipOutcomeLaw ==
  ASSUME NEW n \in Nat, NEW ix, NEW r
  PROVE  LET z == ZipOutcome(n, ix, r)
         IN  /\ z = [exn |-> z.exn, ix |-> z.ix]
             /\ z.ix = [j \in 1 .. n |-> z.ix[j]]
             /\ \A j \in 1 .. n : z.ix[j] = r[j].ix \/ z.ix[j] = ix[j]
             /\ z.exn = "none" =>
                  \A j \in 1 .. n : r[j].exn = "none" /\ z.ix[j] = r[j].ix
             /\ z.exn # "none" =>
                  \E j \in 1 .. n : r[j].exn # "none" /\ z.exn = r[j].exn
  <1> DEFINE failed == {j \in 1 .. n : r[j].exn # "none"}
             stop == IF failed = {} THEN n ELSE Min(failed)
             z == ZipOutcome(n, ix, r)
  <1>1. failed # {} => stop \in failed
    BY MinLaw
  <1>2. z = [exn |-> IF failed = {} THEN "none" ELSE r[stop].exn,
             ix  |-> [j \in 1 .. n |-> IF j <= stop THEN r[j].ix ELSE ix[j]]]
    BY DEF ZipOutcome
  <1>3. failed = {} => stop = n
    OBVIOUS
  <1>4. stop \in failed => stop \in 1 .. n /\ r[stop].exn # "none"
    OBVIOUS
  <1>5. failed = {} => \A j \in 1 .. n : r[j].exn = "none"
    OBVIOUS
  <1> HIDE DEF failed, stop, z
  <1>6. /\ z.exn = IF failed = {} THEN "none" ELSE r[stop].exn
        /\ z.ix = [j \in 1 .. n |-> IF j <= stop THEN r[j].ix ELSE ix[j]]
        /\ z = [exn |-> z.exn, ix |-> z.ix]
    BY <1>2
  <1>7. z.ix = [j \in 1 .. n |-> z.ix[j]]
    BY <1>6
  <1>8. \A j \in 1 .. n : z.ix[j] = IF j <= stop THEN r[j].ix ELSE ix[j]
    BY <1>6
  <1>9. z.exn = "none" => failed = {}
    BY <1>1, <1>4, <1>6
  <1>10. z.exn # "none" => stop \in 1 .. n /\ r[stop].exn # "none" /\ z.exn = r[stop].exn
    BY <1>1, <1>4, <1>6
  <1> QED BY <1>3, <1>5, <1>6, <1>7, <1>8, <1>9, <1>10 DEF z

(* If a part throws, the parts before it have made their step and the      *)
(* parts after it have not.                                                *)
LEMMA ZipStopLaw ==
  ASSUME NEW n \in Nat, NEW ix, NEW r, ZipOutcome(n, ix, r).exn # "none"
  PROVE  \E s \in 1 .. n :
           /\ r[s].exn # "none"
           /\ \A j \in 1 .. n :
                /\ j < s => r[j].exn = "none"
                /\ ZipOutcome(n, ix, r).ix[j] = IF j <= s THEN r[j].ix ELSE ix[j]
  <1> DEFINE failed == {j \in 1 .. n : r[j].exn # "none"}
             stop == IF failed = {} THEN n ELSE Min(failed)
             z == ZipOutcome(n, ix, r)
  <1>1. z = [exn |-> IF failed = {} THEN "none" ELSE r[stop].exn,
             ix  |-> [j \in 1 .. n |-> IF j <= stop THEN r[j].ix ELSE ix[j]]]
    BY DEF ZipOutcome
  <1>2. failed # {}
    BY <1>1
  <1>3. stop \in failed /\ \A j \in failed : stop <= j
    BY <1>2, MinLaw
  <1>4. stop \in 1 .. n /\ r[stop].exn # "none"
    BY <1>3
  <1>5. \A j \in 1 .. n : j < stop => r[j].exn = "none"
    BY <1>3
  <1> HIDE DEF stop, z, failed
  <1>6. \A j \in 1 .. n : z.ix[j] = IF j <= stop THEN r[j].ix ELSE ix[j]
    BY <1>1
  <1> QED BY <1>4, <1>5, <1>6 DEF z

-----------------------------------------------------------------------------
(* The laws of any index, as the collection's proofs use them.             *)

LEMMA SafeKind ==
  /\ SafeDescs \subseteq IndexDescs
  /\ \A d \in SafeDescs : d.kind # "zip" => d \in SafePlain
  /\ \A d \in SafeDescs :
       d.kind = "zip" => d \in [kind : {"zip"}, parts : Seq(SafePlain)]
  <1>1. SafePlain \subseteq PlainDescs
    BY DEF SafePlain
  <1>2. \A d \in SafePlain : d.kind # "zip"
    BY <1>1, PlainKind
  <1>3. Seq(SafePlain) \subseteq Seq(PlainDescs)
    <2> SUFFICES ASSUME NEW s \in Seq(SafePlain) PROVE s \in Seq(PlainDescs)
      OBVIOUS
    <2>1. Len(s) \in Nat /\ s \in [1 .. Len(s) -> SafePlain]
      OBVIOUS
    <2> QED BY <1>1, <2>1
  <1> QED BY <1>1, <1>2, <1>3 DEF SafeDescs, IndexDescs, ZipDescs

LEMMA IndexKind ==
  ASSUME NEW d \in IndexDescs
  PROVE  /\ d.kind # "zip" => d \in PlainDescs
         /\ d.kind = "zip" => d.parts \in Seq(PlainDescs)
  BY PlainKind DEF IndexDescs, ZipDescs

LEMMA ZipState ==
  ASSUME NEW d, NEW ix
  PROVE  ix \in ZipStates(d) <=>
           /\ ix = [j \in 1 .. Len(d.parts) |-> ix[j]]
           /\ \A j \in 1 .. Len(d.parts) : ix[j] \in PlainStates(d.parts[j])
  <1> DEFINE U == UNION {PlainStates(d.parts[j]) : j \in 1 .. Len(d.parts)}
  <1>1. ASSUME ix = [j \in 1 .. Len(d.parts) |-> ix[j]],
               \A j \in 1 .. Len(d.parts) : ix[j] \in PlainStates(d.parts[j])
        PROVE  ix \in ZipStates(d)
    <2>1. \A j \in 1 .. Len(d.parts) : ix[j] \in U
      BY <1>1
    <2> HIDE DEF U
    <2>2. ix \in [1 .. Len(d.parts) -> U]
      BY <1>1, <2>1
    <2> QED BY <1>1, <2>2 DEF ZipStates, U
  <1>2. ASSUME ix \in ZipStates(d)
        PROVE  /\ ix = [j \in 1 .. Len(d.parts) |-> ix[j]]
               /\ \A j \in 1 .. Len(d.parts) : ix[j] \in PlainStates(d.parts[j])
    <2>1. /\ ix \in [1 .. Len(d.parts) -> U]
          /\ \A j \in 1 .. Len(d.parts) : ix[j] \in PlainStates(d.parts[j])
      BY <1>2 DEF ZipStates
    <2> HIDE DEF U
    <2> QED BY <2>1
  <1> QED BY <1>1, <1>2

LEMMA IndexType ==
  ASSUME NEW d \in IndexDescs
  PROVE  /\ Empty(d) \in IndexStates(d)
         /\ \A ix \in IndexStates(d), u \in UpdatesOf(Value) :
              /\ OnUpdate(d, ix, u).ix \in IndexStates(d)
              /\ OnUpdate(d, ix, u).exn \in HookExceptions
              /\ Hook(d, ix, u).ix \in IndexStates(d)
              /\ Hook(d, ix, u).exn \in HookExceptions
  <1>1. CASE d.kind # "zip"
    BY <1>1, IndexKind, PlainType DEF Empty, IndexStates, OnUpdate, Hook
  <1>2. CASE d.kind = "zip"
    <2> DEFINE n == Len(d.parts)
    <2>1. n \in Nat /\ \A j \in 1 .. n : d.parts[j] \in PlainDescs
      BY <1>2, IndexKind
    <2>2. Empty(d) \in ZipStates(d)
      <3>1. Empty(d) = [j \in 1 .. n |-> PlainEmpty(d.parts[j])]
        BY <1>2 DEF Empty
      <3>2. \A j \in 1 .. n : PlainEmpty(d.parts[j]) \in PlainStates(d.parts[j])
        BY <2>1, PlainType
      <3> QED BY <3>1, <3>2, ZipState
    <2>3. ASSUME NEW ix \in ZipStates(d), NEW r,
                 \A j \in 1 .. n : r[j].ix \in PlainStates(d.parts[j])
                                    /\ r[j].exn \in HookExceptions
          PROVE  /\ ZipOutcome(n, ix, r).ix \in ZipStates(d)
                 /\ ZipOutcome(n, ix, r).exn \in HookExceptions
      <3> DEFINE z == ZipOutcome(n, ix, r)
      <3>1. /\ z.ix = [j \in 1 .. n |-> z.ix[j]]
            /\ \A j \in 1 .. n : z.ix[j] = r[j].ix \/ z.ix[j] = ix[j]
            /\ z.exn # "none" => \E j \in 1 .. n : r[j].exn # "none" /\ z.exn = r[j].exn
        BY <2>1, ZipOutcomeLaw
      <3> HIDE DEF z
      <3>2. \A j \in 1 .. n : ix[j] \in PlainStates(d.parts[j])
        BY ZipState
      <3>3. \A j \in 1 .. n : z.ix[j] \in PlainStates(d.parts[j])
        BY <2>3, <3>1, <3>2
      <3>4. z.exn \in HookExceptions
        BY <2>3, <3>1 DEF HookExceptions
      <3> QED BY <3>1, <3>3, <3>4, ZipState DEF z
    <2>4. ASSUME NEW ix \in ZipStates(d), NEW u \in UpdatesOf(Value)
          PROVE  /\ ZipOnUpdate(d, ix, u).ix \in ZipStates(d)
                 /\ ZipOnUpdate(d, ix, u).exn \in HookExceptions
                 /\ ZipHook(d, ix, u).ix \in ZipStates(d)
                 /\ ZipHook(d, ix, u).exn \in HookExceptions
      <3> DEFINE a == [j \in 1 .. n |-> PlainOnUpdate(d.parts[j], ix[j], u)]
                 b == [j \in 1 .. n |-> PlainHook(d.parts[j], ix[j], u)]
      <3>1. \A j \in 1 .. n : d.parts[j] \in PlainDescs /\ ix[j] \in PlainStates(d.parts[j])
        BY <2>1, ZipState
      <3>2. \A j \in 1 .. n : a[j].ix \in PlainStates(d.parts[j]) /\ a[j].exn \in HookExceptions
        BY <3>1, PlainType
      <3>3. \A j \in 1 .. n : b[j].ix \in PlainStates(d.parts[j]) /\ b[j].exn \in HookExceptions
        BY <3>1, PlainType
      <3>4. ZipOnUpdate(d, ix, u) = ZipOutcome(n, ix, a) /\ ZipHook(d, ix, u) = ZipOutcome(n, ix, b)
        BY DEF ZipOnUpdate, ZipHook
      <3> HIDE DEF a, b, n
      <3> QED BY <2>3, <3>2, <3>3, <3>4
    <2> QED BY <1>2, <2>2, <2>4 DEF IndexStates, OnUpdate, Hook
  <1> QED BY <1>1, <1>2

(* A fresh index mirrors an empty collection. *)
LEMMA EmptyLaw ==
  ASSUME NEW d \in IndexDescs
  PROVE  Mirrors(d, Empty(d), EmptyStore)
  <1>1. CASE d.kind # "zip"
    BY <1>1, IndexKind, PlainEmptyLaw DEF Mirrors, Empty
  <1>2. CASE d.kind = "zip"
    <2>1. \A j \in 1 .. Len(d.parts) : d.parts[j] \in PlainDescs
      BY <1>2, IndexKind
    <2> QED BY <1>2, <2>1, PlainEmptyLaw DEF Mirrors, Empty
  <1> QED BY <1>1, <1>2

(* Phase one leaves what the index mirrors alone, refuses for nothing but  *)
(* a clash, and once passed stays passed.                                  *)
LEMMA OnUpdateLaw ==
  ASSUME NEW d \in IndexDescs, NEW ix \in IndexStates(d),
         NEW m \in Stores(Value), NEW u \in UpdatesOf(Value), Describes(u, m),
         Mirrors(d, ix, m)
  PROVE  LET r == OnUpdate(d, ix, u)
         IN  /\ Mirrors(d, r.ix, m)
             /\ r.exn \in {"none", "ConflictException"}
             /\ r.exn = "none" => Accepted(d, r.ix, u)
             /\ r.exn # "none" =>
                  /\ u.type # "DELETE"
                  /\ \E i \in Ids : m[i] # Absent /\ Clash(d, m[i], u.new)
  <1>1. CASE d.kind # "zip"
    BY <1>1, IndexKind, PlainOnUpdateLaw
       DEF OnUpdate, Mirrors, Accepted, IndexStates, Clash
  <1>2. CASE d.kind = "zip"
    <2> DEFINE n == Len(d.parts)
               a == [j \in 1 .. n |-> PlainOnUpdate(d.parts[j], ix[j], u)]
               z == ZipOutcome(n, ix, a)
    <2>1. n \in Nat /\ \A j \in 1 .. n : d.parts[j] \in PlainDescs
      BY <1>2, IndexKind
    <2>2. \A j \in 1 .. n : ix[j] \in PlainStates(d.parts[j]) /\ PlainMirrors(d.parts[j], ix[j], m)
      BY <1>2, ZipState DEF IndexStates, Mirrors
    <2>3. \A j \in 1 .. n :
            /\ PlainMirrors(d.parts[j], a[j].ix, m)
            /\ a[j].exn \in {"none", "ConflictException"}
            /\ a[j].exn = "none" => PlainOnUpdate(d.parts[j], a[j].ix, u) = Done(a[j].ix)
            /\ a[j].exn # "none" =>
                 /\ u.type # "DELETE"
                 /\ \E i \in Ids : m[i] # Absent /\ PlainClash(d.parts[j], m[i], u.new)
      BY <2>1, <2>2, PlainOnUpdateLaw
    <2>4. OnUpdate(d, ix, u) = z
      BY <1>2 DEF OnUpdate, ZipOnUpdate
    <2>5. /\ z.ix = [j \in 1 .. n |-> z.ix[j]]
          /\ \A j \in 1 .. n : z.ix[j] = a[j].ix \/ z.ix[j] = ix[j]
          /\ z.exn = "none" => \A j \in 1 .. n : a[j].exn = "none" /\ z.ix[j] = a[j].ix
          /\ z.exn # "none" => \E j \in 1 .. n : a[j].exn # "none" /\ z.exn = a[j].exn
      <3> HIDE DEF a
      <3> QED BY <2>1, ZipOutcomeLaw
    <2> HIDE DEF a, z
    <2>6. Mirrors(d, z.ix, m)
      BY <1>2, <2>2, <2>3, <2>5 DEF Mirrors
    <2>7. z.exn \in {"none", "ConflictException"}
      BY <2>3, <2>5
    <2>8. z.exn # "none" =>
            /\ u.type # "DELETE"
            /\ \E i \in Ids : m[i] # Absent /\ Clash(d, m[i], u.new)
      BY <1>2, <2>3, <2>5 DEF Clash
    <2>9. ASSUME z.exn = "none" PROVE Accepted(d, z.ix, u)
      <3> DEFINE b == [j \in 1 .. n |-> PlainOnUpdate(d.parts[j], z.ix[j], u)]
                 y == ZipOutcome(n, z.ix, b)
      <3>1. \A j \in 1 .. n : b[j] = Done(z.ix[j])
        BY <2>3, <2>5, <2>9
      <3>2. \A j \in 1 .. n : b[j].exn = "none" /\ b[j].ix = z.ix[j]
        <4> SUFFICES ASSUME NEW j \in 1 .. n PROVE b[j].exn = "none" /\ b[j].ix = z.ix[j]
          OBVIOUS
        <4>1. b[j] = Done(z.ix[j])
          BY <3>1
        <4> HIDE DEF b
        <4>2. \A jx : Done(jx).exn = "none" /\ Done(jx).ix = jx
          BY DEF Done
        <4> QED BY <4>1, <4>2, Zenon
      <3>3. OnUpdate(d, z.ix, u) = y
        BY <1>2 DEF OnUpdate, ZipOnUpdate
      <3> HIDE DEF b
      <3>4. /\ y = [exn |-> y.exn, ix |-> y.ix] /\ y.ix = [j \in 1 .. n |-> y.ix[j]]
            /\ \A j \in 1 .. n : y.ix[j] = b[j].ix \/ y.ix[j] = z.ix[j]
            /\ y.exn # "none" => \E j \in 1 .. n : b[j].exn # "none" /\ y.exn = b[j].exn
        BY <2>1, ZipOutcomeLaw
      <3> HIDE DEF y
      <3>5. y.exn = "none" /\ y.ix = z.ix
        <4>1. y.exn = "none"
          BY <3>2, <3>4
        <4>2. \A j \in 1 .. n : y.ix[j] = z.ix[j]
          BY <3>2, <3>4
        <4>3. z.ix = [j \in 1 .. n |-> z.ix[j]] /\ y.ix = [j \in 1 .. n |-> y.ix[j]]
          BY <2>5, <3>4
        <4> QED BY <4>1, <4>2, <4>3, Zenon
      <3> QED BY <3>3, <3>4, <3>5 DEF Accepted, Done
    <2> QED BY <2>4, <2>6, <2>7, <2>8, <2>9
  <1> QED BY <1>1, <1>2

(* Phase two of an accepted update.  The hook of a grouped unique index    *)
(* may throw; if it does not, the index has followed the collection, and   *)
(* if it does, the item is in none of its groups.                          *)
LEMMA HookLaw ==
  ASSUME NEW d \in IndexDescs, NEW ix \in IndexStates(d),
         NEW m \in Stores(Value), NEW u \in UpdatesOf(Value), Describes(u, m),
         Mirrors(d, ix, m), Accepted(d, ix, u)
  PROVE  LET r == Hook(d, ix, u)
         IN  /\ r.exn = "none" => Mirrors(d, r.ix, Applied(u, m))
             /\ d \in SafeDescs \/ u.type # "UPDATE" => r.exn = "none"
             /\ r.exn # "none" =>
                  /\ r.exn = "ConflictException"
                  /\ \E i \in Ids : m[i] # Absent /\ Clash(d, m[i], u.new)
                  /\ Stopped(d, r.ix, u, m)
  <1>1. CASE d.kind # "zip"
    BY <1>1, IndexKind, SafeKind, PlainHookLaw
       DEF OnUpdate, Hook, Mirrors, Accepted, IndexStates, Clash, Stopped
  <1>2. CASE d.kind = "zip"
    <2> DEFINE n == Len(d.parts)
               a == [j \in 1 .. n |-> PlainOnUpdate(d.parts[j], ix[j], u)]
               y == ZipOutcome(n, ix, a)
               b == [j \in 1 .. n |-> PlainHook(d.parts[j], ix[j], u)]
               z == ZipOutcome(n, ix, b)
    <2>1. /\ n \in Nat
          /\ \A j \in 1 .. n : d.parts[j] \in PlainDescs
          /\ d \in SafeDescs => \A j \in 1 .. n : d.parts[j] \in SafePlain
      BY <1>2, IndexKind, SafeKind
    <2>2. \A j \in 1 .. n : ix[j] \in PlainStates(d.parts[j]) /\ PlainMirrors(d.parts[j], ix[j], m)
      BY <1>2, ZipState DEF IndexStates, Mirrors
    <2>3. \A j \in 1 .. n : PlainOnUpdate(d.parts[j], ix[j], u) = Done(ix[j])
      <3>1. y = Done(ix)
        BY <1>2 DEF Accepted, OnUpdate, ZipOnUpdate
      <3>2. y.exn = "none" /\ y.ix = ix
        BY <3>1 DEF Done
      <3>3. \A j \in 1 .. n : a[j] = PlainOnUpdate(d.parts[j], ix[j], u)
        OBVIOUS
      <3>4. \A j \in 1 .. n : a[j].exn = "none" /\ a[j].ix = ix[j]
        <4> HIDE DEF a
        <4>1. /\ y.ix = [j \in 1 .. n |-> y.ix[j]]
              /\ \A j \in 1 .. n : y.ix[j] = a[j].ix \/ y.ix[j] = ix[j]
              /\ y.exn = "none" => \A j \in 1 .. n : a[j].exn = "none" /\ y.ix[j] = a[j].ix
              /\ y.exn # "none" => \E j \in 1 .. n : a[j].exn # "none" /\ y.exn = a[j].exn
          BY <2>1, ZipOutcomeLaw
        <4> HIDE DEF y
        <4> QED BY <3>2, <4>1
      <3> HIDE DEF a
      <3> QED BY <3>3, <3>4, PlainOnUpdateShape
    <2>4. \A j \in 1 .. n :
            /\ b[j].exn = "none" => PlainMirrors(d.parts[j], b[j].ix, Applied(u, m))
            /\ d.parts[j] \in SafePlain \/ u.type # "UPDATE" => b[j].exn = "none"
            /\ b[j].exn # "none" =>
                 /\ b[j].exn = "ConflictException"
                 /\ \E i \in Ids : m[i] # Absent /\ PlainClash(d.parts[j], m[i], u.new)
                 /\ PlainMirrors(d.parts[j], b[j].ix, Without(u.id, m))
      BY <2>1, <2>2, <2>3, PlainHookLaw
    <2>5. Hook(d, ix, u) = z
      BY <1>2 DEF Hook, ZipHook
    <2>6. /\ z.ix = [j \in 1 .. n |-> z.ix[j]]
          /\ \A j \in 1 .. n : z.ix[j] = b[j].ix \/ z.ix[j] = ix[j]
          /\ z.exn = "none" => \A j \in 1 .. n : b[j].exn = "none" /\ z.ix[j] = b[j].ix
          /\ z.exn # "none" => \E j \in 1 .. n : b[j].exn # "none" /\ z.exn = b[j].exn
      <3> HIDE DEF b
      <3> QED BY <2>1, ZipOutcomeLaw
    <2>10. z.exn # "none" =>
             \E s \in 1 .. n :
               /\ b[s].exn # "none"
               /\ \A j \in 1 .. n :
                    /\ j < s => b[j].exn = "none"
                    /\ z.ix[j] = IF j <= s THEN b[j].ix ELSE ix[j]
      <3> HIDE DEF b
      <3> QED BY <2>1, ZipStopLaw
    <2> HIDE DEF b, z
    <2>7. z.exn = "none" => Mirrors(d, z.ix, Applied(u, m))
      BY <1>2, <2>4, <2>6 DEF Mirrors
    <2>8. d \in SafeDescs \/ u.type # "UPDATE" => z.exn = "none"
      BY <2>1, <2>4, <2>6
    <2>9. z.exn # "none" =>
            /\ z.exn = "ConflictException"
            /\ \E i \in Ids : m[i] # Absent /\ Clash(d, m[i], u.new)
      BY <1>2, <2>4, <2>6 DEF Clash
    <2>11. ASSUME z.exn # "none" PROVE Stopped(d, z.ix, u, m)
      <3>1. PICK s \in 1 .. n :
              /\ b[s].exn # "none"
              /\ \A j \in 1 .. n :
                   /\ j < s => b[j].exn = "none"
                   /\ z.ix[j] = IF j <= s THEN b[j].ix ELSE ix[j]
        BY <2>10, <2>11
      <3>2. ASSUME NEW j \in 1 .. n
            PROVE  PlainMirrors(d.parts[j], z.ix[j],
                     IF j < s THEN Applied(u, m)
                     ELSE IF j = s THEN Without(u.id, m) ELSE m)
        <4>1. CASE j < s
          BY <2>4, <3>1, <4>1
        <4>2. CASE j = s
          BY <2>4, <3>1, <4>2
        <4>3. CASE j > s
          BY <2>2, <3>1, <4>3
        <4> QED BY <4>1, <4>2, <4>3
      <3> QED BY <1>2, <3>2 DEF Stopped
    <2> QED BY <2>5, <2>7, <2>8, <2>9, <2>11
  <1> QED BY <1>1, <1>2

(* The items an index mirrors do not clash. *)
LEMMA NoClashLaw ==
  ASSUME NEW d \in IndexDescs, NEW ix, NEW m \in Stores(Value), Mirrors(d, ix, m),
         NEW i1 \in Ids, NEW i2 \in Ids, i1 # i2, m[i1] # Absent, m[i2] # Absent
  PROVE  ~ Clash(d, m[i1], m[i2])
  <1>1. CASE d.kind # "zip"
    BY <1>1, IndexKind, PlainNoClash DEF Mirrors, Clash
  <1>2. CASE d.kind = "zip"
    <2>1. \A j \in 1 .. Len(d.parts) : d.parts[j] \in PlainDescs
      BY <1>2, IndexKind
    <2> QED BY <1>2, <2>1, PlainNoClash DEF Mirrors, Clash
  <1> QED BY <1>1, <1>2
=============================================================================
