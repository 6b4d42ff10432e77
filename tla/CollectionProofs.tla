-------------------------- MODULE CollectionProofs --------------------------
(***************************************************************************)
(* Theorems about Collection, for every number of ids, items, keys and     *)
(* groups and any number of indexes.                                       *)
(***************************************************************************)
EXTENDS Collection, IndexLaws, SequenceTheorems

-----------------------------------------------------------------------------
(* Small facts about the operators the actions are built from.             *)

LEMMA GetFromType ==
  ASSUME NEW m \in Stores(Value), NEW i \in Ids
  PROVE  /\ GetFrom(m, i) \in Value \cup {Undefined}
         /\ GetFrom(m, i) # Undefined => m[i] \in Value /\ GetFrom(m, i) = m[i]
         /\ Undefined \notin Value =>
              (GetFrom(m, i) = Undefined <=> m[i] = Absent)
  BY AbsentAssumption DEF GetFrom, Stores

LEMMA newIdType ==
  ASSUME last \in Ids
  PROVE  newId \in Ids /\ (newId # 0 => newId = last + 1)
  BY MaxIdAssumption DEF newId, Ids

LEMMA StoreType ==
  ASSUME NEW m \in Stores(Value), NEW i \in Ids, NEW v \in Value \cup {Absent}
  PROVE  [m EXCEPT ![i] = v] \in Stores(Value)
  BY DEF Stores

LEMMA UpdateTypes ==
  ASSUME NEW i \in Ids, NEW v \in Value, NEW w \in Value
  PROVE  /\ AddUpdate(i, v) \in UpdatesOf(Value)
         /\ UpdateUpdate(i, v, w) \in UpdatesOf(Value)
         /\ DeleteUpdate(i, v) \in UpdatesOf(Value)
  BY DEF UpdatesOf

Frames == [id : Ids, adjust : BOOLEAN, deleting : BOOLEAN]

LEMMA FrameTypes ==
  ASSUME frames \in Seq(Frames), frames # <<>>
  PROVE  TopFrame \in Frames /\ Pop(frames) \in Seq(Frames)
  <1>1. Len(frames) \in Nat \ {0}
    BY EmptySeq
  <1>2. TopFrame \in Frames
    BY <1>1 DEF TopFrame
  <1>3. Pop(frames) \in Seq(Frames)
    BY <1>1, SubSeqProperties DEF Pop
  <1> QED BY <1>2, <1>3

LEMMA DescType ==
  ASSUME TypeOK, NEW j \in 1 .. Len(indexes)
  PROVE  /\ indexes[j] \in IndexDescs
         /\ ix[j] \in IndexStates(indexes[j])
  BY DescsAssumption DEF TypeOK

-----------------------------------------------------------------------------
(* Type correctness.                                                       *)

LEMMA GiveUpType ==
  ASSUME TypeOK, phase \in {"prepare", "commit"}, NEW e \in HookExceptions,
         GiveUp(e), ix' = [j \in 1 .. Len(indexes) |-> ix'[j]],
         \A j \in 1 .. Len(indexes) : ix'[j] \in IndexStates(indexes[j]),
         UNCHANGED <<last, store, indexes, building, wrapped>>
  PROVE  TypeOK'
  <1>1. exn' \in Exceptions
    BY UpdateCases, GetFromType
       DEF GiveUp, Exception, Exceptions, HookExceptions, TypeOK
  <1>2. frames' \in Seq(Frames)
    BY FrameTypes DEF GiveUp, InDeletingFrame, TypeOK, Frames
  <1>3. torn' \subseteq Ids
    BY UpdateCases DEF GiveUp, TypeOK
  <1> QED BY <1>1, <1>2, <1>3 DEF TypeOK, GiveUp, Frames

LEMMA LoopType ==
  ASSUME TypeOK, PrepareStep \/ CommitStep
  PROVE  TypeOK'
  <1> DEFINE r == IF phase = "prepare" THEN OnUpdate(indexes[pos], ix[pos], update)
                                       ELSE Hook(indexes[pos], ix[pos], update)
  <1>1. /\ phase \in {"prepare", "commit"} /\ pos \in 1 .. Len(indexes)
        /\ update \in UpdatesOf(Value)
    BY DEF TypeOK, PrepareStep, CommitStep
  <1>2. r.ix \in IndexStates(indexes[pos]) /\ r.exn \in HookExceptions
    BY <1>1, DescType, IndexType
  <1>3. /\ ix' = [ix EXCEPT ![pos] = r.ix]
        /\ UNCHANGED <<last, store, indexes, building, wrapped>>
        /\ \/ pos' = pos + 1 /\ UNCHANGED <<phase, update, frames, exn, torn>>
           \/ GiveUp(r.exn)
    BY DEF PrepareStep, CommitStep
  <1> HIDE DEF r
  <1>4. /\ ix' = [j \in 1 .. Len(indexes) |-> ix'[j]]
        /\ \A j \in 1 .. Len(indexes) : ix'[j] \in IndexStates(indexes[j])
    <2>1. ix = [j \in 1 .. Len(indexes) |-> ix[j]]
      BY DEF TypeOK
    <2>2. \A j \in 1 .. Len(indexes) : ix'[j] = IF j = pos THEN r.ix ELSE ix[j]
      BY <1>1, <1>3, <2>1
    <2>3. ix' = [j \in 1 .. Len(indexes) |-> ix'[j]]
      BY <1>3, <2>1
    <2> QED BY <1>2, <2>2, <2>3, DescType
  <1>5. CASE pos' = pos + 1 /\ UNCHANGED <<phase, update, frames, exn, torn>>
    BY <1>1, <1>3, <1>4, <1>5 DEF TypeOK
  <1>6. CASE GiveUp(r.exn)
    BY <1>1, <1>2, <1>3, <1>4, <1>6, GiveUpType
  <1> QED BY <1>3, <1>5, <1>6

(* The part of a mutation up to propagateUpdate. *)
LEMMA MutationType ==
  ASSUME TypeOK, phase = "idle", last' \in Ids, wrapped' \in BOOLEAN,
         NEW id \in Ids, NEW v \in Value \cup {Absent}, NEW u \in UpdatesOf(Value),
         store' = [store EXCEPT ![id] = v], Propagate(u),
         frames' \in Seq(Frames), UNCHANGED <<torn, indexVars>>
  PROVE  TypeOK'
  <1>1. store' \in Stores(Value)
    BY StoreType DEF TypeOK
  <1>2. NoException \in Exceptions
    BY MaxIdAssumption DEF NoException, Exceptions, Ids
  <1> QED BY <1>1, <1>2 DEF TypeOK, Propagate, indexVars, Frames

LEMMA SetToType ==
  ASSUME TypeOK, phase = "idle", NEW id \in Ids, NEW v \in Value, SetTo(id, v),
         frames' \in Seq(Frames), UNCHANGED <<torn, wrapped, indexVars>>
  PROVE  TypeOK'
  <1> DEFINE u == IF GetFrom(store, id) = Undefined THEN AddUpdate(id, v)
                  ELSE UpdateUpdate(id, GetFrom(store, id), v)
  <1>1. u \in UpdatesOf(Value)
    BY GetFromType, UpdateTypes DEF TypeOK
  <1>2. last' \in Ids /\ store' = [store EXCEPT ![id] = v] /\ Propagate(u)
    BY DEF SetTo, TypeOK
  <1> QED BY <1>1, <1>2, MutationType DEF TypeOK

LEMMA DeleteExistingType ==
  ASSUME TypeOK, phase = "idle", NEW id \in Ids, GetFrom(store, id) # Undefined,
         DeleteExisting(id), frames' \in Seq(Frames),
         UNCHANGED <<last, torn, wrapped, indexVars>>
  PROVE  TypeOK'
  <1>1. DeleteUpdate(id, GetFrom(store, id)) \in UpdatesOf(Value)
    BY GetFromType, UpdateTypes DEF TypeOK
  <1>2. /\ store' = [store EXCEPT ![id] = Absent]
        /\ Propagate(DeleteUpdate(id, GetFrom(store, id)))
    BY DEF DeleteExisting
  <1> QED BY <1>1, <1>2, MutationType DEF TypeOK

LEMMA BuildType ==
  ASSUME TypeOK, NEW id \in Ids, BuildStep(id)
  PROVE  TypeOK'
  <1> DEFINE add == AddUpdate(id, store[id])
             asked == OnUpdate(building.desc, building.made, add)
             r == IF asked.exn = "none" THEN Hook(building.desc, asked.ix, add)
                                        ELSE asked
  <1>1. /\ building.desc \in IndexDescs
        /\ building.made \in IndexStates(building.desc)
        /\ store[id] \in Value
    BY DescsAssumption DEF TypeOK, BuildStep, Occupied, Stores
  <1>2. add \in UpdatesOf(Value)
    BY <1>1, UpdateTypes
  <1>3. asked.ix \in IndexStates(building.desc) /\ asked.exn \in HookExceptions
    BY <1>1, <1>2, IndexType
  <1>4. r.ix \in IndexStates(building.desc) /\ r.exn \in HookExceptions
    BY <1>1, <1>2, <1>3, IndexType
  <1>5. CASE /\ building' = [building EXCEPT !.made = r.ix, !.todo = @ \ {id}]
             /\ UNCHANGED <<phase, exn>>
    <2> HIDE DEF r
    <2>1. /\ phase = "build" /\ phase' = "build" /\ exn' = exn
          /\ UNCHANGED <<last, store, indexes, ix, pos, update, frames, torn, wrapped>>
      BY <1>5 DEF BuildStep
    <2>2. building \in [desc : Descs, made : IndexStates(building.desc),
                        todo : SUBSET Occupied(store)]
      BY <2>1 DEF TypeOK
    <2>3. /\ building'.desc = building.desc
          /\ building' \in [desc : Descs, made : IndexStates(building.desc),
                            todo : SUBSET Occupied(store)]
      BY <1>4, <1>5, <2>2
    <2>4. building' \in [desc : Descs, made : IndexStates(building'.desc),
                         todo : SUBSET Occupied(store')]
      BY <2>1, <2>3
    <2> QED BY <2>1, <2>4 DEF TypeOK
  <1>6. CASE /\ phase' = "idle" /\ building' = NoBuilding
             /\ exn' = Exception(r.exn, id, 0)
    <2>1. exn' \in Exceptions
      BY <1>4, <1>6, GetFromType DEF Exception, Exceptions, HookExceptions, TypeOK
    <2>2. UNCHANGED <<last, store, indexes, ix, pos, update, frames, torn, wrapped>>
      BY DEF BuildStep
    <2> QED BY <1>6, <2>1, <2>2 DEF TypeOK
  <1> QED BY <1>5, <1>6 DEF BuildStep

(* Type correctness: every step of the code keeps every variable in its    *)
(* type, also after a mutation was given up and after the id counter has   *)
(* wrapped around.  In particular every update propagateUpdate sends is    *)
(* well formed, and no index is in a state its own code could not build.   *)
THEOREM TypeCorrect == Spec => []TypeOK
  <1>1. Init => TypeOK
    <2> SUFFICES ASSUME Init PROVE TypeOK
      OBVIOUS
    <2>1. last \in Ids /\ store \in Stores(Value)
      BY MaxIdAssumption DEF Init, Ids, Stores, EmptyStore
    <2>2. indexes \in Seq(Descs) /\ Len(indexes) = 0 /\ frames \in Seq(Frames)
      BY DEF Init
    <2>3. ix = [j \in 1 .. Len(indexes) |-> ix[j]]
      BY <2>2 DEF Init
    <2>4. exn \in Exceptions
      BY MaxIdAssumption DEF Init, NoException, Exceptions, Ids
    <2>5. phase = "idle" /\ pos = 0 /\ update = NoUpdate /\ building = NoBuilding
      BY DEF Init
    <2>6. torn \subseteq Ids /\ wrapped \in BOOLEAN
      BY DEF Init
    <2> QED BY <2>1, <2>2, <2>3, <2>4, <2>5, <2>6 DEF TypeOK, Frames
  <1>2. TypeOK /\ [Next]_vars => TypeOK'
    <2> SUFFICES ASSUME TypeOK, [Next]_vars PROVE TypeOK'
      OBVIOUS
    <2>1. CASE PrepareStep \/ CommitStep
      BY <2>1, LoopType
    <2>2. CASE PrepareDone
      BY <2>2 DEF PrepareDone, TypeOK, indexVars
    <2>3. CASE CommitDone
      <3>1. frames' \in Seq(Frames)
        <4>1. CASE InDeletingFrame
          <5>1. frames \in Seq(Frames) /\ Len(frames) \in Nat \ {0} /\ TopFrame \in Frames
            BY <4>1, EmptySeq, FrameTypes DEF InDeletingFrame, TypeOK, Frames
          <5>2. [TopFrame EXCEPT !.deleting = FALSE] \in Frames
            BY <5>1 DEF Frames
          <5>3. frames' = [frames EXCEPT ![Len(frames)] =
                             [TopFrame EXCEPT !.deleting = FALSE]]
            BY <2>3, <4>1, <5>1 DEF CommitDone, TopFrame
          <5> QED BY <5>1, <5>2, <5>3
        <4>2. CASE ~ InDeletingFrame
          BY <2>3, <4>2 DEF CommitDone, TypeOK, Frames
        <4> QED BY <4>1, <4>2
      <3> QED BY <2>3, <3>1 DEF CommitDone, TypeOK, Frames, indexVars
    <2>4. ASSUME NEW id \in Ids, BuildStep(id) PROVE TypeOK'
      BY <2>4, BuildType
    <2>5. CASE BuildDone
      <3>1. /\ building.desc \in Descs /\ building.made \in IndexStates(building.desc)
            /\ indexes' = Append(indexes, building.desc)
        BY <2>5 DEF BuildDone, TypeOK
      <3>2. /\ indexes' \in Seq(Descs) /\ Len(indexes') = Len(indexes) + 1
            /\ Len(indexes) \in Nat
            /\ \A j \in 1 .. Len(indexes') :
                 indexes'[j] = IF j <= Len(indexes) THEN indexes[j] ELSE building.desc
        BY <3>1 DEF TypeOK
      <3>3. ix' = [j \in 1 .. Len(indexes') |->
                     IF j <= Len(indexes) THEN ix[j] ELSE building.made]
        BY <2>5, <3>2 DEF BuildDone
      <3>4. \A j \in 1 .. Len(indexes') : ix'[j] \in IndexStates(indexes'[j])
        BY <3>1, <3>2, <3>3 DEF TypeOK
      <3>5. ix' = [j \in 1 .. Len(indexes') |-> ix'[j]]
        BY <3>3
      <3> QED BY <2>5, <3>2, <3>4, <3>5 DEF BuildDone, TypeOK
    <2>6. ASSUME NEW value \in Value, Add(value) PROVE TypeOK'
      <3>1. newId \in Ids
        BY newIdType DEF TypeOK
      <3> QED BY <2>6, <3>1, UpdateTypes, MutationType DEF Add, TypeOK, Frames
    <2>7. ASSUME NEW id \in Ids, Delete(id) PROVE TypeOK'
      BY <2>7, DeleteExistingType DEF Delete, TypeOK, Frames
    <2>8. ASSUME NEW id \in Ids, NEW value \in Value, Set(id, value) PROVE TypeOK'
      BY <2>8, SetToType DEF Set, TypeOK, Frames
    <2>9. ASSUME NEW id \in Ids, NEW adjust \in BOOLEAN, Alter(id, adjust)
          PROVE  TypeOK'
      <3> DEFINE pre == GetFrom(store, id)
                 frame == [id |-> id, adjust |-> adjust, deleting |-> Truthy(pre)]
      <3>1. frame \in Frames
        <4>1. Truthy(pre) \in BOOLEAN
          BY DEF Truthy
        <4> QED BY <4>1 DEF Frames
      <3>2. frames' \in Seq(Frames)
        BY <2>9, <3>1 DEF Alter, TypeOK, Frames
      <3>3. CASE Truthy(pre)
        BY <2>9, <3>2, <3>3, DeleteExistingType DEF Alter, Truthy
      <3>4. CASE ~ Truthy(pre)
        <4>1. NoException \in Exceptions
          BY MaxIdAssumption DEF NoException, Exceptions, Ids
        <4> QED BY <2>9, <3>2, <3>4, <4>1 DEF Alter, TypeOK, Frames, indexVars
      <3> QED BY <3>3, <3>4
    <2>10. ASSUME NEW post \in Value \cup {Undefined}, AlterReturn(post) PROVE TypeOK'
      <3>1. frames' \in Seq(Frames) /\ TopFrame.id \in Ids
        BY <2>10, FrameTypes DEF AlterReturn, TypeOK, Frames
      <3>2. CASE Truthy(post)
        BY <2>10, <3>1, <3>2, SetToType DEF AlterReturn, Truthy
      <3>3. CASE ~ Truthy(post)
        <4>1. NoException \in Exceptions
          BY MaxIdAssumption DEF NoException, Exceptions, Ids
        <4> QED BY <2>10, <3>1, <3>3, <4>1 DEF AlterReturn, TypeOK, Frames, indexVars
      <3> QED BY <3>2, <3>3
    <2>11. CASE AlterThrow
      <3>1. frames' \in Seq(Frames)
        BY <2>11, FrameTypes DEF AlterThrow, TypeOK, Frames
      <3>2. exn' \in Exceptions
        BY <2>11, MaxIdAssumption DEF AlterThrow, NoException, Exceptions, Ids
      <3> QED BY <2>11, <3>1, <3>2 DEF AlterThrow, TypeOK, Frames, indexVars
    <2>12. ASSUME NEW desc \in Descs, RegisterIndex(desc) PROVE TypeOK'
      <3>1. Empty(desc) \in IndexStates(desc)
        BY DescsAssumption, IndexType
      <3>2. NoException \in Exceptions
        BY MaxIdAssumption DEF NoException, Exceptions, Ids
      <3>3. building' \in [desc : Descs, made : IndexStates(building'.desc),
                           todo : SUBSET Occupied(store')]
        BY <2>12, <3>1 DEF RegisterIndex
      <3> QED BY <2>12, <3>2, <3>3 DEF RegisterIndex, TypeOK
    <2>13. CASE UNCHANGED vars
      BY <2>13 DEF TypeOK, vars, Occupied
    <2> QED BY <2>1, <2>2, <2>3, <2>4, <2>5, <2>6, <2>7, <2>8, <2>9, <2>10,
               <2>11, <2>12, <2>13 DEF Next, Step, Call
  <1> QED BY <1>1, <1>2, PTL DEF Spec

-----------------------------------------------------------------------------
(* hashIndex and btreeIndex never keep an entry for a key without items,   *)
(* not even once a collection and its indexes have gone apart.             *)

LEMMA LeafHookTidy ==
  ASSUME NEW d \in LeafDescs, NEW ix0 \in LeafStates(d), NEW u \in UpdatesOf(Value),
         LeafTidy(d, ix0)
  PROVE  LeafTidy(d, LeafHook(d, ix0, u).ix)
  <1> SUFFICES ASSUME d.kind \in {"hash", "btree"}, NEW k \in Key
               PROVE  LeafHook(d, ix0, u).ix[k] # {}
    BY DEF LeafTidy
  <1> DEFINE v == filterMapUpdate(d.f, u)
  <1>1. /\ ix0 \in [Key -> (SUBSET Ids) \cup {Absent}]
        /\ \A l \in Key : ix0[l] # {}
    BY DEF LeafStates, HashStates, BTreeStates, LeafTidy
  <1>2. d.f \in [Value -> Key \cup {Undefined}]
    BY DEF LeafDescs
  <1>3. v.type # "NONE" => v \in UpdatesOf(Key)
    BY <1>2, FilterMapType
  <1>4. Absent # {} /\ Absent \notin SUBSET Ids
    BY AbsentAssumption
  <1>5. CASE v.type = "NONE"
    BY <1>1, <1>5 DEF LeafHook, Done
  <1>6. CASE v.type # "NONE" /\ d.kind = "hash"
    <2>1. LeafHook(d, ix0, u) = HashHook(ix0, v)
      BY <1>6 DEF LeafHook
    <2> HIDE DEF v
    <2>2. ASSUME NEW h \in [Key -> (SUBSET Ids) \cup {Absent}], NEW i \in Ids, NEW l \in Key,
                 \A m \in Key : h[m] # {}
          PROVE  /\ HashAdd(h, i, l) \in [Key -> (SUBSET Ids) \cup {Absent}]
                 /\ \A m \in Key : HashAdd(h, i, l)[m] # {}
                 /\ h[l] # Absent =>
                      /\ HashDelete(h, i, l) \in [Key -> (SUBSET Ids) \cup {Absent}]
                      /\ \A m \in Key : HashDelete(h, i, l)[m] # {}
      BY <1>4, <2>2 DEF HashAdd, HashDelete
    <2>3. /\ v.id \in Ids /\ v.type \in {"ADD", "UPDATE", "DELETE"}
          /\ v.type # "ADD" => v.old \in Key
          /\ v.type # "DELETE" => v.new \in Key
      BY <1>3, <1>6, UpdateCases
    <2>4. CASE v.type = "ADD"
      BY <1>1, <2>1, <2>2, <2>3, <2>4 DEF HashHook, Done
    <2>5. CASE v.type = "DELETE"
      BY <1>1, <2>1, <2>2, <2>3, <2>5 DEF HashHook, Done, Thrown
    <2>6. CASE v.type = "UPDATE"
      <3> DEFINE h == HashDelete(ix0, v.id, v.old)
      <3>1. CASE ix0[v.old] = Absent
        BY <1>1, <2>1, <2>6, <3>1 DEF HashHook, Thrown
      <3>2. CASE ix0[v.old] # Absent
        <4>1. h \in [Key -> (SUBSET Ids) \cup {Absent}] /\ \A m \in Key : h[m] # {}
          BY <1>1, <2>2, <2>3, <2>6, <3>2
        <4>2. LeafHook(d, ix0, u).ix = HashAdd(h, v.id, v.new)
          BY <2>1, <2>6, <3>2 DEF HashHook, Done
        <4> HIDE DEF h
        <4> QED BY <2>2, <2>3, <2>6, <4>1, <4>2
      <3> QED BY <3>1, <3>2
    <2> QED BY <2>3, <2>4, <2>5, <2>6
  <1>7. CASE v.type # "NONE" /\ d.kind = "btree"
    <2>1. LeafHook(d, ix0, u) = BTreeHook(ix0, v)
      BY <1>7 DEF LeafHook
    <2> HIDE DEF v
    <2>2. ASSUME NEW h \in [Key -> (SUBSET Ids) \cup {Absent}], NEW i \in Ids, NEW l \in Key,
                 \A m \in Key : h[m] # {}
          PROVE  /\ BTreeAdd(h, i, l) \in [Key -> (SUBSET Ids) \cup {Absent}]
                 /\ \A m \in Key : BTreeAdd(h, i, l)[m] # {}
                 /\ BTreeDelete(h, i, l) \in [Key -> (SUBSET Ids) \cup {Absent}]
                 /\ \A m \in Key : BTreeDelete(h, i, l)[m] # {}
      BY <1>4, <2>2 DEF BTreeAdd, BTreeDelete
    <2>3. /\ v.id \in Ids /\ v.type \in {"ADD", "UPDATE", "DELETE"}
          /\ v.type # "ADD" => v.old \in Key
          /\ v.type # "DELETE" => v.new \in Key
      BY <1>3, <1>7, UpdateCases
    <2>4. CASE v.type = "ADD"
      BY <1>1, <2>1, <2>2, <2>3, <2>4 DEF BTreeHook, Done
    <2>5. CASE v.type = "DELETE"
      BY <1>1, <2>1, <2>2, <2>3, <2>5 DEF BTreeHook, Done
    <2>6. CASE v.type = "UPDATE"
      <3> DEFINE h == BTreeDelete(ix0, v.id, v.old)
      <3>1. h \in [Key -> (SUBSET Ids) \cup {Absent}] /\ \A m \in Key : h[m] # {}
        BY <1>1, <2>2, <2>3, <2>6
      <3>2. LeafHook(d, ix0, u).ix =
              IF v.old = v.new THEN ix0 ELSE BTreeAdd(h, v.id, v.new)
        BY <2>1, <2>6 DEF BTreeHook, BTreeUpdate, Done
      <3> HIDE DEF h
      <3>3. BTreeAdd(h, v.id, v.new)[k] # {}
        BY <2>2, <2>3, <2>6, <3>1
      <3> QED BY <1>1, <3>2, <3>3
    <2> QED BY <2>3, <2>4, <2>5, <2>6
  <1> QED BY <1>5, <1>6, <1>7

LEMMA GroupTidy ==
  ASSUME NEW d \in GroupDescs, NEW ix0 \in GroupStates(d), NEW u \in UpdatesOf(Value),
         \A g \in Group : LeafTidy(d.inner, ix0.ixs[g])
  PROVE  /\ \A g \in Group : LeafTidy(d.inner, GroupOnUpdate(d, ix0, u).ix.ixs[g])
         /\ \A g \in Group : LeafTidy(d.inner, GroupHook(d, ix0, u).ix.ixs[g])
  <1>1. d.by \in [Value -> Group] /\ d.inner \in LeafDescs
    BY DEF GroupDescs
  <1>2. ix0.live \in SUBSET Group /\ ix0.ixs \in [Group -> LeafStates(d.inner)]
    BY DEF GroupStates
  <1>3. GroupOnUpdate(d, ix0, u).ix.ixs = ix0.ixs
    <2>1. \A g : [ix0 EXCEPT !.live = @ \cup {g}].ixs = ix0.ixs
      BY DEF GroupStates
    <2> QED BY <2>1, UpdateCases DEF GroupOnUpdate, Done, Thrown
  <1>4. ASSUME NEW kx \in GroupStates(d), NEW g \in Group, NEW jx \in LeafStates(d.inner),
               LeafTidy(d.inner, jx), \A h \in Group : LeafTidy(d.inner, kx.ixs[h])
        PROVE  /\ [kx EXCEPT !.ixs[g] = jx] \in GroupStates(d)
               /\ \A h \in Group : LeafTidy(d.inner, [kx EXCEPT !.ixs[g] = jx].ixs[h])
    <2>1. \A h \in Group :
            [kx EXCEPT !.ixs[g] = jx].ixs[h] = IF h = g THEN jx ELSE kx.ixs[h]
      BY DEF GroupStates
    <2> QED BY <1>4, <2>1 DEF GroupStates
  <1>5. ASSUME NEW g \in Group, NEW w \in UpdatesOf(Value)
        PROVE  /\ LeafHook(d.inner, ix0.ixs[g], w).ix \in LeafStates(d.inner)
               /\ LeafTidy(d.inner, LeafHook(d.inner, ix0.ixs[g], w).ix)
    BY <1>1, <1>2, LeafType, LeafHookTidy
  <1>6. CASE u.type = "UPDATE" /\ d.by[u.old] # d.by[u.new]
    <2> DEFINE old == d.by[u.old]
               new == d.by[u.new]
               del == DeleteUpdate(u.id, u.old)
               add == AddUpdate(u.id, u.new)
               gone == LeafHook(d.inner, ix0.ixs[old], del)
               left == [ix0 EXCEPT !.ixs[old] = gone.ix]
               came == LeafHook(d.inner, ix0.ixs[new], add)
               both == [left EXCEPT !.ixs[new] = came.ix]
    <2>1. old \in Group /\ new \in Group /\ del \in UpdatesOf(Value) /\ add \in UpdatesOf(Value)
      BY <1>1, <1>6, UpdateCases, UpdateTypes
    <2>2. GroupHook(d, ix0, u).ix \in {ix0, left, both}
      BY <1>6 DEF GroupHook, GroupMoveHook, Thrown
    <2> HIDE DEF del, add, old, new
    <2>3. gone.ix \in LeafStates(d.inner) /\ LeafTidy(d.inner, gone.ix)
      BY <1>5, <2>1
    <2>4. came.ix \in LeafStates(d.inner) /\ LeafTidy(d.inner, came.ix)
      BY <1>5, <2>1
    <2> HIDE DEF gone, came
    <2>5. left \in GroupStates(d) /\ \A h \in Group : LeafTidy(d.inner, left.ixs[h])
      BY <1>4, <2>1, <2>3
    <2> HIDE DEF left
    <2>6. \A h \in Group : LeafTidy(d.inner, both.ixs[h])
      BY <1>4, <2>1, <2>4, <2>5
    <2> HIDE DEF both
    <2> QED BY <1>3, <2>2, <2>5, <2>6
  <1>7. CASE ~ (u.type = "UPDATE" /\ d.by[u.old] # d.by[u.new])
    <2> DEFINE g == IF u.type = "ADD" THEN d.by[u.new] ELSE d.by[u.old]
               inner == LeafHook(d.inner, ix0.ixs[g], u)
    <2>1. g \in Group
      BY <1>1, UpdateCases
    <2>2. GroupHook(d, ix0, u).ix = [ix0 EXCEPT !.ixs[g] = inner.ix]
      BY <1>7 DEF GroupHook
    <2> HIDE DEF g
    <2>3. inner.ix \in LeafStates(d.inner) /\ LeafTidy(d.inner, inner.ix)
      BY <1>5, <2>1
    <2> HIDE DEF inner
    <2> QED BY <1>3, <1>4, <2>1, <2>2, <2>3
  <1> QED BY <1>6, <1>7

LEMMA PlainTidyLaw ==
  ASSUME NEW d \in PlainDescs
  PROVE  /\ PlainTidy(d, PlainEmpty(d))
         /\ \A jx \in PlainStates(d), u \in UpdatesOf(Value) : PlainTidy(d, jx) =>
              /\ PlainTidy(d, PlainOnUpdate(d, jx, u).ix)
              /\ PlainTidy(d, PlainHook(d, jx, u).ix)
  <1>1. CASE d \in LeafDescs
    <2>1. d.kind # "group"
      BY <1>1 DEF LeafDescs, LeafKinds
    <2>2. LeafTidy(d, LeafEmpty(d))
      BY AbsentAssumption DEF LeafTidy, LeafEmpty, HashEmpty, BTreeEmpty
    <2> QED BY <1>1, <2>1, <2>2, LeafHookTidy
            DEF PlainTidy, PlainEmpty, PlainStates, PlainOnUpdate, PlainHook
  <1>2. CASE d \in GroupDescs
    <2>1. d.kind = "group" /\ d.inner \in LeafDescs
      BY <1>2 DEF GroupDescs
    <2>2. LeafTidy(d.inner, LeafEmpty(d.inner))
      BY <2>1, AbsentAssumption DEF LeafTidy, LeafEmpty, HashEmpty, BTreeEmpty
    <2>3. PlainTidy(d, PlainEmpty(d))
      BY <2>1, <2>2 DEF PlainTidy, PlainEmpty, GroupEmpty
    <2> QED BY <1>2, <2>1, <2>3, GroupTidy DEF PlainTidy, PlainStates, GroupStates, PlainOnUpdate, PlainHook
  <1> QED BY <1>1, <1>2 DEF PlainDescs

LEMMA IndexTidy ==
  ASSUME NEW d \in IndexDescs
  PROVE  /\ Tidy(d, Empty(d))
         /\ \A jx \in IndexStates(d), u \in UpdatesOf(Value) : Tidy(d, jx) =>
              Tidy(d, OnUpdate(d, jx, u).ix) /\ Tidy(d, Hook(d, jx, u).ix)
  <1>1. CASE d.kind # "zip"
    BY <1>1, IndexKind, PlainTidyLaw DEF Tidy, Empty, IndexStates, OnUpdate, Hook
  <1>2. CASE d.kind = "zip"
    <2> DEFINE n == Len(d.parts)
    <2>1. n \in Nat /\ \A j \in 1 .. n : d.parts[j] \in PlainDescs
      BY <1>2, IndexKind
    <2>2. Tidy(d, Empty(d))
      BY <1>2, <2>1, PlainTidyLaw DEF Tidy, Empty
    <2>3. ASSUME NEW jx, Tidy(d, jx), NEW r,
                 \A j \in 1 .. n : PlainTidy(d.parts[j], r[j].ix)
          PROVE  Tidy(d, ZipOutcome(n, jx, r).ix)
      <3> DEFINE z == ZipOutcome(n, jx, r)
      <3>1. /\ z.ix = [j \in 1 .. n |-> z.ix[j]]
            /\ \A j \in 1 .. n : z.ix[j] = r[j].ix \/ z.ix[j] = jx[j]
            /\ z.exn = "none" => \A j \in 1 .. n : r[j].exn = "none" /\ z.ix[j] = r[j].ix
            /\ z.exn # "none" => \E j \in 1 .. n : r[j].exn # "none" /\ z.exn = r[j].exn
        BY <2>1, ZipOutcomeLaw
      <3> HIDE DEF z
      <3>2. \A j \in 1 .. n : PlainTidy(d.parts[j], jx[j])
        BY <1>2, <2>3 DEF Tidy
      <3>3. \A j \in 1 .. n : PlainTidy(d.parts[j], z.ix[j])
        BY <2>3, <3>1, <3>2
      <3> QED BY <1>2, <3>3 DEF Tidy, z
    <2>4. ASSUME NEW jx \in IndexStates(d), NEW u \in UpdatesOf(Value), Tidy(d, jx)
          PROVE  Tidy(d, OnUpdate(d, jx, u).ix) /\ Tidy(d, Hook(d, jx, u).ix)
      <3> DEFINE a == [j \in 1 .. n |-> PlainOnUpdate(d.parts[j], jx[j], u)]
                 b == [j \in 1 .. n |-> PlainHook(d.parts[j], jx[j], u)]
      <3>1. \A j \in 1 .. n : jx[j] \in PlainStates(d.parts[j]) /\ PlainTidy(d.parts[j], jx[j])
        BY <1>2, <2>4, ZipState DEF IndexStates, Tidy
      <3>2. \A j \in 1 .. n : PlainTidy(d.parts[j], a[j].ix)
        BY <2>1, <3>1, PlainTidyLaw
      <3>3. \A j \in 1 .. n : PlainTidy(d.parts[j], b[j].ix)
        BY <2>1, <3>1, PlainTidyLaw
      <3>4. OnUpdate(d, jx, u) = ZipOutcome(n, jx, a) /\ Hook(d, jx, u) = ZipOutcome(n, jx, b)
        BY <1>2 DEF OnUpdate, Hook, ZipOnUpdate, ZipHook
      <3> HIDE DEF a, b, n
      <3> QED BY <2>3, <2>4, <3>2, <3>3, <3>4
    <2> QED BY <2>2, <2>4
  <1> QED BY <1>1, <1>2

-----------------------------------------------------------------------------
(* The index under construction is tidy too. *)
TidyInv == NoEmptyBuckets /\ (phase = "build" => Tidy(building.desc, building.made))

(* Whatever has gone wrong before (a mutation given up halfway, a reused   *)
(* id, a TypeError in a commit hook), no hash or btree index of the        *)
(* collection keeps an entry with an empty bucket.                         *)
THEOREM NoEmptyBucketsCorrect == Spec => []NoEmptyBuckets
  <1>1. Init => TidyInv
    <2> SUFFICES ASSUME Init PROVE TidyInv
      OBVIOUS
    <2>1. Len(indexes) = 0 /\ phase = "idle"
      BY DEF Init
    <2>2. 1 .. Len(indexes) = {}
      BY <2>1
    <2> QED BY <2>1, <2>2 DEF TidyInv, NoEmptyBuckets
  <1>2. TypeOK /\ TidyInv /\ [Next]_vars => TidyInv'
    <2> SUFFICES ASSUME TypeOK, TidyInv, [Next]_vars PROVE TidyInv'
      OBVIOUS
    <2>1. CASE PrepareStep \/ CommitStep
      <3> DEFINE r == IF phase = "prepare" THEN OnUpdate(indexes[pos], ix[pos], update)
                                           ELSE Hook(indexes[pos], ix[pos], update)
      <3>1. /\ phase \in {"prepare", "commit"} /\ pos \in 1 .. Len(indexes)
            /\ update \in UpdatesOf(Value) /\ ix = [j \in 1 .. Len(indexes) |-> ix[j]]
        BY <2>1 DEF TypeOK, PrepareStep, CommitStep
      <3>2. Tidy(indexes[pos], r.ix)
        BY <3>1, DescType, IndexTidy DEF TidyInv, NoEmptyBuckets
      <3>3. ix' = [ix EXCEPT ![pos] = r.ix] /\ indexes' = indexes /\ phase' # "build"
        BY <2>1 DEF PrepareStep, CommitStep, GiveUp
      <3> HIDE DEF r
      <3>4. \A j \in 1 .. Len(indexes) : ix'[j] = IF j = pos THEN r.ix ELSE ix[j]
        BY <3>1, <3>3
      <3> QED BY <3>2, <3>3, <3>4 DEF TidyInv, NoEmptyBuckets
    <2>2. ASSUME NEW id \in Ids, BuildStep(id) PROVE TidyInv'
      <3> DEFINE add == AddUpdate(id, store[id])
                 asked == OnUpdate(building.desc, building.made, add)
                 r == IF asked.exn = "none" THEN Hook(building.desc, asked.ix, add)
                                            ELSE asked
      <3>1. phase = "build" /\ id \in building.todo /\ UNCHANGED <<indexes, ix>>
        BY <2>2 DEF BuildStep
      <3>2. building \in [desc : Descs, made : IndexStates(building.desc),
                          todo : SUBSET Occupied(store)]
        BY <3>1 DEF TypeOK
      <3>3. /\ building.desc \in IndexDescs
            /\ building.made \in IndexStates(building.desc) /\ store[id] \in Value
        BY <3>1, <3>2, DescsAssumption DEF TypeOK, Occupied, Stores
      <3>4. add \in UpdatesOf(Value)
        BY <3>3, UpdateTypes
      <3> HIDE DEF add
      <3>5. asked.ix \in IndexStates(building.desc) /\ Tidy(building.desc, asked.ix)
        BY <3>1, <3>3, <3>4, IndexType, IndexTidy DEF TidyInv
      <3>6. Tidy(building.desc, r.ix)
        BY <3>3, <3>4, <3>5, IndexTidy
      <3>7. \/ building' = [building EXCEPT !.made = r.ix, !.todo = @ \ {id}]
            \/ phase' = "idle"
        BY <2>2 DEF BuildStep, add
      <3> HIDE DEF r
      <3>8. phase' = "build" => building'.desc = building.desc /\ building'.made = r.ix
        BY <3>2, <3>7
      <3> QED BY <3>1, <3>6, <3>8 DEF TidyInv, NoEmptyBuckets
    <2>3. CASE BuildDone
      <3>1. /\ phase = "build" /\ phase' = "idle"
            /\ indexes' = Append(indexes, building.desc)
        BY <2>3 DEF BuildDone
      <3>2. /\ Len(indexes) \in Nat /\ Len(indexes') = Len(indexes) + 1
            /\ \A j \in 1 .. Len(indexes') :
                 indexes'[j] = IF j <= Len(indexes) THEN indexes[j] ELSE building.desc
        BY <3>1 DEF TypeOK
      <3>3. \A j \in 1 .. Len(indexes') :
              ix'[j] = IF j <= Len(indexes) THEN ix[j] ELSE building.made
        BY <2>3, <3>2 DEF BuildDone
      <3> QED BY <3>1, <3>2, <3>3 DEF TidyInv, NoEmptyBuckets
    <2>4. ASSUME NEW desc \in Descs, RegisterIndex(desc) PROVE TidyInv'
      <3>1. /\ UNCHANGED <<indexes, ix>>
            /\ building'.desc = desc /\ building'.made = Empty(desc)
        BY <2>4 DEF RegisterIndex
      <3>2. Tidy(desc, Empty(desc))
        BY DescsAssumption, IndexTidy
      <3> QED BY <3>1, <3>2 DEF TidyInv, NoEmptyBuckets
    <2>5. ASSUME UNCHANGED <<indexes, ix>>, phase' # "build" PROVE TidyInv'
      BY <2>5 DEF TidyInv, NoEmptyBuckets
    <2>6. CASE PrepareDone \/ CommitDone \/ AlterThrow
      BY <2>5, <2>6 DEF PrepareDone, CommitDone, AlterThrow, indexVars
    <2>7. CASE \/ \E value \in Value : Add(value)
               \/ \E id \in Ids : Delete(id)
               \/ \E id \in Ids, value \in Value : Set(id, value)
               \/ \E id \in Ids, adjust \in BOOLEAN : Alter(id, adjust)
               \/ \E post \in Value \cup {Undefined} : AlterReturn(post)
      BY <2>5, <2>7 DEF Add, Delete, DeleteExisting, Set, SetTo, Alter, AlterReturn,
                        Propagate, indexVars
    <2>8. CASE UNCHANGED vars
      BY <2>8 DEF TidyInv, NoEmptyBuckets, vars
    <2> QED BY <2>1, <2>2, <2>3, <2>4, <2>6, <2>7, <2>8 DEF Next, Step, Call
  <1>3. TidyInv => NoEmptyBuckets
    BY DEF TidyInv
  <1> QED BY <1>1, <1>2, <1>3, TypeCorrect, PTL DEF Spec
-----------------------------------------------------------------------------
(* What an update does to one id in the buckets of hashIndex and           *)
(* btreeIndex, whatever has become of the others.                          *)

Before(u) == IF u.type = "ADD" THEN Absent ELSE u.old

After(u) == IF u.type = "DELETE" THEN Absent ELSE u.new

Buckets == [Key -> (SUBSET Ids) \cup {Absent}]

(* The one key i is filed under is p, or none if p is Absent. *)
FiledAt(h, i, p) == \A k \in Key : (h[k] # Absent /\ i \in h[k]) <=> p = k

(* Adding and deleting one id under one key. *)
LEMMA BucketAdd ==
  ASSUME NEW h \in Buckets, NEW x \in Ids, NEW l \in Key, NEW i \in Ids, NEW k \in Key
  PROVE  /\ HashAdd(h, x, l) \in Buckets /\ BTreeAdd(h, x, l) = HashAdd(h, x, l)
         /\ (HashAdd(h, x, l)[k] # Absent /\ i \in HashAdd(h, x, l)[k])
              <=> (h[k] # Absent /\ i \in h[k]) \/ (i = x /\ k = l)
  <1>1. Absent \notin SUBSET Ids
    BY AbsentAssumption
  <1>2. /\ HashAdd(h, x, l) \in Buckets /\ BTreeAdd(h, x, l) = HashAdd(h, x, l)
        /\ HashAdd(h, x, l)[k] =
             IF k = l THEN IF h[l] = Absent THEN {x} ELSE h[l] \cup {x} ELSE h[k]
    BY DEF Buckets, HashAdd, BTreeAdd
  <1>3. h[l] # Absent => h[l] \subseteq Ids
    BY DEF Buckets
  <1>4. (HashAdd(h, x, l)[k] # Absent /\ i \in HashAdd(h, x, l)[k])
          <=> (h[k] # Absent /\ i \in h[k]) \/ (i = x /\ k = l)
    BY <1>1, <1>2, <1>3
  <1> QED BY <1>2, <1>4

LEMMA BucketDelete ==
  ASSUME NEW h \in Buckets, NEW x \in Ids, NEW l \in Key, NEW i \in Ids, NEW k \in Key
  PROVE  /\ BTreeDelete(h, x, l) \in Buckets
         /\ h[l] # Absent => HashDelete(h, x, l) = BTreeDelete(h, x, l)
         /\ (BTreeDelete(h, x, l)[k] # Absent /\ i \in BTreeDelete(h, x, l)[k])
              <=> (h[k] # Absent /\ i \in h[k]) /\ ~ (i = x /\ k = l)
  <1>1. Absent \notin SUBSET Ids
    BY AbsentAssumption
  <1>2. /\ BTreeDelete(h, x, l) \in Buckets
        /\ BTreeDelete(h, x, l)[k] =
             IF k = l THEN IF h[l] = Absent \/ h[l] \ {x} = {} THEN Absent ELSE h[l] \ {x}
                      ELSE h[k]
        /\ h[l] # Absent => HashDelete(h, x, l) = BTreeDelete(h, x, l)
    BY DEF Buckets, HashDelete, BTreeDelete
  <1>3. h[l] # Absent => h[l] \subseteq Ids
    BY DEF Buckets
  <1>4. (BTreeDelete(h, x, l)[k] # Absent /\ i \in BTreeDelete(h, x, l)[k])
          <=> (h[k] # Absent /\ i \in h[k]) /\ ~ (i = x /\ k = l)
    BY <1>1, <1>2, <1>3
  <1> QED BY <1>2, <1>4

(* A hook files the id of its update where that says, if the id was where  *)
(* it says, and leaves every other id alone, whether it throws or not.     *)
LEMMA BucketHookLaw ==
  ASSUME NEW h \in Buckets, NEW u \in UpdatesOf(Key), NEW i \in Ids,
         NEW p \in Key \cup {Absent}, FiledAt(h, i, p),
         NEW r \in {HashHook(h, u), BTreeHook(h, u)}
  PROVE  /\ i # u.id => FiledAt(r.ix, i, p)
         /\ i = u.id /\ r.exn = "none" /\ p = Before(u) => FiledAt(r.ix, i, After(u))
  <1> DEFINE del == BTreeDelete(h, u.id, u.old)
  <1>1. u.id \in Ids /\ Absent \notin Key
    BY UpdateCases, AbsentAssumption
  <1>2. CASE u.type = "ADD"
    <2>1. u.new \in Key
      BY <1>2, UpdateCases
    <2>2. r.ix = HashAdd(h, u.id, u.new)
      BY <1>1, <1>2, <2>1, BucketAdd DEF HashHook, BTreeHook, Done
    <2>3. \A k \in Key : (r.ix[k] # Absent /\ i \in r.ix[k])
                           <=> p = k \/ (i = u.id /\ k = u.new)
      BY <1>1, <2>1, <2>2, BucketAdd DEF FiledAt
    <2> HIDE DEF FiledAt
    <2> QED BY <1>1, <1>2, <2>1, <2>3 DEF FiledAt, Before, After
  <1>3. CASE u.type # "ADD" /\ r = Thrown("TypeError", h)
    BY <1>3 DEF Thrown
  <1>4. CASE u.type = "DELETE" /\ r # Thrown("TypeError", h)
    <2>1. u.old \in Key
      BY <1>4, UpdateCases
    <2>2. r.ix = del
      BY <1>1, <1>4, <2>1, BucketDelete DEF HashHook, BTreeHook, Done
    <2> HIDE DEF del
    <2>3. \A k \in Key : (r.ix[k] # Absent /\ i \in r.ix[k])
                           <=> p = k /\ ~ (i = u.id /\ k = u.old)
      BY <1>1, <2>1, <2>2, BucketDelete DEF FiledAt, del
    <2> QED BY <1>1, <1>4, <2>1, <2>3 DEF FiledAt, Before, After
  <1>5. CASE u.type = "UPDATE" /\ r # Thrown("TypeError", h)
    <2>1. u.old \in Key /\ u.new \in Key
      BY <1>5, UpdateCases
    <2>2. del \in Buckets /\ \A k \in Key : (del[k] # Absent /\ i \in del[k])
                                <=> p = k /\ ~ (i = u.id /\ k = u.old)
      <3>1. del \in Buckets
        BY <1>1, <2>1, BucketDelete
      <3>2. ASSUME NEW k \in Key
            PROVE  (del[k] # Absent /\ i \in del[k]) <=> p = k /\ ~ (i = u.id /\ k = u.old)
        <4>1. (del[k] # Absent /\ i \in del[k])
                <=> (h[k] # Absent /\ i \in h[k]) /\ ~ (i = u.id /\ k = u.old)
          BY <1>1, <2>1, BucketDelete
        <4> HIDE DEF del
        <4> QED BY <4>1 DEF FiledAt
      <3> HIDE DEF del
      <3> QED BY <3>1, <3>2
    <2>3. r.ix = HashAdd(del, u.id, u.new) \/ (r.ix = h /\ u.old = u.new)
      <3>1. BTreeAdd(del, u.id, u.new) = HashAdd(del, u.id, u.new)
        BY <1>1, <2>1, <2>2, BucketAdd
      <3>2. h[u.old] # Absent => HashDelete(h, u.id, u.old) = del
        BY <1>1, <2>1, BucketDelete
      <3> HIDE DEF del
      <3> QED BY <1>5, <3>1, <3>2 DEF HashHook, BTreeHook, BTreeUpdate, Done, del
    <2>4. CASE r.ix = HashAdd(del, u.id, u.new)
      <3> HIDE DEF del
      <3>1. \A k \in Key : (r.ix[k] # Absent /\ i \in r.ix[k])
                             <=> (p = k /\ ~ (i = u.id /\ k = u.old)) \/ (i = u.id /\ k = u.new)
        <4> TAKE k \in Key
        <4>1. del \in Buckets
          BY <2>2
        <4>2. \A e \in Buckets :
                (HashAdd(e, u.id, u.new)[k] # Absent /\ i \in HashAdd(e, u.id, u.new)[k])
                  <=> (e[k] # Absent /\ i \in e[k]) \/ (i = u.id /\ k = u.new)
          <5> TAKE e \in Buckets
          <5> QED BY <1>1, <2>1, BucketAdd
        <4> QED BY <2>2, <2>4, <4>1, <4>2
      <3> QED BY <1>1, <1>5, <2>1, <3>1 DEF FiledAt, Before, After
    <2>5. CASE r.ix = h /\ u.old = u.new
      BY <1>5, <2>5 DEF Before, After
    <2> QED BY <2>3, <2>4, <2>5
  <1> QED BY <1>2, <1>3, <1>4, <1>5, UpdateCases

LEMMA MappedUpdate ==
  ASSUME NEW d \in LeafDescs, NEW u \in UpdatesOf(Value), NEW w,
         w = filterMapUpdate(d.f, u), w.type # "NONE"
  PROVE  w \in UpdatesOf(Key) /\ w.id = u.id
  <1> DEFINE f == d.f
  <1>1. f \in [Value -> Key \cup {Undefined}] /\ w = filterMapUpdate(f, u)
    BY DEF LeafDescs
  <1> HIDE DEF f
  <1> QED BY <1>1, FilterMapType

LEMMA LeafFilesLaw ==
  ASSUME NEW d \in LeafDescs, NEW jx \in LeafStates(d), NEW u \in UpdatesOf(Value),
         NEW i \in Ids, NEW v \in Value \cup {Absent}, LeafFiles(d, jx, i, v)
  PROVE  LET r == LeafHook(d, jx, u)
         IN  /\ i # u.id => LeafFiles(d, r.ix, i, v)
             /\ i = u.id /\ r.exn = "none" /\ v = Before(u) => LeafFiles(d, r.ix, i, After(u))
  <1> SUFFICES ASSUME d.kind \in {"hash", "btree"}
               PROVE  LET r == LeafHook(d, jx, u)
                      IN  /\ i # u.id => LeafFiles(d, r.ix, i, v)
                          /\ i = u.id /\ r.exn = "none" /\ v = Before(u)
                               => LeafFiles(d, r.ix, i, After(u))
    BY DEF LeafFiles
  <1> DEFINE r == LeafHook(d, jx, u)
             w == filterMapUpdate(d.f, u)
             key(x) == IF x = Absent \/ d.f[x] = Undefined THEN Absent ELSE d.f[x]
  <1>1. d.f \in [Value -> Key \cup {Undefined}] /\ jx \in Buckets
    BY DEF LeafDescs, LeafStates, HashStates, BTreeStates, Buckets
  <1>2. Absent \notin Value /\ Absent \notin Key /\ Undefined \notin Key /\ Absent # Undefined
    BY AbsentAssumption, KeyAssumption
  <1>3. /\ \A x \in Value \cup {Absent} : key(x) \in Key \cup {Absent}
        /\ \A x \in Value \cup {Absent}, k \in Key : key(x) = k <=> x # Absent /\ d.f[x] = k
    BY <1>1, <1>2
  <1>4. \A x \in Value \cup {Absent} : \A h : LeafFiles(d, h, i, x) <=> FiledAt(h, i, key(x))
    <2> TAKE x \in Value \cup {Absent}
    <2> TAKE h
    <2>1. \A k \in Key : key(x) = k <=> x # Absent /\ d.f[x] = k
      BY <1>3
    <2> HIDE DEF key
    <2> QED BY <2>1 DEF LeafFiles, FiledAt
  <1>5. Before(u) \in Value \cup {Absent} /\ After(u) \in Value \cup {Absent}
    BY UpdateCases DEF Before, After
  <1>6. CASE w.type = "NONE"
    <2>1. r.ix = jx
      BY <1>6 DEF LeafHook, Done
    <2>2. key(Before(u)) = key(After(u))
      BY <1>1, <1>2, <1>6, UpdateCases
         DEF filterMapUpdate, Before, After, AddUpdate, UpdateUpdate, DeleteUpdate
    <2> HIDE DEF key, r
    <2> QED BY <1>4, <1>5, <2>1, <2>2 DEF r
  <1>7. CASE w.type # "NONE"
    <2>1. w \in UpdatesOf(Key) /\ w.id = u.id
      <3>1. w = filterMapUpdate(d.f, u)
        OBVIOUS
      <3> HIDE DEF w
      <3> QED BY <1>7, <3>1, MappedUpdate
    <2>2. Before(w) = key(Before(u)) /\ After(w) = key(After(u))
      <3>1. CASE u.type = "ADD"
        BY <1>1, <1>2, <1>7, <3>1, UpdateCases
           DEF filterMapUpdate, Before, After, AddUpdate, NoUpdate
      <3>2. CASE u.type = "DELETE"
        BY <1>1, <1>2, <1>7, <3>2, UpdateCases
           DEF filterMapUpdate, Before, After, DeleteUpdate, NoUpdate
      <3>3. CASE u.type = "UPDATE"
        BY <1>1, <1>2, <1>7, <3>3, UpdateCases
           DEF filterMapUpdate, Before, After, AddUpdate, UpdateUpdate, DeleteUpdate, NoUpdate
      <3> QED BY <3>1, <3>2, <3>3, UpdateCases
    <2>3. r \in {HashHook(jx, w), BTreeHook(jx, w)}
      BY <1>7 DEF LeafHook
    <2>4. FiledAt(jx, i, key(v)) /\ key(v) \in Key \cup {Absent}
      BY <1>3, <1>4
    <2> HIDE DEF key, r, w
    <2>5. /\ i # w.id => FiledAt(r.ix, i, key(v))
          /\ i = w.id /\ r.exn = "none" /\ key(v) = Before(w) => FiledAt(r.ix, i, After(w))
      BY <1>1, <2>1, <2>3, <2>4, BucketHookLaw
    <2> QED BY <1>4, <1>5, <2>1, <2>2, <2>5 DEF r
  <1> QED BY <1>6, <1>7

(* The inner index of one group replaced. *)
LEMMA GroupPut ==
  ASSUME NEW d, NEW jx \in GroupStates(d), NEW g \in Group, NEW lx \in LeafStates(d.inner),
         NEW kx, kx = [jx EXCEPT !.ixs[g] = lx]
  PROVE  /\ kx \in GroupStates(d)
         /\ \A h \in Group : kx.ixs[h] = IF h = g THEN lx ELSE jx.ixs[h]
  BY DEF GroupStates

LEMMA GroupFilesLaw ==
  ASSUME NEW d \in GroupDescs, NEW jx \in GroupStates(d), NEW u \in UpdatesOf(Value),
         NEW i \in Ids, NEW v \in Value \cup {Absent}, PlainFiles(d, jx, i, v)
  PROVE  LET r == GroupHook(d, jx, u)
         IN  /\ PlainFiles(d, GroupOnUpdate(d, jx, u).ix, i, v)
             /\ i # u.id => PlainFiles(d, r.ix, i, v)
             /\ i = u.id /\ r.exn = "none" /\ v = Before(u) => PlainFiles(d, r.ix, i, After(u))
  <1> DEFINE r == GroupHook(d, jx, u)
             in(g, x) == IF x # Absent /\ d.by[x] = g THEN x ELSE Absent
  <1>1. d.kind = "group" /\ d.by \in [Value -> Group] /\ d.inner \in LeafDescs
    BY DEF GroupDescs
  <1>2. jx.live \in SUBSET Group /\ jx.ixs \in [Group -> LeafStates(d.inner)]
    BY DEF GroupStates
  <1>3. \A x, h : PlainFiles(d, h, i, x) <=>
                    \A g \in Group : LeafFiles(d.inner, h.ixs[g], i, in(g, x))
    BY <1>1 DEF PlainFiles
  <1>4. \A g : \A x \in Value \cup {Absent} : in(g, x) \in Value \cup {Absent}
    OBVIOUS
  <1>5. GroupOnUpdate(d, jx, u).ix.ixs = jx.ixs
    <2>1. \A g : [jx EXCEPT !.live = @ \cup {g}].ixs = jx.ixs
      BY DEF GroupStates
    <2> QED BY <2>1, UpdateCases DEF GroupOnUpdate, Done, Thrown
  <1>6. PlainFiles(d, GroupOnUpdate(d, jx, u).ix, i, v)
    <2> HIDE DEF in
    <2> QED BY <1>3, <1>5
  <1>7. ASSUME NEW kx \in GroupStates(d), NEW g \in Group, NEW lx \in LeafStates(d.inner)
        PROVE  /\ [kx EXCEPT !.ixs[g] = lx] \in GroupStates(d)
               /\ \A h \in Group :
                    [kx EXCEPT !.ixs[g] = lx].ixs[h] = IF h = g THEN lx ELSE kx.ixs[h]
    BY DEF GroupStates
  <1>8. Absent \notin Value
    BY AbsentAssumption
  <1>9. \A g \in Group : LeafFiles(d.inner, jx.ixs[g], i, in(g, v))
    BY <1>3
  <1>10. CASE u.type = "UPDATE" /\ d.by[u.old] # d.by[u.new]
    <2> DEFINE old == d.by[u.old]
               new == d.by[u.new]
               del == DeleteUpdate(u.id, u.old)
               add == AddUpdate(u.id, u.new)
               gone == LeafHook(d.inner, jx.ixs[old], del)
               left == [jx EXCEPT !.ixs[old] = gone.ix]
               came == LeafHook(d.inner, jx.ixs[new], add)
               both == [left EXCEPT !.ixs[new] = came.ix]
    <2>1. /\ old \in Group /\ new \in Group /\ old # new
          /\ del \in UpdatesOf(Value) /\ add \in UpdatesOf(Value)
          /\ u.old \in Value /\ u.new \in Value /\ u.id \in Ids
      BY <1>1, <1>10, UpdateCases, UpdateTypes
    <2>2. /\ del.id = u.id /\ Before(del) = u.old /\ After(del) = Absent
          /\ add.id = u.id /\ Before(add) = Absent /\ After(add) = u.new
          /\ Before(u) = u.old /\ After(u) = u.new
      BY <1>10 DEF Before, After, DeleteUpdate, AddUpdate
    <2>3. /\ r.ix \in {jx, left, both}
          /\ r.exn = "none" => r.ix = both /\ gone.exn = "none" /\ came.exn = "none"
      BY <1>10 DEF GroupHook, GroupMoveHook, Thrown
    <2>4. \A g \in Group : /\ in(g, u.old) = IF g = old THEN u.old ELSE Absent
                           /\ in(g, u.new) = IF g = new THEN u.new ELSE Absent
      BY <1>8, <2>1
    <2> HIDE DEF del, add, old, new, in, r
    <2>5. /\ gone.ix \in LeafStates(d.inner) /\ came.ix \in LeafStates(d.inner)
          /\ jx.ixs[old] \in LeafStates(d.inner) /\ jx.ixs[new] \in LeafStates(d.inner)
      BY <1>1, <1>2, <2>1, LeafType
    <2>6. /\ i # u.id => LeafFiles(d.inner, gone.ix, i, in(old, v))
          /\ i = u.id /\ gone.exn = "none" /\ in(old, v) = u.old
               => LeafFiles(d.inner, gone.ix, i, Absent)
      <3>1. in(old, v) \in Value \cup {Absent} /\ LeafFiles(d.inner, jx.ixs[old], i, in(old, v))
        BY <1>4, <1>9, <2>1
      <3> QED BY <1>1, <2>1, <2>2, <2>5, <3>1, LeafFilesLaw
    <2>7. /\ i # u.id => LeafFiles(d.inner, came.ix, i, in(new, v))
          /\ i = u.id /\ came.exn = "none" /\ in(new, v) = Absent
               => LeafFiles(d.inner, came.ix, i, u.new)
      <3>1. in(new, v) \in Value \cup {Absent} /\ LeafFiles(d.inner, jx.ixs[new], i, in(new, v))
        BY <1>4, <1>9, <2>1
      <3> QED BY <1>1, <2>1, <2>2, <2>5, <3>1, LeafFilesLaw
    <2> HIDE DEF gone, came
    <2>8. /\ left \in GroupStates(d)
          /\ \A g \in Group : left.ixs[g] = IF g = old THEN gone.ix ELSE jx.ixs[g]
      BY <1>7, <2>1, <2>5
    <2> HIDE DEF left
    <2>9. \A g \in Group : both.ixs[g] = IF g = new THEN came.ix
                                         ELSE IF g = old THEN gone.ix ELSE jx.ixs[g]
      <3>1. both = [left EXCEPT !.ixs[new] = came.ix]
        OBVIOUS
      <3> HIDE DEF both
      <3>2. \A g \in Group : both.ixs[g] = IF g = new THEN came.ix ELSE left.ixs[g]
        BY <2>1, <2>5, <2>8, <3>1, GroupPut
      <3> QED BY <2>8, <3>2
    <2> HIDE DEF both
    <2>10. i # u.id => \A g \in Group : LeafFiles(d.inner, r.ix.ixs[g], i, in(g, v))
      BY <1>9, <2>3, <2>6, <2>7, <2>8, <2>9
    <2>11. ASSUME i = u.id, r.exn = "none", v = u.old, NEW g \in Group
           PROVE  LeafFiles(d.inner, r.ix.ixs[g], i, in(g, u.new))
      <3>1. r.ix = both /\ gone.exn = "none" /\ came.exn = "none"
        BY <2>3, <2>11
      <3>2. CASE g = new
        BY <2>1, <2>4, <2>7, <2>9, <2>11, <3>1, <3>2
      <3>3. CASE g = old
        BY <2>1, <2>4, <2>6, <2>9, <2>11, <3>1, <3>3
      <3>4. CASE g # old /\ g # new
        BY <1>9, <2>4, <2>9, <2>11, <3>1, <3>4
      <3> QED BY <3>2, <3>3, <3>4
    <2> QED BY <1>3, <1>6, <2>2, <2>10, <2>11 DEF r
  <1>11. CASE ~ (u.type = "UPDATE" /\ d.by[u.old] # d.by[u.new])
    <2> DEFINE g0 == IF u.type = "ADD" THEN d.by[u.new] ELSE d.by[u.old]
               inner == LeafHook(d.inner, jx.ixs[g0], u)
    <2>1. g0 \in Group
      BY <1>1, UpdateCases
    <2>2. r.exn = inner.exn /\ r.ix = [jx EXCEPT !.ixs[g0] = inner.ix]
      BY <1>11 DEF GroupHook
    <2>3. \A g \in Group : /\ in(g, Before(u)) = IF g = g0 THEN Before(u) ELSE Absent
                           /\ in(g, After(u)) = IF g = g0 THEN After(u) ELSE Absent
      BY <1>8, <1>11, UpdateCases DEF Before, After
    <2> HIDE DEF g0, in, r
    <2>4. inner.ix \in LeafStates(d.inner) /\ jx.ixs[g0] \in LeafStates(d.inner)
      BY <1>1, <1>2, <2>1, LeafType
    <2>5. /\ i # u.id => LeafFiles(d.inner, inner.ix, i, in(g0, v))
          /\ i = u.id /\ inner.exn = "none" /\ in(g0, v) = Before(u)
               => LeafFiles(d.inner, inner.ix, i, After(u))
      <3>1. in(g0, v) \in Value \cup {Absent} /\ LeafFiles(d.inner, jx.ixs[g0], i, in(g0, v))
        BY <1>4, <1>9, <2>1
      <3> QED BY <1>1, <2>4, <3>1, LeafFilesLaw
    <2> HIDE DEF inner
    <2>6. \A g \in Group : r.ix.ixs[g] = IF g = g0 THEN inner.ix ELSE jx.ixs[g]
      BY <1>7, <2>1, <2>2, <2>4
    <2>7. i # u.id => \A g \in Group : LeafFiles(d.inner, r.ix.ixs[g], i, in(g, v))
      BY <1>9, <2>5, <2>6
    <2>8. ASSUME i = u.id, r.exn = "none", v = Before(u), NEW g \in Group
          PROVE  LeafFiles(d.inner, r.ix.ixs[g], i, in(g, After(u)))
      <3>1. CASE g = g0
        BY <2>1, <2>2, <2>3, <2>5, <2>6, <2>8, <3>1
      <3>2. CASE g # g0
        BY <1>9, <2>3, <2>6, <2>8, <3>2
      <3> QED BY <3>1, <3>2
    <2> QED BY <1>3, <1>6, <2>7, <2>8 DEF r
  <1> QED BY <1>10, <1>11

LEMMA PlainFilesLaw ==
  ASSUME NEW d \in PlainDescs, NEW jx \in PlainStates(d), NEW u \in UpdatesOf(Value),
         NEW i \in Ids, NEW v \in Value \cup {Absent}, PlainFiles(d, jx, i, v)
  PROVE  LET r == PlainHook(d, jx, u)
         IN  /\ PlainFiles(d, PlainOnUpdate(d, jx, u).ix, i, v)
             /\ i # u.id => PlainFiles(d, r.ix, i, v)
             /\ i = u.id /\ r.exn = "none" /\ v = Before(u) => PlainFiles(d, r.ix, i, After(u))
  <1>1. CASE d \in LeafDescs
    <2>1. d.kind # "group"
      BY <1>1 DEF LeafDescs, LeafKinds
    <2> QED BY <1>1, <2>1, LeafFilesLaw DEF PlainFiles, PlainStates, PlainOnUpdate, PlainHook
  <1>2. CASE d \in GroupDescs
    <2>1. d.kind = "group"
      BY <1>2 DEF GroupDescs
    <2>2. jx \in GroupStates(d)
      BY <2>1 DEF PlainStates, GroupStates
    <2> QED BY <1>2, <2>1, <2>2, GroupFilesLaw DEF PlainOnUpdate, PlainHook
  <1> QED BY <1>1, <1>2 DEF PlainDescs

(* An empty index files nothing. *)
LEMMA EmptyFiles ==
  ASSUME NEW d \in IndexDescs, NEW i \in Ids
  PROVE  Files(d, Empty(d), i, Absent)
  <1>1. ASSUME NEW e \in LeafDescs PROVE LeafFiles(e, LeafEmpty(e), i, Absent)
    BY DEF LeafFiles, LeafEmpty, HashEmpty, BTreeEmpty
  <1>2. ASSUME NEW e \in PlainDescs PROVE PlainFiles(e, PlainEmpty(e), i, Absent)
    <2>1. CASE e \in LeafDescs
      BY <1>1, <2>1 DEF PlainFiles, PlainEmpty, LeafDescs, LeafKinds
    <2>2. CASE e \in GroupDescs
      <3>1. e.kind = "group" /\ LeafFiles(e.inner, LeafEmpty(e.inner), i, Absent)
        BY <1>1, <2>2 DEF GroupDescs
      <3> QED BY <3>1 DEF PlainFiles, PlainEmpty, GroupEmpty
    <2> QED BY <2>1, <2>2 DEF PlainDescs
  <1> QED BY <1>2, IndexKind DEF Files, Empty

(* An index under any update: asking it moves nothing, its hook moves no   *)
(* id but the one of the update, and that one to its place if it was in    *)
(* its place and nothing was thrown.                                       *)
LEMMA FilesLaw ==
  ASSUME NEW d \in IndexDescs, NEW jx \in IndexStates(d), NEW u \in UpdatesOf(Value),
         NEW i \in Ids, NEW v \in Value \cup {Absent}, Files(d, jx, i, v)
  PROVE  LET r == Hook(d, jx, u)
         IN  /\ Files(d, OnUpdate(d, jx, u).ix, i, v)
             /\ i # u.id => Files(d, r.ix, i, v)
             /\ i = u.id /\ r.exn = "none" /\ v = Before(u) => Files(d, r.ix, i, After(u))
  <1>1. CASE d.kind # "zip"
    BY <1>1, IndexKind, PlainFilesLaw DEF Files, IndexStates, OnUpdate, Hook
  <1>2. CASE d.kind = "zip"
    <2> DEFINE n == Len(d.parts)
               a == [j \in 1 .. n |-> PlainOnUpdate(d.parts[j], jx[j], u)]
               b == [j \in 1 .. n |-> PlainHook(d.parts[j], jx[j], u)]
               z == ZipOutcome(n, jx, a)
               r == ZipOutcome(n, jx, b)
    <2>1. n \in Nat /\ \A j \in 1 .. n : d.parts[j] \in PlainDescs
      BY <1>2, IndexKind
    <2>2. \A j \in 1 .. n : jx[j] \in PlainStates(d.parts[j]) /\ PlainFiles(d.parts[j], jx[j], i, v)
      BY <1>2, ZipState DEF IndexStates, Files
    <2>3. OnUpdate(d, jx, u) = z /\ Hook(d, jx, u) = r
      BY <1>2 DEF OnUpdate, Hook, ZipOnUpdate, ZipHook
    <2>4. \A j \in 1 .. n :
            /\ PlainFiles(d.parts[j], a[j].ix, i, v)
            /\ i # u.id => PlainFiles(d.parts[j], b[j].ix, i, v)
            /\ i = u.id /\ b[j].exn = "none" /\ v = Before(u)
                 => PlainFiles(d.parts[j], b[j].ix, i, After(u))
      BY <2>1, <2>2, PlainFilesLaw
    <2>5. \A w, kx : (\A j \in 1 .. n : PlainFiles(d.parts[j], kx[j], i, w)) => Files(d, kx, i, w)
      BY <1>2 DEF Files
    <2> HIDE DEF n, a, b
    <2>6. /\ z = [exn |-> z.exn, ix |-> z.ix]
          /\ z.ix = [j \in 1 .. n |-> z.ix[j]]
          /\ \A j \in 1 .. n : z.ix[j] = a[j].ix \/ z.ix[j] = jx[j]
          /\ z.exn = "none" => \A j \in 1 .. n : a[j].exn = "none" /\ z.ix[j] = a[j].ix
          /\ z.exn # "none" => \E j \in 1 .. n : a[j].exn # "none" /\ z.exn = a[j].exn
      BY <2>1, ZipOutcomeLaw
    <2>7. /\ r = [exn |-> r.exn, ix |-> r.ix]
          /\ r.ix = [j \in 1 .. n |-> r.ix[j]]
          /\ \A j \in 1 .. n : r.ix[j] = b[j].ix \/ r.ix[j] = jx[j]
          /\ r.exn = "none" => \A j \in 1 .. n : b[j].exn = "none" /\ r.ix[j] = b[j].ix
          /\ r.exn # "none" => \E j \in 1 .. n : b[j].exn # "none" /\ r.exn = b[j].exn
      BY <2>1, ZipOutcomeLaw
    <2> HIDE DEF z, r
    <2>8. Files(d, z.ix, i, v)
      BY <2>2, <2>4, <2>5, <2>6
    <2>9. i # u.id => Files(d, r.ix, i, v)
      BY <2>2, <2>4, <2>5, <2>7
    <2>10. i = u.id /\ r.exn = "none" /\ v = Before(u) => Files(d, r.ix, i, After(u))
      BY <2>4, <2>5, <2>7
    <2> QED BY <2>3, <2>8, <2>9, <2>10
  <1> QED BY <1>1, <1>2
=============================================================================
