-------------------------- MODULE RefinementProofs --------------------------
(***************************************************************************)
(* Collection implements KeyedMap, for every number of ids, items, keys,   *)
(* groups and indexes.  The invariant of SyncProofs says that the indexes  *)
(* have followed when the second loop of propagateUpdate is over, and an   *)
(* index that mirrors the store holds no two items that clash.             *)
(***************************************************************************)
EXTENDS SyncProofs, Refinement

(* A mutation up to propagateUpdate has not happened yet. *)
LEMMA MutationSettled ==
  ASSUME TypeOK, phase = "idle", NEW u \in UpdatesOf(Value), Describes(u, store),
         store' = Applied(u, store), Propagate(u)
  PROVE  Settled' = Settled
  <1>1. store \in Stores(Value) /\ u.id \in Ids
    BY UpdateCases DEF TypeOK
  <1>2. Undone(u, store') = store
    BY <1>1 DEF Describes, Applied, Undone, Stores
  <1> QED BY <1>2 DEF Settled, Propagate

LEMMA SetSettled ==
  ASSUME TypeOK, Undefined \notin Value, phase = "idle", NEW id \in Ids,
         NEW v \in Value, SetTo(id, v)
  PROVE  Settled' = Settled
  <1> DEFINE u == IF GetFrom(store, id) = Undefined THEN AddUpdate(id, v)
                  ELSE UpdateUpdate(id, GetFrom(store, id), v)
  <1>1. store \in Stores(Value)
    BY DEF TypeOK
  <1>2. u \in UpdatesOf(Value)
    BY <1>1, GetFromType, UpdateTypes
  <1>3. Describes(u, store)
    BY <1>1, GetFromType DEF Describes, AddUpdate, UpdateUpdate
  <1>4. store' = Applied(u, store) /\ Propagate(u)
    BY DEF SetTo, Applied, AddUpdate, UpdateUpdate
  <1> HIDE DEF u
  <1> QED BY <1>2, <1>3, <1>4, MutationSettled

LEMMA DeleteSettled ==
  ASSUME TypeOK, phase = "idle", NEW id \in Ids, GetFrom(store, id) # Undefined,
         DeleteExisting(id)
  PROVE  Settled' = Settled
  <1> DEFINE u == DeleteUpdate(id, GetFrom(store, id))
  <1>1. store \in Stores(Value)
    BY DEF TypeOK
  <1>2. u \in UpdatesOf(Value)
    BY <1>1, GetFromType, UpdateTypes
  <1>3. Describes(u, store)
    BY <1>1, GetFromType DEF Describes, DeleteUpdate
  <1>4. store' = Applied(u, store) /\ Propagate(u)
    BY DEF DeleteExisting, Applied, DeleteUpdate
  <1> HIDE DEF u
  <1> QED BY <1>2, <1>3, <1>4, MutationSettled

(* What an index mirrors, the abstract map admits. *)
LEMMA MirroredIsAdmitted ==
  ASSUME NEW d \in Descs, NEW jx, NEW m \in Stores(Value), Mirrors(d, jx, m)
  PROVE  Map!Admitted(d, m)
  <1> SUFFICES ASSUME NEW i1 \in Ids, NEW i2 \in Ids, i1 # i2,
                      m[i1] # Absent, m[i2] # Absent
               PROVE  <<m[i1], m[i2]>> \notin Clashes[d]
    BY DEF Map!Admitted
  <1>1. ~ Clash(d, m[i1], m[i2])
    BY DescsAssumption, NoClashLaw
  <1> QED BY <1>1 DEF Clashes

(* A failure is never taken back, and only the overflow of the counter and *)
(* a refused mutation are failures.                                        *)
LEMMA FailureStep ==
  ASSUME TypeOK, [Next]_vars
  PROVE  /\ torn \subseteq torn'
         /\ wrapped => wrapped'
         /\ wrapped' # wrapped => indexes' = indexes
  <1>1. CASE PrepareStep \/ CommitStep
    <2>1. wrapped' = wrapped /\ (torn' = torn \/ torn' = torn \cup {update.id})
      BY <1>1 DEF PrepareStep, CommitStep, GiveUp
    <2> QED BY <2>1
  <1>2. CASE PrepareDone \/ CommitDone \/ BuildDone \/ \E id \in Ids : BuildStep(id)
    <2>1. UNCHANGED <<torn, wrapped>>
      BY <1>2 DEF PrepareDone, CommitDone, BuildDone, BuildStep
    <2> QED BY <2>1
  <1>3. ASSUME NEW value \in Value, Add(value)
        PROVE  (torn \subseteq torn') /\ (wrapped => wrapped') /\ indexes' = indexes
    BY <1>3 DEF Add, indexVars
  <1>4. CASE \/ \E id \in Ids : Delete(id)
             \/ \E id \in Ids, value \in Value : Set(id, value)
             \/ \E id \in Ids, adjust \in BOOLEAN : Alter(id, adjust)
             \/ \E post \in Value \cup {Undefined} : AlterReturn(post)
             \/ AlterThrow
             \/ \E desc \in Descs : RegisterIndex(desc)
    <2>1. UNCHANGED <<torn, wrapped>>
      BY <1>4 DEF Delete, Set, Alter, AlterReturn, AlterThrow, RegisterIndex
    <2> QED BY <2>1
  <1>5. CASE UNCHANGED vars
    BY <1>5 DEF vars
  <1> QED BY <1>1, <1>2, <1>3, <1>4, <1>5 DEF Next, Step, Call

(* A step of an intact collection that leaves it intact. *)
LEMMA IntactStep ==
  ASSUME SyncInv, Undefined \notin Value, [Next]_vars,
         Intact, Intact'
  PROVE  \/ UNCHANGED <<Settled, indexes>>
         \/ \E id \in Ids, new \in Value \cup {Absent} :
              /\ Settled' = [Settled EXCEPT ![id] = new]
              /\ \A j \in 1 .. Len(indexes) : Map!Admitted(indexes[j], Settled')
              /\ indexes' = indexes
         \/ \E d \in Descs : /\ Map!Admitted(d, Settled)
                             /\ indexes' = Append(indexes, d)
                             /\ Settled' = Settled
  <1>0. TypeOK /\ StoreInv /\ Sync /\ store \in Stores(Value)
    BY DEF SyncInv, StoreInv, TypeOK
  <1>1. ASSUME UNCHANGED <<store, indexes>>, phase' \in {"prepare", "commit"} => update' = update,
               phase \in {"prepare", "commit"} <=> phase' \in {"prepare", "commit"}
        PROVE  UNCHANGED <<Settled, indexes>>
    BY <1>1 DEF Settled
  <1>2. CASE PrepareStep \/ CommitStep
    <2>1. UNCHANGED <<store, indexes, phase, update>>
      BY <1>2 DEF PrepareStep, CommitStep, GiveUp, Intact
    <2> QED BY <1>1, <2>1
  <1>3. CASE PrepareDone
    BY <1>1, <1>3 DEF PrepareDone, indexVars
  <1>4. CASE CommitDone
    <2>1. /\ phase = "commit" /\ pos > Len(indexes) /\ phase' = "idle"
          /\ UNCHANGED <<store, indexes>>
      BY <1>4 DEF CommitDone, indexVars
    <2>2. /\ update \in UpdatesOf(Value) /\ pos \in Nat /\ Len(indexes) \in Nat
          /\ \A j \in 1 .. Len(indexes) : indexes[j] \in Descs
      BY <1>0, <2>1 DEF TypeOK
    <2>3. Settled' = Applied(update, Settled)
      BY <1>0, <2>1, UndoneLaw DEF Settled
    <2>4. \A j \in 1 .. Len(indexes) : Mirrors(indexes[j], ix[j], store)
      BY <1>0, <2>1, <2>2 DEF Sync, Expected
    <2>5. \A j \in 1 .. Len(indexes) : Map!Admitted(indexes[j], store)
      BY <1>0, <2>2, <2>4, MirroredIsAdmitted
    <2>6. Settled' = store
      BY <2>1 DEF Settled
    <2>7. /\ update.id \in Ids
          /\ (IF update.type = "DELETE" THEN Absent ELSE update.new) \in Value \cup {Absent}
      BY <2>2, UpdateCases
    <2> QED BY <2>1, <2>3, <2>5, <2>6, <2>7 DEF Applied
  <1>5. ASSUME NEW id \in Ids, BuildStep(id) PROVE UNCHANGED <<Settled, indexes>>
    BY <1>1, <1>5 DEF BuildStep
  <1>6. CASE BuildDone
    <2>1. /\ phase = "build" /\ phase' = "idle" /\ building.todo = {} /\ store' = store
          /\ indexes' = Append(indexes, building.desc)
      BY <1>6 DEF BuildDone
    <2>2. building.desc \in Descs
      BY <1>0, <2>1 DEF TypeOK
    <2>3. Visited = store
      BY <1>0, <2>1 DEF Visited, Stores
    <2>4. Map!Admitted(building.desc, store)
      BY <1>0, <2>1, <2>2, <2>3, MirroredIsAdmitted DEF Sync
    <2>5. Settled = store /\ Settled' = store
      BY <2>1 DEF Settled
    <2> QED BY <2>1, <2>2, <2>4, <2>5
  <1>7. ASSUME NEW value \in Value, Add(value) PROVE UNCHANGED <<Settled, indexes>>
    <2> DEFINE u == AddUpdate(newId, value)
    <2>1. newId \in Ids /\ (newId # 0 => newId = last + 1) /\ last \in Ids
      BY newIdType, <1>0 DEF TypeOK
    <2>2. u \in UpdatesOf(Value)
      BY <2>1, UpdateTypes
    <2>3. newId = last + 1
      BY <1>7, <2>1 DEF Add, Intact
    <2>4. store[newId] = Absent
      BY <1>0, <2>1, <2>3 DEF StoreInv, IdsBelowLast, Ids, Occupied, Intact
    <2>5. Describes(u, store)
      BY <2>4 DEF Describes, AddUpdate
    <2>6. /\ phase = "idle" /\ store' = Applied(u, store) /\ Propagate(u)
          /\ indexes' = indexes
      BY <1>7 DEF Add, Applied, AddUpdate, indexVars
    <2> HIDE DEF u
    <2> QED BY <1>0, <2>2, <2>5, <2>6, MutationSettled
  <1>8. ASSUME NEW id \in Ids, Delete(id) PROVE UNCHANGED <<Settled, indexes>>
    BY <1>0, <1>8, DeleteSettled DEF Delete, indexVars
  <1>9. ASSUME NEW id \in Ids, NEW value \in Value, Set(id, value)
        PROVE  UNCHANGED <<Settled, indexes>>
    BY <1>0, <1>9, SetSettled DEF Set, indexVars
  <1>10. ASSUME NEW id \in Ids, NEW adjust \in BOOLEAN, Alter(id, adjust)
         PROVE  UNCHANGED <<Settled, indexes>>
    <2>1. CASE Truthy(GetFrom(store, id))
      BY <1>0, <1>10, <2>1, DeleteSettled DEF Alter, Truthy, indexVars
    <2>2. CASE ~ Truthy(GetFrom(store, id))
      BY <1>1, <1>10, <2>2 DEF Alter, indexVars
    <2> QED BY <2>1, <2>2
  <1>11. ASSUME NEW post \in Value \cup {Undefined}, AlterReturn(post)
         PROVE  UNCHANGED <<Settled, indexes>>
    <2>1. CASE Truthy(post)
      <3>1. TopFrame.id \in Ids
        BY <1>0, <1>11, FrameTypes DEF AlterReturn, TypeOK, Frames
      <3> QED BY <1>0, <1>11, <2>1, <3>1, SetSettled DEF AlterReturn, Truthy, indexVars
    <2>2. CASE ~ Truthy(post)
      BY <1>1, <1>11, <2>2 DEF AlterReturn, indexVars
    <2> QED BY <2>1, <2>2
  <1>12. CASE AlterThrow
    BY <1>1, <1>12 DEF AlterThrow, indexVars
  <1>13. ASSUME NEW desc \in Descs, RegisterIndex(desc) PROVE UNCHANGED <<Settled, indexes>>
    BY <1>1, <1>13 DEF RegisterIndex
  <1>14. CASE UNCHANGED vars
    BY <1>1, <1>14 DEF vars
  <1> QED BY <1>2, <1>3, <1>4, <1>5, <1>6, <1>7, <1>8, <1>9, <1>10, <1>11,
             <1>12, <1>13, <1>14 DEF Next, Step, Call

(* Every step of a collection is a step of KeyedMap or leaves the abstract *)
(* map alone: until the first refusal and the first overflow, mutations    *)
(* are atomic, and what an index refuses really conflicts with an item.    *)
THEOREM IsKeyedMapCorrect ==
  ASSUME Undefined \notin Value
  PROVE  Spec => IsKeyedMap
  <1>1. Init => Map!Init
    BY DEF Init, Map!Init, Settled, Failure, EmptyStore
  <1>2. ASSUME SyncInv, [Next]_vars
        PROVE  [Map!Next]_(Map!vars)
    <2>0. TypeOK /\ StoreInv /\ store \in Stores(Value)
      BY <1>2 DEF SyncInv, StoreInv, TypeOK
    <2>1. CASE ~ Intact
      <3>1. Failure # "no" /\ Failure' # "no"
        BY <1>2, <2>0, <2>1, FailureStep DEF Failure, Intact
      <3> QED BY <3>1 DEF Map!Next, Map!NoPromise
    <2>2. CASE Intact /\ wrapped'
      <3>1. Failure = "no" /\ Failure' = "exhausted" /\ indexes' = indexes
        BY <1>2, <2>0, <2>2, FailureStep DEF Failure, Intact
      <3> QED BY <3>1 DEF Map!Next, Map!Exhaust
    <2>3. CASE Intact /\ ~ wrapped' /\ torn' # {}
      <3>1. /\ phase \in {"prepare", "commit"} /\ pos \in 1 .. Len(indexes)
            /\ update \in UpdatesOf(Value) /\ update.type # "DELETE"
            /\ phase' = "idle" /\ UNCHANGED <<store, indexes>>
        BY <1>2, <2>3, ConflictLaw
      <3>2. PICK i \in Ids : /\ Undone(update, store)[i] # Absent
                             /\ Clash(indexes[pos], Undone(update, store)[i], update.new)
        BY <1>2, <2>3, ConflictLaw
      <3>3. /\ Settled = Undone(update, store) /\ Settled' = store
            /\ Settled \in Stores(Value) /\ Settled' = Applied(update, Settled)
        BY <2>0, <3>1, UndoneLaw DEF Settled
      <3>4. Settled[i] # Absent /\ Settled[i] \in Value
        BY <3>2, <3>3 DEF Stores
      <3>5. update.id \in Ids /\ update.new \in Value /\ indexes[pos] \in Descs
        BY <2>0, <3>1, UpdateCases DEF TypeOK
      <3>6. <<Settled[i], update.new>> \in Clashes[indexes[pos]]
        BY <3>2, <3>3, <3>4, <3>5 DEF Clashes
      <3>7. Failure = "no" /\ Failure' = "conflict"
        BY <2>3 DEF Failure, Intact
      <3>8. Settled' = [Settled EXCEPT ![update.id] = update.new]
        BY <3>1, <3>3 DEF Applied
      <3>9. Map!Refuse(update.id, update.new)
        BY <3>1, <3>4, <3>6, <3>7, <3>8 DEF Map!Refuse, Map!InUse
      <3> QED BY <3>5, <3>9 DEF Map!Next
    <2>4. CASE Intact /\ Intact'
      <3>1. Failure = "no" /\ Failure' = Failure
        BY <2>4 DEF Failure, Intact
      <3>2. CASE UNCHANGED <<Settled, indexes>>
        BY <3>1, <3>2 DEF Map!vars
      <3>3. ASSUME NEW id \in Ids, NEW new \in Value \cup {Absent},
                   Settled' = [Settled EXCEPT ![id] = new],
                   \A j \in 1 .. Len(indexes) : Map!Admitted(indexes[j], Settled'),
                   indexes' = indexes
            PROVE  Map!Next
        <4>1. Map!Mutate(id, new)
          BY <3>1, <3>3 DEF Map!Mutate
        <4> QED BY <3>3, <4>1 DEF Map!Next
      <3>4. ASSUME NEW d \in Descs, Map!Admitted(d, Settled),
                   indexes' = Append(indexes, d), Settled' = Settled
            PROVE  Map!Next
        <4>1. Map!Register(d)
          BY <3>1, <3>4 DEF Map!Register
        <4> QED BY <4>1 DEF Map!Next
      <3> QED BY <1>2, <2>4, <3>2, <3>3, <3>4, IntactStep
    <2> QED BY <2>1, <2>2, <2>3, <2>4 DEF Intact
  <1>3. SyncInv /\ [Next]_vars => [Map!Next]_(Map!vars)
    BY <1>2
  <1> QED BY <1>1, <1>3, SyncInvariant, PTL DEF Spec, IsKeyedMap, Map!Spec
=============================================================================
