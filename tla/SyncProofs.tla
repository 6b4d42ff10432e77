----------------------------- MODULE SyncProofs -----------------------------
(***************************************************************************)
(* The collection keeps its indexes in step with its store: the safety     *)
(* properties of Collection as theorems.                                   *)
(*                                                                         *)
(* Sync is not inductive as it stands.  A step of propagateUpdate's second *)
(* loop needs to know that the update it applies is the change the store   *)
(* has seen (UpdateFits) and that the index has been asked (AllAsked), and *)
(* the ADD that add sends is only such a change because ids in use are     *)
(* below the counter (IdsBelowLast).                                       *)
(***************************************************************************)
EXTENDS CollectionProofs

(* The store already is as the update being propagated says. *)
UpdateFits ==
  phase \in {"prepare", "commit"} =>
    store[update.id] = IF update.type = "DELETE" THEN Absent ELSE update.new

IdsBelowLast == ~ wrapped => \A i \in Occupied(store) : i <= last

(* The first loop has been past these indexes, and the second has not. *)
AllAsked ==
  Intact =>
    \A j \in 1 .. Len(indexes) :
      (phase = "prepare" /\ j < pos) \/ (phase = "commit" /\ j >= pos) =>
        Accepted(indexes[j], ix[j], update)

-----------------------------------------------------------------------------
(* Ids.                                                                    *)

StoreInv == TypeOK /\ UpdateFits /\ IdsBelowLast

LEMMA OccupiedStep ==
  ASSUME NEW m \in Stores(Value), NEW i \in Ids, NEW v
  PROVE  \A k \in Occupied([m EXCEPT ![i] = v]) :
           (k = i /\ v # Absent) \/ k \in Occupied(m)
  BY DEF Occupied, Stores

(* A mutation up to propagateUpdate. *)
LEMMA MutationStoreInv ==
  ASSUME StoreInv, phase = "idle", NEW id \in Ids, NEW v \in Value \cup {Absent},
         NEW u \in UpdatesOf(Value), u.id = id,
         v = IF u.type = "DELETE" THEN Absent ELSE u.new,
         store' = [store EXCEPT ![id] = v], Propagate(u), last' \in Ids,
         ~ wrapped' => ~ wrapped /\ last <= last' /\ (v # Absent => id <= last')
  PROVE  UpdateFits' /\ IdsBelowLast'
  <1>1. store \in Stores(Value) /\ last \in Ids
    BY DEF StoreInv, TypeOK
  <1>2. store'[id] = v
    BY <1>1 DEF Stores
  <1>3. UpdateFits'
    BY <1>2 DEF UpdateFits, Propagate
  <1>4. ASSUME ~ wrapped', NEW k \in Occupied(store)' PROVE k <= last'
    <2>1. k \in Ids /\ ((k = id /\ v # Absent) \/ k \in Occupied(store))
      BY <1>1, <1>4, OccupiedStep DEF Occupied
    <2>2. k \in Occupied(store) => k <= last
      BY <1>4 DEF StoreInv, IdsBelowLast
    <2> QED BY <1>1, <1>4, <2>1, <2>2 DEF Ids
  <1> QED BY <1>3, <1>4 DEF IdsBelowLast

LEMMA SetStoreInv ==
  ASSUME StoreInv, phase = "idle", NEW id \in Ids, NEW v \in Value, SetTo(id, v),
         wrapped' = wrapped
  PROVE  UpdateFits' /\ IdsBelowLast'
  <1> DEFINE u == IF GetFrom(store, id) = Undefined THEN AddUpdate(id, v)
                  ELSE UpdateUpdate(id, GetFrom(store, id), v)
  <1>1. u \in UpdatesOf(Value)
    BY GetFromType, UpdateTypes DEF StoreInv, TypeOK
  <1>2. u.id = id /\ u.type # "DELETE" /\ u.new = v
    BY DEF AddUpdate, UpdateUpdate
  <1>3. store' = [store EXCEPT ![id] = v] /\ Propagate(u)
    BY DEF SetTo
  <1>4. last' \in Ids /\ last <= last' /\ id <= last'
    BY DEF SetTo, StoreInv, TypeOK, Ids
  <1> HIDE DEF u
  <1> QED BY <1>1, <1>2, <1>3, <1>4, MutationStoreInv

LEMMA DeleteStoreInv ==
  ASSUME StoreInv, phase = "idle", NEW id \in Ids, GetFrom(store, id) # Undefined,
         DeleteExisting(id), wrapped' = wrapped, last' = last
  PROVE  UpdateFits' /\ IdsBelowLast'
  <1> DEFINE u == DeleteUpdate(id, GetFrom(store, id))
  <1>1. u \in UpdatesOf(Value)
    BY GetFromType, UpdateTypes DEF StoreInv, TypeOK
  <1>2. u.id = id /\ u.type = "DELETE"
    BY DEF DeleteUpdate
  <1>3. store' = [store EXCEPT ![id] = Absent] /\ Propagate(u)
    BY DEF DeleteExisting
  <1>4. last \in Ids /\ last <= last
    BY DEF StoreInv, TypeOK, Ids
  <1> HIDE DEF u
  <1> QED BY <1>1, <1>2, <1>3, <1>4, MutationStoreInv

LEMMA StoreInvStep ==
  ASSUME StoreInv, [Next]_vars
  PROVE  UpdateFits' /\ IdsBelowLast'
  <1> USE DEF UpdateFits, IdsBelowLast, Occupied, indexVars
  <1>0. TypeOK
    BY DEF StoreInv
  <1>1. CASE PrepareStep \/ CommitStep
    <2>1. /\ UNCHANGED <<last, store, wrapped>>
          /\ UNCHANGED <<phase, update>> \/ phase' = "idle"
      BY <1>1 DEF PrepareStep, CommitStep, GiveUp
    <2> QED BY <2>1 DEF StoreInv
  <1>2. CASE PrepareDone \/ CommitDone \/ BuildDone \/ AlterThrow
    BY <1>2 DEF PrepareDone, CommitDone, BuildDone, AlterThrow, StoreInv
  <1>3. ASSUME NEW id \in Ids, BuildStep(id) PROVE UpdateFits' /\ IdsBelowLast'
    BY <1>3 DEF BuildStep, StoreInv
  <1>4. ASSUME NEW value \in Value, Add(value) PROVE UpdateFits' /\ IdsBelowLast'
    <2>1. newId \in Ids /\ (newId # 0 => newId = last + 1) /\ last \in Ids
      BY newIdType, <1>0 DEF TypeOK
    <2>2. AddUpdate(newId, value) \in UpdatesOf(Value)
      BY <2>1, UpdateTypes
    <2>3. /\ AddUpdate(newId, value).id = newId
          /\ AddUpdate(newId, value).new = value
          /\ AddUpdate(newId, value).type # "DELETE"
      BY DEF AddUpdate
    <2>4. /\ phase = "idle" /\ last' = newId
          /\ store' = [store EXCEPT ![newId] = value]
          /\ Propagate(AddUpdate(newId, value))
          /\ ~ wrapped' => ~ wrapped /\ newId # 0
      BY <1>4 DEF Add
    <2>5. ~ wrapped' => ~ wrapped /\ last <= last' /\ newId <= last'
      BY <2>1, <2>4 DEF Ids
    <2> QED BY <2>1, <2>2, <2>3, <2>4, <2>5, MutationStoreInv
  <1>5. ASSUME NEW id \in Ids, Delete(id) PROVE UpdateFits' /\ IdsBelowLast'
    BY <1>5, DeleteStoreInv DEF Delete
  <1>6. ASSUME NEW id \in Ids, NEW value \in Value, Set(id, value)
        PROVE  UpdateFits' /\ IdsBelowLast'
    BY <1>6, SetStoreInv DEF Set
  <1>7. ASSUME NEW id \in Ids, NEW adjust \in BOOLEAN, Alter(id, adjust)
        PROVE  UpdateFits' /\ IdsBelowLast'
    <2>1. CASE Truthy(GetFrom(store, id))
      BY <1>7, <2>1, DeleteStoreInv DEF Alter, Truthy
    <2>2. CASE ~ Truthy(GetFrom(store, id))
      BY <1>7, <2>2 DEF Alter, StoreInv
    <2> QED BY <2>1, <2>2
  <1>8. ASSUME NEW post \in Value \cup {Undefined}, AlterReturn(post)
        PROVE  UpdateFits' /\ IdsBelowLast'
    <2>1. CASE Truthy(post)
      <3>1. TopFrame.id \in Ids
        BY <1>0, <1>8, FrameTypes DEF AlterReturn, TypeOK, Frames
      <3> QED BY <1>8, <2>1, <3>1, SetStoreInv DEF AlterReturn, Truthy
    <2>2. CASE ~ Truthy(post)
      BY <1>8, <2>2 DEF AlterReturn, StoreInv
    <2> QED BY <2>1, <2>2
  <1>9. ASSUME NEW desc \in Descs, RegisterIndex(desc)
        PROVE  UpdateFits' /\ IdsBelowLast'
    BY <1>9 DEF RegisterIndex, StoreInv
  <1>10. CASE UNCHANGED vars
    BY <1>10 DEF vars, StoreInv
  <1> QED BY <1>1, <1>2, <1>3, <1>4, <1>5, <1>6, <1>7, <1>8, <1>9, <1>10
          DEF Next, Step, Call

(* The store agrees with the update being propagated, and every id in use  *)
(* is at most the counter until that overflows.                            *)
THEOREM StoreCorrect == Spec => []StoreInv
  <1>1. Init => UpdateFits /\ IdsBelowLast
    BY DEF Init, UpdateFits, IdsBelowLast, Occupied, EmptyStore
  <1>2. TypeOK /\ UpdateFits /\ IdsBelowLast /\ [Next]_vars => UpdateFits' /\ IdsBelowLast'
    BY StoreInvStep DEF StoreInv
  <1> QED BY <1>1, <1>2, TypeCorrect, PTL DEF Spec, StoreInv

(* What newId hands out is above every id in use, also the ones set was    *)
(* called with: add overwrites no item until the counter overflows.        *)
THEOREM FreshIdsCorrect == Spec => FreshIds
  <1>1. ASSUME StoreInv, NEW value \in Value, Add(value), ~ wrapped'
        PROVE  last' > last /\ \A i \in Occupied(store) : i < last'
    <2>1. newId \in Ids /\ (newId # 0 => newId = last + 1) /\ last \in Ids
      BY newIdType, <1>1 DEF StoreInv, TypeOK
    <2>2. last' = last + 1 /\ ~ wrapped
      BY <1>1, <2>1 DEF Add
    <2>3. \A i \in Occupied(store) : i \in Ids /\ i <= last
      BY <1>1, <2>2 DEF StoreInv, IdsBelowLast, Occupied
    <2> QED BY <2>1, <2>2, <2>3 DEF Ids
  <1>2. StoreInv /\ [Next]_vars =>
          [\A value \in Value : Add(value) /\ ~ wrapped' =>
             /\ last' > last
             /\ \A i \in Occupied(store) : i < last']_vars
    BY <1>1
  <1> QED BY <1>2, StoreCorrect, PTL DEF Spec, FreshIds

-----------------------------------------------------------------------------
(* Sync.  The assumption on the constants: an item is not undefined.       *)

SyncInv == StoreInv /\ Sync /\ AllAsked

(* The store before the update being propagated, and after it. *)
LEMMA UndoneLaw ==
  ASSUME StoreInv, phase \in {"prepare", "commit"}
  PROVE  /\ Undone(update, store) \in Stores(Value)
         /\ Describes(update, Undone(update, store))
         /\ Applied(update, Undone(update, store)) = store
  <1>1. store \in Stores(Value) /\ update \in UpdatesOf(Value)
    BY DEF StoreInv, TypeOK
  <1>2. update.id \in Ids
    BY <1>1, UpdateCases
  <1>3. (IF update.type = "ADD" THEN Absent ELSE update.old) \in Value \cup {Absent}
    BY <1>1, UpdateCases
  <1>4. Undone(update, store) \in Stores(Value)
    BY <1>1, <1>2, <1>3, StoreType DEF Undone
  <1>5. Describes(update, Undone(update, store))
    BY <1>1, <1>2 DEF Describes, Undone, Stores
  <1>6. store[update.id] = IF update.type = "DELETE" THEN Absent ELSE update.new
    BY DEF StoreInv, UpdateFits
  <1>7. Applied(update, Undone(update, store)) = store
    BY <1>1, <1>2, <1>6 DEF Applied, Undone, Stores
  <1> QED BY <1>4, <1>5, <1>7

(* What the index the loop has come to answers. *)
LEMMA AskLaw ==
  ASSUME SyncInv, Intact, PrepareStep
  PROVE  LET r == OnUpdate(indexes[pos], ix[pos], update)
         IN  /\ Mirrors(indexes[pos], r.ix, Undone(update, store))
             /\ r.exn \in {"none", "ConflictException"}
             /\ r.exn = "none" => Accepted(indexes[pos], r.ix, update)
             /\ r.exn # "none" =>
                  /\ update.type # "DELETE"
                  /\ \E i \in Ids : /\ Undone(update, store)[i] # Absent
                                    /\ Clash(indexes[pos], Undone(update, store)[i], update.new)
  <1>1. /\ phase = "prepare" /\ pos \in 1 .. Len(indexes) /\ StoreInv /\ TypeOK
        /\ update \in UpdatesOf(Value)
    BY DEF PrepareStep, SyncInv, StoreInv, TypeOK
  <1>2. indexes[pos] \in IndexDescs /\ ix[pos] \in IndexStates(indexes[pos])
    BY <1>1, DescsAssumption DEF TypeOK
  <1>3. Mirrors(indexes[pos], ix[pos], Undone(update, store))
    BY <1>1 DEF SyncInv, Sync, Expected
  <1> QED BY <1>1, <1>2, <1>3, UndoneLaw, OnUpdateLaw

LEMMA CommitLaw ==
  ASSUME SyncInv, Intact, CommitStep
  PROVE  LET r == Hook(indexes[pos], ix[pos], update)
         IN  /\ r.exn = "none" => Mirrors(indexes[pos], r.ix, store)
             /\ indexes[pos] \in SafeDescs \/ update.type # "UPDATE" => r.exn = "none"
             /\ r.exn # "none" =>
                  /\ r.exn = "ConflictException"
                  /\ \E i \in Ids : /\ Undone(update, store)[i] # Absent
                                    /\ Clash(indexes[pos], Undone(update, store)[i], update.new)
                  /\ Stopped(indexes[pos], r.ix, update, Undone(update, store))
  <1>1. /\ phase = "commit" /\ pos \in 1 .. Len(indexes) /\ StoreInv /\ TypeOK
        /\ update \in UpdatesOf(Value)
    BY DEF CommitStep, SyncInv, StoreInv, TypeOK
  <1>2. indexes[pos] \in IndexDescs /\ ix[pos] \in IndexStates(indexes[pos])
    BY <1>1, DescsAssumption DEF TypeOK
  <1>3. /\ Mirrors(indexes[pos], ix[pos], Undone(update, store))
        /\ Accepted(indexes[pos], ix[pos], update)
    BY <1>1 DEF SyncInv, Sync, Expected, AllAsked
  <1> QED BY <1>1, <1>2, <1>3, UndoneLaw, HookLaw

(* A mutation up to propagateUpdate leaves the indexes at the old store. *)
LEMMA MutationSync ==
  ASSUME SyncInv, phase = "idle", Intact' => Intact,
         NEW u \in UpdatesOf(Value), Describes(u, store) \/ ~ Intact',
         store' = Applied(u, store), Propagate(u), UNCHANGED indexVars
  PROVE  Sync' /\ AllAsked'
  <1> SUFFICES ASSUME Intact' PROVE Sync' /\ AllAsked'
    BY DEF Sync, AllAsked
  <1>1. store \in Stores(Value) /\ u.id \in Ids /\ Len(indexes) \in Nat
    BY UpdateCases DEF SyncInv, StoreInv, TypeOK
  <1>2. Undone(u, store') = store
    BY <1>1 DEF Describes, Applied, Undone, Stores
  <1>3. phase' = "prepare" /\ pos' = 1 /\ update' = u /\ indexes' = indexes /\ ix' = ix
    BY DEF Propagate, indexVars
  <1>4. \A j \in 1 .. Len(indexes) : Mirrors(indexes[j], ix[j], store)
    BY DEF SyncInv, Sync, Expected
  <1>5. \A j \in 1 .. Len(indexes') : Expected(j)' = store
    BY <1>2, <1>3 DEF Expected
  <1>6. Sync'
    BY <1>3, <1>4, <1>5 DEF Sync
  <1>7. AllAsked'
    BY <1>1, <1>3 DEF AllAsked
  <1> QED BY <1>6, <1>7

LEMMA SetSync ==
  ASSUME SyncInv, Undefined \notin Value, phase = "idle", NEW id \in Ids,
         NEW v \in Value, SetTo(id, v), UNCHANGED <<torn, wrapped, indexVars>>
  PROVE  Sync' /\ AllAsked'
  <1> DEFINE u == IF GetFrom(store, id) = Undefined THEN AddUpdate(id, v)
                  ELSE UpdateUpdate(id, GetFrom(store, id), v)
  <1>0. store \in Stores(Value)
    BY DEF SyncInv, StoreInv, TypeOK
  <1>1. u \in UpdatesOf(Value)
    BY <1>0, GetFromType, UpdateTypes
  <1>2. Describes(u, store)
    BY <1>0, GetFromType DEF Describes, AddUpdate, UpdateUpdate
  <1>3. store' = Applied(u, store) /\ Propagate(u)
    BY DEF SetTo, Applied, AddUpdate, UpdateUpdate
  <1>4. Intact' => Intact
    BY DEF Intact
  <1> HIDE DEF u
  <1> QED BY <1>1, <1>2, <1>3, <1>4, MutationSync

LEMMA DeleteSync ==
  ASSUME SyncInv, phase = "idle", NEW id \in Ids, GetFrom(store, id) # Undefined,
         DeleteExisting(id), UNCHANGED <<torn, wrapped, indexVars>>
  PROVE  Sync' /\ AllAsked'
  <1> DEFINE u == DeleteUpdate(id, GetFrom(store, id))
  <1>0. store \in Stores(Value)
    BY DEF SyncInv, StoreInv, TypeOK
  <1>1. u \in UpdatesOf(Value)
    BY <1>0, GetFromType, UpdateTypes
  <1>2. Describes(u, store)
    BY <1>0, GetFromType DEF Describes, DeleteUpdate
  <1>3. store' = Applied(u, store) /\ Propagate(u)
    BY DEF DeleteExisting, Applied, DeleteUpdate
  <1>4. Intact' => Intact
    BY DEF Intact
  <1> HIDE DEF u
  <1> QED BY <1>1, <1>2, <1>3, <1>4, MutationSync

(* One turn of either loop of propagateUpdate. *)
LEMMA LoopSync ==
  ASSUME SyncInv, PrepareStep \/ CommitStep
  PROVE  Sync' /\ AllAsked'
  <1> DEFINE r == IF phase = "prepare" THEN OnUpdate(indexes[pos], ix[pos], update)
                                       ELSE Hook(indexes[pos], ix[pos], update)
  <1> SUFFICES ASSUME Intact' PROVE Sync' /\ AllAsked'
    BY DEF Sync, AllAsked
  <1>1. /\ phase \in {"prepare", "commit"} /\ pos \in 1 .. Len(indexes)
        /\ ix = [j \in 1 .. Len(indexes) |-> ix[j]] /\ Len(indexes) \in Nat
    BY DEF SyncInv, StoreInv, TypeOK, PrepareStep, CommitStep
  <1>2. /\ Intact /\ r.exn = "none"
        /\ ix' = [ix EXCEPT ![pos] = r.ix] /\ pos' = pos + 1
        /\ UNCHANGED <<store, indexes, phase, update>>
    BY DEF PrepareStep, CommitStep, GiveUp, Intact
  <1>3. /\ Mirrors(indexes[pos], r.ix, IF phase = "prepare" THEN Undone(update, store) ELSE store)
        /\ phase = "prepare" => Accepted(indexes[pos], r.ix, update)
    BY <1>1, <1>2, AskLaw, CommitLaw DEF PrepareStep, CommitStep
  <1> HIDE DEF r
  <1>4. \A j \in 1 .. Len(indexes) : ix'[j] = IF j = pos THEN r.ix ELSE ix[j]
    BY <1>1, <1>2
  <1>5. \A j \in 1 .. Len(indexes) : Mirrors(indexes[j], ix[j], Expected(j))
    BY <1>2 DEF SyncInv, Sync
  <1>6. ASSUME NEW j \in 1 .. Len(indexes)
        PROVE  Mirrors(indexes[j], ix'[j], Expected(j)')
    <2>1. CASE j = pos
      BY <1>1, <1>2, <1>3, <1>4, <2>1 DEF Expected
    <2>2. CASE j # pos
      <3>1. Expected(j)' = Expected(j)
        BY <1>1, <1>2, <2>2 DEF Expected
      <3> QED BY <1>4, <1>5, <2>2, <3>1
    <2> QED BY <2>1, <2>2
  <1>7. Sync'
    BY <1>1, <1>2, <1>6 DEF Sync
  <1>8. ASSUME NEW j \in 1 .. Len(indexes),
               (phase = "prepare" /\ j < pos + 1) \/ (phase = "commit" /\ j >= pos + 1)
        PROVE  Accepted(indexes[j], ix'[j], update)
    <2>1. CASE j = pos
      BY <1>1, <1>3, <1>4, <1>8, <2>1
    <2>2. CASE j # pos
      BY <1>1, <1>2, <1>4, <1>8, <2>2 DEF SyncInv, AllAsked
    <2> QED BY <2>1, <2>2
  <1>9. AllAsked'
    BY <1>2, <1>8 DEF AllAsked
  <1> QED BY <1>7, <1>9

(* One turn of the loop of registerIndex. *)
LEMMA BuildSync ==
  ASSUME SyncInv, NEW id \in Ids, BuildStep(id)
  PROVE  Sync' /\ AllAsked'
  <1> DEFINE add == AddUpdate(id, store[id])
             asked == OnUpdate(building.desc, building.made, add)
             r == IF asked.exn = "none" THEN Hook(building.desc, asked.ix, add)
                                        ELSE asked
  <1> SUFFICES ASSUME Intact' PROVE Sync' /\ AllAsked'
    BY DEF Sync, AllAsked
  <1>1. /\ Intact /\ phase = "build" /\ id \in building.todo
        /\ UNCHANGED <<store, indexes, ix, pos, update>>
    BY DEF BuildStep, Intact
  <1>2. /\ building \in [desc : Descs, made : IndexStates(building.desc),
                         todo : SUBSET Occupied(store)]
        /\ store \in Stores(Value)
    BY <1>1 DEF SyncInv, StoreInv, TypeOK
  <1>3. /\ building.desc \in IndexDescs /\ building.made \in IndexStates(building.desc)
        /\ store[id] \in Value
    BY <1>1, <1>2, DescsAssumption DEF Occupied, Stores
  <1>4. add \in UpdatesOf(Value) /\ add.id = id /\ add.type = "ADD" /\ add.new = store[id]
    BY <1>3, UpdateTypes DEF AddUpdate
  <1>5. Visited \in Stores(Value)
    BY <1>2 DEF Visited, Stores
  <1> HIDE DEF add
  <1>6. Describes(add, Visited)
    BY <1>1, <1>4 DEF Describes, Visited
  <1>7. Mirrors(building.desc, building.made, Visited)
    BY <1>1 DEF SyncInv, Sync
  <1>8. \A j \in 1 .. Len(indexes) : Mirrors(indexes[j], ix[j], store)
    BY <1>1 DEF SyncInv, Sync, Expected
  <1>9. CASE /\ r.exn = "none" /\ phase' = phase
             /\ building' = [building EXCEPT !.made = r.ix, !.todo = @ \ {id}]
    <2>1. building.desc \in IndexDescs
      BY <1>2, DescsAssumption
    <2>2. asked.ix \in IndexStates(building.desc)
      BY <1>3, <1>4, <2>1, IndexType
    <2>3. asked.exn = "none"
      BY <1>9
    <2>4. /\ Mirrors(building.desc, asked.ix, Visited)
          /\ Accepted(building.desc, asked.ix, add)
      BY <1>3, <1>4, <1>5, <1>6, <1>7, <2>3, OnUpdateLaw
    <2>5. Mirrors(building.desc, r.ix, Applied(add, Visited))
      BY <1>3, <1>4, <1>5, <1>6, <1>9, <2>2, <2>3, <2>4, HookLaw
    <2> HIDE DEF r
    <2>6. /\ building'.desc = building.desc /\ building'.made = r.ix
          /\ building'.todo = building.todo \ {id}
      BY <1>2, <1>9
    <2>7. Applied(add, Visited) = Visited'
      BY <1>1, <1>4, <2>6 DEF Applied, Visited
    <2>8. Sync'
      BY <1>1, <1>8, <1>9, <2>5, <2>6, <2>7 DEF Sync, Expected
    <2> QED BY <1>1, <1>9, <2>8 DEF AllAsked
  <1>10. CASE phase' = "idle"
    BY <1>1, <1>8, <1>10 DEF Sync, Expected, AllAsked
  <1> QED BY <1>9, <1>10 DEF BuildStep, add

LEMMA SyncStep ==
  ASSUME SyncInv, Undefined \notin Value, [Next]_vars
  PROVE  Sync' /\ AllAsked'
  <1>0. TypeOK /\ StoreInv /\ Sync /\ AllAsked
    BY DEF SyncInv, StoreInv
  <1>1. CASE PrepareStep \/ CommitStep
    BY <1>1, LoopSync
  <1>2. CASE PrepareDone
    <2>1. /\ phase = "prepare" /\ pos > Len(indexes) /\ phase' = "commit" /\ pos' = 1
          /\ UNCHANGED <<store, indexes, ix, update>> /\ Intact' = Intact
      BY <1>2 DEF PrepareDone, indexVars, Intact
    <2>2. pos \in Nat /\ Len(indexes) \in Nat
      BY <1>0 DEF TypeOK
    <2>3. \A j \in 1 .. Len(indexes) : Expected(j)' = Expected(j) /\ j < pos
      BY <2>1, <2>2 DEF Expected
    <2>4. Sync'
      BY <1>0, <2>1, <2>3 DEF Sync
    <2>5. AllAsked'
      BY <1>0, <2>1, <2>3 DEF AllAsked
    <2> QED BY <2>4, <2>5
  <1>3. CASE CommitDone
    <2>1. /\ phase = "commit" /\ pos > Len(indexes) /\ phase' = "idle"
          /\ UNCHANGED <<store, indexes, ix>> /\ Intact' = Intact
      BY <1>3 DEF CommitDone, indexVars, Intact
    <2>2. pos \in Nat /\ Len(indexes) \in Nat
      BY <1>0 DEF TypeOK
    <2>3. \A j \in 1 .. Len(indexes) : Expected(j)' = Expected(j)
      BY <2>1, <2>2 DEF Expected
    <2> QED BY <1>0, <2>1, <2>3 DEF Sync, AllAsked
  <1>4. ASSUME NEW id \in Ids, BuildStep(id) PROVE Sync' /\ AllAsked'
    BY <1>4, BuildSync
  <1>5. CASE BuildDone
    <2>1. /\ phase = "build" /\ phase' = "idle" /\ building.todo = {} /\ store' = store
          /\ indexes' = Append(indexes, building.desc) /\ Intact' = Intact
      BY <1>5 DEF BuildDone, Intact
    <2>2. /\ Len(indexes) \in Nat /\ Len(indexes') = Len(indexes) + 1
          /\ \A j \in 1 .. Len(indexes') :
               indexes'[j] = IF j <= Len(indexes) THEN indexes[j] ELSE building.desc
      BY <1>0, <2>1 DEF TypeOK
    <2>3. \A j \in 1 .. Len(indexes') :
            ix'[j] = IF j <= Len(indexes) THEN ix[j] ELSE building.made
      BY <1>5, <2>2 DEF BuildDone
    <2>4. Visited = store
      BY <1>0, <2>1 DEF Visited, TypeOK, Stores
    <2>5. Intact => /\ \A j \in 1 .. Len(indexes) : Mirrors(indexes[j], ix[j], store)
                    /\ Mirrors(building.desc, building.made, store)
      BY <1>0, <2>1, <2>4 DEF Sync, Expected
    <2>6. \A j \in 1 .. Len(indexes') : Expected(j)' = store
      BY <2>1 DEF Expected
    <2> QED BY <2>1, <2>2, <2>3, <2>5, <2>6 DEF Sync, AllAsked
  <1>6. ASSUME NEW value \in Value, Add(value) PROVE Sync' /\ AllAsked'
    <2> DEFINE u == AddUpdate(newId, value)
    <2>1. newId \in Ids /\ (newId # 0 => newId = last + 1) /\ last \in Ids
      BY newIdType, <1>0 DEF TypeOK
    <2>2. u \in UpdatesOf(Value)
      BY <2>1, UpdateTypes
    <2>3. Describes(u, store) \/ ~ Intact'
      <3> SUFFICES ASSUME ~ wrapped' PROVE store[newId] = Absent
        BY DEF Intact, Describes, AddUpdate
      <3>1. newId = last + 1 /\ ~ wrapped
        BY <1>6, <2>1 DEF Add
      <3>2. newId \notin Occupied(store)
        BY <1>0, <2>1, <3>1 DEF StoreInv, IdsBelowLast, Ids
      <3> QED BY <2>1, <3>2 DEF Occupied
    <2>4. /\ phase = "idle" /\ store' = Applied(u, store) /\ Propagate(u)
          /\ UNCHANGED indexVars /\ (Intact' => Intact)
      BY <1>6 DEF Add, Applied, AddUpdate, Intact
    <2> HIDE DEF u
    <2> QED BY <2>2, <2>3, <2>4, MutationSync
  <1>7. ASSUME NEW id \in Ids, Delete(id) PROVE Sync' /\ AllAsked'
    BY <1>7, DeleteSync DEF Delete
  <1>8. ASSUME NEW id \in Ids, NEW value \in Value, Set(id, value)
        PROVE  Sync' /\ AllAsked'
    BY <1>8, SetSync DEF Set
  <1>9. ASSUME phase = "idle", phase' = "idle",
               UNCHANGED <<store, indexes, ix, torn, wrapped>>
        PROVE  Sync' /\ AllAsked'
    BY <1>0, <1>9 DEF Sync, Expected, AllAsked, Intact
  <1>10. ASSUME NEW id \in Ids, NEW adjust \in BOOLEAN, Alter(id, adjust)
         PROVE  Sync' /\ AllAsked'
    <2>1. CASE Truthy(GetFrom(store, id))
      BY <1>10, <2>1, DeleteSync DEF Alter, Truthy
    <2>2. CASE ~ Truthy(GetFrom(store, id))
      BY <1>9, <1>10, <2>2 DEF Alter, indexVars
    <2> QED BY <2>1, <2>2
  <1>11. ASSUME NEW post \in Value \cup {Undefined}, AlterReturn(post)
         PROVE  Sync' /\ AllAsked'
    <2>1. CASE Truthy(post)
      <3>1. TopFrame.id \in Ids
        BY <1>0, <1>11, FrameTypes DEF AlterReturn, TypeOK, Frames
      <3> QED BY <1>11, <2>1, <3>1, SetSync DEF AlterReturn, Truthy
    <2>2. CASE ~ Truthy(post)
      BY <1>9, <1>11, <2>2 DEF AlterReturn, indexVars
    <2> QED BY <2>1, <2>2
  <1>12. CASE AlterThrow
    BY <1>9, <1>12 DEF AlterThrow, indexVars
  <1>13. ASSUME NEW desc \in Descs, RegisterIndex(desc) PROVE Sync' /\ AllAsked'
    <2>1. /\ phase = "idle" /\ phase' = "build" /\ UNCHANGED <<store, indexes, ix>>
          /\ building' = [desc |-> desc, made |-> Empty(desc), todo |-> Occupied(store)]
          /\ Intact' = Intact
      BY <1>13 DEF RegisterIndex, Intact
    <2>2. Visited' = EmptyStore
      BY <1>0, <2>1 DEF Visited, EmptyStore, Occupied, TypeOK, Stores
    <2>3. Mirrors(building'.desc, building'.made, Visited')
      BY <2>1, <2>2, EmptyLaw, DescsAssumption
    <2> QED BY <1>0, <2>1, <2>3 DEF Sync, Expected, AllAsked
  <1>14. CASE UNCHANGED vars
    BY <1>0, <1>14 DEF vars, Sync, Expected, Visited, AllAsked, Intact
  <1> QED BY <1>1, <1>2, <1>3, <1>4, <1>5, <1>6, <1>7, <1>8, <1>10, <1>11,
             <1>12, <1>13, <1>14 DEF Next, Step, Call

LEMMA SyncInvariant ==
  ASSUME Undefined \notin Value
  PROVE  Spec => []SyncInv
  <1>1. Init => Sync /\ AllAsked
    <2> SUFFICES ASSUME Init PROVE Sync /\ AllAsked
      OBVIOUS
    <2>1. Len(indexes) = 0 /\ phase = "idle"
      BY DEF Init
    <2>2. 1 .. Len(indexes) = {}
      BY <2>1
    <2> QED BY <2>1, <2>2 DEF Sync, AllAsked
  <1>2. StoreInv /\ Sync /\ AllAsked /\ [Next]_vars => Sync' /\ AllAsked'
    BY SyncStep DEF SyncInv
  <1> QED BY <1>1, <1>2, StoreCorrect, PTL DEF Spec, SyncInv

(* As long as no mutation was given up halfway and the id counter has not  *)
(* overflowed, every registered index (a hash, unique, btree, count, sum,  *)
(* mean or mock one behind any premap and any group, and zips of them)     *)
(* holds exactly what the store calls for, whatever add, delete, set,      *)
(* alter, adjust and registerIndex did before and however calls of alter   *)
(* nest.                                                                   *)
THEOREM SyncCorrect ==
  ASSUME Undefined \notin Value
  PROVE  Spec => []Sync
  <1>1. SyncInv => Sync
    BY DEF SyncInv
  <1> QED BY <1>1, SyncInvariant, PTL

(* Two items of an intact collection never have the same key in a          *)
(* uniqueHashIndex: a consequence of Sync alone.                           *)
THEOREM UniqueKeysCorrect ==
  ASSUME Undefined \notin Value
  PROVE  Spec => []UniqueKeys
  <1>1. SyncInv => UniqueKeys
    <2> SUFFICES ASSUME SyncInv, Intact, phase = "idle",
                        NEW j \in 1 .. Len(indexes),
                        NEW i1 \in Occupied(store), NEW i2 \in Occupied(store), i1 # i2
                 PROVE  ~ Clash(indexes[j], store[i1], store[i2])
      BY DEF UniqueKeys
    <2>1. /\ store \in Stores(Value) /\ indexes[j] \in IndexDescs
          /\ i1 \in Ids /\ i2 \in Ids /\ store[i1] # Absent /\ store[i2] # Absent
      BY DescType DEF SyncInv, StoreInv, TypeOK, Occupied
    <2>2. Mirrors(indexes[j], ix[j], store)
      BY DEF SyncInv, Sync, Expected
    <2> QED BY <2>1, <2>2, NoClashLaw
  <1> QED BY <1>1, SyncInvariant, PTL

-----------------------------------------------------------------------------
(* How a mutation may be given up.                                         *)

(* Only the two loops give a mutation up. *)
LEMMA GivenUp ==
  ASSUME [Next]_vars, Intact, torn' # {}
  PROVE  \/ /\ PrepareStep
            /\ LET r == OnUpdate(indexes[pos], ix[pos], update)
               IN  r.exn # "none" /\ GiveUp(r.exn) /\ ix' = [ix EXCEPT ![pos] = r.ix]
         \/ CommitStep /\ Hook(indexes[pos], ix[pos], update).exn # "none"
  <1>1. torn' # torn
    BY DEF Intact
  <1>2. PrepareStep \/ CommitStep
    BY <1>1 DEF Next, Step, Call, PrepareDone, CommitDone, BuildStep, BuildDone,
                Add, Delete, Set, Alter, AlterReturn, AlterThrow, RegisterIndex, vars
  <1> QED BY <1>1, <1>2 DEF PrepareStep, CommitStep

(* Without a unique index inside a group, an intact collection gives a     *)
(* mutation up only for a ConflictException, in the first loop of          *)
(* propagateUpdate: no commit hook ever throws.                            *)
THEOREM OnlyConflictsAbortCorrect ==
  ASSUME Undefined \notin Value
  PROVE  Spec => OnlyConflictsAbort
  <1>1. ASSUME SyncInv, [Next]_vars, Intact, AllSafe, torn' # {}
        PROVE  phase = "prepare" /\ exn'.type = "ConflictException"
    <2>1. ~ (CommitStep /\ Hook(indexes[pos], ix[pos], update).exn # "none")
      <3> SUFFICES ASSUME CommitStep PROVE indexes[pos] \in SafeDescs
        BY <1>1, CommitLaw
      <3> QED BY <1>1 DEF CommitStep, SyncInv, StoreInv, TypeOK, AllSafe
    <2>2. /\ PrepareStep
          /\ GiveUp(OnUpdate(indexes[pos], ix[pos], update).exn)
          /\ OnUpdate(indexes[pos], ix[pos], update).exn # "none"
      BY <1>1, <2>1, GivenUp
    <2>3. OnUpdate(indexes[pos], ix[pos], update).exn = "ConflictException"
      BY <1>1, <2>2, AskLaw
    <2> QED BY <2>2, <2>3 DEF PrepareStep, GiveUp, Exception
  <1>2. SyncInv /\ [Next]_vars =>
          [Intact /\ AllSafe /\ torn' # {} => phase = "prepare" /\ exn'.type = "ConflictException"]_vars
    BY <1>1
  <1> QED BY <1>2, SyncInvariant, PTL DEF Spec, OnlyConflictsAbort

(* Under the same condition a mutation that is given up has changed no     *)
(* index.                                                                  *)
THEOREM RefusalIsCleanCorrect ==
  ASSUME Undefined \notin Value
  PROVE  Spec => RefusalIsClean
  <1>1. ASSUME SyncInv, [Next]_vars, Intact, AllSafe, torn' # {}, NEW j \in 1 .. Len(indexes)
        PROVE  Mirrors(indexes[j], ix'[j], Undone(update, store))
    <2> DEFINE r == OnUpdate(indexes[pos], ix[pos], update)
    <2>1. ~ (CommitStep /\ Hook(indexes[pos], ix[pos], update).exn # "none")
      <3> SUFFICES ASSUME CommitStep PROVE indexes[pos] \in SafeDescs
        BY <1>1, CommitLaw
      <3> QED BY <1>1 DEF CommitStep, SyncInv, StoreInv, TypeOK, AllSafe
    <2>2. PrepareStep /\ ix' = [ix EXCEPT ![pos] = r.ix]
      BY <1>1, <2>1, GivenUp
    <2>3. Mirrors(indexes[pos], r.ix, Undone(update, store))
      BY <1>1, <2>2, AskLaw
    <2>4. Mirrors(indexes[j], ix[j], Undone(update, store))
      BY <1>1, <2>2 DEF PrepareStep, SyncInv, Sync, Expected
    <2>5. ix = [l \in 1 .. Len(indexes) |-> ix[l]]
      BY <1>1 DEF SyncInv, StoreInv, TypeOK
    <2> HIDE DEF r
    <2>6. ix'[j] = IF j = pos THEN r.ix ELSE ix[j]
      BY <1>1, <2>2, <2>5
    <2> QED BY <2>3, <2>4, <2>6
  <1>2. SyncInv /\ [Next]_vars =>
          [Intact /\ AllSafe /\ torn' # {} =>
             \A j \in 1 .. Len(indexes) :
               Mirrors(indexes[j], ix'[j], Undone(update, store))]_vars
    BY <1>1
  <1> QED BY <1>2, SyncInvariant, PTL DEF Spec, RefusalIsClean

(* What an intact collection refuses clashes with an item from before the  *)
(* call.                                                                   *)
LEMMA ConflictLaw ==
  ASSUME SyncInv, [Next]_vars, Intact, torn' # {}
  PROVE  /\ phase \in {"prepare", "commit"} /\ pos \in 1 .. Len(indexes)
         /\ update \in UpdatesOf(Value) /\ update.type # "DELETE"
         /\ exn'.type = "ConflictException" /\ exn'.id = update.id
         /\ phase' = "idle" /\ UNCHANGED <<store, indexes, wrapped>>
         /\ \E i \in Ids : /\ Undone(update, store)[i] # Absent
                           /\ Clash(indexes[pos], Undone(update, store)[i], update.new)
  <1>1. PrepareStep \/ CommitStep
    BY GivenUp
  <1>2. /\ TypeOK /\ phase \in {"prepare", "commit"} /\ pos \in 1 .. Len(indexes)
        /\ update \in UpdatesOf(Value)
    <2>1. TypeOK
      BY DEF SyncInv, StoreInv
    <2>2. phase \in {"prepare", "commit"} /\ pos <= Len(indexes)
      BY <1>1 DEF PrepareStep, CommitStep
    <2> QED BY <2>1, <2>2 DEF TypeOK
  <1>3. CASE PrepareStep
    <2> DEFINE r == OnUpdate(indexes[pos], ix[pos], update)
    <2>1. r.exn # "none" /\ GiveUp(r.exn)
      BY <1>3, GivenUp DEF PrepareStep, CommitStep
    <2>2. /\ r.exn = "ConflictException" /\ update.type # "DELETE"
          /\ \E i \in Ids : /\ Undone(update, store)[i] # Absent
                            /\ Clash(indexes[pos], Undone(update, store)[i], update.new)
      BY <1>3, <2>1, AskLaw
    <2> HIDE DEF r
    <2> QED BY <1>2, <1>3, <2>1, <2>2 DEF GiveUp, Exception, PrepareStep
  <1>4. CASE CommitStep
    <2> DEFINE r == Hook(indexes[pos], ix[pos], update)
    <2>1. r.exn # "none"
      BY <1>4, GivenUp DEF PrepareStep, CommitStep
    <2>2. GiveUp(r.exn)
      BY <1>4, <2>1 DEF CommitStep
    <2>3. /\ r.exn = "ConflictException" /\ update.type = "UPDATE"
          /\ \E i \in Ids : /\ Undone(update, store)[i] # Absent
                            /\ Clash(indexes[pos], Undone(update, store)[i], update.new)
      BY <1>4, <2>1, CommitLaw
    <2> HIDE DEF r
    <2> QED BY <1>2, <1>4, <2>2, <2>3 DEF GiveUp, Exception, CommitStep
  <1> QED BY <1>1, <1>3, <1>4

(* Whatever indexes a collection has, a mutation of an intact one is given *)
(* up for a conflict only, and leaves the indexes in order: in the first   *)
(* loop all at the old contents; in the second, the ones before the index  *)
(* that threw at the new contents, the ones after it at the old ones, and  *)
(* that index without the item.                                            *)
THEOREM AbortIsOrderlyCorrect ==
  ASSUME Undefined \notin Value
  PROVE  Spec => AbortIsOrderly
  <1> DEFINE before == Undone(update, store)
  <1>1. ASSUME SyncInv, [Next]_vars, Intact, torn' # {}, NEW j \in 1 .. Len(indexes)
        PROVE  IF phase = "commit" /\ j = pos
               THEN Stopped(indexes[j], ix'[j], update, before)
               ELSE Mirrors(indexes[j], ix'[j],
                            IF phase = "commit" /\ j < pos THEN store ELSE before)
    <2> DEFINE r == IF phase = "prepare" THEN OnUpdate(indexes[pos], ix[pos], update)
                                         ELSE Hook(indexes[pos], ix[pos], update)
    <2>1. /\ (PrepareStep /\ phase = "prepare") \/ (CommitStep /\ phase = "commit")
          /\ r.exn # "none" /\ ix' = [ix EXCEPT ![pos] = r.ix]
      BY <1>1, GivenUp DEF PrepareStep, CommitStep
    <2>2. /\ ix = [l \in 1 .. Len(indexes) |-> ix[l]] /\ pos \in Nat /\ Len(indexes) \in Nat
      BY <1>1 DEF SyncInv, StoreInv, TypeOK
    <2>3. Mirrors(indexes[j], ix[j], IF phase = "commit" /\ j < pos THEN store ELSE before)
      BY <1>1, <2>1, <2>2 DEF SyncInv, Sync, Expected
    <2>4. IF phase = "commit" THEN Stopped(indexes[pos], r.ix, update, before)
                              ELSE Mirrors(indexes[pos], r.ix, before)
      BY <1>1, <2>1, AskLaw, CommitLaw
    <2> HIDE DEF r, before
    <2>5. ix'[j] = IF j = pos THEN r.ix ELSE ix[j]
      BY <1>1, <2>1, <2>2
    <2>6. CASE j = pos
      BY <2>2, <2>4, <2>5, <2>6
    <2>7. CASE j # pos
      BY <2>3, <2>5, <2>7
    <2> QED BY <2>6, <2>7
  <1>2. SyncInv /\ [Next]_vars =>
          [Intact /\ torn' # {} =>
             /\ exn'.type = "ConflictException"
             /\ \A j \in 1 .. Len(indexes) :
                  IF phase = "commit" /\ j = pos
                  THEN Stopped(indexes[j], ix'[j], update, before)
                  ELSE Mirrors(indexes[j], ix'[j],
                               IF phase = "commit" /\ j < pos THEN store ELSE before)]_vars
    BY <1>1, ConflictLaw
  <1> QED BY <1>2, SyncInvariant, PTL DEF Spec, AbortIsOrderly

(* An index refuses an item that is new to the collection only for the key *)
(* of another item in the store.                                           *)
THEOREM ConflictIsRealCorrect ==
  ASSUME Undefined \notin Value
  PROVE  Spec => ConflictIsReal
  <1>1. ASSUME SyncInv, [Next]_vars, Intact, torn' # {}, update.type = "ADD"
        PROVE  \E i \in Occupied(store) \ {update.id} :
                 Clash(indexes[pos], store[i], update.new)
    <2> DEFINE before == Undone(update, store)
    <2>1. PICK i \in Ids : before[i] # Absent /\ Clash(indexes[pos], before[i], update.new)
      BY <1>1, ConflictLaw
    <2>2. store \in Stores(Value) /\ update.id \in Ids
      BY <1>1, ConflictLaw, UpdateCases DEF SyncInv, StoreInv, TypeOK
    <2>3. before[update.id] = Absent /\ (i # update.id => before[i] = store[i])
      BY <1>1, <2>2 DEF Undone, Stores
    <2> HIDE DEF before
    <2> QED BY <2>1, <2>3 DEF Occupied
  <1>2. SyncInv /\ [Next]_vars =>
          [Intact /\ torn' # {} /\ update.type = "ADD" =>
             \E i \in Occupied(store) \ {update.id} :
               Clash(indexes[pos], store[i], update.new)]_vars
    BY <1>1
  <1> QED BY <1>2, SyncInvariant, PTL DEF Spec, ConflictIsReal

-----------------------------------------------------------------------------
(* How registerIndex may fail.                                             *)

(* Only a turn of its loop ends registerIndex without the new index. *)
LEMMA BuildGivenUp ==
  ASSUME TypeOK, [Next]_vars, phase = "build", phase' = "idle", UNCHANGED indexes
  PROVE  \E id \in Ids : BuildStep(id)
  <1>1. ~ BuildDone
    <2> SUFFICES ASSUME BuildDone PROVE FALSE
      OBVIOUS
    <2>1. Len(indexes') = Len(indexes) + 1 /\ Len(indexes) \in Nat
      BY DEF BuildDone, TypeOK
    <2> QED BY <2>1
  <1> QED BY <1>1 DEF Next, Step, Call, PrepareStep, PrepareDone, CommitStep,
                CommitDone, Add, Delete, Set, Alter, AlterReturn, AlterThrow,
                RegisterIndex, vars

(* registerIndex over an intact collection fails only if the store holds   *)
(* two items the new index does not admit together.  The index being built *)
(* mirrors the items it has been shown (Sync), so that the one it refuses  *)
(* clashes with one of those; and once it has agreed to an ADD its hook    *)
(* does not throw.                                                         *)
THEOREM RegisterRefusesClashesCorrect ==
  ASSUME Undefined \notin Value
  PROVE  Spec => RegisterRefusesClashes
  <1>1. ASSUME SyncInv, [Next]_vars, Intact, phase = "build", phase' = "idle",
               UNCHANGED indexes
        PROVE  /\ exn'.type = "ConflictException"
               /\ \E i1, i2 \in Occupied(store) :
                    i1 # i2 /\ Clash(building.desc, store[i1], store[i2])
    <2>0. TypeOK
      BY <1>1 DEF SyncInv, StoreInv
    <2>1. PICK id \in Ids : BuildStep(id)
      BY <1>1, <2>0, BuildGivenUp
    <2> DEFINE add == AddUpdate(id, store[id])
               asked == OnUpdate(building.desc, building.made, add)
               r == IF asked.exn = "none" THEN Hook(building.desc, asked.ix, add)
                                          ELSE asked
    <2>2. /\ id \in building.todo /\ r.exn # "none"
          /\ exn' = Exception(r.exn, id, 0)
      BY <1>1, <2>1 DEF BuildStep
    <2>3. /\ building \in [desc : Descs, made : IndexStates(building.desc),
                           todo : SUBSET Occupied(store)]
          /\ store \in Stores(Value)
      BY <1>1, <2>0 DEF TypeOK
    <2>4. /\ building.desc \in IndexDescs
          /\ building.made \in IndexStates(building.desc)
          /\ id \in Occupied(store) /\ store[id] \in Value
      BY <2>2, <2>3, DescsAssumption DEF Occupied, Stores
    <2>5. add \in UpdatesOf(Value) /\ add.id = id /\ add.type = "ADD" /\ add.new = store[id]
      BY <2>4, UpdateTypes DEF AddUpdate
    <2>6. Visited \in Stores(Value)
      BY <2>3 DEF Visited, Stores
    <2> HIDE DEF add
    <2>7. Describes(add, Visited)
      BY <2>2, <2>5 DEF Describes, Visited
    <2>8. Mirrors(building.desc, building.made, Visited)
      BY <1>1 DEF SyncInv, Sync
    <2>9. /\ asked.exn \in {"none", "ConflictException"}
          /\ asked.exn = "none" =>
               Mirrors(building.desc, asked.ix, Visited) /\ Accepted(building.desc, asked.ix, add)
          /\ asked.exn # "none" =>
               \E i \in Ids : Visited[i] # Absent /\ Clash(building.desc, Visited[i], add.new)
      BY <2>4, <2>5, <2>6, <2>7, <2>8, OnUpdateLaw
    <2>10. asked.ix \in IndexStates(building.desc)
      BY <2>4, <2>5, IndexType
    <2>11. asked.exn # "none"
      <3> SUFFICES ASSUME asked.exn = "none" PROVE FALSE
        OBVIOUS
      <3>1. Hook(building.desc, asked.ix, add).exn = "none"
        BY <2>4, <2>5, <2>6, <2>7, <2>9, <2>10, HookLaw
      <3> QED BY <2>2, <3>1
    <2>12. exn'.type = "ConflictException"
      BY <2>2, <2>9, <2>11 DEF Exception
    <2>13. PICK i \in Ids : Visited[i] # Absent /\ Clash(building.desc, Visited[i], add.new)
      BY <2>9, <2>11
    <2>14. i \in Occupied(store) /\ i # id /\ Visited[i] = store[i]
      BY <2>2, <2>13 DEF Visited, Occupied
    <2> QED BY <2>4, <2>5, <2>12, <2>13, <2>14
  <1>2. SyncInv /\ [Next]_vars =>
          [Intact /\ phase = "build" /\ phase' = "idle" /\ UNCHANGED indexes =>
             /\ exn'.type = "ConflictException"
             /\ \E i1, i2 \in Occupied(store) :
                  i1 # i2 /\ Clash(building.desc, store[i1], store[i2])]_vars
    BY <1>1
  <1> QED BY <1>2, SyncInvariant, PTL DEF Spec, RegisterRefusesClashes

-----------------------------------------------------------------------------
(* After a failure.  DamageIsLocal is inductive together with StoreInv:    *)
(* unlike Sync it needs nothing to be accepted, because an id whose update *)
(* is given up is one it does not speak of any more.                       *)

LEMMA ExpectedLaw ==
  ASSUME StoreInv, NEW i \in Ids, NEW j
  PROVE  /\ store[i] \in Value \cup {Absent} /\ Expected(j)[i] \in Value \cup {Absent}
         /\ phase = "idle" \/ phase = "build" \/ i # update.id => Expected(j)[i] = store[i]
         /\ phase \in {"prepare", "commit"} /\ i = update.id =>
              Undone(update, store)[i] = Before(update) /\ store[i] = After(update)
  <1>1. store \in Stores(Value) /\ phase \in {"idle", "prepare", "commit", "build"}
    BY DEF StoreInv, TypeOK
  <1>2. store[i] \in Value \cup {Absent}
    BY <1>1 DEF Stores
  <1>3. CASE phase \in {"prepare", "commit"}
    <2>1. update \in UpdatesOf(Value)
      BY <1>3 DEF StoreInv, TypeOK
    <2>2. Before(update) \in Value \cup {Absent} /\ update.id \in Ids
      BY <2>1, UpdateCases DEF Before
    <2>3. Undone(update, store)[i] = IF i = update.id THEN Before(update) ELSE store[i]
      BY <1>1, <2>2 DEF Undone, Stores, Before
    <2>4. i = update.id => store[i] = After(update)
      BY <1>3 DEF StoreInv, UpdateFits, After
    <2>5. Expected(j) \in {store, Undone(update, store)}
      BY DEF Expected
    <2> QED BY <1>2, <1>3, <2>2, <2>3, <2>4, <2>5
  <1>4. CASE phase \notin {"prepare", "commit"}
    <2>1. Expected(j) = store
      BY <1>4 DEF Expected
    <2> QED BY <1>2, <1>4, <2>1
  <1> QED BY <1>3, <1>4

LEMMA MutationDamage ==
  ASSUME StoreInv, DamageIsLocal, phase = "idle", ~ wrapped' => ~ wrapped,
         NEW u \in UpdatesOf(Value), Describes(u, store) \/ wrapped',
         store' = Applied(u, store), Propagate(u), UNCHANGED <<torn, indexVars>>
  PROVE  DamageIsLocal'
  <1> SUFFICES ASSUME ~ wrapped' PROVE DamageIsLocal'
    BY DEF DamageIsLocal
  <1>1. store \in Stores(Value) /\ u.id \in Ids
    BY UpdateCases DEF StoreInv, TypeOK
  <1>2. Undone(u, store') = store
    BY <1>1 DEF Describes, Applied, Undone, Stores
  <1>3. /\ phase' = "prepare" /\ update' = u
        /\ indexes' = indexes /\ ix' = ix /\ torn' = torn
    BY DEF Propagate, indexVars
  <1>4. \A i \in Ids \ torn : \A j \in 1 .. Len(indexes) : Files(indexes[j], ix[j], i, store[i])
    BY DEF DamageIsLocal, Expected
  <1>5. \A j : Expected(j)' = store
    BY <1>2, <1>3 DEF Expected
  <1> QED BY <1>3, <1>4, <1>5 DEF DamageIsLocal

LEMMA SetDamage ==
  ASSUME StoreInv, DamageIsLocal, Undefined \notin Value, phase = "idle", NEW id \in Ids,
         NEW v \in Value, SetTo(id, v), UNCHANGED <<torn, wrapped, indexVars>>
  PROVE  DamageIsLocal'
  <1> DEFINE u == IF GetFrom(store, id) = Undefined THEN AddUpdate(id, v)
                  ELSE UpdateUpdate(id, GetFrom(store, id), v)
  <1>0. store \in Stores(Value)
    BY DEF StoreInv, TypeOK
  <1>1. u \in UpdatesOf(Value)
    BY <1>0, GetFromType, UpdateTypes
  <1>2. Describes(u, store)
    BY <1>0, GetFromType DEF Describes, AddUpdate, UpdateUpdate
  <1>3. store' = Applied(u, store) /\ Propagate(u)
    BY DEF SetTo, Applied, AddUpdate, UpdateUpdate
  <1> HIDE DEF u
  <1> QED BY <1>1, <1>2, <1>3, MutationDamage

LEMMA DeleteDamage ==
  ASSUME StoreInv, DamageIsLocal, phase = "idle", NEW id \in Ids,
         GetFrom(store, id) # Undefined, DeleteExisting(id),
         UNCHANGED <<torn, wrapped, indexVars>>
  PROVE  DamageIsLocal'
  <1> DEFINE u == DeleteUpdate(id, GetFrom(store, id))
  <1>0. store \in Stores(Value)
    BY DEF StoreInv, TypeOK
  <1>1. u \in UpdatesOf(Value)
    BY <1>0, GetFromType, UpdateTypes
  <1>2. Describes(u, store)
    BY <1>0, GetFromType DEF Describes, DeleteUpdate
  <1>3. store' = Applied(u, store) /\ Propagate(u)
    BY DEF DeleteExisting, Applied, DeleteUpdate
  <1> HIDE DEF u
  <1> QED BY <1>1, <1>2, <1>3, MutationDamage

(* One turn of either loop, whether it throws or not. *)
LEMMA LoopDamage ==
  ASSUME StoreInv, DamageIsLocal, PrepareStep \/ CommitStep
  PROVE  DamageIsLocal'
  <1> DEFINE r == IF phase = "prepare" THEN OnUpdate(indexes[pos], ix[pos], update)
                                       ELSE Hook(indexes[pos], ix[pos], update)
  <1>1. /\ phase \in {"prepare", "commit"} /\ pos \in 1 .. Len(indexes)
        /\ ix = [j \in 1 .. Len(indexes) |-> ix[j]] /\ Len(indexes) \in Nat
        /\ update \in UpdatesOf(Value)
    BY DEF StoreInv, TypeOK, PrepareStep, CommitStep
  <1>2. /\ ix' = [ix EXCEPT ![pos] = r.ix]
        /\ UNCHANGED <<store, indexes, wrapped>> /\ phase' # "build"
        /\ \/ r.exn = "none" /\ pos' = pos + 1 /\ UNCHANGED <<phase, update, torn>>
           \/ phase' = "idle" /\ torn' = torn \cup {update.id}
    BY DEF PrepareStep, CommitStep, GiveUp
  <1>3. indexes[pos] \in IndexDescs /\ ix[pos] \in IndexStates(indexes[pos])
    BY <1>1, DescType DEF StoreInv
  <1> SUFFICES ASSUME ~ wrapped, NEW i \in Ids, i \notin torn', NEW j \in 1 .. Len(indexes)
               PROVE  Files(indexes[j], ix'[j], i, Expected(j)'[i])
    BY <1>2 DEF DamageIsLocal
  <1>4. i \notin torn /\ Files(indexes[j], ix[j], i, Expected(j)[i])
    BY <1>2 DEF DamageIsLocal
  <1>5. /\ Expected(j)[i] \in Value \cup {Absent}
        /\ i # update.id => Expected(j)[i] = store[i]
        /\ i = update.id =>
             Undone(update, store)[i] = Before(update) /\ store[i] = After(update)
    BY <1>1, ExpectedLaw
  <1>6. CASE j = pos
    <2>1. /\ Files(indexes[j], OnUpdate(indexes[j], ix[j], update).ix, i, Expected(j)[i])
          /\ i # update.id =>
               Files(indexes[j], Hook(indexes[j], ix[j], update).ix, i, Expected(j)[i])
          /\ i = update.id /\ Hook(indexes[j], ix[j], update).exn = "none"
               /\ Expected(j)[i] = Before(update) =>
               Files(indexes[j], Hook(indexes[j], ix[j], update).ix, i, After(update))
      BY <1>1, <1>3, <1>4, <1>5, <1>6, FilesLaw
    <2>2. ix'[j] = r.ix
      BY <1>1, <1>2, <1>6
    <2>3. CASE i # update.id
      <3>1. Files(indexes[j], r.ix, i, Expected(j)[i])
        BY <1>1, <1>6, <2>1, <2>3
      <3>2. Expected(j)'[i] = store[i]
        <4>1. CASE phase' = "idle"
          BY <1>2, <4>1 DEF Expected
        <4>2. CASE phase' = phase /\ update' = update
          <5>1. Undone(update, store)[i] = store[i]
            BY <1>1, <2>3, UpdateCases DEF Undone, StoreInv, TypeOK, Stores
          <5>2. Expected(j)' \in {store, Undone(update, store)}
            BY <1>2, <4>2 DEF Expected
          <5> QED BY <5>1, <5>2
        <4> QED BY <1>2, <4>1, <4>2
      <3> HIDE DEF r
      <3> QED BY <1>5, <2>2, <2>3, <3>1, <3>2
    <2>4. CASE i = update.id
      <3>1. r.exn = "none" /\ pos' = pos + 1 /\ UNCHANGED <<phase, update>>
        BY <1>2, <2>4
      <3>2. CASE phase = "prepare"
        <4>1. Expected(j)' = Expected(j)
          BY <1>2, <3>1, <3>2 DEF Expected
        <4> QED BY <1>6, <2>1, <2>2, <3>2, <4>1
      <3>3. CASE phase = "commit"
        <4>1. Expected(j) = Undone(update, store) /\ Expected(j)' = store
          BY <1>1, <1>2, <1>6, <3>1, <3>3 DEF Expected
        <4>2. r = Hook(indexes[j], ix[j], update)
          BY <1>6, <3>3
        <4> HIDE DEF r
        <4> QED BY <1>5, <2>1, <2>2, <2>4, <3>1, <4>1, <4>2
      <3> QED BY <1>1, <3>2, <3>3
    <2> QED BY <2>3, <2>4
  <1>7. CASE j # pos
    <2> HIDE DEF r
    <2>1. ix'[j] = ix[j]
      BY <1>1, <1>2, <1>7
    <2>2. CASE phase' = "idle" /\ torn' = torn \cup {update.id}
      <3>1. Expected(j)' = store /\ i # update.id
        BY <1>2, <2>2 DEF Expected
      <3> QED BY <1>4, <1>5, <2>1, <3>1
    <2>3. CASE pos' = pos + 1 /\ UNCHANGED <<phase, update>>
      <3>1. Expected(j)' = Expected(j)
        BY <1>1, <1>2, <1>7, <2>3 DEF Expected
      <3> QED BY <1>4, <2>1, <3>1
    <2> QED BY <1>2, <2>2, <2>3
  <1> QED BY <1>6, <1>7

(* One turn of the loop of registerIndex. *)
LEMMA BuildDamage ==
  ASSUME StoreInv, DamageIsLocal, NEW id \in Ids, BuildStep(id)
  PROVE  DamageIsLocal'
  <1> DEFINE add == AddUpdate(id, store[id])
             asked == OnUpdate(building.desc, building.made, add)
             r == IF asked.exn = "none" THEN Hook(building.desc, asked.ix, add)
                                        ELSE asked
  <1>1. /\ phase = "build" /\ id \in building.todo
        /\ UNCHANGED <<store, indexes, ix, torn, wrapped>>
    BY DEF BuildStep
  <1>2. /\ building \in [desc : Descs, made : IndexStates(building.desc),
                         todo : SUBSET Occupied(store)]
        /\ store \in Stores(Value)
    BY <1>1 DEF StoreInv, TypeOK
  <1>3. /\ building.desc \in IndexDescs /\ building.made \in IndexStates(building.desc)
        /\ store[id] \in Value
    BY <1>1, <1>2, DescsAssumption DEF Occupied, Stores
  <1>4. add \in UpdatesOf(Value) /\ add.id = id /\ Before(add) = Absent /\ After(add) = store[id]
    BY <1>3, UpdateTypes DEF AddUpdate, Before, After
  <1> HIDE DEF add
  <1> SUFFICES ASSUME ~ wrapped, NEW i \in Ids, i \notin torn
               PROVE  /\ \A j \in 1 .. Len(indexes) :
                           Files(indexes[j], ix[j], i, Expected(j)'[i])
                      /\ phase' = "build" => Files(building'.desc, building'.made, i, Visited'[i])
    BY <1>1 DEF DamageIsLocal
  <1>5. \A j \in 1 .. Len(indexes) : Files(indexes[j], ix[j], i, store[i])
    BY <1>1 DEF DamageIsLocal, Expected
  <1>6. phase' \in {"build", "idle"}
    BY <1>1 DEF BuildStep
  <1>7. \A j \in 1 .. Len(indexes) : Files(indexes[j], ix[j], i, Expected(j)'[i])
    BY <1>1, <1>5, <1>6 DEF Expected
  <1>8. ASSUME phase' = "build"
        PROVE  Files(building'.desc, building'.made, i, Visited'[i])
    <2>1. r.exn = "none" /\ building' = [building EXCEPT !.made = r.ix, !.todo = @ \ {id}]
      BY <1>8 DEF BuildStep, add
    <2>2. /\ Visited[i] \in Value \cup {Absent} /\ (i = id => Visited[i] = Absent)
          /\ Files(building.desc, building.made, i, Visited[i])
      BY <1>1, <1>2 DEF DamageIsLocal, Visited, Stores
    <2>3. asked.exn = "none" /\ r = Hook(building.desc, asked.ix, add)
      BY <2>1
    <2>4. /\ asked.ix \in IndexStates(building.desc)
          /\ Files(building.desc, asked.ix, i, Visited[i])
      BY <1>3, <1>4, <2>2, IndexType, FilesLaw
    <2> HIDE DEF asked, r
    <2>5. /\ i # id => Files(building.desc, r.ix, i, Visited[i])
          /\ i = id => Files(building.desc, r.ix, i, store[id])
      BY <1>3, <1>4, <2>1, <2>2, <2>3, <2>4, FilesLaw
    <2>6. /\ building'.desc = building.desc /\ building'.made = r.ix
          /\ building'.todo = building.todo \ {id}
      BY <1>2, <2>1
    <2>7. Visited'[i] = IF i = id THEN store[id] ELSE Visited[i]
      BY <1>1, <2>6 DEF Visited
    <2> QED BY <2>5, <2>6, <2>7
  <1> QED BY <1>7, <1>8

LEMMA DamageStep ==
  ASSUME StoreInv, DamageIsLocal, Undefined \notin Value, [Next]_vars
  PROVE  DamageIsLocal'
  <1>0. TypeOK
    BY DEF StoreInv
  <1>1. CASE PrepareStep \/ CommitStep
    BY <1>1, LoopDamage
  <1>2. CASE PrepareDone \/ CommitDone
    <2>1. /\ phase' # "build" /\ UNCHANGED <<indexes, ix, torn, wrapped>>
          /\ \/ /\ phase = "prepare" /\ phase' = "commit" /\ pos' = 1
                /\ UNCHANGED <<store, update>>
             \/ phase = "commit" /\ pos > Len(indexes) /\ phase' = "idle" /\ store' = store
      BY <1>2 DEF PrepareDone, CommitDone, indexVars
    <2>2. pos \in Nat /\ Len(indexes) \in Nat
      BY <1>0 DEF TypeOK
    <2>3. \A j \in 1 .. Len(indexes) : Expected(j)' = Expected(j)
      BY <2>1, <2>2 DEF Expected
    <2> QED BY <2>1, <2>3 DEF DamageIsLocal
  <1>3. ASSUME NEW id \in Ids, BuildStep(id) PROVE DamageIsLocal'
    BY <1>3, BuildDamage
  <1>4. CASE BuildDone
    <2>1. /\ phase = "build" /\ phase' = "idle" /\ building.todo = {} /\ store' = store
          /\ indexes' = Append(indexes, building.desc) /\ UNCHANGED <<torn, wrapped>>
      BY <1>4 DEF BuildDone
    <2>2. /\ Len(indexes) \in Nat /\ Len(indexes') = Len(indexes) + 1
          /\ \A j \in 1 .. Len(indexes') :
               indexes'[j] = IF j <= Len(indexes) THEN indexes[j] ELSE building.desc
      BY <1>0, <2>1 DEF TypeOK
    <2>3. \A j \in 1 .. Len(indexes') :
            ix'[j] = IF j <= Len(indexes) THEN ix[j] ELSE building.made
      BY <1>4, <2>2 DEF BuildDone
    <2>4. Visited = store
      BY <1>0, <2>1 DEF Visited, TypeOK, Stores
    <2>5. ~ wrapped => \A i \in Ids \ torn :
            /\ \A j \in 1 .. Len(indexes) : Files(indexes[j], ix[j], i, store[i])
            /\ Files(building.desc, building.made, i, store[i])
      BY <2>1, <2>4 DEF DamageIsLocal, Expected
    <2>6. \A j : Expected(j)' = store
      BY <2>1 DEF Expected
    <2> QED BY <2>1, <2>2, <2>3, <2>5, <2>6 DEF DamageIsLocal
  <1>5. ASSUME NEW value \in Value, Add(value) PROVE DamageIsLocal'
    <2> DEFINE u == AddUpdate(newId, value)
    <2>1. newId \in Ids /\ (newId # 0 => newId = last + 1) /\ last \in Ids
      BY newIdType, <1>0 DEF TypeOK
    <2>2. u \in UpdatesOf(Value)
      BY <2>1, UpdateTypes
    <2>3. Describes(u, store) \/ wrapped'
      <3> SUFFICES ASSUME ~ wrapped' PROVE store[newId] = Absent
        BY DEF Describes, AddUpdate
      <3>1. newId = last + 1 /\ ~ wrapped
        BY <1>5, <2>1 DEF Add
      <3>2. newId \notin Occupied(store)
        BY <2>1, <3>1 DEF StoreInv, IdsBelowLast, Ids
      <3> QED BY <2>1, <3>2 DEF Occupied
    <2>4. /\ phase = "idle" /\ store' = Applied(u, store) /\ Propagate(u)
          /\ UNCHANGED <<torn, indexVars>> /\ (~ wrapped' => ~ wrapped)
      BY <1>5 DEF Add, Applied, AddUpdate
    <2> HIDE DEF u
    <2> QED BY <2>2, <2>3, <2>4, MutationDamage
  <1>6. ASSUME NEW id \in Ids, Delete(id) PROVE DamageIsLocal'
    BY <1>6, DeleteDamage DEF Delete
  <1>7. ASSUME NEW id \in Ids, NEW value \in Value, Set(id, value) PROVE DamageIsLocal'
    BY <1>7, SetDamage DEF Set
  <1>8. ASSUME phase = "idle", phase' = "idle",
               UNCHANGED <<store, indexes, ix, torn, wrapped>>
        PROVE  DamageIsLocal'
    BY <1>8 DEF DamageIsLocal, Expected
  <1>9. ASSUME NEW id \in Ids, NEW adjust \in BOOLEAN, Alter(id, adjust)
        PROVE  DamageIsLocal'
    <2>1. CASE Truthy(GetFrom(store, id))
      BY <1>9, <2>1, DeleteDamage DEF Alter, Truthy
    <2>2. CASE ~ Truthy(GetFrom(store, id))
      BY <1>8, <1>9, <2>2 DEF Alter, indexVars
    <2> QED BY <2>1, <2>2
  <1>10. ASSUME NEW post \in Value \cup {Undefined}, AlterReturn(post)
         PROVE  DamageIsLocal'
    <2>1. CASE Truthy(post)
      <3>1. TopFrame.id \in Ids
        BY <1>0, <1>10, FrameTypes DEF AlterReturn, TypeOK, Frames
      <3> QED BY <1>10, <2>1, <3>1, SetDamage DEF AlterReturn, Truthy
    <2>2. CASE ~ Truthy(post)
      BY <1>8, <1>10, <2>2 DEF AlterReturn, indexVars
    <2> QED BY <2>1, <2>2
  <1>11. CASE AlterThrow
    BY <1>8, <1>11 DEF AlterThrow, indexVars
  <1>12. ASSUME NEW desc \in Descs, RegisterIndex(desc) PROVE DamageIsLocal'
    <2>1. /\ phase = "idle" /\ phase' = "build"
          /\ UNCHANGED <<store, indexes, ix, torn, wrapped>>
          /\ building' = [desc |-> desc, made |-> Empty(desc), todo |-> Occupied(store)]
      BY <1>12 DEF RegisterIndex
    <2>2. \A i \in Ids : Visited'[i] = Absent
      BY <2>1 DEF Visited, Occupied
    <2>3. \A i \in Ids : Files(building'.desc, building'.made, i, Visited'[i])
      BY <2>1, <2>2, EmptyFiles, DescsAssumption
    <2> QED BY <2>1, <2>3 DEF DamageIsLocal, Expected
  <1>13. CASE UNCHANGED vars
    BY <1>13 DEF vars, DamageIsLocal, Expected, Visited
  <1> QED BY <1>1, <1>2, <1>3, <1>4, <1>5, <1>6, <1>7, <1>9, <1>10, <1>11, <1>12, <1>13
          DEF Next, Step, Call

(* Also after mutations were given up, and however many: until the counter *)
(* overflows, hash and btree indexes, behind any premap and group and in   *)
(* any zip, file every id of no such mutation where its item belongs and   *)
(* nowhere else.                                                           *)
THEOREM DamageIsLocalCorrect ==
  ASSUME Undefined \notin Value
  PROVE  Spec => []DamageIsLocal
  <1>1. Init => DamageIsLocal
    <2> SUFFICES ASSUME Init PROVE DamageIsLocal
      OBVIOUS
    <2>1. Len(indexes) = 0 /\ phase = "idle"
      BY DEF Init
    <2>2. 1 .. Len(indexes) = {}
      BY <2>1
    <2> QED BY <2>1, <2>2 DEF DamageIsLocal
  <1>2. StoreInv /\ DamageIsLocal /\ [Next]_vars => DamageIsLocal'
    BY DamageStep
  <1> QED BY <1>1, <1>2, StoreCorrect, PTL DEF Spec
=============================================================================
