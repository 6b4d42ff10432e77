----------------------------- MODULE Collection -----------------------------
(***************************************************************************)
(* core/Collection.ts: a store of items under ids, and the indexes that    *)
(* are told of every change.                                               *)
(*                                                                         *)
(* Every mutation writes the store first and then calls propagateUpdate,   *)
(* which asks all indexes (phase "prepare") before it runs the hook of any *)
(* ("commit").  The two loops, and the loop of registerIndex ("build"),    *)
(* are taken one index or one item at a time.  The code is single-threaded *)
(* and runs a mutation to completion, so that a new call is only possible  *)
(* in phase "idle".  The callback of alter runs there: it may call the     *)
(* collection again, which is why pending calls of alter are a stack.      *)
(***************************************************************************)
EXTENDS Indexes

CONSTANTS
  Descs,       \* the descriptions of indexes that may be registered
  Falsy,       \* the items JavaScript converts to false
  MaxIndexes,  \* bound: how many indexes are registered
  MaxDepth     \* bound: how deep calls of alter nest

ASSUME DescsAssumption == Descs \subseteq IndexDescs

ASSUME BoundsAssumption == MaxIndexes \in Nat /\ MaxDepth \in Nat

VARIABLES
  last,     \* the id counter
  store,    \* the items
  indexes,  \* the descriptions of the registered indexes, in order
  ix,       \* the state of each
  phase,    \* "idle", "prepare", "commit" or "build"
  pos,      \* the index the loop of propagateUpdate has come to
  update,   \* the update being propagated
  building, \* the index being registered
  frames,   \* calls of alter and adjust under way, innermost last
  exn,      \* the exception the last call ended with
  torn,     \* history: the ids of mutations given up after they wrote the store
  wrapped   \* history: the id counter has overflowed

vars == <<last, store, indexes, ix, phase, pos, update, building, frames, exn,
          torn, wrapped>>

indexVars == <<indexes, ix, building>>

Truthy(v) == v \notin Falsy \cup {Undefined}

NoException == [type |-> "none", id |-> 0, value |-> Undefined, index |-> 0]

NoBuilding == [desc |-> Absent, made |-> Absent, todo |-> {}]

Occupied(m) == {i \in Ids : m[i] # Absent}

Init ==
  /\ last = 0
  /\ store = EmptyStore
  /\ indexes = <<>>
  /\ ix = <<>>
  /\ phase = "idle"
  /\ pos = 0
  /\ update = NoUpdate
  /\ building = NoBuilding
  /\ frames = <<>>
  /\ exn = NoException
  /\ torn = {}
  /\ wrapped = FALSE

-----------------------------------------------------------------------------
(* propagateUpdate.                                                        *)

Propagate(u) ==
  /\ phase' = "prepare"
  /\ pos' = 1
  /\ update' = u
  /\ exn' = NoException

(* alter calls delete before its callback: until that delete is over the   *)
(* frame is `deleting`, and an exception of the delete ends the alter.     *)
TopFrame == frames[Len(frames)]

InDeletingFrame == frames # <<>> /\ TopFrame.deleting

Pop(s) == SubSeq(s, 1, Len(s) - 1)

(* ConflictException looks the id it is given up in the store, which has   *)
(* been written by now.                                                    *)
Exception(type, id, index) ==
  [type |-> type, id |-> id, value |-> GetFrom(store, id), index |-> index]

(* A faulty GiveUp: propagateUpdate starts over when an index refuses. *)
GiveUpRetries(type) ==
  /\ phase' = "prepare"
  /\ pos' = 1
  /\ UNCHANGED <<update, exn, torn, frames>>

(* An exception out of propagateUpdate.  Nobody restores the store. *)
GiveUp(type) ==
  /\ phase' = "idle"
  /\ pos' = 0
  /\ update' = NoUpdate
  /\ exn' = Exception(type, update.id, pos)
  /\ torn' = torn \cup {update.id}
  /\ frames' = IF InDeletingFrame THEN Pop(frames) ELSE frames

(* A faulty PrepareStep: the hook is run as soon as the index has agreed. *)
PrepareStepCommits ==
  /\ phase = "prepare"
  /\ pos <= Len(indexes)
  /\ LET r == OnUpdate(indexes[pos], ix[pos], update)
     IN  \/ /\ r.exn = "none"
            /\ ix' = [ix EXCEPT ![pos] = Hook(indexes[pos], r.ix, update).ix]
            /\ pos' = pos + 1
            /\ UNCHANGED <<phase, update, frames, exn, torn>>
         \/ /\ r.exn # "none"
            /\ ix' = [ix EXCEPT ![pos] = r.ix]
            /\ GiveUp(r.exn)
  /\ UNCHANGED <<last, store, indexes, building, wrapped>>

PrepareStep ==
  /\ phase = "prepare"
  /\ pos <= Len(indexes)
  /\ LET r == OnUpdate(indexes[pos], ix[pos], update)
     IN  /\ ix' = [ix EXCEPT ![pos] = r.ix]
         /\ \/ /\ r.exn = "none"
               /\ pos' = pos + 1
               /\ UNCHANGED <<phase, update, frames, exn, torn>>
            \/ /\ r.exn # "none"
               /\ GiveUp(r.exn)
  /\ UNCHANGED <<last, store, indexes, building, wrapped>>

PrepareDone ==
  /\ phase = "prepare"
  /\ pos > Len(indexes)
  /\ phase' = "commit"
  /\ pos' = 1
  /\ UNCHANGED <<last, store, update, frames, exn, torn, wrapped, indexVars>>

CommitStep ==
  /\ phase = "commit"
  /\ pos <= Len(indexes)
  /\ LET r == Hook(indexes[pos], ix[pos], update)
     IN  /\ ix' = [ix EXCEPT ![pos] = r.ix]
         /\ \/ /\ r.exn = "none"
               /\ pos' = pos + 1
               /\ UNCHANGED <<phase, update, frames, exn, torn>>
            \/ /\ r.exn # "none"
               /\ GiveUp(r.exn)
  /\ UNCHANGED <<last, store, indexes, building, wrapped>>

(* The mutation returns; for the delete of an alter, to the callback. *)
CommitDone ==
  /\ phase = "commit"
  /\ pos > Len(indexes)
  /\ phase' = "idle"
  /\ pos' = 0
  /\ update' = NoUpdate
  /\ frames' = IF InDeletingFrame
               THEN [frames EXCEPT ![Len(frames)].deleting = FALSE]
               ELSE frames
  /\ UNCHANGED <<last, store, exn, torn, wrapped, indexVars>>

-----------------------------------------------------------------------------
(* The mutations.                                                          *)

(* A faulty newId: the counter outgrows its width. *)
newIdUnbounded == last + 1

(* newId: 64-bit addition wraps around. *)
newId == (last + 1) % (MaxId + 1)

Add(value) ==
  /\ phase = "idle"
  /\ last' = newId
  /\ wrapped' = (wrapped \/ newId = 0)
  /\ store' = [store EXCEPT ![newId] = value]
  /\ Propagate(AddUpdate(newId, value))
  /\ UNCHANGED <<frames, torn, indexVars>>

(* The effect of delete on an id that is in use. *)
DeleteExisting(id) ==
  /\ store' = [store EXCEPT ![id] = Absent]
  /\ Propagate(DeleteUpdate(id, GetFrom(store, id)))

Delete(id) ==
  /\ phase = "idle"
  /\ GetFrom(store, id) # Undefined
  /\ DeleteExisting(id)
  /\ UNCHANGED <<last, frames, torn, wrapped, indexVars>>

(* Faulty variants of SetTo: the item is taken for a new one; the counter  *)
(* is not moved past the id.                                               *)
SetToAdds(id, value) ==
  /\ last' = IF id > last THEN id ELSE last
  /\ store' = [store EXCEPT ![id] = value]
  /\ Propagate(AddUpdate(id, value))

SetToKeepsLast(id, value) ==
  /\ last' = last
  /\ store' = [store EXCEPT ![id] = value]
  /\ Propagate(IF GetFrom(store, id) = Undefined
               THEN AddUpdate(id, value)
               ELSE UpdateUpdate(id, GetFrom(store, id), value))

SetTo(id, value) ==
  /\ last' = IF id > last THEN id ELSE last
  /\ store' = [store EXCEPT ![id] = value]
  /\ Propagate(IF GetFrom(store, id) = Undefined
               THEN AddUpdate(id, value)
               ELSE UpdateUpdate(id, GetFrom(store, id), value))

Set(id, value) ==
  /\ phase = "idle"
  /\ SetTo(id, value)
  /\ UNCHANGED <<frames, torn, wrapped, indexVars>>

(* alter (and adjust, which wraps it) up to the call of its callback.  An  *)
(* item is only deleted if it is truthy.  adjust does not call its         *)
(* callback on a falsy one: then nothing is left to do.                    *)
Alter(id, adjust) ==
  LET pre == GetFrom(store, id)
      frame == [id |-> id, adjust |-> adjust, deleting |-> Truthy(pre)]
  IN  /\ phase = "idle"
      /\ Len(frames) < MaxDepth
      /\ adjust => Truthy(pre)
      /\ frames' = Append(frames, frame)
      /\ \/ Truthy(pre) /\ DeleteExisting(id)
         \/ /\ ~ Truthy(pre)
            /\ exn' = NoException
            /\ UNCHANGED <<store, phase, pos, update>>
      /\ UNCHANGED <<last, torn, wrapped, indexVars>>

(* A faulty AlterReturn: alter has deleted the item, so it does not look   *)
(* again whether its callback has put another one there.                   *)
AlterReturnUnchecked(post) ==
  /\ phase = "idle"
  /\ frames # <<>>
  /\ TopFrame.adjust => post \in Value
  /\ frames' = Pop(frames)
  /\ \/ Truthy(post) /\ SetToAdds(TopFrame.id, post)
     \/ /\ ~ Truthy(post)
        /\ exn' = NoException
        /\ UNCHANGED <<last, store, phase, pos, update>>
  /\ UNCHANGED <<torn, wrapped, indexVars>>

(* The callback returns post.  adjust's callback cannot return undefined   *)
(* unless that is an item.                                                 *)
AlterReturn(post) ==
  /\ phase = "idle"
  /\ frames # <<>>
  /\ TopFrame.adjust => post \in Value
  /\ frames' = Pop(frames)
  /\ \/ Truthy(post) /\ SetTo(TopFrame.id, post)
     \/ /\ ~ Truthy(post)
        /\ exn' = NoException
        /\ UNCHANGED <<last, store, phase, pos, update>>
  /\ UNCHANGED <<torn, wrapped, indexVars>>

(* The callback throws, or lets an exception of a nested call pass. *)
AlterThrow ==
  /\ phase = "idle"
  /\ frames # <<>>
  /\ frames' = Pop(frames)
  /\ exn' = [NoException EXCEPT !.type = "Callback"]
  /\ UNCHANGED <<last, store, phase, pos, update, torn, wrapped, indexVars>>

-----------------------------------------------------------------------------
(* registerIndex.  The store yields its items in an order of its own.      *)

RegisterIndex(desc) ==
  /\ phase = "idle"
  /\ Len(indexes) < MaxIndexes
  /\ phase' = "build"
  /\ building' = [desc |-> desc, made |-> Empty(desc), todo |-> Occupied(store)]
  /\ exn' = NoException
  /\ UNCHANGED <<last, store, indexes, ix, pos, update, frames, torn, wrapped>>

(* A faulty BuildStep: an item the new index refuses is left out. *)
BuildStepSkips(id) ==
  LET add == AddUpdate(id, store[id])
      asked == OnUpdate(building.desc, building.made, add)
      r == IF asked.exn = "none" THEN Hook(building.desc, asked.ix, add)
                                 ELSE asked
  IN  /\ phase = "build"
      /\ id \in building.todo
      /\ building' = [building EXCEPT !.made = r.ix, !.todo = @ \ {id}]
      /\ UNCHANGED <<last, store, indexes, ix, phase, pos, update, frames, exn,
                     torn, wrapped>>

(* One turn of the loop makes both phases.  The exception of either leaves *)
(* the collection without the new index.                                   *)
BuildStep(id) ==
  LET add == AddUpdate(id, store[id])
      asked == OnUpdate(building.desc, building.made, add)
      r == IF asked.exn = "none" THEN Hook(building.desc, asked.ix, add)
                                 ELSE asked
  IN  /\ phase = "build"
      /\ id \in building.todo
      /\ \/ /\ r.exn = "none"
            /\ building' = [building EXCEPT !.made = r.ix, !.todo = @ \ {id}]
            /\ UNCHANGED <<phase, exn>>
         \/ /\ r.exn # "none"
            /\ phase' = "idle"
            /\ building' = NoBuilding
            /\ exn' = Exception(r.exn, id, 0)
      /\ UNCHANGED <<last, store, indexes, ix, pos, update, frames, torn,
                     wrapped>>

BuildDone ==
  /\ phase = "build"
  /\ building.todo = {}
  /\ indexes' = Append(indexes, building.desc)
  /\ ix' = [j \in 1 .. Len(indexes) + 1 |->
             IF j <= Len(indexes) THEN ix[j] ELSE building.made]
  /\ phase' = "idle"
  /\ building' = NoBuilding
  /\ UNCHANGED <<last, store, pos, update, frames, exn, torn, wrapped>>

-----------------------------------------------------------------------------
Step ==
  \/ PrepareStep
  \/ PrepareDone
  \/ CommitStep
  \/ CommitDone
  \/ \E id \in Ids : BuildStep(id)
  \/ BuildDone

Call ==
  \/ \E value \in Value : Add(value)
  \/ \E id \in Ids : Delete(id)
  \/ \E id \in Ids, value \in Value : Set(id, value)
  \/ \E id \in Ids, adjust \in BOOLEAN : Alter(id, adjust)
  \/ \E post \in Value \cup {Undefined} : AlterReturn(post)
  \/ AlterThrow
  \/ \E desc \in Descs : RegisterIndex(desc)

Next == Step \/ Call

(* JavaScript runs a call to completion: once begun, its steps are taken.  *)
(* Nobody has to make a call, and a callback of alter need not return.     *)
Spec == Init /\ [][Next]_vars /\ WF_vars(Step)

-----------------------------------------------------------------------------
(* Types.                                                                  *)

Exceptions ==
  [type : {"none", "ConflictException", "TypeError", "Error", "Callback"},
   id : Ids, value : Value \cup {Undefined}, index : Nat]

TypeOK ==
  /\ last \in Ids
  /\ store \in Stores(Value)
  /\ indexes \in Seq(Descs)
  /\ ix = [j \in 1 .. Len(indexes) |-> ix[j]]
  /\ \A j \in 1 .. Len(indexes) : ix[j] \in IndexStates(indexes[j])
  /\ phase \in {"idle", "prepare", "commit", "build"}
  /\ pos \in Nat
  /\ update \in UpdatesOf(Value) \cup {NoUpdate}
  /\ phase \in {"prepare", "commit"} => pos >= 1 /\ update \in UpdatesOf(Value)
  /\ IF phase = "build"
     THEN building \in [desc : Descs, made : IndexStates(building.desc),
                        todo : SUBSET Occupied(store)]
     ELSE building = NoBuilding
  /\ frames \in Seq([id : Ids, adjust : BOOLEAN, deleting : BOOLEAN])
  /\ exn \in Exceptions
  /\ torn \subseteq Ids
  /\ wrapped \in BOOLEAN

-----------------------------------------------------------------------------
(* Safety.  No mutation has been given up halfway, and the id counter has  *)
(* not overflowed: what the code guarantees, it guarantees until then.     *)

Intact == torn = {} /\ ~ wrapped

(* The items the loop of registerIndex has shown to the new index. *)
Visited == [i \in Ids |-> IF i \in building.todo THEN Absent ELSE store[i]]

(* What index j should mirror now: propagateUpdate finds every index at    *)
(* the contents from before the update and its second loop brings them to  *)
(* the new contents one by one.                                            *)
Expected(j) ==
  IF phase = "prepare" \/ (phase = "commit" /\ j >= pos)
  THEN Undone(update, store) ELSE store

(* Every registered index holds exactly what the items in the store call   *)
(* for: between calls, and at each step of propagateUpdate and of the loop *)
(* of registerIndex (whenever the index was registered, and whichever mix  *)
(* of add, set, delete, alter and adjust came before).                     *)
Sync ==
  Intact =>
    /\ \A j \in 1 .. Len(indexes) : Mirrors(indexes[j], ix[j], Expected(j))
    /\ phase = "build" => Mirrors(building.desc, building.made, Visited)

(* No two items in the store have the same key in a uniqueHashIndex of the *)
(* collection, whether it stands alone, in a zip, or in a group (then: of  *)
(* the same group).                                                        *)
UniqueKeys ==
  Intact /\ phase = "idle" =>
    \A j \in 1 .. Len(indexes) : \A i1, i2 \in Occupied(store) :
      i1 # i2 => ~ Clash(indexes[j], store[i1], store[i2])

(* An index refuses an item that is new to the collection only for the key *)
(* of another item in the store: a key given up by delete, set, alter or   *)
(* adjust can be taken again.                                              *)
ConflictIsReal ==
  [][Intact /\ torn' # {} /\ update.type = "ADD" =>
       \E i \in Occupied(store) \ {update.id} :
         Clash(indexes[pos], store[i], update.new)]_vars

(* registerIndex fails only over a collection that holds two items the new *)
(* index does not admit together: it never runs into what it has filed     *)
(* itself, whatever the order in which the store yields its items.         *)
RegisterRefusesClashes ==
  [][Intact /\ phase = "build" /\ phase' = "idle" /\ UNCHANGED indexes =>
       /\ exn'.type = "ConflictException"
       /\ \E i1, i2 \in Occupied(store) :
            i1 # i2 /\ Clash(building.desc, store[i1], store[i2])]_vars

(* What newId hands out is above every id in use, including the ones set   *)
(* was called with: no item is overwritten by add, and no id is used again *)
(* for another item, while the counter has not overflowed.                 *)
FreshIds ==
  [][\A value \in Value : Add(value) /\ ~ wrapped' =>
       /\ last' > last
       /\ \A i \in Occupied(store) : i < last']_vars

(* No index is, or contains, a unique index inside a group. *)
AllSafe == \A j \in 1 .. Len(indexes) : indexes[j] \in SafeDescs

(* The only thing that stops a mutation of an intact collection is the     *)
(* ConflictException of a unique index, and it is thrown in the first loop *)
(* of propagateUpdate: no commit hook ever throws.  Said of collections    *)
(* without a unique index inside a group: for that one see AbortIsOrderly. *)
OnlyConflictsAbort ==
  [][Intact /\ AllSafe /\ torn' # {} =>
       phase = "prepare" /\ exn'.type = "ConflictException"]_vars

(* A mutation that is given up has changed no index: the indexes asked     *)
(* before the one that refused, and the one that refused, still mirror the *)
(* contents from before the call.  As before, without a unique index       *)
(* inside a group.                                                         *)
RefusalIsClean ==
  [][Intact /\ AllSafe /\ torn' # {} =>
       \A j \in 1 .. Len(indexes) :
         Mirrors(indexes[j], ix'[j], Undone(update, store))]_vars

(* What a mutation of an intact collection leaves when it is given up,     *)
(* with a unique index inside a group or not.  It is given up for a        *)
(* conflict, never for a TypeError.  In the first loop no index has        *)
(* changed.  In the second, where an item moves to a group that refuses    *)
(* it, the indexes before that one have followed the update, the ones      *)
(* after it have not, and the index itself has lost the item: it is no     *)
(* longer in the old group and not in the new one.                         *)
AbortIsOrderly ==
  [][Intact /\ torn' # {} =>
       LET before == Undone(update, store)
       IN  /\ exn'.type = "ConflictException"
           /\ \A j \in 1 .. Len(indexes) :
                IF phase = "commit" /\ j = pos
                THEN Stopped(indexes[j], ix'[j], update, before)
                ELSE Mirrors(indexes[j], ix'[j],
                             IF phase = "commit" /\ j < pos THEN store ELSE before)]_vars

(* Whatever has gone wrong before, no hash or btree index keeps a bucket   *)
(* without ids, which countDistinct would count and max and min would      *)
(* find.  (In a collection that is not intact, a bucket may hold an id the *)
(* store has lost.)                                                        *)
NoEmptyBuckets == \A j \in 1 .. Len(indexes) : Tidy(indexes[j], ix[j])

(* The damage of a mutation that is given up stays with its id: whatever   *)
(* is called afterwards, and whatever throws again, every other id is      *)
(* still filed by hash and btree indexes where its item belongs, and       *)
(* nowhere else.  (A unique index does not keep this: deleting a refused   *)
(* item frees the key of the item in its way.)                             *)
DamageIsLocal ==
  ~ wrapped =>
    \A i \in Ids \ torn :
      /\ \A j \in 1 .. Len(indexes) : Files(indexes[j], ix[j], i, Expected(j)[i])
      /\ phase = "build" => Files(building.desc, building.made, i, Visited[i])

(* Every call comes to an end: the loops of propagateUpdate and            *)
(* registerIndex terminate, and leave the collection open to the next call.*)
Settles == phase # "idle" ~> phase = "idle"

=============================================================================
