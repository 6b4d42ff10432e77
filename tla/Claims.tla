------------------------------- MODULE Claims -------------------------------
(***************************************************************************)
(* What the documentation and the comments of the repository say of a      *)
(* collection, without the exceptions the code makes.  TLC refutes each of *)
(* these; the README tells how.                                            *)
(***************************************************************************)
EXTENDS Queries

(* Indexes "stay in sync with the collection automatically": between       *)
(* calls, every index registered with registerIndex mirrors the store.     *)
StaysInSync ==
  phase = "idle" =>
    \A j \in 1 .. Len(indexes) : Mirrors(indexes[j], ix[j], store)

(* UniqueHashIndex "throws a ConflictException if a duplicate item is      *)
(* added": a conflict of an intact collection involves two items.          *)
ConflictMeansDuplicate ==
  [][Intact /\ torn' # {} =>
       \E i \in Occupied(store) \ {update.id} :
         Clash(indexes[pos], store[i], update.new)]_vars

(* A ConflictException is a "conflict with existing id existingId": the    *)
(* unique index that threw it has that id.                                 *)
ConflictNamesExisting ==
  (exn.type = "ConflictException" /\ exn.index # 0) =>
    (indexes[exn.index].kind = "unique" =>
      \E k \in Key : ix[exn.index][k] = exn.id)

(* alter stores what its callback answers: "if the new value is undefined, *)
(* existing item is deleted"; and adjust "updates a value in the           *)
(* collection, if it exists".                                              *)
AlterStores ==
  [][\A post \in Value \cup {Undefined} :
       AlterReturn(post) => GetFrom(store', TopFrame.id) = post]_vars

(* "Every value in the collection is assigned a unique ID": add takes one  *)
(* that no other value in the collection has.                              *)
IdsAreUnique ==
  [][\A value \in Value : Add(value) => newId \notin Occupied(store)]_vars

(* BTreeIndex.range "returns at most `limit` items". *)
RangeLimit ==
  Intact /\ phase = "idle" =>
    \A j \in 1 .. Len(indexes) :
      indexes[j].kind = "btree" =>
        \A lo, hi \in Key, limit \in 1 .. MaxId :
          Cardinality(range(ix[j], lo, hi, limit)) <= limit
=============================================================================
