------------------------------ MODULE Updates ------------------------------
(***************************************************************************)
(* The change events a Collection sends to its indexes (core/Update.ts),   *)
(* and the vocabulary every other module shares: ids, stored values, index *)
(* keys and the two kinds of "nothing" a JavaScript Map can answer with.   *)
(*                                                                         *)
(* A JavaScript Map is a total function here: Absent marks a key the Map   *)
(* has no entry for.  That is not the same as an entry whose value is      *)
(* Undefined, although Map.get answers undefined to both (see GetFrom).    *)
(***************************************************************************)
EXTENDS Naturals

CONSTANTS
  MaxId,      \* the largest id: 2^64 - 1 in the code
  Value,      \* the items, T in Collection<T>
  Key,        \* what an index files an item under, In in Index<In, Out>
  Undefined,  \* JavaScript's undefined
  Absent      \* no entry in a Map

Ids == 0 .. MaxId

ASSUME MaxIdAssumption == MaxId \in Nat

ASSUME AbsentAssumption ==
  /\ Absent \notin Value \cup Key \cup {Undefined}
  /\ Absent \notin Ids
  /\ \A s \in SUBSET Ids : Absent # s

ASSUME KeyAssumption == Undefined \notin Key

(* Id-indexed Maps over a set S of values: the store, or what an inner     *)
(* index is shown of it.                                                   *)
Stores(S) == [Ids -> S \cup {Absent}]

EmptyStore == [i \in Ids |-> Absent]

(* IdMap.get, as core/Collection.ts sees it. *)
GetFrom(m, k) == IF m[k] = Absent THEN Undefined ELSE m[k]

-----------------------------------------------------------------------------
(* The three update records.  They share one shape: `old` of an ADD and    *)
(* `new` of a DELETE are fields the code's record does not have.           *)

AddUpdate(id, value) ==
  [type |-> "ADD", id |-> id, old |-> Undefined, new |-> value]

UpdateUpdate(id, oldValue, newValue) ==
  [type |-> "UPDATE", id |-> id, old |-> oldValue, new |-> newValue]

DeleteUpdate(id, oldValue) ==
  [type |-> "DELETE", id |-> id, old |-> oldValue, new |-> Undefined]

NoUpdate == [type |-> "NONE", id |-> 0, old |-> Undefined, new |-> Undefined]

UpdatesOf(S) ==
  {AddUpdate(i, v) : i \in Ids, v \in S}
    \cup {UpdateUpdate(i, v, w) : i \in Ids, v \in S, w \in S}
    \cup {DeleteUpdate(i, v) : i \in Ids, v \in S}

(* filterMapUpdate: maps the values of an update through f, which may      *)
(* answer Undefined for "leave this item out".  An UPDATE across that      *)
(* border turns into an ADD or a DELETE.                                   *)
filterMapUpdate(f, u) ==
  LET old == f[u.old]
      new == f[u.new]
  IN  CASE u.type = "ADD" ->
             IF new = Undefined THEN NoUpdate ELSE AddUpdate(u.id, new)
        [] u.type = "UPDATE" ->
             IF old = Undefined
             THEN IF new = Undefined THEN NoUpdate ELSE AddUpdate(u.id, new)
             ELSE IF new = Undefined THEN DeleteUpdate(u.id, old)
                                     ELSE UpdateUpdate(u.id, old, new)
        [] u.type = "DELETE" ->
             IF old = Undefined THEN NoUpdate ELSE DeleteUpdate(u.id, old)

-----------------------------------------------------------------------------
(* What one call of an index's code comes to: the index afterwards, and    *)
(* the exception it ended with.  An exception does not undo what the call  *)
(* changed before it was thrown.                                           *)

Done(ix) == [exn |-> "none", ix |-> ix]

Thrown(exception, ix) == [exn |-> exception, ix |-> ix]

-----------------------------------------------------------------------------
(* The meaning of an update, independent of any index.                     *)

(* u describes a change of m: an ADD of an id m lacks, an UPDATE or DELETE *)
(* of exactly what m holds.                                                *)
Describes(u, m) ==
  IF u.type = "ADD" THEN m[u.id] = Absent ELSE m[u.id] = u.old

(* m after u. *)
Applied(u, m) ==
  [m EXCEPT ![u.id] = IF u.type = "DELETE" THEN Absent ELSE u.new]

(* m before u, given m after it. *)
Undone(u, m) ==
  [m EXCEPT ![u.id] = IF u.type = "ADD" THEN Absent ELSE u.old]

Without(id, m) == [m EXCEPT ![id] = Absent]

(* What an index behind premap(f) is entitled to see of m. *)
Premapped(f, m) ==
  [i \in Ids |-> IF m[i] = Absent \/ f[m[i]] = Undefined
                 THEN Absent ELSE f[m[i]]]

(* The ids m holds k under. *)
FiledUnder(k, m) == {i \in Ids : m[i] = k}

(* The buckets of an index that files every id of m under its key, and has *)
(* no entry for a key without ids.                                         *)
BucketsOf(m) ==
  [k \in Key |-> IF FiledUnder(k, m) = {} THEN Absent ELSE FiledUnder(k, m)]
=============================================================================
