------------------------------ MODULE KeyedMap ------------------------------
(***************************************************************************)
(* What a Collection promises a caller who looks at it between calls: a    *)
(* map from ids to items that every mutation changes in one step, and that *)
(* holds no two items a registered index does not admit together.          *)
(*                                                                         *)
(* The promise ends with the first mutation an index refuses (the item it  *)
(* refused stays in the map) and with the overflow of the id counter.      *)
(***************************************************************************)
EXTENDS Naturals, Sequences

CONSTANTS
  Ids, Value, Absent,
  Descs,     \* what indexes there are
  Conflicts  \* Conflicts[d]: the pairs of items an index d does not admit

VARIABLES
  items,   \* the item under each id, Absent if there is none
  descs,   \* the registered indexes
  failed   \* why the promise has ended, or "no"

vars == <<items, descs, failed>>

InUse == {i \in Ids : items[i] # Absent}

Admitted(d, m) ==
  \A i1, i2 \in Ids :
    i1 # i2 /\ m[i1] # Absent /\ m[i2] # Absent =>
      <<m[i1], m[i2]>> \notin Conflicts[d]

Init ==
  /\ items = [i \in Ids |-> Absent]
  /\ descs = <<>>
  /\ failed = "no"

(* add, set or delete, or one of the two changes of alter and adjust. *)
Mutate(id, new) ==
  /\ failed = "no"
  /\ items' = [items EXCEPT ![id] = new]
  /\ \A j \in 1 .. Len(descs) : Admitted(descs[j], items')
  /\ UNCHANGED <<descs, failed>>

Register(d) ==
  /\ failed = "no"
  /\ Admitted(d, items)
  /\ descs' = Append(descs, d)
  /\ UNCHANGED <<items, failed>>

(* A registered index does not admit the new item together with one that   *)
(* is there; that may be the very item the new one was to replace.         *)
Refuse(id, new) ==
  /\ failed = "no"
  /\ \E j \in 1 .. Len(descs), i \in InUse :
       <<items[i], new>> \in Conflicts[descs[j]]
  /\ items' = [items EXCEPT ![id] = new]
  /\ failed' = "conflict"
  /\ UNCHANGED descs

(* The next id is 0, which may be in use. *)
Exhaust ==
  /\ failed = "no"
  /\ failed' = "exhausted"
  /\ UNCHANGED descs

NoPromise == failed # "no" /\ failed' # "no"

Next ==
  \/ \E id \in Ids, new \in Value \cup {Absent} : Mutate(id, new)
  \/ \E d \in Descs : Register(d)
  \/ \E id \in Ids, new \in Value : Refuse(id, new)
  \/ Exhaust
  \/ NoPromise

Spec == Init /\ [][Next]_vars
=============================================================================
