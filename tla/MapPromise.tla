----------------------------- MODULE MapPromise -----------------------------
(***************************************************************************)
(* What util/IdMap.ts promises, without its two levels of Maps and their   *)
(* order: a function from ids to items, and an iteration over it that      *)
(* yields every item that is there from its beginning to its end exactly   *)
(* once.  An item put in while the iteration runs may or may not be        *)
(* yielded; that is settled when it is put in.                             *)
(***************************************************************************)

CONSTANTS
  Ids,
  Item,
  Absent  \* what an id without an item has

VARIABLES
  contents,  \* the item of every id
  due,       \* the ids the iteration will still yield
  phase,     \* "none", "next" (forEach looks for an item) or "callback"
  at         \* what the callback was called with

vars == <<contents, due, phase, at>>

Nothing == [id |-> Absent, item |-> Absent]

Init ==
  /\ contents = [id \in Ids |-> Absent]
  /\ due = {}
  /\ phase = "none"
  /\ at = Nothing

(* Replacing an item is not putting one in: whether it is yielded does not *)
(* change.                                                                 *)
Put(id, item) ==
  /\ phase # "next"
  /\ contents' = [contents EXCEPT ![id] = item]
  /\ \/ due' = due
     \/ phase = "callback" /\ contents[id] = Absent /\ due' = due \cup {id}
  /\ UNCHANGED <<phase, at>>

Remove(id) ==
  /\ phase # "next"
  /\ contents' = [contents EXCEPT ![id] = Absent]
  /\ due' = due \ {id}
  /\ UNCHANGED <<phase, at>>

Begin ==
  /\ phase = "none"
  /\ phase' = "next"
  /\ due' = {id \in Ids : contents[id] # Absent}
  /\ UNCHANGED <<contents, at>>

Visit(id) ==
  /\ phase = "next"
  /\ id \in due
  /\ due' = due \ {id}
  /\ at' = [id |-> id, item |-> contents[id]]
  /\ phase' = "callback"
  /\ UNCHANGED contents

GoOn ==
  /\ phase = "callback"
  /\ phase' = "next"
  /\ at' = Nothing
  /\ UNCHANGED <<contents, due>>

End ==
  /\ phase = "next"
  /\ due = {}
  /\ phase' = "none"
  /\ UNCHANGED <<contents, due, at>>

Next ==
  \/ \E id \in Ids, item \in Item : Put(id, item)
  \/ \E id \in Ids : Remove(id) \/ Visit(id)
  \/ Begin
  \/ GoOn
  \/ End

Spec == Init /\ [][Next]_vars
=============================================================================
