----------------------------- MODULE Refinement -----------------------------
(***************************************************************************)
(* Collection implements KeyedMap.  While propagateUpdate is under way the *)
(* store has been written already, but the indexes have not all followed:  *)
(* to the abstract map the mutation has not happened yet.  It happens when *)
(* the second loop is over, or when an exception leaves the store as it is.*)
(***************************************************************************)
EXTENDS Collection

Settled == IF phase \in {"prepare", "commit"} THEN Undone(update, store) ELSE store

Failure == IF wrapped THEN "exhausted" ELSE IF torn # {} THEN "conflict" ELSE "no"

Clashes == [d \in Descs |-> {p \in Value \X Value : Clash(d, p[1], p[2])}]

Map == INSTANCE KeyedMap WITH
         Conflicts <- Clashes, items <- Settled, descs <- indexes, failed <- Failure

(* Between calls a collection is a map that changes atomically: no partly  *)
(* applied mutation is ever visible, an index is only registered over      *)
(* items it admits, a mutation is only refused for a conflict that is      *)
(* there, and a refused one leaves exactly its own item behind.            *)
IsKeyedMap == Map!Spec
=============================================================================
