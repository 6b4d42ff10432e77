----------------------------- MODULE BTreeIndex -----------------------------
(***************************************************************************)
(* indexes/BTreeIndex.ts: a sorted-btree BTree from keys to the IdSet of   *)
(* the items filed under them.  The tree is a Map whose keys it can also   *)
(* enumerate in order, which only range, max and min depend on.            *)
(***************************************************************************)
EXTENDS Updates

BTreeStates == [Key -> (SUBSET Ids) \cup {Absent}]

BTreeEmpty == [k \in Key |-> Absent]

BTreeAdd(ix, id, key) ==
  [ix EXCEPT ![key] = IF ix[key] = Absent THEN {id} ELSE ix[key] \cup {id}]

(* Unlike HashIndex, a key without a bucket is tolerated. *)
BTreeDelete(ix, id, key) ==
  [ix EXCEPT ![key] = IF ix[key] = Absent \/ ix[key] \ {id} = {}
                      THEN Absent ELSE ix[key] \ {id}]

BTreeUpdate(ix, id, oldKey, newKey) ==
  IF oldKey = newKey THEN ix
                     ELSE BTreeAdd(BTreeDelete(ix, id, oldKey), id, newKey)

BTreeHook(ix, u) ==
  Done(CASE u.type = "ADD"    -> BTreeAdd(ix, u.id, u.new)
         [] u.type = "UPDATE" -> BTreeUpdate(ix, u.id, u.old, u.new)
         [] u.type = "DELETE" -> BTreeDelete(ix, u.id, u.old))

BTreeMirrors(ix, m) == ix = BucketsOf(m)
=============================================================================
