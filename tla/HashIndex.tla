----------------------------- MODULE HashIndex -----------------------------
(***************************************************************************)
(* indexes/HashIndex.ts: a Map from keys to the IdSet of the items filed   *)
(* under them.  An index is only a value here; the collection that owns it *)
(* is in module Collection.                                                *)
(***************************************************************************)
EXTENDS Updates

HashStates == [Key -> (SUBSET Ids) \cup {Absent}]

HashEmpty == [k \in Key |-> Absent]

HashAdd(ix, id, key) ==
  [ix EXCEPT ![key] = IF ix[key] = Absent THEN {id} ELSE ix[key] \cup {id}]

(* Faulty variants of HashDelete: the emptied bucket stays; a bucket with  *)
(* one id goes, whichever id that is.                                      *)
HashDeleteKeepsBucket(ix, id, key) == [ix EXCEPT ![key] = ix[key] \ {id}]

HashDeleteLast(ix, id, key) ==
  [ix EXCEPT ![key] = IF \E o \in ix[key] : ix[key] = {o} THEN Absent ELSE ix[key] \ {id}]

(* Only for a key that has a bucket: `set!.delete(id)` throws otherwise. *)
HashDelete(ix, id, key) ==
  [ix EXCEPT ![key] = IF ix[key] \ {id} = {} THEN Absent ELSE ix[key] \ {id}]

(* A faulty HashHook: UPDATE adds first, and then deletes what it added if *)
(* the key is the same.                                                    *)
HashHookAddsFirst(ix, u) ==
  LET added == HashAdd(ix, u.id, u.new)
  IN  IF u.type = "ADD" THEN Done(added)
      ELSE IF ix[u.old] = Absent THEN Thrown("TypeError", ix)
      ELSE IF u.type = "DELETE" THEN Done(HashDelete(ix, u.id, u.old))
      ELSE Done(HashDelete(added, u.id, u.old))

(* The commit hook.  UPDATE deletes before it adds, so that a missing      *)
(* bucket for the old key stops it before anything has changed.            *)
HashHook(ix, u) ==
  IF u.type = "ADD" THEN Done(HashAdd(ix, u.id, u.new))
  ELSE IF ix[u.old] = Absent THEN Thrown("TypeError", ix)
  ELSE IF u.type = "DELETE" THEN Done(HashDelete(ix, u.id, u.old))
  ELSE Done(HashAdd(HashDelete(ix, u.id, u.old), u.id, u.new))

HashMirrors(ix, m) == ix = BucketsOf(m)
=============================================================================
