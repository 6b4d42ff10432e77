-------------------------- MODULE UniqueHashIndex --------------------------
(***************************************************************************)
(* indexes/UniqueHashIndex.ts: a Map from keys to the one id filed under   *)
(* each.  The only index that can refuse an update, and it does so before  *)
(* it changes anything: when _onUpdate is called, not in the commit hook.  *)
(***************************************************************************)
EXTENDS Updates

UniqueStates == [Key -> Ids \cup {Absent}]

UniqueEmpty == [k \in Key |-> Absent]

(* A faulty UniqueOnUpdate: only an ADD is checked. *)
UniqueOnUpdateChecksAdds(ix, u) ==
  IF u.type = "ADD" /\ ix[u.new] # Absent THEN "ConflictException" ELSE "none"

(* _onUpdate up to the hook it returns: the exception thrown, if any.  An  *)
(* UPDATE that keeps its own key is refused too: the old entry still has   *)
(* the key.                                                                *)
UniqueOnUpdate(ix, u) ==
  IF u.type \in {"ADD", "UPDATE"} /\ ix[u.new] # Absent
  THEN "ConflictException" ELSE "none"

(* A faulty UniqueHook: UPDATE leaves the old key taken. *)
UniqueHookKeepsOldKey(ix, u) ==
  Done(IF u.type = "DELETE" THEN [ix EXCEPT ![u.old] = Absent]
                            ELSE [ix EXCEPT ![u.new] = u.id])

(* The commit hook. *)
UniqueHook(ix, u) ==
  Done(CASE u.type = "ADD"    -> [ix EXCEPT ![u.new] = u.id]
         [] u.type = "UPDATE" -> [ix EXCEPT ![u.old] = Absent, ![u.new] = u.id]
         [] u.type = "DELETE" -> [ix EXCEPT ![u.old] = Absent])

UniqueMirrors(ix, m) ==
  \A k \in Key : FiledUnder(k, m) = IF ix[k] = Absent THEN {} ELSE {ix[k]}
=============================================================================
