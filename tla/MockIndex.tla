------------------------------ MODULE MockIndex ------------------------------
(***************************************************************************)
(* test_util/MockIndex.ts: the index the tests register to look at the     *)
(* updates themselves.  It keeps a copy of the items and throws when an    *)
(* update does not fit them.  Its list of items holds no id twice, so it   *)
(* is an id-indexed Map here; the log of updates beside it is left out.    *)
(***************************************************************************)
EXTENDS Updates

MockStates == Stores(Key)

MockHook(ix, u) ==
  IF (u.type = "ADD") # (ix[u.id] = Absent) THEN Thrown("Error", ix)
  ELSE Done([ix EXCEPT ![u.id] = IF u.type = "DELETE" THEN Absent ELSE u.new])

MockMirrors(ix, m) == ix = m
=============================================================================
