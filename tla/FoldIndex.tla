------------------------------ MODULE FoldIndex ------------------------------
(***************************************************************************)
(* indexes/FoldIndex.ts: indexes that keep one running state, folded over  *)
(* the updates, and the three aggregates built from it.  Numbers are       *)
(* exact integers; the rounding of JavaScript's numbers is left out.       *)
(***************************************************************************)
EXTENDS Updates, Integers, FiniteSets, FiniteSetsExt

(* A pair of numbers is not undefined. *)
ASSUME PairAssumption == Undefined \notin [sum : Int, count : Int]

(* The commit hook of foldIndex, given what its functions add, update and  *)
(* delete make of the state.                                               *)
FoldHook(u, added, updated, deleted) ==
  Done(CASE u.type = "ADD"    -> added
         [] u.type = "UPDATE" -> updated
         [] u.type = "DELETE" -> deleted)

(* The two groups: numbers, and pairs of a sum and a count. *)
append(kind, a, b) ==
  IF kind = "sum" THEN a + b
  ELSE [sum |-> a.sum + b.sum, count |-> a.count + b.count]

inverse(kind, a) ==
  IF kind = "sum" THEN 0 - a ELSE [sum |-> 0 - a.sum, count |-> 0 - a.count]

(* A faulty AlgebraicGroupHook: UPDATE does not take the old value out. *)
AlgebraicGroupHookKeepsOld(kind, st, u) ==
  FoldHook(u, append(kind, st, u.new),
              append(kind, st, u.new),
              append(kind, st, inverse(kind, u.old)))

AlgebraicGroupHook(kind, st, u) ==
  FoldHook(u, append(kind, st, u.new),
              append(kind, st, append(kind, inverse(kind, u.old), u.new)),
              append(kind, st, inverse(kind, u.old)))

CountHook(st, u) == FoldHook(u, st + 1, st, st - 1)

SumHook(st, u) == AlgebraicGroupHook("sum", st, u)

(* arithmeticMeanIndex hands every number to its inner index as a sum of   *)
(* one number; value() would divide the sum by the count.                  *)
MeanHook(st, u) ==
  AlgebraicGroupHook("mean", st,
    filterMapUpdate([k \in Key |-> [sum |-> k, count |-> 1]], u))

-----------------------------------------------------------------------------
(* The aggregates of what an index has been shown, computed from scratch.  *)

CountOf(m) == Cardinality({i \in Ids : m[i] # Absent})

SumOf(m) == MapThenSumSet(LAMBDA i : m[i], {i \in Ids : m[i] # Absent})

CountMirrors(st, m) == st = CountOf(m)

SumMirrors(st, m) == st = SumOf(m)

MeanMirrors(st, m) == st = [sum |-> SumOf(m), count |-> CountOf(m)]
=============================================================================
