---------------------------- MODULE MCCollection ----------------------------
(* Small instances of Collection for TLC. *)
EXTENDS Claims, Refinement, TLC

CONSTANTS a, b, z  \* three items; z is falsy

(* Key functions: two items under one key; one key per item, with z left   *)
(* out.  byGroup sorts the items into groups.                              *)
shared == [v \in Value |-> IF v = z THEN 2 ELSE 1]
partial == [v \in Value |-> IF v = a THEN 1 ELSE IF v = b THEN 2 ELSE Undefined]
byGroup == [v \in Value |-> IF v = b THEN "h" ELSE "g"]

Leaf(kind, f) == [kind |-> kind, f |-> f]
GroupOf(inner) == [kind |-> "group", by |-> byGroup, inner |-> inner]

HashAndUnique == {Leaf("hash", shared), Leaf("unique", partial)}

TwoUnique == {Leaf("unique", shared), Leaf("unique", partial)}

WithGroups == HashAndUnique \cup {GroupOf(Leaf("btree", partial))}

(* The grouped unique index may refuse in its commit hook. *)
LateConflicts == HashAndUnique \cup {GroupOf(Leaf("unique", shared))}

(* A conflict may come from either part, or from a group inside a part. *)
ZipOf(d, e) == [kind |-> "zip", parts |-> <<d, e>>]

Zips == {ZipOf(Leaf("hash", shared), Leaf("unique", partial)),
         ZipOf(Leaf("unique", shared), GroupOf(Leaf("count", partial))),
         ZipOf(GroupOf(Leaf("unique", shared)), Leaf("unique", partial)),
         ZipOf(Leaf("hash", shared), GroupOf(Leaf("unique", shared)))}

Leaves == {Leaf(kind, f) : kind \in LeafKinds, f \in {shared, partial}}
EveryKind == Leaves \cup {GroupOf(d) : d \in Leaves} \cup Zips

Ordered == {Leaf("btree", shared)}

(* State constraint: behaviours up to the first mutation given up halfway  *)
(* and the first overflow of the id counter.                               *)
UntilFirstFailure == Intact
=============================================================================
