---------------------------- MODULE MCAggregates ----------------------------
(* A small instance of Aggregates for TLC. *)
EXTENDS Aggregates

(* x => x > 1 ? x : undefined, and x => (x ?? 0) % 3 + 1. *)
large == [x \in Key \cup {Undefined} |-> IF x \in {2, 3} THEN x ELSE Undefined]
turned == [x \in Key \cup {Undefined} |-> IF x = Undefined THEN 1 ELSE (x % 3) + 1]

TwoPremaps == {large, turned}
=============================================================================
