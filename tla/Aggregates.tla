----------------------------- MODULE Aggregates -----------------------------
(***************************************************************************)
(* indexes/AggregateIndex.ts: an aggregate is built by any chain of calls  *)
(* of premap and map, which the code fuses into one pair of functions in   *)
(* front of and behind the innermost index, and is then shown updates.     *)
(*                                                                         *)
(* A result function is a name, and applying it is writing it down: what   *)
(* matters of these functions is which are applied and in which order.     *)
(* The functions given to premap do not throw.                             *)
(***************************************************************************)
EXTENDS FoldIndex, SequencesExt

CONSTANTS
  NaN,       \* JavaScript's not-a-number
  Premaps,   \* functions to call premap with
  Results,   \* functions to call map with
  MaxCalls   \* bound: the length of a chain

ASSUME NaNAssumption == NaN \notin Int

(* What is aggregated is numbers. *)
ASSUME NumbersAssumption == Key \subseteq Int

ASSUME PremapsAssumption ==
  Premaps \subseteq [Key \cup {Undefined} -> Key \cup {Undefined}]

VARIABLES
  kind,     \* what the chain starts from: "count", "sum" or "mean"
  calls,    \* history: the calls of premap and map, in order
  premap,   \* the fused functions
  map,
  ready,    \* the index has been registered
  seen,     \* history: the items the collection has told the index of
  state     \* the state of the innermost index

vars == <<kind, calls, premap, map, ready, seen, state>>

-----------------------------------------------------------------------------
(* The innermost index.                                                    *)

(* The operators + and - of JavaScript. *)
plus(x, y) == IF x \in Int /\ y \in Int THEN x + y ELSE NaN

minus(x) == IF x \in Int THEN 0 - x ELSE NaN

quotient(x, y) == IF x \in Int /\ y \in Int \ {0} THEN <<x, y>> ELSE NaN

appendMean(p, q) == [sum |-> plus(p.sum, q.sum), count |-> p.count + q.count]

inverseMean(p) == [sum |-> minus(p.sum), count |-> 0 - p.count]

InnerHook(st, u) ==
  CASE kind = "count" -> CountHook(st, u)
    [] kind = "sum"   -> SumHook(st, u)
    [] kind = "mean"  ->
         FoldHook(u, appendMean(st, u.new),
                     appendMean(st, appendMean(inverseMean(u.old), u.new)),
                     appendMean(st, inverseMean(u.old)))

result(st) == IF kind = "mean" THEN quotient(st.sum, st.count) ELSE st

-----------------------------------------------------------------------------
(* Building.  arithmeticMeanIndex comes with a premap of its own, which    *)
(* makes a pair of whatever it is given.                                   *)

identity == [x \in Key \cup {Undefined} |-> x]

toPair == [x \in Key \cup {Undefined} |-> [sum |-> x, count |-> 1]]

Init ==
  /\ kind \in {"count", "sum", "mean"}
  /\ calls = <<>>
  /\ premap = IF kind = "mean" THEN toPair ELSE identity
  /\ map = <<>>
  /\ ready = FALSE
  /\ seen = EmptyStore
  /\ state = IF kind = "mean" THEN [sum |-> 0, count |-> 0] ELSE 0

(* A faulty Premap: the function that was there before is all that stays. *)
PremapForgets(f) ==
  /\ ~ ready
  /\ Len(calls) < MaxCalls
  /\ calls' = Append(calls, [method |-> "premap", f |-> f])
  /\ UNCHANGED <<kind, premap, map, ready, seen, state>>

(* The fused function hands what f answers to the earlier function, also   *)
(* when that is undefined.  The first premap of an index that has none is  *)
(* the case of an earlier identity.                                        *)
Premap(f) ==
  /\ ~ ready
  /\ Len(calls) < MaxCalls
  /\ calls' = Append(calls, [method |-> "premap", f |-> f])
  /\ premap' = [x \in Key \cup {Undefined} |-> premap[f[x]]]
  /\ UNCHANGED <<kind, map, ready, seen, state>>

Map(f) ==
  /\ ~ ready
  /\ Len(calls) < MaxCalls
  /\ calls' = Append(calls, [method |-> "map", f |-> f])
  /\ map' = Append(map, f)
  /\ UNCHANGED <<kind, premap, ready, seen, state>>

Register ==
  /\ ~ ready
  /\ ready' = TRUE
  /\ UNCHANGED <<kind, calls, premap, map, seen, state>>

(* Both phases of _onUpdate. *)
Update(u) ==
  LET inner == filterMapUpdate(premap, u)
  IN  /\ ready
      /\ Describes(u, seen)
      /\ seen' = Applied(u, seen)
      /\ state' = IF inner.type = "NONE" THEN state ELSE InnerHook(state, inner).ix
      /\ UNCHANGED <<kind, calls, premap, map, ready>>

value == [of |-> result(state), through |-> map]

Next ==
  \/ \E f \in Premaps : Premap(f)
  \/ \E f \in Results : Map(f)
  \/ Register
  \/ \E u \in UpdatesOf(Key) : Update(u)

Spec == Init /\ [][Next]_vars

-----------------------------------------------------------------------------
(* What a chain means: an item goes through the functions of premap, the   *)
(* last call first, until one of them leaves it out; the aggregate of what *)
(* comes through goes through the functions of map, the first call first.  *)

Through(x) ==
  FoldRight(LAMBDA c, y : IF c.method = "premap" /\ y # Undefined THEN c.f[y] ELSE y,
            calls, x)

Shown == Premapped([x \in Key |-> Through(x)], seen)

Onward == FoldLeft(LAMBDA fs, c : IF c.method = "map" THEN Append(fs, c.f) ELSE fs,
                   <<>>, calls)

Expected ==
  [of |-> CASE kind = "count" -> CountOf(Shown)
            [] kind = "sum"   -> SumOf(Shown)
            [] kind = "mean"  -> quotient(SumOf(Shown), CountOf(Shown)),
   through |-> Onward]

PremapCalls == {i \in DOMAIN calls : calls[i].method = "premap"}

(* Only the innermost function in front of an index ever answers undefined *)
(* (the innermost one of a mean is its own).                               *)
Fusible ==
  \A i \in PremapCalls :
    kind = "mean" \/ (\E j \in PremapCalls : j < i) => \A x \in Key : calls[i].f[x] # Undefined

(* After any updates, value() is what the chain means: fusing the chain    *)
(* into one pair of functions, and applying increments instead of          *)
(* computing the aggregate anew, changes nothing.                          *)
FusionIsSound == Fusible => value = Expected

(* premap of any aggregate takes a function that may answer undefined, and *)
(* "if the function returns `undefined`, the input is ignored": so for one *)
(* call of premap, whatever the aggregate.                                 *)
PremapIgnores == Cardinality(PremapCalls) <= 1 => value = Expected
=============================================================================
