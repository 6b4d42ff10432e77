------------------------------- MODULE IdMap -------------------------------
(***************************************************************************)
(* util/IdMap.ts: a Map from the high half of an id to a Map from its low  *)
(* half to an item, and forEach over it while its callback changes it      *)
(* (Collection.forEach and toList are this forEach on the store).          *)
(*                                                                         *)
(* A JavaScript Map is the sequence of its entries in the order in which   *)
(* their keys were inserted.  An iterator of a Map is live: it is the      *)
(* number of entries it has passed, and moves when one of them is deleted. *)
(***************************************************************************)
EXTENDS Naturals, Sequences, SequencesExt

CONSTANTS
  Half,   \* the 32-bit numbers an id has two of
  Item,   \* what is stored
  Absent  \* no entry

ASSUME AbsentAssumption == Absent \notin Item /\ Absent \notin Half

Ids == [high : Half, low : Half]

VARIABLES
  map,    \* the Map of Maps
  it,     \* entries() of a running forEach: the two iterators, and whether
          \* the Map the inner one belongs to is still in the outer Map
  phase,  \* "none", "next" (entries() looks for an item) or "callback"
  at      \* what the callback was called with

vars == <<map, it, phase, at>>

-----------------------------------------------------------------------------
(* JavaScript's Map.                                                       *)

Has(m, key) == \E i \in DOMAIN m : m[i].key = key

PosOf(m, key) == CHOOSE i \in DOMAIN m : m[i].key = key

MapGet(m, key) == m[PosOf(m, key)].value

(* A key that is there keeps its place. *)
MapSet(m, key, value) ==
  IF Has(m, key) THEN [m EXCEPT ![PosOf(m, key)].value = value]
                 ELSE Append(m, [key |-> key, value |-> value])

MapDelete(m, key) == IF Has(m, key) THEN RemoveAt(m, PosOf(m, key)) ELSE m

-----------------------------------------------------------------------------
(* IdMap's own methods.                                                    *)

Get(id) ==
  IF Has(map, id.high) /\ Has(MapGet(map, id.high), id.low)
  THEN MapGet(MapGet(map, id.high), id.low) ELSE Absent

Stopped == [outer |-> 0, inner |-> 0, attached |-> FALSE]

Nothing == [id |-> Absent, item |-> Absent]

Init ==
  /\ map = <<>>
  /\ it = Stopped
  /\ phase = "none"
  /\ at = Nothing

(* The iterators after the entry at <<o, i>> is deleted; `emptied`: with   *)
(* the Map it was in.                                                      *)
Moved(o, i, emptied) ==
  LET here == it.attached /\ o = it.outer
  IN  [outer    |-> IF emptied /\ o <= it.outer THEN it.outer - 1 ELSE it.outer,
       inner    |-> IF here /\ i <= it.inner THEN it.inner - 1 ELSE it.inner,
       attached |-> it.attached /\ ~ (here /\ emptied)]

(* Faulty variants of Set: the item is not handed on to the inner Map; the *)
(* item that is replaced is deleted first, and the new one moves to the    *)
(* end.                                                                    *)
SetDropsItem(id, item) ==
  LET m == IF Has(map, id.high) THEN MapGet(map, id.high) ELSE <<>>
  IN  /\ phase # "next"
      /\ map' = MapSet(map, id.high, MapSet(m, id.low, Absent))
      /\ UNCHANGED <<it, phase, at>>

SetReplaces(id, item) ==
  LET m == IF Has(map, id.high) THEN MapGet(map, id.high) ELSE <<>>
  IN  /\ phase # "next"
      /\ map' = MapSet(map, id.high, MapSet(MapDelete(m, id.low), id.low, item))
      /\ it' = IF Has(m, id.low)
               THEN Moved(PosOf(map, id.high), PosOf(m, id.low), FALSE) ELSE it
      /\ UNCHANGED <<phase, at>>

(* Calls come from outside an iteration or from its callback. *)
Set(id, item) ==
  LET m == IF Has(map, id.high) THEN MapGet(map, id.high) ELSE <<>>
  IN  /\ phase # "next"
      /\ map' = MapSet(map, id.high, MapSet(m, id.low, item))
      /\ UNCHANGED <<it, phase, at>>

(* A faulty Delete: an inner Map stays when it has become empty. *)
DeleteKeepsMap(id) ==
  LET m == MapGet(map, id.high)
  IN  /\ phase # "next"
      /\ Has(map, id.high)
      /\ Has(m, id.low)
      /\ map' = MapSet(map, id.high, MapDelete(m, id.low))
      /\ it' = Moved(PosOf(map, id.high), PosOf(m, id.low), FALSE)
      /\ UNCHANGED <<phase, at>>

(* An inner Map that has become empty goes, and a later set of one of its  *)
(* ids makes a new one, at the end.                                        *)
Delete(id) ==
  LET m == MapGet(map, id.high)
      left == MapDelete(m, id.low)
  IN  /\ phase # "next"
      /\ Has(map, id.high)
      /\ Has(m, id.low)
      /\ map' = IF left = <<>> THEN MapDelete(map, id.high)
                               ELSE MapSet(map, id.high, left)
      /\ it' = Moved(PosOf(map, id.high), PosOf(m, id.low), left = <<>>)
      /\ UNCHANGED <<phase, at>>

Empty == map = <<>>

-----------------------------------------------------------------------------
(* forEach and entries().                                                  *)

ForEach ==
  /\ phase = "none"
  /\ phase' = "next"
  /\ it' = Stopped
  /\ UNCHANGED <<map, at>>

InnerLeft == it.attached /\ it.inner < Len(map[it.outer].value)

(* A faulty Yield: the halves of the id are put together the wrong way.   *)
YieldSwaps ==
  LET entry == map[it.outer].value[it.inner + 1]
  IN  /\ phase = "next"
      /\ InnerLeft
      /\ phase' = "callback"
      /\ it' = [it EXCEPT !.inner = @ + 1]
      /\ at' = [id |-> [high |-> entry.key, low |-> map[it.outer].key],
                item |-> entry.value]
      /\ UNCHANGED map

(* The inner loop has an entry: it is yielded. *)
Yield ==
  LET entry == map[it.outer].value[it.inner + 1]
  IN  /\ phase = "next"
      /\ InnerLeft
      /\ phase' = "callback"
      /\ it' = [it EXCEPT !.inner = @ + 1]
      /\ at' = [id |-> [high |-> map[it.outer].key, low |-> entry.key],
                item |-> entry.value]
      /\ UNCHANGED map

(* The inner loop has ended and the outer one has another Map. *)
NextMap ==
  /\ phase = "next"
  /\ ~ InnerLeft
  /\ it.outer < Len(map)
  /\ it' = [outer |-> it.outer + 1, inner |-> 0, attached |-> TRUE]
  /\ UNCHANGED <<map, phase, at>>

Finish ==
  /\ phase = "next"
  /\ ~ InnerLeft
  /\ it.outer = Len(map)
  /\ phase' = "none"
  /\ it' = Stopped
  /\ UNCHANGED <<map, at>>

CallbackReturns ==
  /\ phase = "callback"
  /\ phase' = "next"
  /\ at' = Nothing
  /\ UNCHANGED <<map, it>>

Generator == Yield \/ NextMap \/ Finish

Next ==
  \/ \E id \in Ids, item \in Item : Set(id, item)
  \/ \E id \in Ids : Delete(id)
  \/ ForEach
  \/ Generator
  \/ CallbackReturns

(* A generator that is resumed runs to its next yield or its end.  Nobody  *)
(* has to call forEach, and a callback need not return.                    *)
Spec == Init /\ [][Next]_vars /\ WF_vars(Generator)

-----------------------------------------------------------------------------
(* What the rest of the library relies on.                                 *)

Contents == [id \in Ids |-> Get(id)]

(* The items entries() has not come to yet. *)
IsAhead(id) ==
  LET o == PosOf(map, id.high)
      i == PosOf(map[o].value, id.low)
  IN  o > it.outer \/ (it.attached /\ o = it.outer /\ i > it.inner)

Ahead ==
  IF phase = "none" THEN {}
  ELSE {id \in Ids : Get(id) # Absent /\ IsAhead(id)}

(* The Maps with values in V: no key comes twice. *)
Maps(V) ==
  {m \in Seq([key : Half, value : V]) :
     \A i, j \in DOMAIN m : m[i].key = m[j].key => i = j}

TypeOK ==
  /\ map \in Maps(Maps(Item))
  /\ it \in [outer : 0 .. Len(map), inner : Nat, attached : BOOLEAN]
  /\ it.attached =>
       it.outer >= 1 /\ it.inner <= Len(map[it.outer].value)
  /\ phase \in {"none", "next", "callback"}
  /\ at \in [id : Ids, item : Item] \cup {Nothing}

Promise == INSTANCE MapPromise WITH
             contents <- Contents,
             due      <- Ahead

(* The two levels of Maps answer like one function from ids to items, and  *)
(* forEach yields every item that is there throughout exactly once, with   *)
(* its current value, whatever its callback sets and deletes, also when    *)
(* the inner Map it is iterating goes away and comes back.                 *)
KeepsPromise == Promise!Spec

(* empty() looks at the outer Map only: it is right because no inner Map   *)
(* is left empty.  Hash and btree indexes remove a key when its set of ids *)
(* says it is empty.                                                       *)
EmptyMeansEmpty == Empty <=> \A id \in Ids : Get(id) = Absent

(* An id that has no item is given one. *)
Inserts ==
  \E id \in Ids, item \in Item : Get(id) = Absent /\ Set(id, item)

(* forEach ends when its callbacks return and from some time on put no     *)
(* item in under a new id: replacing and deleting items cannot keep it     *)
(* going.  (A callback that calls adjust deletes its item and puts it in   *)
(* again.)                                                                 *)
ForEachEnds ==
  WF_vars(CallbackReturns) /\ <>[][~ Inserts]_vars
    => (phase = "next" ~> phase = "none")
=============================================================================
