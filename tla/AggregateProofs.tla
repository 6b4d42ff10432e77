-------------------------- MODULE AggregateProofs --------------------------
(***************************************************************************)
(* FusionIsSound, for every chain of calls of premap and map, any numbers  *)
(* and any updates.                                                        *)
(*                                                                         *)
(* Through and Onward are folds over the calls.  What is needed of them is *)
(* what one more call does: the new function of premap comes first, the    *)
(* new function of map last.                                               *)
(***************************************************************************)
EXTENDS Aggregates, FoldLaws, SequenceTheorems

Values == Key \cup {Undefined}

Call == [method : {"premap"}, f : Premaps] \cup [method : {"map"}, f : Results]

(* One call on the way of an item to the index, and of a result from it. *)
Via(c, y) == IF c.method = "premap" /\ y # Undefined THEN c.f[y] ELSE y

Joined(fs, c) == IF c.method = "map" THEN Append(fs, c.f) ELSE fs

(* Through and Onward for any sequence of calls. *)
PathOf(cs, x) ==
  FoldRight(LAMBDA c, y : IF c.method = "premap" /\ y # Undefined THEN c.f[y] ELSE y, cs, x)

OnwardOf(cs) ==
  FoldLeft(LAMBDA fs, c : IF c.method = "map" THEN Append(fs, c.f) ELSE fs, <<>>, cs)

(* The recursions behind the two folds. *)
Paths(g, cs, x) ==
  g = [s \in SUBSET DOMAIN cs |->
         IF s = {} THEN x ELSE Via(cs[Min(s)], g[s \ {Min(s)}])]

Onwards(g, cs) ==
  g = [s \in SUBSET DOMAIN cs |->
         IF s = {} THEN <<>> ELSE Joined(g[s \ {Max(s)}], cs[Max(s)])]

-----------------------------------------------------------------------------
(* The folds.                                                              *)

LEMMA CallType ==
  ASSUME NEW cs \in Seq(Call)
  PROVE  /\ Len(cs) \in Nat /\ DOMAIN cs = 1 .. Len(cs) /\ IsFiniteSet(DOMAIN cs)
         /\ \A i \in DOMAIN cs : cs[i] \in Call
         /\ DOMAIN cs \subseteq Int
  <1>1. Len(cs) \in Nat /\ DOMAIN cs = 1 .. Len(cs)
    BY LenProperties
  <1>2. IsFiniteSet(1 .. Len(cs))
    BY <1>1, FS_Interval
  <1>3. \A i \in 1 .. Len(cs) : cs[i] \in Call
    BY ElementOfSeq
  <1> QED BY <1>1, <1>2, <1>3

LEMMA ViaType ==
  ASSUME NEW c \in Call, NEW y \in Values
  PROVE  Via(c, y) \in Values
  BY PremapsAssumption DEF Via, Call, Values

LEMMA MinMax ==
  ASSUME NEW S, IsFiniteSet(S), S \subseteq Int, NEW s \in SUBSET S, s # {}
  PROVE  /\ Min(s) \in s /\ \A y \in s : Min(s) <= y
         /\ Max(s) \in s /\ \A y \in s : Max(s) >= y
  <1>1. IsFiniteSet(s) /\ s \subseteq Int
    BY FS_Subset
  <1>2. \E x \in s : \A y \in s : x <= y
    BY <1>1, ExtremesExist
  <1>3. \E x \in s : \A y \in s : x >= y
    BY <1>1, ExtremesExist
  <1>4. Min(s) \in s /\ \A y \in s : Min(s) <= y
    BY <1>2 DEF Min
  <1>5. Max(s) \in s /\ \A y \in s : Max(s) >= y
    BY <1>3 DEF Max
  <1> QED BY <1>4, <1>5

LEMMA PathFold ==
  ASSUME NEW cs, NEW x
  PROVE  PathOf(cs, x) = (CHOOSE g : Paths(g, cs, x))[DOMAIN cs]
  BY DEF PathOf, FoldRight, MapThenFoldSet, Paths, Via

LEMMA OnwardFold ==
  ASSUME NEW cs
  PROVE  OnwardOf(cs) = (CHOOSE g : Onwards(g, cs))[DOMAIN cs]
  BY DEF OnwardOf, FoldLeft, MapThenFoldSet, Onwards, Joined

LEMMA PathsExist ==
  ASSUME NEW cs \in Seq(Call), NEW x \in Values
  PROVE  \E g : Paths(g, cs, x)
  <1> DEFINE S == DOMAIN cs
             first == [s \in SUBSET S |-> Min(s)]
             step == [i \in S |-> [y \in Values |-> Via(cs[i], y)]]
  <1>1. IsFiniteSet(S) /\ S \subseteq Int /\ \A i \in S : cs[i] \in Call
    BY CallType
  <1> HIDE DEF S
  <1>2. Picks(first, S)
    BY <1>1, MinMax DEF Picks
  <1>3. step \in [S -> [Values -> Values]]
    BY <1>1, ViaType
  <1> HIDE DEF first, step
  <1>4. PICK g \in [SUBSET S -> Values] : IsFold(g, x, first, step, S)
    BY <1>1, <1>2, <1>3, FoldExists DEF HasFold
  <1>5. ASSUME NEW s \in SUBSET S
        PROVE  g[s] = IF s = {} THEN x ELSE Via(cs[Min(s)], g[s \ {Min(s)}])
    <2>1. g[s] = IF s = {} THEN x ELSE step[first[s]][g[s \ {first[s]}]]
      BY <1>4 DEF IsFold, NextFold
    <2>2. ASSUME s # {}
          PROVE  step[first[s]][g[s \ {first[s]}]] = Via(cs[Min(s)], g[s \ {Min(s)}])
      <3>1. first[s] = Min(s) /\ Min(s) \in S
        BY <1>1, <2>2, MinMax DEF first
      <3>2. g[s \ {Min(s)}] \in Values
        OBVIOUS
      <3> QED BY <3>1, <3>2 DEF step
    <2> QED BY <2>1, <2>2
  <1>6. Paths(g, cs, x)
    BY <1>5 DEF Paths, S
  <1> QED BY <1>6

LEMMA OnwardsExist ==
  ASSUME NEW cs \in Seq(Call)
  PROVE  \E g : Onwards(g, cs)
  <1> DEFINE S == DOMAIN cs
             T == Seq(Results)
             base == <<>>
             first == [s \in SUBSET S |-> Max(s)]
             step == [i \in S |-> [fs \in T |-> Joined(fs, cs[i])]]
  <1>1. IsFiniteSet(S) /\ S \subseteq Int /\ \A i \in S : cs[i] \in Call
    BY CallType
  <1> HIDE DEF S
  <1>2. Picks(first, S)
    BY <1>1, MinMax DEF Picks
  <1>3. base \in T /\ \A fs \in T, c \in Call : Joined(fs, c) \in T
    BY EmptySeq, AppendProperties DEF Joined, Call
  <1>4. step \in [S -> [T -> T]]
    BY <1>1, <1>3
  <1> HIDE DEF first, step, T, base
  <1>5. PICK g \in [SUBSET S -> T] : IsFold(g, base, first, step, S)
    BY <1>1, <1>2, <1>3, <1>4, FoldExists DEF HasFold
  <1>6. ASSUME NEW s \in SUBSET S
        PROVE  g[s] = IF s = {} THEN base ELSE Joined(g[s \ {Max(s)}], cs[Max(s)])
    <2>1. g[s] = IF s = {} THEN base ELSE step[first[s]][g[s \ {first[s]}]]
      BY <1>5 DEF IsFold, NextFold
    <2>2. ASSUME s # {}
          PROVE  step[first[s]][g[s \ {first[s]}]] = Joined(g[s \ {Max(s)}], cs[Max(s)])
      <3>1. first[s] = Max(s) /\ Max(s) \in S
        BY <1>1, <2>2, MinMax DEF first
      <3>2. g[s \ {Max(s)}] \in T
        OBVIOUS
      <3> QED BY <3>1, <3>2 DEF step
    <2> QED BY <2>1, <2>2
  <1>7. Onwards(g, cs)
    BY <1>6 DEF Onwards, S, base
  <1> QED BY <1>7

(* The calls with one more at the end. *)
LEMMA OneMore ==
  ASSUME NEW cs \in Seq(Call), NEW c \in Call
  PROVE  LET n == Len(cs) + 1
             ds == Append(cs, c)
         IN  /\ ds \in Seq(Call) /\ n \in Nat
             /\ DOMAIN ds = DOMAIN cs \cup {n} /\ n \notin DOMAIN cs
             /\ \A i \in DOMAIN cs : ds[i] = cs[i] /\ i < n
             /\ ds[n] = c
  <1> DEFINE n == Len(cs) + 1
             ds == Append(cs, c)
  <1>1. Len(cs) \in Nat /\ DOMAIN cs = 1 .. Len(cs)
    BY CallType
  <1>2. /\ ds \in Seq(Call) /\ Len(ds) = n /\ ds[n] = c
        /\ \A i \in 1 .. Len(cs) : ds[i] = cs[i]
    BY AppendProperties
  <1>3. DOMAIN ds = 1 .. n
    BY <1>2, LenProperties
  <1> HIDE DEF ds
  <1>4. DOMAIN ds = DOMAIN cs \cup {n} /\ n \notin DOMAIN cs
    BY <1>1, <1>3
  <1>5. \A i \in DOMAIN cs : i < n
    BY <1>1
  <1> QED BY <1>1, <1>2, <1>4, <1>5 DEF ds

(* A fold from the right with one more call: it is the fold of the others, *)
(* started with what the new call makes of x.                              *)
LEMMA PathAppend ==
  ASSUME NEW cs \in Seq(Call), NEW c \in Call, NEW x \in Values
  PROVE  PathOf(Append(cs, c), x) = PathOf(cs, Via(c, x))
  <1> DEFINE n == Len(cs) + 1
             ds == Append(cs, c)
             S == DOMAIN cs
             R == DOMAIN ds
             g == CHOOSE g : Paths(g, cs, Via(c, x))
             h == CHOOSE h : Paths(h, ds, x)
             Bad == {s \in SUBSET S : g[s] # h[s \cup {n}]}
  <1>1. /\ ds \in Seq(Call) /\ n \in Nat /\ R = S \cup {n} /\ n \notin S
        /\ \A i \in S : ds[i] = cs[i] /\ i < n
        /\ ds[n] = c
    BY OneMore
  <1>2. PathOf(cs, Via(c, x)) = g[S] /\ PathOf(ds, x) = h[R]
    BY PathFold
  <1>3. IsFiniteSet(S) /\ S \subseteq Int /\ IsFiniteSet(R) /\ R \subseteq Int
    <2> HIDE DEF ds
    <2> QED BY <1>1, CallType
  <1>4. Paths(g, cs, Via(c, x))
    BY ViaType, PathsExist
  <1>5. Paths(h, ds, x)
    <2> HIDE DEF ds
    <2> QED BY <1>1, PathsExist
  <1>6. \A s \in SUBSET S :
          g[s] = IF s = {} THEN Via(c, x) ELSE Via(cs[Min(s)], g[s \ {Min(s)}])
    <2> HIDE DEF g
    <2> QED BY <1>4 DEF Paths
  <1>7. \A s \in SUBSET R :
          h[s] = IF s = {} THEN x ELSE Via(ds[Min(s)], h[s \ {Min(s)}])
    <2> HIDE DEF h
    <2> QED BY <1>5 DEF Paths
  <1> HIDE DEF n, ds, S, R, g, h
  <1>8. ASSUME NEW s \in Bad PROVE \E t \in Bad : Cardinality(t) < Cardinality(s)
    <2>0. s \in SUBSET S /\ g[s] # h[s \cup {n}]
      OBVIOUS
    <2> DEFINE z == Min(s \cup {n})
    <2>1. s \cup {n} \in SUBSET R /\ s \cup {n} # {}
      BY <1>1, <2>0
    <2>2. z \in s \cup {n} /\ \A y \in s \cup {n} : z <= y
      BY <1>3, <2>1, MinMax
    <2>3. h[s \cup {n}] = Via(ds[z], h[(s \cup {n}) \ {z}])
      BY <1>7, <2>1
    <2> HIDE DEF z
    <2>4. CASE s = {}
      <3>1. z = n /\ (s \cup {n}) \ {z} = {}
        BY <2>2, <2>4
      <3>2. h[{}] = x
        BY <1>7
      <3>3. h[s \cup {n}] = Via(c, x)
        BY <1>1, <2>3, <3>1, <3>2
      <3> QED BY <1>6, <2>0, <2>4, <3>3
    <2>5. CASE s # {}
      <3>1. Min(s) \in s /\ \A y \in s : Min(s) <= y
        BY <1>3, <2>0, <2>5, MinMax
      <3>2. Min(s) \in S /\ Min(s) \in Int /\ n \in Int /\ Min(s) < n
        BY <1>1, <1>3, <2>0, <3>1
      <3>3. z = Min(s)
        <4>1. z <= Min(s)
          BY <2>2, <3>1
        <4>2. z # n
          BY <3>2, <4>1
        <4>3. z \in s /\ z \in Int /\ Min(s) <= z
          BY <1>3, <2>0, <2>2, <3>1, <4>2
        <4> QED BY <3>2, <4>1, <4>3
      <3>4. (s \cup {n}) \ {z} = (s \ {z}) \cup {n} /\ ds[z] = cs[z]
        BY <1>1, <3>2, <3>3
      <3>5. g[s] = Via(cs[z], g[s \ {z}])
        BY <1>6, <2>0, <2>5, <3>3
      <3>6. g[s \ {z}] # h[(s \ {z}) \cup {n}]
        BY <2>0, <2>3, <3>4, <3>5
      <3>7. s \ {z} \in SUBSET S /\ Cardinality(s \ {z}) < Cardinality(s)
        <4>1. IsFiniteSet(S) /\ s \in SUBSET S /\ z \in s
          BY <1>3, <2>0, <3>1, <3>3
        <4> QED BY <4>1, Smaller
      <3> QED BY <3>6, <3>7
    <2> QED BY <2>4, <2>5
  <1>9. Bad = {}
    <2>1. Bad \subseteq SUBSET S
      OBVIOUS
    <2> HIDE DEF Bad
    <2> QED BY <1>3, <1>8, <2>1, NoSubsetFails
  <1>10. g[S] = h[S \cup {n}]
    BY <1>9
  <1> QED BY <1>1, <1>2, <1>10 DEF ds

LEMMA PathEmpty ==
  ASSUME NEW x \in Values
  PROVE  PathOf(<<>>, x) = x
  <1> DEFINE g == CHOOSE g : Paths(g, <<>>, x)
  <1>1. <<>> \in Seq(Call) /\ DOMAIN <<>> = {}
    BY EmptySeq
  <1>2. Paths(g, <<>>, x)
    BY <1>1, PathsExist
  <1> HIDE DEF g
  <1>3. g[{}] = x
    BY <1>1, <1>2 DEF Paths
  <1> QED BY <1>1, <1>3, PathFold DEF g

(* What comes through is a number or undefined. *)
LEMMA PathType ==
  ASSUME NEW cs \in Seq(Call), NEW x \in Values
  PROVE  PathOf(cs, x) \in Values
  <1> DEFINE S == DOMAIN cs
             g == CHOOSE g : Paths(g, cs, x)
             Bad == {s \in SUBSET S : g[s] \notin Values}
  <1>1. IsFiniteSet(S) /\ S \subseteq Int /\ \A i \in S : cs[i] \in Call
    BY CallType
  <1>2. PathOf(cs, x) = g[S]
    BY PathFold
  <1>3. Paths(g, cs, x)
    BY PathsExist
  <1>4. \A s \in SUBSET S :
          g[s] = IF s = {} THEN x ELSE Via(cs[Min(s)], g[s \ {Min(s)}])
    <2> HIDE DEF g
    <2> QED BY <1>3 DEF Paths
  <1> HIDE DEF S, g
  <1>5. ASSUME NEW s \in Bad PROVE \E t \in Bad : Cardinality(t) < Cardinality(s)
    <2>0. s \in SUBSET S /\ g[s] \notin Values
      OBVIOUS
    <2>1. s # {} /\ g[s] = Via(cs[Min(s)], g[s \ {Min(s)}])
      BY <1>4, <2>0
    <2>2. Min(s) \in s /\ cs[Min(s)] \in Call
      BY <1>1, <2>0, <2>1, MinMax
    <2>3. g[s \ {Min(s)}] \notin Values
      BY <2>0, <2>1, <2>2, ViaType
    <2>4. s \ {Min(s)} \in SUBSET S /\ Cardinality(s \ {Min(s)}) < Cardinality(s)
      <3>1. IsFiniteSet(S) /\ s \in SUBSET S /\ Min(s) \in s
        BY <1>1, <2>0, <2>2
      <3> HIDE DEF Bad
      <3> QED BY <3>1, Smaller
    <2> QED BY <2>3, <2>4
  <1>6. Bad = {}
    <2>1. Bad \subseteq SUBSET S
      OBVIOUS
    <2> HIDE DEF Bad
    <2> QED BY <1>1, <1>5, <2>1, NoSubsetFails
  <1> QED BY <1>2, <1>6

(* A fold from the left with one more call. *)
LEMMA OnwardAppend ==
  ASSUME NEW cs \in Seq(Call), NEW c \in Call
  PROVE  OnwardOf(Append(cs, c)) = Joined(OnwardOf(cs), c)
  <1> DEFINE n == Len(cs) + 1
             ds == Append(cs, c)
             S == DOMAIN cs
             R == DOMAIN ds
             g == CHOOSE g : Onwards(g, cs)
             h == CHOOSE h : Onwards(h, ds)
             Bad == {s \in SUBSET S : g[s] # h[s]}
  <1>1. /\ ds \in Seq(Call) /\ n \in Nat /\ R = S \cup {n} /\ n \notin S
        /\ \A i \in S : ds[i] = cs[i] /\ i < n
        /\ ds[n] = c
    BY OneMore
  <1>2. OnwardOf(cs) = g[S] /\ OnwardOf(ds) = h[R]
    BY OnwardFold
  <1>3. IsFiniteSet(S) /\ S \subseteq Int /\ IsFiniteSet(R) /\ R \subseteq Int
    <2> HIDE DEF ds
    <2> QED BY <1>1, CallType
  <1>4. Onwards(g, cs)
    BY OnwardsExist
  <1>5. Onwards(h, ds)
    <2> HIDE DEF ds
    <2> QED BY <1>1, OnwardsExist
  <1>6. \A s \in SUBSET S :
          g[s] = IF s = {} THEN <<>> ELSE Joined(g[s \ {Max(s)}], cs[Max(s)])
    <2> HIDE DEF g
    <2> QED BY <1>4 DEF Onwards
  <1>7. \A s \in SUBSET R :
          h[s] = IF s = {} THEN <<>> ELSE Joined(h[s \ {Max(s)}], ds[Max(s)])
    <2> HIDE DEF h
    <2> QED BY <1>5 DEF Onwards
  <1> HIDE DEF n, ds, S, R, g, h
  <1>8. ASSUME NEW s \in Bad PROVE \E t \in Bad : Cardinality(t) < Cardinality(s)
    <2>0. s \in SUBSET S /\ s \in SUBSET R /\ g[s] # h[s]
      BY <1>1
    <2>1. s # {} /\ g[s] = Joined(g[s \ {Max(s)}], cs[Max(s)])
      BY <1>6, <1>7, <2>0
    <2>2. h[s] = Joined(h[s \ {Max(s)}], ds[Max(s)])
      BY <1>7, <2>0, <2>1
    <2>3. Max(s) \in s
      BY <1>3, <2>0, <2>1, MinMax
    <2>4. ds[Max(s)] = cs[Max(s)]
      BY <1>1, <2>0, <2>3
    <2>5. g[s \ {Max(s)}] # h[s \ {Max(s)}]
      BY <2>0, <2>1, <2>2, <2>4
    <2>6. s \ {Max(s)} \in SUBSET S /\ Cardinality(s \ {Max(s)}) < Cardinality(s)
      <3>1. IsFiniteSet(S) /\ s \in SUBSET S /\ Max(s) \in s
        BY <1>3, <2>0, <2>3
      <3> HIDE DEF Bad
      <3> QED BY <3>1, Smaller
    <2> QED BY <2>5, <2>6
  <1>9. Bad = {}
    <2>1. Bad \subseteq SUBSET S
      OBVIOUS
    <2> HIDE DEF Bad
    <2> QED BY <1>3, <1>8, <2>1, NoSubsetFails
  <1>10. g[S] = h[S]
    BY <1>9
  <1>11. Max(R) = n /\ R \ {n} = S
    <2>1. Max(R) \in R /\ \A y \in R : Max(R) >= y
      BY <1>1, <1>3, MinMax
    <2>2. Max(R) >= n /\ (Max(R) \in S => Max(R) < n) /\ Max(R) \in Int
      BY <1>1, <1>3, <2>1
    <2>3. Max(R) = n
      BY <1>1, <2>1, <2>2
    <2> QED BY <1>1, <2>3
  <1>12. h[R] = Joined(h[S], c)
    BY <1>1, <1>7, <1>11
  <1> QED BY <1>2, <1>10, <1>12 DEF ds

LEMMA OnwardEmpty == OnwardOf(<<>>) = <<>>
  <1> DEFINE g == CHOOSE g : Onwards(g, <<>>)
  <1>1. <<>> \in Seq(Call) /\ DOMAIN <<>> = {}
    BY EmptySeq
  <1>2. Onwards(g, <<>>)
    BY <1>1, OnwardsExist
  <1> HIDE DEF g
  <1>3. g[{}] = <<>>
    BY <1>1, <1>2 DEF Onwards
  <1> QED BY <1>1, <1>3, OnwardFold DEF g

-----------------------------------------------------------------------------
(* The invariant.                                                          *)

PremapsIn(cs) == {i \in DOMAIN cs : cs[i].method = "premap"}

FusibleIn(cs, k) ==
  \A i \in PremapsIn(cs) :
    k = "mean" \/ (\E j \in PremapsIn(cs) : j < i) => \A x \in Key : cs[i].f[x] # Undefined

(* What the function in front of the innermost index starts as. *)
Start(k) == IF k = "mean" THEN toPair ELSE identity

(* The fused function is what the calls come to, followed by the first     *)
(* one.  Without calls that is so for undefined too, which the first call  *)
(* may hand on.                                                            *)
Fused(cs, k, p) ==
  /\ PremapsIn(cs) = {} => p = Start(k) /\ \A x \in Values : PathOf(cs, x) = x
  /\ FusibleIn(cs, k) =>
       \A x \in Key : /\ p[x] = Start(k)[PathOf(cs, x)]
                      /\ k = "mean" => PathOf(cs, x) \in Key

ShownBy(cs, m) == Premapped([x \in Key |-> PathOf(cs, x)], m)

(* The running state is the aggregate of what is shown. *)
Kept(k, st, m) ==
  /\ k = "count" => CountMirrors(st, m)
  /\ k = "sum" => SumMirrors(st, m)
  /\ k = "mean" => MeanMirrors(st, m)

FusionInv ==
  /\ kind \in {"count", "sum", "mean"}
  /\ calls \in Seq(Call)
  /\ seen \in Stores(Key)
  /\ ~ ready => seen = EmptyStore
  /\ map = OnwardOf(calls)
  /\ Fused(calls, kind, premap)
  /\ FusibleIn(calls, kind) => Kept(kind, state, ShownBy(calls, seen))

LEMMA ShownEmpty ==
  ASSUME NEW cs
  PROVE  ShownBy(cs, EmptyStore) = EmptyStore
  BY DEF ShownBy, Premapped, EmptyStore

LEMMA FusionInit == Init => FusionInv
  <1> SUFFICES ASSUME Init PROVE FusionInv
    OBVIOUS
  <1>1. /\ kind \in {"count", "sum", "mean"} /\ calls = <<>> /\ premap = Start(kind)
        /\ map = <<>> /\ ~ ready /\ seen = EmptyStore
        /\ state = IF kind = "mean" THEN [sum |-> 0, count |-> 0] ELSE 0
    BY DEF Init, Start
  <1>2. calls \in Seq(Call) /\ PremapsIn(calls) = {}
    BY <1>1, EmptySeq DEF PremapsIn
  <1>3. seen \in Stores(Key)
    BY <1>1 DEF Stores, EmptyStore
  <1>4. \A x \in Values : PathOf(calls, x) = x
    BY <1>1, PathEmpty
  <1>5. Fused(calls, kind, premap)
    BY <1>1, <1>2, <1>4 DEF Fused, Values
  <1>6. map = OnwardOf(calls)
    BY <1>1, OnwardEmpty
  <1>7. CountOf(EmptyStore) = 0
    <2>1. {i \in Ids : EmptyStore[i] # Absent} = {}
      BY DEF EmptyStore
    <2> QED BY <2>1, FS_EmptySet DEF CountOf
  <1>8. Kept(kind, state, ShownBy(calls, seen))
    <2>1. ShownBy(calls, seen) = EmptyStore
      BY <1>1, ShownEmpty
    <2> QED BY <1>1, <1>7, <2>1, EmptySum DEF Kept, CountMirrors, SumMirrors, MeanMirrors
  <1> QED BY <1>1, <1>2, <1>3, <1>5, <1>6, <1>8 DEF FusionInv

(* One more call of premap. *)
LEMMA FusedPremap ==
  ASSUME NEW cs \in Seq(Call), NEW k, NEW p, Fused(cs, k, p), NEW f \in Premaps
  PROVE  LET ds == Append(cs, [method |-> "premap", f |-> f])
         IN  /\ ds \in Seq(Call) /\ OnwardOf(ds) = OnwardOf(cs)
             /\ FusibleIn(ds, k) => FusibleIn(cs, k)
             /\ Fused(ds, k, [x \in Key \cup {Undefined} |-> p[f[x]]])
  <1> DEFINE c == [method |-> "premap", f |-> f]
             n == Len(cs) + 1
             ds == Append(cs, c)
             q == [x \in Key \cup {Undefined} |-> p[f[x]]]
  <1>1. c \in Call /\ c.method = "premap" /\ c.f = f
    BY DEF Call
  <1>2. f \in [Values -> Values]
    BY PremapsAssumption DEF Values
  <1>3. /\ ds \in Seq(Call) /\ n \in Nat
        /\ DOMAIN ds = DOMAIN cs \cup {n} /\ n \notin DOMAIN cs
        /\ \A i \in DOMAIN cs : ds[i] = cs[i] /\ i < n
        /\ ds[n] = c
    BY <1>1, OneMore
  <1>4. OnwardOf(ds) = OnwardOf(cs)
    BY <1>1, OnwardAppend DEF Joined
  <1>5. \A x \in Key : PathOf(ds, x) = PathOf(cs, f[x])
    <2>1. \A x \in Key : x \in Values /\ Via(c, x) = f[x]
      BY <1>1, KeyAssumption DEF Via, Values
    <2> HIDE DEF c
    <2> QED BY <1>1, <2>1, PathAppend
  <1>6. \A x \in Key : q[x] = p[f[x]]
    OBVIOUS
  <1> HIDE DEF c, n, ds, q
  <1>7. PremapsIn(ds) = PremapsIn(cs) \cup {n}
    BY <1>1, <1>3 DEF PremapsIn
  <1>8. \A i \in PremapsIn(cs) : ds[i] = cs[i] /\ i < n
    BY <1>3 DEF PremapsIn
  <1>9. ASSUME FusibleIn(ds, k) PROVE FusibleIn(cs, k)
    BY <1>7, <1>8, <1>9 DEF FusibleIn
  <1>10. ASSUME FusibleIn(ds, k), NEW x \in Key
         PROVE  q[x] = Start(k)[PathOf(ds, x)] /\ (k = "mean" => PathOf(ds, x) \in Key)
    <2>1. f[x] \in Values
      BY <1>2 DEF Values
    <2>2. k = "mean" \/ PremapsIn(cs) # {} => f[x] \in Key
      <3>1. k = "mean" \/ PremapsIn(cs) # {} => f[x] # Undefined
        BY <1>1, <1>3, <1>7, <1>8, <1>10 DEF FusibleIn
      <3> QED BY <2>1, <3>1 DEF Values
    <2>3. CASE PremapsIn(cs) = {}
      <3>1. p = Start(k) /\ PathOf(cs, f[x]) = f[x]
        BY <2>1, <2>3 DEF Fused
      <3> QED BY <1>5, <1>6, <2>2, <3>1
    <2>4. CASE PremapsIn(cs) # {}
      <3>1. f[x] \in Key
        BY <2>2, <2>4
      <3>2. /\ p[f[x]] = Start(k)[PathOf(cs, f[x])]
            /\ k = "mean" => PathOf(cs, f[x]) \in Key
        BY <1>9, <1>10, <3>1 DEF Fused
      <3> QED BY <1>5, <1>6, <3>2
    <2> QED BY <2>3, <2>4
  <1>11. Fused(ds, k, q)
    BY <1>7, <1>10 DEF Fused
  <1> QED BY <1>3, <1>4, <1>9, <1>11 DEF ds, c, q

(* One more call of map. *)
LEMMA FusedMap ==
  ASSUME NEW cs \in Seq(Call), NEW k, NEW p, Fused(cs, k, p), NEW f \in Results
  PROVE  LET ds == Append(cs, [method |-> "map", f |-> f])
         IN  /\ ds \in Seq(Call) /\ OnwardOf(ds) = Append(OnwardOf(cs), f)
             /\ FusibleIn(ds, k) => FusibleIn(cs, k)
             /\ Fused(ds, k, p)
  <1> DEFINE c == [method |-> "map", f |-> f]
             n == Len(cs) + 1
             ds == Append(cs, c)
  <1>1. c \in Call /\ c.method = "map" /\ c.f = f
    BY DEF Call
  <1>2. /\ ds \in Seq(Call) /\ n \in Nat
        /\ DOMAIN ds = DOMAIN cs \cup {n} /\ n \notin DOMAIN cs
        /\ \A i \in DOMAIN cs : ds[i] = cs[i] /\ i < n
        /\ ds[n] = c
    BY <1>1, OneMore
  <1>3. OnwardOf(ds) = Append(OnwardOf(cs), f)
    BY <1>1, OnwardAppend DEF Joined
  <1>4. \A x \in Values : PathOf(ds, x) = PathOf(cs, x)
    <2>1. \A x \in Values : Via(c, x) = x
      BY <1>1 DEF Via
    <2> HIDE DEF c
    <2> QED BY <1>1, <2>1, PathAppend
  <1> HIDE DEF c, n, ds
  <1>5. PremapsIn(ds) = PremapsIn(cs)
    BY <1>1, <1>2 DEF PremapsIn
  <1>6. \A i \in PremapsIn(cs) : ds[i] = cs[i]
    BY <1>2 DEF PremapsIn
  <1>7. FusibleIn(ds, k) <=> FusibleIn(cs, k)
    BY <1>5, <1>6 DEF FusibleIn
  <1>8. Fused(ds, k, p)
    BY <1>4, <1>5, <1>7 DEF Fused, Values
  <1> QED BY <1>2, <1>3, <1>7, <1>8 DEF ds, c

(* The update the innermost index of a count or a sum is given. *)
LEMMA SameUpdate ==
  ASSUME NEW p, NEW th, \A x \in Key : p[x] = th[x], NEW u \in UpdatesOf(Key)
  PROVE  filterMapUpdate(p, u) = filterMapUpdate(th, u)
  BY UpdateCases DEF filterMapUpdate

(* The function of a mean's own answers for every number. *)
LEMMA PairDefined ==
  ASSUME NEW y \in Key
  PROVE  [sum |-> y, count |-> 1] # Undefined
  <1>1. y \in Int
    BY NumbersAssumption
  <1>2. [sum |-> y, count |-> 1] \in [sum : Int, count : Int]
    BY <1>1
  <1> QED BY <1>2, PairAssumption

(* The one the innermost index of a mean is given: the same, of pairs. *)
LEMMA PairUpdate ==
  ASSUME NEW p, NEW th \in [Key -> Key], \A x \in Key : p[x] = [sum |-> th[x], count |-> 1],
         NEW u \in UpdatesOf(Key)
  PROVE  LET v == filterMapUpdate(th, u)
             w == filterMapUpdate(p, u)
         IN  /\ v \in UpdatesOf(Key) /\ v.type # "NONE" /\ w.type = v.type
             /\ v.type # "DELETE" => w.new = [sum |-> v.new, count |-> 1]
             /\ v.type # "ADD" => w.old = [sum |-> v.old, count |-> 1]
  <1> DEFINE v == filterMapUpdate(th, u)
             w == filterMapUpdate(p, u)
  <1>1. \A x \in Key : th[x] \in Key /\ th[x] # Undefined /\ p[x] # Undefined
    <2> TAKE x \in Key
    <2>1. th[x] \in Key /\ th[x] # Undefined
      BY KeyAssumption
    <2>2. p[x] # Undefined
      BY <2>1, PairDefined, Zenon
    <2> QED BY <2>1, <2>2
  <1>2. CASE u.type = "ADD"
    <2>1. u.new \in Key /\ u.id \in Ids
      BY <1>2, UpdateCases
    <2>2. v = AddUpdate(u.id, th[u.new]) /\ w = AddUpdate(u.id, p[u.new])
      BY <1>1, <1>2, <2>1 DEF filterMapUpdate
    <2> HIDE DEF v, w
    <2>3. v \in UpdatesOf(Key)
      BY <1>1, <2>1, <2>2 DEF UpdatesOf
    <2> QED BY <2>1, <2>2, <2>3 DEF AddUpdate, v, w
  <1>3. CASE u.type = "DELETE"
    <2>1. u.old \in Key /\ u.id \in Ids
      BY <1>3, UpdateCases
    <2>2. v = DeleteUpdate(u.id, th[u.old]) /\ w = DeleteUpdate(u.id, p[u.old])
      BY <1>1, <1>3, <2>1 DEF filterMapUpdate
    <2> HIDE DEF v, w
    <2>3. v \in UpdatesOf(Key)
      BY <1>1, <2>1, <2>2 DEF UpdatesOf
    <2> QED BY <2>1, <2>2, <2>3 DEF DeleteUpdate, v, w
  <1>4. CASE u.type = "UPDATE"
    <2>1. u.old \in Key /\ u.new \in Key /\ u.id \in Ids
      BY <1>4, UpdateCases
    <2>2. /\ v = UpdateUpdate(u.id, th[u.old], th[u.new])
          /\ w = UpdateUpdate(u.id, p[u.old], p[u.new])
      BY <1>1, <1>4, <2>1 DEF filterMapUpdate
    <2> HIDE DEF v, w
    <2>3. v \in UpdatesOf(Key)
      BY <1>1, <2>1, <2>2 DEF UpdatesOf
    <2> QED BY <2>1, <2>2, <2>3 DEF UpdateUpdate, v, w
  <1> QED BY <1>2, <1>3, <1>4, UpdateCases

(* With numbers, the mean's own group is the one of FoldIndex. *)
LEMMA MeanHookSame ==
  ASSUME NEW st \in [sum : Int, count : Int], NEW v \in UpdatesOf(Key), NEW w,
         w.type = v.type,
         v.type # "DELETE" => w.new = [sum |-> v.new, count |-> 1],
         v.type # "ADD" => w.old = [sum |-> v.old, count |-> 1],
         kind = "mean"
  PROVE  InnerHook(st, w).ix = MeanHook(st, v).ix
  <1> DEFINE f == [x \in Key |-> [sum |-> x, count |-> 1]]
             z == filterMapUpdate(f, v)
  <1>1. \A x \in Key : x \in Int /\ f[x] = [sum |-> x, count |-> 1] /\ f[x] # Undefined
    BY PairAssumption, NumbersAssumption
  <1>2. MeanHook(st, v) = AlgebraicGroupHook("mean", st, z)
    BY DEF MeanHook
  <1> HIDE DEF f
  <1>3. /\ z.type = v.type
        /\ v.type # "DELETE" => z.new = [sum |-> v.new, count |-> 1]
        /\ v.type # "ADD" => z.old = [sum |-> v.old, count |-> 1]
    BY <1>1, UpdateCases DEF filterMapUpdate, AddUpdate, UpdateUpdate, DeleteUpdate
  <1> HIDE DEF z
  <1>4. \A a, b \in [sum : Int, count : Int] :
          /\ appendMean(a, b) = append("mean", a, b) /\ append("mean", a, b) \in [sum : Int, count : Int]
          /\ inverseMean(a) = inverse("mean", a) /\ inverse("mean", a) \in [sum : Int, count : Int]
    BY DEF appendMean, inverseMean, append, inverse, plus, minus
  <1>5. /\ v.type # "DELETE" => w.new = z.new /\ z.new \in [sum : Int, count : Int]
        /\ v.type # "ADD" => w.old = z.old /\ z.old \in [sum : Int, count : Int]
    BY <1>1, <1>3, UpdateCases
  <1>6. InnerHook(st, w) = FoldHook(w, appendMean(st, w.new),
                     appendMean(st, appendMean(inverseMean(w.old), w.new)),
                     appendMean(st, inverseMean(w.old)))
    BY DEF InnerHook
  <1>7. CASE v.type = "ADD"
    BY <1>2, <1>3, <1>4, <1>5, <1>6, <1>7 DEF AlgebraicGroupHook, FoldHook, Done
  <1>8. CASE v.type = "DELETE"
    BY <1>2, <1>3, <1>4, <1>5, <1>6, <1>8 DEF AlgebraicGroupHook, FoldHook, Done
  <1>9. CASE v.type = "UPDATE"
    BY <1>2, <1>3, <1>4, <1>5, <1>6, <1>9 DEF AlgebraicGroupHook, FoldHook, Done
  <1> QED BY <1>7, <1>8, <1>9, UpdateCases

(* An update keeps the state the aggregate of what is shown. *)
LEMMA KeptByUpdate ==
  ASSUME FusionInv, FusibleIn(calls, kind), NEW u \in UpdatesOf(Key), Update(u)
  PROVE  Kept(kind, state', ShownBy(calls, seen'))
  <1> DEFINE th == [x \in Key |-> PathOf(calls, x)]
             v == filterMapUpdate(th, u)
             w == filterMapUpdate(premap, u)
             m == Premapped(th, seen)
             n == Premapped(th, seen')
  <1>1. /\ kind \in {"count", "sum", "mean"} /\ calls \in Seq(Call) /\ seen \in Stores(Key)
        /\ Fused(calls, kind, premap) /\ Kept(kind, state, m)
    BY DEF FusionInv, ShownBy
  <1>2. /\ Describes(u, seen) /\ seen' = Applied(u, seen)
        /\ state' = IF w.type = "NONE" THEN state ELSE InnerHook(state, w).ix
    BY DEF Update
  <1>3. th \in [Key -> Key \cup {Undefined}] /\ \A x \in Key : th[x] = PathOf(calls, x)
    <2>1. \A x \in Key : PathOf(calls, x) \in Key \cup {Undefined}
      BY <1>1, PathType DEF Values
    <2> QED BY <2>1
  <1> HIDE DEF th
  <1>4. /\ m \in Stores(Key)
        /\ v.type = "NONE" => n = m
        /\ v.type # "NONE" => Describes(v, m) /\ n = Applied(v, m)
    BY <1>1, <1>2, <1>3, PremapCommutes, AbsentAssumption
  <1>5. v.type # "NONE" => v \in UpdatesOf(Key) /\ v \in UpdatesOf(Key \cap Int)
    <2>1. Key \cap Int = Key
      BY NumbersAssumption
    <2>2. v.type # "NONE" => v \in UpdatesOf(Key)
      BY <1>3, FilterMapType
    <2> QED BY <2>1, <2>2
  <1>6. Numbers(m)
    BY <1>4, NumbersAssumption DEF Numbers, Stores
  <1>7. \A x \in Key : /\ premap[x] = Start(kind)[th[x]]
                       /\ kind = "mean" => th[x] \in Key
    BY <1>1, <1>3 DEF Fused
  <1> HIDE DEF m, n, v, w
  <1>8. CASE kind # "mean"
    <2>1. \A x \in Key : premap[x] = th[x]
      BY <1>3, <1>7, <1>8 DEF Start, identity
    <2>2. w = v
      BY <2>1, SameUpdate DEF v, w
    <2>3. CASE v.type = "NONE"
      BY <1>1, <1>2, <1>4, <2>2, <2>3 DEF ShownBy, n, th
    <2>4. CASE v.type # "NONE" /\ kind = "count"
      <3>1. CountMirrors(state, m)
        BY <1>1, <2>4 DEF Kept
      <3>2. state' = CountHook(state, v).ix
        BY <1>2, <2>2, <2>4 DEF InnerHook
      <3>3. CountMirrors(state', n)
        BY <1>4, <1>5, <2>4, <3>1, <3>2, CountLaw
      <3> QED BY <2>4, <3>3 DEF Kept, ShownBy, n, th
    <2>5. CASE v.type # "NONE" /\ kind = "sum"
      <3>1. SumMirrors(state, m)
        BY <1>1, <2>5 DEF Kept
      <3>2. state' = SumHook(state, v).ix
        BY <1>2, <2>2, <2>5 DEF InnerHook
      <3>3. SumMirrors(state', n)
        BY <1>4, <1>5, <1>6, <2>5, <3>1, <3>2, SumLaw
      <3> QED BY <2>5, <3>3 DEF Kept, ShownBy, n, th
    <2> QED BY <1>1, <1>8, <2>3, <2>4, <2>5
  <1>9. CASE kind = "mean"
    <2>1. th \in [Key -> Key] /\ \A x \in Key : premap[x] = [sum |-> th[x], count |-> 1]
      BY <1>3, <1>7, <1>9 DEF Start, toPair
    <2>2. /\ v \in UpdatesOf(Key) /\ v.type # "NONE" /\ w.type = v.type
          /\ v.type # "DELETE" => w.new = [sum |-> v.new, count |-> 1]
          /\ v.type # "ADD" => w.old = [sum |-> v.old, count |-> 1]
      BY <2>1, PairUpdate DEF v, w
    <2>3. MeanMirrors(state, m)
      BY <1>1, <1>9 DEF Kept
    <2>4. state \in [sum : Int, count : Int]
      <3>1. SumOf(m) \in Int
        BY <1>4, <1>5, <1>6, <2>2, SumChange
      <3>2. CountOf(m) \in Int
        <4>1. IsFiniteSet(Ids)
          BY FS_Interval, MaxIdAssumption DEF Ids
        <4>2. IsFiniteSet({i \in Ids : m[i] # Absent})
          BY <4>1, FS_Subset
        <4> QED BY <4>2, FS_CardinalityType DEF CountOf
      <3> QED BY <2>3, <3>1, <3>2 DEF MeanMirrors
    <2>5. state' = InnerHook(state, w).ix
      BY <1>2, <2>2
    <2>6. state' = MeanHook(state, v).ix
      BY <1>9, <2>2, <2>4, <2>5, MeanHookSame
    <2>7. MeanMirrors(state', n)
      BY <1>4, <1>5, <1>6, <2>2, <2>3, <2>6, MeanLaw
    <2> QED BY <1>9, <2>7 DEF Kept, ShownBy, n, th
  <1> QED BY <1>8, <1>9

LEMMA FusionStep == FusionInv /\ [Next]_vars => FusionInv'
  <1> SUFFICES ASSUME FusionInv, [Next]_vars PROVE FusionInv'
    OBVIOUS
  <1>1. /\ kind \in {"count", "sum", "mean"} /\ calls \in Seq(Call) /\ seen \in Stores(Key)
        /\ (~ ready => seen = EmptyStore) /\ map = OnwardOf(calls)
        /\ Fused(calls, kind, premap)
        /\ FusibleIn(calls, kind) => Kept(kind, state, ShownBy(calls, seen))
    BY DEF FusionInv
  <1>2. ASSUME NEW f \in Premaps, Premap(f) PROVE FusionInv'
    <2>1. /\ ~ ready /\ calls' = Append(calls, [method |-> "premap", f |-> f])
          /\ premap' = [x \in Key \cup {Undefined} |-> premap[f[x]]]
          /\ UNCHANGED <<kind, map, ready, seen, state>>
      BY <1>2 DEF Premap
    <2>2. /\ calls' \in Seq(Call) /\ OnwardOf(calls') = OnwardOf(calls)
          /\ FusibleIn(calls', kind) => FusibleIn(calls, kind)
          /\ Fused(calls', kind, premap')
      BY <1>1, <2>1, FusedPremap
    <2>3. ShownBy(calls', seen) = ShownBy(calls, seen)
      BY <1>1, <2>1, ShownEmpty
    <2> QED BY <1>1, <2>1, <2>2, <2>3 DEF FusionInv
  <1>3. ASSUME NEW f \in Results, Map(f) PROVE FusionInv'
    <2>1. /\ ~ ready /\ calls' = Append(calls, [method |-> "map", f |-> f])
          /\ map' = Append(map, f)
          /\ UNCHANGED <<kind, premap, ready, seen, state>>
      BY <1>3 DEF Map
    <2>2. /\ calls' \in Seq(Call) /\ OnwardOf(calls') = Append(OnwardOf(calls), f)
          /\ FusibleIn(calls', kind) => FusibleIn(calls, kind)
          /\ Fused(calls', kind, premap)
      BY <1>1, <2>1, FusedMap
    <2>3. ShownBy(calls', seen) = ShownBy(calls, seen)
      BY <1>1, <2>1, ShownEmpty
    <2> QED BY <1>1, <2>1, <2>2, <2>3 DEF FusionInv
  <1>4. CASE Register
    BY <1>1, <1>4 DEF Register, FusionInv
  <1>5. ASSUME NEW u \in UpdatesOf(Key), Update(u) PROVE FusionInv'
    <2>1. /\ ready /\ Describes(u, seen) /\ seen' = Applied(u, seen)
          /\ UNCHANGED <<kind, calls, premap, map, ready>>
      BY <1>5 DEF Update
    <2>2. seen' \in Stores(Key)
      BY <1>1, <2>1, UpdateCases DEF Applied, Stores
    <2>3. FusibleIn(calls, kind) => Kept(kind, state', ShownBy(calls, seen'))
      BY <1>5, KeptByUpdate
    <2> QED BY <1>1, <2>1, <2>2, <2>3 DEF FusionInv
  <1>6. CASE UNCHANGED vars
    BY <1>1, <1>6 DEF vars, FusionInv
  <1> QED BY <1>2, <1>3, <1>4, <1>5, <1>6 DEF Next

(* The fused functions and the increments of an aggregate built by any     *)
(* chain of premap and map (AggregateIndex.ts) answer what the chain       *)
(* means, as long as only the innermost function answers undefined.        *)
THEOREM FusionIsSoundCorrect == Spec => []FusionIsSound
  <1>1. ASSUME FusionInv PROVE FusionIsSound
    <2> SUFFICES ASSUME Fusible PROVE value = Expected
      BY DEF FusionIsSound
    <2>1. \A x : Through(x) = PathOf(calls, x)
      BY DEF Through, PathOf
    <2>2. Onward = OnwardOf(calls)
      BY DEF Onward, OnwardOf
    <2>3. FusibleIn(calls, kind)
      BY DEF Fusible, FusibleIn, PremapCalls, PremapsIn
    <2>4. Shown = ShownBy(calls, seen)
      BY <2>1 DEF Shown, ShownBy
    <2>5. /\ kind \in {"count", "sum", "mean"} /\ map = Onward
          /\ Kept(kind, state, Shown)
      BY <1>1, <2>2, <2>3, <2>4 DEF FusionInv
    <2>6. result(state) = CASE kind = "count" -> CountOf(Shown)
                            [] kind = "sum"   -> SumOf(Shown)
                            [] kind = "mean"  -> quotient(SumOf(Shown), CountOf(Shown))
      BY <2>5 DEF result, Kept, CountMirrors, SumMirrors, MeanMirrors
    <2> QED BY <2>5, <2>6 DEF value, Expected
  <1> QED BY <1>1, FusionInit, FusionStep, PTL DEF Spec
=============================================================================
