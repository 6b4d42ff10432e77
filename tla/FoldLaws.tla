------------------------------ MODULE FoldLaws ------------------------------
(***************************************************************************)
(* Lemmas about finite sets of numbers, about folds and sums over the      *)
(* items an index has been shown, and the laws of updates and of the       *)
(* aggregates that rest on them.  SumOf is a fold over a set in an order   *)
(* nobody knows: its value does not depend on that order, so that one item *)
(* can be taken out of it, whichever.                                      *)
(*                                                                         *)
(* The proofs are inductions on the size of a set, in the form the provers *)
(* take: the set of sizes for which a claim fails has no least member.     *)
(***************************************************************************)
EXTENDS FoldIndex, FiniteSetTheorems, WellFoundedInduction, TLAPS

(* A set of numbers that is not empty has a least member. *)
LEMMA LeastLaw ==
  ASSUME NEW S, S \subseteq Nat, S # {}
  PROVE  \E n \in S : \A l \in S : n <= l
  <1>1. PICK n \in S : \A l \in S : ~ (<<l, n>> \in OpToRel(<, Nat))
    BY NatLessThanWellFounded, WFMin
  <1>2. ASSUME NEW l \in S PROVE n <= l
    <2>1. <<l, n>> \in Nat \X Nat /\ <<l, n>>[1] = l /\ <<l, n>>[2] = n
      OBVIOUS
    <2>2. ~ (l < n)
      BY <1>1, <2>1, Zenon DEF OpToRel
    <2> QED BY <2>2
  <1> QED BY <1>2

(* Induction over the members of a set: B are the numbers for which the    *)
(* claim fails.                                                            *)
LEMMA NoneFails ==
  ASSUME NEW B, B \subseteq Nat,
         \A n \in B : \E l \in B : l < n
  PROVE  B = {}
  <1> SUFFICES ASSUME B # {} PROVE FALSE
    OBVIOUS
  <1>1. PICK n \in B : \A l \in B : n <= l
    BY LeastLaw
  <1>2. PICK l \in B : l < n
    OBVIOUS
  <1>3. n <= l /\ n \in Nat /\ l \in Nat
    BY <1>1, <1>2
  <1> QED BY <1>2, <1>3

LEMMA Smaller ==
  ASSUME NEW S, IsFiniteSet(S), NEW s \in SUBSET S, NEW x \in s
  PROVE  /\ Cardinality(s) \in Nat /\ Cardinality(s \ {x}) \in Nat
         /\ Cardinality(s \ {x}) = Cardinality(s) - 1
         /\ Cardinality(s \ {x}) < Cardinality(s)
         /\ s \ {x} \in SUBSET S
  <1>1. IsFiniteSet(s)
    BY FS_Subset
  <1>2. IsFiniteSet(s \ {x}) /\ Cardinality(s \ {x}) = Cardinality(s) - 1
    BY <1>1, FS_RemoveElement
  <1>3. Cardinality(s) \in Nat /\ Cardinality(s \ {x}) \in Nat
    BY <1>1, <1>2, FS_CardinalityType
  <1> QED BY <1>2, <1>3

(* A finite set of numbers has a greatest and a least member. *)
LEMMA ExtremesExist ==
  ASSUME NEW S, IsFiniteSet(S), S \subseteq Int, S # {}
  PROVE  /\ \E x \in S : \A y \in S : x >= y
         /\ \E x \in S : \A y \in S : x <= y
  <1> DEFINE Good(s) == s # {} => /\ \E x \in s : \A y \in s : x >= y
                                 /\ \E x \in s : \A y \in s : x <= y
             B == {n \in Nat : \E s \in SUBSET S : Cardinality(s) = n /\ ~ Good(s)}
  <1>0. \A s \in SUBSET S : Cardinality(s) \in Nat
    BY FS_Subset, FS_CardinalityType
  <1>1. ASSUME NEW s \in SUBSET S,
               \A t \in SUBSET S : Cardinality(t) < Cardinality(s) => Good(t)
        PROVE  Good(s)
    <2> SUFFICES ASSUME NEW z \in s
                 PROVE  /\ \E x \in s : \A y \in s : x >= y
                        /\ \E x \in s : \A y \in s : x <= y
      OBVIOUS
    <2>1. Cardinality(s \ {z}) < Cardinality(s) /\ s \ {z} \in SUBSET S
      <3>1. /\ Cardinality(s) \in Nat /\ Cardinality(s \ {z}) = Cardinality(s) - 1
            /\ s \ {z} \in SUBSET S
        BY Smaller
      <3> QED BY <3>1
    <2>2. Good(s \ {z})
      BY <1>1, <2>1
    <2>3. CASE s \ {z} = {}
      <3>1. z \in Int /\ \A y \in s : y = z
        BY <2>3
      <3> QED BY <3>1
    <2>4. CASE s \ {z} # {}
      <3>1. PICK x \in s \ {z} : \A y \in s \ {z} : x >= y
        BY <2>2, <2>4
      <3>2. PICK w \in s \ {z} : \A y \in s \ {z} : w <= y
        BY <2>2, <2>4
      <3>3. z \in Int /\ x \in Int /\ w \in Int /\ \A y \in s : y \in Int
        OBVIOUS
      <3>4. \E h \in s : \A y \in s : h >= y
        <4>1. CASE z >= x
          <5>1. \A y \in s : z >= y
            BY <3>1, <3>3, <4>1
          <5> QED BY <5>1
        <4>2. CASE ~ (z >= x)
          <5>1. \A y \in s : x >= y
            BY <3>1, <3>3, <4>2
          <5> QED BY <5>1
        <4> QED BY <4>1, <4>2
      <3>5. \E l \in s : \A y \in s : l <= y
        <4>1. CASE z <= w
          <5>1. \A y \in s : z <= y
            BY <3>2, <3>3, <4>1
          <5> QED BY <5>1
        <4>2. CASE ~ (z <= w)
          <5>1. \A y \in s : w <= y
            BY <3>2, <3>3, <4>2
          <5> QED BY <5>1
        <4> QED BY <4>1, <4>2
      <3> QED BY <3>4, <3>5
    <2> QED BY <2>3, <2>4
  <1> HIDE DEF Good
  <1>2. ASSUME NEW n \in B PROVE \E l \in B : l < n
    <2>1. PICK s \in SUBSET S : Cardinality(s) = n /\ ~ Good(s)
      BY <1>2
    <2>2. PICK t \in SUBSET S : Cardinality(t) < n /\ ~ Good(t)
      BY <1>1, <2>1
    <2>3. Cardinality(t) \in B
      BY <1>0, <2>2
    <2> QED BY <2>2, <2>3
  <1>3. B = {}
    <2>1. B \subseteq Nat
      OBVIOUS
    <2> HIDE DEF B
    <2> QED BY <1>2, <2>1, NoneFails
  <1>4. Good(S)
    BY <1>0, <1>3
  <1> QED BY <1>4 DEF Good

-----------------------------------------------------------------------------
(* Folds over sets.  g is a fold over the subsets of S: of a subset s, the *)
(* member first[s] is taken out, and step[first[s]] makes of the fold of   *)
(* the rest the fold of s.                                                 *)

NextFold(g, base, first, step, s) ==
  IF s = {} THEN base ELSE step[first[s]][g[s \ {first[s]}]]

IsFold(g, base, first, step, S) ==
  g = [s \in SUBSET S |-> NextFold(g, base, first, step, s)]

(* first takes a member of every set that has one. *)
Picks(first, S) == \A s \in SUBSET S : s # {} => first[s] \in s

HasFold(T, base, first, step, S) ==
  \E g \in [SUBSET S -> T] : IsFold(g, base, first, step, S)

(* There is a fold as far as subsets of n members. *)
FoldUpTo(T, base, first, step, S, n) ==
  \E g \in [SUBSET S -> T] :
    \A s \in SUBSET S : Cardinality(s) <= n => g[s] = NextFold(g, base, first, step, s)

(* Those of n members follow from the ones below. *)
LEMMA FoldUpToAny ==
  ASSUME NEW S, IsFiniteSet(S), NEW T, NEW base \in T, NEW step \in [S -> [T -> T]],
         NEW first, Picks(first, S)
  PROVE  \A n \in Nat : FoldUpTo(T, base, first, step, S, n)
  <1> DEFINE Nxt(g, s) == NextFold(g, base, first, step, s)
             Good(g, n) == \A s \in SUBSET S : Cardinality(s) <= n => g[s] = Nxt(g, s)
             Claim(n) == FoldUpTo(T, base, first, step, S, n)
             B == {n \in Nat : ~ Claim(n)}
  <1>0. \A s \in SUBSET S : Cardinality(s) \in Nat
    BY FS_Subset, FS_CardinalityType
  <1> USE DEF Picks
  <1>1. ASSUME NEW n \in Nat, n - 1 \in Nat => Claim(n - 1)
        PROVE  Claim(n)
    <2>1. PICK g \in [SUBSET S -> T] : n - 1 \in Nat => Good(g, n - 1)
      <3>1. [s \in SUBSET S |-> base] \in [SUBSET S -> T]
        OBVIOUS
      <3> QED BY <1>1, <3>1 DEF FoldUpTo
    <2> DEFINE h == [s \in SUBSET S |-> IF Cardinality(s) = n THEN Nxt(g, s) ELSE g[s]]
    <2>2. ASSUME NEW s \in SUBSET S PROVE Nxt(g, s) \in T
      <3>1. CASE s = {}
        BY <3>1 DEF NextFold
      <3>2. CASE s # {}
        <4>1. first[s] \in S /\ s \ {first[s]} \in SUBSET S
          BY <3>2
        <4>2. step[first[s]] \in [T -> T] /\ g[s \ {first[s]}] \in T
          BY <4>1
        <4> QED BY <3>2, <4>2 DEF NextFold
      <3> QED BY <3>1, <3>2
    <2>3. h \in [SUBSET S -> T]
      <3> HIDE DEF Nxt
      <3> QED BY <2>2
    <2>4. ASSUME NEW s \in SUBSET S, Cardinality(s) <= n PROVE h[s] = Nxt(h, s)
      <3>1. Nxt(h, s) = Nxt(g, s)
        <4>1. CASE s = {}
          BY <4>1 DEF NextFold
        <4>2. CASE s # {}
          <5>1. first[s] \in s
            BY <4>2
          <5>2. /\ s \ {first[s]} \in SUBSET S
                /\ Cardinality(s) \in Nat /\ Cardinality(s \ {first[s]}) = Cardinality(s) - 1
            BY <5>1, Smaller
          <5>3. h[s \ {first[s]}] = g[s \ {first[s]}]
            <6> HIDE DEF Nxt
            <6> QED BY <2>4, <5>2
          <5> HIDE DEF h
          <5> QED BY <4>2, <5>3 DEF NextFold
        <4> QED BY <4>1, <4>2
      <3> HIDE DEF Nxt
      <3>2. CASE Cardinality(s) = n
        BY <3>1, <3>2
      <3>3. CASE Cardinality(s) # n
        <4>1. Cardinality(s) \in Nat /\ n - 1 \in Nat /\ Cardinality(s) <= n - 1
          BY <1>0, <2>4, <3>3
        <4>2. g[s] = Nxt(g, s)
          BY <2>1, <4>1
        <4>3. h[s] = g[s]
          BY <3>3
        <4> QED BY <3>1, <4>2, <4>3
      <3> QED BY <3>2, <3>3
    <2> HIDE DEF h
    <2> QED BY <2>3, <2>4 DEF FoldUpTo
  <1> HIDE DEF Claim
  <1>2. ASSUME NEW n \in B PROVE \E l \in B : l < n
    <2>1. n \in Nat /\ n - 1 \in Nat /\ ~ Claim(n - 1)
      BY <1>1, <1>2
    <2>2. n - 1 \in B /\ n - 1 < n
      BY <2>1
    <2> QED BY <2>2
  <1>3. B = {}
    <2>1. B \subseteq Nat
      OBVIOUS
    <2> HIDE DEF B
    <2> QED BY <1>2, <2>1, NoneFails
  <1>4. \A n \in Nat : Claim(n)
    BY <1>3
  <1> QED BY <1>4 DEF Claim

(* There is a fold: its recursion defines something. *)
LEMMA FoldExists ==
  ASSUME NEW S, IsFiniteSet(S), NEW T, NEW base \in T, NEW step \in [S -> [T -> T]],
         NEW first, Picks(first, S)
  PROVE  HasFold(T, base, first, step, S)
  <1>1. PICK g \in [SUBSET S -> T] :
          \A s \in SUBSET S :
            Cardinality(s) <= Cardinality(S) => g[s] = NextFold(g, base, first, step, s)
    <2>1. Cardinality(S) \in Nat
      BY FS_CardinalityType
    <2>2. FoldUpTo(T, base, first, step, S, Cardinality(S))
      BY <2>1, FoldUpToAny
    <2> QED BY <2>2 DEF FoldUpTo
  <1>2. \A s \in SUBSET S : Cardinality(s) <= Cardinality(S)
    BY FS_Subset
  <1>3. \A s \in SUBSET S : g[s] = NextFold(g, base, first, step, s)
    BY <1>1, <1>2
  <1>4. g = [s \in SUBSET S |-> NextFold(g, base, first, step, s)]
    BY <1>3
  <1> QED BY <1>4 DEF IsFold, HasFold

(* Induction over the subsets of S: those for which the claim fails are    *)
(* all outgrown by smaller ones.                                           *)
LEMMA NoSubsetFails ==
  ASSUME NEW S, IsFiniteSet(S), NEW Bad, Bad \subseteq SUBSET S,
         \A s \in Bad : \E t \in Bad : Cardinality(t) < Cardinality(s)
  PROVE  Bad = {}
  <1> DEFINE B == {n \in Nat : \E s \in Bad : Cardinality(s) = n}
  <1>0. \A s \in Bad : Cardinality(s) \in Nat
    BY FS_Subset, FS_CardinalityType
  <1>1. ASSUME NEW n \in B PROVE \E l \in B : l < n
    <2>1. PICK s \in Bad : Cardinality(s) = n
      BY <1>1
    <2>2. PICK t \in Bad : Cardinality(t) < n
      BY <2>1
    <2>3. Cardinality(t) \in B
      BY <1>0, <2>2
    <2> QED BY <2>2, <2>3
  <1>2. B = {}
    <2>1. B \subseteq Nat
      OBVIOUS
    <2> HIDE DEF B
    <2> QED BY <1>1, <2>1, NoneFails
  <1> QED BY <1>0, <1>2

-----------------------------------------------------------------------------
(* The fold that SumOf is.                                                 *)

(* The member a fold takes first. *)
First(s) == CHOOSE x \in s : TRUE

LEMMA FirstLaw == \A s : s # {} => First(s) \in s
  BY DEF First

(* g adds up m over the subsets of S, as the fold does. *)
Sums(g, m, S) ==
  g = [s \in SUBSET S |-> IF s = {} THEN 0 ELSE m[First(s)] + g[s \ {First(s)}]]

TheSums(m, S) == CHOOSE g : Sums(g, m, S)

LEMMA SumOfFold ==
  ASSUME NEW m
  PROVE  LET S == {i \in Ids : m[i] # Absent}
         IN  SumOf(m) = TheSums(m, S)[S]
  BY DEF SumOf, MapThenSumSet, MapThenFoldSet, TheSums, Sums, First

(* What the fold would take next, from the results g for smaller sets. *)
NextSum(g, m, s) == IF s = {} THEN 0 ELSE m[First(s)] + g[s \ {First(s)}]

LEMMA TheSumsExist ==
  ASSUME NEW S, IsFiniteSet(S), NEW m, \A i \in S : m[i] \in Int
  PROVE  Sums(TheSums(m, S), m, S)
  <1> DEFINE first == [s \in SUBSET S |-> First(s)]
             step == [i \in S |-> [y \in Int |-> m[i] + y]]
             T == Int
             base == 0
  <1>1. Picks(first, S)
    BY FirstLaw DEF Picks
  <1>2. step \in [S -> [T -> T]] /\ base \in T
    OBVIOUS
  <1> HIDE DEF first, step, T, base
  <1>3. PICK g \in [SUBSET S -> T] : IsFold(g, base, first, step, S)
    BY <1>1, <1>2, FoldExists DEF HasFold
  <1>4. ASSUME NEW s \in SUBSET S
        PROVE  g[s] = IF s = {} THEN 0 ELSE m[First(s)] + g[s \ {First(s)}]
    <2>1. g[s] = IF s = {} THEN 0 ELSE step[first[s]][g[s \ {first[s]}]]
      BY <1>3 DEF IsFold, NextFold, base
    <2>2. ASSUME s # {}
          PROVE  step[first[s]][g[s \ {first[s]}]] = m[First(s)] + g[s \ {First(s)}]
      <3>1. first[s] = First(s) /\ First(s) \in S
        BY <2>2, FirstLaw DEF first
      <3>2. g[s \ {First(s)}] \in Int
        BY DEF T
      <3> QED BY <3>1, <3>2 DEF step
    <2> QED BY <2>1, <2>2
  <1>5. Sums(g, m, S)
    BY <1>4 DEF Sums
  <1> QED BY <1>5 DEF TheSums

LEMMA SumsAt ==
  ASSUME NEW S, NEW m, NEW g, Sums(g, m, S), NEW s \in SUBSET S
  PROVE  g[s] = NextSum(g, m, s)
  BY DEF Sums, NextSum

(* Any member may be taken out first. *)
LEMMA AnyFirst ==
  ASSUME NEW S, IsFiniteSet(S), NEW m, \A i \in S : m[i] \in Int,
         NEW g, Sums(g, m, S)
  PROVE  \A s \in SUBSET S : g[s] \in Int /\ \A x \in s : g[s] = m[x] + g[s \ {x}]
  <1> DEFINE Good(s) == g[s] \in Int /\ \A x \in s : g[s] = m[x] + g[s \ {x}]
             B == {n \in Nat : \E s \in SUBSET S : Cardinality(s) = n /\ ~ Good(s)}
  <1>0. \A s \in SUBSET S : Cardinality(s) \in Nat
    BY FS_Subset, FS_CardinalityType
  <1>1. ASSUME NEW s \in SUBSET S,
               \A t \in SUBSET S : Cardinality(t) < Cardinality(s) => Good(t)
        PROVE  Good(s)
    <2>1. CASE s = {}
      BY <2>1, SumsAt DEF NextSum
    <2>2. CASE s # {}
      <3> DEFINE y == First(s)
      <3>1. y \in s /\ m[y] \in Int
        BY <2>2, FirstLaw
      <3>2. g[s] = m[y] + g[s \ {y}]
        BY <2>2, SumsAt DEF NextSum
      <3> HIDE DEF y
      <3>3. ASSUME NEW x \in s PROVE Good(s \ {x})
        <4>1. Cardinality(s \ {x}) < Cardinality(s) /\ s \ {x} \in SUBSET S
          BY Smaller
        <4> QED BY <1>1, <4>1
      <3>4. g[s \ {y}] \in Int /\ g[s] \in Int
        <4>1. g[s \ {y}] \in Int
          BY <3>1, <3>3
        <4> QED BY <3>1, <3>2, <4>1
      <3>5. ASSUME NEW x \in s PROVE g[s] = m[x] + g[s \ {x}]
        <4>1. CASE x = y
          BY <3>2, <4>1
        <4>2. CASE x # y
          <5> DEFINE r == (s \ {y}) \ {x}
          <5>1. r = (s \ {x}) \ {y}
            OBVIOUS
          <5>2. g[s \ {y}] = m[x] + g[r]
            BY <3>1, <3>3, <4>2
          <5>3. g[s \ {x}] = m[y] + g[(s \ {x}) \ {y}]
            BY <3>1, <3>3, <4>2
          <5>4. r \in SUBSET S /\ Cardinality(r) < Cardinality(s)
            <6>1. x \in s \ {y} /\ s \ {y} \in SUBSET S
              BY <4>2
            <6>2. /\ Cardinality(s) \in Nat /\ Cardinality(s \ {y}) \in Nat
                  /\ Cardinality(s \ {y}) = Cardinality(s) - 1
              BY <3>1, Smaller
            <6>3. Cardinality(r) = Cardinality(s \ {y}) - 1 /\ r \in SUBSET S
              BY <6>1, Smaller
            <6> HIDE DEF r
            <6> QED BY <6>2, <6>3
          <5>5. g[r] \in Int
            BY <1>1, <5>4
          <5> HIDE DEF r
          <5>6. g[s \ {x}] = m[y] + g[r]
            BY <5>1, <5>3
          <5>7. m[x] \in Int
            OBVIOUS
          <5> QED BY <3>1, <3>2, <5>2, <5>5, <5>6, <5>7
        <4> QED BY <4>1, <4>2
      <3> QED BY <3>4, <3>5
    <2> QED BY <2>1, <2>2
  <1> HIDE DEF Good
  <1>2. ASSUME NEW n \in B PROVE \E l \in B : l < n
    <2>1. PICK s \in SUBSET S : Cardinality(s) = n /\ ~ Good(s)
      BY <1>2
    <2>2. PICK t \in SUBSET S : Cardinality(t) < n /\ ~ Good(t)
      BY <1>1, <2>1
    <2>3. Cardinality(t) \in B
      BY <1>0, <2>2
    <2> QED BY <2>2, <2>3
  <1>3. B = {}
    <2>1. B \subseteq Nat
      OBVIOUS
    <2> HIDE DEF B
    <2> QED BY <1>2, <2>1, NoneFails
  <1>4. \A s \in SUBSET S : Good(s)
    BY <1>0, <1>3
  <1> QED BY <1>4 DEF Good

(* Sums do not depend on what else there is to add up. *)
LEMMA SumsAgree ==
  ASSUME NEW S, NEW T, IsFiniteSet(T), S \subseteq T, NEW m, NEW w,
         \A i \in S : m[i] = w[i], NEW g, Sums(g, m, S), NEW h, Sums(h, w, T)
  PROVE  \A s \in SUBSET S : g[s] = h[s]
  <1> DEFINE B == {n \in Nat : \E s \in SUBSET S : Cardinality(s) = n /\ g[s] # h[s]}
  <1>0. IsFiniteSet(S) /\ \A s \in SUBSET S : Cardinality(s) \in Nat
    BY FS_Subset, FS_CardinalityType
  <1>1. ASSUME NEW s \in SUBSET S,
               \A t \in SUBSET S : Cardinality(t) < Cardinality(s) => g[t] = h[t]
        PROVE  g[s] = h[s]
    <2>1. g[s] = NextSum(g, m, s)
      BY SumsAt
    <2>2. h[s] = NextSum(h, w, s)
      <3>1. s \in SUBSET T
        OBVIOUS
      <3> QED BY <3>1, SumsAt
    <2>3. CASE s = {}
      BY <2>1, <2>2, <2>3 DEF NextSum
    <2>4. CASE s # {}
      <3>1. First(s) \in s /\ m[First(s)] = w[First(s)]
        BY <2>4, FirstLaw
      <3>2. /\ Cardinality(s \ {First(s)}) < Cardinality(s)
            /\ s \ {First(s)} \in SUBSET S
        BY <1>0, <3>1, Smaller
      <3>3. g[s \ {First(s)}] = h[s \ {First(s)}]
        BY <1>1, <3>2
      <3> QED BY <2>1, <2>2, <2>4, <3>1, <3>3 DEF NextSum
    <2> QED BY <2>3, <2>4
  <1>2. ASSUME NEW n \in B PROVE \E l \in B : l < n
    <2>1. PICK s \in SUBSET S : Cardinality(s) = n /\ g[s] # h[s]
      BY <1>2
    <2>2. PICK t \in SUBSET S : Cardinality(t) < n /\ g[t] # h[t]
      BY <1>1, <2>1
    <2>3. Cardinality(t) \in B
      BY <1>0, <2>2
    <2> QED BY <2>2, <2>3
  <1>3. B = {}
    <2>1. B \subseteq Nat
      OBVIOUS
    <2> HIDE DEF B
    <2> QED BY <1>2, <2>1, NoneFails
  <1> QED BY <1>0, <1>3

-----------------------------------------------------------------------------
(* Sums of the items an index has been shown.                              *)

Numbers(m) == \A i \in Ids : m[i] # Absent => m[i] \in Int

LEMMA EmptySum == SumOf(EmptyStore) = 0
  <1>1. {i \in Ids : EmptyStore[i] # Absent} = {}
    BY DEF EmptyStore
  <1>2. SumOf(EmptyStore) = TheSums(EmptyStore, {})[{}]
    BY <1>1, SumOfFold
  <1>3. Sums(TheSums(EmptyStore, {}), EmptyStore, {})
    BY TheSumsExist, FS_EmptySet
  <1>4. TheSums(EmptyStore, {})[{}] = NextSum(TheSums(EmptyStore, {}), EmptyStore, {})
    BY <1>3, SumsAt
  <1> QED BY <1>2, <1>4 DEF NextSum

(* One item, whichever, taken out of the sum. *)
LEMMA SumStep ==
  ASSUME NEW m, m = [i \in Ids |-> m[i]], Numbers(m),
         NEW id \in Ids, m[id] # Absent
  PROVE  LET rest == [m EXCEPT ![id] = Absent]
         IN  /\ SumOf(m) \in Int /\ SumOf(rest) \in Int
             /\ SumOf(m) = m[id] + SumOf(rest)
  <1> DEFINE rest == [m EXCEPT ![id] = Absent]
             S == {i \in Ids : m[i] # Absent}
             R == {i \in Ids : rest[i] # Absent}
             g == TheSums(m, S)
             h == TheSums(rest, R)
  <1>1. R = S \ {id} /\ id \in S /\ \A i \in R : rest[i] = m[i]
    OBVIOUS
  <1>2. SumOf(m) = g[S] /\ SumOf(rest) = h[R]
    BY SumOfFold
  <1>3. IsFiniteSet(S) /\ IsFiniteSet(R)
    <2>1. IsFiniteSet(Ids)
      BY FS_Interval, MaxIdAssumption DEF Ids
    <2>2. S \in SUBSET Ids /\ R \in SUBSET Ids
      OBVIOUS
    <2> HIDE DEF S, R
    <2> QED BY <2>1, <2>2, FS_Subset
  <1>4. (\A i \in S : m[i] \in Int) /\ (\A i \in R : rest[i] \in Int)
    BY <1>1 DEF Numbers
  <1> HIDE DEF rest, S, R
  <1>5. Sums(g, m, S) /\ Sums(h, rest, R)
    BY <1>3, <1>4, TheSumsExist
  <1> HIDE DEF g, h
  <1>6. g[S] \in Int /\ g[S] = m[id] + g[S \ {id}]
    BY <1>1, <1>3, <1>4, <1>5, AnyFirst
  <1>7. h[R] \in Int
    BY <1>3, <1>4, <1>5, AnyFirst
  <1>8. h[R] = g[R]
    <2>1. R \subseteq S
      BY <1>1
    <2> QED BY <1>1, <1>3, <1>5, <2>1, SumsAgree
  <1> QED BY <1>1, <1>2, <1>6, <1>7, <1>8 DEF rest

-----------------------------------------------------------------------------
(* Updates.                                                                *)

(* An update record is one of the three kinds. *)
LEMMA UpdateCases ==
  ASSUME NEW S, NEW u \in UpdatesOf(S)
  PROVE  /\ u.id \in Ids
         /\ \/ u.type = "ADD" /\ u.new \in S /\ u = AddUpdate(u.id, u.new)
            \/ /\ u.type = "UPDATE" /\ u.old \in S /\ u.new \in S
               /\ u = UpdateUpdate(u.id, u.old, u.new)
            \/ u.type = "DELETE" /\ u.old \in S /\ u = DeleteUpdate(u.id, u.old)
  BY DEF UpdatesOf, AddUpdate, UpdateUpdate, DeleteUpdate

(* filterMapUpdate answers with an update of what f returns, or with none. *)
LEMMA FilterMapType ==
  ASSUME NEW S, NEW T, NEW u \in UpdatesOf(S),
         NEW f \in [S -> T \cup {Undefined}]
  PROVE  LET v == filterMapUpdate(f, u)
         IN  v.type # "NONE" => v \in UpdatesOf(T) /\ v.id = u.id
  <1> DEFINE v == filterMapUpdate(f, u)
  <1> USE UpdateCases
  <1>1. CASE u.type = "ADD"
    BY <1>1 DEF filterMapUpdate, UpdatesOf, AddUpdate, NoUpdate
  <1>2. CASE u.type = "DELETE"
    BY <1>2 DEF filterMapUpdate, UpdatesOf, DeleteUpdate, NoUpdate
  <1>3. CASE u.type = "UPDATE"
    BY <1>3 DEF filterMapUpdate, UpdatesOf, AddUpdate, UpdateUpdate,
                DeleteUpdate, NoUpdate
  <1> QED BY <1>1, <1>2, <1>3

(* premap shows its inner index exactly the change of what the index is    *)
(* entitled to see: mapping an update and mapping the contents commute.    *)
LEMMA PremapCommutes ==
  ASSUME NEW S, Absent \notin S, NEW f \in [S -> Key \cup {Undefined}],
         NEW u \in UpdatesOf(S), NEW m \in Stores(S), Describes(u, m)
  PROVE  LET v == filterMapUpdate(f, u)
             p == Premapped(f, m)
         IN  /\ p \in Stores(Key)
             /\ v.type = "NONE" => Premapped(f, Applied(u, m)) = p
             /\ v.type # "NONE" => /\ Describes(v, p)
                                   /\ Premapped(f, Applied(u, m)) = Applied(v, p)
  <1> DEFINE v == filterMapUpdate(f, u)
             p == Premapped(f, m)
             q == Premapped(f, Applied(u, m))
             key(x) == IF f[x] = Undefined THEN Absent ELSE f[x]
             before == IF u.type = "ADD" THEN Absent ELSE key(u.old)
             after  == IF u.type = "DELETE" THEN Absent ELSE key(u.new)
  <1> USE AbsentAssumption, KeyAssumption
  <1>0. u.id \in Ids
    BY UpdateCases
  <1>1. p \in Stores(Key) /\ p[u.id] = before
    BY <1>0, UpdateCases DEF Premapped, Stores, Describes
  <1>2. q \in Stores(Key) /\ q[u.id] = after
    BY <1>0, UpdateCases DEF Premapped, Applied, Stores
  <1>3. \A i \in Ids : i # u.id => q[i] = p[i]
    BY DEF Premapped, Applied, Stores
  <1>4. q = [p EXCEPT ![u.id] = after]
    <2> HIDE DEF p, q, after
    <2> QED BY <1>0, <1>1, <1>2, <1>3 DEF Stores
  <1>5. CASE v.type = "NONE"
    <2>1. before = Absent /\ after = Absent
      BY <1>5, UpdateCases
         DEF filterMapUpdate, AddUpdate, UpdateUpdate, DeleteUpdate
    <2> HIDE DEF p, q, before, after
    <2>2. q = p
      BY <1>0, <1>1, <1>4, <2>1 DEF Stores
    <2> QED BY <1>1, <1>5, <2>2 DEF p, q
  <1>6. CASE v.type # "NONE"
    <2>1. /\ v.id = u.id
          /\ IF v.type = "ADD" THEN before = Absent ELSE before = v.old
          /\ after = IF v.type = "DELETE" THEN Absent ELSE v.new
      BY <1>6, UpdateCases
         DEF filterMapUpdate, AddUpdate, UpdateUpdate, DeleteUpdate, NoUpdate
    <2> HIDE DEF p, q, v, before, after
    <2>2. Describes(v, p)
      BY <1>1, <2>1 DEF Describes
    <2>3. q = Applied(v, p)
      BY <1>4, <2>1 DEF Applied
    <2> QED BY <1>1, <1>6, <2>2, <2>3 DEF p, q, v
  <1> QED BY <1>5, <1>6

-----------------------------------------------------------------------------
(* The aggregates.  Each law: from the state for m, the hook of an update   *)
(* that describes a change of m does not throw and leads to the state for  *)
(* m after the update.                                                     *)

LEMMA CountLaw ==
  ASSUME NEW m \in Stores(Key), NEW u \in UpdatesOf(Key), Describes(u, m),
         NEW n, CountMirrors(n, m)
  PROVE  /\ CountHook(n, u).exn = "none"
         /\ CountMirrors(CountHook(n, u).ix, Applied(u, m))
  <1> DEFINE S == {i \in Ids : m[i] # Absent}
             T == {i \in Ids : Applied(u, m)[i] # Absent}
  <1>1. IsFiniteSet(Ids)
    BY FS_Interval, MaxIdAssumption DEF Ids
  <1>2. IsFiniteSet(S)
    BY <1>1, FS_Subset
  <1>3. CASE u.type = "ADD"
    <2>1. u.id \notin S /\ T = S \cup {u.id}
      BY <1>3, UpdateCases, AbsentAssumption DEF Applied, Describes, Stores
    <2>2. Cardinality(T) = Cardinality(S) + 1
      BY <1>2, <2>1, FS_AddElement
    <2> QED BY <1>3, <2>2 DEF CountHook, FoldHook, CountMirrors, CountOf, Done
  <1>4. CASE u.type = "DELETE"
    <2>1. u.id \in S /\ T = S \ {u.id}
      BY <1>4, UpdateCases, AbsentAssumption DEF Applied, Describes, Stores
    <2>2. Cardinality(T) = Cardinality(S) - 1
      BY <1>2, <2>1, FS_RemoveElement
    <2> QED BY <1>4, <2>2 DEF CountHook, FoldHook, CountMirrors, CountOf, Done
  <1>5. CASE u.type = "UPDATE"
    <2>1. T = S
      BY <1>5, UpdateCases, AbsentAssumption DEF Applied, Describes, Stores
    <2> QED BY <1>5, <2>1 DEF CountHook, FoldHook, CountMirrors, CountOf, Done
  <1> QED BY <1>3, <1>4, <1>5, UpdateCases

(* The sum after an update of numbers. *)
LEMMA SumChange ==
  ASSUME NEW m \in Stores(Key), NEW u \in UpdatesOf(Key \cap Int), Describes(u, m),
         Numbers(m)
  PROVE  /\ SumOf(m) \in Int
         /\ SumOf(Applied(u, m)) =
              SumOf(m) + (IF u.type = "ADD" THEN 0 ELSE 0 - u.old)
                       + (IF u.type = "DELETE" THEN 0 ELSE u.new)
  <1> DEFINE rest == [m EXCEPT ![u.id] = Absent]
             q == Applied(u, m)
  <1>0. /\ u.id \in Ids
        /\ u.type \in {"ADD", "UPDATE", "DELETE"}
        /\ u.type # "DELETE" => u.new \in Key \cap Int
        /\ u.type # "ADD" => u.old \in Key \cap Int
    BY UpdateCases
  <1>1. \A k \in Key : k # Absent
    BY AbsentAssumption
  <1>2. m = [i \in Ids |-> m[i]]
    BY DEF Stores
  <1>3. q = [i \in Ids |-> IF i = u.id
                           THEN IF u.type = "DELETE" THEN Absent ELSE u.new ELSE m[i]]
    BY <1>0, <1>2 DEF Applied
  <1>4. rest = [i \in Ids |-> IF i = u.id THEN Absent ELSE m[i]]
    BY <1>0, <1>2
  <1> HIDE DEF q, rest
  <1>5. q = [i \in Ids |-> q[i]] /\ Numbers(q)
    BY <1>0, <1>3 DEF Numbers
  <1>6. [q EXCEPT ![u.id] = Absent] = rest
    BY <1>0, <1>3, <1>4
  <1>7. u.type # "ADD" =>
          /\ SumOf(m) \in Int /\ SumOf(rest) \in Int
          /\ SumOf(m) = u.old + SumOf(rest)
    <2> SUFFICES ASSUME u.type # "ADD"
                 PROVE  /\ SumOf(m) \in Int /\ SumOf(rest) \in Int
                        /\ SumOf(m) = u.old + SumOf(rest)
      OBVIOUS
    <2>1. m[u.id] = u.old /\ m[u.id] # Absent
      BY <1>0, <1>1 DEF Describes
    <2> QED BY <1>0, <1>2, <2>1, SumStep DEF rest
  <1>8. u.type # "DELETE" =>
          /\ SumOf(q) \in Int /\ SumOf(rest) \in Int
          /\ SumOf(q) = u.new + SumOf(rest)
    <2> SUFFICES ASSUME u.type # "DELETE"
                 PROVE  /\ SumOf(q) \in Int /\ SumOf(rest) \in Int
                        /\ SumOf(q) = u.new + SumOf(rest)
      OBVIOUS
    <2>1. q[u.id] = u.new /\ q[u.id] # Absent
      BY <1>0, <1>1, <1>3
    <2> QED BY <1>0, <1>5, <1>6, <2>1, SumStep
  <1>9. u.type = "ADD" => rest = m
    BY <1>2, <1>4 DEF Describes
  <1>10. u.type = "DELETE" => q = rest
    BY <1>3, <1>4
  <1>11. SumOf(m) \in Int
    BY <1>7, <1>8, <1>9
  <1>12. CASE u.type = "ADD"
    BY <1>0, <1>8, <1>9, <1>12 DEF q
  <1>13. CASE u.type = "DELETE"
    BY <1>0, <1>7, <1>10, <1>13 DEF q
  <1>14. CASE u.type = "UPDATE"
    BY <1>0, <1>7, <1>8, <1>14 DEF q
  <1> QED BY <1>0, <1>11, <1>12, <1>13, <1>14

LEMMA SumLaw ==
  ASSUME NEW m \in Stores(Key), NEW u \in UpdatesOf(Key \cap Int), Describes(u, m),
         Numbers(m), NEW st, SumMirrors(st, m)
  PROVE  /\ SumHook(st, u).exn = "none"
         /\ SumMirrors(SumHook(st, u).ix, Applied(u, m))
  <1> DEFINE c == SumOf(m)
             e == SumOf(Applied(u, m))
  <1>1. /\ c \in Int
        /\ e = c + (IF u.type = "ADD" THEN 0 ELSE 0 - u.old)
                 + (IF u.type = "DELETE" THEN 0 ELSE u.new)
    BY SumChange
  <1>2. st = c
    BY DEF SumMirrors
  <1> HIDE DEF c, e
  <1>3. SumHook(st, u).exn = "none" /\ SumHook(st, u).ix = e
    BY <1>1, <1>2, UpdateCases
       DEF SumHook, AlgebraicGroupHook, FoldHook, append, inverse, Done
  <1> QED BY <1>3 DEF SumMirrors, e

(* The mean's pair follows the sum and the count. *)
LEMMA MeanLaw ==
  ASSUME NEW m \in Stores(Key), NEW u \in UpdatesOf(Key \cap Int), Describes(u, m),
         Numbers(m), NEW st, MeanMirrors(st, m)
  PROVE  /\ MeanHook(st, u).exn = "none"
         /\ MeanMirrors(MeanHook(st, u).ix, Applied(u, m))
  <1> DEFINE f == [k \in Key |-> [sum |-> k, count |-> 1]]
             v == filterMapUpdate(f, u)
             c == SumOf(m)
             e == SumOf(Applied(u, m))
             n == CountOf(m)
             l == CountOf(Applied(u, m))
  <1>0. /\ u.type \in {"ADD", "UPDATE", "DELETE"}
        /\ u.type # "DELETE" => u.new \in Key \cap Int
        /\ u.type # "ADD" => u.old \in Key \cap Int
    BY UpdateCases
  <1>1. /\ c \in Int
        /\ e = c + (IF u.type = "ADD" THEN 0 ELSE 0 - u.old)
                 + (IF u.type = "DELETE" THEN 0 ELSE u.new)
    BY SumChange
  <1>2. /\ n \in Nat
        /\ l = IF u.type = "ADD" THEN n + 1 ELSE IF u.type = "DELETE" THEN n - 1 ELSE n
    <2>1. u \in UpdatesOf(Key)
      BY DEF UpdatesOf
    <2>2. CountHook(n, u).ix = l
      BY <2>1, CountLaw DEF CountMirrors
    <2>3. n \in Nat
      <3>1. IsFiniteSet(Ids)
        BY FS_Interval, MaxIdAssumption DEF Ids
      <3>2. IsFiniteSet({i \in Ids : m[i] # Absent})
        BY <3>1, FS_Subset
      <3> QED BY <3>2, FS_CardinalityType DEF CountOf
    <2> HIDE DEF n, l
    <2> QED BY <1>0, <2>2, <2>3 DEF CountHook, FoldHook, Done
  <1>3. st = [sum |-> c, count |-> n]
    BY DEF MeanMirrors
  <1> HIDE DEF c, e, n, l
  <1>4. \A k \in Key \cap Int : f[k] = [sum |-> k, count |-> 1] /\ f[k] # Undefined
    BY PairAssumption
  <1>5. MeanHook(st, u) = AlgebraicGroupHook("mean", st, v)
    BY DEF MeanHook
  <1> HIDE DEF f
  <1>6. /\ v.type = u.type
        /\ u.type # "DELETE" => v.new = [sum |-> u.new, count |-> 1]
        /\ u.type # "ADD" => v.old = [sum |-> u.old, count |-> 1]
    BY <1>0, <1>4 DEF filterMapUpdate, AddUpdate, UpdateUpdate, DeleteUpdate
  <1> HIDE DEF v
  <1>7. MeanHook(st, u).exn = "none"
    BY <1>5 DEF AlgebraicGroupHook, FoldHook, Done
  <1>8. MeanHook(st, u).ix = [sum |-> e, count |-> l]
    <2>1. CASE u.type = "ADD"
      BY <1>0, <1>1, <1>2, <1>3, <1>5, <1>6, <2>1
         DEF AlgebraicGroupHook, FoldHook, append, inverse, Done
    <2>2. CASE u.type = "DELETE"
      BY <1>0, <1>1, <1>2, <1>3, <1>5, <1>6, <2>2
         DEF AlgebraicGroupHook, FoldHook, append, inverse, Done
    <2>3. CASE u.type = "UPDATE"
      BY <1>0, <1>1, <1>2, <1>3, <1>5, <1>6, <2>3
         DEF AlgebraicGroupHook, FoldHook, append, inverse, Done
    <2> QED BY <1>0, <2>1, <2>2, <2>3
  <1> QED BY <1>7, <1>8 DEF MeanMirrors, e, l
=============================================================================
